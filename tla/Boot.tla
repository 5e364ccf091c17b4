-------------------------------- MODULE Boot --------------------------------
(***************************************************************************)
(* The start of a RediBox instance: its clients connect, close and connect *)
(* again; when each has been ready once the modules are mounted, 'ready' is *)
(* emitted and the callback answered; a timer answers with an error before  *)
(* that.  One action is one callback of the event loop, or one call of the  *)
(* application.                                                            *)
(***************************************************************************)
EXTENDS Naturals, FiniteSets

VARIABLES
  opt,       \* the options of the instance
  phase,     \* "new", "built", "thrown" (by the constructor), "died" (uncaught)
  status,    \* of each client, as ioredis has it
  reported,  \* clients whose 'ready' listener has been called
  left,      \* n of after(n, ...)
  timer,     \* "none", "armed", "cleared", "fired"
  emitter,   \* is there subscriberMessageEvents?
  mounted,   \* have the modules been mounted, and 'ready' emitted?
  pending,   \* is the callback waiting in setImmediate?
  quitting,  \* clients with a QUIT in their queue
  answers    \* calls of readyCallback: how often it was told "ok" and "error"

vars == <<opt, phase, status, reported, left, timer, emitter, mounted, pending,
          quitting, answers>>

\* hosts: is there a list of hosts, and a host in it?  schedule: is that
\* module, whose constructor subscribes, enabled?
Options ==
  [cluster : BOOLEAN, clusterScaleReads : BOOLEAN, publisher : BOOLEAN, subscriber : BOOLEAN,
   hosts : BOOLEAN, schedule : BOOLEAN]

ScalesReads == opt.cluster /\ opt.clusterScaleReads

AllClients == {"client", "client_read", "subscriber", "publisher"}

Clients ==
  {"client"} \cup (IF ScalesReads THEN {"client_read"} ELSE {})
             \cup (IF opt.subscriber THEN {"subscriber"} ELSE {})
             \cup (IF opt.publisher THEN {"publisher"} ELSE {})

Number(b) == IF b THEN 1 ELSE 0

ReportsUnscaled == 1 + Number(opt.publisher) + Number(opt.subscriber)   \* mutation
Reports == 1 + Number(ScalesReads) + Number(opt.publisher) + Number(opt.subscriber)

Init ==
  /\ opt \in Options
  /\ phase = "new"
  /\ status = [c \in AllClients |-> "none"]
  /\ reported = {} /\ quitting = {}
  /\ left = 0
  /\ timer = "none"
  /\ emitter = FALSE /\ mounted = FALSE /\ pending = FALSE
  /\ answers = [ok |-> 0, error |-> 0]

\* The constructor.  In cluster mode without hosts it throws, the timer armed.
Construct ==
  /\ phase = "new"
  /\ timer' = "armed"
  /\ left' = Reports
  /\ IF opt.cluster /\ ~opt.hosts
     THEN phase' = "thrown" /\ UNCHANGED status
     ELSE /\ phase' = "built"
          /\ status' = [c \in AllClients |-> IF c \in Clients THEN "connecting" ELSE "none"]
  /\ UNCHANGED <<opt, reported, emitter, mounted, pending, quitting, answers>>

----------------------------------------------------------------------------
(* callBackOnce and reportReady.                                           *)

AnswerAgain(a) == answers' = [answers EXCEPT ![a] = @ + 1]   \* mutation: no once
Answer(a) ==
  answers' = IF answers.ok + answers.error = 0 THEN [answers EXCEPT ![a] = 1] ELSE answers

LastReport == left = 1

ClearsAtOnce == TRUE   \* mutation: the first client clears the timer
ClearsNever == FALSE   \* mutation: nobody does
Clears == LastReport

\* Every report counts; the last one clears the timer, mounts the modules,
\* emits 'ready' and puts the callback into setImmediate.  subscribe in the
\* constructor of the scheduler needs the emitter: without it, it throws out of
\* the listener.
Report(hasEmitter) ==
  /\ left' = left - 1
  /\ timer' = IF Clears /\ timer = "armed" THEN "cleared" ELSE timer
  /\ IF ~LastReport
     THEN UNCHANGED <<phase, mounted, pending>>
     ELSE IF opt.schedule /\ ~hasEmitter
     THEN phase' = "died" /\ UNCHANGED <<mounted, pending>>
     ELSE mounted' = TRUE /\ pending' = TRUE /\ UNCHANGED phase

ReportsEach(c) == left > 0   \* mutation: on('ready') for once('ready')
ReportsOnce(c) == c \notin reported

EmitterAtReport(c) == emitter \/ c = "subscriber"

\* A client is ready, the first time or again.
ClientReady(c) ==
  /\ phase = "built" /\ status[c] \in {"connecting", "reconnecting"}
  /\ status' = [status EXCEPT ![c] = "ready"]
  /\ IF ReportsOnce(c)
     THEN /\ reported' = reported \cup {c}
          /\ emitter' = (emitter \/ c = "subscriber")
          /\ Report(EmitterAtReport(c))
     ELSE UNCHANGED <<phase, reported, emitter, left, timer, mounted, pending>>
  /\ UNCHANGED <<opt, quitting, answers>>

ClientClosed(c) ==
  /\ phase = "built" /\ status[c] = "ready"
  /\ status' = [status EXCEPT ![c] = "reconnecting"]
  /\ UNCHANGED <<opt, phase, reported, left, timer, emitter, mounted, pending, quitting, answers>>

\* connectFailedTimeout
ConnectionTimeout ==
  /\ phase # "died" /\ timer = "armed"
  /\ timer' = "fired"
  /\ Answer("error")
  /\ UNCHANGED <<opt, phase, status, reported, left, emitter, mounted, pending, quitting>>

Callback ==
  /\ phase # "died" /\ pending
  /\ pending' = FALSE
  /\ Answer("ok")
  /\ UNCHANGED <<opt, phase, status, reported, left, timer, emitter, mounted, quitting>>

----------------------------------------------------------------------------
(* quit and disconnect call client where they mean client_read.            *)

Closed == Clients \ {"client_read"}

\* QUIT waits in the queue of a client that is not connected.
Quit ==
  /\ phase = "built"
  /\ quitting' = {c \in Closed : status[c] # "end"}
  /\ UNCHANGED <<opt, phase, status, reported, left, timer, emitter, mounted, pending, answers>>

ClientQuits(c) ==
  /\ phase = "built" /\ c \in quitting /\ status[c] = "ready"
  /\ quitting' = quitting \ {c}
  /\ status' = [status EXCEPT ![c] = "end"]
  /\ UNCHANGED <<opt, phase, reported, left, timer, emitter, mounted, pending, answers>>

Disconnect ==
  /\ phase = "built"
  /\ status' = [c \in AllClients |-> IF c \in Closed THEN "end" ELSE status[c]]
  /\ quitting' = {}
  /\ UNCHANGED <<opt, phase, reported, left, timer, emitter, mounted, pending, answers>>

----------------------------------------------------------------------------
Next ==
  \/ Construct \/ ConnectionTimeout \/ Callback
  \/ Quit \/ Disconnect
  \/ \E c \in AllClients : ClientReady(c) \/ ClientClosed(c) \/ ClientQuits(c)

Spec == Init /\ [][Next]_vars

\* The event loop runs timers and setImmediate.  Nothing obliges a client to
\* connect, or the application to quit.
LiveSpec == Spec /\ WF_vars(Construct) /\ WF_vars(ConnectionTimeout) /\ WF_vars(Callback)

----------------------------------------------------------------------------
(* Properties.                                                             *)

Status == {"none", "connecting", "ready", "reconnecting", "end"}

\* Values have their types; the count of after(n, ...) is that of the clients
\* still to report.
TypeOK ==
  /\ opt \in Options
  /\ phase \in {"new", "built", "thrown", "died"}
  /\ status \in [AllClients -> Status]
  /\ reported \in SUBSET Clients /\ quitting \in SUBSET Clients
  /\ phase \in {"built", "died"} => left = Cardinality(Clients \ reported)
  /\ timer \in {"none", "armed", "cleared", "fired"}
  /\ emitter \in BOOLEAN /\ mounted \in BOOLEAN /\ pending \in BOOLEAN
  /\ answers \in [ok : Nat, error : Nat]

\* The application is answered at most once, though clients may still become
\* ready, and the modules be mounted, after the timer has answered; and until
\* it is, the timer or the callback is there to do it.
OneAnswer ==
  /\ answers.ok + answers.error <= 1
  /\ phase \in {"built", "thrown"} /\ answers.ok + answers.error = 0
       => timer = "armed" \/ pending

\* The modules are mounted, and the answer is ok, only after every client has
\* been ready, and with the emitter of the subscriber in place; mounting fails
\* only where a scheduler is asked for without a subscriber.
MountedWithAll ==
  /\ (mounted \/ answers.ok > 0) => (reported = Clients /\ (opt.subscriber => emitter))
  /\ phase = "died" => (opt.schedule /\ ~opt.subscriber)

\* An instance whose modules are mounted before the timer fires is never
\* answered with an error.
ErrorOnlyUnmounted == [][answers'.error > answers.error => ~mounted]_vars

\* The application is answered, whatever becomes of the connections, unless
\* the process dies.
Answered == phase # "new" ~> (answers.ok + answers.error > 0 \/ phase = "died")
=============================================================================
