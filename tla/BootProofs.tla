----------------------------- MODULE BootProofs -----------------------------
(* Proofs about Boot, whose only bound is the number of clients: what the  *)
(* application is told, and when the modules are mounted, for every choice *)
(* of the options and every order of the clients.                          *)
EXTENDS Boot, FiniteSetTheorems, TLAPS

----------------------------------------------------------------------------
(* The invariant.                                                          *)

\* Clients report only once they are there, the subscriber with its emitter;
\* a scheduler can only fail to be mounted after the last report.
Reporting ==
  /\ phase \in {"new", "thrown"} => reported = {}
  /\ phase = "new" <=> timer = "none"
  /\ "subscriber" \in reported => emitter
  /\ phase = "died" => reported = Clients

Connected == \A c \in AllClients : status[c] # "none" => c \in Clients

MountNeedsEmitter == phase = "died" => (opt.schedule /\ ~opt.subscriber)

\* Mounting takes the last report, which comes when the timer has been cleared
\* or has fired; each answer has its own cause.
Mounting ==
  /\ mounted => reported = Clients /\ timer \in {"cleared", "fired"}
  /\ pending => mounted
  /\ answers.ok > 0 => mounted
  /\ answers.error > 0 => timer = "fired"

BootInv == TypeOK /\ OneAnswer /\ MountNeedsEmitter /\ Reporting /\ Connected /\ Mounting

----------------------------------------------------------------------------
(* The count of after(n, ...).                                             *)

LEMMA ClientsCount == opt \in Options => IsFiniteSet(Clients) /\ Cardinality(Clients) = Reports
<1> SUFFICES ASSUME opt \in Options
             PROVE  IsFiniteSet(Clients) /\ Cardinality(Clients) = Reports
  OBVIOUS
<1> DEFINE R == IF ScalesReads THEN {"client_read"} ELSE {}
           S == IF opt.subscriber THEN {"subscriber"} ELSE {}
           P == IF opt.publisher THEN {"publisher"} ELSE {}
<1>1. IsFiniteSet({"client"}) /\ Cardinality({"client"}) = 1
  BY FS_Singleton
<1>2. /\ IsFiniteSet({"client"} \cup R)
      /\ Cardinality({"client"} \cup R) = 1 + Number(ScalesReads)
  <2>1. CASE ScalesReads
    BY <1>1, <2>1, FS_AddElement DEF Number
  <2>2. CASE ~ScalesReads
    BY <1>1, <2>2 DEF Number
  <2> QED
    BY <2>1, <2>2
<1>3. /\ IsFiniteSet({"client"} \cup R \cup S)
      /\ Cardinality({"client"} \cup R \cup S)
           = 1 + Number(ScalesReads) + Number(opt.subscriber)
  <2>1. CASE opt.subscriber
    <3>1. "subscriber" \notin {"client"} \cup R
      OBVIOUS
    <3> QED
      BY <1>2, <2>1, <3>1, FS_AddElement DEF Number
  <2>2. CASE ~opt.subscriber
    BY <1>2, <2>2 DEF Number
  <2> QED
    BY <2>1, <2>2
<1>4. /\ IsFiniteSet({"client"} \cup R \cup S \cup P)
      /\ Cardinality({"client"} \cup R \cup S \cup P)
           = 1 + Number(ScalesReads) + Number(opt.subscriber) + Number(opt.publisher)
  <2>1. CASE opt.publisher
    <3>1. "publisher" \notin {"client"} \cup R \cup S
      OBVIOUS
    <3> QED
      BY <1>3, <2>1, <3>1, FS_AddElement DEF Number
  <2>2. CASE ~opt.publisher
    BY <1>3, <2>2 DEF Number
  <2> QED
    BY <2>1, <2>2
<1> QED
  BY <1>4 DEF Clients, Reports, Number

\* What a report leaves to be waited for.
LEMMA ReportCounts ==
  ASSUME opt \in Options, reported \in SUBSET Clients, NEW c \in Clients \ reported
  PROVE  /\ Cardinality(Clients \ (reported \cup {c})) = Cardinality(Clients \ reported) - 1
         /\ Cardinality(Clients \ reported) \in Nat
         /\ Cardinality(Clients \ reported) = 1 => reported \cup {c} = Clients
<1>1. IsFiniteSet(Clients)
  BY ClientsCount
<1>2. IsFiniteSet(Clients \ reported)
  BY <1>1, FS_Difference
<1>3. Cardinality(Clients \ reported) \in Nat
  BY <1>2, FS_CardinalityType
<1>4. Clients \ (reported \cup {c}) = (Clients \ reported) \ {c}
  OBVIOUS
<1>5. /\ IsFiniteSet((Clients \ reported) \ {c})
      /\ Cardinality((Clients \ reported) \ {c}) = Cardinality(Clients \ reported) - 1
  BY <1>2, FS_RemoveElement
<1>6. ASSUME Cardinality(Clients \ reported) = 1 PROVE reported \cup {c} = Clients
  <2>1. Clients \ (reported \cup {c}) = {}
    BY <1>4, <1>5, <1>6, FS_EmptySet
  <2> QED
    BY <2>1
<1> QED
  BY <1>3, <1>4, <1>5, <1>6

----------------------------------------------------------------------------
(* The callbacks.                                                          *)

LEMMA InitBootInv == Init => BootInv
<1> SUFFICES ASSUME Init PROVE BootInv
  OBVIOUS
<1>1. status \in [AllClients -> Status]
  BY DEF Init, Status
<1>2. answers \in [ok : Nat, error : Nat]
  BY DEF Init
<1>3. answers.ok = 0 /\ answers.error = 0
  BY DEF Init
<1>4. TypeOK
  BY <1>1, <1>2 DEF Init, TypeOK
<1>5. Connected
  BY DEF Init, Connected
<1>6. OneAnswer /\ MountNeedsEmitter /\ Reporting /\ Mounting
  BY <1>3 DEF Init, OneAnswer, MountNeedsEmitter, Reporting, Mounting
<1> QED
  BY <1>4, <1>5, <1>6 DEF BootInv

\* once: an answer is the first or none.
LEMMA AnswerOnce ==
  ASSUME BootInv, NEW a \in {"ok", "error"}, Answer(a)
  PROVE  /\ answers' \in [ok : Nat, error : Nat]
         /\ answers'.ok + answers'.error = 1
         /\ answers'.ok > answers.ok => a = "ok"
         /\ answers'.error > answers.error => a = "error"
         /\ answers'.ok >= answers.ok /\ answers'.error >= answers.error
<1>1. answers \in [ok : Nat, error : Nat] /\ answers.ok \in Nat /\ answers.error \in Nat
  BY DEF BootInv, TypeOK
<1>2. CASE answers.ok + answers.error = 0
  <2>1. answers.ok = 0 /\ answers.error = 0
    BY <1>1, <1>2
  <2>2. answers' = [answers EXCEPT ![a] = 1]
    BY <1>2 DEF Answer
  <2>3. CASE a = "ok"
    <3>1. answers'.ok = 1 /\ answers'.error = 0 /\ answers' \in [ok : Nat, error : Nat]
      BY <1>1, <2>1, <2>2, <2>3
    <3> QED
      BY <2>1, <2>3, <3>1
  <2>4. CASE a = "error"
    <3>1. answers'.ok = 0 /\ answers'.error = 1 /\ answers' \in [ok : Nat, error : Nat]
      BY <1>1, <2>1, <2>2, <2>4
    <3> QED
      BY <2>1, <2>4, <3>1
  <2> QED
    BY <2>3, <2>4
<1>3. CASE answers.ok + answers.error # 0
  <2>1. answers' = answers
    BY <1>3 DEF Answer
  <2> QED
    BY <1>1, <1>3, <2>1 DEF BootInv, OneAnswer
<1> QED
  BY <1>2, <1>3

LEMMA ConstructInv == ASSUME BootInv, Construct PROVE BootInv'
<1> USE DEF BootInv
<1>1. /\ phase = "new" /\ timer' = "armed" /\ left' = Reports
      /\ reported = {} /\ ~mounted /\ ~pending
      /\ UNCHANGED <<opt, reported, emitter, mounted, pending, quitting, answers>>
  BY DEF Construct, Reporting, Mounting, TypeOK
<1>2. Clients' = Clients /\ opt \in Options
  BY <1>1 DEF Clients, ScalesReads, TypeOK
<1>3. left' = Cardinality(Clients' \ reported')
  BY <1>1, <1>2, ClientsCount
<1>4. CASE phase' = "thrown" /\ UNCHANGED status
  BY <1>1, <1>2, <1>4
  DEF TypeOK, OneAnswer, MountNeedsEmitter, Reporting, Connected, Mounting
<1>5. CASE /\ phase' = "built"
           /\ status' = [c \in AllClients |-> IF c \in Clients THEN "connecting" ELSE "none"]
  <2>1. status' \in [AllClients -> Status] /\ Connected'
    BY <1>2, <1>5 DEF Connected, Status
  <2>2. TypeOK'
    BY <1>1, <1>2, <1>3, <1>5, <2>1 DEF TypeOK
  <2> QED
    BY <1>1, <1>2, <1>5, <2>1, <2>2
    DEF OneAnswer, MountNeedsEmitter, Reporting, Mounting, TypeOK
<1> QED
  BY <1>4, <1>5 DEF Construct

\* Clients come, go and quit: nothing but their status changes.
LEMMA StatusInv ==
  ASSUME BootInv, status' \in [AllClients -> Status], quitting' \in SUBSET Clients,
         \A c \in AllClients : status'[c] # "none" => c \in Clients,
         UNCHANGED <<opt, phase, reported, left, timer, emitter, mounted, pending, answers>>
  PROVE  BootInv'
<1>1. Clients' = Clients
  BY DEF Clients, ScalesReads
<1> QED
  BY <1>1
  DEF BootInv, TypeOK, OneAnswer, MountNeedsEmitter, Reporting, Connected, Mounting

LEMMA ReportInv == ASSUME BootInv, NEW c \in AllClients, ClientReady(c) PROVE BootInv'
<1> USE DEF BootInv
<1>1. Clients' = Clients /\ opt \in Options /\ c \in Clients /\ phase = "built"
  BY DEF ClientReady, Clients, ScalesReads, TypeOK, Connected
<1>2. /\ status' \in [AllClients -> Status]
      /\ \A d \in AllClients : status'[d] # "none" => d \in Clients
      /\ UNCHANGED <<opt, quitting, answers>>
  <2>1. status \in [AllClients -> Status] /\ status' = [status EXCEPT ![c] = "ready"]
    BY DEF ClientReady, TypeOK
  <2> QED
    BY <1>1, <2>1 DEF ClientReady, Connected, Status
<1>3. CASE c \in reported
  <2>1. UNCHANGED <<phase, reported, emitter, left, timer, mounted, pending>>
    BY <1>3 DEF ClientReady, ReportsOnce
  <2> QED
    BY <1>2, <2>1, StatusInv DEF TypeOK
<1>4. CASE c \notin reported
  <2>1. /\ reported' = reported \cup {c}
        /\ emitter' = (emitter \/ c = "subscriber")
        /\ Report(EmitterAtReport(c))
    BY <1>4 DEF ClientReady, ReportsOnce
  <2>2. /\ left = Cardinality(Clients \ reported)
        /\ reported \in SUBSET Clients
    BY <1>1 DEF TypeOK
  <2>3. /\ left' = Cardinality(Clients' \ reported')
        /\ left = 1 => reported' = Clients
    BY <1>1, <1>4, <2>1, <2>2, ReportCounts DEF Report
  <2>4. /\ reported' \in SUBSET Clients' /\ emitter' \in BOOLEAN
        /\ "subscriber" \in reported' => emitter'
    BY <1>1, <2>1, <2>2 DEF TypeOK, Reporting
  <2>5. ~mounted /\ ~pending /\ answers.ok = 0
    BY <1>1, <1>4 DEF Mounting, TypeOK
  <2>6. /\ timer' = IF left = 1 /\ timer = "armed" THEN "cleared" ELSE timer
        /\ timer' \in {"none", "armed", "cleared", "fired"}
        /\ answers'.error > 0 => timer' = "fired"
    BY <1>2, <2>1 DEF Report, Clears, LastReport, TypeOK, Mounting
  <2>7. CASE left # 1
    <3>1. UNCHANGED <<phase, mounted, pending>>
      BY <2>1, <2>7 DEF Report, LastReport
    <3>2. timer' = timer
      BY <2>6, <2>7
    <3>3. OneAnswer'
      BY <1>2, <3>1, <3>2 DEF OneAnswer
    <3> QED
      BY <1>1, <1>2, <2>3, <2>4, <2>5, <2>6, <3>1, <3>3
      DEF TypeOK, MountNeedsEmitter, Reporting, Connected, Mounting
  <2>8. CASE left = 1 /\ opt.schedule /\ ~(emitter \/ c = "subscriber")
    <3>1. phase' = "died" /\ UNCHANGED <<mounted, pending>>
      BY <2>1, <2>8 DEF Report, LastReport, EmitterAtReport
    <3>2. reported' = Clients' /\ ~opt.subscriber
      BY <1>1, <2>1, <2>3, <2>4, <2>8 DEF Clients
    <3> QED
      BY <1>1, <1>2, <2>3, <2>4, <2>5, <2>6, <2>8, <3>1, <3>2
      DEF TypeOK, OneAnswer, MountNeedsEmitter, Reporting, Connected, Mounting
  <2>9. CASE left = 1 /\ ~(opt.schedule /\ ~(emitter \/ c = "subscriber"))
    <3>1. mounted' = TRUE /\ pending' = TRUE /\ UNCHANGED phase
      BY <2>1, <2>9 DEF Report, LastReport, EmitterAtReport
    <3>2. reported' = Clients' /\ timer' \in {"cleared", "fired"}
      BY <1>1, <2>3, <2>6, <2>9 DEF Reporting, TypeOK
    <3> QED
      BY <1>1, <1>2, <2>3, <2>4, <2>5, <2>6, <2>9, <3>1, <3>2
      DEF TypeOK, OneAnswer, MountNeedsEmitter, Reporting, Connected, Mounting
  <2> QED
    BY <2>7, <2>8, <2>9
<1> QED
  BY <1>3, <1>4

LEMMA NextBootInv == BootInv /\ [Next]_vars => BootInv'
<1> SUFFICES ASSUME BootInv, [Next]_vars PROVE BootInv'
  OBVIOUS
<1> USE DEF BootInv
<1>1. CASE Construct
  BY <1>1, ConstructInv
<1>2. CASE ConnectionTimeout
  <2>1. /\ timer = "armed" /\ timer' = "fired" /\ Answer("error")
        /\ UNCHANGED <<opt, phase, status, reported, left, emitter, mounted, pending, quitting>>
    BY <1>2 DEF ConnectionTimeout
  <2>2. /\ answers' \in [ok : Nat, error : Nat]
        /\ answers'.ok + answers'.error = 1
        /\ answers'.ok > 0 => answers.ok > 0
    <3>1. ~(answers'.ok > answers.ok)
      BY <2>1, AnswerOnce
    <3> QED
      BY <2>1, <3>1, AnswerOnce DEF TypeOK
  <2>3. Clients' = Clients
    BY <2>1 DEF Clients, ScalesReads
  <2>4. phase # "new"
    BY <2>1 DEF Reporting
  <2> QED
    BY <2>1, <2>2, <2>3, <2>4
    DEF TypeOK, OneAnswer, MountNeedsEmitter, Reporting, Connected, Mounting
<1>3. CASE Callback
  <2>1. /\ pending /\ pending' = FALSE /\ Answer("ok")
        /\ UNCHANGED <<opt, phase, status, reported, left, timer, emitter, mounted, quitting>>
    BY <1>3 DEF Callback
  <2>2. /\ answers' \in [ok : Nat, error : Nat]
        /\ answers'.ok + answers'.error = 1
        /\ answers'.error > 0 => answers.error > 0
    <3>1. ~(answers'.error > answers.error)
      BY <2>1, AnswerOnce
    <3> QED
      BY <2>1, <3>1, AnswerOnce DEF TypeOK
  <2>3. Clients' = Clients /\ mounted
    BY <2>1 DEF Clients, ScalesReads, Mounting
  <2>4. OneAnswer'
    BY <2>1, <2>2 DEF OneAnswer
  <2> QED
    BY <2>1, <2>2, <2>3, <2>4
    DEF TypeOK, MountNeedsEmitter, Reporting, Connected, Mounting
<1>4. CASE Quit
  <2>1. quitting' \in SUBSET Clients
    BY <1>4 DEF Quit, Closed
  <2> QED
    BY <1>4, <2>1, StatusInv DEF Quit, TypeOK, Connected
<1>5. CASE Disconnect
  <2>1. /\ status' \in [AllClients -> Status]
        /\ \A c \in AllClients : status'[c] # "none" => c \in Clients
    BY <1>5 DEF Disconnect, Closed, TypeOK, Connected, Status
  <2> QED
    BY <1>5, <2>1, StatusInv DEF Disconnect
<1>6. ASSUME NEW c \in AllClients, ClientReady(c) PROVE BootInv'
  BY <1>6, ReportInv
<1>7. ASSUME NEW c \in AllClients, ClientClosed(c) PROVE BootInv'
  <2>1. status' \in [AllClients -> Status] /\ c \in Clients
    BY <1>7 DEF ClientClosed, TypeOK, Connected, Status
  <2> QED
    BY <1>7, <2>1, StatusInv DEF ClientClosed, TypeOK, Connected
<1>8. ASSUME NEW c \in AllClients, ClientQuits(c) PROVE BootInv'
  <2>1. status' \in [AllClients -> Status] /\ c \in Clients
    BY <1>8 DEF ClientQuits, TypeOK, Connected, Status
  <2> QED
    BY <1>8, <2>1, StatusInv DEF ClientQuits, TypeOK, Connected
<1>9. CASE UNCHANGED vars
  BY <1>9, StatusInv DEF vars, TypeOK, Connected
<1> QED
  BY <1>1, <1>2, <1>3, <1>4, <1>5, <1>6, <1>7, <1>8, <1>9 DEF Next

LEMMA BootAlways == Spec => []BootInv
  BY InitBootInv, NextBootInv, PTL DEF Spec

----------------------------------------------------------------------------
(* The theorems.                                                           *)

\* Whatever the options, and in whatever order clients come, close, quit and are
\* disconnected, after(n, ...) counts the clients that are still to report.
THEOREM BootTypeOK == Spec => []TypeOK
<1>1. BootInv => TypeOK
  BY DEF BootInv
<1> QED
  BY BootAlways, <1>1, PTL

\* readyCallback is called once at most: once guards it against the timer, the
\* last report and a report after the timer.  And the last report, which clears
\* the timer, leaves the callback in its place: no order of the two loses both.
THEOREM BootOneAnswer == Spec => []OneAnswer
<1>1. BootInv => OneAnswer
  BY DEF BootInv
<1> QED
  BY BootAlways, <1>1, PTL

\* Modules find every client connected once, and the emitter they subscribe to;
\* the process survives its last report unless a scheduler lacks its subscriber.
THEOREM BootMountedWithAll == Spec => []MountedWithAll
<1>1. BootInv => MountedWithAll
  BY DEF BootInv, TypeOK, Mounting, Reporting, MountNeedsEmitter, MountedWithAll, Clients
<1> QED
  BY BootAlways, <1>1, PTL

\* Only the timer tells an error, and it cannot fire once the last report has
\* cleared it: an instance that mounted in time is never called failed.
THEOREM BootErrorOnlyUnmounted == Spec => ErrorOnlyUnmounted
<1>1. BootInv /\ [Next]_vars => [answers'.error > answers.error => ~mounted]_vars
  <2> SUFFICES ASSUME BootInv, Next, answers'.error > answers.error
               PROVE  ~mounted
    BY DEF vars
  <2>1. answers.error \in Nat
    BY DEF BootInv, TypeOK
  <2>2. CASE ConnectionTimeout
    BY <2>2 DEF ConnectionTimeout, BootInv, Mounting
  <2>3. CASE Callback
    BY <2>3, AnswerOnce DEF Callback
  <2>4. CASE ~ConnectionTimeout /\ ~Callback
    <3>1. answers' = answers
      BY <2>4 DEF Next, Construct, Quit, Disconnect, ClientReady, ClientClosed, ClientQuits
    <3> QED
      BY <2>1, <3>1
  <2> QED
    BY <2>2, <2>3, <2>4
<1> QED
  BY BootAlways, <1>1, PTL DEF Spec, ErrorOnlyUnmounted
=============================================================================
