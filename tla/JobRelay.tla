------------------------------ MODULE JobRelay ------------------------------
(***************************************************************************)
(* Relay jobs: job.data.runs is a list of stages, _runJob runs the first,  *)
(* _finishMultiJob shifts it off and ends the job, puts it back for a       *)
(* retry, or hands its result to a new job for the next stage.             *)
(*                                                                         *)
(* JobQueue has the keys, workers and timers in detail; here a job is in   *)
(* one place, and a run that was lost is noticed by a stall check.         *)
(***************************************************************************)
EXTENDS Integers

CONSTANTS
  Jobs,
  MaxStages,  \* bound on the stages of a relay
  Foreign,    \* stages given as {queue, runs} instead of a name
  Retries,    \* values an application gives to retries(n)
  MaxFaults   \* bound on failed EXECs and crashes

ASSUME RelayAssumption ==
  /\ MaxStages \in Nat \ {0} /\ MaxFaults \in Nat
  /\ Foreign \subseteq 2 .. MaxStages
  /\ Retries \subseteq Nat

VARIABLES
  handler,          \* does the queue have a handler of its own?
  removeOnSuccess,  \* options.removeOnSuccess
  place,    \* the list or set the id of each job is in, "out" if none
  stored,   \* the hash: length of data.runs, and options.retries, of each job
  run,      \* the open call of _runJob: its copy of the job, and its phase
  stages,   \* history: the stages each relay was saved with, and the n of retries(n)
  fails,    \* history: failures written back
  told,     \* history: success events published
  faults    \* number of failed EXECs and crashes

vars == <<handler, removeOnSuccess, place, stored, run, stages, fails, told, faults>>

options == <<handler, removeOnSuccess>>
history == <<stages, fails, told>>

NoData  == [runs |-> 0, left |-> 0]
NoRun   == [phase |-> "none", runs |-> 0, left |-> 0]
Unsaved == [runs |-> 0, asked |-> 0]

\* shift() of an empty list leaves it empty.
Dec(n) == IF n = 0 THEN 0 ELSE n - 1

\* retries(n) stores n - 1, for retries(0) a -1.
Stored(n) == n - 1

Init ==
  /\ handler \in BOOLEAN /\ removeOnSuccess \in BOOLEAN
  /\ place = [j \in Jobs |-> "out"]
  /\ stored = [j \in Jobs |-> NoData]
  /\ run = [j \in Jobs |-> NoRun]
  /\ stages = [j \in Jobs |-> Unsaved]
  /\ fails = [j \in Jobs |-> 0]
  /\ told = [j \in Jobs |-> 0]
  /\ faults = 0

Fault == faults < MaxFaults /\ faults' = faults + 1

\* The application saves a relay, each id once.
Save(j) ==
  /\ place[j] = "out" /\ stages[j] = Unsaved
  /\ \E n \in 1 .. MaxStages, r \in Retries :
       /\ stages' = [stages EXCEPT ![j] = [runs |-> n, asked |-> r]]
       /\ stored' = [stored EXCEPT ![j] = [runs |-> n, left |-> Stored(r)]]
  /\ place' = [place EXCEPT ![j] = "waiting"]
  /\ UNCHANGED <<options, run, fails, told, faults>>

\* The stage that is next when n of them are left.
Stage(j, n) == stages[j].runs - n + 1

\* deepGet(global, runs[0]) needs a name: it throws for an object, and for
\* undefined when no stage is left.
Named(j) == stored[j].runs > 0 /\ Stage(j, stored[j].runs) \notin Foreign

\* BRPOPLPUSH
Pop(j) ==
  /\ place[j] = "waiting"
  /\ place' = [place EXCEPT ![j] = "active"]
  /\ run' = [run EXCEPT ![j].phase = "popped"]
  /\ UNCHANGED <<options, stored, history, faults>>

\* HGET and the head of _runJob.  A handler that cannot be looked up rejects
\* the run, and the job stays active.
Start(j) ==
  /\ run[j].phase = "popped"
  /\ run' = [run EXCEPT ![j] = IF handler \/ Named(j)
                                THEN [phase |-> "running", runs |-> stored[j].runs,
                                      left |-> stored[j].left]
                                ELSE NoRun]
  /\ UNCHANGED <<options, place, stored, history, faults>>

----------------------------------------------------------------------------
(* _finishMultiJob: the stage is shifted off, then the job relayed or ended. *)

RelaysNever(j) == FALSE   \* mutation: every stage taken for the last
Relays(j) == Dec(run[j].runs) > 0

(* The handler resolves.  If a stage is left, create and save of the next   *)
(* job throw (no such queue, or a Queue for the rdb of the job, which has no *)
(* log): the run rejects, and its MULTI is never sent.  Else the event goes  *)
(* out and EXEC follows.                                                     *)
Resolve(j) ==
  /\ run[j].phase = "running"
  /\ IF Relays(j)
     THEN run' = [run EXCEPT ![j] = NoRun] /\ UNCHANGED told
     ELSE /\ run' = [run EXCEPT ![j].phase = "succeeding", ![j].runs = Dec(@)]
          /\ told' = [told EXCEPT ![j] = @ + 1]
  /\ UNCHANGED <<options, place, stored, stages, fails, faults>>

\* It rejects, or there is no such handler.
Reject(j) ==
  /\ run[j].phase = "running"
  /\ run' = [run EXCEPT ![j].phase = "failing", ![j].runs = Dec(@)]
  /\ UNCHANGED <<options, place, stored, history, faults>>

RetriedSame(j) == [runs |-> run[j].runs, left |-> run[j].left]   \* mutation: not counted
Retried(j) ==
  [runs |-> run[j].runs, left |-> IF run[j].left > 0 THEN run[j].left - 1 ELSE run[j].left]

Leaves(j, to) ==
  /\ place' = [place EXCEPT ![j] = to]
  /\ run' = [run EXCEPT ![j] = NoRun]

ExecSucceeded(j) ==
  /\ run[j].phase = "succeeding"
  /\ IF removeOnSuccess
     THEN Leaves(j, "out") /\ stored' = [stored EXCEPT ![j] = NoData]
     ELSE /\ Leaves(j, "succeeded")
          /\ stored' = [stored EXCEPT ![j].runs = run[j].runs]
  /\ UNCHANGED <<options, history, faults>>

ExecFailed(j) ==
  /\ run[j].phase = "failing"
  /\ Leaves(j, IF run[j].left > 0 THEN "waiting" ELSE "failed")
  /\ stored' = [stored EXCEPT ![j] = Retried(j)]
  /\ fails' = [fails EXCEPT ![j] = @ + 1]
  /\ UNCHANGED <<options, stages, told, faults>>

\* EXEC fails, or the worker dies.
Lose(j) ==
  /\ run[j].phase # "none"
  /\ Fault
  /\ run' = [run EXCEPT ![j] = NoRun]
  /\ UNCHANGED <<options, place, stored, history>>

ResetHeld(j) ==   \* mutation: no keepalive
  /\ place[j] = "active"
  /\ place' = [place EXCEPT ![j] = "waiting"]
  /\ UNCHANGED <<options, stored, run, history, faults>>

\* A stall check finds a job nobody holds.
ResetNot(j) == FALSE /\ UNCHANGED vars   \* mutation: no check
Reset(j) ==
  /\ place[j] = "active" /\ run[j].phase = "none"
  /\ place' = [place EXCEPT ![j] = "waiting"]
  /\ UNCHANGED <<options, stored, run, history, faults>>

----------------------------------------------------------------------------
Next ==
  \E j \in Jobs :
    \/ Save(j) \/ Pop(j) \/ Start(j) \/ Resolve(j) \/ Reject(j)
    \/ ExecSucceeded(j) \/ ExecFailed(j) \/ Lose(j) \/ Reset(j)

Spec == Init /\ [][Next]_vars

\* Workers take jobs, handlers settle or time out, Redis answers, and the
\* application repeats the stall check.
LiveSpec ==
  /\ Spec
  /\ \A j \in Jobs : /\ WF_vars(Pop(j)) /\ WF_vars(Start(j))
                     /\ WF_vars(Resolve(j) \/ Reject(j))
                     /\ WF_vars(ExecSucceeded(j) \/ ExecFailed(j))
                     /\ WF_vars(Reset(j))

----------------------------------------------------------------------------
(* Properties.                                                             *)

\* retries(n) refuses a negative n, and only a positive number is counted down.
RetriesLeft == {k \in Int : k >= -1}

Data == [runs : 0 .. MaxStages, left : RetriesLeft]

\* Values have their types, and only an active job is run.
TypeOK ==
  /\ handler \in BOOLEAN /\ removeOnSuccess \in BOOLEAN
  /\ place \in [Jobs -> {"out", "waiting", "active", "succeeded", "failed"}]
  /\ stored \in [Jobs -> Data]
  /\ stages \in [Jobs -> [runs : 0 .. MaxStages, asked : Nat]]
  /\ run \in [Jobs -> [phase : {"none", "popped", "running", "succeeding", "failing"},
                       runs : 0 .. MaxStages, left : RetriesLeft]]
  /\ fails \in [Jobs -> Nat] /\ told \in [Jobs -> Nat]
  /\ faults \in 0 .. MaxFaults
  /\ \A j \in Jobs : run[j].phase # "none" => place[j] = "active"

\* What the code does of retries, where the docs promise otherwise (see
\* RetriesAsDocumented).  A failure that is written back costs the job one
\* retry and, since the stage was shifted off before (queue.js:260), one stage:
\* the retry runs the stage after the one that failed.  Nothing else costs
\* either: a run that is lost starts again where it was, and so does one whose
\* next stage could not be saved.  A relay fails for good with its n-th
\* failure, or the first if n is 0.
EachFailureTakesAStage ==
  \A j \in Jobs :
    /\ place[j] \in {"waiting", "active", "failed"} =>
         stored[j].runs = IF fails[j] < stages[j].runs THEN stages[j].runs - fails[j] ELSE 0
    /\ place[j] \in {"waiting", "active"} => stored[j].left = stages[j].asked - 1 - fails[j]
    /\ place[j] = "failed" => fails[j] = IF stages[j].asked = 0 THEN 1 ELSE stages[j].asked

\* job.js:185 - retries(n) is the number of times this job will retry; and
\* README.md:21 - a relay passes on what a job resolved.  So a relay whose
\* first stage keeps failing was tried n + 1 times when it ends, and no stage
\* but that one was used up.
RetriesAsDocumented ==
  \A j \in Jobs : (place[j] = "failed" /\ stages[j].runs > 1) =>
    /\ fails[j] = stages[j].asked + 1
    /\ stored[j].runs = stages[j].runs - 1

\* The success of a relay is told for its last stage only, and once, but for
\* failures between the event and the EXEC it precedes.
ToldOfTheLastStage ==
  \A j \in Jobs :
    /\ run[j].phase = "succeeding" => run[j].runs = 0
    /\ told[j] <= 1 + faults

\* A relay on its last stage ends, if no retry can leave it without a handler.
Ended(j) == place[j] \in {"out", "succeeded", "failed"}

LastStageEnds ==
  \A j \in Jobs :
    (/\ place[j] = "waiting" /\ stored[j].runs <= 1
     /\ handler \/ (Named(j) /\ stored[j].left <= 0))
      ~> Ended(j)

\* Where JobLifecycle sees a job.
PlaceOf(j) ==
  IF place[j] # "active" THEN place[j]
  ELSE IF run[j].phase = "none" THEN "dropped" ELSE "held"

\* A job is put back while its retries are positive: 0 and -1 are one.
Budget(k) == IF k > 0 THEN k ELSE 0

\* Relay jobs keep the promise of JobLifecycle, as other jobs do.
Lifecycle == INSTANCE JobLifecycle
  WITH Budgets <- {Budget(Stored(n)) : n \in Retries},
       place <- [j \in Jobs |-> PlaceOf(j)],
       left  <- [j \in Jobs |-> Budget(stored[j].left)]

KeepsLifecycle == Lifecycle!Spec
=============================================================================
