------------------------------ MODULE JobQueue ------------------------------
(***************************************************************************)
(* One Redis backed queue of the job module and the worker processes that  *)
(* serve it: the keys of the queue, what a worker knows of each job it has *)
(* taken (one open call of _runJob each), the stall check that hands the   *)
(* jobs of a dead worker to another one, and the calls an application may  *)
(* make on a job.                                                          *)
(*                                                                         *)
(* One action is one Redis command, script or MULTI, or one callback in a  *)
(* worker.  Time is kept as countdowns: how long until stallTime, by the   *)
(* clock that is ahead of all others, and, for a worker that keeps its     *)
(* schedule, how long until its next command for a job reaches Redis.      *)
(***************************************************************************)
EXTENDS Integers, Sequences, FiniteSets

CONSTANTS
  Jobs,             \* ids of the jobs an application submits
  Unique,           \* those whose id is the digest of their data (options.unique)
  Workers,          \* processes that serve the queue
  Punctual,         \* those whose commands reach Redis on schedule
  Runs,             \* identities of the open _runJob calls (bound)
  None,             \* no worker, no job
  Retries,          \* values an application gives to retries(n)
  RemoveOnSuccess,  \* options.removeOnSuccess
  HasTimeout,       \* does every job carry options.timeout?
  StallInterval,    \* options.stallInterval, in ticks
  Latency,          \* longest a punctual worker takes from a reply to its next command
  CheckLag,         \* how old the Date.now() in a stall check may be when Redis runs it
  Outcomes,         \* what handlers do, see Settle
  PeriodicCheck,    \* does the application call checkStalledJobs(interval)?
  ApiCalls,         \* calls an application makes: "retry", "remove", "destroy"
  Careful,          \* does it make them only on a job at rest?
  Faults,           \* failures that may occur: "crash", "fetch", "finish", "check"
  MaxFaults,        \* bound on their number
  MaxWaiting        \* bound on waiting: an application adds nothing to a list of that length

HalfInterval == StallInterval \div 2

ASSUME JobsAssumption ==
  /\ Unique \subseteq Jobs
  /\ Punctual \subseteq Workers
  /\ None \notin Jobs \cup Workers /\ None \notin Int
  /\ IsFiniteSet(Jobs)
  /\ Retries \subseteq Nat
  /\ RemoveOnSuccess \in BOOLEAN /\ HasTimeout \in BOOLEAN
  /\ PeriodicCheck \in BOOLEAN /\ Careful \in BOOLEAN
  /\ Outcomes \subseteq {"resolve", "reject", "rejectNothing", "throw", "noHandler", "noName"}
  /\ MaxFaults \in Nat /\ MaxWaiting \in Nat

\* The timing the keepalive needs.  A stall check sets stallTime by the clock
\* of its sender, at the time it was sent: delay and skew of the clocks bring
\* the next check that acts closer by up to CheckLag.  What is left of the
\* interval must be longer than a half interval and two round trips.
ASSUME TimingAssumption ==
  /\ StallInterval \in Nat \ {0}
  /\ Latency \in Nat /\ CheckLag \in Nat
  /\ HalfInterval + 2 * Latency + CheckLag < StallInterval

VARIABLES
  waiting,    \* list: LPUSH appends here, BRPOPLPUSH takes the head, RPUSH prepends
  active,     \* list, read only by commands blind to order and repetition: a set
  stalling,   \* set
  succeeded,  \* set
  failed,     \* set
  jobs,       \* hash: options.retries of the stored job, or NoData
  stallIn,    \* ticks until stallTime, down to -CheckLag when any check may act
  minted,     \* ids of plain jobs already used: cuid() gives each one once
  up,         \* workers whose queue processor is running
  periodic,   \* workers whose chain of checkStalledJobs timers is alive
  run,        \* the open calls of _runJob
  owed,       \* history: the n given to retries(n), less the retries made since, 0 at least
  faults      \* number of failures so far

redis   == <<waiting, active, stalling, succeeded, failed, jobs, stallIn>>
sets    == <<succeeded, failed>>
workers == <<up, periodic>>
history == <<minted, owed>>
vars    == <<redis, workers, run, history, faults>>

\* No entry in the hash.
NoData == None

NoRun == [phase |-> "free", worker |-> None, job |-> None, left |-> 0, due |-> 0]

Phases == {"free", "popped", "running", "thrown", "succeeding", "failing"}

----------------------------------------------------------------------------
(* Redis lists and worker timers.                                          *)

Ids(s) == {s[i] : i \in DOMAIN s}

\* Positions of s that do not hold j.
Kept(s, j) == {i \in DOMAIN s : s[i] # j}

\* LREM key 0 j: s without j, the order of the rest unchanged.  (Stated by
\* rank, so that the provers can reason about it.)
LREM(s, j) ==
  [n \in 1 .. Cardinality(Kept(s, j)) |->
     s[CHOOSE i \in Kept(s, j) : Cardinality(Kept(s, j) \cap (1 .. i)) = n]]

\* SMEMBERS returns the members of a set in an order of its own.
Orders(S) == {p \in [1 .. Cardinality(S) -> S] : Ids(p) = S}

StoredAsked(n) == n   \* mutation: what the doc of retries says
\* retries(n) stores n - 1, for retries(0) a -1.
Stored(n) == n - 1

\* The deadline a punctual worker keeps; the others keep none.
Due(w, d) == IF w \in Punctual THEN d ELSE 0

Open(r) == run[r].phase # "free"

\* The job is held by an open run.
Held(j) == \E r \in Runs : run[r].job = j

Fault(f) == f \in Faults /\ faults < MaxFaults /\ faults' = faults + 1

----------------------------------------------------------------------------
Init ==
  /\ waiting = <<>>
  /\ active = {} /\ stalling = {} /\ succeeded = {} /\ failed = {}
  /\ jobs = [j \in Jobs |-> NoData]
  /\ stallIn = -CheckLag
  /\ minted = {}
  /\ up = {} /\ periodic = {}
  /\ run = [r \in Runs |-> NoRun]
  /\ owed = [j \in Jobs |-> 0]
  /\ faults = 0

\* HSETNX takes the id of a unique job once its hash entry is gone, and
\* reports a duplicate before; the id of a plain job is always a new one.
AcceptsAlways(j) == j \notin minted   \* mutation: HSET
Accepts(j) == IF j \in Unique THEN jobs[j] = NoData ELSE j \notin minted

\* Job.save with retries(n): the addJob script.
AddJob(j, n) ==
  /\ Len(waiting) < MaxWaiting
  /\ Accepts(j)
  /\ minted' = IF j \in Unique THEN minted ELSE minted \cup {j}
  /\ jobs' = [jobs EXCEPT ![j] = Stored(n)]
  /\ waiting' = Append(waiting, j)
  /\ owed' = [owed EXCEPT ![j] = n]
  /\ UNCHANGED <<active, stalling, sets, stallIn, workers, run, faults>>

\* RPUSH: what goes back to waiting goes to the end BRPOPLPUSH takes next.
PutBackNothing(S) == waiting' = waiting   \* mutation: no RPUSH
PutBack(S) == \E p \in Orders(S) : waiting' = p \o waiting

\* SADD: all that is still active is suspected.
SuspectNone(S) == stalling' = {}   \* mutation: no SADD
Suspect(S) == stalling' = S

(* The checkStalledJobs script: reset what stayed in stalling since the    *)
(* last check, then suspect all that is active.  Its "now" is the instant  *)
(* the caller read on its own clock, lag ticks ago: it is compared with    *)
(* stallTime, and sets the next.                                           *)
StallCheck ==
  \E lag \in 0 .. CheckLag :
    IF stallIn > -lag
    THEN UNCHANGED <<waiting, active, stalling, stallIn>>
    ELSE /\ PutBack(stalling)
         /\ active' = active \ stalling
         /\ Suspect(active \ stalling)
         /\ stallIn' = StallInterval - lag

(* Queue.process: one stall check, then the first tick, whether the check  *)
(* succeeded or not; the application may also start the periodic check.    *)
Start(w) ==
  /\ w \notin up
  /\ up' = up \cup {w}
  /\ periodic' = IF PeriodicCheck THEN periodic \cup {w} ELSE periodic
  /\ \/ StallCheck /\ UNCHANGED faults
     \/ Fault("check") /\ UNCHANGED <<waiting, active, stalling, stallIn>>
  /\ UNCHANGED <<sets, jobs, run, history>>

\* The timer of checkStalledJobs(interval) fires and re-arms on the reply.
CheckStalledJobs(w) ==
  /\ w \in periodic
  /\ StallCheck
  /\ UNCHANGED <<sets, jobs, workers, run, history, faults>>

\* An error reply returns before the timer is armed again.
CheckStalledJobsError(w) ==
  /\ w \in periodic
  /\ Fault("check")
  /\ periodic' = periodic \ {w}
  /\ UNCHANGED <<redis, up, run, history>>

\* _getNextJob, first half: BRPOPLPUSH waiting active.
Pop(w, r) ==
  /\ w \in up /\ ~Open(r) /\ waiting # <<>>
  /\ waiting' = Tail(waiting)
  /\ active' = active \cup {Head(waiting)}
  /\ run' = [run EXCEPT ![r] = [phase |-> "popped", worker |-> w, job |-> Head(waiting),
                                left |-> 0, due |-> Due(w, Latency)]]
  /\ UNCHANGED <<stalling, sets, jobs, stallIn, workers, history, faults>>

\* The process of w is gone, and its open calls with it.
Die(w) ==
  /\ up' = up \ {w}
  /\ periodic' = periodic \ {w}
  /\ run' = [r \in Runs |-> IF run[r].worker = w THEN NoRun ELSE run[r]]

\* _getNextJob, second half, and the head of _runJob: HGET finds the job.  If
\* nothing is found under the name of its handler, it fails at once.
Fetch(r) ==
  LET j == run[r].job IN
  /\ run[r].phase = "popped" /\ jobs[j] # NoData
  /\ \E p \in {"running"} \cup (IF "noHandler" \in Outcomes THEN {"failing"} ELSE {}) :
       run' = [run EXCEPT ![r].phase = p, ![r].left = jobs[j],
                          ![r].due = Due(run[r].worker, Latency)]
  /\ UNCHANGED <<redis, workers, history, faults>>

\* There is no handler and the job names none: deepGet(global, undefined) throws
\* in _runJob, its promise rejects, and the job stays active.
FetchNameless(r) ==
  /\ run[r].phase = "popped" /\ jobs[run[r].job] # NoData
  /\ "noName" \in Outcomes
  /\ run' = [run EXCEPT ![r] = NoRun]
  /\ UNCHANGED <<redis, workers, history, faults>>

\* HGET finds nothing: fromData throws out of the reply callback, and
\* nothing catches it.
FetchMissing(r) ==
  /\ run[r].phase = "popped" /\ jobs[run[r].job] = NoData
  /\ Die(run[r].worker)
  /\ UNCHANGED <<redis, history, faults>>

\* HGET fails: the tick logs the error and starts over, the job stays active.
FetchError(r) ==
  /\ run[r].phase = "popped"
  /\ Fault("fetch")
  /\ run' = [run EXCEPT ![r] = NoRun]
  /\ UNCHANGED <<redis, workers, history>>

KeepaliveRare == StallInterval   \* mutation: once per interval
KeepaliveDelay == HalfInterval

\* preventStalling: SREM, and again half an interval later.
PreventStalling(r) ==
  /\ run[r].phase \in {"running", "thrown"}
  /\ stalling' = stalling \ {run[r].job}
  /\ run' = [run EXCEPT ![r].due = Due(run[r].worker, KeepaliveDelay + Latency)]
  /\ UNCHANGED <<waiting, active, sets, jobs, stallIn, workers, history, faults>>

----------------------------------------------------------------------------
(* What the handler does.                                                  *)

Finish(r, p) ==
  run' = [run EXCEPT ![r].phase = p, ![r].due = Due(run[r].worker, Latency)]

\* Its promise resolves, or it rejects with an error: handleOK, handleError.
Settle(r) ==
  /\ run[r].phase = "running"
  /\ \/ "resolve" \in Outcomes /\ Finish(r, "succeeding")
     \/ "reject" \in Outcomes /\ Finish(r, "failing")
  /\ UNCHANGED <<redis, workers, history, faults>>

\* It rejects with no reason: handleError stops the keepalive and then
\* throws on err.stack, and nothing finishes the job.
RejectNothing(r) ==
  /\ run[r].phase = "running" /\ "rejectNothing" \in Outcomes
  /\ run' = [run EXCEPT ![r] = NoRun]
  /\ UNCHANGED <<redis, workers, history, faults>>

\* It throws before it returns a promise: the call of _runJob is over, its
\* keepalive and its timeout are not.
Throw(r) ==
  /\ run[r].phase = "running" /\ "throw" \in Outcomes
  /\ run' = [run EXCEPT ![r].phase = "thrown"]
  /\ UNCHANGED <<redis, workers, history, faults>>

\* The timer set for options.timeout calls handleError.
Timeout(r) ==
  /\ HasTimeout /\ run[r].phase \in {"running", "thrown"}
  /\ Finish(r, "failing")
  /\ UNCHANGED <<redis, workers, history, faults>>

----------------------------------------------------------------------------
(* _finishSingleJob: one MULTI.                                            *)

\* LREM active and SREM stalling.
LeaveStays(j)     == active' = active /\ stalling' = stalling \ {j}    \* mutation: no LREM
LeaveSuspected(j) == active' = active \ {j} /\ stalling' = stalling    \* mutation: no SREM
Leave(j)          == active' = active \ {j} /\ stalling' = stalling \ {j}

CanRetryZero(r) == run[r].left >= 0     \* mutation: >= for >
CanRetryTruthy(r) == run[r].left # 0    \* mutation: retries taken for a flag
CanRetry(r) == run[r].left > 0

NextLeft(r) == run[r].left - 1

FinishSucceeded(r) ==
  LET j == run[r].job IN
  /\ run[r].phase = "succeeding"
  /\ IF RemoveOnSuccess
     THEN jobs' = [jobs EXCEPT ![j] = NoData] /\ UNCHANGED succeeded
     ELSE jobs' = [jobs EXCEPT ![j] = run[r].left] /\ succeeded' = succeeded \cup {j}
  /\ UNCHANGED <<waiting, failed, owed>>

FinishRetrying(r) ==
  LET j == run[r].job IN
  /\ run[r].phase = "failing" /\ CanRetry(r)
  /\ jobs' = [jobs EXCEPT ![j] = NextLeft(r)]
  /\ waiting' = Append(waiting, j)
  /\ owed' = [owed EXCEPT ![j] = IF @ > 0 THEN @ - 1 ELSE 0]
  /\ UNCHANGED sets

FinishFailed(r) ==
  LET j == run[r].job IN
  /\ run[r].phase = "failing" /\ ~CanRetry(r)
  /\ jobs' = [jobs EXCEPT ![j] = run[r].left]
  /\ failed' = failed \cup {j}
  /\ UNCHANGED <<waiting, succeeded, owed>>

FinishSingleJob(r) ==
  /\ Leave(run[r].job)
  /\ FinishSucceeded(r) \/ FinishRetrying(r) \/ FinishFailed(r)
  /\ run' = [run EXCEPT ![r] = NoRun]
  /\ UNCHANGED <<stallIn, workers, minted, faults>>

\* EXEC fails before Redis ran it: _runJob rejects, the job stays active.
FinishError(r) ==
  /\ run[r].phase \in {"succeeding", "failing"}
  /\ Fault("finish")
  /\ run' = [run EXCEPT ![r] = NoRun]
  /\ UNCHANGED <<redis, workers, history>>

----------------------------------------------------------------------------
(* The environment: worker processes die, time passes, applications call.  *)

Crash(w) ==
  /\ w \in up
  /\ Fault("crash")
  /\ Die(w)
  /\ UNCHANGED <<redis, history>>

Late(r) == run[r].worker \in Punctual /\ run[r].due = 0

Tick ==
  /\ ~\E r \in Runs : Open(r) /\ Late(r)
  /\ stallIn > -CheckLag
  /\ stallIn' = stallIn - 1
  /\ run' = [r \in Runs |-> IF run[r].due > 0 THEN [run[r] EXCEPT !.due = @ - 1] ELSE run[r]]
  /\ UNCHANGED <<waiting, active, stalling, sets, jobs, workers, history, faults>>

\* Job.retry: nothing checks that the job is in failed, or still exists.
Retry(j) ==
  /\ "retry" \in ApiCalls /\ Len(waiting) < MaxWaiting
  /\ Careful => j \in failed
  /\ failed' = failed \ {j}
  /\ waiting' = Append(waiting, j)
  /\ UNCHANGED <<active, stalling, succeeded, jobs, stallIn, workers, run, history, faults>>

UnlistActive(j) ==   \* mutation: no LREM waiting
  /\ active' = IF j \in succeeded \cup failed THEN active ELSE active \ {j}
  /\ UNCHANGED waiting
\* LREM waiting and active, for a job that has not ended.
Unlist(j) ==
  IF j \in succeeded \cup failed
  THEN UNCHANGED <<waiting, active>>
  ELSE waiting' = LREM(waiting, j) /\ active' = active \ {j}

\* Job.remove: the removeJob script.
Remove(j) ==
  /\ "remove" \in ApiCalls
  /\ Careful => j \notin active
  /\ Unlist(j)
  /\ succeeded' = succeeded \ {j}
  /\ failed' = failed \ {j}
  /\ stalling' = stalling \ {j}
  /\ jobs' = [jobs EXCEPT ![j] = NoData]
  /\ UNCHANGED <<stallIn, workers, run, history, faults>>

\* Queue.destroy: one DEL of every key, whatever the workers are doing.
Destroy ==
  /\ "destroy" \in ApiCalls
  /\ Careful => ~\E r \in Runs : Open(r)
  /\ waiting' = <<>>
  /\ active' = {} /\ stalling' = {} /\ succeeded' = {} /\ failed' = {}
  /\ jobs' = [j \in Jobs |-> NoData]
  /\ stallIn' = -CheckLag
  /\ UNCHANGED <<workers, run, history, faults>>

----------------------------------------------------------------------------
WorkerStep(w) ==
  \/ Start(w) \/ CheckStalledJobs(w) \/ CheckStalledJobsError(w) \/ Crash(w)
  \/ \E r \in Runs : Pop(w, r)

RunStep(r) ==
  \/ Fetch(r) \/ FetchNameless(r) \/ FetchMissing(r) \/ FetchError(r)
  \/ PreventStalling(r)
  \/ Settle(r) \/ RejectNothing(r) \/ Throw(r) \/ Timeout(r)
  \/ FinishSingleJob(r) \/ FinishError(r)

AppStep ==
  \/ \E j \in Jobs : (\E n \in Retries : AddJob(j, n)) \/ Retry(j) \/ Remove(j)
  \/ Destroy

Next ==
  \/ \E w \in Workers : WorkerStep(w)
  \/ \E r \in Runs : RunStep(r)
  \/ AppStep
  \/ Tick

Spec == Init /\ [][Next]_vars

(* Processes are restarted, a live process answers its events, and time    *)
(* passes.  Nothing obliges a handler to settle: its timeout does, where   *)
(* there is one.  Nothing obliges an application or a fault.               *)
Fairness ==
  /\ \A w \in Workers : WF_vars(Start(w)) /\ WF_vars(CheckStalledJobs(w))
                        /\ WF_vars(\E r \in Runs : Pop(w, r))
  /\ \A r \in Runs : /\ WF_vars(Fetch(r) \/ FetchMissing(r))
                     /\ WF_vars(PreventStalling(r) /\ Late(r))
                     /\ WF_vars(Timeout(r))
                     /\ WF_vars(FinishSingleJob(r))
  /\ SF_vars(Tick)

LiveSpec == Spec /\ Fairness

----------------------------------------------------------------------------
(* Properties.                                                             *)

\* retries(n) refuses a negative n, and only a positive number is counted down.
RetriesLeft == {k \in Int : k >= -1}

RunRecord ==
  [phase : Phases \ {"free"}, worker : Workers, job : Jobs, left : RetriesLeft, due : Nat]

\* Every variable holds values of the keys and records of the code; no number
\* of retries, stored or in the copy of a run, falls below the -1 of retries(0).
TypeOK ==
  /\ waiting \in Seq(Jobs)
  /\ active \in SUBSET Jobs /\ stalling \in SUBSET Jobs
  /\ succeeded \in SUBSET Jobs /\ failed \in SUBSET Jobs
  /\ jobs \in [Jobs -> RetriesLeft \cup {NoData}]
  /\ stallIn \in -CheckLag .. StallInterval
  /\ minted \in SUBSET (Jobs \ Unique)
  /\ up \in SUBSET Workers /\ periodic \in SUBSET up
  /\ run \in [Runs -> RunRecord \cup {NoRun}]
  /\ owed \in [Jobs -> Nat]
  /\ faults \in 0 .. MaxFaults

\* No interleaving of workers, stall checks, crashes and application calls
\* strands a stored job: it is in waiting, active, succeeded or failed.
NoJobLost ==
  \A j \in Jobs : jobs[j] # NoData => j \in Ids(waiting) \cup active \cup succeeded \cup failed

\* The stall check never suspects a job that is no longer active, so a reset
\* never revives a job that was finished, removed or destroyed.
StallingAreActive == stalling \subseteq active

\* A stall check that acts never takes a job away from a punctual worker that
\* holds it: the keepalive of preventStalling is always in time, even if the
\* check before was late, or sent from a clock that is behind.
CheckActs == stallIn' > stallIn

PunctualNeverReset ==
  [][CheckActs =>
       \A r \in Runs : (Open(r) /\ run[r].worker \in Punctual /\ run[r].job \in active)
                         => run[r].job \in active']_vars

\* Why: a command of the run that clears the suspicion is due before the
\* next stall check may act.
Slack(r) ==
  CASE run[r].phase = "popped" -> run[r].due + 2 * Latency
    [] run[r].phase \in {"running", "thrown"} -> run[r].due + Latency
    [] OTHER -> run[r].due

KeepaliveBeatsCheck ==
  \A r \in Runs :
    (Open(r) /\ run[r].worker \in Punctual /\ run[r].job \in stalling) => Slack(r) < stallIn

\* A job runs in one place at a time: two open runs never hold the same job.
OneRunPerJob ==
  \A r, s \in Runs : (Open(r) /\ Open(s) /\ run[r].job = run[s].job) => r = s

\* An id is in one of the lists and sets at most, and there once; and a run
\* holds a job only while it is active.
OnePlacePerJob ==
  /\ \A i, k \in DOMAIN waiting : waiting[i] = waiting[k] => i = k
  /\ Ids(waiting) \cap (active \cup succeeded \cup failed) = {}
  /\ active \cap (succeeded \cup failed) = {}
  /\ succeeded \cap failed = {}
  /\ \A r \in Runs : Open(r) => run[r].job \in active

\* An id in waiting or active has its data, so no fetch can kill a worker.
NoDanglingId == \A j \in Ids(waiting) \cup active : jobs[j] # NoData

\* A job is retried one time less than retries(n) asked for (job.js:193, where
\* job.js:185 promises n: JobRelay!RetriesAsDocumented), and fails for good only
\* then: the hash always holds one less than is owed, a failed job is owed one
\* at most, and the copy an open run works on is not stale.  So no failure is
\* counted twice, and none is forgotten.
RetryBudget ==
  /\ \A j \in Jobs : jobs[j] # NoData => jobs[j] = owed[j] - 1
  /\ \A j \in failed : owed[j] <= 1
  /\ \A r \in Runs : run[r].phase \notin {"free", "popped"} => run[r].left = jobs[run[r].job]

\* The keys of the queue, and who holds what, as JobLifecycle sees them.
PlaceOf(j) ==
  CASE jobs[j] = NoData   -> "out"
    [] j \in Ids(waiting) -> "waiting"
    [] j \in active       -> IF Held(j) THEN "held" ELSE "dropped"
    [] j \in succeeded    -> "succeeded"
    [] j \in failed       -> "failed"

\* A job is put back while its retries are positive: 0, -1 and NoData are one.
Budget(k) == IF k # NoData /\ k > 0 THEN k ELSE 0

Lifecycle == INSTANCE JobLifecycle
  WITH Budgets <- {Budget(Stored(n)) : n \in Retries},
       place <- [j \in Jobs |-> PlaceOf(j)],
       left  <- [j \in Jobs |-> Budget(jobs[j])]

\* With punctual workers and applications that touch only jobs at rest, the
\* queue keeps the promise of JobLifecycle: every command and callback is one
\* of its steps, or changes nothing it sees.
KeepsLifecycle == Lifecycle!Spec

\* Every stored job ends: it succeeds, it fails for good, or it is removed.
Ended(j) == jobs[j] = NoData \/ j \in succeeded \/ j \in failed
EveryJobEnds == \A j \in Jobs : ~Ended(j) ~> Ended(j)

\* scripts.js:77 - a job not removed from stalling within a stallInterval
\* window is put back into waiting.
StalledIsReset ==
  \A j \in Jobs : (j \in active /\ ~Held(j)) ~> (j \notin active)
=============================================================================
