----------------------- MODULE JobQueuePunctualProofs -----------------------
(* Proofs about JobQueue where every worker keeps its schedule and the      *)
(* application calls retry, remove and destroy on jobs at rest only.        *)
EXTENDS JobQueueProofs

Disciplined == Careful /\ Punctual = Workers

----------------------------------------------------------------------------
(* The invariant: of each job, and of each run.                            *)

\* An id is in one place at most.
Apart(j) ==
  /\ j \in Ids(waiting) => j \notin active \cup succeeded \cup failed
  /\ j \in active => j \notin succeeded \cup failed
  /\ j \in succeeded => j \notin failed

\* Where it is, its data are, with one retry less than is owed to it.
HasData(j) ==
  /\ Present(j) => jobs[j] # NoData
  /\ jobs[j] # NoData => jobs[j] = owed[j] - 1 /\ j \in Unique \cup minted
  /\ j \in failed => owed[j] <= 1

JobInv(j) == Apart(j) /\ HasData(j)

\* The copy a run has of its job is that of the hash.
Fresh(r) ==
  Open(r) => /\ run[r].job \in active
             /\ run[r].phase # "popped" => run[r].left = jobs[run[r].job]

\* Its next command is in time, and before the stall check if that suspects
\* its job.
MaxDue(r) == IF run[r].phase \in {"running", "thrown"} THEN HalfInterval + Latency ELSE Latency

InTime(r) ==
  Open(r) => /\ run[r].due <= MaxDue(r)
             /\ run[r].job \in stalling => Slack(r) < stallIn

PunctualInv ==
  /\ TypeOK /\ StallingAreActive /\ NoDup(waiting) /\ OneRunPerJob
  /\ \A j \in Jobs : JobInv(j)
  /\ \A r \in Runs : Fresh(r) /\ InTime(r)

LEMMA InitPunctualInv == Init => PunctualInv
<1> SUFFICES ASSUME Init PROVE PunctualInv
  OBVIOUS
<1>1. TypeOK /\ StallingAreActive
  BY InitTypeOK, InitStalling
<1>2. waiting = <<>> /\ Ids(waiting) = {} /\ NoDup(waiting)
  BY DEF Init, Ids, NoDup
<1>3. \A r \in Runs : ~Open(r)
  BY DEF Init, Open, NoRun
<1>4. \A j \in Jobs : JobInv(j)
  BY <1>2 DEF Init, JobInv, Apart, HasData, Present
<1> QED
  BY <1>1, <1>2, <1>3, <1>4 DEF PunctualInv, OneRunPerJob, Fresh, InTime

----------------------------------------------------------------------------
(* Facts about time.                                                       *)

\* How long a run may take, from any phase, is less than the stall interval.
LEMMA TimesFit ==
  /\ Latency \in Nat /\ HalfInterval \in Nat /\ StallInterval \in Nat /\ CheckLag \in Nat
  /\ 3 * Latency + CheckLag < StallInterval
  /\ HalfInterval + 2 * Latency + CheckLag < StallInterval
<1>1. HalfInterval \in Nat /\ StallInterval <= 2 * HalfInterval + 1
  BY TimingAssumption DEF HalfInterval
<1> QED
  BY <1>1, TimingAssumption

LEMMA SlackValue ==
  ASSUME TypeOK, NEW r \in Runs, Open(r)
  PROVE  /\ run[r].phase = "popped" => Slack(r) = run[r].due + 2 * Latency
         /\ run[r].phase \in {"running", "thrown"} => Slack(r) = run[r].due + Latency
         /\ run[r].phase \in {"succeeding", "failing"} => Slack(r) = run[r].due
         /\ run[r].phase \in {"popped", "running", "thrown", "succeeding", "failing"}
         /\ Slack(r) \in Nat
<1>1. run[r] \in RunRecord /\ run[r].due \in Nat
  BY OpenRecord DEF Open
<1>2. run[r].phase \in {"popped", "running", "thrown", "succeeding", "failing"}
  BY <1>1 DEF RunRecord, Phases
<1> QED
  BY <1>1, <1>2, TimesFit DEF Slack

LEMMA StallInType == TypeOK => stallIn \in Int
BY TimesFit DEF TypeOK

\* A run that is in time is not held up by a stall check that may act: that
\* does not suspect its job.
LEMMA NotSuspected ==
  ASSUME TypeOK, NEW r \in Runs, Open(r), InTime(r), stallIn <= 0
  PROVE  run[r].job \notin stalling
BY SlackValue, StallInType DEF InTime

\* Whatever its phase, a run is in time for the check after the one that acts,
\* which may be nearer than an interval by CheckLag.
LEMMA SlackBound ==
  ASSUME TypeOK, NEW r \in Runs, Open(r), InTime(r)
  PROVE  Slack(r) < StallInterval - CheckLag
<1>1. run[r].due \in Nat
  BY OpenRecord DEF Open
<1> QED
  BY <1>1, SlackValue, TimesFit DEF InTime, MaxDue

----------------------------------------------------------------------------
(* The jobs.                                                               *)

JobsOK == NoDup(waiting) /\ \A j \in Jobs : JobInv(j)

\* What JobInv(j) is about stays as it is.
Same(j) ==
  /\ j \in Ids(waiting') <=> j \in Ids(waiting)
  /\ j \in active' <=> j \in active
  /\ j \in succeeded' <=> j \in succeeded
  /\ j \in failed' <=> j \in failed
  /\ jobs'[j] = jobs[j] /\ owed'[j] = owed[j]
  /\ j \in minted => j \in minted'

LEMMA SameJobInv ==
  ASSUME NEW j \in Jobs, JobInv(j), Same(j)
  PROVE  JobInv(j)'
<1>1. Apart(j)'
  BY DEF JobInv, Apart, Same
<1>2. HasData(j)'
  BY DEF JobInv, HasData, Present, Same
<1> QED
  BY <1>1, <1>2 DEF JobInv

LEMMA QuietJobs ==
  ASSUME JobsOK, UNCHANGED <<waiting, active, sets, jobs, history>>
  PROVE  JobsOK'
<1>1. ASSUME NEW j \in Jobs PROVE Same(j)
  BY DEF Same, sets, history
<1>2. NoDup(waiting)'
  BY DEF JobsOK
<1> QED
  BY <1>1, <1>2, SameJobInv DEF JobsOK

\* A stall check moves what it suspects from active to waiting.
LEMMA StallCheckMoves ==
  ASSUME TypeOK, NEW lag \in 0 .. CheckLag, CheckResets(lag)
  PROVE  /\ Ids(waiting') = stalling \cup Ids(waiting)
         /\ active' = active \ stalling /\ stalling' = active \ stalling
         /\ stallIn <= 0 /\ stallIn' \in Int /\ stallIn' >= StallInterval - CheckLag
         /\ NoDup(waiting) /\ stalling \cap Ids(waiting) = {} => NoDup(waiting')
<1>1. /\ active' = active \ stalling /\ stalling' = active \ stalling
      /\ stallIn <= 0 /\ stallIn' \in Int /\ stallIn' >= StallInterval - CheckLag
  <2>1. stallIn <= -lag /\ stallIn' = StallInterval - lag
    BY DEF CheckResets
  <2>2. lag \in Nat /\ lag <= CheckLag /\ stallIn \in Int
    BY TimesFit, StallInType
  <2>3. active' = active \ stalling /\ stalling' = active \ stalling
    BY DEF CheckResets
  <2> QED
    BY <2>1, <2>2, <2>3, TimesFit
<1>2. PICK p \in Orders(stalling) : waiting' = p \o waiting
  BY DEF CheckResets, PutBack
<1>3. waiting \in Seq(Jobs) /\ stalling \subseteq Jobs
  BY DEF TypeOK
<1>4. p \in Seq(Jobs) /\ Ids(p) = stalling /\ NoDup(p)
  BY <1>3, OrdersAreLists, NoDupOrders
<1>5. Ids(waiting') = stalling \cup Ids(waiting)
  BY <1>2, <1>3, <1>4, IdsConcat
<1>6. NoDup(waiting) /\ stalling \cap Ids(waiting) = {} => NoDup(waiting')
  BY <1>2, <1>3, <1>4, NoDupConcat
<1> QED
  BY <1>1, <1>5, <1>6

LEMMA CheckedJobs ==
  ASSUME TypeOK, StallingAreActive, JobsOK, StallCheck, UNCHANGED <<sets, jobs, history>>
  PROVE  JobsOK'
<1>1. CASE UNCHANGED <<waiting, active, stalling, stallIn>>
  BY <1>1, QuietJobs
<1>2. CASE \E lag \in 0 .. CheckLag : CheckResets(lag)
  <2>1. PICK lag \in 0 .. CheckLag : CheckResets(lag)
    BY <1>2
  <2>2. /\ Ids(waiting') = stalling \cup Ids(waiting) /\ active' = active \ stalling
        /\ NoDup(waiting) /\ stalling \cap Ids(waiting) = {} => NoDup(waiting')
    BY <2>1, StallCheckMoves
  <2>3. stalling \subseteq active /\ stalling \subseteq Jobs
    BY DEF StallingAreActive, TypeOK
  <2>4. stalling \cap Ids(waiting) = {}
    BY <2>3 DEF JobsOK, JobInv, Apart
  <2>5. ASSUME NEW j \in Jobs PROVE JobInv(j)'
    <3>1. CASE j \in stalling
      <4>1. Apart(j)'
        BY <2>2, <2>3, <3>1 DEF JobsOK, JobInv, Apart, sets
      <4>2. HasData(j)'
        BY <2>2, <2>3, <3>1 DEF JobsOK, JobInv, HasData, Present, sets, history
      <4> QED
        BY <4>1, <4>2 DEF JobInv
    <3>2. CASE j \notin stalling
      <4>1. Same(j)
        BY <2>2, <3>2 DEF Same, sets, history
      <4> QED
        BY <4>1, SameJobInv DEF JobsOK
    <3> QED
      BY <3>1, <3>2
  <2> QED
    BY <2>2, <2>4, <2>5 DEF JobsOK
<1> QED
  BY <1>1, <1>2, StallCheckCases

LEMMA PopJobs ==
  ASSUME TypeOK, JobsOK, NEW w \in Workers, NEW r \in Runs, Pop(w, r)
  PROVE  JobsOK'
<1> DEFINE h == Head(waiting)
<1>1. /\ waiting \in Seq(Jobs) /\ waiting # <<>> /\ waiting' = Tail(waiting)
      /\ active' = active \cup {h} /\ UNCHANGED <<sets, jobs, history>>
  BY DEF Pop, TypeOK
<1>2. h \in Jobs /\ Ids(waiting) = Ids(waiting') \cup {h}
  BY <1>1, IdsHeadTail
<1>3. NoDup(waiting') /\ h \notin Ids(waiting')
  BY <1>1, NoDupTail DEF JobsOK
<1> HIDE DEF h
<1>4. ASSUME NEW j \in Jobs PROVE JobInv(j)'
  <2>1. CASE j = h
    <3>1. Apart(j)'
      BY <1>1, <1>2, <1>3, <2>1 DEF JobsOK, JobInv, Apart, sets
    <3>2. HasData(j)'
      BY <1>1, <1>2, <2>1 DEF JobsOK, JobInv, HasData, Present, sets, history
    <3> QED
      BY <3>1, <3>2 DEF JobInv
  <2>2. CASE j # h
    <3>1. Same(j)
      BY <1>1, <1>2, <2>2 DEF Same, sets, history
    <3> QED
      BY <3>1, SameJobInv DEF JobsOK
  <2> QED
    BY <2>1, <2>2
<1> QED
  BY <1>3, <1>4 DEF JobsOK

\* One job changes, the others stay as they are.
LEMMA OneJobChanges ==
  ASSUME JobsOK, NEW j \in Jobs, JobInv(j)', NoDup(waiting'),
         \A k \in Jobs \ {j} : Same(k)
  PROVE  JobsOK'
BY SameJobInv DEF JobsOK

LEMMA FinishJobs ==
  ASSUME TypeOK, JobsOK, NEW r \in Runs, Fresh(r), FinishSingleJob(r)
  PROVE  JobsOK'
<1>0. run[r].phase \in {"succeeding", "failing"}
  BY DEF FinishSingleJob, FinishSucceeded, FinishRetrying, FinishFailed
<1>2. PICK j \in Jobs, l \in RetriesLeft : j = run[r].job /\ l = run[r].left
  BY <1>0, OpenRecord
<1>1. active' = active \ {j} /\ minted' = minted
  BY <1>2 DEF FinishSingleJob, Leave
<1>3. j \in active /\ l = jobs[j]
  BY <1>0, <1>2 DEF Fresh, Open
<1>4. /\ j \notin Ids(waiting) /\ j \notin succeeded /\ j \notin failed
      /\ l = owed[j] - 1 /\ j \in Unique \cup minted /\ l # NoData
  <2>1. JobInv(j) /\ jobs[j] # NoData
    BY <1>2, <1>3, NoDataType DEF JobsOK
  <2> QED
    BY <1>3, <2>1 DEF JobInv, Apart, HasData
<1>5. /\ waiting \in Seq(Jobs) /\ jobs \in [Jobs -> RetriesLeft \cup {NoData}] /\ owed \in [Jobs -> Nat]
      /\ NoDup(waiting)
  BY DEF TypeOK, JobsOK
<1>6. CASE FinishSucceeded(r)
  <2>1. /\ UNCHANGED <<waiting, failed, owed>>
        /\ \/ jobs' = [jobs EXCEPT ![j] = NoData] /\ succeeded' = succeeded
           \/ jobs' = [jobs EXCEPT ![j] = l] /\ succeeded' = succeeded \cup {j}
    BY <1>2, <1>6 DEF FinishSucceeded
  <2>2. Apart(j)'
    BY <1>1, <1>4, <2>1 DEF Apart
  <2>3. HasData(j)'
    BY <1>1, <1>2, <1>3, <1>4, <1>5, <2>1 DEF HasData, Present
  <2>4. \A k \in Jobs \ {j} : Same(k)
    BY <1>1, <1>5, <2>1 DEF Same
  <2> QED
    BY <1>2, <1>5, <2>1, <2>2, <2>3, <2>4, OneJobChanges DEF JobInv
<1>7. CASE FinishRetrying(r)
  <2>1. /\ l > 0 /\ UNCHANGED sets
        /\ waiting' = Append(waiting, j)
        /\ jobs' = [jobs EXCEPT ![j] = l - 1]
        /\ owed' = [owed EXCEPT ![j] = IF @ > 0 THEN @ - 1 ELSE 0]
    BY <1>2, <1>7 DEF FinishRetrying, CanRetry, NextLeft
  <2>2. Ids(waiting') = Ids(waiting) \cup {j} /\ NoDup(waiting')
    BY <1>2, <1>4, <1>5, <2>1, IdsAppend, NoDupAppend
  <2>3. Apart(j)'
    BY <1>1, <1>4, <2>1, <2>2 DEF Apart, sets
  <2>4. HasData(j)'
    <3>1. owed[j] \in Nat /\ l \in Int
      BY <1>2, <1>5 DEF RetriesLeft
    <3>2. owed[j] > 0 /\ owed[j] - 1 = l
      BY <1>4, <2>1, <3>1
    <3>3. jobs'[j] = l - 1 /\ owed'[j] = l
      BY <1>2, <1>5, <2>1, <3>2
    <3>4. j \notin failed'
      BY <1>4, <2>1 DEF sets
    <3>5. l - 1 # NoData
      BY <2>1, <3>1, NoDataType DEF RetriesLeft
    <3> QED
      BY <1>1, <1>4, <3>3, <3>4, <3>5 DEF HasData
  <2>5. \A k \in Jobs \ {j} : Same(k)
    BY <1>1, <1>5, <2>1, <2>2 DEF Same, sets
  <2> QED
    BY <1>2, <2>2, <2>3, <2>4, <2>5, OneJobChanges DEF JobInv
<1>8. CASE FinishFailed(r)
  <2>1. /\ ~(l > 0) /\ UNCHANGED <<waiting, succeeded, owed>>
        /\ jobs' = [jobs EXCEPT ![j] = l] /\ failed' = failed \cup {j}
    BY <1>2, <1>8 DEF FinishFailed, CanRetry
  <2>2. Apart(j)'
    BY <1>1, <1>4, <2>1 DEF Apart
  <2>3. HasData(j)'
    <3>1. owed[j] \in Nat /\ l \in Int
      BY <1>2, <1>5 DEF RetriesLeft
    <3>2. owed[j] <= 1
      BY <1>4, <2>1, <3>1
    <3>3. jobs'[j] = l /\ owed'[j] = owed[j]
      BY <1>2, <1>5, <2>1
    <3> QED
      BY <1>1, <1>4, <3>2, <3>3 DEF HasData
  <2>4. \A k \in Jobs \ {j} : Same(k)
    BY <1>1, <1>5, <2>1 DEF Same
  <2> QED
    BY <1>2, <1>5, <2>1, <2>2, <2>3, <2>4, OneJobChanges DEF JobInv
<1> QED
  BY <1>6, <1>7, <1>8 DEF FinishSingleJob

LEMMA AddJobJobs ==
  ASSUME TypeOK, JobsOK, NEW j \in Jobs, NEW n \in Retries, AddJob(j, n)
  PROVE  JobsOK'
<1>1. jobs[j] = NoData /\ ~Present(j)
  <2>1. JobInv(j)
    BY DEF JobsOK
  <2>2. jobs[j] = NoData
    BY <2>1 DEF AddJob, Accepts, JobInv, HasData
  <2> QED
    BY <2>1, <2>2 DEF JobInv, HasData
<1>2. /\ waiting \in Seq(Jobs) /\ jobs \in [Jobs -> RetriesLeft \cup {NoData}] /\ owed \in [Jobs -> Nat]
      /\ NoDup(waiting) /\ n \in Nat
  BY JobsAssumption DEF TypeOK, JobsOK
<1>3. /\ waiting' = Append(waiting, j) /\ UNCHANGED <<active, sets>>
      /\ jobs' = [jobs EXCEPT ![j] = Stored(n)] /\ owed' = [owed EXCEPT ![j] = n]
      /\ minted \subseteq minted' /\ j \in Unique \cup minted'
  BY DEF AddJob
<1>4. Ids(waiting') = Ids(waiting) \cup {j} /\ NoDup(waiting')
  BY <1>1, <1>2, <1>3, IdsAppend, NoDupAppend DEF Present
<1>5. Apart(j)'
  BY <1>1, <1>3 DEF Apart, Present, sets
<1>6. HasData(j)'
  <2>1. jobs'[j] = n - 1 /\ owed'[j] = n /\ j \notin failed'
    BY <1>1, <1>2, <1>3 DEF Stored, Present, sets
  <2>2. jobs'[j] # NoData
    BY <1>2, <2>1, StoredType, NoDataType DEF Stored
  <2> QED
    BY <1>3, <2>1, <2>2 DEF HasData
<1>7. \A k \in Jobs \ {j} : Same(k)
  BY <1>2, <1>3, <1>4 DEF Same, sets
<1> QED
  BY <1>4, <1>5, <1>6, <1>7, OneJobChanges DEF JobInv

LEMMA RetryJobs ==
  ASSUME Disciplined, TypeOK, JobsOK, NEW j \in Jobs, Retry(j)
  PROVE  JobsOK'
<1>1. /\ j \in failed /\ failed' = failed \ {j} /\ waiting' = Append(waiting, j)
      /\ UNCHANGED <<active, succeeded, jobs, history>>
  BY DEF Retry, Disciplined
<1>2. /\ j \notin Ids(waiting) /\ j \notin active /\ j \notin succeeded
      /\ HasData(j) /\ jobs[j] # NoData
  BY <1>1 DEF JobsOK, JobInv, Apart, HasData, Present
<1>3. Ids(waiting') = Ids(waiting) \cup {j} /\ NoDup(waiting')
  BY <1>1, <1>2, IdsAppend, NoDupAppend DEF TypeOK, JobsOK
<1>4. Apart(j)'
  BY <1>1, <1>2 DEF Apart
<1>5. HasData(j)'
  BY <1>1, <1>2 DEF HasData, history
<1>6. \A k \in Jobs \ {j} : Same(k)
  BY <1>1, <1>3 DEF Same, history
<1> QED
  BY <1>3, <1>4, <1>5, <1>6, OneJobChanges DEF JobInv

\* A careful application removes only what is not active.
LEMMA RemoveEffect ==
  ASSUME Disciplined, TypeOK, JobsOK, NEW j \in Jobs, Remove(j)
  PROVE  /\ Ids(waiting') = Ids(waiting) \ {j} /\ NoDup(waiting')
         /\ j \notin active /\ active' = active
         /\ succeeded' = succeeded \ {j} /\ failed' = failed \ {j} /\ stalling' = stalling \ {j}
         /\ jobs' = [jobs EXCEPT ![j] = NoData]
         /\ UNCHANGED <<stallIn, workers, run, history, faults>>
<1>1. /\ j \notin active
      /\ succeeded' = succeeded \ {j} /\ failed' = failed \ {j} /\ stalling' = stalling \ {j}
      /\ jobs' = [jobs EXCEPT ![j] = NoData]
      /\ UNCHANGED <<stallIn, workers, run, history, faults>>
      /\ Unlist(j)
  BY DEF Remove, Disciplined
<1>2. waiting \in Seq(Jobs) /\ NoDup(waiting) /\ Apart(j)
  BY DEF TypeOK, JobsOK, JobInv
<1>3. Ids(waiting') = Ids(waiting) \ {j} /\ NoDup(waiting') /\ active' = active
  <2>1. CASE j \in succeeded \cup failed
    <3>1. waiting' = waiting /\ active' = active /\ j \notin Ids(waiting)
      BY <1>1, <1>2, <2>1 DEF Unlist, Apart
    <3> QED
      BY <1>2, <3>1
  <2>2. CASE j \notin succeeded \cup failed
    <3>1. waiting' = LREM(waiting, j) /\ active' = active \ {j}
      BY <1>1, <2>2 DEF Unlist
    <3>2. Ids(LREM(waiting, j)) = Ids(waiting) \ {j} /\ NoDup(LREM(waiting, j))
      BY <1>2, IdsLREM, NoDupLREM
    <3> QED
      BY <1>1, <3>1, <3>2
  <2> QED
    BY <2>1, <2>2
<1> QED
  BY <1>1, <1>3

LEMMA RemoveJobs ==
  ASSUME Disciplined, TypeOK, JobsOK, NEW j \in Jobs, Remove(j)
  PROVE  JobsOK'
<1>1. jobs \in [Jobs -> RetriesLeft \cup {NoData}]
  BY DEF TypeOK
<1>2. Apart(j)' /\ HasData(j)'
  BY <1>1, RemoveEffect DEF Apart, HasData, Present
<1>3. \A k \in Jobs \ {j} : Same(k)
  BY <1>1, RemoveEffect DEF Same, history
<1> QED
  BY <1>2, <1>3, RemoveEffect, OneJobChanges DEF JobInv

LEMMA DestroyJobs ==
  ASSUME Destroy
  PROVE  JobsOK'
<1>1. Ids(waiting') = {} /\ NoDup(waiting')
  BY DEF Destroy, Ids, NoDup
<1>2. ASSUME NEW j \in Jobs PROVE Apart(j)' /\ HasData(j)'
  BY <1>1 DEF Destroy, Apart, HasData, Present
<1> QED
  BY <1>1, <1>2 DEF JobsOK, JobInv

LEMMA NextJobs ==
  ASSUME Disciplined, PunctualInv, [Next]_vars
  PROVE  JobsOK'
<1>0. TypeOK /\ StallingAreActive /\ JobsOK /\ \A r \in Runs : Fresh(r)
  BY DEF PunctualInv, JobsOK
<1>1. ASSUME NEW w \in Workers, WorkerStep(w) PROVE JobsOK'
  <2>1. CASE Start(w) \/ CheckStalledJobs(w)
    <3>1. /\ UNCHANGED <<sets, jobs, history>>
          /\ StallCheck \/ UNCHANGED <<waiting, active, stalling, stallIn>>
      BY <2>1 DEF Start, CheckStalledJobs
    <3> QED
      BY <1>0, <3>1, CheckedJobs, QuietJobs
  <2>2. CASE CheckStalledJobsError(w) \/ Crash(w)
    BY <1>0, <2>2, QuietJobs DEF CheckStalledJobsError, Crash, redis, sets
  <2>3. ASSUME NEW r \in Runs, Pop(w, r) PROVE JobsOK'
    BY <1>0, <2>3, PopJobs
  <2> QED
    BY <1>1, <2>1, <2>2, <2>3 DEF WorkerStep
<1>2. ASSUME NEW r \in Runs, RunStep(r) PROVE JobsOK'
  <2>1. CASE FinishSingleJob(r)
    BY <1>0, <2>1, FinishJobs
  <2>2. CASE PreventStalling(r)
    BY <1>0, <2>2, QuietJobs DEF PreventStalling
  <2>3. CASE UNCHANGED <<redis, history>>
    BY <1>0, <2>3, QuietJobs DEF redis, sets
  <2> QED
    BY <1>2, <2>1, <2>2, <2>3
    DEF RunStep, Fetch, FetchNameless, FetchMissing, FetchError, Settle, RejectNothing, Throw,
        Timeout, FinishError
<1>3. CASE AppStep
  BY <1>0, <1>3, AddJobJobs, RetryJobs, RemoveJobs, DestroyJobs DEF AppStep
<1>4. CASE Tick \/ UNCHANGED vars
  BY <1>0, <1>4, QuietJobs DEF Tick, vars, redis, sets
<1> QED
  BY <1>1, <1>2, <1>3, <1>4 DEF Next

----------------------------------------------------------------------------
(* The runs.                                                               *)

RunsOK == OneRunPerJob /\ \A r \in Runs : Fresh(r) /\ InTime(r)

\* Slack by phase and countdown.
Ahead(p, d) ==
  CASE p = "popped" -> d + 2 * Latency
    [] p \in {"running", "thrown"} -> d + Latency
    [] OTHER -> d

LEMMA SlackIsAhead ==
  \A r \in Runs : /\ Slack(r) = Ahead(run[r].phase, run[r].due)
                  /\ Slack(r)' = Ahead(run'[r].phase, run'[r].due)
BY DEF Slack, Ahead

\* Only a pop gives a run a job, so other steps keep jobs apart.
LEMMA KeepOneRun ==
  ASSUME OneRunPerJob, \A s \in Runs : Open(s)' => Open(s) /\ run'[s].job = run[s].job
  PROVE  OneRunPerJob'
BY DEF OneRunPerJob

\* Open runs stay as they are, and nothing happens to their jobs that matters
\* to them.
Undisturbed(s) ==
  /\ run'[s] = run[s]
  /\ run[s].job \in active' /\ jobs'[run[s].job] = jobs[run[s].job]
  /\ run[s].job \in stalling' => \/ run[s].job \in stalling /\ stallIn' = stallIn
                                 \/ stallIn' \in Int /\ stallIn' >= StallInterval - CheckLag

LEMMA UndisturbedOK ==
  ASSUME TypeOK, NEW s \in Runs, Fresh(s), InTime(s), Open(s)' => Undisturbed(s)
  PROVE  Fresh(s)' /\ InTime(s)'
<1> SUFFICES ASSUME Open(s)' PROVE Fresh(s)' /\ InTime(s)'
  BY DEF Fresh, InTime
<1>1. Undisturbed(s) /\ Open(s)
  BY DEF Open, Undisturbed
<1>2. Fresh(s)'
  BY <1>1 DEF Fresh, Undisturbed
<1>3. Slack(s)' = Slack(s) /\ Slack(s) \in Nat /\ Slack(s) < StallInterval - CheckLag
  BY <1>1, SlackIsAhead, SlackBound, SlackValue DEF Undisturbed
<1>4. InTime(s)'
  BY <1>1, <1>3, TimesFit DEF InTime, MaxDue, Undisturbed
<1> QED
  BY <1>2, <1>4

LEMMA RunsStay ==
  ASSUME TypeOK, RunsOK, \A s \in Runs : Open(s)' => Undisturbed(s)
  PROVE  RunsOK'
<1>1. \A s \in Runs : Open(s)' => Open(s) /\ run'[s].job = run[s].job
  BY DEF Undisturbed, Open
<1> QED
  BY <1>1, KeepOneRun, UndisturbedOK DEF RunsOK

\* Runs end, or nothing happens.
LEMMA EndedRuns ==
  ASSUME TypeOK, RunsOK, UNCHANGED redis,
         \A s \in Runs : run'[s] \in {run[s], NoRun}
  PROVE  RunsOK'
<1>1. ASSUME NEW s \in Runs, Open(s)' PROVE Undisturbed(s)
  BY <1>1 DEF Undisturbed, Open, NoRun, RunsOK, Fresh, redis
<1> QED
  BY <1>1, RunsStay

LEMMA CheckedRuns ==
  ASSUME TypeOK, RunsOK, StallCheck, UNCHANGED <<jobs, run>>
  PROVE  RunsOK'
<1>1. ASSUME NEW s \in Runs, Open(s)' PROVE Undisturbed(s)
  <2>1. Open(s) /\ run[s].job \in active /\ InTime(s) /\ run'[s] = run[s]
    BY <1>1 DEF RunsOK, Fresh, Open
  <2>2. CASE UNCHANGED <<waiting, active, stalling, stallIn>>
    BY <2>1, <2>2 DEF Undisturbed
  <2>3. CASE \E lag \in 0 .. CheckLag : CheckResets(lag)
    <3>1. PICK lag \in 0 .. CheckLag : CheckResets(lag)
      BY <2>3
    <3>2. /\ active' = active \ stalling /\ stallIn <= 0
          /\ stallIn' \in Int /\ stallIn' >= StallInterval - CheckLag
      BY <3>1, StallCheckMoves
    <3>3. run[s].job \notin stalling
      BY <2>1, <3>2, NotSuspected
    <3> QED
      BY <2>1, <3>2, <3>3 DEF Undisturbed
  <2> QED
    BY <2>2, <2>3, StallCheckCases
<1> QED
  BY <1>1, RunsStay

\* One open run changes its phase, the others are left alone.
LEMMA OneRunChanges ==
  ASSUME TypeOK, RunsOK, NEW r \in Runs, Fresh(r)', InTime(r)',
         Open(r)' => Open(r) /\ run'[r].job = run[r].job,
         \A s \in Runs \ {r} : Open(s)' => Undisturbed(s)
  PROVE  RunsOK'
<1>1. \A s \in Runs : Open(s)' => Open(s) /\ run'[s].job = run[s].job
  BY DEF Undisturbed, Open
<1>2. \A s \in Runs : Fresh(s)' /\ InTime(s)'
  BY UndisturbedOK DEF RunsOK
<1> QED
  BY <1>1, <1>2, KeepOneRun DEF RunsOK

\* The same where Redis is left alone: the run needs a copy that is fresh, and
\* may use up its slack, not add to it.
LEMMA MovedRun ==
  ASSUME TypeOK, RunsOK, NEW r \in Runs, Open(r), NEW p \in Phases, NEW d \in Nat,
         UNCHANGED redis,
         run'[r].phase = p, run'[r].due = d, run'[r].job = run[r].job,
         \A s \in Runs \ {r} : run'[s] = run[s],
         p # "free", p # "popped" => run'[r].left = jobs[run[r].job],
         p \in {"running", "thrown"} => d <= HalfInterval + Latency,
         p \notin {"running", "thrown"} => d <= Latency,
         Ahead(p, d) <= Slack(r)
  PROVE  RunsOK'
<1>1. Slack(r) \in Nat
  BY SlackValue
<1>3. Fresh(r) /\ InTime(r)
  BY DEF RunsOK
<1>4. Fresh(r)'
  BY <1>3 DEF Fresh, Open, redis
<1>5. Slack(r)' <= Slack(r)
  BY SlackIsAhead
<1>6. run[r].job \in stalling => Slack(r)' < stallIn
  <2>1. Slack(r)' = Ahead(p, d)
    BY SlackIsAhead
  <2>2. Ahead(p, d) \in Nat
    BY TimesFit DEF Ahead
  <2> QED
    BY <1>1, <1>3, <1>5, <2>1, <2>2, StallInType DEF InTime
<1>7. InTime(r)'
  BY <1>6 DEF InTime, Open, MaxDue, redis
<1>8. ASSUME NEW s \in Runs \ {r}, Open(s)' PROVE Undisturbed(s)
  BY <1>8 DEF Undisturbed, Open, RunsOK, Fresh, redis
<1> QED
  BY <1>4, <1>7, <1>8, OneRunChanges

\* An open run is the record of a function on the runs.
LEMMA RunTypes ==
  ASSUME TypeOK, NEW r \in Runs, Open(r)
  PROVE  run[r] \in RunRecord /\ run \in [Runs -> RunRecord \cup {NoRun}]
BY OpenRecord DEF Open, TypeOK

LEMMA DueIs ==
  ASSUME Disciplined, TypeOK, NEW r \in Runs, Open(r), NEW d
  PROVE  Due(run[r].worker, d) = d
<1>1. run[r].worker \in Punctual
  BY OpenRecord DEF Open, Disciplined
<1> QED
  BY <1>1 DEF Due

LEMMA FetchRuns ==
  ASSUME Disciplined, TypeOK, RunsOK, NEW r \in Runs, Fetch(r)
  PROVE  RunsOK'
<1>1. run[r].phase = "popped" /\ Open(r) /\ UNCHANGED redis
  BY DEF Fetch, Open
<1>2. PICK p \in {"running", "failing"} :
        run' = [run EXCEPT ![r].phase = p, ![r].left = jobs[run[r].job],
                           ![r].due = Due(run[r].worker, Latency)]
  BY DEF Fetch
<1>3. /\ run'[r].phase = p /\ run'[r].due = Latency /\ run'[r].job = run[r].job
      /\ run'[r].left = jobs[run[r].job]
      /\ \A s \in Runs \ {r} : run'[s] = run[s]
  <2>1. Due(run[r].worker, Latency) = Latency
    BY <1>1, DueIs
  <2> QED
    BY <1>1, <1>2, <2>1, RunTypes DEF RunRecord
<1>4. Slack(r) = run[r].due + 2 * Latency /\ run[r].due \in Nat
  BY <1>1, SlackValue, OpenRecord DEF Open
<1>5. Ahead(p, Latency) <= Slack(r)
  BY <1>4, TimesFit DEF Ahead
<1> QED
  <2>1. p \in Phases /\ p # "free" /\ p # "thrown" /\ Latency \in Nat
        /\ Latency <= HalfInterval + Latency
    BY TimesFit DEF Phases
  <2> QED
    BY <1>1, <1>3, <1>5, <2>1, MovedRun

LEMMA SettleRuns ==
  ASSUME Disciplined, TypeOK, RunsOK, NEW r \in Runs, Settle(r) \/ Timeout(r)
  PROVE  RunsOK'
<1>1. run[r].phase \in {"running", "thrown"} /\ Open(r) /\ UNCHANGED redis
  BY DEF Settle, Timeout, Open
<1>2. PICK p \in {"succeeding", "failing"} :
        run' = [run EXCEPT ![r].phase = p, ![r].due = Due(run[r].worker, Latency)]
  BY DEF Settle, Timeout, Finish
<1>3. /\ run'[r].phase = p /\ run'[r].due = Latency /\ run'[r].job = run[r].job
      /\ run'[r].left = run[r].left
      /\ \A s \in Runs \ {r} : run'[s] = run[s]
  <2>1. Due(run[r].worker, Latency) = Latency
    BY <1>1, DueIs
  <2> QED
    BY <1>1, <1>2, <2>1, RunTypes DEF RunRecord
<1>4. run'[r].left = jobs[run[r].job]
  BY <1>1, <1>3 DEF RunsOK, Fresh
<1>5. Slack(r) = run[r].due + Latency /\ run[r].due \in Nat
  BY <1>1, SlackValue, OpenRecord DEF Open
<1>6. Ahead(p, Latency) <= Slack(r)
  BY <1>5, TimesFit DEF Ahead
<1> QED
  <2>1. p \in Phases /\ p # "free" /\ p # "thrown" /\ Latency \in Nat
        /\ Latency <= HalfInterval + Latency
    BY TimesFit DEF Phases
  <2> QED
    BY <1>1, <1>3, <1>4, <1>6, <2>1, MovedRun

LEMMA ThrowRuns ==
  ASSUME Disciplined, TypeOK, RunsOK, NEW r \in Runs, Throw(r)
  PROVE  RunsOK'
<1>1. run[r].phase = "running" /\ Open(r) /\ UNCHANGED redis
  BY DEF Throw, Open
<1>2. /\ run'[r].phase = "thrown" /\ run'[r].due = run[r].due /\ run'[r].job = run[r].job
      /\ run'[r].left = run[r].left
      /\ \A s \in Runs \ {r} : run'[s] = run[s]
  BY <1>1, RunTypes DEF Throw, RunRecord
<1>3. run'[r].left = jobs[run[r].job]
  BY <1>1, <1>2 DEF RunsOK, Fresh
<1>4. Slack(r) = run[r].due + Latency /\ run[r].due \in Nat
  BY <1>1, SlackValue, OpenRecord DEF Open
<1>5. Ahead("thrown", run[r].due) <= Slack(r)
  BY <1>4, TimesFit DEF Ahead
<1>6. run[r].due <= HalfInterval + Latency
  BY <1>1 DEF RunsOK, InTime, MaxDue
<1>7. PICK d \in Nat : d = run[r].due
  BY <1>4
<1> QED
  <2>1. "thrown" \in Phases
    BY DEF Phases
  <2> QED
    BY <1>1, <1>2, <1>3, <1>5, <1>6, <1>7, <2>1, MovedRun

LEMMA PreventStallingRuns ==
  ASSUME Disciplined, TypeOK, RunsOK, NEW r \in Runs, PreventStalling(r)
  PROVE  RunsOK'
<1>1. /\ run[r].phase \in {"running", "thrown"} /\ Open(r)
      /\ UNCHANGED <<active, jobs, stallIn>>
      /\ stalling' = stalling \ {run[r].job}
  BY DEF PreventStalling, Open
<1>2. /\ run'[r].phase = run[r].phase /\ run'[r].due = HalfInterval + Latency
      /\ run'[r].job = run[r].job /\ run'[r].left = run[r].left
      /\ \A s \in Runs \ {r} : run'[s] = run[s]
  <2>1. Due(run[r].worker, KeepaliveDelay + Latency) = HalfInterval + Latency
    BY <1>1, DueIs DEF KeepaliveDelay
  <2> QED
    BY <1>1, <2>1, RunTypes DEF PreventStalling, RunRecord
<1>3. Fresh(r)'
  BY <1>1, <1>2 DEF RunsOK, Fresh, Open
<1>4. InTime(r)'
  BY <1>1, <1>2, TimesFit DEF InTime, MaxDue
<1>5. ASSUME NEW s \in Runs \ {r}, Open(s)' PROVE Undisturbed(s)
  BY <1>1, <1>2, <1>5 DEF Undisturbed, Open, RunsOK, Fresh
<1> QED
  BY <1>1, <1>2, <1>3, <1>4, <1>5, OneRunChanges DEF Open

LEMMA PopRuns ==
  ASSUME Disciplined, PunctualInv, NEW w \in Workers, NEW r \in Runs, Pop(w, r)
  PROVE  RunsOK'
<1>0. TypeOK /\ StallingAreActive /\ RunsOK
  BY DEF PunctualInv, RunsOK
<1>1. PICK h \in Jobs : h = Head(waiting)
  BY <1>0, IdsHeadTail DEF Pop, TypeOK
<1>2. h \in Ids(waiting) /\ h \notin active /\ h \notin stalling
  <2>1. waiting # <<>> /\ waiting \in Seq(Jobs)
    BY <1>0 DEF Pop, TypeOK
  <2>2. h \in Ids(waiting)
    BY <1>1, <2>1, IdsHeadTail
  <2> QED
    BY <1>0, <2>2 DEF PunctualInv, JobInv, Apart, StallingAreActive
<1>3. /\ ~Open(r) /\ active' = active \cup {h}
      /\ UNCHANGED <<stalling, jobs, stallIn>>
      /\ run' = [run EXCEPT ![r] = [phase |-> "popped", worker |-> w, job |-> h,
                                    left |-> 0, due |-> Due(w, Latency)]]
  BY <1>1 DEF Pop
<1>4. /\ run'[r].phase = "popped" /\ run'[r].job = h /\ run'[r].due = Latency
      /\ \A s \in Runs \ {r} : run'[s] = run[s]
  <2>1. Due(w, Latency) = Latency
    BY DEF Due, Disciplined
  <2>2. run \in [Runs -> RunRecord \cup {NoRun}]
    BY <1>0 DEF TypeOK
  <2> QED
    BY <1>3, <2>1, <2>2
<1>5. Fresh(r)'
  BY <1>3, <1>4 DEF Fresh
<1>6. InTime(r)'
  BY <1>2, <1>3, <1>4, TimesFit DEF InTime, MaxDue
<1>7. ASSUME NEW s \in Runs \ {r}, Open(s)' PROVE Undisturbed(s)
  BY <1>0, <1>3, <1>4, <1>7 DEF Undisturbed, Open, RunsOK, Fresh
<1>8. \A s \in Runs : Fresh(s)' /\ InTime(s)'
  BY <1>0, <1>5, <1>6, <1>7, UndisturbedOK DEF RunsOK
<1>9. OneRunPerJob'
  <2>1. ASSUME NEW s \in Runs \ {r}, Open(s)' PROVE run'[s].job # h /\ Open(s) /\ run'[s] = run[s]
    BY <1>0, <1>2, <1>4, <2>1 DEF Open, RunsOK, Fresh
  <2> QED
    BY <1>0, <1>4, <2>1 DEF OneRunPerJob, RunsOK
<1> QED
  BY <1>8, <1>9 DEF RunsOK

LEMMA FinishRuns ==
  ASSUME TypeOK, RunsOK, NEW r \in Runs, FinishSingleJob(r)
  PROVE  RunsOK'
<1>1. /\ Open(r) /\ run' = [run EXCEPT ![r] = NoRun] /\ UNCHANGED stallIn
      /\ active' = active \ {run[r].job} /\ stalling' = stalling \ {run[r].job}
  BY DEF FinishSingleJob, FinishSucceeded, FinishRetrying, FinishFailed, Open, Leave
<1>2. \E x : jobs' = [jobs EXCEPT ![run[r].job] = x]
  BY DEF FinishSingleJob, FinishSucceeded, FinishRetrying, FinishFailed
<1>3. run'[r] = NoRun /\ \A s \in Runs \ {r} : run'[s] = run[s]
  BY <1>1 DEF TypeOK
<1>4. ASSUME NEW s \in Runs, Open(s)' PROVE Undisturbed(s)
  <2>1. s # r /\ run'[s] = run[s] /\ Open(s)
    BY <1>3, <1>4 DEF Open, NoRun
  <2>2. run[s].job # run[r].job /\ run[s].job \in active
    BY <1>1, <2>1 DEF RunsOK, OneRunPerJob, Fresh
  <2>3. jobs'[run[s].job] = jobs[run[s].job]
    BY <1>2, <2>2 DEF TypeOK
  <2> QED
    BY <1>1, <2>1, <2>2, <2>3 DEF Undisturbed
<1> QED
  BY <1>4, RunsStay

LEMMA AppRuns ==
  ASSUME Disciplined, PunctualInv, AppStep
  PROVE  RunsOK'
<1>0. TypeOK /\ JobsOK /\ RunsOK
  BY DEF PunctualInv, RunsOK, JobsOK
<1>1. jobs \in [Jobs -> RetriesLeft \cup {NoData}]
  BY <1>0 DEF TypeOK
<1>2. ASSUME NEW s \in Runs, Open(s)
      PROVE  run[s].job \in active /\ run[s].job \in Jobs
  BY <1>0, <1>2, OpenRecord DEF RunsOK, Fresh, Open
<1>3. ASSUME NEW j \in Jobs, NEW n \in Retries, AddJob(j, n) PROVE RunsOK'
  <2>1. j \notin active
    BY <1>0, <1>3 DEF JobsOK, JobInv, HasData, Present, AddJob, Accepts
  <2>2. UNCHANGED <<run, active, stalling, stallIn>> /\ jobs' = [jobs EXCEPT ![j] = Stored(n)]
    BY <1>3 DEF AddJob
  <2>3. ASSUME NEW s \in Runs, Open(s)' PROVE Undisturbed(s)
    BY <1>1, <1>2, <2>1, <2>2, <2>3 DEF Undisturbed, Open
  <2> QED
    BY <1>0, <2>3, RunsStay
<1>4. ASSUME NEW j \in Jobs, Retry(j) PROVE RunsOK'
  <2>1. ASSUME NEW s \in Runs, Open(s)' PROVE Undisturbed(s)
    BY <1>2, <1>4, <2>1 DEF Undisturbed, Open, Retry
  <2> QED
    BY <1>0, <2>1, RunsStay
<1>5. ASSUME NEW j \in Jobs, Remove(j) PROVE RunsOK'
  <2>1. /\ j \notin active /\ UNCHANGED <<run, active, stallIn>> /\ stalling' = stalling \ {j}
        /\ jobs' = [jobs EXCEPT ![j] = NoData]
    BY <1>0, <1>5, RemoveEffect
  <2>2. ASSUME NEW s \in Runs, Open(s)' PROVE Undisturbed(s)
    BY <1>1, <1>2, <2>1, <2>2 DEF Undisturbed, Open
  <2> QED
    BY <1>0, <2>2, RunsStay
<1>6. CASE Destroy
  <2>1. \A s \in Runs : ~Open(s)'
    BY <1>6 DEF Destroy, Disciplined, Open
  <2> QED
    BY <1>0, <2>1, RunsStay
<1> QED
  BY <1>3, <1>4, <1>5, <1>6 DEF AppStep

\* Time uses up slack and countdown alike: it does not pass while a command is
\* due.
LEMMA TickRuns ==
  ASSUME Disciplined, TypeOK, RunsOK, Tick
  PROVE  RunsOK'
<1>1. /\ UNCHANGED <<active, stalling, jobs>> /\ stallIn' = stallIn - 1 /\ stallIn \in Int
  BY StallInType DEF Tick
<1>2. ASSUME NEW s \in Runs
      PROVE  /\ run'[s].phase = run[s].phase /\ run'[s].job = run[s].job
             /\ run'[s].left = run[s].left
             /\ Open(s) => run'[s].due = run[s].due - 1
  <2>1. run'[s] = IF run[s].due > 0 THEN [run[s] EXCEPT !.due = @ - 1] ELSE run[s]
    BY DEF Tick
  <2>2. run[s] \in RunRecord \cup {NoRun}
    BY DEF TypeOK
  <2>3. ASSUME Open(s) PROVE run[s].due > 0
    <3>1. run[s].due \in Nat /\ run[s].worker \in Punctual
      BY <2>3, OpenRecord DEF Open, Disciplined
    <3>2. run[s].due # 0
      BY <2>3, <3>1 DEF Tick, Late
    <3> QED
      BY <3>1, <3>2
  <2> QED
    BY <2>1, <2>2, <2>3 DEF RunRecord, NoRun
<1>3. ASSUME NEW s \in Runs PROVE Fresh(s)'
  BY <1>1, <1>2 DEF RunsOK, Fresh, Open
<1>4. ASSUME NEW s \in Runs, Open(s) PROVE Slack(s)' = Slack(s) - 1 /\ run[s].due \in Nat
  <2>1. run[s].due \in Nat /\ run'[s].due = run[s].due - 1
    BY <1>2, <1>4, OpenRecord DEF Open
  <2>2. Ahead(run[s].phase, run[s].due - 1) = Ahead(run[s].phase, run[s].due) - 1
    BY <2>1, TimesFit DEF Ahead
  <2> QED
    BY <1>2, <2>1, <2>2, SlackIsAhead
<1>5. ASSUME NEW s \in Runs PROVE InTime(s)'
  <2>1. SUFFICES ASSUME Open(s)' PROVE InTime(s)'
    BY DEF InTime
  <2>2. Open(s) /\ InTime(s) /\ Slack(s) \in Nat
    BY <1>2, <2>1, SlackValue DEF Open, RunsOK
  <2> QED
    BY <1>1, <1>2, <1>4, <2>2, TimesFit DEF InTime, MaxDue
<1>6. OneRunPerJob'
  BY <1>2, KeepOneRun DEF Open, RunsOK
<1> QED
  BY <1>3, <1>5, <1>6 DEF RunsOK

\* A worker that dies takes its runs with it.
LEMMA DieEnds ==
  ASSUME TypeOK, NEW w, Die(w)
  PROVE  \A s \in Runs : run'[s] \in {run[s], NoRun}
BY DEF Die

LEMMA NextRuns ==
  ASSUME Disciplined, PunctualInv, [Next]_vars
  PROVE  RunsOK'
<1>0. TypeOK /\ RunsOK
  BY DEF PunctualInv, RunsOK
<1>1. ASSUME NEW w \in Workers, WorkerStep(w) PROVE RunsOK'
  <2>1. CASE Start(w) \/ CheckStalledJobs(w)
    <3>1. UNCHANGED <<sets, jobs, run>>
          /\ (StallCheck \/ UNCHANGED <<waiting, active, stalling, stallIn>>)
      BY <2>1 DEF Start, CheckStalledJobs
    <3>2. CASE StallCheck
      BY <1>0, <3>1, <3>2, CheckedRuns
    <3>3. CASE UNCHANGED <<waiting, active, stalling, stallIn>>
      BY <1>0, <3>1, <3>3, EndedRuns DEF redis, sets
    <3> QED
      BY <3>1, <3>2, <3>3
  <2>2. CASE CheckStalledJobsError(w) \/ Crash(w)
    <3>1. UNCHANGED redis /\ \A s \in Runs : run'[s] \in {run[s], NoRun}
      BY <1>0, <2>2, DieEnds DEF CheckStalledJobsError, Crash
    <3> QED
      BY <1>0, <3>1, EndedRuns
  <2>3. ASSUME NEW r \in Runs, Pop(w, r) PROVE RunsOK'
    BY <2>3, PopRuns
  <2> QED
    BY <1>1, <2>1, <2>2, <2>3 DEF WorkerStep
<1>2. ASSUME NEW r \in Runs, RunStep(r) PROVE RunsOK'
  <2>1. CASE Fetch(r) \/ Settle(r) \/ Timeout(r) \/ Throw(r)
    BY <1>0, <2>1, FetchRuns, SettleRuns, ThrowRuns
  <2>2. CASE PreventStalling(r) \/ FinishSingleJob(r)
    BY <1>0, <2>2, PreventStallingRuns, FinishRuns
  <2>3. CASE FetchMissing(r)
    <3>1. UNCHANGED redis /\ \A s \in Runs : run'[s] \in {run[s], NoRun}
      BY <1>0, <2>3, DieEnds DEF FetchMissing
    <3> QED
      BY <1>0, <3>1, EndedRuns
  <2>4. CASE FetchNameless(r) \/ FetchError(r) \/ RejectNothing(r) \/ FinishError(r)
    <3>1. UNCHANGED redis /\ run' = [run EXCEPT ![r] = NoRun]
      BY <2>4 DEF FetchNameless, FetchError, RejectNothing, FinishError
    <3>2. \A s \in Runs : run'[s] \in {run[s], NoRun}
      BY <1>0, <3>1 DEF TypeOK
    <3> QED
      BY <1>0, <3>1, <3>2, EndedRuns
  <2> QED
    BY <1>2, <2>1, <2>2, <2>3, <2>4 DEF RunStep
<1>3. CASE AppStep
  BY <1>3, AppRuns
<1>4. CASE Tick
  BY <1>0, <1>4, TickRuns
<1>5. CASE UNCHANGED vars
  BY <1>0, <1>5, EndedRuns DEF vars
<1> QED
  BY <1>1, <1>2, <1>3, <1>4, <1>5 DEF Next

----------------------------------------------------------------------------
(* What punctual workers and a careful application may rely on.            *)

LEMMA NextPunctualInv ==
  ASSUME Disciplined
  PROVE  PunctualInv /\ [Next]_vars => PunctualInv'
<1> SUFFICES ASSUME PunctualInv, [Next]_vars PROVE PunctualInv'
  OBVIOUS
<1>1. TypeOK' /\ StallingAreActive'
  BY NextTypeOK, NextStalling DEF PunctualInv
<1> QED
  BY <1>1, NextJobs, NextRuns DEF PunctualInv, JobsOK, RunsOK

LEMMA PunctualInvImplies ==
  ASSUME PunctualInv
  PROVE  KeepaliveBeatsCheck /\ OneRunPerJob /\ OnePlacePerJob /\ NoDanglingId /\ RetryBudget
<1>0. TypeOK
  BY DEF PunctualInv
<1>1. KeepaliveBeatsCheck
  BY DEF PunctualInv, InTime, KeepaliveBeatsCheck
<1>2. \A j \in Ids(waiting) : j \in Jobs
  BY <1>0 DEF TypeOK, Ids
<1>3. OnePlacePerJob
  <2>1. \A i, k \in DOMAIN waiting : waiting[i] = waiting[k] => i = k
    BY DEF PunctualInv, NoDup
  <2>2. \A j \in Jobs : Apart(j)
    BY DEF PunctualInv, JobInv
  <2>3. Ids(waiting) \cap (active \cup succeeded \cup failed) = {}
    BY <1>2, <2>2 DEF Apart
  <2>4. active \cap (succeeded \cup failed) = {} /\ succeeded \cap failed = {}
    BY <1>0, <2>2 DEF Apart, TypeOK
  <2>5. \A r \in Runs : Open(r) => run[r].job \in active
    BY DEF PunctualInv, Fresh
  <2> QED
    BY <2>1, <2>3, <2>4, <2>5 DEF OnePlacePerJob
<1>4. NoDanglingId
  BY <1>0, <1>2 DEF PunctualInv, JobInv, HasData, Present, NoDanglingId, TypeOK
<1>5. RetryBudget
  <2>1. \A j \in Jobs : jobs[j] # NoData => jobs[j] = owed[j] - 1
    BY DEF PunctualInv, JobInv, HasData
  <2>2. \A j \in failed : owed[j] <= 1
    BY <1>0 DEF PunctualInv, JobInv, HasData, TypeOK
  <2>3. \A r \in Runs : run[r].phase \notin {"free", "popped"}
                          => run[r].left = jobs[run[r].job]
    BY DEF PunctualInv, Fresh, Open
  <2> QED
    BY <2>1, <2>2, <2>3 DEF RetryBudget
<1> QED
  BY <1>1, <1>3, <1>4, <1>5 DEF PunctualInv

\* The keepalive of a worker that is on time is always ahead of the stall check,
\* even where the Date.now() of each check is up to CheckLag old or behind when
\* Redis compares it with stallTime and sets the next from it: for any number of
\* workers, jobs, runs and failures, if CheckLag leaves room for the keepalive in
\* the interval (TimingAssumption).
THEOREM JobQueueKeepaliveBeatsCheck == ASSUME Disciplined PROVE Spec => []KeepaliveBeatsCheck
<1>1. PunctualInv => KeepaliveBeatsCheck
  BY PunctualInvImplies
<1> QED
  BY <1>1, InitPunctualInv, NextPunctualInv, PTL DEF Spec

\* A job runs in one place at a time.
THEOREM JobQueueOneRunPerJob == ASSUME Disciplined PROVE Spec => []OneRunPerJob
<1>1. PunctualInv => OneRunPerJob
  BY PunctualInvImplies
<1> QED
  BY <1>1, InitPunctualInv, NextPunctualInv, PTL DEF Spec

\* An id is in one list or set, there once, and a run holds it only while active.
THEOREM JobQueueOnePlacePerJob == ASSUME Disciplined PROVE Spec => []OnePlacePerJob
<1>1. PunctualInv => OnePlacePerJob
  BY PunctualInvImplies
<1> QED
  BY <1>1, InitPunctualInv, NextPunctualInv, PTL DEF Spec

\* An id that a worker may fetch has its data, so no fetch ends a process.
THEOREM JobQueueNoDanglingId == ASSUME Disciplined PROVE Spec => []NoDanglingId
<1>1. PunctualInv => NoDanglingId
  BY PunctualInvImplies
<1> QED
  BY <1>1, InitPunctualInv, NextPunctualInv, PTL DEF Spec

\* A job is retried one time less than retries(n) asked for, and fails for good
\* only then; each failure counts once, whatever fails between a run and its EXEC.
THEOREM JobQueueRetryBudget == ASSUME Disciplined PROVE Spec => []RetryBudget
<1>1. PunctualInv => RetryBudget
  BY PunctualInvImplies
<1> QED
  BY <1>1, InitPunctualInv, NextPunctualInv, PTL DEF Spec

\* A stall check that acts takes no job from a punctual worker.
LEMMA ChecksSpareRuns ==
  ASSUME Disciplined, PunctualInv, [Next]_vars, CheckActs,
         NEW r \in Runs, Open(r), run[r].job \in active
  PROVE  run[r].job \in active'
<1>0. TypeOK /\ InTime(r) /\ stallIn' > stallIn /\ stallIn \in Int /\ stallIn >= -CheckLag
  BY StallInType, TimesFit DEF PunctualInv, CheckActs, TypeOK
<1>1. StallCheck
  <2>1. stallIn' # stallIn
    BY <1>0
  <2>2. ~Tick
    BY <1>0 DEF Tick
  <2>3. ~Destroy
    BY <1>0, TimesFit DEF Destroy
  <2> QED
    BY <2>1, <2>2, <2>3
    DEF Next, vars, redis, WorkerStep, Start, CheckStalledJobs, CheckStalledJobsError, Crash, Pop,
        RunStep, Fetch, FetchNameless, FetchMissing, FetchError, PreventStalling, Settle,
        RejectNothing, Throw, Timeout, FinishSingleJob, FinishError, AppStep, AddJob, Retry, Remove
<1>2. PICK lag \in 0 .. CheckLag : CheckResets(lag)
  <2>1. stallIn' # stallIn
    BY <1>0
  <2> QED
    BY <1>0, <1>1, <2>1, StallCheckCases
<1>3. stallIn <= 0 /\ active' = active \ stalling
  BY <1>0, <1>2, StallCheckMoves
<1> QED
  BY <1>0, <1>3, NotSuspected

\* No stall check resets a job that a worker holds and is on time with, even one
\* that was sent up to CheckLag before Redis ran it, or from a clock behind.
THEOREM JobQueuePunctualNeverReset == ASSUME Disciplined PROVE Spec => PunctualNeverReset
<1>1. PunctualInv /\ [Next]_vars
        => [CheckActs =>
              \A r \in Runs : (Open(r) /\ run[r].worker \in Punctual /\ run[r].job \in active)
                                => run[r].job \in active']_vars
  BY ChecksSpareRuns
<1> QED
  BY <1>1, InitPunctualInv, NextPunctualInv, PTL DEF Spec, PunctualNeverReset

----------------------------------------------------------------------------
(* Here JobQueue implements JobLifecycle: every Redis command, callback,   *)
(* crash and tick is one of its steps, or changes nothing it sees.         *)

LifecycleInv == PunctualInv /\ NoJobLost

Left(j) == Budget(jobs[j])

\* The retries JobLifecycle counts are those that will be made.
LEMMA BudgetValue ==
  /\ Budget(NoData) = 0
  /\ \A k \in RetriesLeft : Budget(k) = IF k > 0 THEN k ELSE 0
BY NoDataType DEF Budget

----------------------------------------------------------------------------
(* What JobLifecycle sees of the keys.                                     *)

\* A run that has a job is open, and its job is active.
LEMMA HeldActive ==
  ASSUME PunctualInv, NEW j \in Jobs, Held(j)
  PROVE  j \in active /\ (stallIn <= 0 => j \notin stalling)
<1>1. PICK r \in Runs : run[r].job = j
  BY DEF Held
<1>2. Open(r)
  BY <1>1, JobsAssumption DEF PunctualInv, TypeOK, RunRecord, NoRun, Open, Phases
<1>3. j \in active
  BY <1>1, <1>2 DEF PunctualInv, Fresh
<1>4. stallIn <= 0 => j \notin stalling
  BY <1>1, <1>2, NotSuspected DEF PunctualInv
<1> QED
  BY <1>3, <1>4

PlaceFacts(j) ==
  /\ jobs[j] = NoData => PlaceOf(j) = "out" /\ ~Present(j)
  /\ jobs[j] # NoData => Present(j)
  /\ j \in Ids(waiting) => PlaceOf(j) = "waiting"
  /\ j \in active /\ Held(j) => PlaceOf(j) = "held"
  /\ j \in active /\ ~Held(j) => PlaceOf(j) = "dropped"
  /\ j \in succeeded => PlaceOf(j) = "succeeded"
  /\ j \in failed => PlaceOf(j) = "failed"
  /\ Apart(j)

AllPlaces == \A j \in Jobs : PlaceFacts(j)

LEMMA PlacesKnown == LifecycleInv => AllPlaces
<1> SUFFICES ASSUME LifecycleInv, NEW j \in Jobs PROVE PlaceFacts(j)
  BY DEF AllPlaces
<1>1. /\ Apart(j) /\ (Present(j) => jobs[j] # NoData)
      /\ jobs[j] # NoData => Present(j)
  BY DEF LifecycleInv, PunctualInv, JobInv, HasData, NoJobLost, Present
<1>2. jobs[j] = NoData => PlaceOf(j) = "out"
  BY <1>1 DEF PlaceOf, Present
<1>3. j \in Ids(waiting) => PlaceOf(j) = "waiting"
  BY <1>1 DEF PlaceOf, Apart, Present
<1>4. j \in active /\ Held(j) => PlaceOf(j) = "held"
  BY <1>1 DEF PlaceOf, Apart, Present
<1>5. j \in active /\ ~Held(j) => PlaceOf(j) = "dropped"
  BY <1>1 DEF PlaceOf, Apart, Present
<1>6. j \in succeeded => PlaceOf(j) = "succeeded"
  BY <1>1 DEF PlaceOf, Apart, Present
<1>7. j \in failed => PlaceOf(j) = "failed"
  BY <1>1 DEF PlaceOf, Apart, Present
<1> QED
  BY <1>1, <1>2, <1>3, <1>4, <1>5, <1>6, <1>7 DEF PlaceFacts

\* Nothing JobLifecycle sees of j has changed.
Seen(j) ==
  /\ j \in Ids(waiting') <=> j \in Ids(waiting)
  /\ j \in active' <=> j \in active
  /\ j \in succeeded' <=> j \in succeeded
  /\ j \in failed' <=> j \in failed
  /\ jobs'[j] = jobs[j]
  /\ j \in active => (Held(j)' <=> Held(j))

Stays(j) == PlaceOf(j)' = PlaceOf(j) /\ Left(j)' = Left(j)

LEMMA SeenStays ==
  ASSUME NEW j \in Jobs, PlaceFacts(j), PlaceFacts(j)', Seen(j)
  PROVE  Stays(j)
<1>1. Left(j)' = Left(j)
  BY DEF Left, Seen
<1>2. CASE jobs[j] = NoData
  BY <1>1, <1>2 DEF PlaceFacts, Seen, Stays
<1>3. CASE jobs[j] # NoData
  <2>1. j \in Ids(waiting) \/ j \in active \/ j \in succeeded \/ j \in failed
    BY <1>3 DEF PlaceFacts, Present
  <2>2. PlaceOf(j)' = PlaceOf(j)
    BY <2>1 DEF PlaceFacts, Seen
  <2> QED
    BY <1>1, <2>2 DEF Stays
<1> QED
  BY <1>2, <1>3

LEMMA AllStay ==
  ASSUME \A j \in Jobs : Stays(j)
  PROVE  UNCHANGED Lifecycle!vars
BY DEF Lifecycle!vars, Stays, Left

\* j goes from one place to another, and the others stay.
LEMMA OneMoves ==
  ASSUME NEW j \in Jobs, NEW from, NEW to, PlaceOf(j) = from, PlaceOf(j)' = to,
         \A k \in Jobs \ {j} : Stays(k)
  PROVE  Lifecycle!Move(j, from, to)
BY DEF Lifecycle!Move, Stays

\* So do the jobs of S.
LEMMA SomeMove ==
  ASSUME NEW S \in SUBSET Jobs, NEW from, NEW to,
         \A j \in S : PlaceOf(j) = from /\ PlaceOf(j)' = to,
         \A k \in Jobs \ S : Stays(k)
  PROVE  Lifecycle!MoveAll(S, from, to)
BY DEF Lifecycle!MoveAll, Stays

----------------------------------------------------------------------------
(* Steps.                                                                  *)

\* Runs that keep their jobs are not seen.
LEMMA RunsUnseen ==
  ASSUME \A j \in Jobs : PlaceFacts(j), \A j \in Jobs : PlaceFacts(j)',
         UNCHANGED <<waiting, active, sets, jobs>>,
         \A r \in Runs : run'[r].job = run[r].job
  PROVE  UNCHANGED Lifecycle!vars
<1>1. ASSUME NEW j \in Jobs PROVE Seen(j)
  BY DEF Seen, Held, sets
<1> QED
  BY <1>1, SeenStays, AllStay

\* Runs that end let go of their jobs.
LEMMA RunsDrop ==
  ASSUME PunctualInv, \A j \in Jobs : PlaceFacts(j), \A j \in Jobs : PlaceFacts(j)',
         UNCHANGED redis, \A r \in Runs : run'[r] \in {run[r], NoRun}
  PROVE  Lifecycle!Next
<1> DEFINE S == {j \in Jobs : Held(j) /\ ~Held(j)'}
<1>1. UNCHANGED <<waiting, active, succeeded, failed, jobs>>
  BY DEF redis
<1>2. ASSUME NEW j \in Jobs, Held(j)' PROVE Held(j)
  <2>1. PICK r \in Runs : run'[r].job = j
    BY <1>2 DEF Held
  <2>2. run'[r] = run[r]
    BY <2>1, JobsAssumption DEF NoRun
  <2> QED
    BY <2>1, <2>2 DEF Held
<1>3. ASSUME NEW j \in S
      PROVE  PlaceOf(j) = "held" /\ PlaceOf(j)' = "dropped" /\ Left(j)' = Left(j)
  <2>1. j \in active /\ Held(j) /\ ~Held(j)' /\ j \in active'
    BY <1>1, HeldActive
  <2> QED
    BY <1>1, <2>1 DEF PlaceFacts, Left
<1>4. ASSUME NEW j \in Jobs \ S PROVE Stays(j)
  <2>1. Seen(j)
    BY <1>1, <1>2 DEF Seen
  <2> QED
    BY <2>1, SeenStays
<1>5. Lifecycle!MoveAll(S, "held", "dropped")
  BY <1>3, <1>4, SomeMove
<1>6. [j \in Jobs |-> Left(j)]' = [j \in Jobs |-> Left(j)]
  BY <1>1 DEF Left
<1>7. Lifecycle!Drop(S) /\ S \in SUBSET Jobs
  BY <1>5, <1>6 DEF Lifecycle!Drop, Left
<1> QED
  BY <1>7 DEF Lifecycle!Next

\* A stall check gives back what nobody holds.
LEMMA CheckGivesBack ==
  ASSUME PunctualInv, \A j \in Jobs : PlaceFacts(j), \A j \in Jobs : PlaceFacts(j)',
         StallCheck, UNCHANGED <<sets, jobs, run>>
  PROVE  Lifecycle!Next \/ UNCHANGED Lifecycle!vars
<1>0. TypeOK /\ stalling \subseteq active /\ stalling \in SUBSET Jobs
  BY DEF PunctualInv, StallingAreActive, TypeOK
<1>1. CASE UNCHANGED <<waiting, active, stalling, stallIn>>
  BY <1>1, RunsUnseen
<1>2. CASE \E lag \in 0 .. CheckLag : CheckResets(lag)
  <2>1. PICK lag \in 0 .. CheckLag : CheckResets(lag)
    BY <1>2
  <2>2. /\ Ids(waiting') = stalling \cup Ids(waiting) /\ active' = active \ stalling
        /\ stallIn <= 0
    BY <1>0, <2>1, StallCheckMoves
  <2>3. ASSUME NEW j \in stalling PROVE PlaceOf(j) = "dropped" /\ PlaceOf(j)' = "waiting"
    <3>1. j \in Jobs /\ j \in active /\ j \in Ids(waiting')
      BY <1>0, <2>2
    <3>2. ~Held(j)
      BY <2>2, <3>1, HeldActive
    <3> QED
      BY <3>1, <3>2 DEF PlaceFacts
  <2>4. ASSUME NEW j \in Jobs \ stalling PROVE Stays(j)
    <3>1. Seen(j)
      BY <2>2 DEF Seen, Held, sets
    <3> QED
      BY <3>1, SeenStays
  <2>5. Lifecycle!MoveAll(stalling, "dropped", "waiting")
    BY <1>0, <2>3, <2>4, SomeMove
  <2>6. Lifecycle!GiveBack(stalling)
    BY <2>5 DEF Lifecycle!GiveBack
  <2> QED
    BY <1>0, <2>6 DEF Lifecycle!Next
<1> QED
  BY <1>0, <1>1, <1>2, StallCheckCases

LEMMA PopTakes ==
  ASSUME PunctualInv, \A j \in Jobs : PlaceFacts(j), \A j \in Jobs : PlaceFacts(j)',
         NEW w \in Workers, NEW r \in Runs, Pop(w, r)
  PROVE  Lifecycle!Next
<1>0. waiting \in Seq(Jobs) /\ waiting # <<>> /\ run \in [Runs -> RunRecord \cup {NoRun}]
  BY DEF PunctualInv, TypeOK, Pop
<1>1. PICK h \in Jobs : h = Head(waiting)
  BY <1>0, IdsHeadTail
<1>2. /\ Ids(waiting) = Ids(waiting') \cup {h} /\ h \notin Ids(waiting')
      /\ active' = active \cup {h} /\ UNCHANGED <<sets, jobs>>
  BY <1>0, <1>1, IdsHeadTail, NoDupTail DEF PunctualInv, Pop
<1>3. /\ run[r].job = None /\ run'[r].job = h
      /\ \A s \in Runs \ {r} : run'[s] = run[s]
  <2>1. run[r] = NoRun
    BY <1>0 DEF Pop, Open, RunRecord
  <2> QED
    BY <1>0, <1>1, <2>1 DEF Pop, NoRun
<1>4. PlaceOf(h) = "waiting" /\ PlaceOf(h)' = "held"
  <2>1. h \in Ids(waiting) /\ h \in active' /\ Held(h)'
    BY <1>2, <1>3 DEF Held
  <2> QED
    BY <2>1 DEF PlaceFacts
<1>5. ASSUME NEW k \in Jobs \ {h} PROVE Stays(k)
  <2>1. k # None
    BY JobsAssumption
  <2>2. Held(k)' <=> Held(k)
    BY <1>3, <2>1 DEF Held
  <2>3. Seen(k)
    BY <1>2, <2>2 DEF Seen, sets
  <2> QED
    BY <2>3, SeenStays
<1>6. Lifecycle!Take(h)
  BY <1>2, <1>4, <1>5, OneMoves DEF Lifecycle!Take
<1> QED
  BY <1>6 DEF Lifecycle!Next

\* The end of a run is the end of its job, or another try.
LEMMA FinishEnds ==
  ASSUME PunctualInv, \A j \in Jobs : PlaceFacts(j), \A j \in Jobs : PlaceFacts(j)',
         NEW r \in Runs, FinishSingleJob(r)
  PROVE  Lifecycle!Next
<1>0. /\ run[r].phase \in {"succeeding", "failing"} /\ Open(r)
      /\ waiting \in Seq(Jobs) /\ jobs \in [Jobs -> RetriesLeft \cup {NoData}]
      /\ run \in [Runs -> RunRecord \cup {NoRun}]
  BY DEF FinishSingleJob, FinishSucceeded, FinishRetrying, FinishFailed, Open, PunctualInv, TypeOK
<1>1. PICK j \in Jobs, l \in RetriesLeft : j = run[r].job /\ l = run[r].left
  BY <1>0, OpenRecord DEF PunctualInv
<1>2. active' = active \ {j} /\ run' = [run EXCEPT ![r] = NoRun]
  BY <1>1 DEF FinishSingleJob, Leave
<1>3. j \in active /\ Held(j) /\ jobs[j] = l
  BY <1>0, <1>1 DEF PunctualInv, Fresh, Held
<1>4. PlaceOf(j) = "held" /\ Left(j) = Budget(l)
  BY <1>3 DEF PlaceFacts, Left
<1>5. ASSUME NEW k \in Jobs \ {j} PROVE Held(k)' <=> Held(k)
  <2>1. k # None /\ run[r].job # k /\ run'[r].job # k
    BY <1>0, <1>1, <1>2, JobsAssumption DEF NoRun
  <2>2. \A s \in Runs \ {r} : run'[s] = run[s]
    BY <1>0, <1>2
  <2> QED
    BY <2>1, <2>2 DEF Held
<1>6. CASE FinishSucceeded(r)
  <2>1. UNCHANGED <<waiting, failed>>
    BY <1>6 DEF FinishSucceeded
  <2>2. CASE jobs' = [jobs EXCEPT ![j] = NoData] /\ succeeded' = succeeded
    <3>1. PlaceOf(j)' = "out" /\ Left(j)' = 0
      BY <1>0, <2>2, BudgetValue DEF PlaceFacts, Left
    <3>2. ASSUME NEW k \in Jobs \ {j} PROVE Stays(k)
      BY <1>0, <1>2, <1>5, <2>1, <2>2, SeenStays DEF Seen
    <3>3. [k \in Jobs |-> Left(k)]' = [[k \in Jobs |-> Left(k)] EXCEPT ![j] = 0]
      BY <3>1, <3>2 DEF Stays
    <3> QED
      BY <1>4, <3>1, <3>2, <3>3, OneMoves DEF Lifecycle!Succeed, Lifecycle!Next, Left
  <2>3. CASE jobs' = [jobs EXCEPT ![j] = l] /\ succeeded' = succeeded \cup {j}
    <3>1. PlaceOf(j)' = "succeeded" /\ jobs' = jobs
      BY <1>0, <1>3, <2>3 DEF PlaceFacts
    <3>2. ASSUME NEW k \in Jobs \ {j} PROVE Stays(k)
      BY <1>2, <1>5, <2>1, <2>3, <3>1, SeenStays DEF Seen
    <3> QED
      BY <1>4, <3>1, <3>2, OneMoves DEF Lifecycle!Succeed, Lifecycle!Next
  <2> QED
    BY <1>1, <1>6, <2>2, <2>3 DEF FinishSucceeded
<1>7. CASE FinishRetrying(r)
  <2>1. /\ l > 0 /\ UNCHANGED sets /\ waiting' = Append(waiting, j)
        /\ jobs' = [jobs EXCEPT ![j] = l - 1]
    BY <1>1, <1>7 DEF FinishRetrying, CanRetry, NextLeft
  <2>2. Ids(waiting') = Ids(waiting) \cup {j}
    BY <1>0, <2>1, IdsAppend
  <2>3. PlaceOf(j)' = "waiting" /\ Left(j) = l /\ Left(j)' = l - 1
    <3>1. l \in Int /\ l - 1 \in RetriesLeft
      BY <1>1, <2>1 DEF RetriesLeft
    <3>2. Budget(l) = l /\ Budget(l - 1) = l - 1
      BY <1>1, <2>1, <3>1, BudgetValue
    <3>3. jobs'[j] = l - 1
      BY <1>0, <2>1
    <3>4. Left(j)' = Budget(l - 1)
      BY <3>3 DEF Left, Budget
    <3> QED
      BY <1>4, <2>2, <3>2, <3>4 DEF PlaceFacts
  <2>4. ASSUME NEW k \in Jobs \ {j} PROVE Stays(k)
    BY <1>0, <1>2, <1>5, <2>1, <2>2, SeenStays DEF Seen, sets
  <2>5. [k \in Jobs |-> Left(k)]' = [[k \in Jobs |-> Left(k)] EXCEPT ![j] = @ - 1]
    BY <2>3, <2>4 DEF Stays
  <2>6. Lifecycle!TryAgain(j)
    <3>1. Left(j) > 0 /\ Lifecycle!Move(j, "held", "waiting")
      BY <1>4, <2>1, <2>3, <2>4, OneMoves
    <3> QED
      BY <2>5, <3>1 DEF Lifecycle!TryAgain, Left
  <2> QED
    BY <2>6 DEF Lifecycle!Next
<1>8. CASE FinishFailed(r)
  <2>1. /\ ~(l > 0) /\ UNCHANGED <<waiting, succeeded>>
        /\ jobs' = [jobs EXCEPT ![j] = l] /\ failed' = failed \cup {j}
    BY <1>1, <1>8 DEF FinishFailed, CanRetry
  <2>2. PlaceOf(j)' = "failed" /\ jobs' = jobs
    BY <1>0, <1>3, <2>1 DEF PlaceFacts
  <2>3. ASSUME NEW k \in Jobs \ {j} PROVE Stays(k)
    BY <1>2, <1>5, <2>1, <2>2, SeenStays DEF Seen
  <2>4. Lifecycle!Fail(j)
    <3>1. Left(j) = 0 /\ Lifecycle!Move(j, "held", "failed")
      BY <1>1, <1>4, <2>1, <2>2, <2>3, OneMoves, BudgetValue
    <3> QED
      BY <2>2, <3>1 DEF Lifecycle!Fail, Left
  <2> QED
    BY <2>4 DEF Lifecycle!Next
<1> QED
  BY <1>6, <1>7, <1>8 DEF FinishSingleJob

\* The calls of an application are those of JobLifecycle.
LEMMA AppCalls ==
  ASSUME Disciplined, PunctualInv, \A j \in Jobs : PlaceFacts(j), \A j \in Jobs : PlaceFacts(j)',
         AppStep
  PROVE  Lifecycle!Next
<1>0. /\ waiting \in Seq(Jobs) /\ jobs \in [Jobs -> RetriesLeft \cup {NoData}]
      /\ TypeOK /\ JobsOK
  BY DEF PunctualInv, TypeOK, JobsOK
<1>1. ASSUME NEW j \in Jobs, NEW n \in Retries, AddJob(j, n) PROVE Lifecycle!Next
  <2>1. jobs[j] = NoData
    BY <1>0, <1>1 DEF JobsOK, JobInv, HasData, AddJob, Accepts
  <2>2. /\ waiting' = Append(waiting, j) /\ jobs' = [jobs EXCEPT ![j] = Stored(n)]
        /\ UNCHANGED <<active, sets, run>>
    BY <1>1 DEF AddJob
  <2>3. Ids(waiting') = Ids(waiting) \cup {j}
    BY <1>0, <2>2, IdsAppend
  <2>4. PlaceOf(j) = "out" /\ PlaceOf(j)' = "waiting" /\ Left(j)' = Budget(Stored(n))
    <3>1. PlaceOf(j) = "out" /\ PlaceOf(j)' = "waiting"
      BY <2>1, <2>3 DEF PlaceFacts
    <3>2. jobs'[j] = Stored(n)
      BY <1>0, <2>2
    <3> QED
      BY <3>1, <3>2 DEF Left, Budget, Stored, NoData
  <2>5. ASSUME NEW k \in Jobs \ {j} PROVE Stays(k)
    BY <1>0, <2>2, <2>3, SeenStays DEF Seen, sets, Held
  <2>6. [k \in Jobs |-> Left(k)]' = [[k \in Jobs |-> Left(k)] EXCEPT ![j] = Budget(Stored(n))]
    BY <2>4, <2>5 DEF Stays
  <2>7. Lifecycle!Move(j, "out", "waiting")
    BY <2>4, <2>5, OneMoves
  <2>8. Budget(Stored(n)) \in {Budget(Stored(m)) : m \in Retries}
    OBVIOUS
  <2>9. Lifecycle!Submit(j)
    BY <2>6, <2>7, <2>8 DEF Lifecycle!Submit, Left
  <2> QED
    BY <2>9 DEF Lifecycle!Next
<1>2. ASSUME NEW j \in Jobs, Retry(j) PROVE Lifecycle!Next
  <2>1. /\ j \in failed /\ failed' = failed \ {j} /\ waiting' = Append(waiting, j)
        /\ UNCHANGED <<active, succeeded, jobs, run>>
    BY <1>2 DEF Retry, Disciplined
  <2>2. Ids(waiting') = Ids(waiting) \cup {j}
    BY <1>0, <2>1, IdsAppend
  <2>3. PlaceOf(j) = "failed" /\ PlaceOf(j)' = "waiting"
    BY <2>1, <2>2 DEF PlaceFacts
  <2>4. ASSUME NEW k \in Jobs \ {j} PROVE Stays(k)
    BY <2>1, <2>2, SeenStays DEF Seen, Held
  <2>5. Lifecycle!Retry(j)
    BY <2>1, <2>3, <2>4, OneMoves DEF Lifecycle!Retry
  <2> QED
    BY <2>5 DEF Lifecycle!Next
<1>3. ASSUME NEW S \in SUBSET Jobs, \A j \in S : PlaceOf(j) # "held" /\ jobs'[j] = NoData,
             \A k \in Jobs \ S : Stays(k)
      PROVE  Lifecycle!Next
  <2>1. \A j \in S : PlaceOf(j)' = "out" /\ Left(j)' = 0
    BY <1>3, BudgetValue DEF PlaceFacts, Left, Budget, NoData
  <2>2. /\ [j \in Jobs |-> PlaceOf(j)]'
             = [j \in Jobs |-> IF j \in S THEN "out" ELSE [k \in Jobs |-> PlaceOf(k)][j]]
        /\ [j \in Jobs |-> Left(j)]'
             = [j \in Jobs |-> IF j \in S THEN 0 ELSE [k \in Jobs |-> Left(k)][j]]
    BY <1>3, <2>1 DEF Stays
  <2>3. Lifecycle!Remove(S)
    BY <1>3, <2>2 DEF Lifecycle!Remove, Left
  <2> QED
    BY <2>3 DEF Lifecycle!Next
<1>4. ASSUME NEW j \in Jobs, Remove(j) PROVE Lifecycle!Next
  <2>1. /\ Ids(waiting') = Ids(waiting) \ {j} /\ j \notin active /\ active' = active
        /\ succeeded' = succeeded \ {j} /\ failed' = failed \ {j} /\ run' = run
        /\ jobs' = [jobs EXCEPT ![j] = NoData]
    BY <1>0, <1>4, RemoveEffect
  <2>2. PlaceOf(j) # "held" /\ jobs'[j] = NoData
    <3>1. jobs[j] = NoData \/ j \in Ids(waiting) \/ j \in succeeded \/ j \in failed
      BY <2>1 DEF PlaceFacts, Present
    <3> QED
      BY <1>0, <2>1, <3>1 DEF PlaceFacts
  <2>3. ASSUME NEW k \in Jobs \ {j} PROVE Stays(k)
    BY <1>0, <2>1, SeenStays DEF Seen, Held
  <2>4. PICK S \in SUBSET Jobs : S = {j}
    OBVIOUS
  <2>5. \A i \in S : PlaceOf(i) # "held" /\ jobs'[i] = NoData
    BY <2>2, <2>4
  <2>6. \A k \in Jobs \ S : Stays(k)
    BY <2>3, <2>4
  <2> QED
    BY <1>3, <2>5, <2>6
<1>5. CASE Destroy
  <2>1. (\A r \in Runs : ~Open(r)) /\ jobs' = [j \in Jobs |-> NoData]
    BY <1>5 DEF Destroy, Disciplined
  <2>2. ASSUME NEW j \in Jobs PROVE PlaceOf(j) # "held" /\ jobs'[j] = NoData
    <3>1. ~Held(j)
      BY <1>0, <2>1, JobsAssumption DEF Held, Open, TypeOK, NoRun, RunRecord, Phases
    <3>2. \/ jobs[j] = NoData \/ j \in Ids(waiting) \/ j \in succeeded \/ j \in failed
          \/ j \in active
      BY DEF PlaceFacts, Present
    <3> QED
      BY <2>1, <3>1, <3>2 DEF PlaceFacts
  <2> QED
    BY <1>3, <2>2
<1> QED
  BY <1>1, <1>2, <1>4, <1>5 DEF AppStep

LEMMA NextLifecycle ==
  ASSUME Disciplined, PunctualInv, \A j \in Jobs : PlaceFacts(j),
         \A j \in Jobs : PlaceFacts(j)', [Next]_vars
  PROVE  Lifecycle!Next \/ UNCHANGED Lifecycle!vars
<1>0. TypeOK
  BY DEF PunctualInv
<1>1. ASSUME NEW w \in Workers, WorkerStep(w) PROVE Lifecycle!Next \/ UNCHANGED Lifecycle!vars
  <2>1. CASE Start(w) \/ CheckStalledJobs(w)
    <3>1. /\ UNCHANGED <<sets, jobs, run>>
          /\ StallCheck \/ UNCHANGED <<waiting, active, stalling, stallIn>>
      BY <2>1 DEF Start, CheckStalledJobs
    <3>2. CASE StallCheck
      BY <3>1, <3>2, CheckGivesBack
    <3>3. CASE UNCHANGED <<waiting, active, stalling, stallIn>>
      BY <3>1, <3>3, RunsUnseen
    <3> QED
      BY <3>1, <3>2, <3>3
  <2>2. CASE CheckStalledJobsError(w)
    BY <2>2, RunsUnseen DEF CheckStalledJobsError, redis, sets
  <2>3. CASE Crash(w)
    <3>1. UNCHANGED redis /\ \A r \in Runs : run'[r] \in {run[r], NoRun}
      BY <1>0, <2>3, DieEnds DEF Crash
    <3> QED
      BY <3>1, RunsDrop
  <2>4. ASSUME NEW r \in Runs, Pop(w, r) PROVE Lifecycle!Next
    BY <2>4, PopTakes
  <2> QED
    BY <1>1, <2>1, <2>2, <2>3, <2>4 DEF WorkerStep
<1>2. ASSUME NEW r \in Runs, RunStep(r) PROVE Lifecycle!Next \/ UNCHANGED Lifecycle!vars
  <2>0. run \in [Runs -> RunRecord \cup {NoRun}]
    BY <1>0 DEF TypeOK
  <2>1. CASE Fetch(r) \/ PreventStalling(r) \/ Settle(r) \/ Timeout(r) \/ Throw(r)
    <3>1. UNCHANGED <<waiting, active, sets, jobs>>
      BY <2>1 DEF Fetch, PreventStalling, Settle, Timeout, Throw, redis, sets
    <3>2. run[r] \in RunRecord
      BY <1>0, <2>1, OpenRecord DEF Fetch, PreventStalling, Settle, Timeout, Throw
    <3>3. \A s \in Runs : run'[s].job = run[s].job
      <4>1. CASE Fetch(r)
        BY <2>0, <4>1, <3>2 DEF Fetch, RunRecord
      <4>2. CASE PreventStalling(r)
        BY <2>0, <4>2, <3>2 DEF PreventStalling, RunRecord
      <4>3. CASE Settle(r) \/ Timeout(r)
        <5>1. Finish(r, "succeeding") \/ Finish(r, "failing")
          BY <4>3 DEF Settle, Timeout
        <5> QED
          BY <2>0, <3>2, <5>1 DEF Finish, RunRecord
      <4>4. CASE Throw(r)
        BY <2>0, <4>4, <3>2 DEF Throw, RunRecord
      <4> QED
        BY <2>1, <4>1, <4>2, <4>3, <4>4
    <3> QED
      BY <3>1, <3>3, RunsUnseen
  <2>2. CASE FetchMissing(r)
    <3>1. UNCHANGED redis /\ \A s \in Runs : run'[s] \in {run[s], NoRun}
      BY <1>0, <2>2, DieEnds DEF FetchMissing
    <3> QED
      BY <3>1, RunsDrop
  <2>3. CASE FetchNameless(r) \/ FetchError(r) \/ RejectNothing(r) \/ FinishError(r)
    <3>1. UNCHANGED redis /\ run' = [run EXCEPT ![r] = NoRun]
      BY <2>3 DEF FetchNameless, FetchError, RejectNothing, FinishError
    <3>2. \A s \in Runs : run'[s] \in {run[s], NoRun}
      BY <2>0, <3>1
    <3> QED
      BY <3>1, <3>2, RunsDrop
  <2>4. CASE FinishSingleJob(r)
    BY <2>4, FinishEnds
  <2> QED
    BY <1>2, <2>1, <2>2, <2>3, <2>4 DEF RunStep
<1>3. CASE AppStep
  BY <1>3, AppCalls
<1>4. CASE Tick
  <2>1. UNCHANGED <<waiting, active, sets, jobs>>
    BY <1>4 DEF Tick
  <2>2. ASSUME NEW s \in Runs PROVE run'[s].job = run[s].job
    <3>1. run'[s] = IF run[s].due > 0 THEN [run[s] EXCEPT !.due = @ - 1] ELSE run[s]
      BY <1>4 DEF Tick
    <3>2. run[s] \in RunRecord \cup {NoRun}
      BY <1>0 DEF TypeOK
    <3> QED
      BY <3>1, <3>2 DEF RunRecord, NoRun
  <2> QED
    BY <2>1, <2>2, RunsUnseen
<1>5. CASE UNCHANGED vars
  BY <1>5, RunsUnseen DEF vars, redis, sets
<1> QED
  BY <1>1, <1>2, <1>3, <1>4, <1>5 DEF Next

LEMMA InitLifecycle == Init => Lifecycle!Init
<1> SUFFICES ASSUME Init PROVE Lifecycle!Init
  OBVIOUS
<1>1. LifecycleInv
  BY InitPunctualInv, InitNoJobLost DEF LifecycleInv
<1>2. \A j \in Jobs : PlaceOf(j) = "out" /\ jobs[j] = NoData
  BY <1>1, PlacesKnown DEF AllPlaces, PlaceFacts, Init
<1>3. \A j \in Jobs : Budget(jobs[j]) = 0
  BY <1>2, BudgetValue
<1> QED
  BY <1>2, <1>3 DEF Lifecycle!Init

LEMMA NextLifecycleInv ==
  ASSUME Disciplined
  PROVE  LifecycleInv /\ [Next]_vars => LifecycleInv'
BY NextPunctualInv, NextNoJobLost DEF LifecycleInv, PunctualInv

\* The queue keeps the promise of JobLifecycle, for any number of workers, runs,
\* jobs, retries and failures, where workers are on time and the application
\* touches only jobs at rest.
THEOREM JobQueueKeepsLifecycle == ASSUME Disciplined PROVE Spec => KeepsLifecycle
<1>1. Init => LifecycleInv
  BY InitPunctualInv, InitNoJobLost DEF LifecycleInv
<1>2. LifecycleInv /\ LifecycleInv' /\ [Next]_vars => [Lifecycle!Next]_(Lifecycle!vars)
  <2>1. LifecycleInv' => AllPlaces'
    BY PlacesKnown, PTL
  <2> QED
    BY <2>1, PlacesKnown, NextLifecycle DEF LifecycleInv, AllPlaces
<1> QED
  BY <1>1, <1>2, InitLifecycle, NextLifecycleInv, PTL DEF Spec, KeepsLifecycle, Lifecycle!Spec
=============================================================================
