--------------------------- MODULE JobRelayProofs ---------------------------
(* Proofs about JobRelay: what a failed stage costs, who is told, and that *)
(* relay jobs implement JobLifecycle, for any jobs, stages and retries.    *)
EXTENDS JobRelay, TLAPS

----------------------------------------------------------------------------
(* Types.                                                                  *)

LEMMA InitTypeOK == Init => TypeOK
  BY RelayAssumption DEF Init, TypeOK, Data, NoData, NoRun, Unsaved, RetriesLeft

\* The stages an open call still knows of.
LEMMA DecInRange ==
  ASSUME TypeOK, NEW j \in Jobs
  PROVE  Dec(run[j].runs) \in 0 .. MaxStages /\ Retried(j) \in Data
<1>1. run[j].runs \in 0 .. MaxStages /\ run[j].left \in RetriesLeft
  BY DEF TypeOK
<1>2. MaxStages \in Nat
  BY RelayAssumption
<1> QED
  BY <1>1, <1>2 DEF Dec, Retried, Data, RetriesLeft

LEMMA NextTypeOK == TypeOK /\ [Next]_vars => TypeOK'
<1> USE RelayAssumption DEF TypeOK, Data, options, history
<1> SUFFICES ASSUME TypeOK, [Next]_vars PROVE TypeOK'
  OBVIOUS
<1>1. ASSUME NEW j \in Jobs, Save(j) PROVE TypeOK'
  <2>1. PICK n \in 1 .. MaxStages, r \in Retries :
          /\ stages' = [stages EXCEPT ![j] = [runs |-> n, asked |-> r]]
          /\ stored' = [stored EXCEPT ![j] = [runs |-> n, left |-> Stored(r)]]
    BY <1>1 DEF Save
  <2>2. n \in 0 .. MaxStages /\ r \in Nat /\ Stored(r) \in RetriesLeft
    BY DEF Stored, RetriesLeft
  <2>3. UNCHANGED <<options, run, fails, told, faults>> /\ place[j] = "out"
        /\ place' = [place EXCEPT ![j] = "waiting"]
    BY <1>1 DEF Save
  <2> QED
    BY <2>1, <2>2, <2>3
<1>2. ASSUME NEW j \in Jobs, Pop(j) PROVE TypeOK'
  BY <1>2 DEF Pop
<1>3. ASSUME NEW j \in Jobs, Start(j) PROVE TypeOK'
  BY <1>3 DEF Start, NoRun, RetriesLeft
<1>4. ASSUME NEW j \in Jobs, Resolve(j) PROVE TypeOK'
  <2>1. CASE run' = [run EXCEPT ![j] = NoRun] /\ UNCHANGED told
    BY <1>4, <2>1 DEF Resolve, NoRun, RetriesLeft
  <2>2. CASE /\ run' = [run EXCEPT ![j].phase = "succeeding", ![j].runs = Dec(run[j].runs)]
             /\ told' = [told EXCEPT ![j] = @ + 1]
    BY <1>4, <2>2, DecInRange DEF Resolve
  <2> QED
    BY <1>4, <2>1, <2>2 DEF Resolve
<1>5. ASSUME NEW j \in Jobs, Reject(j) PROVE TypeOK'
  BY <1>5, DecInRange DEF Reject
<1>6. ASSUME NEW j \in Jobs, ExecSucceeded(j) PROVE TypeOK'
  <2>1. CASE Leaves(j, "out") /\ stored' = [stored EXCEPT ![j] = NoData]
    <3>1. UNCHANGED <<options, history, faults>> /\ run[j].phase = "succeeding"
      BY <1>6 DEF ExecSucceeded
    <3> QED
      BY <2>1, <3>1 DEF Leaves, NoRun, NoData, RetriesLeft
  <2>2. CASE Leaves(j, "succeeded") /\ stored' = [stored EXCEPT ![j].runs = run[j].runs]
    <3>1. UNCHANGED <<options, history, faults>> /\ run[j].phase = "succeeding"
      BY <1>6 DEF ExecSucceeded
    <3> QED
      BY <2>2, <3>1 DEF Leaves, NoRun, RetriesLeft
  <2> QED
    BY <1>6, <2>1, <2>2 DEF ExecSucceeded
<1>7. ASSUME NEW j \in Jobs, ExecFailed(j) PROVE TypeOK'
  <2>1. Retried(j) \in Data
    BY DecInRange
  <2> QED
    BY <1>7, <2>1 DEF ExecFailed, Leaves, NoRun, RetriesLeft
<1>8. ASSUME NEW j \in Jobs, Lose(j) PROVE TypeOK'
  BY <1>8 DEF Lose, Fault, NoRun, RetriesLeft
<1>9. ASSUME NEW j \in Jobs, Reset(j) PROVE TypeOK'
  BY <1>9 DEF Reset
<1>10. CASE UNCHANGED vars
  BY <1>10 DEF vars
<1> QED
  BY <1>1, <1>2, <1>3, <1>4, <1>5, <1>6, <1>7, <1>8, <1>9, <1>10 DEF Next

\* The keys, runs and events of relay jobs keep their types, and only an
\* active job is run, whatever the number of jobs, stages, retries and faults.
THEOREM RelayTypeOK == Spec => []TypeOK
  BY InitTypeOK, NextTypeOK, PTL DEF Spec

----------------------------------------------------------------------------
(* What a job has cost and told so far.                                    *)

\* A job that was never saved has no history.
Untouched(j) == stages[j] = Unsaved => fails[j] = 0 /\ told[j] = 0 /\ place[j] = "out"

\* The copy an open call works on is that of the hash, less its stage once the
\* handler has settled.
CopyFresh(j) ==
  run[j].phase \in {"running", "succeeding", "failing"} =>
    /\ run[j].left = stored[j].left
    /\ run[j].runs = IF run[j].phase = "running" THEN stored[j].runs ELSE Dec(stored[j].runs)

Live(j) == place[j] \in {"waiting", "active", "failed"}

Rest(n, f) == IF f < n THEN n - f ELSE 0

\* A job that will run again has failed less often than it has tries.
Cost(j) ==
  /\ Live(j) => stored[j].runs = Rest(stages[j].runs, fails[j])
  /\ place[j] \in {"waiting", "active"} =>
       /\ stored[j].left = stages[j].asked - 1 - fails[j]
       /\ fails[j] < stages[j].asked \/ fails[j] = 0
  /\ place[j] = "failed" => fails[j] = IF stages[j].asked = 0 THEN 1 ELSE stages[j].asked

\* Who may yet tell of its success has told of it only if a failure followed.
Told(j) ==
  /\ run[j].phase = "succeeding" => run[j].runs = 0
  /\ told[j] <= 1 + faults
  /\ Live(j) /\ run[j].phase # "succeeding" => told[j] <= faults

JobInv(j) == Untouched(j) /\ CopyFresh(j) /\ Cost(j) /\ Told(j)

IInv == TypeOK /\ \A j \in Jobs : JobInv(j)

LEMMA InitIInv == Init => IInv
<1> SUFFICES ASSUME Init PROVE IInv
  OBVIOUS
<1>1. TypeOK
  BY InitTypeOK
<1>2. ASSUME NEW j \in Jobs PROVE JobInv(j)
  BY DEF Init, JobInv, Untouched, CopyFresh, Cost, Told, Live, NoRun
<1> QED
  BY <1>1, <1>2 DEF IInv

\* What JobInv(k) is about stays as it is.
Same(k) ==
  /\ place'[k] = place[k] /\ stored'[k] = stored[k] /\ run'[k] = run[k]
  /\ stages'[k] = stages[k] /\ fails'[k] = fails[k] /\ told'[k] = told[k]

LEMMA SameJobInv ==
  ASSUME TypeOK, NEW k \in Jobs, JobInv(k), Same(k), faults' \in Nat, faults' >= faults
  PROVE  JobInv(k)'
<1>1. told[k] \in Nat /\ faults \in Nat
  BY RelayAssumption DEF TypeOK
<1> QED
  BY <1>1 DEF Same, JobInv, Untouched, CopyFresh, Cost, Told, Live

\* An action on j leaves the other jobs alone.
LEMMA OthersSame ==
  ASSUME TypeOK, NEW j \in Jobs,
         \/ Save(j) \/ Pop(j) \/ Start(j) \/ Resolve(j) \/ Reject(j)
         \/ ExecSucceeded(j) \/ ExecFailed(j) \/ Lose(j) \/ Reset(j),
         NEW k \in Jobs, k # j
  PROVE  Same(k)
<1> USE DEF Same, TypeOK, history
<1>1. CASE Save(j)
  BY <1>1 DEF Save
<1>2. CASE Pop(j)
  BY <1>2 DEF Pop
<1>3. CASE Start(j)
  BY <1>3 DEF Start
<1>4. CASE Resolve(j)
  BY <1>4 DEF Resolve
<1>5. CASE Reject(j)
  BY <1>5 DEF Reject
<1>6. CASE ExecSucceeded(j)
  BY <1>6 DEF ExecSucceeded, Leaves
<1>7. CASE ExecFailed(j)
  BY <1>7 DEF ExecFailed, Leaves
<1>8. CASE Lose(j)
  BY <1>8 DEF Lose
<1>9. CASE Reset(j)
  BY <1>9 DEF Reset
<1> QED
  BY <1>1, <1>2, <1>3, <1>4, <1>5, <1>6, <1>7, <1>8, <1>9

\* No action takes a failure back.
LEMMA FaultsGrow ==
  ASSUME TypeOK, [Next]_vars
  PROVE  faults \in Nat /\ faults' \in Nat /\ faults' >= faults
<1>1. faults \in Nat
  BY RelayAssumption DEF TypeOK
<1>2. faults' = faults \/ faults' = faults + 1
  BY DEF Next, vars, history, Save, Pop, Start, Resolve, Reject, ExecSucceeded, ExecFailed,
         Lose, Reset, Fault
<1> QED
  BY <1>1, <1>2

\* The types of what belongs to j.
LEMMA JobTypes ==
  ASSUME TypeOK, NEW j \in Jobs
  PROVE  /\ stored[j] \in Data
         /\ stored[j].runs \in Nat /\ stored[j].left \in Int /\ stored[j].left >= -1
         /\ stages[j].runs \in Nat /\ stages[j].asked \in Nat
         /\ run[j].runs \in Nat /\ run[j].left \in Int
         /\ fails[j] \in Nat /\ told[j] \in Nat /\ faults \in Nat
         /\ run[j].phase # "none" => place[j] = "active"
  BY RelayAssumption DEF TypeOK, Data, RetriesLeft

\* One more failure takes one more off what is left.
LEMMA DecRest ==
  ASSUME NEW n \in Nat, NEW f \in Nat PROVE Dec(Rest(n, f)) = Rest(n, f + 1)
  BY DEF Dec, Rest

LEMMA SaveJobInv ==
  ASSUME TypeOK, NEW j \in Jobs, JobInv(j), Save(j) PROVE JobInv(j)'
<1>1. PICK n \in 1 .. MaxStages, r \in Retries :
        /\ stages' = [stages EXCEPT ![j] = [runs |-> n, asked |-> r]]
        /\ stored' = [stored EXCEPT ![j] = [runs |-> n, left |-> Stored(r)]]
  BY DEF Save
<1>2. stages'[j] = [runs |-> n, asked |-> r] /\ stored'[j] = [runs |-> n, left |-> r - 1]
  BY <1>1 DEF TypeOK, Stored
<1>3. n \in Nat \ {0} /\ r \in Nat
  BY RelayAssumption
<1>4. fails[j] = 0 /\ told[j] = 0 /\ run[j].phase = "none"
  BY JobTypes DEF Save, JobInv, Untouched
<1>5. /\ place'[j] = "waiting" /\ run'[j] = run[j] /\ fails'[j] = 0 /\ told'[j] = 0
      /\ faults' = faults
  BY <1>4 DEF Save, TypeOK
<1> QED
  BY <1>2, <1>3, <1>4, <1>5, JobTypes
  DEF JobInv, Untouched, CopyFresh, Cost, Told, Live, Rest, Unsaved

LEMMA PopJobInv ==
  ASSUME TypeOK, NEW j \in Jobs, JobInv(j), Pop(j) PROVE JobInv(j)'
<1>1. /\ place[j] = "waiting" /\ place'[j] = "active" /\ run'[j].phase = "popped"
      /\ run[j].phase = "none"
      /\ stored' = stored /\ stages' = stages /\ fails' = fails /\ told' = told
      /\ faults' = faults
  BY JobTypes DEF Pop, TypeOK, history
<1> QED
  BY <1>1 DEF JobInv, Untouched, CopyFresh, Cost, Told, Live

LEMMA StartJobInv ==
  ASSUME TypeOK, NEW j \in Jobs, JobInv(j), Start(j) PROVE JobInv(j)'
<1>1. /\ run'[j] \in {NoRun, [phase |-> "running", runs |-> stored[j].runs,
                              left |-> stored[j].left]}
      /\ run[j].phase = "popped"
      /\ place' = place /\ stored' = stored /\ stages' = stages /\ fails' = fails
      /\ told' = told /\ faults' = faults
  BY DEF Start, TypeOK, history
<1> QED
  BY <1>1, JobTypes DEF JobInv, Untouched, CopyFresh, Cost, Told, Live, NoRun

LEMMA ResolveJobInv ==
  ASSUME TypeOK, NEW j \in Jobs, JobInv(j), Resolve(j) PROVE JobInv(j)'
<1>1. /\ place' = place /\ stored' = stored /\ stages' = stages /\ fails' = fails
      /\ faults' = faults /\ run[j].phase = "running" /\ place[j] = "active"
  BY JobTypes DEF Resolve
<1>2. CASE Relays(j)
  <2>1. run'[j] = NoRun /\ told'[j] = told[j]
    BY <1>2 DEF Resolve, TypeOK
  <2> QED
    BY <1>1, <2>1 DEF JobInv, Untouched, CopyFresh, Cost, Told, Live, NoRun
<1>3. CASE ~Relays(j)
  <2>1. /\ run'[j].phase = "succeeding" /\ run'[j].runs = Dec(run[j].runs)
        /\ run'[j].left = run[j].left /\ told'[j] = told[j] + 1
    BY <1>3 DEF Resolve, TypeOK
  <2>2. run'[j].runs = 0
    BY <1>3, <2>1, JobTypes DEF Relays, Dec
  <2>3. told[j] <= faults /\ stages[j] # Unsaved
    BY <1>1 DEF JobInv, Told, Live, Untouched
  <2>4. told'[j] <= 1 + faults'
    BY <1>1, <2>1, <2>3, JobTypes
  <2>5. CopyFresh(j)'
    BY <1>1, <2>1 DEF JobInv, CopyFresh
  <2> QED
    BY <1>1, <2>1, <2>2, <2>3, <2>4, <2>5 DEF JobInv, Untouched, Cost, Told, Live
<1> QED
  BY <1>2, <1>3

LEMMA RejectJobInv ==
  ASSUME TypeOK, NEW j \in Jobs, JobInv(j), Reject(j) PROVE JobInv(j)'
<1>1. /\ run'[j].phase = "failing" /\ run'[j].runs = Dec(run[j].runs)
      /\ run'[j].left = run[j].left /\ run[j].phase = "running"
      /\ place' = place /\ stored' = stored /\ stages' = stages /\ fails' = fails
      /\ told' = told /\ faults' = faults
  BY DEF Reject, TypeOK, history
<1> QED
  BY <1>1, JobTypes DEF JobInv, Untouched, CopyFresh, Cost, Told, Live

LEMMA ExecSucceededJobInv ==
  ASSUME TypeOK, NEW j \in Jobs, JobInv(j), ExecSucceeded(j) PROVE JobInv(j)'
<1>1. /\ run[j].phase = "succeeding" /\ place[j] = "active"
      /\ stages' = stages /\ fails' = fails /\ told' = told /\ faults' = faults
  BY JobTypes DEF ExecSucceeded, history
<1>2. place'[j] \in {"out", "succeeded"} /\ run'[j] = NoRun
  BY DEF ExecSucceeded, Leaves, TypeOK
<1> QED
  BY <1>1, <1>2 DEF JobInv, Untouched, CopyFresh, Cost, Told, Live, NoRun

LEMMA ExecFailedJobInv ==
  ASSUME TypeOK, NEW j \in Jobs, JobInv(j), ExecFailed(j) PROVE JobInv(j)'
<1>1. /\ run[j].phase = "failing" /\ place[j] = "active"
      /\ stages' = stages /\ told' = told /\ faults' = faults
      /\ fails'[j] = fails[j] + 1
      /\ stored'[j] = Retried(j)
      /\ place'[j] = (IF run[j].left > 0 THEN "waiting" ELSE "failed") /\ run'[j] = NoRun
  BY JobTypes DEF ExecFailed, Leaves, TypeOK
<1>2. run[j].runs = Dec(stored[j].runs) /\ run[j].left = stored[j].left
  BY <1>1 DEF JobInv, CopyFresh
<1>3. /\ stored'[j].runs = Dec(stored[j].runs)
      /\ stored[j].left > 0 => stored'[j].left = stored[j].left - 1
  BY <1>1, <1>2 DEF Retried
<1>4. stored'[j].runs = Rest(stages[j].runs, fails[j] + 1)
  BY <1>1, <1>3, JobTypes, DecRest DEF JobInv, Cost, Live
<1>5. /\ stored[j].left = stages[j].asked - 1 - fails[j]
      /\ fails[j] < stages[j].asked \/ fails[j] = 0
  BY <1>1 DEF JobInv, Cost
<1>6. Cost(j)'
  <2>1. CASE stored[j].left > 0
    <3>1. place'[j] = "waiting" /\ stored'[j].left = stages[j].asked - 1 - (fails[j] + 1)
      BY <1>1, <1>2, <1>3, <1>5, <2>1, JobTypes
    <3>2. fails[j] + 1 < stages[j].asked
      BY <1>5, <2>1, JobTypes
    <3> QED
      BY <1>1, <1>4, <3>1, <3>2 DEF Cost, Live
  <2>2. CASE ~(stored[j].left > 0)
    <3>1. place'[j] = "failed"
      BY <1>1, <1>2, <2>2
    <3>2. fails[j] + 1 = IF stages[j].asked = 0 THEN 1 ELSE stages[j].asked
      BY <1>5, <2>2, JobTypes
    <3> QED
      BY <1>1, <1>4, <3>1, <3>2 DEF Cost, Live
  <2> QED
    BY <2>1, <2>2
<1>7. stages[j] # Unsaved
  BY <1>1 DEF JobInv, Untouched
<1> QED
  BY <1>1, <1>6, <1>7 DEF JobInv, Untouched, CopyFresh, Told, Live, NoRun

LEMMA LoseJobInv ==
  ASSUME TypeOK, NEW j \in Jobs, JobInv(j), Lose(j) PROVE JobInv(j)'
<1>1. /\ run'[j] = NoRun /\ run[j].phase # "none" /\ faults' = faults + 1
      /\ place' = place /\ stored' = stored /\ stages' = stages /\ fails' = fails
      /\ told' = told
  BY DEF Lose, Fault, TypeOK, history
<1> QED
  BY <1>1, JobTypes DEF JobInv, Untouched, CopyFresh, Cost, Told, Live, NoRun

LEMMA ResetJobInv ==
  ASSUME TypeOK, NEW j \in Jobs, JobInv(j), Reset(j) PROVE JobInv(j)'
<1>1. /\ place[j] = "active" /\ place'[j] = "waiting"
      /\ run' = run /\ stored' = stored /\ stages' = stages /\ fails' = fails
      /\ told' = told /\ faults' = faults
  BY DEF Reset, TypeOK, history
<1> QED
  BY <1>1 DEF JobInv, Untouched, CopyFresh, Cost, Told, Live

LEMMA NextIInv == IInv /\ [Next]_vars => IInv'
<1> SUFFICES ASSUME IInv, [Next]_vars PROVE IInv'
  OBVIOUS
<1>1. TypeOK /\ TypeOK'
  BY NextTypeOK DEF IInv
<1>2. faults' \in Nat /\ faults' >= faults
  BY <1>1, FaultsGrow
<1>3. ASSUME NEW k \in Jobs PROVE JobInv(k)'
  <2>1. JobInv(k)
    BY DEF IInv
  <2>2. CASE UNCHANGED vars
    <3>1. Same(k)
      BY <2>2 DEF Same, vars
    <3> QED
      BY <1>1, <1>2, <2>1, <3>1, SameJobInv
  <2>3. CASE Next
    <3>1. PICK j \in Jobs :
            \/ Save(j) \/ Pop(j) \/ Start(j) \/ Resolve(j) \/ Reject(j)
            \/ ExecSucceeded(j) \/ ExecFailed(j) \/ Lose(j) \/ Reset(j)
      BY <2>3 DEF Next
    <3>2. CASE k # j
      <4>1. Same(k)
        BY <1>1, <3>1, <3>2, OthersSame
      <4> QED
        BY <1>1, <1>2, <2>1, <4>1, SameJobInv
    <3>3. CASE k = j
      BY <1>1, <2>1, <3>1, <3>3, SaveJobInv, PopJobInv, StartJobInv, ResolveJobInv,
         RejectJobInv, ExecSucceededJobInv, ExecFailedJobInv, LoseJobInv, ResetJobInv
    <3> QED
      BY <3>2, <3>3
  <2> QED
    BY <2>2, <2>3
<1> QED
  BY <1>1, <1>3 DEF IInv

\* The strengthening the next two theorems are read from is an invariant: what
\* each relay's stored data, copies, events and counts have to do with another.
THEOREM RelayIInv == Spec => []IInv
  BY InitIInv, NextIInv, PTL DEF Spec

\* Each failure that is written back costs a relay one retry and one stage, and
\* nothing else does, for any number of jobs, stages, retries and faults.
THEOREM RelayEachFailureTakesAStage == Spec => []EachFailureTakesAStage
<1>1. IInv => EachFailureTakesAStage
  BY DEF IInv, JobInv, Cost, Live, Rest, EachFailureTakesAStage
<1> QED
  BY <1>1, RelayIInv, PTL

\* Success is told of the last stage only, and once but for failures after it.
THEOREM RelayToldOfTheLastStage == Spec => []ToldOfTheLastStage
<1>1. IInv => ToldOfTheLastStage
  BY DEF IInv, JobInv, Told, ToldOfTheLastStage
<1> QED
  BY <1>1, RelayIInv, PTL

----------------------------------------------------------------------------
(* Relay jobs implement JobLifecycle: every action is one of its steps, or *)
(* changes nothing it sees.                                                *)

LEMMA InitLifecycle == Init => Lifecycle!Init
  BY DEF Init, Lifecycle!Init, PlaceOf, NoData, Budget

\* j goes from one place to another, as JobLifecycle sees it.
LEMMA Moves ==
  ASSUME NEW j \in Jobs, NEW from, NEW to, PlaceOf(j) = from, PlaceOf(j)' = to,
         \A k \in Jobs \ {j} : PlaceOf(k)' = PlaceOf(k)
  PROVE  Lifecycle!Move(j, from, to) /\ Lifecycle!MoveAll({j}, from, to)
  BY DEF Lifecycle!Move, Lifecycle!MoveAll

\* What an action on j does to the other jobs.
LEMMA OthersStay ==
  ASSUME TypeOK, NEW j \in Jobs,
         \/ Save(j) \/ Pop(j) \/ Start(j) \/ Resolve(j) \/ Reject(j)
         \/ ExecSucceeded(j) \/ ExecFailed(j) \/ Lose(j) \/ Reset(j)
  PROVE  \A k \in Jobs \ {j} : PlaceOf(k)' = PlaceOf(k) /\ stored'[k] = stored[k]
<1>1. ASSUME NEW k \in Jobs \ {j} PROVE PlaceOf(k)' = PlaceOf(k) /\ stored'[k] = stored[k]
  <2>1. Same(k)
    BY OthersSame
  <2> QED
    BY <2>1 DEF Same, PlaceOf
<1> QED
  BY <1>1

LEMMA NextLifecycle ==
  ASSUME IInv, NEW j \in Jobs,
         \/ Save(j) \/ Pop(j) \/ Start(j) \/ Resolve(j) \/ Reject(j)
         \/ ExecSucceeded(j) \/ ExecFailed(j) \/ Lose(j) \/ Reset(j)
  PROVE  Lifecycle!Next \/ UNCHANGED Lifecycle!vars
<1>0. TypeOK /\ JobInv(j)
  BY DEF IInv
<1> DEFINE Left == [k \in Jobs |-> Budget(stored[k].left)]
           Stay == \A k \in Jobs \ {j} : PlaceOf(k)' = PlaceOf(k)
<1>a. Stay
  BY <1>0, OthersStay
<1>b. ASSUME stored' = stored PROVE Left' = Left
  BY <1>b
<1>c. ASSUME PlaceOf(j)' = PlaceOf(j), Left' = Left PROVE UNCHANGED Lifecycle!vars
  <2>1. \A k \in Jobs : PlaceOf(k)' = PlaceOf(k)
    BY <1>a, <1>c
  <2> QED
    BY <1>c, <2>1 DEF Lifecycle!vars
<1>d. ASSUME PlaceOf(j) = "held", PlaceOf(j)' = "dropped", Left' = Left PROVE Lifecycle!Next
  <2>1. Lifecycle!Drop({j})
    BY <1>a, <1>d, Moves DEF Lifecycle!Drop
  <2> QED
    BY <2>1 DEF Lifecycle!Next
<1>1. CASE Save(j)
  <2>1. PICK n \in 1 .. MaxStages, r \in Retries :
          stored' = [stored EXCEPT ![j] = [runs |-> n, left |-> Stored(r)]]
    BY <1>1 DEF Save
  <2>2. Left' = [Left EXCEPT ![j] = Budget(Stored(r))]
    BY <1>0, <2>1 DEF TypeOK
  <2>3. PlaceOf(j) = "out" /\ PlaceOf(j)' = "waiting"
    BY <1>0, <1>1 DEF Save, PlaceOf, TypeOK
  <2>4. Lifecycle!Submit(j)
    BY <1>a, <2>2, <2>3, Moves DEF Lifecycle!Submit
  <2> QED
    BY <2>4 DEF Lifecycle!Next
<1>2. CASE Pop(j)
  <2>1. PlaceOf(j) = "waiting" /\ PlaceOf(j)' = "held" /\ stored' = stored
    BY <1>0, <1>2 DEF Pop, PlaceOf, TypeOK
  <2>2. Lifecycle!Take(j)
    BY <1>a, <1>b, <2>1, Moves DEF Lifecycle!Take
  <2> QED
    BY <2>2 DEF Lifecycle!Next
<1>3. CASE Start(j)
  <2>1. PlaceOf(j) = "held" /\ PlaceOf(j)' \in {"held", "dropped"} /\ stored' = stored
    BY <1>0, <1>3 DEF Start, PlaceOf, TypeOK, NoRun
  <2> QED
    BY <1>b, <1>c, <1>d, <2>1
<1>4. CASE Resolve(j)
  <2>1. PlaceOf(j) = "held" /\ PlaceOf(j)' \in {"held", "dropped"} /\ stored' = stored
    BY <1>0, <1>4 DEF Resolve, PlaceOf, TypeOK, NoRun
  <2> QED
    BY <1>b, <1>c, <1>d, <2>1
<1>5. CASE Reject(j)
  <2>1. PlaceOf(j)' = PlaceOf(j) /\ stored' = stored
    BY <1>0, <1>5 DEF Reject, PlaceOf, TypeOK
  <2> QED
    BY <1>b, <1>c, <2>1
<1>6. CASE ExecSucceeded(j)
  <2>1. PlaceOf(j) = "held"
    BY <1>0, <1>6 DEF ExecSucceeded, PlaceOf, TypeOK
  <2>2. CASE Leaves(j, "out") /\ stored' = [stored EXCEPT ![j] = NoData]
    <3>1. PlaceOf(j)' = "out"
      BY <1>0, <2>2 DEF Leaves, PlaceOf, TypeOK
    <3>2. Left' = [Left EXCEPT ![j] = 0]
      BY <1>0, <2>2 DEF TypeOK, NoData, Budget
    <3> QED
      BY <1>a, <2>1, <3>1, <3>2, Moves DEF Lifecycle!Next, Lifecycle!Succeed
  <2>3. CASE Leaves(j, "succeeded") /\ stored' = [stored EXCEPT ![j].runs = run[j].runs]
    <3>1. PlaceOf(j)' = "succeeded"
      BY <1>0, <2>3 DEF Leaves, PlaceOf, TypeOK
    <3>2. Left' = Left
      BY <1>0, <2>3 DEF TypeOK, Data
    <3> QED
      BY <1>a, <2>1, <3>1, <3>2, Moves DEF Lifecycle!Next, Lifecycle!Succeed
  <2> QED
    BY <1>6, <2>2, <2>3 DEF ExecSucceeded
<1>7. CASE ExecFailed(j)
  <2>1. PlaceOf(j) = "held" /\ run[j].phase = "failing"
    BY <1>0, <1>7 DEF ExecFailed, PlaceOf, TypeOK
  <2>2. run[j].left = stored[j].left
    BY <1>0, <2>1 DEF JobInv, CopyFresh
  <2>3. /\ stored'[j].left = (IF stored[j].left > 0 THEN stored[j].left - 1 ELSE stored[j].left)
        /\ \A k \in Jobs \ {j} : stored'[k] = stored[k]
    BY <1>0, <1>7, <2>2 DEF ExecFailed, Retried, TypeOK
  <2>4. CASE stored[j].left > 0
    <3>1. PlaceOf(j)' = "waiting"
      BY <1>0, <1>7, <2>2, <2>4 DEF ExecFailed, Leaves, PlaceOf, TypeOK
    <3>2. Left[j] = stored[j].left /\ Budget(stored'[j].left) = stored[j].left - 1
      BY <1>0, <2>3, <2>4, JobTypes DEF Budget
    <3>3. Left' = [Left EXCEPT ![j] = @ - 1]
      BY <2>3, <3>2
    <3>4. Lifecycle!TryAgain(j)
      BY <1>a, <2>1, <2>4, <3>1, <3>2, <3>3, Moves DEF Lifecycle!TryAgain
    <3> QED
      BY <3>4 DEF Lifecycle!Next
  <2>5. CASE ~(stored[j].left > 0)
    <3>1. PlaceOf(j)' = "failed"
      BY <1>0, <1>7, <2>2, <2>5 DEF ExecFailed, Leaves, PlaceOf, TypeOK
    <3>2. Left[j] = 0 /\ Left' = Left
      BY <2>3, <2>5 DEF Budget
    <3>3. Lifecycle!Fail(j)
      BY <1>a, <2>1, <3>1, <3>2, Moves DEF Lifecycle!Fail
    <3> QED
      BY <3>3 DEF Lifecycle!Next
  <2> QED
    BY <2>4, <2>5
<1>8. CASE Lose(j)
  <2>1. PlaceOf(j) = "held" /\ PlaceOf(j)' = "dropped" /\ stored' = stored
    BY <1>0, <1>8 DEF Lose, PlaceOf, TypeOK, NoRun
  <2> QED
    BY <1>b, <1>d, <2>1
<1>9. CASE Reset(j)
  <2>1. PlaceOf(j) = "dropped" /\ PlaceOf(j)' = "waiting" /\ stored' = stored
    BY <1>0, <1>9 DEF Reset, PlaceOf, TypeOK
  <2>2. Lifecycle!GiveBack({j})
    BY <1>a, <1>b, <2>1, Moves DEF Lifecycle!GiveBack
  <2> QED
    BY <2>2 DEF Lifecycle!Next
<1> QED
  BY <1>1, <1>2, <1>3, <1>4, <1>5, <1>6, <1>7, <1>8, <1>9

\* Relay jobs keep the promise of JobLifecycle for any number of jobs, stages,
\* retries and faults.
THEOREM RelayKeepsLifecycle == Spec => KeepsLifecycle
<1>1. Init => Lifecycle!Init
  BY InitLifecycle
<1>2. IInv /\ [Next]_vars => [Lifecycle!Next]_(Lifecycle!vars)
  <2> SUFFICES ASSUME IInv, [Next]_vars PROVE Lifecycle!Next \/ UNCHANGED Lifecycle!vars
    OBVIOUS
  <2>1. CASE Next
    BY <2>1, NextLifecycle DEF Next
  <2>2. CASE UNCHANGED vars
    BY <2>2 DEF vars, Lifecycle!vars, PlaceOf
  <2> QED
    BY <2>1, <2>2
<1> QED
  BY <1>1, <1>2, RelayIInv, PTL DEF Spec, KeepsLifecycle, Lifecycle!Spec
=============================================================================
