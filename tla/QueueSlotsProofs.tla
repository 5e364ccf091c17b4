-------------------------- MODULE QueueSlotsProofs --------------------------
(* Proofs about QueueSlots: the accounting of jobTick holds for every      *)
(* concurrency and every number of jobs, failures and reconnects.          *)
EXTENDS QueueSlots, TLAPS

\* A listener is armed, or has become an 'ready' listener, or a chain.
Listeners ==
  onReady + restarts + (IF onClose THEN 1 ELSE 0) + (IF onError THEN 1 ELSE 0) <= 2

\* What the counters mean, without which the tests on them say nothing.
IInv == TypeOK /\ Listeners /\ QueuedAccounting /\ SerialUpToTwo /\ NeverIdle

LEMMA InitIInv == Init => IInv
  BY SlotsAssumption
  DEF Init, IInv, TypeOK, Listeners, QueuedAccounting, SerialUpToTwo, NeverIdle, Chains

LEMMA NextIInv == IInv /\ [Next]_vars => IInv'
<1> USE SlotsAssumption
    DEF IInv, TypeOK, Listeners, QueuedAccounting, SerialUpToTwo, NeverIdle, Chains,
        counters, listeners, connection, vars, CountFetch, UncountRun, TickAgain, Room
<1> SUFFICES ASSUME IInv, [Next]_vars PROVE IInv'
  OBVIOUS
<1>1. CASE JobTick
  BY <1>1 DEF JobTick
<1>2. CASE Popped
  BY <1>2 DEF Popped
<1>3. CASE Fetched
  \* With queued >= running the test for room needs a concurrency of 3.
  <2>1. queued >= running + 1
    BY <1>3 DEF Fetched
  <2>2. concurrency <= 2 => ticks' = ticks
    BY <1>3, <2>1 DEF Fetched
  <2>3. ticks' \in {ticks, ticks + 1}
    BY <1>3 DEF Fetched
  <2> QED
    BY <1>3, <2>2, <2>3 DEF Fetched
<1>4. CASE FetchFails
  BY <1>4 DEF FetchFails
<1>5. CASE RunEnds
  BY <1>5 DEF RunEnds
<1>6. CASE RunSticks
  BY <1>6 DEF RunSticks
<1>7. CASE Disconnect
  <2>1. Listeners' /\ onReady' \in 0 .. 2 /\ onError' \in BOOLEAN
    <3>1. PICK error \in BOOLEAN :
            /\ onError' = (onError /\ ~error)
            /\ onReady' = onReady + (IF onClose THEN 1 ELSE 0)
                                  + (IF onError /\ error THEN 1 ELSE 0)
      BY <1>7 DEF Disconnect
    <3>2. ~onClose' /\ onClose' \in BOOLEAN /\ restarts' = restarts
      BY <1>7 DEF Disconnect
    <3>3. CASE onError /\ error
      <4>1. ~onError' /\ onError' \in BOOLEAN
        BY <3>1, <3>3
      <4>2. onReady' = onReady + (IF onClose THEN 1 ELSE 0) + 1
        BY <3>1, <3>3
      <4> QED
        BY <3>2, <3>3, <4>1, <4>2
    <3>4. CASE onError /\ ~error
      <4>1. onError' /\ onError' \in BOOLEAN
        BY <3>1, <3>4
      <4>2. onReady' = onReady + (IF onClose THEN 1 ELSE 0)
        BY <3>1, <3>4
      <4> QED
        BY <3>2, <3>4, <4>1, <4>2
    <3>5. CASE ~onError
      <4>1. ~onError' /\ onError' \in BOOLEAN
        BY <3>1, <3>5
      <4>2. onReady' = onReady + (IF onClose THEN 1 ELSE 0)
        BY <3>1, <3>5
      <4> QED
        BY <3>2, <3>5, <4>1, <4>2
    <3> QED
      BY <3>3, <3>4, <3>5
  <2>2. /\ UNCHANGED <<concurrency, running, queued, ticks, blocked, fetching, stuck, supply,
                       restarts, fetchErrors>>
        /\ connected' = FALSE /\ onClose' = FALSE
        /\ disconnects' \in 0 .. MaxDisconnects
    BY <1>7 DEF Disconnect
  <2>3. TypeOK'
    BY <2>1, <2>2
  <2>4. (QueuedAccounting /\ SerialUpToTwo /\ NeverIdle)'
    BY <2>2
  <2> QED
    BY <2>1, <2>3, <2>4
<1>8. CASE Ready
  BY <1>8 DEF Ready
<1>9. CASE UNCHANGED vars
  BY <1>9
<1> QED
  BY <1>1, <1>2, <1>3, <1>4, <1>5, <1>6, <1>7, <1>8, <1>9 DEF Next

\* Every counter keeps its range, stuck runs are among the running ones, and
\* at most two chains are ever added by reconnects.
THEOREM SlotsTypeOK == Spec => []TypeOK
<1>1. IInv => TypeOK
  BY DEF IInv
<1> QED
  BY InitIInv, NextIInv, <1>1, PTL DEF Spec

\* queued is what jobTick takes it for, except for the fetches that failed.
THEOREM SlotsQueuedAccounting == Spec => []QueuedAccounting
<1>1. IInv => QueuedAccounting
  BY DEF IInv
<1> QED
  BY InitIInv, NextIInv, <1>1, PTL DEF Spec

\* A queue configured for 1 or 2 jobs runs one, and one more for each of the
\* at most two restarts of restartProcessing.
THEOREM SlotsSerialUpToTwo == Spec => []SerialUpToTwo
<1>1. IInv => SerialUpToTwo
  BY DEF IInv
<1> QED
  BY InitIInv, NextIInv, <1>1, PTL DEF Spec

\* No failure of a fetch or a run, and no reconnect, ends the last chain.
THEOREM SlotsNeverIdle == Spec => []NeverIdle
<1>1. IInv => NeverIdle
  BY DEF IInv
<1> QED
  BY InitIInv, NextIInv, <1>1, PTL DEF Spec

\* queue.js:422-448 - each failed fetch takes a place: once there are as many as
\* the configured jobs less two, the test for room never passes again, and only
\* a listener of restartProcessing adds a chain.
FailedFetchesTakeRoom ==
  [][concurrency <= 2 + fetchErrors => Chains' - Chains = restarts' - restarts]_vars

THEOREM SlotsFailedFetchesTakeRoom == Spec => FailedFetchesTakeRoom
<1>1. ASSUME IInv, Next, concurrency <= 2 + fetchErrors
      PROVE  Chains' - Chains = restarts' - restarts
  <2> USE <1>1 DEF IInv, TypeOK, Chains, counters, listeners, connection
  <2>1. CASE JobTick
    BY <2>1 DEF JobTick
  <2>2. CASE Popped
    BY <2>2 DEF Popped
  <2>3. CASE Fetched
    <3>1. running' + queued >= 2 + fetchErrors
      BY <2>3 DEF Fetched, QueuedAccounting
    <3>2. ticks' = ticks
      BY <2>3, <3>1 DEF Fetched, Room
    <3> QED
      BY <2>3, <3>2 DEF Fetched
  <2>4. CASE FetchFails
    BY <2>4 DEF FetchFails, TickAgain
  <2>5. CASE RunEnds
    BY <2>5 DEF RunEnds, TickAgain
  <2>6. CASE RunSticks
    BY <2>6 DEF RunSticks
  <2>7. CASE Disconnect
    BY <2>7 DEF Disconnect
  <2>8. CASE Ready
    BY <2>8 DEF Ready
  <2> QED
    BY <2>1, <2>2, <2>3, <2>4, <2>5, <2>6, <2>7, <2>8 DEF Next
<1>2. IInv /\ [Next]_vars
        => [concurrency <= 2 + fetchErrors => Chains' - Chains = restarts' - restarts]_vars
  BY <1>1
<1> QED
  BY <1>2, InitIInv, NextIInv, PTL DEF Spec, FailedFetchesTakeRoom
=============================================================================
