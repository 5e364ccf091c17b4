----------------------------- MODULE QueueSlots -----------------------------
(***************************************************************************)
(* The scheduling of one queue processor: Queue.process and its jobTick,   *)
(* which counts in running and queued to keep at most `concurrency' jobs   *)
(* running, on a blocking connection that may be lost and come back.       *)
(*                                                                         *)
(* A chain of callbacks - tick, BRPOPLPUSH, HGET, run, tick again - is     *)
(* always at one of its stages; the variables count the chains at each.    *)
(* One action is one callback of the process; between the end of a run and *)
(* the tick it asks for with setImmediate other callbacks may come first.  *)
(***************************************************************************)
EXTENDS Integers

CONSTANTS
  MaxConcurrency,   \* largest concurrency the queue is configured with
  MaxJobs,          \* bound on the jobs ever saved to the queue
  MaxDisconnects,   \* bound on the losses of the blocking connection
  MaxFetchErrors,   \* bound on the failed fetches
  MaxStuck          \* bound on the runs that never settle (rejection without a reason)

ASSUME SlotsAssumption ==
  /\ MaxConcurrency \in Nat \ {0} /\ MaxJobs \in Nat
  /\ MaxDisconnects \in Nat /\ MaxFetchErrors \in Nat /\ MaxStuck \in Nat

VARIABLES
  concurrency,  \* this.concurrency
  running,      \* this.running
  queued,       \* this.queued
  ticks,        \* jobTick callbacks waiting in setImmediate
  blocked,      \* BRPOPLPUSH commands without a reply
  fetching,     \* HGET commands without a reply
  stuck,        \* runs whose promise never settles
  supply,       \* jobs in waiting, or yet to be saved: until then BRPOPLPUSH blocks
  connected,    \* is the blocking connection up?
  onClose,      \* is restartProcessing still listening for 'close' ...
  onError,      \* ... and for 'error'?
  onReady,      \* jobTick listeners for the next 'ready'
  restarts,     \* history: chains started by such a listener
  fetchErrors,  \* history: fetches that failed
  disconnects   \* history: losses of the connection

counters   == <<running, queued>>
listeners  == <<onClose, onError, onReady>>
connection == <<connected, listeners, restarts, disconnects>>
vars == <<concurrency, counters, ticks, blocked, fetching, stuck, supply, connection,
          fetchErrors>>

\* Queue.process, once its first stall check has answered.
Init ==
  /\ concurrency \in 1 .. MaxConcurrency
  /\ running = 0 /\ queued = 0
  /\ ticks = 1 /\ blocked = 0 /\ fetching = 0 /\ stuck = 0
  /\ supply \in 0 .. MaxJobs
  /\ connected = TRUE /\ onClose = TRUE /\ onError = TRUE /\ onReady = 0
  /\ restarts = 0 /\ fetchErrors = 0 /\ disconnects = 0

CountNothing == queued' = queued   \* mutation: not counted
CountFetch == queued' = queued + 1

\* jobTick: count the fetch and send BRPOPLPUSH.
JobTick ==
  /\ ticks > 0
  /\ ticks' = ticks - 1
  /\ CountFetch
  /\ blocked' = blocked + 1
  /\ UNCHANGED <<concurrency, running, fetching, stuck, supply, connection, fetchErrors>>

\* BRPOPLPUSH replies with an id, HGET follows on the other connection.
Popped ==
  /\ connected /\ blocked > 0 /\ supply > 0
  /\ blocked' = blocked - 1
  /\ fetching' = fetching + 1
  /\ supply' = supply - 1
  /\ UNCHANGED <<concurrency, counters, ticks, stuck, connection, fetchErrors>>

RoomForOneMore == running' + queued <= concurrency   \* mutation: <= for <
Room == running' + queued < concurrency

\* The job arrives: run it, and ask for another tick if there is room.
Fetched ==
  /\ fetching > 0
  /\ fetching' = fetching - 1
  /\ running' = running + 1
  /\ ticks' = IF Room THEN ticks + 1 ELSE ticks
  /\ UNCHANGED <<concurrency, queued, blocked, stuck, supply, connection, fetchErrors>>

TickMaybe == ticks' \in {ticks, ticks + 1}   \* mutation: not after an error
TickAgain == ticks' = ticks + 1

\* BRPOPLPUSH or HGET fails: tick again; queued keeps its count.
FetchFails ==
  /\ fetchErrors < MaxFetchErrors
  /\ fetchErrors' = fetchErrors + 1
  /\ \/ blocked > 0 /\ blocked' = blocked - 1 /\ UNCHANGED fetching
     \/ fetching > 0 /\ fetching' = fetching - 1 /\ UNCHANGED blocked
  /\ TickAgain
  /\ UNCHANGED <<concurrency, counters, stuck, supply, connection>>

UncountNothing == queued' = queued   \* mutation: the run stays counted
UncountRun == queued' = queued - 1

\* _runJob settles, either way.
RunEnds ==
  /\ running > stuck
  /\ running' = running - 1
  /\ UncountRun
  /\ TickAgain
  /\ UNCHANGED <<concurrency, blocked, fetching, stuck, supply, connection, fetchErrors>>

\* A handler rejects without a reason: handleError throws, _runJob never settles.
RunSticks ==
  /\ running > stuck /\ stuck < MaxStuck
  /\ stuck' = stuck + 1
  /\ UNCHANGED <<concurrency, counters, ticks, blocked, fetching, supply, connection,
                 fetchErrors>>

\* The connection is lost, or an attempt to reconnect fails: 'close', after
\* an 'error' or not.  BRPOPLPUSH commands without a reply are sent again later.
Disconnect ==
  /\ disconnects < MaxDisconnects
  /\ disconnects' = disconnects + 1
  /\ connected' = FALSE
  /\ onClose' = FALSE
  /\ \E error \in BOOLEAN :
       /\ onError' = (onError /\ ~error)
       /\ onReady' = onReady + (IF onClose THEN 1 ELSE 0) + (IF onError /\ error THEN 1 ELSE 0)
  /\ UNCHANGED <<concurrency, counters, ticks, blocked, fetching, stuck, supply, restarts,
                 fetchErrors>>

\* 'ready' again: each listener of restartProcessing runs jobTick at once.
Ready ==
  /\ ~connected
  /\ connected' = TRUE
  /\ onReady' = 0
  /\ restarts' = restarts + onReady
  /\ queued' = queued + onReady
  /\ blocked' = blocked + onReady
  /\ UNCHANGED <<concurrency, running, ticks, fetching, stuck, supply, onClose, onError,
                 fetchErrors, disconnects>>

Next ==
  \/ JobTick \/ Popped \/ Fetched \/ FetchFails \/ RunEnds \/ RunSticks
  \/ Disconnect \/ Ready

Spec == Init /\ [][Next]_vars

\* The event loop runs every callback, Redis answers, the connection comes
\* back, and a run that can settle does (handlers have a timeout).
Fairness ==
  WF_vars(JobTick) /\ WF_vars(Popped) /\ WF_vars(Fetched) /\ WF_vars(RunEnds) /\ WF_vars(Ready)

LiveSpec == Spec /\ Fairness

----------------------------------------------------------------------------
TypeOK ==
  /\ concurrency \in 1 .. MaxConcurrency
  /\ running \in Nat /\ queued \in Nat
  /\ ticks \in Nat /\ blocked \in Nat /\ fetching \in Nat /\ stuck \in 0 .. running
  /\ supply \in 0 .. MaxJobs
  /\ connected \in BOOLEAN /\ onClose \in BOOLEAN /\ onError \in BOOLEAN
  /\ onReady \in 0 .. 2 /\ restarts \in 0 .. 2
  /\ fetchErrors \in 0 .. MaxFetchErrors /\ disconnects \in 0 .. MaxDisconnects

Chains == ticks + blocked + fetching + running

\* queued counts every fetch and every run there is, and one more for each
\* fetch that ever failed: a fetch error takes room away for good.
QueuedAccounting == queued = blocked + fetching + running + fetchErrors

\* The processor never falls asleep: after failed fetches, failed runs and
\* reconnects there is still a chain, unless a run that never settles holds it.
NeverIdle == stuck = 0 => Chains > 0

\* Where the test for room can never pass, up to a concurrency of 2, one job
\* runs at a time, and one more for each chain a lost connection added.
SerialUpToTwo == concurrency <= 2 => Chains = 1 + restarts

\* Every job is taken, unless a run that never settles holds the last chain.
JobsAreTaken == <>(supply = 0 \/ stuck > 0)

\* README.md:21, queue.js:420 - a queue runs at most `concurrency' jobs.
RunningWithinConcurrency == running <= concurrency
=============================================================================
