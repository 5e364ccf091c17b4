---------------------------- MODULE JobLifecycle ----------------------------
(***************************************************************************)
(* What the job module promises of each job, whatever Redis keys, workers  *)
(* and timers it takes: a job is in one place; one run at a time holds it, *)
(* and only that run ends it; a job comes back to the queue when its run   *)
(* has let go of it, when it failed with retries left, which costs one, or *)
(* when the application asks; an ended job stays ended but for that.       *)
(***************************************************************************)
EXTENDS Naturals

CONSTANTS
  Jobs,
  Budgets   \* retries a job may be submitted with

VARIABLES
  place,  \* "out", "waiting", "held", "dropped", "succeeded" or "failed"
  left    \* retries left

vars == <<place, left>>

Init ==
  /\ place = [j \in Jobs |-> "out"]
  /\ left = [j \in Jobs |-> 0]

\* j goes from one place to another.
Move(j, from, to) == place[j] = from /\ place' = [place EXCEPT ![j] = to]

\* The same for all of S.
MoveAll(S, from, to) ==
  /\ \A j \in S : place[j] = from
  /\ place' = [j \in Jobs |-> IF j \in S THEN to ELSE place[j]]

Submit(j) ==
  /\ Move(j, "out", "waiting")
  /\ \E n \in Budgets : left' = [left EXCEPT ![j] = n]

Take(j) == Move(j, "waiting", "held") /\ UNCHANGED left

Succeed(j) ==
  \/ Move(j, "held", "succeeded") /\ UNCHANGED left
  \/ Move(j, "held", "out") /\ left' = [left EXCEPT ![j] = 0]

TryAgain(j) ==
  /\ left[j] > 0
  /\ Move(j, "held", "waiting")
  /\ left' = [left EXCEPT ![j] = @ - 1]

Fail(j) == left[j] = 0 /\ Move(j, "held", "failed") /\ UNCHANGED left

\* A worker lets go of the jobs it holds: it died, or could not finish them.
Drop(S) == MoveAll(S, "held", "dropped") /\ UNCHANGED left

\* What nobody holds goes back to the queue.
GiveBack(S) == MoveAll(S, "dropped", "waiting") /\ UNCHANGED left

Retry(j) == Move(j, "failed", "waiting") /\ UNCHANGED left

\* The application removes a job at rest, or all of them.
Remove(S) ==
  /\ \A j \in S : place[j] # "held"
  /\ place' = [j \in Jobs |-> IF j \in S THEN "out" ELSE place[j]]
  /\ left' = [j \in Jobs |-> IF j \in S THEN 0 ELSE left[j]]

Next ==
  \/ \E S \in SUBSET Jobs : Drop(S) \/ GiveBack(S) \/ Remove(S)
  \/ \E j \in Jobs : Submit(j) \/ Take(j) \/ Succeed(j) \/ TryAgain(j) \/ Fail(j) \/ Retry(j)

Spec == Init /\ [][Next]_vars
=============================================================================
