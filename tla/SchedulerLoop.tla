--------------------------- MODULE SchedulerLoop ---------------------------
(***************************************************************************)
(* The loop of the schedule module, on several nodes: a lock in Redis lets *)
(* one of them at a time look at the schedules; a timer ends a loop whose  *)
(* answer from Redis does not come; the end of a loop arms the next one.   *)
(*                                                                         *)
(* What a callback defers with process.nextTick runs before any other      *)
(* callback of the process: it is one action with it.  The schedules       *)
(* themselves are only logged by the code; that a node gets to do so is    *)
(* what matters here.                                                      *)
(***************************************************************************)
EXTENDS Integers, Sequences

CONSTANTS
  Nodes,
  LoopDelay,     \* LOOP_DELAY, in ticks
  IdleDelay,     \* delay between loops while there are no schedules
  HasSchedules,  \* does the node know any?
  StallAfter,    \* time after which a loop counts as stalled
  LockExpire,    \* SCHEDULER_LOCK_EXPIRE
  MaxRand,       \* largest random number taken off the lock's time
  Forced,        \* are stops forced: stop(true)?
  MaxBreaks,     \* bound on the stops and crashes together
  MaxSent        \* bound on the commands of a node that Redis has not answered

ASSUME SchedulerAssumption ==
  /\ LoopDelay \in Nat /\ IdleDelay \in Nat /\ StallAfter \in Nat
  /\ LockExpire \in Nat /\ LockExpire >= LoopDelay
  /\ MaxRand \in Nat \ {0}
  /\ HasSchedules \in BOOLEAN /\ Forced \in BOOLEAN
  /\ MaxBreaks \in Nat /\ MaxSent \in Nat

VARIABLES
  node,       \* the Scheduler object of each node, see Fresh
  sent,       \* its commands not executed yet
  replies,    \* answers to its lock commands, not received yet
  lockTtl,    \* Redis: time to live of the lock, 0 when there is none
  sinceLock,  \* history: time since a lock was last granted, up to LoopDelay
  breaks      \* stops and crashes so far

redis == <<lockTtl, sinceLock>>
vars  == <<node, sent, replies, redis, breaks>>

Off == -1   \* a timer that is not armed

Fresh == [running |-> FALSE, completed |-> FALSE, acquired |-> FALSE,
          gathering |-> 0,      \* starts whose schedules are being gathered
          timer |-> Off,        \* _timer
          stall |-> Off,        \* _preventStallingTimeout
          leaked |-> {},        \* stall timers that a later loop has overwritten
          doomed |-> FALSE,     \* stop has asked to be called again
          lost |-> FALSE,       \* are _schedules undefined, for HGETALL has failed?
          age |-> LoopDelay]    \* of the last loop, up to LoopDelay

Timers(n) == {node[n].timer, node[n].stall} \cup node[n].leaked

AtLeastZero(x) == IF x > 0 THEN x ELSE 0
AtMostDelay(x) == IF x < LoopDelay THEN x ELSE LoopDelay

LockCommand == [op |-> "psetnxex", ttl |-> LockExpire]
ExpireCommand(ttl) == [op |-> "pexpire", ttl |-> ttl]

Init ==
  /\ node = [n \in Nodes |-> Fresh]
  /\ sent = [n \in Nodes |-> <<>>] /\ replies = [n \in Nodes |-> <<>>]
  /\ lockTtl = 0 /\ sinceLock = LoopDelay
  /\ breaks = 0

----------------------------------------------------------------------------
(* _schedulerLoopComplete, on the object s its caller leaves behind.       *)

Delay(s) == IF HasSchedules THEN AtLeastZero(LoopDelay - s.age) ELSE IdleDelay

RearmIfAcquired(s) == IF s.running /\ s.acquired THEN Delay(s) ELSE Off   \* mutation: not after a refusal
Rearm(s) == IF s.running THEN Delay(s) ELSE Off

CompletedOnly(s) == [s EXCEPT !.completed = TRUE, !.stall = Off]   \* mutation: the next loop is left to others
Completed(s) == [s EXCEPT !.completed = TRUE, !.stall = Off, !.timer = Rearm(s)]

\* Before the next iteration the lock is made to expire, so that the loop
\* runs once per delay on all nodes together.
ReleaseLater(n, s) ==   \* mutation: the random number may be 0
  IF s.acquired
  THEN \E rand \in 0 .. MaxRand - 1 :
         sent' = [sent EXCEPT ![n] = Append(@, ExpireCommand(LoopDelay - s.age - rand))]
  ELSE UNCHANGED sent
Release(n, s) ==
  IF s.acquired
  THEN \E rand \in 1 .. MaxRand :
         sent' = [sent EXCEPT ![n] = Append(@, ExpireCommand(LoopDelay - s.age - rand))]
  ELSE UNCHANGED sent

Complete(n, s) ==
  IF s.completed
  THEN node' = [node EXCEPT ![n] = s] /\ UNCHANGED sent
  ELSE node' = [node EXCEPT ![n] = Completed(s)] /\ Release(n, s)

----------------------------------------------------------------------------
\* start, at boot and after a stop: gather the schedules first.
Start(n) ==
  /\ ~node[n].running
  /\ node' = [node EXCEPT ![n].running = TRUE, ![n].gathering = @ + 1]
  /\ UNCHANGED <<sent, replies, redis, breaks>>

\* _schedulerLoop: forget the last loop, set the stall timer, ask for the lock.
Looping(s) ==
  [s EXCEPT !.completed = FALSE, !.acquired = FALSE, !.age = 0,
            !.stall = StallAfter, !.leaked = @ \cup ({s.stall} \ {Off})]

Loop(n, s) ==
  /\ Len(sent[n]) + Len(replies[n]) < MaxSent
  /\ node' = [node EXCEPT ![n] = Looping(s)]
  /\ sent' = [sent EXCEPT ![n] = Append(@, LockCommand)]
  /\ UNCHANGED <<replies, redis, breaks>>

\* The schedules are there, be they those of before where their own timer has
\* given HGETALL up: the loop starts, even if the scheduler was stopped in the
\* meantime.
Gathered(n) ==
  /\ node[n].gathering > 0
  /\ Loop(n, [node[n] EXCEPT !.gathering = @ - 1, !.lost = FALSE])

\* Without schedules the loop throws before it sets a timer or asks for the lock,
\* and start only logs that: after an HGETALL that has failed, which leaves them
\* undefined, and after a later start whose own timer gives HGETALL up while they
\* still are.  The error comes on the connection of the lock commands, after the
\* answers to all that were sent before.  If a loop has gone ahead without it, or
\* a timer is left, the next turn throws out of a callback instead: that is a Crash.
Unscheduled(s) ==
  [s EXCEPT !.gathering = @ - 1, !.completed = FALSE, !.acquired = FALSE, !.age = 0, !.lost = TRUE]

LoopThrows(n) ==
  /\ node[n].gathering > 0
  /\ Timers(n) = {Off} /\ sent[n] = <<>> /\ replies[n] = <<>>
  /\ node' = [node EXCEPT ![n] = Unscheduled(@)]
  /\ UNCHANGED <<sent, replies, redis, breaks>>

LoopTimer(n) ==
  /\ node[n].timer = 0
  /\ Loop(n, [node[n] EXCEPT !.timer = Off])

\* The stall timer, or one that a loop started too early has leaked.
StallIgnored(n, s) == node' = [node EXCEPT ![n] = s] /\ UNCHANGED sent   \* mutation: only logged
StallCompletes(n, s) == Complete(n, s)

StallTimer(n) ==
  /\ 0 \in {node[n].stall} \cup node[n].leaked
  /\ StallCompletes(n, [node[n] EXCEPT !.stall = IF @ = 0 THEN Off ELSE @,
                                       !.leaked = @ \ {0}])
  /\ UNCHANGED <<replies, redis, breaks>>

\* The answer to the lock command; it may come after the stall timer, or in a
\* later loop.
Runs(n) == replies[n] # <<>> /\ Head(replies[n])

Reply(n) ==
  /\ replies[n] # <<>>
  /\ Complete(n, [node[n] EXCEPT !.acquired = Head(replies[n])])
  /\ replies' = [replies EXCEPT ![n] = Tail(@)]
  /\ UNCHANGED <<redis, breaks>>

\* stop: between two loops, or forced, it clears the timers; else it asks to
\* be called again.
Stop(n) ==
  /\ node[n].running /\ breaks < MaxBreaks
  /\ breaks' = breaks + 1
  /\ node' = [node EXCEPT ![n] =
                IF Forced \/ node[n].completed
                THEN [@ EXCEPT !.running = FALSE, !.timer = Off, !.stall = Off]
                ELSE [@ EXCEPT !.running = FALSE, !.doomed = TRUE]]
  /\ UNCHANGED <<sent, replies, redis>>

Die(n) ==
  /\ node' = [node EXCEPT ![n] = Fresh]
  /\ sent' = [sent EXCEPT ![n] = <<>>]
  /\ replies' = [replies EXCEPT ![n] = <<>>]

\* The method is called without its object, reads _completed of a timer and
\* passes undefined to setTimeout, which throws: the process ends.
StopAgain(n) ==
  /\ node[n].doomed
  /\ Die(n)
  /\ UNCHANGED <<redis, breaks>>

\* A process dies, or gets an error for its lock command: the handler of that
\* throws on an undefined name.
Crash(n) ==
  /\ node[n].running /\ breaks < MaxBreaks
  /\ breaks' = breaks + 1
  /\ Die(n)
  /\ UNCHANGED redis

----------------------------------------------------------------------------
\* The pSetNxEx script: grant the lock if there is none.
Grant(n) ==
  IF lockTtl = 0
  THEN /\ lockTtl' = LockExpire /\ sinceLock' = 0
       /\ replies' = [replies EXCEPT ![n] = Append(@, TRUE)]
  ELSE replies' = [replies EXCEPT ![n] = Append(@, FALSE)] /\ UNCHANGED redis

\* PEXPIRE, of the lock there is, whoever holds it; a time that is not
\* positive deletes it.
Expire(ttl) ==
  /\ lockTtl' = IF lockTtl > 0 THEN AtLeastZero(ttl) ELSE 0
  /\ UNCHANGED <<sinceLock, replies>>

Execute(n) ==
  /\ sent[n] # <<>>
  /\ LET cmd == Head(sent[n]) IN
       IF cmd.op = "psetnxex" THEN Grant(n) ELSE Expire(cmd.ttl)
  /\ sent' = [sent EXCEPT ![n] = Tail(@)]
  /\ UNCHANGED <<node, breaks>>

Later(t) == IF t = Off THEN Off ELSE t - 1

\* Time passes; a timer that is due is not kept waiting.
Tick ==
  /\ \A n \in Nodes : 0 \notin Timers(n)
  /\ node' = [n \in Nodes |->
                [node[n] EXCEPT !.timer = Later(@), !.stall = Later(@),
                                !.leaked = {t - 1 : t \in @},
                                !.age = AtMostDelay(@ + 1)]]
  /\ lockTtl' = AtLeastZero(lockTtl - 1)
  /\ sinceLock' = AtMostDelay(sinceLock + 1)
  /\ UNCHANGED <<sent, replies, breaks>>

NodeStep(n) ==
  \/ Start(n) \/ Gathered(n) \/ LoopThrows(n)
  \/ LoopTimer(n) \/ StallTimer(n) \/ Reply(n)
  \/ Stop(n) \/ StopAgain(n) \/ Crash(n)
  \/ Execute(n)

Next == (\E n \in Nodes : NodeStep(n)) \/ Tick

Spec == Init /\ [][Next]_vars

\* Redis answers at some time, timers fire, and time passes (a timer that is due
\* disables Tick for moments).  Starts, stops and crashes are not fair.
Fairness ==
  /\ \A n \in Nodes : /\ WF_vars(Gathered(n)) /\ WF_vars(LoopTimer(n)) /\ WF_vars(StallTimer(n))
                      /\ WF_vars(Execute(n)) /\ WF_vars(Reply(n))
  /\ SF_vars(Tick)

LiveSpec == Spec /\ Fairness

----------------------------------------------------------------------------
\* index.js:187-229 - the object, its timers, its commands.  The time the lock is
\* given for the rest of its delay is always shorter than the delay.
Scheduler ==
  [running : BOOLEAN, completed : BOOLEAN, acquired : BOOLEAN, doomed : BOOLEAN, lost : BOOLEAN,
   gathering : Nat, timer : Nat \cup {Off}, stall : 0 .. StallAfter \cup {Off},
   leaked : SUBSET (0 .. StallAfter), age : 0 .. LoopDelay]

Command == [op : {"psetnxex"}, ttl : {LockExpire}]
             \cup [op : {"pexpire"}, ttl : -MaxRand .. LoopDelay - 1]

TypeOK ==
  /\ node \in [Nodes -> Scheduler]
  /\ sent \in [Nodes -> Seq(Command)] /\ replies \in [Nodes -> Seq(BOOLEAN)]
  /\ lockTtl \in 0 .. LockExpire /\ sinceLock \in 0 .. LoopDelay
  /\ breaks \in 0 .. MaxBreaks

\* index.js:206-208 - however late Redis answers and whichever nodes die, two
\* grants of the lock are a delay apart, less the time a loop may take before
\* it counts as stalled and the random number.  Not so with a forced stop, which
\* clears the stall timer of a loop whose answer may then come at any age.
LockGap ==
  [][lockTtl = 0 /\ lockTtl' > 0 => sinceLock >= LoopDelay - StallAfter - MaxRand]_vars

\* index.js:229-269 - the loop of a node that is running stops for good only
\* where HGETALL has failed: otherwise its schedules are being gathered, or the
\* next loop is armed, or the stall timer of the one that waits for Redis is,
\* whichever of answers, timers, stops and starts come between.
LoopGoesOn ==
  \A n \in Nodes : node[n].running /\ ~node[n].lost =>
    \/ node[n].gathering > 0
    \/ IF node[n].completed THEN node[n].timer # Off ELSE node[n].stall # Off

\* index.js:229, 253-269 - while there is a node that is not stopped, and could
\* fetch the schedules, some node gets to run them again and again, in spite of
\* crashes with the lock in hand and of answers that come after the stall timer.
SomeoneRuns ==
  <>[](\E n \in Nodes : node[n].running /\ ~node[n].lost)
    => []<><<\E n \in Nodes : Runs(n) /\ Reply(n)>>_vars
=============================================================================
