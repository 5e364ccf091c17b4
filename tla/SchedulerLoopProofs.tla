------------------------ MODULE SchedulerLoopProofs ------------------------
(* Proofs about SchedulerLoop: the gap between two grants of the lock, for *)
(* any number of nodes and any delays, stops, crashes and late answers.    *)
EXTENDS SchedulerLoop, TLAPS

----------------------------------------------------------------------------
(* What a loop and its end do to the object of a node and its commands.    *)

LEMMA LoopingType ==
  ASSUME NEW s \in Scheduler
  PROVE  Looping(s) \in Scheduler
<1>1. s.leaked \cup ({s.stall} \ {Off}) \in SUBSET (0 .. StallAfter)
  BY DEF Scheduler
<1>2. StallAfter \in 0 .. StallAfter /\ 0 \in 0 .. LoopDelay
  BY SchedulerAssumption
<1> QED
  BY <1>1, <1>2 DEF Looping, Scheduler

LEMMA CompletedType ==
  ASSUME NEW s \in Scheduler
  PROVE  Completed(s) \in Scheduler
<1>1. Rearm(s) \in Nat \cup {Off}
  BY SchedulerAssumption DEF Rearm, Delay, AtLeastZero, Scheduler
<1> QED
  BY <1>1, SchedulerAssumption DEF Completed, Scheduler, Off

LEMMA CountedType ==
  ASSUME NEW s \in Scheduler
  PROVE  /\ [s EXCEPT !.running = TRUE, !.gathering = @ + 1] \in Scheduler
         /\ s.gathering > 0 => [s EXCEPT !.gathering = @ - 1, !.lost = FALSE] \in Scheduler
<1>1. s.gathering + 1 \in Nat /\ (s.gathering > 0 => s.gathering - 1 \in Nat)
  BY DEF Scheduler
<1>2. [s EXCEPT !.running = TRUE, !.gathering = @ + 1] \in Scheduler
  BY <1>1 DEF Scheduler
<1>3. ASSUME s.gathering > 0 PROVE [s EXCEPT !.gathering = @ - 1, !.lost = FALSE] \in Scheduler
  BY <1>1, <1>3 DEF Scheduler
<1> QED
  BY <1>2, <1>3

LEMMA UnscheduledType ==
  ASSUME NEW s \in Scheduler, s.gathering > 0
  PROVE  /\ Unscheduled(s) \in Scheduler
         /\ Unscheduled(s).lost
         /\ Unscheduled(s).stall = s.stall /\ Unscheduled(s).leaked = s.leaked
<1>1. s.gathering - 1 \in Nat /\ 0 \in 0 .. LoopDelay
  BY SchedulerAssumption DEF Scheduler
<1> QED
  BY <1>1 DEF Scheduler, Unscheduled

LEMMA StoppedType ==
  ASSUME NEW s \in Scheduler
  PROVE  /\ [s EXCEPT !.running = FALSE, !.timer = Off, !.stall = Off] \in Scheduler
         /\ [s EXCEPT !.running = FALSE, !.doomed = TRUE] \in Scheduler
BY DEF Scheduler

\* The commands of a loop that ends: none new, or a PEXPIRE for the lock.
Pexpire(n, s) ==
  \E rand \in 1 .. MaxRand :
    sent' = [sent EXCEPT ![n] = Append(@, ExpireCommand(LoopDelay - s.age - rand))]

LEMMA CompleteCases ==
  ASSUME NEW n, NEW s, Complete(n, s)
  PROVE  \/ node' = [node EXCEPT ![n] = s] /\ s.completed /\ sent' = sent
         \/ /\ node' = [node EXCEPT ![n] = Completed(s)] /\ ~s.completed
            /\ sent' = sent \/ Pexpire(n, s)
BY DEF Complete, Release, Pexpire

LEMMA PexpireType ==
  ASSUME NEW n \in Nodes, NEW s \in Scheduler, sent \in [Nodes -> Seq(Command)], Pexpire(n, s)
  PROVE  sent' \in [Nodes -> Seq(Command)]
<1>1. PICK rand \in 1 .. MaxRand :
        sent' = [sent EXCEPT ![n] = Append(@, ExpireCommand(LoopDelay - s.age - rand))]
  BY DEF Pexpire
<1>2. LoopDelay - s.age - rand \in -MaxRand .. LoopDelay - 1
  BY SchedulerAssumption DEF Scheduler
<1>3. ExpireCommand(LoopDelay - s.age - rand) \in Command
  BY <1>2 DEF ExpireCommand, Command
<1> QED
  BY <1>1, <1>3

LEMMA CompleteType ==
  ASSUME NEW n \in Nodes, NEW s \in Scheduler, Complete(n, s),
         node \in [Nodes -> Scheduler], sent \in [Nodes -> Seq(Command)]
  PROVE  node' \in [Nodes -> Scheduler] /\ sent' \in [Nodes -> Seq(Command)]
BY CompleteCases, CompletedType, PexpireType

LEMMA LoopType ==
  ASSUME NEW n \in Nodes, NEW s \in Scheduler, Loop(n, s),
         node \in [Nodes -> Scheduler], sent \in [Nodes -> Seq(Command)]
  PROVE  node' \in [Nodes -> Scheduler] /\ sent' \in [Nodes -> Seq(Command)]
<1>1. LockCommand \in Command
  BY DEF LockCommand, Command
<1> QED
  BY <1>1, LoopingType DEF Loop

----------------------------------------------------------------------------
(* Types.                                                                  *)

LEMMA FreshType == Fresh \in Scheduler
BY SchedulerAssumption DEF Fresh, Scheduler, Off

LEMMA InitTypeOK == Init => TypeOK
BY SchedulerAssumption, FreshType DEF Init, TypeOK

LEMMA NextTypeOK == TypeOK /\ [Next]_vars => TypeOK'
<1> SUFFICES ASSUME TypeOK, [Next]_vars PROVE TypeOK'
  OBVIOUS
<1> USE SchedulerAssumption
<1>1. ASSUME NEW n \in Nodes, Start(n) PROVE TypeOK'
  <2>1. [node[n] EXCEPT !.running = TRUE, !.gathering = @ + 1] \in Scheduler
    BY CountedType DEF TypeOK
  <2>2. node' = [node EXCEPT ![n] = [node[n] EXCEPT !.running = TRUE, !.gathering = @ + 1]]
    BY <1>1 DEF TypeOK, Start
  <2> QED
    BY <1>1, <2>1, <2>2 DEF TypeOK, Start, redis
<1>2. ASSUME NEW n \in Nodes, Gathered(n) PROVE TypeOK'
  <2> DEFINE s == [node[n] EXCEPT !.gathering = @ - 1, !.lost = FALSE]
  <2>1. s \in Scheduler /\ Loop(n, s)
    BY <1>2, CountedType DEF TypeOK, Gathered
  <2>2. UNCHANGED <<replies, redis, breaks>>
    BY <2>1 DEF Loop
  <2> QED
    BY <2>1, <2>2, LoopType DEF TypeOK, redis
<1>3. ASSUME NEW n \in Nodes, LoopTimer(n) PROVE TypeOK'
  <2> DEFINE s == [node[n] EXCEPT !.timer = Off]
  <2>1. s \in Scheduler /\ Loop(n, s)
    BY <1>3 DEF TypeOK, LoopTimer, Scheduler
  <2>2. UNCHANGED <<replies, redis, breaks>>
    BY <2>1 DEF Loop
  <2> QED
    BY <2>1, <2>2, LoopType DEF TypeOK, redis
<1>4. ASSUME NEW n \in Nodes, StallTimer(n) PROVE TypeOK'
  <2> DEFINE s == [node[n] EXCEPT !.stall = IF @ = 0 THEN Off ELSE @, !.leaked = @ \ {0}]
  <2>1. s \in Scheduler
    BY <1>4 DEF TypeOK, Scheduler
  <2>2. Complete(n, s) /\ UNCHANGED <<replies, redis, breaks>>
    BY <1>4 DEF StallTimer, StallCompletes
  <2> QED
    BY <2>1, <2>2, CompleteType DEF TypeOK, redis
<1>5. ASSUME NEW n \in Nodes, Reply(n) PROVE TypeOK'
  <2> DEFINE s == [node[n] EXCEPT !.acquired = Head(replies[n])]
  <2>1. Head(replies[n]) \in BOOLEAN /\ Tail(replies[n]) \in Seq(BOOLEAN)
    BY <1>5 DEF TypeOK, Reply
  <2>2. s \in Scheduler
    BY <2>1 DEF TypeOK, Scheduler
  <2>3. Complete(n, s) /\ UNCHANGED <<redis, breaks>>
    BY <1>5 DEF Reply
  <2>4. replies' \in [Nodes -> Seq(BOOLEAN)]
    BY <1>5, <2>1 DEF TypeOK, Reply
  <2> QED
    BY <2>2, <2>3, <2>4, CompleteType DEF TypeOK, redis
<1>6. ASSUME NEW n \in Nodes, Stop(n) PROVE TypeOK'
  <2>1. node' \in [Nodes -> Scheduler]
    BY <1>6, StoppedType DEF TypeOK, Stop
  <2> QED
    BY <1>6, <2>1 DEF TypeOK, Stop, redis
<1>7. ASSUME NEW n \in Nodes, StopAgain(n) \/ Crash(n) PROVE TypeOK'
  <2>1. breaks' \in 0 .. MaxBreaks /\ UNCHANGED redis
    BY <1>7 DEF TypeOK, StopAgain, Crash
  <2>2. Die(n)
    BY <1>7 DEF StopAgain, Crash
  <2> QED
    BY <2>1, <2>2, FreshType DEF TypeOK, Die, redis
<1>8. ASSUME NEW n \in Nodes, Execute(n) PROVE TypeOK'
  <2> DEFINE cmd == Head(sent[n])
  <2>1. cmd \in Command /\ sent' \in [Nodes -> Seq(Command)]
    BY <1>8 DEF TypeOK, Execute
  <2>2. CASE cmd.op = "psetnxex"
    <3>1. Grant(n)
      BY <1>8, <2>2 DEF Execute
    <3>2. CASE lockTtl = 0
      <4>1. /\ replies' = [replies EXCEPT ![n] = Append(@, TRUE)]
            /\ lockTtl' = LockExpire /\ sinceLock' = 0
        BY <3>1, <3>2 DEF Grant
      <4> QED
        BY <1>8, <2>1, <4>1 DEF TypeOK, Execute
    <3>3. CASE lockTtl # 0
      <4>1. replies' = [replies EXCEPT ![n] = Append(@, FALSE)] /\ UNCHANGED redis
        BY <3>1, <3>3 DEF Grant
      <4> QED
        BY <1>8, <2>1, <4>1 DEF TypeOK, Execute, redis
    <3> QED
      BY <3>2, <3>3
  <2>3. CASE cmd.op # "psetnxex"
    <3>1. Expire(cmd.ttl) /\ cmd.ttl \in -MaxRand .. LoopDelay - 1
      BY <1>8, <2>1, <2>3 DEF Execute, Command
    <3> QED
      BY <1>8, <2>1, <3>1 DEF TypeOK, Execute, Expire, AtLeastZero
  <2> QED
    BY <2>2, <2>3
<1>9. CASE Tick
  <2>1. ASSUME NEW n \in Nodes PROVE node'[n] \in Scheduler
    <3>1. node[n] \in Scheduler /\ 0 \notin Timers(n)
      BY <1>9 DEF TypeOK, Tick
    <3>2. Later(node[n].timer) \in Nat \cup {Off}
      BY <3>1 DEF Scheduler, Timers, Later, Off
    <3>3. Later(node[n].stall) \in 0 .. StallAfter \cup {Off}
      BY <3>1 DEF Scheduler, Timers, Later, Off
    <3>4. {t - 1 : t \in node[n].leaked} \subseteq 0 .. StallAfter
      BY <3>1 DEF Scheduler, Timers
    <3>5. AtMostDelay(node[n].age + 1) \in 0 .. LoopDelay
      BY <3>1 DEF Scheduler, AtMostDelay
    <3> QED
      BY <1>9, <3>1, <3>2, <3>3, <3>4, <3>5 DEF Tick, Scheduler
  <2>2. node' \in [Nodes -> Scheduler]
    BY <1>9, <2>1 DEF Tick
  <2>3. lockTtl' \in 0 .. LockExpire /\ sinceLock' \in 0 .. LoopDelay
    <3>1. lockTtl \in 0 .. LockExpire /\ sinceLock \in 0 .. LoopDelay
      BY DEF TypeOK
    <3>2. lockTtl' = AtLeastZero(lockTtl - 1) /\ sinceLock' = AtMostDelay(sinceLock + 1)
      BY <1>9 DEF Tick
    <3> QED
      BY <3>1, <3>2 DEF AtLeastZero, AtMostDelay
  <2> QED
    BY <1>9, <2>2, <2>3 DEF TypeOK, Tick
<1>10. CASE UNCHANGED vars
  BY <1>10 DEF TypeOK, vars, redis
<1>11. ASSUME NEW n \in Nodes, LoopThrows(n) PROVE TypeOK'
  <2>1. node' \in [Nodes -> Scheduler]
    BY <1>11, UnscheduledType DEF LoopThrows, TypeOK
  <2> QED
    BY <1>11, <2>1 DEF LoopThrows, TypeOK, redis
<1> QED
  BY <1>1, <1>2, <1>3, <1>4, <1>5, <1>6, <1>7, <1>8, <1>9, <1>10, <1>11 DEF Next, NodeStep

\* index.js:187-229 - the object, its timers and its commands keep their types:
\* no timer is armed for a negative time, and the lock is never given a delay
\* or more after a loop.
THEOREM SchedulerTypeOK == Spec => []TypeOK
<1> QED
  BY InitTypeOK, NextTypeOK, PTL DEF Spec

----------------------------------------------------------------------------
(* The gap.                                                                *)

Gap == LoopDelay - StallAfter - MaxRand

\* A node that has not completed a loop has not begun one, or is younger than
\* its stall timer lets it be.
Idle(n) == sent[n] = <<>> /\ replies[n] = <<>> /\ node[n].stall = Off /\ node[n].leaked = {}
Young(n) == node[n].stall # Off /\ node[n].age + node[n].stall <= StallAfter
StallGuards == \A n \in Nodes : ~node[n].completed => Idle(n) \/ Young(n)

\* So whatever PEXPIRE is under way leaves the lock time enough,
LateEnough(seq) == \A i \in 1 .. Len(seq) : seq[i].op = "pexpire" => seq[i].ttl >= Gap
CommandsLate == \A n \in Nodes : LateEnough(sent[n])

\* and the age of a lock and its time to live make up the gap.
LockLasts == sinceLock + lockTtl >= Gap

GapInv == TypeOK /\ StallGuards /\ CommandsLate /\ LockLasts

LEMMA LateEnoughOps ==
  ASSUME NEW seq \in Seq(Command), LateEnough(seq)
  PROVE  /\ \A cmd \in Command : (cmd.op = "pexpire" => cmd.ttl >= Gap) => LateEnough(Append(seq, cmd))
         /\ seq # <<>> => LateEnough(Tail(seq)) /\ (Head(seq).op = "pexpire" => Head(seq).ttl >= Gap)
<1>1. ASSUME NEW cmd \in Command, cmd.op = "pexpire" => cmd.ttl >= Gap
      PROVE  LateEnough(Append(seq, cmd))
  <2>1. ASSUME NEW i \in 1 .. Len(Append(seq, cmd))
        PROVE  Append(seq, cmd)[i] = cmd \/ (i \in 1 .. Len(seq) /\ Append(seq, cmd)[i] = seq[i])
    OBVIOUS
  <2> QED
    BY <1>1, <2>1 DEF LateEnough
<1>2. ASSUME seq # <<>>
      PROVE  LateEnough(Tail(seq)) /\ (Head(seq).op = "pexpire" => Head(seq).ttl >= Gap)
  <2>1. \A i \in 1 .. Len(Tail(seq)) : Tail(seq)[i] = seq[i + 1] /\ i + 1 \in 1 .. Len(seq)
    BY <1>2
  <2>2. Head(seq) = seq[1] /\ 1 \in 1 .. Len(seq)
    BY <1>2
  <2> QED
    BY <2>1, <2>2 DEF LateEnough
<1> QED
  BY <1>1, <1>2

\* The end of a loop that is idle or young leaves the invariants of its node.
LEMMA CompleteGap ==
  ASSUME GapInv, NEW n \in Nodes, NEW s \in Scheduler, Complete(n, s),
         s.completed = node[n].completed, s.age = node[n].age,
         ~s.completed => node[n].age <= StallAfter
  PROVE  /\ node'[n].completed
         /\ \A m \in Nodes : m # n => node'[m] = node[m] /\ sent'[m] = sent[m]
         /\ CommandsLate'
<1> USE SchedulerAssumption
<1>1. CASE node' = [node EXCEPT ![n] = s] /\ s.completed /\ sent' = sent
  BY <1>1 DEF GapInv, TypeOK, CommandsLate
<1>2. CASE node' = [node EXCEPT ![n] = Completed(s)] /\ sent' = sent
  BY <1>2 DEF GapInv, TypeOK, CommandsLate, Completed, Scheduler
<1>3. CASE node' = [node EXCEPT ![n] = Completed(s)] /\ ~s.completed /\ Pexpire(n, s)
  <2>1. PICK rand \in 1 .. MaxRand :
          sent' = [sent EXCEPT ![n] = Append(@, ExpireCommand(LoopDelay - s.age - rand))]
    BY <1>3 DEF Pexpire
  <2> DEFINE cmd == ExpireCommand(LoopDelay - s.age - rand)
  <2>2. LoopDelay - s.age - rand >= Gap /\ LoopDelay - s.age - rand \in -MaxRand .. LoopDelay - 1
    BY <1>3 DEF Gap, Scheduler
  <2>3. cmd \in Command /\ cmd.ttl >= Gap
    BY <2>2 DEF ExpireCommand, Command
  <2>4. LateEnough(Append(sent[n], cmd))
    BY <2>3, LateEnoughOps DEF GapInv, TypeOK, CommandsLate
  <2> QED
    BY <1>3, <2>1, <2>4 DEF GapInv, TypeOK, CommandsLate, Completed, Scheduler
<1> QED
  BY <1>1, <1>2, <1>3, CompleteCases

LEMMA LoopGap ==
  ASSUME GapInv, NEW n \in Nodes, NEW s \in Scheduler, Loop(n, s)
  PROVE  StallGuards' /\ CommandsLate' /\ LockLasts'
<1>1. LockCommand \in Command /\ LockCommand.op # "pexpire"
  BY DEF LockCommand, Command
<1>2. LateEnough(Append(sent[n], LockCommand))
  BY <1>1, LateEnoughOps DEF GapInv, TypeOK, CommandsLate
<1>3. CommandsLate' /\ LockLasts'
  BY <1>2 DEF Loop, GapInv, TypeOK, CommandsLate, LockLasts, redis
<1>4. node'[n].age = 0 /\ node'[n].stall = StallAfter
  BY DEF Loop, Looping, GapInv, TypeOK, Scheduler
<1>5. \A m \in Nodes : m # n => node'[m] = node[m] /\ sent'[m] = sent[m] /\ replies'[m] = replies[m]
  BY DEF Loop, GapInv, TypeOK
<1> QED
  BY <1>3, <1>4, <1>5, SchedulerAssumption DEF GapInv, StallGuards, Idle, Young, Off

LEMMA InitGapInv == Init => GapInv
BY InitTypeOK, SchedulerAssumption
   DEF Init, GapInv, StallGuards, Idle, CommandsLate, LateEnough, LockLasts, Gap, Fresh

LEMMA NextGapInv == ASSUME ~Forced PROVE GapInv /\ [Next]_vars => GapInv'
<1> SUFFICES ASSUME GapInv, [Next]_vars PROVE StallGuards' /\ CommandsLate' /\ LockLasts'
  BY NextTypeOK DEF GapInv
<1> USE SchedulerAssumption
<1>1. ASSUME NEW n \in Nodes, Start(n) PROVE StallGuards' /\ CommandsLate' /\ LockLasts'
  <2>1. \A m \in Nodes : /\ node'[m].completed = node[m].completed /\ node'[m].stall = node[m].stall
                         /\ node'[m].leaked = node[m].leaked /\ node'[m].age = node[m].age
    BY <1>1 DEF Start, GapInv, TypeOK, Scheduler
  <2> QED
    BY <1>1, <2>1 DEF Start, GapInv, StallGuards, Idle, Young, CommandsLate, LockLasts, redis
<1>2. ASSUME NEW n \in Nodes, Gathered(n) PROVE StallGuards' /\ CommandsLate' /\ LockLasts'
  BY <1>2, CountedType, LoopGap DEF Gathered, GapInv, TypeOK
<1>3. ASSUME NEW n \in Nodes, LoopTimer(n) PROVE StallGuards' /\ CommandsLate' /\ LockLasts'
  <2>1. [node[n] EXCEPT !.timer = Off] \in Scheduler
    BY DEF GapInv, TypeOK, Scheduler
  <2> QED
    BY <1>3, <2>1, LoopGap DEF LoopTimer
<1>4. ASSUME NEW n \in Nodes, StallTimer(n) PROVE StallGuards' /\ CommandsLate' /\ LockLasts'
  <2> DEFINE s == [node[n] EXCEPT !.stall = IF @ = 0 THEN Off ELSE @, !.leaked = @ \ {0}]
  <2>1. s \in Scheduler /\ s.completed = node[n].completed /\ s.age = node[n].age
    BY DEF GapInv, TypeOK, Scheduler
  <2>2. ~s.completed => node[n].age <= StallAfter
    BY <1>4, <2>1 DEF StallTimer, GapInv, TypeOK, Scheduler, StallGuards, Idle, Young, Off
  <2>3. Complete(n, s) /\ UNCHANGED <<replies, redis>>
    BY <1>4 DEF StallTimer, StallCompletes
  <2>4. /\ node'[n].completed /\ CommandsLate'
        /\ \A m \in Nodes : m # n => node'[m] = node[m] /\ sent'[m] = sent[m]
    BY <2>1, <2>2, <2>3, CompleteGap
  <2> QED
    BY <2>3, <2>4 DEF GapInv, StallGuards, Idle, Young, LockLasts, redis
<1>5. ASSUME NEW n \in Nodes, Reply(n) PROVE StallGuards' /\ CommandsLate' /\ LockLasts'
  <2> DEFINE s == [node[n] EXCEPT !.acquired = Head(replies[n])]
  <2>1. Head(replies[n]) \in BOOLEAN
    BY <1>5 DEF GapInv, TypeOK, Reply
  <2>2. s \in Scheduler /\ s.completed = node[n].completed /\ s.age = node[n].age
    BY <2>1 DEF GapInv, TypeOK, Scheduler
  <2>3. ~s.completed => node[n].age <= StallAfter
    BY <1>5, <2>2 DEF Reply, GapInv, TypeOK, Scheduler, StallGuards, Idle, Young, Off
  <2>4. Complete(n, s) /\ UNCHANGED redis
    BY <1>5 DEF Reply
  <2>5. /\ node'[n].completed /\ CommandsLate'
        /\ \A m \in Nodes : m # n => node'[m] = node[m] /\ sent'[m] = sent[m]
    BY <2>2, <2>3, <2>4, CompleteGap
  <2>6. \A m \in Nodes : m # n => replies'[m] = replies[m]
    BY <1>5 DEF Reply, GapInv, TypeOK
  <2> QED
    BY <2>4, <2>5, <2>6 DEF GapInv, StallGuards, Idle, Young, LockLasts, redis
<1>6. ASSUME NEW n \in Nodes, Stop(n) PROVE StallGuards' /\ CommandsLate' /\ LockLasts'
  <2>1. \A m \in Nodes : /\ node'[m].completed = node[m].completed
                         /\ ~node[m].completed =>
                               /\ node'[m].stall = node[m].stall
                               /\ node'[m].leaked = node[m].leaked /\ node'[m].age = node[m].age
    BY <1>6, ~Forced DEF Stop, GapInv, TypeOK, Scheduler
  <2> QED
    BY <1>6, <2>1 DEF Stop, GapInv, StallGuards, Idle, Young, CommandsLate, LockLasts, redis
<1>7. ASSUME NEW n \in Nodes, StopAgain(n) \/ Crash(n) PROVE StallGuards' /\ CommandsLate' /\ LockLasts'
  <2>1. Die(n) /\ UNCHANGED redis
    BY <1>7 DEF StopAgain, Crash
  <2>2. sent'[n] = <<>> /\ replies'[n] = <<>> /\ node'[n].stall = Off /\ node'[n].leaked = {}
    BY <2>1 DEF Die, GapInv, TypeOK, Fresh
  <2>3. \A m \in Nodes : m # n => node'[m] = node[m] /\ sent'[m] = sent[m] /\ replies'[m] = replies[m]
    BY <2>1 DEF Die, GapInv, TypeOK
  <2> QED
    BY <2>1, <2>2, <2>3
    DEF GapInv, StallGuards, Idle, Young, CommandsLate, LateEnough, LockLasts, redis
<1>8. ASSUME NEW n \in Nodes, Execute(n) PROVE StallGuards' /\ CommandsLate' /\ LockLasts'
  <2> DEFINE cmd == Head(sent[n])
  <2>1. cmd \in Command /\ LateEnough(Tail(sent[n])) /\ (cmd.op = "pexpire" => cmd.ttl >= Gap)
    <3>1. sent[n] \in Seq(Command) /\ sent[n] # <<>> /\ LateEnough(sent[n])
      BY <1>8 DEF Execute, GapInv, TypeOK, CommandsLate
    <3>2. Head(sent[n]) \in Command
      BY <3>1
    <3> QED
      BY <3>1, <3>2, LateEnoughOps
  <2>2. CommandsLate'
    BY <1>8, <2>1 DEF Execute, GapInv, TypeOK, CommandsLate
  <2>3. StallGuards'
    <3>1. ASSUME NEW m \in Nodes, ~node[m].completed, Idle(m) PROVE m # n
      BY <1>8, <3>1 DEF Execute, Idle
    <3>2. \A m \in Nodes : m # n => sent'[m] = sent[m] /\ replies'[m] = replies[m]
      BY <1>8 DEF Execute, Grant, Expire, GapInv, TypeOK
    <3> QED
      BY <1>8, <3>1, <3>2 DEF Execute, GapInv, StallGuards, Idle, Young
  <2>4. LockLasts'
    <3>1. CASE cmd.op = "psetnxex"
      <4>1. Grant(n)
        BY <1>8, <3>1 DEF Execute
      <4> QED
        <5>1. CASE lockTtl = 0
          BY <4>1, <5>1 DEF Grant, LockLasts, Gap
        <5>2. CASE lockTtl # 0
          BY <4>1, <5>2 DEF Grant, GapInv, LockLasts, redis
        <5> QED
          BY <5>1, <5>2
    <3>2. CASE cmd.op # "psetnxex"
      <4>1. Expire(cmd.ttl) /\ cmd.ttl >= Gap /\ cmd.ttl \in Int
        BY <1>8, <2>1, <3>2 DEF Execute, Command
      <4> QED
        BY <4>1 DEF Expire, AtLeastZero, GapInv, TypeOK, LockLasts, Gap
    <3> QED
      BY <3>1, <3>2
  <2> QED
    BY <2>2, <2>3, <2>4
<1>9. CASE Tick
  <2>1. CommandsLate'
    BY <1>9 DEF Tick, GapInv, CommandsLate
  <2>2. LockLasts'
    <3>1. /\ lockTtl \in 0 .. LockExpire /\ sinceLock \in 0 .. LoopDelay
          /\ sinceLock + lockTtl >= Gap
      BY DEF GapInv, TypeOK, LockLasts
    <3>2. lockTtl' = AtLeastZero(lockTtl - 1) /\ sinceLock' = AtMostDelay(sinceLock + 1)
      BY <1>9 DEF Tick
    <3> QED
      BY <3>1, <3>2 DEF AtLeastZero, AtMostDelay, LockLasts, Gap
  <2>3. ASSUME NEW n \in Nodes, ~node'[n].completed PROVE Idle(n)' \/ Young(n)'
    <3>1. /\ node[n] \in Scheduler /\ 0 \notin Timers(n)
          /\ sent'[n] = sent[n] /\ replies'[n] = replies[n]
      BY <1>9 DEF Tick, GapInv, TypeOK
    <3>2. /\ node'[n].completed = node[n].completed /\ node'[n].stall = Later(node[n].stall)
          /\ node'[n].leaked = {t - 1 : t \in node[n].leaked}
          /\ node'[n].age = AtMostDelay(node[n].age + 1)
      BY <1>9 DEF Tick, GapInv, TypeOK, Scheduler
    <3>3. CASE Idle(n)
      BY <3>1, <3>2, <3>3 DEF Idle, Later
    <3>4. CASE Young(n)
      BY <3>1, <3>2, <3>4 DEF Young, Timers, Later, Off, AtMostDelay, Scheduler
    <3> QED
      BY <2>3, <3>2, <3>3, <3>4 DEF GapInv, StallGuards
  <2> QED
    BY <2>1, <2>2, <2>3 DEF StallGuards
<1>10. CASE UNCHANGED vars
  BY <1>10 DEF vars, redis, GapInv, StallGuards, Idle, Young, CommandsLate, LockLasts
<1>11. ASSUME NEW n \in Nodes, LoopThrows(n) PROVE StallGuards' /\ CommandsLate' /\ LockLasts'
  <2>1. /\ sent' = sent /\ replies' = replies /\ UNCHANGED redis
        /\ \A m \in Nodes : m # n => node'[m] = node[m]
    BY <1>11 DEF LoopThrows, GapInv, TypeOK
  <2>2. node'[n].stall = node[n].stall /\ node'[n].leaked = node[n].leaked
    BY <1>11, UnscheduledType DEF LoopThrows, GapInv, TypeOK, Scheduler
  <2>3. sent[n] = <<>> /\ replies[n] = <<>> /\ node[n].stall = Off /\ node[n].leaked = {}
    <3>1. node[n].leaked \subseteq {Off} /\ node[n].leaked \subseteq 0 .. StallAfter
      BY <1>11 DEF LoopThrows, Timers, GapInv, TypeOK, Scheduler
    <3>2. node[n].leaked = {}
      BY <3>1 DEF Off
    <3> QED
      BY <1>11, <3>2 DEF LoopThrows, Timers
  <2>4. Idle(n)'
    BY <2>1, <2>2, <2>3 DEF Idle
  <2>5. \A m \in Nodes : m # n => Idle(m)' = Idle(m) /\ Young(m)' = Young(m)
    BY <2>1 DEF Idle, Young
  <2>6. StallGuards'
    BY <2>1, <2>4, <2>5 DEF GapInv, StallGuards
  <2> QED
    BY <2>1, <2>6 DEF GapInv, CommandsLate, LockLasts, redis
<1> QED
  BY <1>1, <1>2, <1>3, <1>4, <1>5, <1>6, <1>7, <1>8, <1>9, <1>10, <1>11 DEF Next, NodeStep

\* index.js:206-212 - unless stops are forced, two grants of the lock are a delay
\* apart, less the time a loop may take before it counts as stalled and the
\* random number: however many nodes there are and die, whatever their answers
\* and commands are delayed by, in whichever loop an answer is read.
THEOREM SchedulerLockGap == ASSUME ~Forced PROVE Spec => LockGap
<1>1. GapInv => (lockTtl = 0 => sinceLock >= Gap)
  BY DEF GapInv, TypeOK, LockLasts
<1>2. GapInv /\ [Next]_vars
        => [lockTtl = 0 /\ lockTtl' > 0 => sinceLock >= LoopDelay - StallAfter - MaxRand]_vars
  BY <1>1 DEF Gap
<1> QED
  BY <1>2, InitGapInv, NextGapInv, PTL DEF Spec, LockGap

----------------------------------------------------------------------------
(* The loop of a node goes on.                                             *)

\* What a node that is running has left to go on with.
GoesOn(s) ==
  s.running /\ ~s.lost => s.gathering > 0 \/ IF s.completed THEN s.timer # Off ELSE s.stall # Off

LEMMA CompleteGoesOn ==
  ASSUME NEW n \in Nodes, NEW s \in Scheduler, Complete(n, s), node \in [Nodes -> Scheduler],
         s.completed => GoesOn(s)
  PROVE  GoesOn(node'[n]) /\ \A m \in Nodes : m # n => node'[m] = node[m]
<1>1. CASE node' = [node EXCEPT ![n] = s] /\ s.completed
  BY <1>1
<1>2. CASE node' = [node EXCEPT ![n] = Completed(s)]
  <2>1. node'[n] = Completed(s)
    BY <1>2
  <2>2. Completed(s).running = s.running /\ Completed(s).completed /\ Completed(s).timer = Rearm(s)
    BY DEF Completed, Scheduler
  <2>3. s.running => Rearm(s) # Off
    BY SchedulerAssumption DEF Rearm, Delay, AtLeastZero, Scheduler, Off
  <2> QED
    BY <1>2, <2>1, <2>2, <2>3 DEF GoesOn
<1> QED
  BY <1>1, <1>2, CompleteCases

LEMMA LoopingGoesOn ==
  ASSUME NEW n \in Nodes, NEW s \in Scheduler, Loop(n, s), node \in [Nodes -> Scheduler]
  PROVE  GoesOn(node'[n]) /\ \A m \in Nodes : m # n => node'[m] = node[m]
<1>1. node' = [node EXCEPT ![n] = Looping(s)]
  BY DEF Loop
<1>2. ~Looping(s).completed /\ Looping(s).stall = StallAfter
  BY DEF Looping, Scheduler
<1> QED
  BY <1>1, <1>2, SchedulerAssumption DEF GoesOn, Off

LEMMA NextLoopGoesOn == TypeOK /\ LoopGoesOn /\ [Next]_vars => LoopGoesOn'
<1> SUFFICES ASSUME TypeOK, LoopGoesOn, [Next]_vars PROVE LoopGoesOn'
  OBVIOUS
<1> USE SchedulerAssumption
<1>1. node \in [Nodes -> Scheduler] /\ \A n \in Nodes : GoesOn(node[n])
  BY DEF TypeOK, LoopGoesOn, GoesOn
<1>2. SUFFICES \A n \in Nodes : GoesOn(node'[n])
  BY DEF LoopGoesOn, GoesOn
<1>3. ASSUME NEW n \in Nodes, Start(n) PROVE \A m \in Nodes : GoesOn(node'[m])
  <2>1. node'[n].gathering > 0
    BY <1>1, <1>3 DEF Start, Scheduler
  <2>2. \A m \in Nodes : m # n => node'[m] = node[m]
    BY <1>1, <1>3 DEF Start
  <2> QED
    BY <1>1, <2>1, <2>2 DEF GoesOn
<1>4. ASSUME NEW n \in Nodes, Gathered(n) PROVE \A m \in Nodes : GoesOn(node'[m])
  BY <1>1, <1>4, CountedType, LoopingGoesOn DEF Gathered
<1>5. ASSUME NEW n \in Nodes, LoopTimer(n) PROVE \A m \in Nodes : GoesOn(node'[m])
  <2>1. [node[n] EXCEPT !.timer = Off] \in Scheduler
    BY <1>1 DEF Scheduler
  <2> QED
    BY <1>1, <1>5, <2>1, LoopingGoesOn DEF LoopTimer
<1>6. ASSUME NEW n \in Nodes, StallTimer(n) PROVE \A m \in Nodes : GoesOn(node'[m])
  <2> DEFINE s == [node[n] EXCEPT !.stall = IF @ = 0 THEN Off ELSE @, !.leaked = @ \ {0}]
  <2>1. s \in Scheduler
    BY <1>1 DEF Scheduler
  <2>2. /\ s.running = node[n].running /\ s.completed = node[n].completed
        /\ s.gathering = node[n].gathering /\ s.timer = node[n].timer
    BY <1>1 DEF Scheduler
  <2>3. s.completed => GoesOn(s)
    BY <1>1, <2>2 DEF GoesOn
  <2>4. Complete(n, s)
    BY <1>6 DEF StallTimer, StallCompletes
  <2> QED
    BY <1>1, <2>1, <2>3, <2>4, CompleteGoesOn
<1>7. ASSUME NEW n \in Nodes, Reply(n) PROVE \A m \in Nodes : GoesOn(node'[m])
  <2> DEFINE s == [node[n] EXCEPT !.acquired = Head(replies[n])]
  <2>1. Head(replies[n]) \in BOOLEAN
    BY <1>7 DEF TypeOK, Reply
  <2>2. s \in Scheduler
    BY <1>1, <2>1 DEF Scheduler
  <2>3. /\ s.running = node[n].running /\ s.completed = node[n].completed
        /\ s.gathering = node[n].gathering /\ s.timer = node[n].timer
    BY <1>1 DEF Scheduler
  <2>4. s.completed => GoesOn(s)
    BY <1>1, <2>3 DEF GoesOn
  <2>5. Complete(n, s)
    BY <1>7 DEF Reply
  <2> QED
    BY <1>1, <2>2, <2>4, <2>5, CompleteGoesOn
<1>8. ASSUME NEW n \in Nodes, Stop(n) PROVE \A m \in Nodes : GoesOn(node'[m])
  <2>1. ~node'[n].running /\ \A m \in Nodes : m # n => node'[m] = node[m]
    BY <1>1, <1>8 DEF Stop, Scheduler
  <2> QED
    BY <1>1, <2>1 DEF GoesOn
<1>9. ASSUME NEW n \in Nodes, StopAgain(n) \/ Crash(n) PROVE \A m \in Nodes : GoesOn(node'[m])
  <2>1. ~node'[n].running /\ \A m \in Nodes : m # n => node'[m] = node[m]
    BY <1>1, <1>9 DEF StopAgain, Crash, Die, Fresh
  <2> QED
    BY <1>1, <2>1 DEF GoesOn
<1>10. ASSUME NEW n \in Nodes, Execute(n) PROVE \A m \in Nodes : GoesOn(node'[m])
  BY <1>1, <1>10 DEF Execute
<1>11. CASE Tick
  <2>1. ASSUME NEW n \in Nodes PROVE GoesOn(node'[n])
    <3>1. node[n] \in Scheduler /\ 0 \notin Timers(n) /\ GoesOn(node[n])
      BY <1>1, <1>11 DEF Tick
    <3>2. /\ node'[n].running = node[n].running /\ node'[n].completed = node[n].completed
          /\ node'[n].gathering = node[n].gathering /\ node'[n].lost = node[n].lost
          /\ node'[n].timer = Later(node[n].timer) /\ node'[n].stall = Later(node[n].stall)
      BY <1>1, <1>11 DEF Tick, Scheduler
    <3>3. ASSUME NEW t \in Nat \cup {Off}, t # 0, t # Off PROVE Later(t) # Off
      BY <3>3 DEF Later, Off
    <3>4. node[n].timer \in Nat \cup {Off} /\ node[n].stall \in Nat \cup {Off}
      BY <3>1 DEF Scheduler
    <3>5. node[n].timer # 0 /\ node[n].stall # 0
      BY <3>1 DEF Timers
    <3> QED
      BY <3>1, <3>2, <3>3, <3>4, <3>5 DEF GoesOn
  <2> QED
    BY <2>1
<1>12. CASE UNCHANGED vars
  BY <1>1, <1>12 DEF vars
<1>13. ASSUME NEW n \in Nodes, LoopThrows(n) PROVE \A m \in Nodes : GoesOn(node'[m])
  <2>1. node'[n].lost /\ \A m \in Nodes : m # n => node'[m] = node[m]
    BY <1>1, <1>13, UnscheduledType DEF LoopThrows
  <2> QED
    BY <1>1, <2>1 DEF GoesOn
<1> QED
  BY <1>3, <1>4, <1>5, <1>6, <1>7, <1>8, <1>9, <1>10, <1>11, <1>12, <1>13 DEF Next, NodeStep

\* index.js:229-269 - whatever stops, starts, forced or not, and late answers come
\* between, a node that is running and could fetch its schedules has the next
\* loop, or the timer that ends this one, before it.
THEOREM SchedulerLoopGoesOn == Spec => []LoopGoesOn
<1>1. Init => LoopGoesOn
  BY DEF Init, LoopGoesOn, Fresh
<1>2. TypeOK /\ LoopGoesOn /\ [Next]_vars => (TypeOK /\ LoopGoesOn)'
  BY NextTypeOK, NextLoopGoesOn
<1> QED
  BY <1>1, <1>2, InitTypeOK, PTL DEF Spec
=============================================================================
