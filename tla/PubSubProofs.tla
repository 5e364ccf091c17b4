---------------------------- MODULE PubSubProofs ----------------------------
(* Proofs about PubSub: one answer per call, and no deaf listener, for any  *)
(* processes, channels, calls, uses, failures and messages.                *)
EXTENDS PubSub, FiniteSetTheorems, TLAPS

----------------------------------------------------------------------------
(* Items on a connection.                                                  *)

Holds(s, E)  == \E i \in DOMAIN s : s[i] \in E
Single(s, E) == \A i, j \in DOMAIN s : s[i] \in E /\ s[j] \in E => i = j

LEMMA AppendItem ==
  ASSUME NEW X, NEW s \in Seq(X), NEW x \in X, NEW E
  PROVE  /\ Append(s, x) \in Seq(X)
         /\ Holds(Append(s, x), E) <=> Holds(s, E) \/ x \in E
         /\ Single(s, E) /\ (x \in E => ~Holds(s, E)) => Single(Append(s, x), E)
<1> DEFINE a == Append(s, x)
<1>1. a \in Seq(X) /\ DOMAIN a = 1 .. Len(s) + 1 /\ DOMAIN s = 1 .. Len(s) /\ Len(s) \in Nat
  OBVIOUS
<1>2. a[Len(s) + 1] = x /\ \A i \in 1 .. Len(s) : a[i] = s[i]
  OBVIOUS
<1> HIDE DEF a
<1>3. Holds(a, E) <=> Holds(s, E) \/ x \in E
  BY <1>1, <1>2 DEF Holds
<1>4. ASSUME Single(s, E), x \in E => ~Holds(s, E) PROVE Single(a, E)
  BY <1>1, <1>2, <1>4 DEF Single, Holds
<1> QED
  BY <1>1, <1>3, <1>4 DEF a

LEMMA TailItem ==
  ASSUME NEW X, NEW s \in Seq(X), s # <<>>, NEW E
  PROVE  /\ Tail(s) \in Seq(X) /\ Head(s) \in X
         /\ Holds(Tail(s), E) \/ Head(s) \in E <=> Holds(s, E)
         /\ Single(s, E) => /\ Single(Tail(s), E)
                            /\ Head(s) \in E => ~Holds(Tail(s), E)
<1> DEFINE t == Tail(s)
<1>1. /\ t \in Seq(X) /\ Head(s) \in X /\ Len(s) \in Nat \ {0}
      /\ DOMAIN t = 1 .. Len(s) - 1 /\ DOMAIN s = 1 .. Len(s)
  OBVIOUS
<1>2. s[1] = Head(s) /\ \A i \in 1 .. Len(s) - 1 : t[i] = s[i + 1]
  OBVIOUS
<1> HIDE DEF t
<1>3. ASSUME Holds(t, E) \/ Head(s) \in E PROVE Holds(s, E)
  <2>1. CASE Head(s) \in E
    BY <1>1, <1>2, <2>1 DEF Holds
  <2>2. CASE Holds(t, E)
    <3>1. PICK i \in DOMAIN t : t[i] \in E
      BY <2>2 DEF Holds
    <3>2. i + 1 \in DOMAIN s /\ s[i + 1] \in E
      BY <1>1, <1>2, <3>1
    <3> QED
      BY <3>2 DEF Holds
  <2> QED
    BY <1>3, <2>1, <2>2
<1>4. ASSUME Holds(s, E) PROVE Holds(t, E) \/ Head(s) \in E
  <2>1. PICK i \in DOMAIN s : s[i] \in E
    BY <1>4 DEF Holds
  <2>2. CASE i # 1
    <3>1. i - 1 \in DOMAIN t /\ t[i - 1] = s[i]
      BY <1>1, <1>2, <2>2
    <3> QED
      BY <2>1, <3>1 DEF Holds
  <2> QED
    BY <1>2, <2>1, <2>2
<1>5. ASSUME Single(s, E) PROVE Single(t, E) /\ (Head(s) \in E => ~Holds(t, E))
  <2>1. ASSUME NEW i \in DOMAIN t, t[i] \in E
        PROVE  i + 1 \in DOMAIN s /\ s[i + 1] \in E
    BY <1>1, <1>2, <2>1
  <2>2. ASSUME NEW i \in DOMAIN t, NEW j \in DOMAIN t, t[i] \in E, t[j] \in E PROVE i = j
    <3>1. i + 1 = j + 1
      BY <1>5, <2>1, <2>2 DEF Single
    <3> QED
      BY <1>1, <3>1
  <2>3. ASSUME NEW i \in DOMAIN t, t[i] \in E, Head(s) \in E PROVE FALSE
    <3>1. i + 1 = 1
      BY <1>1, <1>2, <1>5, <2>1, <2>3 DEF Single
    <3> QED
      BY <1>1, <3>1
  <2> QED
    BY <2>2, <2>3 DEF Single, Holds
<1> QED
  BY <1>1, <1>3, <1>4, <1>5 DEF t

LEMMA ConcatItems ==
  ASSUME NEW X, NEW s \in Seq(X), NEW u \in Seq(X), NEW E
  PROVE  /\ s \o u \in Seq(X)
         /\ Holds(s \o u, E) <=> Holds(s, E) \/ Holds(u, E)
         /\ Single(s, E) /\ Single(u, E) /\ ~(Holds(s, E) /\ Holds(u, E)) => Single(s \o u, E)
<1> DEFINE c == s \o u
<1>1. Len(s) \in Nat /\ Len(u) \in Nat /\ c \in Seq(X)
  OBVIOUS
<1>2. DOMAIN c = 1 .. Len(s) + Len(u) /\ DOMAIN s = 1 .. Len(s) /\ DOMAIN u = 1 .. Len(u)
  OBVIOUS
<1>3. /\ \A i \in 1 .. Len(s) : c[i] = s[i]
      /\ \A i \in 1 .. Len(u) : c[Len(s) + i] = u[i]
  OBVIOUS
<1> HIDE DEF c
<1>4. ASSUME NEW i \in DOMAIN c, i \notin DOMAIN s
      PROVE  i - Len(s) \in DOMAIN u /\ c[i] = u[i - Len(s)]
  <2>1. i - Len(s) \in DOMAIN u /\ i = Len(s) + (i - Len(s))
    BY <1>1, <1>2, <1>4
  <2> QED
    BY <1>2, <1>3, <2>1
<1>5. \A i \in DOMAIN s : i \in DOMAIN c /\ c[i] = s[i]
  BY <1>1, <1>2, <1>3
<1>6. \A i \in DOMAIN u : Len(s) + i \in DOMAIN c /\ c[Len(s) + i] = u[i]
  BY <1>1, <1>2, <1>3
<1>7. Holds(c, E) <=> Holds(s, E) \/ Holds(u, E)
  <2>1. Holds(c, E) => Holds(s, E) \/ Holds(u, E)
    BY <1>4, <1>5 DEF Holds
  <2>2. Holds(s, E) \/ Holds(u, E) => Holds(c, E)
    BY <1>5, <1>6 DEF Holds
  <2> QED
    BY <2>1, <2>2
<1>8. ASSUME Single(s, E), Single(u, E), ~(Holds(s, E) /\ Holds(u, E)) PROVE Single(c, E)
  <2>1. SUFFICES ASSUME NEW i \in DOMAIN c, NEW j \in DOMAIN c, c[i] \in E, c[j] \in E
                 PROVE  i = j
    BY DEF Single
  <2>2. CASE i \in DOMAIN s /\ j \in DOMAIN s
    BY <1>5, <1>8, <2>1, <2>2 DEF Single
  <2>3. CASE i \notin DOMAIN s /\ j \notin DOMAIN s
    <3>1. i - Len(s) = j - Len(s)
      BY <1>4, <1>8, <2>1, <2>3 DEF Single
    <3> QED
      BY <1>1, <1>2, <3>1
  <2>4. CASE (i \in DOMAIN s) # (j \in DOMAIN s)
    <3>1. Holds(s, E)
      BY <1>5, <2>1, <2>4 DEF Holds
    <3>2. Holds(u, E)
      BY <1>4, <2>1, <2>4 DEF Holds
    <3> QED
      BY <1>8, <3>1, <3>2
  <2> QED
    BY <2>2, <2>3, <2>4
<1> QED
  BY <1>1, <1>7, <1>8 DEF c

----------------------------------------------------------------------------
(* The items of a call: its SUBSCRIBE, and its UNSUBSCRIBE.                *)

Starters(k) == {Item("subscribe", k)}
Enders(k)   == {Item("unsubscribe", k), Item("unsubscribeFailed", k)}

LEMMA ItemsDiffer ==
  ASSUME NEW op, NEW of, NEW op2, NEW of2
  PROVE  Item(op, of) = Item(op2, of2) <=> op = op2 /\ of = of2
<1>1. Item(op, of).op = op /\ Item(op, of).of = of
  BY DEF Item
<1>2. Item(op2, of2).op = op2 /\ Item(op2, of2).of = of2
  BY DEF Item
<1> QED
  BY <1>1, <1>2

LEMMA ItemOf ==
  ASSUME NEW op, NEW of, NEW k
  PROVE  /\ Item(op, of) \in Starters(k) <=> op = "subscribe" /\ of = k
         /\ Item(op, of) \in Enders(k) <=> op \in {"unsubscribe", "unsubscribeFailed"} /\ of = k
<1>1. Item(op, of) \in Starters(k) <=> Item(op, of) = Item("subscribe", k)
  BY DEF Starters
<1>2. Item(op, of) \in Enders(k) <=>
        Item(op, of) = Item("unsubscribe", k) \/ Item(op, of) = Item("unsubscribeFailed", k)
  BY DEF Enders
<1>3. Item(op, of) = Item("subscribe", k) <=> op = "subscribe" /\ of = k
  BY ItemsDiffer
<1>4. Item(op, of) = Item("unsubscribe", k) <=> op = "unsubscribe" /\ of = k
  BY ItemsDiffer
<1>5. Item(op, of) = Item("unsubscribeFailed", k) <=> op = "unsubscribeFailed" /\ of = k
  BY ItemsDiffer
<1> QED
  BY <1>1, <1>2, <1>3, <1>4, <1>5

\* UNSUBSCRIBEs sent for a set of calls: one for each.
LEMMA UnsubscribeEach ==
  ASSUME NEW S, S \subseteq Calls, NEW s \in Orders(S), NEW k
  PROVE  LET u == [i \in DOMAIN s |-> Item("unsubscribe", s[i])] IN
         /\ u \in Seq(Commands)
         /\ ~Holds(u, Starters(k))
         /\ Holds(u, Enders(k)) <=> k \in S
         /\ Single(u, Enders(k))
<1> DEFINE c == Cardinality(S)
           u == [i \in DOMAIN s |-> Item("unsubscribe", s[i])]
<1>1. IsFiniteSet(S) /\ c \in Nat
  BY PubSubAssumption, FS_Subset, FS_CardinalityType
<1>2. s \in [1 .. c -> S] /\ \A x \in S : \E i \in 1 .. c : s[i] = x
  BY DEF Orders
<1>3. s \in Surjection(1 .. c, S)
  BY <1>2 DEF Surjection
<1>4. IsFiniteSet(1 .. c) /\ Cardinality(1 .. c) = c
  BY <1>1, FS_Interval
<1>5. s \in Injection(1 .. c, S)
  BY <1>3, <1>4, FS_SurjSameCardinalityImpliesInj
<1>6. \A i, j \in 1 .. c : s[i] = s[j] => i = j
  BY <1>5 DEF Injection, IsInjective
<1>7. DOMAIN u = 1 .. c /\ \A i \in 1 .. c : u[i] = Item("unsubscribe", s[i])
  BY <1>2
<1>8. \A i \in 1 .. c : u[i] \in Commands
  BY <1>2, <1>7 DEF Commands, Item
<1>9. u \in Seq(Commands)
  BY <1>1, <1>7, <1>8
<1> HIDE DEF u, c
<1>11. ASSUME NEW i \in 1 .. c PROVE u[i] \notin Starters(k) /\ (u[i] \in Enders(k) <=> s[i] = k)
  <2>1. u[i] = Item("unsubscribe", s[i])
    BY <1>7
  <2>2. /\ Item("unsubscribe", s[i]) \notin Starters(k)
        /\ Item("unsubscribe", s[i]) \in Enders(k) <=> s[i] = k
    BY ItemOf
  <2> QED
    BY <2>1, <2>2
<1> QED
  BY <1>2, <1>6, <1>7, <1>9, <1>11 DEF Holds, Single, u

----------------------------------------------------------------------------
(* What a step does to the items of a call k on the connections, before (q) *)
(* and after it (r); o is the process of k.                                *)

\* It adds a starter if st, an ender if en.
Gains(q, r, o, k, st, en) ==
  /\ Holds(r[o], Starters(k)) <=> Holds(q[o], Starters(k)) \/ st
  /\ Holds(r[o], Enders(k)) <=> Holds(q[o], Enders(k)) \/ en
  /\ Single(q[o], Starters(k)) /\ (st => ~Holds(q[o], Starters(k))) => Single(r[o], Starters(k))
  /\ Single(q[o], Enders(k)) /\ (en => ~Holds(q[o], Enders(k))) => Single(r[o], Enders(k))
  /\ \A p \in Procs \ {o} : /\ Holds(r[p], Starters(k)) => Holds(q[p], Starters(k))
                            /\ Holds(r[p], Enders(k)) => Holds(q[p], Enders(k))

\* It takes a starter away if st, an ender if en.
Loses(q, r, o, k, st, en) ==
  /\ Holds(q[o], Starters(k)) <=> Holds(r[o], Starters(k)) \/ st
  /\ Holds(q[o], Enders(k)) <=> Holds(r[o], Enders(k)) \/ en
  /\ Single(q[o], Starters(k)) =>
       Single(r[o], Starters(k)) /\ (st => ~Holds(r[o], Starters(k)))
  /\ Single(q[o], Enders(k)) => Single(r[o], Enders(k)) /\ (en => ~Holds(r[o], Enders(k)))
  /\ \A p \in Procs \ {o} : /\ Holds(r[p], Starters(k)) => Holds(q[p], Starters(k))
                            /\ Holds(r[p], Enders(k)) => Holds(q[p], Enders(k))

LEMMA GainsNothing ==
  ASSUME NEW q, NEW o, NEW k
  PROVE  Gains(q, q, o, k, FALSE, FALSE)
BY DEF Gains

LEMMA GainsItem ==
  ASSUME NEW X, NEW q \in [Procs -> Seq(X)], NEW p \in Procs, NEW x \in X, NEW o \in Procs, NEW k,
         x \in Starters(k) \cup Enders(k) => p = o
  PROVE  LET r == [q EXCEPT ![p] = Append(@, x)] IN
         r \in [Procs -> Seq(X)] /\ Gains(q, r, o, k, x \in Starters(k), x \in Enders(k))
<1> DEFINE r == [q EXCEPT ![p] = Append(@, x)]
<1>1. /\ r[p] = Append(q[p], x) /\ q[p] \in Seq(X)
      /\ \A w \in Procs \ {p} : r[w] = q[w]
  OBVIOUS
<1>2. Append(q[p], x) \in Seq(X)
  BY AppendItem
<1>3. r \in [Procs -> Seq(X)]
  BY <1>2
<1>4. /\ Holds(r[p], Starters(k)) <=> Holds(q[p], Starters(k)) \/ x \in Starters(k)
      /\ Single(q[p], Starters(k)) /\ (x \in Starters(k) => ~Holds(q[p], Starters(k)))
           => Single(r[p], Starters(k))
  BY <1>1, AppendItem
<1>5. /\ Holds(r[p], Enders(k)) <=> Holds(q[p], Enders(k)) \/ x \in Enders(k)
      /\ Single(q[p], Enders(k)) /\ (x \in Enders(k) => ~Holds(q[p], Enders(k)))
           => Single(r[p], Enders(k))
  BY <1>1, AppendItem
<1> HIDE DEF r
<1>6. Gains(q, r, o, k, x \in Starters(k), x \in Enders(k))
  <2>1. CASE p = o
    BY <1>1, <1>4, <1>5, <2>1 DEF Gains
  <2>2. CASE p # o
    <3>1. x \notin Starters(k) /\ x \notin Enders(k)
      BY <2>2
    <3> QED
      BY <1>1, <1>4, <1>5, <2>2, <3>1 DEF Gains
  <2> QED
    BY <2>1, <2>2
<1> QED
  BY <1>3, <1>6 DEF r

LEMMA GainsItems ==
  ASSUME NEW X, NEW q \in [Procs -> Seq(X)], NEW p \in Procs, NEW u \in Seq(X), NEW o \in Procs,
         NEW k, NEW S,
         ~Holds(u, Starters(k)), Holds(u, Enders(k)) <=> k \in S, Single(u, Enders(k)),
         k \in S => p = o
  PROVE  LET r == [q EXCEPT ![p] = @ \o u] IN
         r \in [Procs -> Seq(X)] /\ Gains(q, r, o, k, FALSE, k \in S)
<1> DEFINE r == [q EXCEPT ![p] = @ \o u]
<1>1. /\ r[p] = q[p] \o u /\ q[p] \in Seq(X)
      /\ \A w \in Procs \ {p} : r[w] = q[w]
  OBVIOUS
<1>2. q[p] \o u \in Seq(X)
  BY ConcatItems
<1>3. r \in [Procs -> Seq(X)]
  BY <1>2
<1>4. Single(u, Starters(k))
  BY DEF Single, Holds
<1>5. /\ Holds(r[p], Starters(k)) <=> Holds(q[p], Starters(k))
      /\ Single(q[p], Starters(k)) => Single(r[p], Starters(k))
  BY <1>1, <1>4, ConcatItems
<1>6. /\ Holds(r[p], Enders(k)) <=> Holds(q[p], Enders(k)) \/ k \in S
      /\ Single(q[p], Enders(k)) /\ (k \in S => ~Holds(q[p], Enders(k))) => Single(r[p], Enders(k))
  BY <1>1, ConcatItems
<1> HIDE DEF r
<1>7. Gains(q, r, o, k, FALSE, k \in S)
  <2>1. CASE p = o
    BY <1>1, <1>5, <1>6, <2>1 DEF Gains
  <2>2. CASE p # o
    BY <1>1, <1>5, <1>6, <2>2 DEF Gains
  <2> QED
    BY <2>1, <2>2
<1> QED
  BY <1>3, <1>7 DEF r

LEMMA LosesHead ==
  ASSUME NEW X, NEW q \in [Procs -> Seq(X)], NEW p \in Procs, q[p] # <<>>, NEW o \in Procs, NEW k,
         Head(q[p]) \in Starters(k) \cup Enders(k) => p = o
  PROVE  LET r == [q EXCEPT ![p] = Tail(@)]  x == Head(q[p]) IN
         /\ r \in [Procs -> Seq(X)] /\ x \in X
         /\ Loses(q, r, o, k, x \in Starters(k), x \in Enders(k))
<1> DEFINE r == [q EXCEPT ![p] = Tail(@)]
           x == Head(q[p])
<1>1. /\ r[p] = Tail(q[p]) /\ q[p] \in Seq(X)
      /\ \A w \in Procs \ {p} : r[w] = q[w]
  OBVIOUS
<1>2. Tail(q[p]) \in Seq(X) /\ x \in X
  BY TailItem
<1>3. r \in [Procs -> Seq(X)]
  BY <1>2
<1>4. /\ Holds(r[p], Starters(k)) \/ x \in Starters(k) <=> Holds(q[p], Starters(k))
      /\ Single(q[p], Starters(k)) =>
           Single(r[p], Starters(k)) /\ (x \in Starters(k) => ~Holds(r[p], Starters(k)))
  BY <1>1, TailItem
<1>5. /\ Holds(r[p], Enders(k)) \/ x \in Enders(k) <=> Holds(q[p], Enders(k))
      /\ Single(q[p], Enders(k)) =>
           Single(r[p], Enders(k)) /\ (x \in Enders(k) => ~Holds(r[p], Enders(k)))
  BY <1>1, TailItem
<1>6. x \in Starters(k) \cup Enders(k) => p = o
  OBVIOUS
<1> HIDE DEF r, x
<1>7. Loses(q, r, o, k, x \in Starters(k), x \in Enders(k))
  <2>1. CASE p = o
    BY <1>1, <1>4, <1>5, <2>1 DEF Loses
  <2>2. CASE p # o
    BY <1>1, <1>4, <1>5, <1>6, <2>2 DEF Loses
  <2> QED
    BY <2>1, <2>2
<1> QED
  BY <1>2, <1>3, <1>7 DEF r, x

----------------------------------------------------------------------------
(* The inductive invariant.                                                *)

Out(k) == sent[Owner(k)]
In(k)  == inbox[Owner(k)]

Listens(k) == \E c \in Channels : <<k, c>> \in listening

\* k has subscribed, or is about to.
Starts(k) == Holds(Out(k), Starters(k)) \/ Holds(In(k), Starters(k)) \/ Listens(k)

\* k has unsubscribed, and does not know yet.
Ending(k) == Holds(Out(k), Enders(k)) \/ Holds(In(k), Enders(k))

\* The items of k are on the connection of its own process.
AtHome(k) ==
  \A p \in Procs \ {Owner(k)} :
    /\ ~Holds(sent[p], Starters(k)) /\ ~Holds(sent[p], Enders(k))
    /\ ~Holds(inbox[p], Starters(k)) /\ ~Holds(inbox[p], Enders(k))

Unmade(k) ==
  k \notin made => ~Starts(k) /\ ~Ending(k) /\ check[k] = "none" /\ answers[k] = 0

\* k subscribes once, and listens on its own channels.
StartsOnce(k) ==
  /\ Single(Out(k), Starters(k)) /\ Single(In(k), Starters(k))
  /\ ~(Holds(Out(k), Starters(k)) /\ Holds(In(k), Starters(k)))
  /\ Listens(k) => ~Holds(Out(k), Starters(k)) /\ ~Holds(In(k), Starters(k))
  /\ \A c \in Channels : <<k, c>> \in listening => c \in Chans(k)

TimerRuns(k) == k \in timer => k \notin spent /\ answers[k] = 0

\* Until it is answered or timed out, nothing ends the subscription of k.
Lives(k) ==
  Starts(k) /\ k \notin spent =>
    /\ check[k] = "none" /\ ~Holds(Out(k), Enders(k))
    /\ k \in Once => answers[k] = 0
    /\ Private(k) /\ (Holds(In(k), Starters(k)) \/ Listens(k)) => Subscriptions(k) \subseteq subs

\* A subscribeOnceOf is answered by its UNSUBSCRIBE, which it sends once.
EndsOnce(k) ==
  /\ k \notin Once => check[k] = "none"
  /\ k \in OnceOf =>
       /\ Single(Out(k), Enders(k)) /\ Single(In(k), Enders(k))
       /\ ~(Holds(Out(k), Enders(k)) /\ Holds(In(k), Enders(k)))
       /\ (k \notin spent \/ answers[k] > 0) => ~Ending(k)
       /\ k \notin spent => answers[k] = 0

CallInv(k) ==
  /\ AtHome(k) /\ Unmade(k) /\ StartsOnce(k) /\ TimerRuns(k) /\ Lives(k) /\ EndsOnce(k)
  /\ k \in Once \cup OnceOf => answers[k] <= 1

PubSubInv == TypeOK /\ \A k \in Calls : CallInv(k)

----------------------------------------------------------------------------
LEMMA CallTypes ==
  ASSUME TypeOK, NEW k \in Calls
  PROVE  /\ Owner(k) \in Procs /\ Chans(k) \subseteq Channels
         /\ k \in Once => \A c, d \in Chans(k) : c = d
         /\ Subscriptions(k) \subseteq Procs \X Channels
BY PubSubAssumption DEF TypeOK, Owner, Chans, Subscriptions

LEMMA SameUse ==
  ASSUME UNCHANGED use, NEW k \in Calls
  PROVE  /\ Owner(k)' = Owner(k) /\ Chans(k)' = Chans(k)
         /\ Private(k)' = Private(k) /\ Subscriptions(k)' = Subscriptions(k)
         /\ Out(k)' = sent'[Owner(k)] /\ In(k)' = inbox'[Owner(k)]
BY DEF Owner, Chans, Private, Subscriptions, Out, In

\* Calls that share no channel in their process share no subscription.
LEMMA PrivateApart ==
  ASSUME TypeOK, NEW k \in Calls, NEW l \in Calls, k # l, Private(k)
  PROVE  Subscriptions(k) \cap Subscriptions(l) = {}
<1>1. Owner(l) = Owner(k) => Chans(l) \cap Chans(k) = {}
  BY DEF Private
<1> QED
  BY <1>1 DEF Subscriptions

\* The history of k: what steps of other calls leave alone.
SameCall(k) ==
  /\ check'[k] = check[k] /\ answers'[k] = answers[k]
  /\ (k \in made') = (k \in made) /\ (k \in spent') = (k \in spent)
  /\ (k \in timer') = (k \in timer)
  /\ \A c \in Channels : (<<k, c>> \in listening') = (<<k, c>> \in listening)

KeepsSubs(k) == Private(k) => \A x \in Subscriptions(k) : x \in subs => x \in subs'

LEMMA Kept ==
  ASSUME TypeOK, NEW k \in Calls, CallInv(k), UNCHANGED use, SameCall(k), KeepsSubs(k),
         Gains(sent, sent', Owner(k), k, FALSE, FALSE),
         Gains(inbox, inbox', Owner(k), k, FALSE, FALSE)
  PROVE  CallInv(k)'
<1>1. /\ Owner(k)' = Owner(k) /\ Chans(k)' = Chans(k)
      /\ Private(k)' = Private(k) /\ Subscriptions(k)' = Subscriptions(k)
      /\ Out(k)' = sent'[Owner(k)] /\ In(k)' = inbox'[Owner(k)]
  BY SameUse
<1>2. /\ Holds(Out(k)', Starters(k)) = Holds(Out(k), Starters(k))
      /\ Holds(Out(k)', Enders(k)) = Holds(Out(k), Enders(k))
      /\ Holds(In(k)', Starters(k)) = Holds(In(k), Starters(k))
      /\ Holds(In(k)', Enders(k)) = Holds(In(k), Enders(k))
  BY <1>1 DEF Gains, Out, In, Holds
<1>3. Listens(k)' = Listens(k)
  BY DEF Listens, SameCall
<1>4. Starts(k)' = Starts(k) /\ Ending(k)' = Ending(k)
  BY <1>2, <1>3 DEF Starts, Ending
<1>5. AtHome(k)'
  <2>1. ASSUME NEW p \in Procs \ {Owner(k)}
        PROVE  /\ ~Holds(sent'[p], Starters(k)) /\ ~Holds(sent'[p], Enders(k))
               /\ ~Holds(inbox'[p], Starters(k)) /\ ~Holds(inbox'[p], Enders(k))
    BY DEF CallInv, AtHome, Gains
  <2> QED
    BY <1>1, <2>1 DEF AtHome
<1>6. Unmade(k)' /\ TimerRuns(k)' /\ (k \in Once \cup OnceOf => answers'[k] <= 1)
  BY <1>4 DEF CallInv, Unmade, TimerRuns, SameCall
<1>7. StartsOnce(k)'
  BY <1>1, <1>2, <1>3 DEF CallInv, StartsOnce, SameCall, Gains, Out, In
<1>8. Lives(k)'
  BY <1>1, <1>2, <1>3, <1>4 DEF CallInv, Lives, SameCall, KeepsSubs
<1>9. EndsOnce(k)'
  BY <1>1, <1>2, <1>4 DEF CallInv, EndsOnce, SameCall, Gains, Out, In
<1> QED
  BY <1>5, <1>6, <1>7, <1>8, <1>9 DEF CallInv

----------------------------------------------------------------------------
(* Items on the connections of TypeOK.                                     *)

LEMMA CommandIs ==
  ASSUME NEW x \in Commands
  PROVE  /\ x = Item(x.op, x.of) /\ x.op \in {"subscribe", "unsubscribe"} /\ x.of \in Calls
         /\ x \in Items /\ Item(Failed[x.op], x.of) \in Items
         /\ \A k : /\ x \in Starters(k) <=> x.op = "subscribe" /\ x.of = k
                   /\ x \in Enders(k) <=> x.op = "unsubscribe" /\ x.of = k
                   /\ Item(Failed[x.op], x.of) \notin Starters(k)
                   /\ Item(Failed[x.op], x.of) \in Enders(k) <=> x.op = "unsubscribe" /\ x.of = k
<1>1. x.op \in {"subscribe", "unsubscribe"} /\ x.of \in Calls /\ x = Item(x.op, x.of)
  BY DEF Commands, Item
<1>2. Failed[x.op] = IF x.op = "subscribe" THEN "subscribeFailed" ELSE "unsubscribeFailed"
  BY <1>1 DEF Failed
<1>3. x \in Items /\ Item(Failed[x.op], x.of) \in Items
  BY <1>1, <1>2 DEF Items, Item
<1>4. ASSUME NEW k
      PROVE  /\ Item(x.op, x.of) \in Starters(k) <=> x.op = "subscribe" /\ x.of = k
             /\ Item(x.op, x.of) \in Enders(k) <=> x.op = "unsubscribe" /\ x.of = k
             /\ Item(Failed[x.op], x.of) \notin Starters(k)
             /\ Item(Failed[x.op], x.of) \in Enders(k) <=> x.op = "unsubscribe" /\ x.of = k
  BY <1>1, <1>2, ItemOf
<1> QED
  BY <1>1, <1>3, <1>4

LEMMA ItemIs ==
  ASSUME NEW x \in Items
  PROVE  /\ x = Item(x.op, x.of)
         /\ x.op \in {"message", "subscribe", "unsubscribe", "subscribeFailed", "unsubscribeFailed"}
         /\ x.op = "message" => x.of \in Channels
         /\ x.op # "message" => x.of \in Calls
         /\ \A k : /\ x \in Starters(k) <=> x.op = "subscribe" /\ x.of = k
                   /\ x \in Enders(k) <=> x.op \in {"unsubscribe", "unsubscribeFailed"} /\ x.of = k
<1>1. /\ x = Item(x.op, x.of)
      /\ x.op \in {"message", "subscribe", "unsubscribe", "subscribeFailed", "unsubscribeFailed"}
      /\ x.op = "message" => x.of \in Channels
      /\ x.op # "message" => x.of \in Calls
  BY DEF Items, Commands, Item
<1>2. \A k : /\ Item(x.op, x.of) \in Starters(k) <=> x.op = "subscribe" /\ x.of = k
             /\ Item(x.op, x.of) \in Enders(k)
                  <=> x.op \in {"unsubscribe", "unsubscribeFailed"} /\ x.of = k
  BY ItemOf
<1> QED
  BY <1>1, <1>2

\* A call l sends a command.
LEMMA Sends ==
  ASSUME TypeOK, NEW l \in Calls, NEW k \in Calls, NEW op \in {"subscribe", "unsubscribe"},
         sent' = [sent EXCEPT ![Owner(l)] = Append(@, Item(op, l))]
  PROVE  /\ sent' \in [Procs -> Seq(Commands)]
         /\ Gains(sent, sent', Owner(k), k, k = l /\ op = "subscribe", k = l /\ op = "unsubscribe")
<1> DEFINE x == Item(op, l)
<1>1. Owner(l) \in Procs /\ Owner(k) \in Procs /\ sent \in [Procs -> Seq(Commands)]
  BY CallTypes DEF TypeOK
<1>2. x \in Commands
  BY DEF Commands, Item
<1>3. /\ x \in Starters(k) <=> k = l /\ op = "subscribe"
      /\ x \in Enders(k) <=> k = l /\ op = "unsubscribe"
  BY ItemOf
<1> HIDE DEF x
<1>4. /\ sent' \in [Procs -> Seq(Commands)]
      /\ Gains(sent, sent', Owner(k), k, x \in Starters(k), x \in Enders(k))
  <2>1. sent' = [sent EXCEPT ![Owner(l)] = Append(@, x)]
    BY DEF x
  <2>2. x \in Starters(k) \cup Enders(k) => Owner(l) = Owner(k)
    BY <1>3
  <2> DEFINE r == [sent EXCEPT ![Owner(l)] = Append(@, x)]
  <2>3. /\ r \in [Procs -> Seq(Commands)]
        /\ Gains(sent, r, Owner(k), k, x \in Starters(k), x \in Enders(k))
    BY <1>1, <1>2, <2>2, GainsItem
  <2> QED
    BY <2>1, <2>3
<1> QED
  BY <1>3, <1>4 DEF Gains

\* So do the calls of S, all of process p, one after the other.
LEMMA SendsAll ==
  ASSUME TypeOK, NEW p \in Procs, NEW S, S \subseteq Calls, \A l \in S : Owner(l) = p,
         SendUnsubscribes(p, S), NEW k \in Calls
  PROVE  sent' \in [Procs -> Seq(Commands)] /\ Gains(sent, sent', Owner(k), k, FALSE, k \in S)
<1>1. PICK s \in Orders(S) :
        sent' = [sent EXCEPT ![p] = @ \o [i \in DOMAIN s |-> Item("unsubscribe", s[i])]]
  BY DEF SendUnsubscribes
<1> DEFINE u == [i \in DOMAIN s |-> Item("unsubscribe", s[i])]
<1>2. /\ u \in Seq(Commands) /\ ~Holds(u, Starters(k))
      /\ Holds(u, Enders(k)) <=> k \in S
      /\ Single(u, Enders(k))
  BY UnsubscribeEach
<1>3. sent \in [Procs -> Seq(Commands)] /\ Owner(k) \in Procs /\ (k \in S => p = Owner(k))
  BY CallTypes DEF TypeOK
<1>4. sent' = [sent EXCEPT ![p] = @ \o u]
  BY <1>1
<1> HIDE DEF u
<1> DEFINE r == [sent EXCEPT ![p] = @ \o u]
<1>5. r \in [Procs -> Seq(Commands)] /\ Gains(sent, r, Owner(k), k, FALSE, k \in S)
  BY <1>2, <1>3, GainsItems
<1> QED
  BY <1>4, <1>5

----------------------------------------------------------------------------
(* The calls of the application.                                           *)

LEMMA SubscribeStep ==
  ASSUME PubSubInv, NEW l \in Calls, Subscribe(l), NEW k \in Calls
  PROVE  CallInv(k)'
<1>1. TypeOK /\ CallInv(k) /\ UNCHANGED <<use, inbox, subs>>
  BY DEF PubSubInv, Subscribe, bounds
<1>2. Gains(sent, sent', Owner(k), k, k = l, FALSE)
  BY <1>1, Sends DEF Subscribe, Gains
<1>3. Gains(inbox, inbox', Owner(k), k, FALSE, FALSE)
  BY <1>1, GainsNothing
<1>4. CASE k # l
  <2>1. SameCall(k) /\ KeepsSubs(k)
    BY <1>1, <1>4 DEF Subscribe, ArmTimeout, SameCall, KeepsSubs
  <2>2. Gains(sent, sent', Owner(k), k, FALSE, FALSE)
    BY <1>2, <1>4 DEF Gains
  <2> QED
    BY <1>1, <1>3, <2>1, <2>2, Kept
<1>5. CASE k = l
  <2>1. /\ Owner(k)' = Owner(k) /\ Chans(k)' = Chans(k)
        /\ Out(k)' = sent'[Owner(k)] /\ In(k)' = inbox'[Owner(k)]
    BY <1>1, SameUse
  <2>2. ~Starts(k) /\ ~Ending(k) /\ check[k] = "none" /\ answers[k] = 0
    BY <1>1, <1>5 DEF CallInv, Unmade, Subscribe
  <2>3. /\ Holds(Out(k)', Starters(k)) /\ ~Holds(Out(k)', Enders(k))
        /\ ~Holds(In(k)', Starters(k)) /\ ~Holds(In(k)', Enders(k))
        /\ Single(Out(k)', Starters(k)) /\ Single(In(k)', Starters(k))
        /\ Single(Out(k)', Enders(k)) /\ Single(In(k)', Enders(k))
    BY <1>2, <1>3, <1>5, <2>1, <2>2
       DEF Gains, Starts, Ending, Out, In, Single, Holds
  <2>4. /\ k \in made' /\ spent' = spent /\ k \notin spent /\ check'[k] = "none"
        /\ answers'[k] = 0 /\ listening' = listening /\ ~Listens(k)
    BY <1>1, <1>5, <2>2 DEF Subscribe, Starts, TypeOK
  <2>5. ~Listens(k)' /\ \A c \in Channels : <<k, c>> \notin listening'
    BY <2>4 DEF Listens
  <2>6. AtHome(k)'
    BY <1>1, <1>2, <1>3, <2>1 DEF CallInv, AtHome, Gains
  <2>7. Unmade(k)' /\ TimerRuns(k)' /\ StartsOnce(k)'
    BY <2>3, <2>4, <2>5 DEF Unmade, TimerRuns, StartsOnce
  <2>8. Lives(k)' /\ EndsOnce(k)'
    BY <2>3, <2>4, <2>5 DEF Lives, EndsOnce, Ending
  <2> QED
    BY <2>4, <2>6, <2>7, <2>8 DEF CallInv
<1> QED
  BY <1>4, <1>5

LEMMA UnsubscribeStep ==
  ASSUME PubSubInv, NEW l \in Calls, Unsubscribe(l), NEW k \in Calls
  PROVE  CallInv(k)'
<1>1. TypeOK /\ CallInv(k) /\ UNCHANGED <<use, inbox, subs>>
  BY DEF PubSubInv, Unsubscribe, bounds
<1>2. Gains(sent, sent', Owner(k), k, FALSE, k = l)
  BY <1>1, Sends DEF Unsubscribe, Gains
<1>3. Gains(inbox, inbox', Owner(k), k, FALSE, FALSE)
  BY <1>1, GainsNothing
<1>4. CASE k # l
  <2>1. SameCall(k) /\ KeepsSubs(k)
    BY <1>1, <1>4 DEF Unsubscribe, SameCall, KeepsSubs
  <2>2. Gains(sent, sent', Owner(k), k, FALSE, FALSE)
    BY <1>2, <1>4 DEF Gains
  <2> QED
    BY <1>1, <1>3, <2>1, <2>2, Kept
<1>5. CASE k = l
  <2>1. /\ Owner(k)' = Owner(k) /\ Chans(k)' = Chans(k)
        /\ Out(k)' = sent'[Owner(k)] /\ In(k)' = inbox'[Owner(k)]
    BY <1>1, SameUse
  <2>2. k \in Lasting /\ k \notin Once /\ k \notin OnceOf /\ Listens(k)
    BY <1>5, PubSubAssumption DEF Unsubscribe, Listens
  <2>3. /\ ~Holds(Out(k)', Starters(k)) /\ ~Holds(In(k)', Starters(k))
        /\ Single(Out(k)', Starters(k)) /\ Single(In(k)', Starters(k))
    BY <1>1, <1>2, <1>3, <2>1, <2>2 DEF CallInv, StartsOnce, Gains, Out, In
  <2>4. /\ made' = made /\ k \in made /\ timer' = timer /\ spent' = spent
        /\ check' = check /\ answers' = answers
    BY <1>1, <2>2 DEF Unsubscribe, CallInv, Unmade, Starts
  <2>5. ~Listens(k)' /\ \A c \in Channels : <<k, c>> \notin listening'
    BY <1>5 DEF Unsubscribe, Listens
  <2>6. AtHome(k)'
    BY <1>1, <1>2, <1>3, <2>1 DEF CallInv, AtHome, Gains
  <2>7. Unmade(k)' /\ TimerRuns(k)' /\ StartsOnce(k)'
    BY <1>1, <2>3, <2>4, <2>5 DEF CallInv, Unmade, TimerRuns, StartsOnce
  <2>8. Lives(k)' /\ EndsOnce(k)'
    BY <1>1, <2>2, <2>3, <2>4, <2>5 DEF CallInv, Lives, Starts, EndsOnce
  <2> QED
    BY <2>2, <2>6, <2>7, <2>8 DEF CallInv
<1> QED
  BY <1>4, <1>5

----------------------------------------------------------------------------
(* Redis.                                                                  *)

\* The commands of other processes are not of k.
LEMMA HeadAtHome ==
  ASSUME TypeOK, NEW k \in Calls, CallInv(k), NEW p \in Procs
  PROVE  /\ sent[p] # <<>> =>
              (Head(sent[p]) \in Starters(k) \cup Enders(k) => p = Owner(k))
         /\ inbox[p] # <<>> =>
              (Head(inbox[p]) \in Starters(k) \cup Enders(k) => p = Owner(k))
<1>1. sent[p] \in Seq(Commands) /\ inbox[p] \in Seq(Items)
  BY DEF TypeOK
<1>2. ASSUME p # Owner(k)
      PROVE  /\ ~Holds(sent[p], Starters(k)) /\ ~Holds(sent[p], Enders(k))
             /\ ~Holds(inbox[p], Starters(k)) /\ ~Holds(inbox[p], Enders(k))
  BY <1>2 DEF CallInv, AtHome
<1>3. ASSUME sent[p] # <<>>, p # Owner(k) PROVE Head(sent[p]) \notin Starters(k) \cup Enders(k)
  BY <1>1, <1>2, <1>3, TailItem
<1>4. ASSUME inbox[p] # <<>>, p # Owner(k)
      PROVE  Head(inbox[p]) \notin Starters(k) \cup Enders(k)
  BY <1>1, <1>2, <1>4, TailItem
<1> QED
  BY <1>3, <1>4

\* What Execute does to k: a command of its own gives a reply, or fails.
LEMMA ExecuteItems ==
  ASSUME TypeOK, NEW p \in Procs, Execute(p), NEW k \in Calls, CallInv(k)
  PROVE  LET cmd == Head(sent[p])
             sub == cmd.op = "subscribe" /\ cmd.of = k
             end == cmd.op = "unsubscribe" /\ cmd.of = k
             done == subs' = IF cmd.op = "subscribe" THEN subs \cup Subscriptions(cmd.of)
                                                     ELSE subs \ Subscriptions(cmd.of)
         IN  /\ cmd \in Commands /\ (cmd.of = k => p = Owner(k))
             /\ sent' \in [Procs -> Seq(Commands)] /\ inbox' \in [Procs -> Seq(Items)]
             /\ Loses(sent, sent', Owner(k), k, sub, end)
             /\ \/ done /\ Gains(inbox, inbox', Owner(k), k, sub, end)
                \/ subs' = subs /\ Gains(inbox, inbox', Owner(k), k, FALSE, end)
<1> DEFINE cmd == Head(sent[p])
           sub == cmd.op = "subscribe" /\ cmd.of = k
           end == cmd.op = "unsubscribe" /\ cmd.of = k
           done == subs' = IF cmd.op = "subscribe" THEN subs \cup Subscriptions(cmd.of)
                                                   ELSE subs \ Subscriptions(cmd.of)
           bad == Item(Failed[cmd.op], cmd.of)
           r == [sent EXCEPT ![p] = Tail(@)]
           good(x) == [inbox EXCEPT ![p] = Append(@, x)]
<1>1. /\ sent[p] # <<>> /\ sent' = r
      /\ (done /\ inbox' = good(cmd)) \/ (subs' = subs /\ inbox' = good(bad))
  BY DEF Execute, Fail
<1>2. sent \in [Procs -> Seq(Commands)] /\ inbox \in [Procs -> Seq(Items)] /\ Owner(k) \in Procs
  BY CallTypes DEF TypeOK
<1>3. cmd \in Starters(k) \cup Enders(k) => p = Owner(k)
  BY <1>1, HeadAtHome
<1>4. /\ r \in [Procs -> Seq(Commands)] /\ cmd \in Commands
      /\ Loses(sent, r, Owner(k), k, cmd \in Starters(k), cmd \in Enders(k))
  BY <1>1, <1>2, <1>3, LosesHead
<1>5. /\ cmd.op \in {"subscribe", "unsubscribe"} /\ cmd \in Items /\ bad \in Items
      /\ cmd \in Starters(k) <=> sub
      /\ cmd \in Enders(k) <=> end
      /\ bad \notin Starters(k)
      /\ bad \in Enders(k) <=> end
  BY <1>4, CommandIs
<1>6. cmd.of = k => p = Owner(k)
  BY <1>3, <1>5
<1>7. /\ good(cmd) \in [Procs -> Seq(Items)]
      /\ Gains(inbox, good(cmd), Owner(k), k, cmd \in Starters(k), cmd \in Enders(k))
  <2> HIDE DEF cmd
  <2> QED
    BY <1>2, <1>3, <1>5, GainsItem
<1>8. /\ good(bad) \in [Procs -> Seq(Items)]
      /\ Gains(inbox, good(bad), Owner(k), k, bad \in Starters(k), bad \in Enders(k))
  <2>1. bad \in Starters(k) \cup Enders(k) => p = Owner(k)
    BY <1>5, <1>6
  <2> HIDE DEF bad
  <2> QED
    BY <1>2, <1>5, <2>1, GainsItem
<1> HIDE DEF cmd, bad, r, good, done
<1>9. Loses(sent, sent', Owner(k), k, sub, end)
  BY <1>1, <1>4, <1>5 DEF Loses
<1>10. \/ done /\ Gains(inbox, inbox', Owner(k), k, sub, end)
       \/ subs' = subs /\ Gains(inbox, inbox', Owner(k), k, FALSE, end)
  <2>1. CASE done /\ inbox' = good(cmd)
    BY <1>5, <1>7, <2>1 DEF Gains
  <2>2. CASE subs' = subs /\ inbox' = good(bad)
    BY <1>5, <1>8, <2>2 DEF Gains
  <2> QED
    BY <1>1, <2>1, <2>2
<1> QED
  BY <1>1, <1>4, <1>6, <1>7, <1>8, <1>9, <1>10 DEF cmd, done

LEMMA ExecuteStep ==
  ASSUME PubSubInv, NEW p \in Procs, Execute(p), NEW k \in Calls
  PROVE  CallInv(k)'
<1>1. TypeOK /\ CallInv(k) /\ UNCHANGED <<use, process>>
  BY DEF PubSubInv, Execute
<1>2. PICK cmd \in Commands :
        LET sub == cmd.op = "subscribe" /\ cmd.of = k
            end == cmd.op = "unsubscribe" /\ cmd.of = k
            done == subs' = IF cmd.op = "subscribe" THEN subs \cup Subscriptions(cmd.of)
                                                    ELSE subs \ Subscriptions(cmd.of)
        IN  /\ Loses(sent, sent', Owner(k), k, sub, end)
            /\ \/ done /\ Gains(inbox, inbox', Owner(k), k, sub, end)
               \/ subs' = subs /\ Gains(inbox, inbox', Owner(k), k, FALSE, end)
  BY <1>1, ExecuteItems
<1> DEFINE done == subs' = IF cmd.op = "subscribe" THEN subs \cup Subscriptions(cmd.of)
                                                   ELSE subs \ Subscriptions(cmd.of)
<1>3. cmd.op \in {"subscribe", "unsubscribe"} /\ cmd.of \in Calls
  BY CommandIs
<1>4. /\ Owner(k)' = Owner(k) /\ Chans(k)' = Chans(k)
      /\ Private(k)' = Private(k) /\ Subscriptions(k)' = Subscriptions(k)
      /\ Out(k)' = sent'[Owner(k)] /\ In(k)' = inbox'[Owner(k)]
  BY <1>1, SameUse
<1>5. SameCall(k) /\ made' = made /\ spent' = spent /\ check' = check /\ answers' = answers
      /\ timer' = timer /\ Listens(k)' = Listens(k) /\ listening' = listening
  BY <1>1 DEF process, SameCall, Listens
<1>6. CASE cmd.of # k
  <2>1. Gains(sent, sent', Owner(k), k, FALSE, FALSE)
    BY <1>2, <1>6 DEF Loses, Gains
  <2>2. Gains(inbox, inbox', Owner(k), k, FALSE, FALSE)
    BY <1>2, <1>6 DEF Gains
  <2>3. subs' = subs \/ done
    BY <1>2
  <2>4. KeepsSubs(k)
    <3>1. ASSUME Private(k) PROVE Subscriptions(k) \cap Subscriptions(cmd.of) = {}
      BY <1>1, <1>3, <1>6, <3>1, PrivateApart
    <3> QED
      BY <2>3, <3>1 DEF KeepsSubs
  <2> QED
    BY <1>1, <1>5, <2>1, <2>2, <2>4, Kept
<1>7. CASE cmd.of = k /\ cmd.op = "subscribe"
  <2>1. Loses(sent, sent', Owner(k), k, TRUE, FALSE)
    BY <1>2, <1>7 DEF Loses
  <2>2. \/ Subscriptions(k) \subseteq subs' /\ Gains(inbox, inbox', Owner(k), k, TRUE, FALSE)
        \/ subs' = subs /\ Gains(inbox, inbox', Owner(k), k, FALSE, FALSE)
    <3>1. CASE done /\ Gains(inbox, inbox', Owner(k), k, TRUE, FALSE)
      BY <1>7, <3>1
    <3>2. CASE subs' = subs /\ Gains(inbox, inbox', Owner(k), k, FALSE, FALSE)
      BY <3>2
    <3> QED
      BY <1>2, <1>7, <3>1, <3>2 DEF Gains
  <2>3. /\ Holds(Out(k), Starters(k)) /\ Starts(k) /\ ~Listens(k) /\ k \in made
        /\ ~Holds(In(k), Starters(k))
        /\ Single(Out(k), Starters(k)) /\ Single(In(k), Starters(k))
    BY <1>1, <2>1 DEF CallInv, StartsOnce, Unmade, Loses, Out, Starts
  <2>4. /\ ~Holds(Out(k)', Starters(k)) /\ Single(Out(k)', Starters(k))
        /\ Single(In(k)', Starters(k))
        /\ Holds(Out(k)', Enders(k)) = Holds(Out(k), Enders(k))
        /\ Holds(In(k)', Enders(k)) = Holds(In(k), Enders(k))
        /\ Single(Out(k), Enders(k)) => Single(Out(k)', Enders(k))
        /\ Single(In(k), Enders(k)) => Single(In(k)', Enders(k))
        /\ Holds(In(k)', Starters(k)) => Subscriptions(k) \subseteq subs'
    BY <1>4, <2>1, <2>2, <2>3 DEF Loses, Gains, Out, In, Holds
  <2>5. AtHome(k)'
    BY <1>1, <1>4, <2>1, <2>2 DEF CallInv, AtHome, Loses, Gains
  <2>6. Unmade(k)' /\ TimerRuns(k)' /\ StartsOnce(k)'
    BY <1>1, <1>4, <1>5, <2>3, <2>4 DEF CallInv, Unmade, TimerRuns, StartsOnce
  <2>7. Lives(k)'
    BY <1>1, <1>4, <1>5, <2>3, <2>4 DEF CallInv, Lives
  <2>8. EndsOnce(k)'
    BY <1>1, <1>5, <2>4 DEF CallInv, EndsOnce, Ending
  <2> QED
    BY <1>1, <1>5, <2>5, <2>6, <2>7, <2>8 DEF CallInv
<1>8. CASE cmd.of = k /\ cmd.op = "unsubscribe"
  <2>1. Loses(sent, sent', Owner(k), k, FALSE, TRUE)
    BY <1>2, <1>8 DEF Loses
  <2>2. Gains(inbox, inbox', Owner(k), k, FALSE, TRUE)
    BY <1>2, <1>8 DEF Gains
  <2>3. /\ Holds(Out(k), Enders(k)) /\ Ending(k) /\ k \in made
        /\ Starts(k) => k \in spent
    BY <1>1, <2>1 DEF CallInv, Unmade, Lives, Loses, Out, Ending
  <2>4. /\ Holds(Out(k)', Starters(k)) = Holds(Out(k), Starters(k))
        /\ Holds(In(k)', Starters(k)) = Holds(In(k), Starters(k))
        /\ Single(Out(k), Starters(k)) => Single(Out(k)', Starters(k))
        /\ Single(In(k), Starters(k)) => Single(In(k)', Starters(k))
        /\ Single(Out(k), Enders(k)) => Single(Out(k)', Enders(k)) /\ ~Holds(Out(k)', Enders(k))
        /\ Single(In(k), Enders(k)) /\ ~Holds(In(k), Enders(k)) => Single(In(k)', Enders(k))
    BY <1>4, <2>1, <2>2 DEF Loses, Gains, Out, In, Holds
  <2>5. Starts(k)' = Starts(k)
    BY <1>5, <2>4 DEF Starts
  <2>6. AtHome(k)'
    BY <1>1, <1>4, <2>1, <2>2 DEF CallInv, AtHome, Loses, Gains
  <2>7. Unmade(k)' /\ TimerRuns(k)'
    BY <1>1, <1>5, <2>3 DEF CallInv, Unmade, TimerRuns
  <2>8. StartsOnce(k)'
    BY <1>1, <1>4, <1>5, <2>4 DEF CallInv, StartsOnce
  <2>9. Lives(k)'
    BY <1>5, <2>3, <2>5 DEF Lives
  <2>10. EndsOnce(k)'
    BY <1>1, <1>5, <2>3, <2>4 DEF CallInv, EndsOnce
  <2> QED
    BY <1>1, <1>5, <2>6, <2>7, <2>8, <2>9, <2>10 DEF CallInv
<1> QED
  BY <1>3, <1>6, <1>7, <1>8

LEMMA PublishStep ==
  ASSUME PubSubInv, NEW c \in Channels, Publish(c), NEW k \in Calls
  PROVE  CallInv(k)' /\ inbox' \in [Procs -> Seq(Items)]
<1>1. TypeOK /\ CallInv(k) /\ UNCHANGED <<use, sent, subs, process>>
  BY DEF PubSubInv, Publish
<1>2. inbox \in [Procs -> Seq(Items)] /\ Owner(k) \in Procs
  BY <1>1, CallTypes DEF TypeOK
<1> DEFINE m == Item("message", c)
<1>3. m \in Items /\ m \notin Starters(k) /\ m \notin Enders(k)
  <2>1. m \in Items
    BY DEF Items, Item
  <2> QED
    BY <2>1, ItemOf
<1>4. inbox' = [w \in Procs |-> IF <<w, c>> \in subs THEN Append(inbox[w], m) ELSE inbox[w]]
  BY DEF Publish
<1> HIDE DEF m
<1>5. ASSUME NEW w \in Procs
      PROVE  /\ inbox'[w] \in Seq(Items)
             /\ Holds(inbox'[w], Starters(k)) = Holds(inbox[w], Starters(k))
             /\ Holds(inbox'[w], Enders(k)) = Holds(inbox[w], Enders(k))
             /\ Single(inbox[w], Starters(k)) => Single(inbox'[w], Starters(k))
             /\ Single(inbox[w], Enders(k)) => Single(inbox'[w], Enders(k))
  <2>1. inbox[w] \in Seq(Items)
    BY <1>2
  <2>2. CASE <<w, c>> \in subs
    <3>1. inbox'[w] = Append(inbox[w], m)
      BY <1>4, <2>2
    <3>2. Append(inbox[w], m) \in Seq(Items)
      BY <1>3, <2>1, AppendItem
    <3>3. /\ Holds(Append(inbox[w], m), Starters(k)) <=> Holds(inbox[w], Starters(k))
          /\ Single(inbox[w], Starters(k)) => Single(Append(inbox[w], m), Starters(k))
      BY <1>3, <2>1, AppendItem
    <3>4. /\ Holds(Append(inbox[w], m), Enders(k)) <=> Holds(inbox[w], Enders(k))
          /\ Single(inbox[w], Enders(k)) => Single(Append(inbox[w], m), Enders(k))
      BY <1>3, <2>1, AppendItem
    <3> QED
      BY <3>1, <3>2, <3>3, <3>4 DEF Holds
  <2>3. CASE <<w, c>> \notin subs
    BY <1>4, <2>1, <2>3
  <2> QED
    BY <2>2, <2>3
<1>6. Gains(inbox, inbox', Owner(k), k, FALSE, FALSE)
  BY <1>2, <1>5 DEF Gains
<1>7. Gains(sent, sent', Owner(k), k, FALSE, FALSE)
  BY <1>1, GainsNothing
<1>8. SameCall(k) /\ KeepsSubs(k)
  BY <1>1 DEF process, SameCall, KeepsSubs
<1>9. inbox' \in [Procs -> Seq(Items)]
  BY <1>4, <1>5
<1> QED
  BY <1>1, <1>6, <1>7, <1>8, <1>9, Kept

\* Steps that only move the check of a subscribeOnce on, and perhaps unsubscribe.
LEMMA CheckStep ==
  ASSUME PubSubInv, NEW l \in Calls, AskNumsub(l) \/ Numsub(l) \/ NumsubReply(l), NEW k \in Calls
  PROVE  CallInv(k)' /\ sent' \in [Procs -> Seq(Commands)]
<1>1. /\ TypeOK /\ CallInv(k)
      /\ UNCHANGED <<use, inbox, subs, made, listening, timer, spent, answers>>
      /\ check[l] # "none" /\ \A m \in Calls \ {l} : check'[m] = check[m]
      /\ \/ sent' = sent
         \/ sent' = [sent EXCEPT ![Owner(l)] = Append(@, Item("unsubscribe", l))]
  BY DEF PubSubInv, TypeOK, AskNumsub, Numsub, NumsubReply, network, bounds
<1>2. sent' \in [Procs -> Seq(Commands)]
  <2>1. CASE sent' = sent
    BY <1>1, <2>1 DEF TypeOK
  <2>2. CASE sent' = [sent EXCEPT ![Owner(l)] = Append(@, Item("unsubscribe", l))]
    BY <1>1, <2>2, Sends
  <2> QED
    BY <1>1, <2>1, <2>2
<1>3. \/ Gains(sent, sent', Owner(k), k, FALSE, FALSE)
      \/ Gains(sent, sent', Owner(k), k, FALSE, k = l)
  <2>1. CASE sent' = sent
    BY <2>1, GainsNothing
  <2>2. CASE sent' = [sent EXCEPT ![Owner(l)] = Append(@, Item("unsubscribe", l))]
    BY <1>1, <2>2, Sends DEF Gains
  <2> QED
    BY <1>1, <2>1, <2>2
<1>4. Gains(inbox, inbox', Owner(k), k, FALSE, FALSE)
  BY <1>1, GainsNothing
<1>5. CASE k # l
  <2>1. SameCall(k) /\ KeepsSubs(k)
    BY <1>1, <1>5 DEF SameCall, KeepsSubs
  <2>2. Gains(sent, sent', Owner(k), k, FALSE, FALSE)
    BY <1>3, <1>5 DEF Gains
  <2> QED
    BY <1>1, <1>2, <1>4, <2>1, <2>2, Kept
<1>6. CASE k = l
  <2>1. /\ Owner(k)' = Owner(k) /\ Chans(k)' = Chans(k)
        /\ Out(k)' = sent'[Owner(k)] /\ In(k)' = inbox'[Owner(k)]
    BY <1>1, SameUse
  <2>2. k \in Once /\ k \notin OnceOf /\ k \in made /\ (Starts(k) => k \in spent)
    BY <1>1, <1>6, PubSubAssumption DEF CallInv, EndsOnce, Unmade, Lives
  <2>3. /\ Holds(Out(k)', Starters(k)) = Holds(Out(k), Starters(k))
        /\ Single(Out(k), Starters(k)) => Single(Out(k)', Starters(k))
        /\ In(k)' = In(k) /\ Listens(k)' = Listens(k)
    BY <1>1, <1>3, <2>1 DEF Gains, Out, In, Holds, Listens
  <2>4. Starts(k)' = Starts(k)
    BY <2>3 DEF Starts
  <2>5. AtHome(k)'
    BY <1>1, <1>3, <1>4, <2>1 DEF CallInv, AtHome, Gains
  <2>6. Unmade(k)' /\ TimerRuns(k)'
    BY <1>1, <2>2 DEF CallInv, Unmade, TimerRuns
  <2>7. StartsOnce(k)'
    BY <1>1, <2>1, <2>3 DEF CallInv, StartsOnce
  <2>8. Lives(k)' /\ EndsOnce(k)'
    BY <1>1, <2>2, <2>4 DEF Lives, EndsOnce
  <2> QED
    BY <1>1, <1>2, <2>5, <2>6, <2>7, <2>8 DEF CallInv
<1> QED
  BY <1>5, <1>6

----------------------------------------------------------------------------
(* Replies and messages.                                                   *)

LEMMA ReceiveCases ==
  ASSUME NEW p \in Procs, Receive(p), NEW item \in Items, item = Head(inbox[p])
  PROVE  \/ item.op = "message" /\ OnMessage(p, item.of)
         \/ item.op = "subscribe" /\ OnSubscribed(item.of)
         \/ item.op \in {"unsubscribe", "unsubscribeFailed"} /\ OnUnsubscribed(item.of)
         \/ item.op = "subscribeFailed" /\ UNCHANGED process
<1>1. (CASE item.op = "message" -> OnMessage(p, item.of)
        [] Subscribed(item) -> OnSubscribed(item.of)
        [] Unsubscribed(item) -> OnUnsubscribed(item.of)
        [] OTHER -> UNCHANGED process)
  BY DEF Receive
<1>2. item.op \in {"message", "subscribe", "unsubscribe", "subscribeFailed", "unsubscribeFailed"}
  BY ItemIs
<1>3. CASE item.op = "message"
  <2>1. ~Subscribed(item) /\ ~Unsubscribed(item)
    BY <1>3 DEF Subscribed, Unsubscribed
  <2> QED
    BY <1>1, <1>3, <2>1, Zenon
<1>4. CASE item.op = "subscribe"
  <2>1. Subscribed(item) /\ ~Unsubscribed(item) /\ item.op # "message"
    BY <1>4 DEF Subscribed, Unsubscribed
  <2> QED
    BY <1>1, <1>4, <2>1, Zenon
<1>5. CASE item.op \in {"unsubscribe", "unsubscribeFailed"}
  <2>1. ~Subscribed(item) /\ Unsubscribed(item) /\ item.op # "message"
    BY <1>5 DEF Subscribed, Unsubscribed
  <2> QED
    BY <1>1, <1>5, <2>1, Zenon
<1>6. CASE item.op = "subscribeFailed"
  <2>1. ~Subscribed(item) /\ ~Unsubscribed(item) /\ item.op # "message"
    BY <1>6 DEF Subscribed, Unsubscribed
  <2> QED
    BY <1>1, <1>6, <2>1, Zenon
<1> QED
  BY <1>2, <1>3, <1>4, <1>5, <1>6

LEMMA ReceiveItems ==
  ASSUME TypeOK, NEW p \in Procs, Receive(p), NEW k \in Calls, CallInv(k)
  PROVE  /\ UNCHANGED <<subs, sent, bounds>> /\ inbox' \in [Procs -> Seq(Items)]
         /\ \E item \in Items :
              /\ item = Head(inbox[p])
              /\ Loses(inbox, inbox', Owner(k), k, item.op = "subscribe" /\ item.of = k,
                       item.op \in {"unsubscribe", "unsubscribeFailed"} /\ item.of = k)
<1> DEFINE item == Head(inbox[p])
           r == [inbox EXCEPT ![p] = Tail(@)]
<1>1. inbox[p] # <<>> /\ inbox' = r /\ UNCHANGED <<subs, sent, bounds>>
  BY DEF Receive
<1>2. inbox \in [Procs -> Seq(Items)] /\ Owner(k) \in Procs
  BY CallTypes DEF TypeOK
<1>3. item \in Starters(k) \cup Enders(k) => p = Owner(k)
  BY <1>1, HeadAtHome
<1>4. /\ r \in [Procs -> Seq(Items)] /\ item \in Items
      /\ Loses(inbox, r, Owner(k), k, item \in Starters(k), item \in Enders(k))
  BY <1>1, <1>2, <1>3, LosesHead
<1>5. /\ item \in Starters(k) <=> item.op = "subscribe" /\ item.of = k
      /\ item \in Enders(k) <=> item.op \in {"unsubscribe", "unsubscribeFailed"} /\ item.of = k
  BY <1>4, ItemIs
<1>6. item = Head(inbox[p])
  OBVIOUS
<1> HIDE DEF item, r
<1>7. Loses(inbox, r, Owner(k), k, item.op = "subscribe" /\ item.of = k,
            item.op \in {"unsubscribe", "unsubscribeFailed"} /\ item.of = k)
  BY <1>4, <1>5 DEF Loses
<1> QED
  BY <1>1, <1>4, <1>6, <1>7

LEMMA ReceiveStep ==
  ASSUME PubSubInv, NEW p \in Procs, Receive(p), NEW k \in Calls
  PROVE  CallInv(k)'
<1>1. TypeOK /\ CallInv(k) /\ UNCHANGED <<use, subs, sent>>
  BY ReceiveItems DEF PubSubInv, bounds
<1>2. PICK item \in Items :
        /\ item = Head(inbox[p])
        /\ Loses(inbox, inbox', Owner(k), k, item.op = "subscribe" /\ item.of = k,
                 item.op \in {"unsubscribe", "unsubscribeFailed"} /\ item.of = k)
  BY <1>1, ReceiveItems
<1>3. item.op # "message" => item.of \in Calls
  BY ItemIs
<1>4. /\ Owner(k)' = Owner(k) /\ Chans(k)' = Chans(k)
      /\ Private(k)' = Private(k) /\ Subscriptions(k)' = Subscriptions(k)
      /\ Out(k)' = Out(k) /\ In(k)' = inbox'[Owner(k)]
  BY <1>1, SameUse DEF Out
<1>5. Gains(sent, sent', Owner(k), k, FALSE, FALSE) /\ KeepsSubs(k)
  BY <1>1, GainsNothing DEF KeepsSubs
<1>6. CASE item.op = "subscribe" /\ item.of = k
  <2>1. Loses(inbox, inbox', Owner(k), k, TRUE, FALSE)
    BY <1>2, <1>6 DEF Loses
  <2>2. /\ made' = made /\ timer' = timer /\ spent' = spent /\ check' = check
        /\ answers' = answers
        /\ listening' = listening \/ listening' = listening \cup ({k} \X Chans(k))
    <3>1. OnSubscribed(k)
      BY <1>2, <1>6, ReceiveCases
    <3> QED
      BY <3>1 DEF OnSubscribed
  <2>3. /\ Holds(In(k), Starters(k)) /\ Starts(k) /\ ~Listens(k) /\ k \in made
        /\ ~Holds(Out(k), Starters(k))
        /\ Single(Out(k), Starters(k)) /\ Single(In(k), Starters(k))
    BY <1>1, <2>1 DEF CallInv, StartsOnce, Unmade, Loses, In, Starts
  <2>4. /\ ~Holds(In(k)', Starters(k)) /\ Single(In(k)', Starters(k))
        /\ Holds(In(k)', Enders(k)) = Holds(In(k), Enders(k))
        /\ Single(In(k), Enders(k)) => Single(In(k)', Enders(k))
    BY <1>4, <2>1, <2>3 DEF Loses, In, Holds
  <2>5. \A c \in Channels : <<k, c>> \in listening' => c \in Chans(k)
    BY <1>1, <2>2 DEF CallInv, StartsOnce
  <2>6. AtHome(k)'
    BY <1>1, <1>4, <2>1 DEF CallInv, AtHome, Loses
  <2>7. Unmade(k)' /\ TimerRuns(k)'
    BY <1>1, <2>2, <2>3 DEF CallInv, Unmade, TimerRuns
  <2>8. StartsOnce(k)'
    BY <1>4, <2>3, <2>4, <2>5 DEF StartsOnce
  <2>9. Lives(k)'
    BY <1>1, <1>4, <2>2, <2>3 DEF CallInv, Lives
  <2>10. EndsOnce(k)'
    BY <1>1, <1>4, <2>2, <2>4 DEF CallInv, EndsOnce, Ending
  <2> QED
    BY <1>1, <2>2, <2>6, <2>7, <2>8, <2>9, <2>10 DEF CallInv
<1>7. CASE item.op \in {"unsubscribe", "unsubscribeFailed"} /\ item.of = k
  <2>1. Loses(inbox, inbox', Owner(k), k, FALSE, TRUE)
    BY <1>2, <1>7 DEF Loses
  <2>2. /\ made' = made /\ timer' = timer /\ spent' = spent /\ check' = check
        /\ listening' = listening
        /\ answers' = IF k \in OnceOf THEN [answers EXCEPT ![k] = @ + 1] ELSE answers
    <3>1. OnUnsubscribed(k)
      BY <1>2, <1>7, ReceiveCases
    <3> QED
      BY <3>1 DEF OnUnsubscribed
  <2>3. /\ Holds(In(k), Enders(k)) /\ Ending(k) /\ k \in made
        /\ k \in OnceOf => answers[k] = 0 /\ k \in spent /\ ~Holds(Out(k), Enders(k))
    BY <1>1, <2>1 DEF CallInv, Unmade, EndsOnce, Loses, In, Ending, TypeOK
  <2>4. answers'[k] = IF k \in OnceOf THEN 1 ELSE answers[k]
    BY <1>1, <2>2, <2>3 DEF TypeOK
  <2>5. /\ Holds(In(k)', Starters(k)) = Holds(In(k), Starters(k))
        /\ Single(In(k), Starters(k)) => Single(In(k)', Starters(k))
        /\ Single(In(k), Enders(k)) => Single(In(k)', Enders(k)) /\ ~Holds(In(k)', Enders(k))
    BY <1>4, <2>1 DEF Loses, In, Holds
  <2>6. Listens(k)' = Listens(k) /\ Starts(k)' = Starts(k)
    BY <1>4, <2>2, <2>5 DEF Starts, Listens
  <2>7. AtHome(k)'
    BY <1>1, <1>4, <2>1 DEF CallInv, AtHome, Loses
  <2>8. Unmade(k)' /\ TimerRuns(k)'
    BY <1>1, <2>2, <2>3, <2>4 DEF CallInv, Unmade, TimerRuns
  <2>9. StartsOnce(k)'
    BY <1>1, <1>4, <2>2, <2>5, <2>6 DEF CallInv, StartsOnce
  <2>10. Lives(k)'
    BY <1>1, <1>4, <2>2, <2>3, <2>4, <2>5, <2>6, PubSubAssumption DEF CallInv, Lives
  <2>11. EndsOnce(k)'
    BY <1>1, <1>4, <2>2, <2>3, <2>4, <2>5 DEF CallInv, EndsOnce, Ending
  <2> QED
    BY <1>1, <2>4, <2>7, <2>8, <2>9, <2>10, <2>11 DEF CallInv
<1>8. CASE ~(item.op # "message" /\ item.op # "subscribeFailed" /\ item.of = k)
  <2>1. Gains(inbox, inbox', Owner(k), k, FALSE, FALSE)
    BY <1>2, <1>8 DEF Loses, Gains
  <2>2. SameCall(k)
    <3>1. CASE item.op = "message" /\ OnMessage(p, item.of)
      BY <3>1 DEF OnMessage, SameCall
    <3>2. CASE item.op = "subscribe" /\ OnSubscribed(item.of)
      BY <1>3, <1>8, <3>2 DEF OnSubscribed, SameCall
    <3>3. CASE item.op \in {"unsubscribe", "unsubscribeFailed"} /\ OnUnsubscribed(item.of)
      BY <1>1, <1>3, <1>8, <3>3 DEF OnUnsubscribed, SameCall, TypeOK
    <3>4. CASE item.op = "subscribeFailed" /\ UNCHANGED process
      BY <3>4 DEF process, SameCall
    <3> QED
      BY <1>2, <3>1, <3>2, <3>3, <3>4, ReceiveCases
  <2> QED
    BY <1>1, <1>5, <2>1, <2>2, Kept
<1> QED
  BY <1>6, <1>7, <1>8, ItemIs

----------------------------------------------------------------------------
(* Answers: messages that are emitted, and timeouts.                       *)

LEMMA TimeoutOnceStep ==
  ASSUME PubSubInv, NEW l \in Calls, TimeoutOnce(l), NEW k \in Calls
  PROVE  CallInv(k)'
<1>1. TypeOK /\ CallInv(k) /\ UNCHANGED <<use, sent, inbox, subs, made, listening>>
  BY DEF PubSubInv, TimeoutOnce, network, bounds
<1>2. /\ Gains(sent, sent', Owner(k), k, FALSE, FALSE)
      /\ Gains(inbox, inbox', Owner(k), k, FALSE, FALSE)
  BY <1>1, GainsNothing
<1>3. CASE k # l
  <2>1. SameCall(k) /\ KeepsSubs(k)
    BY <1>1, <1>3 DEF TimeoutOnce, SameCall, KeepsSubs, TypeOK
  <2> QED
    BY <1>1, <1>2, <2>1, Kept
<1>4. CASE k = l
  <2>1. /\ Owner(k)' = Owner(k) /\ Chans(k)' = Chans(k)
        /\ Out(k)' = Out(k) /\ In(k)' = In(k) /\ Listens(k)' = Listens(k)
    BY <1>1, SameUse DEF Out, In, Listens
  <2>2. k \in Once /\ k \notin OnceOf /\ k \in timer /\ k \in made /\ answers[k] = 0
    BY <1>1, <1>4, PubSubAssumption DEF TimeoutOnce, TypeOK, CallInv, TimerRuns
  <2>3. k \in spent' /\ k \notin timer' /\ answers'[k] = 1
    BY <1>1, <1>4, <2>2 DEF TimeoutOnce, TypeOK
  <2>4. AtHome(k)' /\ Unmade(k)' /\ TimerRuns(k)'
    BY <1>1, <2>1, <2>2, <2>3 DEF CallInv, AtHome, Unmade, TimerRuns
  <2>5. StartsOnce(k)' /\ Lives(k)' /\ EndsOnce(k)'
    BY <1>1, <2>1, <2>2, <2>3 DEF CallInv, StartsOnce, Lives, EndsOnce
  <2> QED
    BY <2>3, <2>4, <2>5 DEF CallInv
<1> QED
  BY <1>3, <1>4

\* A subscribeOnceOf that is not spent takes its listeners away and unsubscribes.
LEMMA OnceOfSpent ==
  ASSUME TypeOK, NEW k \in Calls, CallInv(k), UNCHANGED use, k \in OnceOf, k \notin spent,
         k \in made, made' = made, k \in spent', k \notin timer',
         check'[k] = check[k], answers'[k] = answers[k],
         \A c \in Channels : <<k, c>> \notin listening',
         Gains(sent, sent', Owner(k), k, FALSE, TRUE),
         Gains(inbox, inbox', Owner(k), k, FALSE, FALSE)
  PROVE  CallInv(k)'
<1>1. /\ Owner(k)' = Owner(k) /\ Chans(k)' = Chans(k)
      /\ Out(k)' = sent'[Owner(k)] /\ In(k)' = inbox'[Owner(k)]
  BY SameUse
<1>2. ~Listens(k)' /\ k \notin Once
  BY PubSubAssumption DEF Listens
<1>3. answers[k] = 0 /\ ~Ending(k)
  BY DEF CallInv, EndsOnce
<1>4. /\ Holds(Out(k)', Starters(k)) = Holds(Out(k), Starters(k))
      /\ Holds(In(k)', Starters(k)) = Holds(In(k), Starters(k))
      /\ Single(Out(k), Starters(k)) => Single(Out(k)', Starters(k))
      /\ Single(In(k), Starters(k)) => Single(In(k)', Starters(k))
      /\ Single(Out(k)', Enders(k)) /\ Single(In(k)', Enders(k)) /\ ~Holds(In(k)', Enders(k))
  BY <1>1, <1>3 DEF Gains, Out, In, Ending, Holds, Single
<1>5. AtHome(k)'
  BY <1>1 DEF CallInv, AtHome, Gains
<1>6. Unmade(k)' /\ TimerRuns(k)'
  BY DEF Unmade, TimerRuns
<1>7. StartsOnce(k)'
  BY <1>1, <1>2, <1>4 DEF CallInv, StartsOnce
<1>8. Lives(k)' /\ EndsOnce(k)'
  BY <1>2, <1>3, <1>4 DEF CallInv, Lives, EndsOnce
<1> QED
  BY <1>3, <1>5, <1>6, <1>7, <1>8 DEF CallInv

LEMMA TimeoutOnceOfStep ==
  ASSUME PubSubInv, NEW l \in Calls, TimeoutOnceOf(l), NEW k \in Calls
  PROVE  CallInv(k)' /\ sent' \in [Procs -> Seq(Commands)]
<1>1. TypeOK /\ CallInv(k) /\ UNCHANGED <<use, inbox, subs, made, check, answers>>
  BY DEF PubSubInv, TimeoutOnceOf, bounds
<1>2. sent' \in [Procs -> Seq(Commands)] /\ Gains(sent, sent', Owner(k), k, FALSE, k \in {l})
  BY <1>1, CallTypes, SendsAll DEF TimeoutOnceOf
<1>3. Gains(inbox, inbox', Owner(k), k, FALSE, FALSE)
  BY <1>1, GainsNothing
<1>4. CASE k # l
  <2>1. SameCall(k) /\ KeepsSubs(k)
    BY <1>1, <1>4 DEF TimeoutOnceOf, SameCall, KeepsSubs
  <2>2. Gains(sent, sent', Owner(k), k, FALSE, FALSE)
    BY <1>2, <1>4 DEF Gains
  <2> QED
    BY <1>1, <1>2, <1>3, <2>1, <2>2, Kept
<1>5. CASE k = l
  <2>1. /\ k \in OnceOf /\ k \notin spent /\ k \in made /\ k \in spent' /\ k \notin timer'
        /\ \A c \in Channels : <<k, c>> \notin listening'
    BY <1>1, <1>5 DEF TimeoutOnceOf, TypeOK, CallInv, TimerRuns
  <2>2. Gains(sent, sent', Owner(k), k, FALSE, TRUE)
    BY <1>2, <1>5 DEF Gains
  <2> QED
    BY <1>1, <1>2, <1>3, <2>1, <2>2, OnceOfSpent
<1> QED
  BY <1>4, <1>5

\* Who is called when channel c is emitted in process p.
Heard(p, c) == (Listeners(p, c) \cap Once) \ spent
First(p, c) == (Listeners(p, c) \cap OnceOf) \ spent

LEMMA EmitParts ==
  ASSUME TypeOK, NEW p \in Procs, Emit(p), NEW c \in Channels, c = Head(emits[p])
  PROVE  /\ listening' = listening \ (((Listeners(p, c) \cap Once) \X {c})
                                        \cup (First(p, c) \X Channels))
         /\ timer' = timer \ (Heard(p, c) \cup First(p, c))
         /\ spent' = spent \cup First(p, c)
         /\ check' = [k \in Calls |-> IF k \in Heard(p, c) THEN "queued" ELSE check[k]]
         /\ answers' = [k \in Calls |->
              answers[k] + IF k \in Heard(p, c) \cup (Listeners(p, c) \cap Lasting) THEN 1 ELSE 0]
         /\ SendUnsubscribes(p, First(p, c))
         /\ UNCHANGED <<use, subs, inbox, made, published, errors>>
         /\ emits' = [emits EXCEPT ![p] = Tail(@)]
BY DEF Emit, Heard, First, ClearTimeout, bounds

LEMMA EmitStep ==
  ASSUME PubSubInv, NEW p \in Procs, Emit(p), NEW k \in Calls
  PROVE  CallInv(k)' /\ sent' \in [Procs -> Seq(Commands)]
<1>1. TypeOK /\ CallInv(k) /\ emits[p] # <<>> /\ emits[p] \in Seq(Channels)
  BY DEF PubSubInv, Emit, TypeOK
<1>2. PICK c \in Channels : c = Head(emits[p])
  BY <1>1, TailItem
<1> DEFINE first == First(p, c)
           heard == Heard(p, c)
           all == Listeners(p, c)
<1>3. /\ listening' = listening \ (((all \cap Once) \X {c}) \cup (first \X Channels))
      /\ timer' = timer \ (heard \cup first) /\ spent' = spent \cup first
      /\ check' = [m \in Calls |-> IF m \in heard THEN "queued" ELSE check[m]]
      /\ answers' = [m \in Calls |->
           answers[m] + IF m \in heard \cup (all \cap Lasting) THEN 1 ELSE 0]
      /\ SendUnsubscribes(p, first)
      /\ UNCHANGED <<use, subs, inbox, made>>
  BY <1>1, <1>2, EmitParts
<1>4. /\ first \subseteq Calls /\ \A m \in first : Owner(m) = p
      /\ first \subseteq OnceOf /\ first \cap spent = {}
      /\ heard \subseteq Once /\ heard \subseteq all /\ heard \cap spent = {}
      /\ all \subseteq Calls /\ \A m \in all : Owner(m) = p /\ <<m, c>> \in listening
  BY DEF First, Heard, Listeners
<1>5. sent' \in [Procs -> Seq(Commands)] /\ Gains(sent, sent', Owner(k), k, FALSE, k \in first)
  BY <1>1, <1>3, <1>4, SendsAll
<1>6. Gains(inbox, inbox', Owner(k), k, FALSE, FALSE)
  BY <1>3, GainsNothing
<1>7. /\ Owner(k)' = Owner(k) /\ Chans(k)' = Chans(k)
      /\ Private(k)' = Private(k) /\ Subscriptions(k)' = Subscriptions(k)
      /\ Out(k)' = sent'[Owner(k)] /\ In(k)' = In(k)
  BY <1>3, SameUse DEF In
<1>8. CASE k \in first
  <2>1. /\ k \in OnceOf /\ k \notin spent /\ k \in spent' /\ k \notin timer' /\ k \notin Once
        /\ \A d \in Channels : <<k, d>> \notin listening'
    BY <1>3, <1>4, <1>8, PubSubAssumption
  <2>2. k \in made
    BY <1>1, <1>4, <1>8 DEF CallInv, Unmade, Starts, Listens, TypeOK, First
  <2>3. check'[k] = check[k] /\ answers'[k] = answers[k]
    BY <1>1, <1>3, <1>4, <2>1, PubSubAssumption DEF TypeOK
  <2>4. Gains(sent, sent', Owner(k), k, FALSE, TRUE)
    BY <1>5, <1>8 DEF Gains
  <2> QED
    BY <1>1, <1>3, <1>5, <1>6, <2>1, <2>2, <2>3, <2>4, OnceOfSpent
<1>9. ASSUME k \notin first PROVE Gains(sent, sent', Owner(k), k, FALSE, FALSE)
  BY <1>5, <1>9 DEF Gains
<1>10. CASE k \notin first /\ k \notin all
  <2>1. SameCall(k) /\ KeepsSubs(k)
    BY <1>1, <1>3, <1>4, <1>10 DEF SameCall, KeepsSubs, TypeOK
  <2> QED
    BY <1>1, <1>3, <1>5, <1>6, <1>9, <1>10, <2>1, Kept
<1>11. CASE k \notin first /\ k \in all
  <2>1. /\ Listens(k) /\ Starts(k) /\ c \in Chans(k) /\ k \in made
        /\ ~Holds(Out(k), Starters(k)) /\ ~Holds(In(k), Starters(k))
    BY <1>1, <1>2, <1>4, <1>11 DEF Listens, Starts, CallInv, StartsOnce, Unmade
  <2>2. /\ (k \in spent') = (k \in spent) /\ (k \in timer' => k \in timer)
        /\ listening' \subseteq listening
    BY <1>3, <1>11
  <2>3. /\ ~Holds(Out(k)', Starters(k)) /\ ~Holds(In(k)', Starters(k))
        /\ Single(Out(k)', Starters(k)) /\ Single(In(k)', Starters(k))
        /\ Holds(Out(k)', Enders(k)) = Holds(Out(k), Enders(k))
        /\ Holds(In(k)', Enders(k)) = Holds(In(k), Enders(k))
        /\ Single(Out(k), Enders(k)) => Single(Out(k)', Enders(k))
    BY <1>7, <1>9, <1>11, <2>1 DEF Gains, Out, Holds, Single
  <2>4. Listens(k)' => Listens(k)
    BY <2>2 DEF Listens
  <2>5. AtHome(k)'
    BY <1>1, <1>3, <1>7, <1>9, <1>11 DEF CallInv, AtHome, Gains
  <2>6. Unmade(k)'
    BY <1>3, <2>1 DEF Unmade
  <2>7. StartsOnce(k)'
    BY <1>1, <1>7, <2>2, <2>3 DEF CallInv, StartsOnce
  <2>8. CASE k \in Once
    <3>1. ~Listens(k)'
      <4>1. ASSUME NEW d \in Channels, <<k, d>> \in listening PROVE d = c
        BY <1>1, <2>1, <2>8, <4>1, CallTypes DEF CallInv, StartsOnce
      <4> QED
        BY <1>3, <1>11, <2>8, <4>1 DEF Listens
    <3>2. k \in heard <=> k \notin spent
      BY <1>11, <2>8 DEF Heard
    <3>3. /\ k \in spent => answers'[k] = answers[k]
          /\ k \notin spent => answers[k] = 0 /\ answers'[k] = 1 /\ k \notin timer'
      BY <1>1, <1>3, <2>1, <2>8, <3>2, PubSubAssumption DEF CallInv, Lives, TypeOK
    <3>4. TimerRuns(k)' /\ answers'[k] <= 1
      BY <1>1, <2>2, <2>8, <3>3 DEF CallInv, TimerRuns
    <3>5. Lives(k)'
      BY <2>3, <3>1 DEF Lives, Starts
    <3>6. EndsOnce(k)'
      BY <2>8, PubSubAssumption DEF EndsOnce
    <3> QED
      BY <1>5, <2>5, <2>6, <2>7, <3>4, <3>5, <3>6 DEF CallInv
  <2>9. CASE k \notin Once
    <3>1. check'[k] = check[k]
      BY <1>3, <1>4, <2>9
    <3>2. k \in OnceOf => answers'[k] = answers[k]
      BY <1>1, <1>3, <1>4, <2>9, PubSubAssumption DEF TypeOK
    <3>3. k \notin OnceOf => k \notin timer
      BY <1>1, <2>9, PubSubAssumption DEF TypeOK
    <3>4. TimerRuns(k)' /\ (k \in Once \cup OnceOf => answers'[k] <= 1)
      BY <1>1, <2>2, <2>9, <3>2, <3>3 DEF CallInv, TimerRuns
    <3>5. Lives(k)'
      BY <1>1, <1>3, <1>7, <2>1, <2>2, <2>3, <2>9, <3>1 DEF CallInv, Lives
    <3>6. EndsOnce(k)'
      BY <1>1, <1>7, <2>2, <2>3, <2>9, <3>1, <3>2 DEF CallInv, EndsOnce, Ending
    <3> QED
      BY <1>5, <2>5, <2>6, <2>7, <3>4, <3>5, <3>6 DEF CallInv
  <2> QED
    BY <2>8, <2>9
<1> QED
  BY <1>4, <1>8, <1>10, <1>11

----------------------------------------------------------------------------
(* The invariant holds.                                                    *)

LEMMA InitInv ==
  ASSUME Init
  PROVE  PubSubInv
<1>1. TypeOK
  BY PubSubAssumption DEF Init, TypeOK
<1>2. ASSUME NEW k \in Calls PROVE CallInv(k)
  <2>1. Owner(k) \in Procs
    BY <1>1, CallTypes
  <2>2. \A p \in Procs : sent[p] = <<>> /\ inbox[p] = <<>>
    BY DEF Init
  <2>3. \A E : ~Holds(<<>>, E) /\ Single(<<>>, E)
    BY DEF Holds, Single
  <2>4. ~Listens(k) /\ listening = {} /\ timer = {} /\ check[k] = "none" /\ answers[k] = 0
    BY DEF Init, Listens
  <2>5. AtHome(k)
    BY <2>2, <2>3 DEF AtHome
  <2>6. Out(k) = <<>> /\ In(k) = <<>> /\ ~Starts(k) /\ ~Ending(k)
    BY <2>1, <2>2, <2>3, <2>4 DEF Out, In, Starts, Ending
  <2>7. Unmade(k) /\ StartsOnce(k) /\ TimerRuns(k) /\ Lives(k) /\ EndsOnce(k)
    BY <2>3, <2>4, <2>6 DEF Unmade, StartsOnce, TimerRuns, Lives, EndsOnce
  <2> QED
    BY <2>4, <2>5, <2>7 DEF CallInv
<1> QED
  BY <1>1, <1>2 DEF PubSubInv

LEMMA TypeStep ==
  ASSUME PubSubInv, [Next]_vars
  PROVE  TypeOK'
<1>1. TypeOK
  BY DEF PubSubInv
<1>0. ASSUME NEW e, Fail(e) PROVE errors' \in 0 .. MaxErrors
  BY <1>0, <1>1, PubSubAssumption DEF Fail, TypeOK
<1>2. ASSUME NEW k \in Calls, Subscribe(k) PROVE TypeOK'
  <2>1. sent' \in [Procs -> Seq(Commands)]
    BY <1>1, <1>2, Sends DEF Subscribe
  <2> QED
    BY <1>1, <1>2, <2>1 DEF Subscribe, ArmTimeout, TypeOK, bounds
<1>3. ASSUME NEW k \in Calls, Unsubscribe(k) PROVE TypeOK'
  <2>1. sent' \in [Procs -> Seq(Commands)]
    BY <1>1, <1>3, Sends DEF Unsubscribe
  <2> QED
    BY <1>1, <1>3, <2>1 DEF Unsubscribe, TypeOK, bounds
<1>4. ASSUME NEW k \in Calls, TimeoutOnce(k) PROVE TypeOK'
  BY <1>1, <1>4 DEF TimeoutOnce, TypeOK, network, bounds
<1>5. ASSUME NEW k \in Calls, TimeoutOnceOf(k) PROVE TypeOK'
  <2>1. sent' \in [Procs -> Seq(Commands)]
    BY <1>5, TimeoutOnceOfStep
  <2> QED
    BY <1>1, <1>5, <2>1 DEF TimeoutOnceOf, TypeOK, bounds
<1>6. ASSUME NEW k \in Calls, AskNumsub(k) \/ Numsub(k) \/ NumsubReply(k) PROVE TypeOK'
  <2>1. sent' \in [Procs -> Seq(Commands)]
    BY <1>6, CheckStep
  <2>2. /\ check' \in [Calls -> {"none", "queued", "asked", "alone", "others"}]
        /\ errors' \in 0 .. MaxErrors
        /\ UNCHANGED <<use, subs, inbox, made, listening, timer, spent, emits, answers, published>>
    <3>1. CASE AskNumsub(k)
      BY <1>1, <3>1 DEF AskNumsub, TypeOK, network, bounds
    <3>2. CASE Numsub(k)
      BY <1>1, <1>0, <3>2 DEF Numsub, TypeOK, network
    <3>3. CASE NumsubReply(k)
      BY <1>1, <3>3 DEF NumsubReply, TypeOK, bounds
    <3> QED
      BY <1>6, <3>1, <3>2, <3>3
  <2> QED
    BY <1>1, <2>1, <2>2 DEF TypeOK
<1>7. ASSUME NEW p \in Procs, Execute(p) PROVE TypeOK'
  <2>1. PICK cmd \in Commands : cmd = Head(sent[p])
    BY <1>1, <1>7, TailItem DEF TypeOK, Execute
  <2>2. sent' \in [Procs -> Seq(Commands)]
    BY <1>1, <1>7, TailItem DEF Execute, TypeOK
  <2>3. inbox' \in [Procs -> Seq(Items)] /\ errors' \in 0 .. MaxErrors
    <3>1. cmd \in Items /\ Item(Failed[cmd.op], cmd.of) \in Items
      BY CommandIs
    <3>2. \A x \in Items : [inbox EXCEPT ![p] = Append(@, x)] \in [Procs -> Seq(Items)]
      BY <1>1, AppendItem DEF TypeOK
    <3> QED
      BY <1>0, <1>1, <1>7, <2>1, <3>1, <3>2 DEF Execute, TypeOK
  <2>4. subs' \in SUBSET (Procs \X Channels)
    <3>1. Subscriptions(cmd.of) \subseteq Procs \X Channels
      BY <1>1, CommandIs, CallTypes
    <3> QED
      BY <1>1, <1>7, <2>1, <3>1 DEF Execute, TypeOK
  <2> QED
    BY <1>1, <1>7, <2>2, <2>3, <2>4 DEF Execute, TypeOK, process
<1>8. ASSUME NEW p \in Procs, Receive(p) PROVE TypeOK'
  <2>1. PICK item \in Items : item = Head(inbox[p])
    BY <1>1, <1>8, TailItem DEF TypeOK, Receive
  <2>2. inbox' \in [Procs -> Seq(Items)] /\ UNCHANGED <<subs, sent, bounds>>
    BY <1>1, <1>8, TailItem DEF Receive, TypeOK
  <2>3. /\ item.op = "message" => item.of \in Channels
        /\ item.op # "message" => item.of \in Calls
    BY ItemIs
  <2>4. CASE item.op = "message" /\ OnMessage(p, item.of)
    <3>1. emits' \in [Procs -> Seq(Channels)]
      BY <1>1, <2>3, <2>4, AppendItem DEF OnMessage, TypeOK
    <3> QED
      BY <1>1, <2>2, <2>4, <3>1 DEF OnMessage, TypeOK, bounds
  <2>5. CASE item.op = "subscribe" /\ OnSubscribed(item.of)
    <3>1. listening' \in SUBSET (Calls \X Channels)
      BY <1>1, <2>3, <2>5, CallTypes DEF OnSubscribed, TypeOK
    <3> QED
      BY <1>1, <2>2, <2>5, <3>1 DEF OnSubscribed, TypeOK, bounds
  <2>6. CASE item.op \in {"unsubscribe", "unsubscribeFailed"} /\ OnUnsubscribed(item.of)
    <3>1. answers' \in [Calls -> Nat]
      BY <1>1, <2>3, <2>6 DEF OnUnsubscribed, TypeOK
    <3> QED
      BY <1>1, <2>2, <2>6, <3>1 DEF OnUnsubscribed, TypeOK, bounds
  <2>7. CASE item.op = "subscribeFailed" /\ UNCHANGED process
    BY <1>1, <2>2, <2>7 DEF TypeOK, process, bounds
  <2> QED
    BY <1>8, <2>1, <2>4, <2>5, <2>6, <2>7, ReceiveCases
<1>9. ASSUME NEW p \in Procs, Emit(p) PROVE TypeOK'
  <2>1. emits[p] # <<>> /\ emits[p] \in Seq(Channels)
    BY <1>1, <1>9 DEF Emit, TypeOK
  <2>2. PICK c \in Channels : c = Head(emits[p])
    BY <2>1, TailItem
  <2>4. First(p, c) \subseteq made \cap OnceOf
    BY DEF PubSubInv, CallInv, Unmade, Starts, Listens, First, Listeners, TypeOK
  <2> DEFINE S == First(p, c)
  <2>5. sent' \in [Procs -> Seq(Commands)]
    <3>1. SendUnsubscribes(p, S) /\ S \subseteq Calls
      BY <1>1, <1>9, <2>2, EmitParts DEF First, Listeners
    <3>2. PICK s \in Orders(S) :
            sent' = [sent EXCEPT ![p] = @ \o [i \in DOMAIN s |-> Item("unsubscribe", s[i])]]
      BY <3>1 DEF SendUnsubscribes
    <3>3. [i \in DOMAIN s |-> Item("unsubscribe", s[i])] \in Seq(Commands)
      BY <3>1, UnsubscribeEach
    <3> HIDE DEF S
    <3> QED
      BY <1>1, <3>2, <3>3, ConcatItems DEF TypeOK
  <2>6. /\ listening' \in SUBSET (Calls \X Channels) /\ timer' \in SUBSET (made \cap Timed)
        /\ spent' \in SUBSET (made \cap (Once \cup OnceOf))
        /\ check' \in [Calls -> {"none", "queued", "asked", "alone", "others"}]
        /\ answers' \in [Calls -> Nat]
        /\ UNCHANGED <<use, subs, inbox, made, published, errors>>
    <3>1. /\ listening' \subseteq listening /\ timer' \subseteq timer
          /\ spent' = spent \cup First(p, c)
          /\ check' = [k \in Calls |-> IF k \in Heard(p, c) THEN "queued" ELSE check[k]]
          /\ answers' = [k \in Calls |->
               answers[k] + IF k \in Heard(p, c) \cup (Listeners(p, c) \cap Lasting) THEN 1 ELSE 0]
          /\ UNCHANGED <<use, subs, inbox, made, published, errors>>
      BY <1>1, <1>9, <2>2, EmitParts
    <3> QED
      BY <1>1, <2>4, <3>1 DEF TypeOK
  <2>7. emits' \in [Procs -> Seq(Channels)]
    <3>1. Tail(emits[p]) \in Seq(Channels) /\ emits' = [emits EXCEPT ![p] = Tail(@)]
      BY <1>9, <2>1, TailItem DEF Emit
    <3> QED
      BY <1>1, <3>1 DEF TypeOK
  <2> QED
    BY <1>1, <2>5, <2>6, <2>7 DEF TypeOK
<1>10. ASSUME NEW c \in Channels, Publish(c) PROVE TypeOK'
  <2>1. inbox' \in [Procs -> Seq(Items)]
    <3>1. Item("message", c) \in Items
      BY DEF Items, Item
    <3>2. \A p \in Procs : Append(inbox[p], Item("message", c)) \in Seq(Items)
      BY <1>1, <3>1, AppendItem DEF TypeOK
    <3> QED
      BY <1>1, <1>10, <3>2 DEF Publish, TypeOK
  <2> QED
    BY <1>1, <1>10, <2>1, PubSubAssumption DEF Publish, TypeOK, process
<1>11. CASE UNCHANGED vars
  BY <1>1, <1>11 DEF TypeOK, vars, network, process, bounds
<1> QED
  BY <1>2, <1>3, <1>4, <1>5, <1>6, <1>7, <1>8, <1>9, <1>10, <1>11
     DEF Next, CallStep, ProcStep

LEMMA NextInv ==
  ASSUME PubSubInv, [Next]_vars
  PROVE  PubSubInv'
<1>1. TypeOK'
  BY TypeStep
<1>2. ASSUME NEW k \in Calls PROVE CallInv(k)'
  <2>1. ASSUME NEW l \in Calls, CallStep(l) PROVE CallInv(k)'
    BY <2>1, SubscribeStep, UnsubscribeStep, TimeoutOnceStep, TimeoutOnceOfStep, CheckStep
       DEF CallStep
  <2>2. ASSUME NEW p \in Procs, ProcStep(p) PROVE CallInv(k)'
    BY <2>2, ExecuteStep, ReceiveStep, EmitStep DEF ProcStep
  <2>3. ASSUME NEW c \in Channels, Publish(c) PROVE CallInv(k)'
    BY <2>3, PublishStep
  <2>4. CASE UNCHANGED vars
    <3>1. /\ TypeOK /\ CallInv(k) /\ UNCHANGED use /\ SameCall(k) /\ KeepsSubs(k)
          /\ sent' = sent /\ inbox' = inbox
      BY <2>4 DEF PubSubInv, SameCall, KeepsSubs, vars, network, process, bounds
    <3> QED
      BY <3>1, GainsNothing, Kept
  <2> QED
    BY <2>1, <2>2, <2>3, <2>4 DEF Next
<1> QED
  BY <1>1, <1>2 DEF PubSubInv

\* PubSubInv is inductive.
THEOREM PubSubInvariant == Spec => []PubSubInv
<1>1. Init => PubSubInv
  BY InitInv
<1>2. PubSubInv /\ [Next]_vars => PubSubInv'
  BY NextInv
<1> QED
  BY <1>1, <1>2, PTL DEF Spec

\* Every variable has its type: a spent call was made, a timer runs for a timed
\* call that was made.
THEOREM PubSubTypeOK == Spec => []TypeOK
<1>1. PubSubInv => TypeOK
  BY DEF PubSubInv
<1> QED
  BY <1>1, PubSubInvariant, PTL

----------------------------------------------------------------------------
(* Who is owed an answer has something to give it.                         *)

\* A timed call keeps its timer until it is spent or answered; one that is spent
\* is answered, or is a subscribeOnceOf whose UNSUBSCRIBE will answer it.
Due(k) ==
  /\ k \in made \cap Timed /\ k \notin spent /\ answers[k] = 0 => k \in timer
  /\ k \in spent /\ answers[k] = 0 => k \in OnceOf /\ Ending(k)

\* Steps that leave the answer of k alone.
SameAnswer(k) ==
  /\ answers'[k] = answers[k] /\ (k \in made') = (k \in made)
  /\ (k \in spent') = (k \in spent) /\ (k \in timer') = (k \in timer)

LEMMA DueKept ==
  ASSUME NEW k \in Calls, Due(k), SameAnswer(k), Ending(k) => Ending(k)'
  PROVE  Due(k)'
BY DEF Due, SameAnswer

\* Commands that are sent, and replies that come, end nothing.
LEMMA EndingKept ==
  ASSUME NEW k \in Calls, UNCHANGED use,
         Holds(sent[Owner(k)], Enders(k)) => Holds(sent'[Owner(k)], Enders(k)),
         Holds(inbox[Owner(k)], Enders(k)) => Holds(inbox'[Owner(k)], Enders(k))
  PROVE  Ending(k) => Ending(k)'
BY SameUse DEF Ending, Out, In

LEMMA DueCallStep ==
  ASSUME PubSubInv, NEW k \in Calls, Due(k), NEW l \in Calls, CallStep(l)
  PROVE  Due(k)'
<1>1. TypeOK /\ CallInv(k)
  BY DEF PubSubInv
<1>2. CASE Subscribe(l)
  <2>1. Gains(sent, sent', Owner(k), k, k = l, FALSE) /\ UNCHANGED <<use, inbox>>
    BY <1>1, <1>2, Sends DEF Subscribe, Gains, bounds
  <2>2. Ending(k) => Ending(k)'
    BY <2>1, EndingKept DEF Gains
  <2>3. CASE k # l
    <3>1. SameAnswer(k)
      BY <1>2, <2>3 DEF Subscribe, ArmTimeout, SameAnswer
    <3> QED
      BY <2>2, <3>1, DueKept
  <2>4. CASE k = l
    <3>1. k \notin spent' /\ (k \in Timed => k \in timer')
      BY <1>1, <1>2, <2>4 DEF Subscribe, ArmTimeout, TypeOK
    <3> QED
      BY <3>1 DEF Due
  <2> QED
    BY <2>3, <2>4
<1>3. CASE Unsubscribe(l)
  <2>1. Gains(sent, sent', Owner(k), k, FALSE, k = l) /\ UNCHANGED <<use, inbox>>
    BY <1>1, <1>3, Sends DEF Unsubscribe, Gains, bounds
  <2>2. Ending(k) => Ending(k)'
    BY <2>1, EndingKept DEF Gains
  <2>3. SameAnswer(k)
    BY <1>3 DEF Unsubscribe, SameAnswer
  <2> QED
    BY <2>2, <2>3, DueKept
<1>4. CASE TimeoutOnce(l)
  <2>1. Ending(k) => Ending(k)'
    BY <1>4, EndingKept DEF TimeoutOnce, network, bounds
  <2>2. CASE k # l
    <3>1. SameAnswer(k)
      BY <1>1, <1>4, <2>2 DEF TimeoutOnce, SameAnswer, TypeOK
    <3> QED
      BY <2>1, <3>1, DueKept
  <2>3. CASE k = l
    <3>1. answers'[k] # 0
      BY <1>1, <1>4, <2>3 DEF TimeoutOnce, TypeOK
    <3> QED
      BY <3>1 DEF Due
  <2> QED
    BY <2>2, <2>3
<1>5. CASE TimeoutOnceOf(l)
  <2>1. Gains(sent, sent', Owner(k), k, FALSE, k \in {l}) /\ UNCHANGED <<use, inbox>>
    BY <1>1, <1>5, CallTypes, SendsAll DEF TimeoutOnceOf, bounds
  <2>2. Ending(k) => Ending(k)'
    BY <2>1, EndingKept DEF Gains
  <2>3. CASE k # l
    <3>1. SameAnswer(k)
      BY <1>1, <1>5, <2>3 DEF TimeoutOnceOf, SameAnswer, TypeOK
    <3> QED
      BY <2>2, <3>1, DueKept
  <2>4. CASE k = l
    <3>1. k \in OnceOf /\ k \in spent'
      BY <1>5, <2>4 DEF TimeoutOnceOf
    <3>2. Ending(k)'
      BY <2>1, <2>4, SameUse DEF Gains, Ending
    <3> QED
      BY <3>1, <3>2 DEF Due
  <2> QED
    BY <2>3, <2>4
<1>6. CASE AskNumsub(l) \/ Numsub(l) \/ NumsubReply(l)
  <2>1. /\ UNCHANGED <<use, inbox, made, timer, spent, answers>>
        /\ \/ sent' = sent
           \/ sent' = [sent EXCEPT ![Owner(l)] = Append(@, Item("unsubscribe", l))]
    BY <1>6 DEF AskNumsub, Numsub, NumsubReply, network, bounds
  <2>2. Holds(sent[Owner(k)], Enders(k)) => Holds(sent'[Owner(k)], Enders(k))
    <3>1. CASE sent' = sent
      BY <3>1
    <3>2. CASE sent' = [sent EXCEPT ![Owner(l)] = Append(@, Item("unsubscribe", l))]
      BY <1>1, <3>2, Sends DEF Gains
    <3> QED
      BY <2>1, <3>1, <3>2
  <2>3. Ending(k) => Ending(k)'
    BY <2>1, <2>2, EndingKept
  <2>4. SameAnswer(k)
    BY <2>1 DEF SameAnswer
  <2> QED
    BY <2>3, <2>4, DueKept
<1> QED
  BY <1>2, <1>3, <1>4, <1>5, <1>6 DEF CallStep

LEMMA DueExecute ==
  ASSUME PubSubInv, NEW k \in Calls, Due(k), NEW p \in Procs, Execute(p)
  PROVE  Due(k)'
<1>1. TypeOK /\ CallInv(k) /\ UNCHANGED <<use, process>>
  BY DEF PubSubInv, Execute
<1>2. PICK cmd \in Commands :
        LET sub == cmd.op = "subscribe" /\ cmd.of = k
            end == cmd.op = "unsubscribe" /\ cmd.of = k
            done == subs' = IF cmd.op = "subscribe" THEN subs \cup Subscriptions(cmd.of)
                                                    ELSE subs \ Subscriptions(cmd.of)
        IN  /\ Loses(sent, sent', Owner(k), k, sub, end)
            /\ \/ done /\ Gains(inbox, inbox', Owner(k), k, sub, end)
               \/ subs' = subs /\ Gains(inbox, inbox', Owner(k), k, FALSE, end)
  BY <1>1, ExecuteItems
<1>3. Ending(k) => Ending(k)'
  BY <1>1, <1>2, SameUse DEF Loses, Gains, Ending, Out, In
<1>4. SameAnswer(k)
  BY <1>1 DEF SameAnswer, process
<1> QED
  BY <1>3, <1>4, DueKept

LEMMA DuePublish ==
  ASSUME PubSubInv, NEW k \in Calls, Due(k), NEW c \in Channels, Publish(c)
  PROVE  Due(k)'
<1>1. TypeOK /\ UNCHANGED <<use, sent, process>>
  BY DEF PubSubInv, Publish
<1>2. Owner(k) \in Procs /\ inbox[Owner(k)] \in Seq(Items) /\ Item("message", c) \in Items
  BY <1>1, CallTypes DEF TypeOK, Items, Item
<1>3. inbox'[Owner(k)] \in {inbox[Owner(k)], Append(inbox[Owner(k)], Item("message", c))}
  BY <1>2 DEF Publish
<1>4. Holds(inbox[Owner(k)], Enders(k)) => Holds(inbox'[Owner(k)], Enders(k))
  <2>1. ASSUME NEW s \in Seq(Items), NEW x \in Items, Holds(s, Enders(k))
        PROVE  Holds(Append(s, x), Enders(k))
    BY <2>1, AppendItem
  <2> QED
    BY <1>2, <1>3, <2>1
<1>5. Ending(k) => Ending(k)'
  BY <1>1, <1>4, EndingKept
<1>6. SameAnswer(k)
  BY <1>1 DEF SameAnswer, process
<1> QED
  BY <1>5, <1>6, DueKept

LEMMA DueReceive ==
  ASSUME PubSubInv, NEW k \in Once \cup OnceOf, Due(k), NEW p \in Procs, Receive(p)
  PROVE  Due(k)'
<1>1. TypeOK /\ k \in Calls /\ CallInv(k) /\ UNCHANGED <<use, sent>>
  BY ReceiveItems DEF PubSubInv, Calls, bounds
<1>2. PICK item \in Items :
        /\ item = Head(inbox[p])
        /\ Loses(inbox, inbox', Owner(k), k, item.op = "subscribe" /\ item.of = k,
                 item.op \in {"unsubscribe", "unsubscribeFailed"} /\ item.of = k)
  BY <1>1, ReceiveItems
<1>3. UNCHANGED <<made, timer, spent>>
  BY <1>2, ReceiveCases DEF OnMessage, OnSubscribed, OnUnsubscribed, process
<1>4. CASE item.op \in {"unsubscribe", "unsubscribeFailed"} /\ item.of = k
  <2>1. OnUnsubscribed(k)
    BY <1>2, <1>4, ReceiveCases
  <2>2. CASE k \in OnceOf
    <3>1. answers'[k] = answers[k] + 1 /\ answers[k] \in Nat
      BY <1>1, <2>1, <2>2 DEF OnUnsubscribed, TypeOK
    <3>2. answers'[k] # 0
      BY <3>1
    <3> QED
      BY <3>2 DEF Due
  <2>3. CASE k \notin OnceOf
    <3>1. answers' = answers
      BY <2>1, <2>3 DEF OnUnsubscribed
    <3> QED
      BY <1>3, <2>3, <3>1 DEF Due
  <2> QED
    BY <2>2, <2>3
<1>5. CASE ~(item.op \in {"unsubscribe", "unsubscribeFailed"} /\ item.of = k)
  <2>1. Holds(inbox[Owner(k)], Enders(k)) => Holds(inbox'[Owner(k)], Enders(k))
    BY <1>2, <1>5 DEF Loses
  <2>2. Ending(k) => Ending(k)'
    BY <1>1, <2>1, EndingKept
  <2>3. answers'[k] = answers[k]
    <3>1. CASE item.op \in {"unsubscribe", "unsubscribeFailed"} /\ OnUnsubscribed(item.of)
      BY <1>1, <1>5, <3>1 DEF OnUnsubscribed, TypeOK
    <3>2. CASE ~(item.op \in {"unsubscribe", "unsubscribeFailed"} /\ OnUnsubscribed(item.of))
      BY <1>2, <3>2, ReceiveCases DEF OnMessage, OnSubscribed, process
    <3> QED
      BY <3>1, <3>2
  <2>4. SameAnswer(k)
    BY <1>3, <2>3 DEF SameAnswer
  <2> QED
    BY <1>1, <2>2, <2>4, DueKept
<1> QED
  BY <1>4, <1>5

LEMMA DueEmit ==
  ASSUME PubSubInv, NEW k \in Once \cup OnceOf, Due(k), NEW p \in Procs, Emit(p)
  PROVE  Due(k)'
<1>1. TypeOK /\ k \in Calls /\ emits[p] # <<>> /\ emits[p] \in Seq(Channels)
  BY DEF PubSubInv, Emit, TypeOK, Calls
<1>2. PICK c \in Channels : c = Head(emits[p])
  BY <1>1, TailItem
<1>3. /\ timer' = timer \ (Heard(p, c) \cup First(p, c)) /\ spent' = spent \cup First(p, c)
      /\ answers' = [m \in Calls |->
           answers[m] + IF m \in Heard(p, c) \cup (Listeners(p, c) \cap Lasting) THEN 1 ELSE 0]
      /\ SendUnsubscribes(p, First(p, c))
      /\ UNCHANGED <<use, inbox, made>>
  BY <1>1, <1>2, EmitParts
<1>4. First(p, c) \subseteq Calls /\ First(p, c) \subseteq OnceOf /\ \A m \in First(p, c) : Owner(m) = p
  BY DEF First, Listeners
<1>5. Gains(sent, sent', Owner(k), k, FALSE, k \in First(p, c))
  BY <1>1, <1>3, <1>4, SendsAll
<1>6. CASE k \in First(p, c)
  <2>1. Ending(k)'
    BY <1>1, <1>3, <1>5, <1>6, SameUse DEF Gains, Ending
  <2> QED
    BY <1>3, <1>4, <1>6, <2>1 DEF Due
<1>7. CASE k \in Heard(p, c)
  <2>1. answers'[k] = answers[k] + 1 /\ answers[k] \in Nat
    BY <1>1, <1>3, <1>7 DEF TypeOK
  <2>2. answers'[k] # 0
    BY <2>1
  <2> QED
    BY <2>2 DEF Due
<1>8. CASE k \notin First(p, c) /\ k \notin Heard(p, c)
  <2>1. answers'[k] = answers[k]
    BY <1>1, <1>3, <1>8, PubSubAssumption DEF TypeOK
  <2>2. SameAnswer(k)
    BY <1>3, <1>8, <2>1 DEF SameAnswer
  <2>3. Ending(k) => Ending(k)'
    BY <1>1, <1>3, <1>5, EndingKept DEF Gains
  <2> QED
    BY <1>1, <2>2, <2>3, DueKept
<1> QED
  BY <1>6, <1>7, <1>8

DueInv == \A k \in Once \cup OnceOf : Due(k)

LEMMA NextDue == PubSubInv /\ DueInv /\ [Next]_vars => DueInv'
<1> SUFFICES ASSUME PubSubInv, DueInv, [Next]_vars, NEW k \in Once \cup OnceOf PROVE Due(k)'
  BY DEF DueInv
<1>1. k \in Calls /\ Due(k)
  BY DEF DueInv, Calls
<1>2. ASSUME NEW p \in Procs, ProcStep(p) PROVE Due(k)'
  BY <1>1, <1>2, DueExecute, DueReceive, DueEmit DEF ProcStep
<1>3. CASE UNCHANGED vars
  <2>1. SameAnswer(k) /\ (Ending(k) => Ending(k)')
    BY <1>1, <1>3, EndingKept DEF SameAnswer, vars, network, process, bounds
  <2> QED
    BY <1>1, <2>1, DueKept
<1> QED
  BY <1>1, <1>2, <1>3, DueCallStep, DuePublish DEF Next

LEMMA EndingAnswers == ASSUME NEW k \in OnceOf, Ending(k) PROVE Answering(k)
<1>1. PICK s \in {sent[Owner(k)], inbox[Owner(k)]} : Holds(s, Enders(k))
  BY DEF Ending, Out, In
<1>2. PICK i \in DOMAIN s : s[i] \in Enders(k)
  BY <1>1 DEF Holds
<1>3. s[i].of = k /\ s[i].op \in {"unsubscribe", "unsubscribeFailed"}
  BY <1>2 DEF Enders, Item
<1> QED
  BY <1>3 DEF Answering

\* The listener of a subscribeOnce or subscribeOnceOf is called once at most,
\* however replies, messages, timers and failures interleave; and none that is
\* owed a call is forgotten: where its timer is cleared it was called, or its
\* UNSUBSCRIBE is on its way, and its reply, good or bad, calls it.
\* (core.js:335)
THEOREM PubSubOneAnswer == Spec => []OneAnswer
<1>1. Init => DueInv
  BY DEF Init, DueInv, Due
<1>2. PubSubInv /\ DueInv => OneAnswer
  <2> SUFFICES ASSUME PubSubInv, DueInv, NEW k \in Once \cup OnceOf
               PROVE  /\ answers[k] <= 1
                      /\ (k \in made \cap Timed \/ k \in spent) /\ answers[k] = 0
                           => k \in timer \/ Answering(k)
    BY DEF OneAnswer
  <2>1. k \in Calls /\ CallInv(k) /\ Due(k)
    BY DEF PubSubInv, DueInv, Calls
  <2> QED
    BY <2>1, EndingAnswers DEF CallInv, Due
<1>3. Spec => []DueInv
  BY <1>1, NextDue, PubSubInvariant, PTL DEF Spec
<1> QED
  BY <1>2, <1>3, PubSubInvariant, PTL

\* A live listener that shares no channel with another call of its process is
\* subscribed at Redis, whatever other processes do.  (core.js:311)
THEOREM PubSubNotDeaf == Spec => []NotDeaf
<1>1. ASSUME PubSubInv PROVE NotDeaf
  <2>1. SUFFICES ASSUME NEW k \in Calls, Private(k), NEW c \in Channels,
                        <<k, c>> \in listening, k \notin spent
                 PROVE  <<Owner(k), c>> \in subs
    BY DEF NotDeaf
  <2>2. Listens(k) /\ Starts(k) /\ c \in Chans(k)
    BY <1>1, <2>1 DEF PubSubInv, CallInv, StartsOnce, Listens, Starts
  <2>3. Subscriptions(k) \subseteq subs
    BY <1>1, <2>1, <2>2 DEF PubSubInv, CallInv, Lives
  <2> QED
    BY <2>2, <2>3 DEF Subscriptions
<1> QED
  BY <1>1, PubSubInvariant, PTL
=============================================================================
