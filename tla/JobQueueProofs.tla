--------------------------- MODULE JobQueueProofs ---------------------------
(* Proofs about JobQueue that hold whether the workers are on time or late, *)
(* whatever fails and whatever an application calls.                       *)
EXTENDS JobQueue, FiniteSetTheorems, TLAPS

----------------------------------------------------------------------------
(* What the Redis list commands of JobQueue do to the ids in a list.       *)

LEMMA IdsAppend ==
  ASSUME NEW S, NEW s \in Seq(S), NEW j \in S
  PROVE  Append(s, j) \in Seq(S) /\ Ids(Append(s, j)) = Ids(s) \cup {j}
<1> DEFINE a == Append(s, j)
<1>1. a \in Seq(S) /\ Len(a) = Len(s) + 1
  OBVIOUS
<1>2. DOMAIN a = 1 .. Len(s) + 1 /\ DOMAIN s = 1 .. Len(s) /\ Len(s) \in Nat
  BY <1>1
<1>3. a[Len(s) + 1] = j /\ \A i \in 1 .. Len(s) : a[i] = s[i]
  OBVIOUS
<1> HIDE DEF a
<1>4. ASSUME NEW x PROVE x \in Ids(a) <=> x \in Ids(s) \cup {j}
  <2>1. ASSUME x \in Ids(a) PROVE x \in Ids(s) \cup {j}
    <3>1. PICK i \in DOMAIN a : x = a[i]
      BY <2>1 DEF Ids
    <3>2. i = Len(s) + 1 \/ i \in DOMAIN s
      BY <1>2
    <3> QED
      BY <1>2, <1>3, <3>1, <3>2 DEF Ids
  <2>2. ASSUME x \in Ids(s) \cup {j} PROVE x \in Ids(a)
    <3>1. CASE x = j
      BY <1>2, <1>3, <3>1 DEF Ids
    <3>2. CASE x \in Ids(s)
      BY <1>2, <1>3, <3>2 DEF Ids
    <3> QED
      BY <2>2, <3>1, <3>2
  <2> QED
    BY <2>1, <2>2
<1> QED
  BY <1>1, <1>4 DEF a

LEMMA IdsHeadTail ==
  ASSUME NEW S, NEW s \in Seq(S), s # <<>>
  PROVE  /\ Tail(s) \in Seq(S) /\ Head(s) \in S
         /\ Ids(s) = Ids(Tail(s)) \cup {Head(s)}
<1> DEFINE t == Tail(s)
<1>1. t \in Seq(S) /\ Len(t) = Len(s) - 1 /\ Len(s) \in Nat \ {0}
  OBVIOUS
<1>2. DOMAIN t = 1 .. Len(s) - 1 /\ DOMAIN s = 1 .. Len(s)
  BY <1>1
<1>3. s[1] = Head(s) /\ \A i \in 1 .. Len(s) - 1 : t[i] = s[i + 1]
  OBVIOUS
<1>4. Head(s) \in S
  OBVIOUS
<1> HIDE DEF t
<1>5. ASSUME NEW x PROVE x \in Ids(s) <=> x \in Ids(t) \cup {Head(s)}
  <2>1. ASSUME x \in Ids(s) PROVE x \in Ids(t) \cup {Head(s)}
    <3>1. PICK i \in 1 .. Len(s) : x = s[i]
      BY <1>2, <2>1 DEF Ids
    <3>2. CASE i = 1
      BY <1>3, <3>1, <3>2
    <3>3. CASE i # 1
      <4>1. i - 1 \in DOMAIN t /\ t[i - 1] = s[i]
        BY <1>1, <1>2, <1>3, <3>3
      <4> QED
        BY <3>1, <4>1 DEF Ids
    <3> QED
      BY <3>2, <3>3
  <2>2. ASSUME x \in Ids(t) \cup {Head(s)} PROVE x \in Ids(s)
    <3>1. CASE x = Head(s)
      BY <1>1, <1>2, <1>3, <3>1 DEF Ids
    <3>2. CASE x \in Ids(t)
      <4>1. PICK i \in 1 .. Len(s) - 1 : x = t[i]
        BY <1>2, <3>2 DEF Ids
      <4>2. i + 1 \in DOMAIN s /\ s[i + 1] = x
        BY <1>1, <1>2, <1>3, <4>1
      <4> QED
        BY <4>2 DEF Ids
    <3> QED
      BY <2>2, <3>1, <3>2
  <2> QED
    BY <2>1, <2>2
<1> QED
  BY <1>1, <1>4, <1>5 DEF t

LEMMA IdsConcat ==
  ASSUME NEW S, NEW s \in Seq(S), NEW t \in Seq(S)
  PROVE  s \o t \in Seq(S) /\ Ids(s \o t) = Ids(s) \cup Ids(t)
<1> DEFINE c == s \o t
<1>1. c \in Seq(S) /\ Len(c) = Len(s) + Len(t) /\ Len(s) \in Nat /\ Len(t) \in Nat
  OBVIOUS
<1>2. DOMAIN c = 1 .. Len(s) + Len(t) /\ DOMAIN s = 1 .. Len(s) /\ DOMAIN t = 1 .. Len(t)
  BY <1>1
<1>3. /\ \A i \in 1 .. Len(s) : c[i] = s[i]
      /\ \A i \in 1 .. Len(t) : c[Len(s) + i] = t[i]
  BY <1>1
<1> HIDE DEF c
<1>4. ASSUME NEW x PROVE x \in Ids(c) <=> x \in Ids(s) \cup Ids(t)
  <2>1. ASSUME x \in Ids(c) PROVE x \in Ids(s) \cup Ids(t)
    <3>1. PICK i \in 1 .. Len(s) + Len(t) : x = c[i]
      BY <1>2, <2>1 DEF Ids
    <3>2. CASE i <= Len(s)
      BY <1>1, <1>2, <1>3, <3>1, <3>2 DEF Ids
    <3>3. CASE i > Len(s)
      <4>1. i - Len(s) \in 1 .. Len(t) /\ i = Len(s) + (i - Len(s))
        BY <1>1, <3>3
      <4>2. t[i - Len(s)] = x
        BY <1>3, <3>1, <4>1
      <4> QED
        BY <1>2, <4>1, <4>2 DEF Ids
    <3> QED
      BY <1>1, <3>2, <3>3
  <2>2. ASSUME x \in Ids(s) PROVE x \in Ids(c)
    BY <1>1, <1>2, <1>3, <2>2 DEF Ids
  <2>3. ASSUME x \in Ids(t) PROVE x \in Ids(c)
    <3>1. PICK i \in 1 .. Len(t) : x = t[i]
      BY <1>2, <2>3 DEF Ids
    <3>2. Len(s) + i \in DOMAIN c /\ c[Len(s) + i] = x
      BY <1>1, <1>2, <1>3, <3>1
    <3> QED
      BY <3>2 DEF Ids
  <2> QED
    BY <2>1, <2>2, <2>3
<1> QED
  BY <1>1, <1>4 DEF c

LEMMA OrdersAreLists ==
  ASSUME NEW S, S \subseteq Jobs, NEW p \in Orders(S)
  PROVE  p \in Seq(Jobs) /\ Ids(p) = S
<1>1. IsFiniteSet(S)
  BY JobsAssumption, FS_Subset
<1>2. Cardinality(S) \in Nat
  BY <1>1, FS_CardinalityType
<1> QED
  BY <1>2 DEF Orders

----------------------------------------------------------------------------
\* Positions of a list are ranked without gaps and without ties.
LEMMA Ranks ==
  ASSUME NEW n \in Nat, NEW K, K \subseteq 1 .. n
  PROVE  /\ Cardinality(K) \in Nat
         /\ \A i \in K : Cardinality(K \cap (1 .. i)) \in 1 .. Cardinality(K)
         /\ \A m \in 1 .. Cardinality(K) : \E i \in K : Cardinality(K \cap (1 .. i)) = m
         /\ \A i, k \in K : Cardinality(K \cap (1 .. i)) = Cardinality(K \cap (1 .. k)) => i = k
<1> DEFINE rank(i) == Cardinality(K \cap (1 .. i))
           f == [i \in K |-> rank(i)]
<1>1. IsFiniteSet(K) /\ Cardinality(K) \in Nat
  <2>1. IsFiniteSet(1 .. n) /\ K \in SUBSET (1 .. n)
    BY FS_Interval
  <2>2. IsFiniteSet(K)
    BY <2>1, FS_Subset
  <2> QED
    BY <2>2, FS_CardinalityType
<1>2. ASSUME NEW i \in K
      PROVE  IsFiniteSet(K \cap (1 .. i)) /\ rank(i) \in 1 .. Cardinality(K)
  <2>1. IsFiniteSet(K \cap (1 .. i))
    BY <1>1, FS_Subset
  <2>2. rank(i) \in Nat /\ rank(i) <= Cardinality(K)
    BY <1>1, <2>1, FS_Subset, FS_CardinalityType
  <2>3. i \in K \cap (1 .. i)
    OBVIOUS
  <2>4. rank(i) # 0
    BY <2>1, <2>3, FS_EmptySet
  <2> QED
    BY <1>1, <2>1, <2>2, <2>4
<1>3. ASSUME NEW i \in K, NEW k \in K, i < k
      PROVE  rank(i) # rank(k)
  <2>1. IsFiniteSet(K \cap (1 .. k))
    BY <1>2
  <2>2. K \cap (1 .. i) \subseteq K \cap (1 .. k)
    BY <1>3
  <2>3. k \in K \cap (1 .. k) /\ k \notin K \cap (1 .. i)
    BY <1>3
  <2>4. K \cap (1 .. i) # K \cap (1 .. k)
    BY <2>3
  <2> QED
    BY <2>1, <2>2, <2>4, FS_Subset
<1>4. f \in Injection(K, 1 .. Cardinality(K))
  <2>1. f \in [K -> 1 .. Cardinality(K)]
    BY <1>2
  <2>2. \A i, k \in K : f[i] = f[k] => i = k
    BY <1>3
  <2> QED
    BY <2>1, <2>2 DEF Injection, IsInjective
<1>5. IsFiniteSet(1 .. Cardinality(K)) /\ Cardinality(1 .. Cardinality(K)) = Cardinality(K)
  BY <1>1, FS_Interval
<1>6. f \in Surjection(K, 1 .. Cardinality(K))
  BY <1>1, <1>4, <1>5, FS_Injection
<1>7. \A i, k \in K : rank(i) = rank(k) => i = k
  BY <1>3
<1> QED
  BY <1>1, <1>2, <1>6, <1>7 DEF Surjection

\* LREM drops j and keeps every other id.
LEMMA IdsLREM ==
  ASSUME NEW S, NEW s \in Seq(S), NEW j
  PROVE  LREM(s, j) \in Seq(S) /\ Ids(LREM(s, j)) = Ids(s) \ {j}
<1> DEFINE K == Kept(s, j)
           c == Cardinality(K)
           pos(m) == CHOOSE i \in K : Cardinality(K \cap (1 .. i)) = m
           t == LREM(s, j)
<1>1. Len(s) \in Nat /\ DOMAIN s = 1 .. Len(s) /\ \A i \in 1 .. Len(s) : s[i] \in S
  OBVIOUS
<1>2. K \subseteq 1 .. Len(s)
  BY <1>1 DEF Kept
<1>3. /\ c \in Nat
      /\ \A i \in K : Cardinality(K \cap (1 .. i)) \in 1 .. c
      /\ \A m \in 1 .. c : \E i \in K : Cardinality(K \cap (1 .. i)) = m
      /\ \A i, k \in K : Cardinality(K \cap (1 .. i)) = Cardinality(K \cap (1 .. k)) => i = k
  <2> HIDE DEF K
  <2> QED
    BY <1>1, <1>2, Ranks
<1>4. ASSUME NEW m \in 1 .. c
      PROVE  pos(m) \in K /\ Cardinality(K \cap (1 .. pos(m))) = m
  <2> HIDE DEF K, c
  <2> QED
    BY <1>3
<1>6. t = [m \in 1 .. c |-> s[pos(m)]]
  BY DEF LREM
<1>7. ASSUME NEW m \in 1 .. c PROVE s[pos(m)] \in S /\ s[pos(m)] # j /\ s[pos(m)] \in Ids(s)
  <2>1. pos(m) \in K
    BY <1>4
  <2> QED
    BY <1>1, <2>1 DEF Kept, Ids
<1>9. ASSUME NEW i \in K PROVE pos(Cardinality(K \cap (1 .. i))) = i
  <2> DEFINE m == Cardinality(K \cap (1 .. i))
  <2>1. m \in 1 .. c
    BY <1>3
  <2>2. pos(m) \in K /\ Cardinality(K \cap (1 .. pos(m))) = m
    BY <1>4, <2>1
  <2> HIDE DEF K, c, pos
  <2> QED
    BY <1>3, <2>2
<1>10. t \in Seq(S)
  <2> HIDE DEF c, pos, t
  <2> QED
    BY <1>3, <1>6, <1>7
<1>11. DOMAIN t = 1 .. c /\ \A m \in 1 .. c : t[m] = s[pos(m)]
  BY <1>6
<1>12. ASSUME NEW x \in Ids(t) PROVE x \in Ids(s) \ {j}
  <2> HIDE DEF c, pos, t
  <2> QED
    BY <1>7, <1>11 DEF Ids
<1>13. ASSUME NEW x \in Ids(s) \ {j} PROVE x \in Ids(t)
  <2>1. PICK i \in K : x = s[i]
    BY DEF Ids, Kept
  <2> DEFINE m == Cardinality(K \cap (1 .. i))
  <2>2. m \in 1 .. c
    BY <1>3
  <2>3. pos(m) = i
    BY <1>9
  <2>4. t[m] = x
    BY <1>11, <2>1, <2>2, <2>3
  <2> HIDE DEF m, c, pos, t
  <2> QED
    BY <1>11, <2>2, <2>4 DEF Ids
<1> QED
  BY <1>10, <1>12, <1>13

----------------------------------------------------------------------------
(* A list without repetitions stays one.                                   *)

NoDup(s) == \A i, k \in DOMAIN s : s[i] = s[k] => i = k

LEMMA NoDupAppend ==
  ASSUME NEW S, NEW s \in Seq(S), NEW j \in S, NoDup(s), j \notin Ids(s)
  PROVE  NoDup(Append(s, j))
<1> DEFINE a == Append(s, j)
<1>1. DOMAIN a = 1 .. Len(s) + 1 /\ DOMAIN s = 1 .. Len(s) /\ Len(s) \in Nat
  OBVIOUS
<1>2. a[Len(s) + 1] = j /\ \A i \in 1 .. Len(s) : a[i] = s[i]
  OBVIOUS
<1>3. \A i \in 1 .. Len(s) : s[i] # j
  BY <1>1 DEF Ids
<1> HIDE DEF a
<1>4. SUFFICES ASSUME NEW i \in DOMAIN a, NEW k \in DOMAIN a, a[i] = a[k] PROVE i = k
  BY DEF NoDup, a
<1>5. CASE i \in DOMAIN s /\ k \in DOMAIN s
  BY <1>1, <1>2, <1>4, <1>5 DEF NoDup
<1>6. CASE i = Len(s) + 1 /\ k \in DOMAIN s
  BY <1>1, <1>2, <1>3, <1>4, <1>6
<1>7. CASE i \in DOMAIN s /\ k = Len(s) + 1
  BY <1>1, <1>2, <1>3, <1>4, <1>7
<1> QED
  BY <1>1, <1>5, <1>6, <1>7

LEMMA NoDupTail ==
  ASSUME NEW S, NEW s \in Seq(S), s # <<>>, NoDup(s)
  PROVE  NoDup(Tail(s)) /\ Head(s) \notin Ids(Tail(s))
<1> DEFINE t == Tail(s)
<1>1. /\ Len(s) \in Nat \ {0}
      /\ DOMAIN t = 1 .. Len(s) - 1 /\ DOMAIN s = 1 .. Len(s)
  OBVIOUS
<1>2. s[1] = Head(s) /\ \A i \in 1 .. Len(s) - 1 : t[i] = s[i + 1]
  OBVIOUS
<1> HIDE DEF t
<1>3. ASSUME NEW i \in DOMAIN t PROVE t[i] # Head(s)
  <2>1. i + 1 \in DOMAIN s /\ 1 \in DOMAIN s /\ i + 1 # 1 /\ t[i] = s[i + 1]
    BY <1>1, <1>2
  <2> QED
    BY <1>2, <2>1 DEF NoDup
<1>4. ASSUME NEW i \in DOMAIN t, NEW k \in DOMAIN t, t[i] = t[k] PROVE i = k
  <2>1. i + 1 \in DOMAIN s /\ k + 1 \in DOMAIN s /\ s[i + 1] = s[k + 1]
    BY <1>1, <1>2, <1>4
  <2>2. i + 1 = k + 1
    BY <2>1 DEF NoDup
  <2> QED
    BY <1>1, <2>2
<1> QED
  BY <1>3, <1>4 DEF NoDup, Ids, t

LEMMA NoDupConcat ==
  ASSUME NEW S, NEW s \in Seq(S), NEW t \in Seq(S),
         NoDup(s), NoDup(t), Ids(s) \cap Ids(t) = {}
  PROVE  NoDup(s \o t)
<1> DEFINE c == s \o t
<1>1. Len(s) \in Nat /\ Len(t) \in Nat
  OBVIOUS
<1>2. DOMAIN c = 1 .. Len(s) + Len(t) /\ DOMAIN s = 1 .. Len(s) /\ DOMAIN t = 1 .. Len(t)
  OBVIOUS
<1>3. \A i \in DOMAIN c : c[i] = IF i <= Len(s) THEN s[i] ELSE t[i - Len(s)]
  OBVIOUS
<1> HIDE DEF c
<1>4. \A i \in DOMAIN s, k \in DOMAIN t : s[i] # t[k]
  BY DEF Ids
<1>5. SUFFICES ASSUME NEW i \in DOMAIN c, NEW k \in DOMAIN c, c[i] = c[k] PROVE i = k
  BY DEF NoDup, c
<1>6. CASE i <= Len(s) /\ k <= Len(s)
  <2>1. i \in DOMAIN s /\ k \in DOMAIN s /\ s[i] = s[k]
    BY <1>1, <1>2, <1>3, <1>5, <1>6
  <2> QED
    BY <2>1 DEF NoDup
<1>7. CASE i > Len(s) /\ k > Len(s)
  <2>1. i - Len(s) \in DOMAIN t /\ k - Len(s) \in DOMAIN t /\ t[i - Len(s)] = t[k - Len(s)]
    BY <1>1, <1>2, <1>3, <1>5, <1>7
  <2>2. i - Len(s) = k - Len(s)
    BY <2>1 DEF NoDup
  <2> QED
    BY <1>1, <1>2, <2>2
<1>8. CASE i <= Len(s) /\ k > Len(s)
  <2>1. i \in DOMAIN s /\ k - Len(s) \in DOMAIN t /\ s[i] = t[k - Len(s)]
    BY <1>1, <1>2, <1>3, <1>5, <1>8
  <2> QED
    BY <1>4, <2>1
<1>9. CASE i > Len(s) /\ k <= Len(s)
  <2>1. k \in DOMAIN s /\ i - Len(s) \in DOMAIN t /\ s[k] = t[i - Len(s)]
    BY <1>1, <1>2, <1>3, <1>5, <1>9
  <2> QED
    BY <1>4, <2>1
<1> QED
  BY <1>1, <1>2, <1>6, <1>7, <1>8, <1>9

LEMMA NoDupOrders ==
  ASSUME NEW S, S \subseteq Jobs, NEW p \in Orders(S)
  PROVE  NoDup(p)
<1> DEFINE c == Cardinality(S)
<1>1. c \in Nat
  BY JobsAssumption, FS_Subset, FS_CardinalityType
<1>2. p \in [1 .. c -> S] /\ Ids(p) = S
  BY DEF Orders
<1>3. p \in Surjection(1 .. c, S)
  BY <1>2 DEF Surjection, Ids
<1>4. IsFiniteSet(1 .. c) /\ Cardinality(1 .. c) = c
  BY <1>1, FS_Interval
<1>5. p \in Injection(1 .. c, S)
  BY <1>3, <1>4, FS_SurjSameCardinalityImpliesInj
<1> QED
  BY <1>2, <1>5 DEF Injection, IsInjective, NoDup

LEMMA NoDupLREM ==
  ASSUME NEW S, NEW s \in Seq(S), NEW j, NoDup(s)
  PROVE  NoDup(LREM(s, j))
<1> DEFINE K == Kept(s, j)
           c == Cardinality(K)
           pos(m) == CHOOSE i \in K : Cardinality(K \cap (1 .. i)) = m
           t == LREM(s, j)
<1>1. Len(s) \in Nat /\ DOMAIN s = 1 .. Len(s)
  OBVIOUS
<1>2. K \subseteq 1 .. Len(s)
  BY <1>1 DEF Kept
<1>3. /\ c \in Nat
      /\ \A m \in 1 .. c : \E i \in K : Cardinality(K \cap (1 .. i)) = m
  <2> HIDE DEF K
  <2> QED
    BY <1>1, <1>2, Ranks
<1>4. ASSUME NEW m \in 1 .. c
      PROVE  pos(m) \in K /\ Cardinality(K \cap (1 .. pos(m))) = m
  <2> HIDE DEF K, c
  <2> QED
    BY <1>3
<1>5. t = [m \in 1 .. c |-> s[pos(m)]]
  BY DEF LREM
<1>6. DOMAIN t = 1 .. c /\ \A m \in 1 .. c : t[m] = s[pos(m)]
  BY <1>5
<1>7. SUFFICES ASSUME NEW m \in 1 .. c, NEW n \in 1 .. c, s[pos(m)] = s[pos(n)] PROVE m = n
  <2> HIDE DEF c, pos, t
  <2> QED
    BY <1>6 DEF NoDup, t
<1>8. /\ pos(m) \in K /\ Cardinality(K \cap (1 .. pos(m))) = m
      /\ pos(n) \in K /\ Cardinality(K \cap (1 .. pos(n))) = n
  BY <1>4
<1>9. pos(m) = pos(n)
  <2> HIDE DEF K, c, pos
  <2> QED
    BY <1>1, <1>2, <1>7, <1>8 DEF NoDup
<1> HIDE DEF K, c, pos
<1> QED
  BY <1>8, <1>9
----------------------------------------------------------------------------
(* The keys of a queue.                                                    *)

LEMMA HalfIntervalType == HalfInterval \in Nat
  BY TimingAssumption DEF HalfInterval

LEMMA DueType == \A w : Due(w, Latency) \in Nat /\ Due(w, KeepaliveDelay + Latency) \in Nat
  BY HalfIntervalType, TimingAssumption DEF Due, KeepaliveDelay

LEMMA StoredType == \A n \in Nat : Stored(n) \in RetriesLeft
  BY DEF Stored, RetriesLeft

\* What the hash holds is a number, or the sign that there is no entry.
LEMMA NoDataType == NoData \notin RetriesLeft
  BY JobsAssumption DEF NoData, RetriesLeft

\* A run that is not free is the record of an open call.
LEMMA OpenRecord ==
  ASSUME TypeOK, NEW r \in Runs, run[r].phase # "free"
  PROVE  /\ run[r] \in RunRecord /\ run[r].job \in Jobs /\ run[r].worker \in Workers
         /\ run[r].left \in RetriesLeft /\ run[r].due \in Nat
<1>1. run[r] \in RunRecord
  BY DEF TypeOK, NoRun
<1> QED
  BY <1>1 DEF RunRecord

\* A stall check acts or changes nothing.
CheckResets(lag) ==
  /\ stallIn <= -lag
  /\ PutBack(stalling)
  /\ active' = active \ stalling /\ stalling' = active \ stalling
  /\ stallIn' = StallInterval - lag

LEMMA StallCheckCases ==
  ASSUME TypeOK, StallCheck
  PROVE  \/ UNCHANGED <<waiting, active, stalling, stallIn>>
         \/ \E lag \in 0 .. CheckLag : CheckResets(lag)
<1>1. stallIn \in Int
  BY TimingAssumption DEF TypeOK
<1>2. PICK lag \in 0 .. CheckLag :
        IF stallIn > -lag
        THEN UNCHANGED <<waiting, active, stalling, stallIn>>
        ELSE /\ PutBack(stalling)
             /\ active' = active \ stalling
             /\ Suspect(active \ stalling)
             /\ stallIn' = StallInterval - lag
  BY DEF StallCheck
<1>3. CASE stallIn > -lag
  BY <1>2, <1>3
<1>4. CASE ~(stallIn > -lag)
  <2>1. stallIn <= -lag
    BY <1>1, <1>4, TimingAssumption
  <2> QED
    BY <1>2, <1>4, <2>1 DEF CheckResets, Suspect
<1> QED
  BY <1>3, <1>4

\* What a stall check does to the keys it touches.
LEMMA StallCheckEffect ==
  ASSUME TypeOK, StallCheck
  PROVE  /\ waiting' \in Seq(Jobs)
         /\ active' \in SUBSET Jobs /\ stalling' \in SUBSET Jobs
         /\ stallIn' \in -CheckLag .. StallInterval
         /\ Ids(waiting) \cup active \subseteq Ids(waiting') \cup active'
         /\ stalling \subseteq active => stalling' \subseteq active'
<1>1. CASE UNCHANGED <<waiting, active, stalling, stallIn>>
  BY <1>1 DEF TypeOK
<1>2. CASE \E lag \in 0 .. CheckLag : CheckResets(lag)
  <2>0. PICK lag \in 0 .. CheckLag : CheckResets(lag)
    BY <1>2
  <2>1. PICK p \in Orders(stalling) : waiting' = p \o waiting
    BY <2>0 DEF CheckResets, PutBack
  <2>2. p \in Seq(Jobs) /\ Ids(p) = stalling
    BY <2>1, OrdersAreLists DEF TypeOK
  <2>3. waiting' \in Seq(Jobs) /\ Ids(waiting') = stalling \cup Ids(waiting)
    BY <2>1, <2>2, IdsConcat DEF TypeOK
  <2>4. active' = active \ stalling /\ stalling' = active \ stalling
    BY <2>0 DEF CheckResets
  <2>5. stallIn' \in -CheckLag .. StallInterval
    <3>1. stallIn' = StallInterval - lag
      BY <2>0 DEF CheckResets
    <3>2. lag \in Nat /\ lag <= CheckLag
      BY TimingAssumption
    <3> QED
      BY <3>1, <3>2, TimingAssumption
  <2>6. active \in SUBSET Jobs
    BY DEF TypeOK
  <2> QED
    BY <2>3, <2>4, <2>5, <2>6
<1> QED
  BY <1>1, <1>2, StallCheckCases

----------------------------------------------------------------------------
(* Type correctness.  The variables fall into three groups that the        *)
(* actions change together.                                                *)

RedisOK ==
  /\ waiting \in Seq(Jobs)
  /\ active \in SUBSET Jobs /\ stalling \in SUBSET Jobs
  /\ succeeded \in SUBSET Jobs /\ failed \in SUBSET Jobs
  /\ jobs \in [Jobs -> RetriesLeft \cup {NoData}]
  /\ stallIn \in -CheckLag .. StallInterval

WorkersOK ==
  /\ up \in SUBSET Workers /\ periodic \in SUBSET up
  /\ run \in [Runs -> RunRecord \cup {NoRun}]

HistoryOK ==
  /\ minted \in SUBSET (Jobs \ Unique)
  /\ owed \in [Jobs -> Nat]
  /\ faults \in 0 .. MaxFaults

LEMMA TypeGroups == TypeOK <=> RedisOK /\ WorkersOK /\ HistoryOK
  BY DEF TypeOK, RedisOK, WorkersOK, HistoryOK

LEMMA InitTypeOK == Init => TypeOK
<1> SUFFICES ASSUME Init PROVE TypeOK
  OBVIOUS
<1>1. RedisOK
  BY TimingAssumption DEF Init, RedisOK, NoData
<1>2. WorkersOK
  BY DEF Init, WorkersOK
<1>3. HistoryOK
  BY JobsAssumption DEF Init, HistoryOK
<1> QED
  BY <1>1, <1>2, <1>3, TypeGroups

LEMMA FaultType ==
  ASSUME TypeOK, NEW f, Fault(f)
  PROVE  faults' \in 0 .. MaxFaults
  BY JobsAssumption DEF TypeOK, Fault

\* Changing fields of an open call leaves the record of an open call.
LEMMA PhaseUpdate ==
  ASSUME TypeOK, NEW r \in Runs, run[r].phase # "free",
         NEW p \in Phases \ {"free"}
  PROVE  [run EXCEPT ![r].phase = p] \in [Runs -> RunRecord \cup {NoRun}]
<1>1. run[r] \in RunRecord /\ run \in [Runs -> RunRecord \cup {NoRun}]
  BY OpenRecord DEF TypeOK
<1> QED
  BY <1>1 DEF RunRecord

LEMMA DueUpdate ==
  ASSUME TypeOK, NEW r \in Runs, run[r].phase # "free",
         NEW d \in Nat
  PROVE  [run EXCEPT ![r].due = d] \in [Runs -> RunRecord \cup {NoRun}]
<1>1. run[r] \in RunRecord /\ run \in [Runs -> RunRecord \cup {NoRun}]
  BY OpenRecord DEF TypeOK
<1> QED
  BY <1>1 DEF RunRecord

LEMMA PhaseDueUpdate ==
  ASSUME TypeOK, NEW r \in Runs, run[r].phase # "free",
         NEW p \in Phases \ {"free"}, NEW d \in Nat
  PROVE  [run EXCEPT ![r].phase = p, ![r].due = d] \in [Runs -> RunRecord \cup {NoRun}]
<1>1. run[r] \in RunRecord /\ run \in [Runs -> RunRecord \cup {NoRun}]
  BY OpenRecord DEF TypeOK
<1> QED
  BY <1>1 DEF RunRecord

LEMMA FetchUpdate ==
  ASSUME TypeOK, NEW r \in Runs, run[r].phase # "free",
         NEW p \in Phases \ {"free"}, NEW l \in RetriesLeft, NEW d \in Nat
  PROVE  [run EXCEPT ![r].phase = p, ![r].left = l, ![r].due = d] \in [Runs -> RunRecord \cup {NoRun}]
<1>1. run[r] \in RunRecord /\ run \in [Runs -> RunRecord \cup {NoRun}]
  BY OpenRecord DEF TypeOK
<1> QED
  BY <1>1 DEF RunRecord

LEMMA DieType ==
  ASSUME TypeOK, NEW w \in Workers, Die(w)
  PROVE  WorkersOK'
  BY DEF TypeOK, Die, WorkersOK

LEMMA NextTypeOK == TypeOK /\ [Next]_vars => TypeOK'
<1> SUFFICES ASSUME TypeOK, [Next]_vars PROVE RedisOK' /\ WorkersOK' /\ HistoryOK'
  BY TypeGroups DEF TypeOK, RedisOK, WorkersOK, HistoryOK
<1> USE DEF redis, sets, workers, history, Leave, CanRetry, NextLeft, Unlist
<1>0. RedisOK /\ WorkersOK /\ HistoryOK
  BY TypeGroups
<1>1. ASSUME NEW w \in Workers, Start(w) PROVE RedisOK' /\ WorkersOK' /\ HistoryOK'
  <2>1. RedisOK'
    BY <1>0, <1>1, StallCheckEffect DEF Start, RedisOK
  <2>2. WorkersOK'
    BY <1>0, <1>1 DEF Start, WorkersOK
  <2>3. faults' \in 0 .. MaxFaults
    BY <1>0, <1>1, FaultType DEF Start, HistoryOK
  <2> QED
    BY <1>0, <1>1, <2>1, <2>2, <2>3 DEF Start, HistoryOK
<1>2. ASSUME NEW w \in Workers, CheckStalledJobs(w) PROVE RedisOK' /\ WorkersOK' /\ HistoryOK'
  BY <1>0, <1>2, StallCheckEffect DEF CheckStalledJobs, RedisOK, WorkersOK, HistoryOK
<1>3. ASSUME NEW w \in Workers, CheckStalledJobsError(w)
      PROVE  RedisOK' /\ WorkersOK' /\ HistoryOK'
  BY <1>0, <1>3, FaultType DEF CheckStalledJobsError, RedisOK, WorkersOK, HistoryOK
<1>4. ASSUME NEW w \in Workers, Crash(w) PROVE RedisOK' /\ WorkersOK' /\ HistoryOK'
  BY <1>0, <1>4, FaultType, DieType DEF Crash, RedisOK, HistoryOK
<1>5. ASSUME NEW w \in Workers, NEW r \in Runs, Pop(w, r)
      PROVE  RedisOK' /\ WorkersOK' /\ HistoryOK'
  <2>1. waiting' \in Seq(Jobs) /\ Head(waiting) \in Jobs
    BY <1>0, <1>5, IdsHeadTail DEF Pop, RedisOK
  <2>2. RedisOK'
    BY <1>0, <1>5, <2>1 DEF Pop, RedisOK
  <2>3. [phase |-> "popped", worker |-> w, job |-> Head(waiting), left |-> 0,
         due |-> Due(w, Latency)] \in RunRecord
    BY <2>1, DueType DEF RunRecord, Phases, RetriesLeft
  <2>4. WorkersOK'
    BY <1>0, <1>5, <2>3 DEF Pop, WorkersOK
  <2> QED
    BY <1>0, <1>5, <2>2, <2>4 DEF Pop, HistoryOK
<1>6. ASSUME NEW r \in Runs, Fetch(r) PROVE RedisOK' /\ WorkersOK' /\ HistoryOK'
  <2>1. run[r].phase # "free" /\ jobs[run[r].job] \in RetriesLeft
    BY <1>0, <1>6, OpenRecord DEF Fetch, RedisOK
  <2> DEFINE l == jobs[run[r].job]
             d == Due(run[r].worker, Latency)
  <2>2. PICK p \in Phases \ {"free"} : run' = [run EXCEPT ![r].phase = p, ![r].left = l, ![r].due = d]
    BY <1>6 DEF Fetch, Phases
  <2>3. WorkersOK'
    <3>1. d \in Nat
      BY DueType
    <3> HIDE DEF l, d
    <3>2. run' \in [Runs -> RunRecord \cup {NoRun}]
      BY <2>1, <2>2, <3>1, FetchUpdate DEF l
    <3> QED
      BY <1>0, <1>6, <3>2 DEF Fetch, WorkersOK
  <2> QED
    BY <1>0, <1>6, <2>3 DEF Fetch, RedisOK, HistoryOK
<1>6b. ASSUME NEW r \in Runs, FetchNameless(r) PROVE RedisOK' /\ WorkersOK' /\ HistoryOK'
  BY <1>0, <1>6b DEF FetchNameless, RedisOK, WorkersOK, HistoryOK
<1>7. ASSUME NEW r \in Runs, FetchMissing(r) PROVE RedisOK' /\ WorkersOK' /\ HistoryOK'
  BY <1>0, <1>7, OpenRecord, DieType DEF FetchMissing, RedisOK, HistoryOK
<1>8. ASSUME NEW r \in Runs, FetchError(r) PROVE RedisOK' /\ WorkersOK' /\ HistoryOK'
  BY <1>0, <1>8, FaultType DEF FetchError, RedisOK, WorkersOK, HistoryOK
<1>9. ASSUME NEW r \in Runs, PreventStalling(r) PROVE RedisOK' /\ WorkersOK' /\ HistoryOK'
  <2>1. WorkersOK'
    <3> DEFINE d == Due(run[r].worker, KeepaliveDelay + Latency)
    <3>1. run[r].phase # "free" /\ d \in Nat
      BY <1>9, DueType DEF PreventStalling
    <3>2. run' = [run EXCEPT ![r].due = d] /\ UNCHANGED <<up, periodic>>
      BY <1>9 DEF PreventStalling
    <3> HIDE DEF d
    <3>3. run' \in [Runs -> RunRecord \cup {NoRun}]
      BY <3>1, <3>2, DueUpdate
    <3> QED
      BY <1>0, <3>2, <3>3 DEF WorkersOK
  <2> QED
    BY <1>0, <1>9, <2>1 DEF PreventStalling, RedisOK, HistoryOK
<1>10. ASSUME NEW r \in Runs, Settle(r) \/ Timeout(r) PROVE RedisOK' /\ WorkersOK' /\ HistoryOK'
  <2>1. run[r].phase # "free" /\ (Finish(r, "succeeding") \/ Finish(r, "failing"))
    BY <1>10 DEF Settle, Timeout
  <2>2. run' \in [Runs -> RunRecord \cup {NoRun}]
    <3>1. "succeeding" \in Phases \ {"free"} /\ "failing" \in Phases \ {"free"}
      BY DEF Phases
    <3> DEFINE d == Due(run[r].worker, Latency)
    <3>2. PICK p \in Phases \ {"free"} : run' = [run EXCEPT ![r].phase = p, ![r].due = d]
      BY <2>1, <3>1 DEF Finish
    <3>3. d \in Nat
      BY DueType
    <3> HIDE DEF d
    <3> QED
      BY <2>1, <3>2, <3>3, PhaseDueUpdate
  <2> QED
    BY <1>0, <1>10, <2>2 DEF Settle, Timeout, RedisOK, WorkersOK, HistoryOK
<1>11. ASSUME NEW r \in Runs, RejectNothing(r) PROVE RedisOK' /\ WorkersOK' /\ HistoryOK'
  BY <1>0, <1>11 DEF RejectNothing, RedisOK, WorkersOK, HistoryOK
<1>12. ASSUME NEW r \in Runs, Throw(r) PROVE RedisOK' /\ WorkersOK' /\ HistoryOK'
  <2>1. run' \in [Runs -> RunRecord \cup {NoRun}]
    <3>1. run[r].phase # "free"
      BY <1>12 DEF Throw
    <3>2. "thrown" \in Phases \ {"free"}
      BY DEF Phases
    <3> QED
      BY <1>12, <3>1, <3>2, PhaseUpdate DEF Throw
  <2> QED
    BY <1>0, <1>12, <2>1 DEF Throw, RedisOK, WorkersOK, HistoryOK
<1>13. ASSUME NEW r \in Runs, FinishSingleJob(r) PROVE RedisOK' /\ WorkersOK' /\ HistoryOK'
  <2> DEFINE j == run[r].job
  <2>1. j \in Jobs /\ run[r].left \in RetriesLeft
    BY <1>13, OpenRecord DEF FinishSingleJob, FinishSucceeded, FinishRetrying, FinishFailed
  <2>2. /\ active' \in SUBSET Jobs /\ stalling' \in SUBSET Jobs
        /\ stallIn' \in -CheckLag .. StallInterval /\ WorkersOK'
        /\ minted' = minted /\ faults' = faults
    BY <1>0, <1>13 DEF FinishSingleJob, RedisOK, WorkersOK
  <2>3. CASE FinishSucceeded(r)
    BY <1>0, <2>1, <2>2, <2>3 DEF FinishSucceeded, RedisOK, HistoryOK
  <2>4. CASE FinishRetrying(r)
    <3>1. run[r].left - 1 \in RetriesLeft
      BY <2>1, <2>4 DEF FinishRetrying, RetriesLeft
    <3>2. waiting' \in Seq(Jobs)
      BY <1>0, <2>1, <2>4, IdsAppend DEF FinishRetrying, RedisOK
    <3>3. owed' \in [Jobs -> Nat]
      <4>1. owed[j] \in Nat
        BY <1>0, <2>1 DEF HistoryOK
      <4>2. (IF owed[j] > 0 THEN owed[j] - 1 ELSE 0) \in Nat
        BY <4>1
      <4> QED
        BY <1>0, <2>1, <2>4, <4>2 DEF FinishRetrying, HistoryOK
    <3> QED
      BY <1>0, <2>1, <2>2, <2>4, <3>1, <3>2, <3>3 DEF FinishRetrying, RedisOK, HistoryOK
  <2>5. CASE FinishFailed(r)
    BY <1>0, <2>1, <2>2, <2>5 DEF FinishFailed, RedisOK, HistoryOK
  <2> QED
    BY <1>13, <2>3, <2>4, <2>5 DEF FinishSingleJob
<1>14. ASSUME NEW r \in Runs, FinishError(r) PROVE RedisOK' /\ WorkersOK' /\ HistoryOK'
  BY <1>0, <1>14, FaultType DEF FinishError, RedisOK, WorkersOK, HistoryOK
<1>15. ASSUME NEW j \in Jobs, NEW n \in Retries, AddJob(j, n)
       PROVE  RedisOK' /\ WorkersOK' /\ HistoryOK'
  <2>1. n \in Nat /\ Stored(n) \in RetriesLeft
    BY JobsAssumption, StoredType
  <2>2. waiting' \in Seq(Jobs)
    BY <1>0, <1>15, IdsAppend DEF AddJob, RedisOK
  <2>3. minted' \in SUBSET (Jobs \ Unique)
    BY <1>0, <1>15 DEF AddJob, HistoryOK
  <2> QED
    BY <1>0, <1>15, <2>1, <2>2, <2>3 DEF AddJob, RedisOK, WorkersOK, HistoryOK
<1>16. ASSUME NEW j \in Jobs, Retry(j) PROVE RedisOK' /\ WorkersOK' /\ HistoryOK'
  BY <1>0, <1>16, IdsAppend DEF Retry, RedisOK, WorkersOK, HistoryOK
<1>17. ASSUME NEW j \in Jobs, Remove(j) PROVE RedisOK' /\ WorkersOK' /\ HistoryOK'
  BY <1>0, <1>17, IdsLREM DEF Remove, RedisOK, WorkersOK, HistoryOK
<1>18. CASE Destroy
  BY <1>0, <1>18, TimingAssumption DEF Destroy, RedisOK, WorkersOK, HistoryOK
<1>19. CASE Tick
  <2>1. ASSUME NEW r \in Runs
        PROVE  run'[r] \in RunRecord \cup {NoRun}
    <3>1. CASE run[r].due > 0
      <4>1. run[r].phase # "free"
        BY <1>0, <3>1 DEF WorkersOK, NoRun, RunRecord
      <4>2. run[r].due - 1 \in Nat
        BY <3>1, <4>1, OpenRecord
      <4>3. run'[r] = [run[r] EXCEPT !.due = @ - 1]
        BY <1>19, <3>1 DEF Tick
      <4> QED
        BY <4>1, <4>2, <4>3, OpenRecord DEF RunRecord
    <3>2. CASE ~(run[r].due > 0)
      BY <1>0, <1>19, <3>2 DEF Tick, WorkersOK
    <3> QED
      BY <3>1, <3>2
  <2>2. WorkersOK'
    BY <1>0, <1>19, <2>1 DEF Tick, WorkersOK
  <2> QED
    BY <1>0, <1>19, <2>2, TimingAssumption DEF Tick, RedisOK, HistoryOK
<1>20. CASE UNCHANGED vars
  BY <1>0, <1>20 DEF vars, RedisOK, WorkersOK, HistoryOK
<1> QED
  BY <1>1, <1>2, <1>3, <1>4, <1>5, <1>6, <1>6b, <1>7, <1>8, <1>9, <1>10, <1>11, <1>12, <1>13,
     <1>14, <1>15, <1>16, <1>17, <1>18, <1>19, <1>20
  DEF Next, WorkerStep, RunStep, AppStep

\* Every key, every worker and every open call keeps its type, under every
\* interleaving, failure and application call.
THEOREM JobQueueTypeOK == Spec => []TypeOK
  BY InitTypeOK, NextTypeOK, PTL DEF Spec

----------------------------------------------------------------------------
(* Safety of the keys.  Both invariants are inductive beside TypeOK: the    *)
(* steps that take an id out of a list put it elsewhere in the same command *)
(* or delete its hash entry with it.                                       *)

Present(j) == j \in Ids(waiting) \cup active \cup succeeded \cup failed

LEMMA InitNoJobLost == Init => NoJobLost
  BY DEF Init, NoJobLost

LEMMA NextNoJobLost == TypeOK /\ NoJobLost /\ [Next]_vars => NoJobLost'
<1> SUFFICES ASSUME TypeOK, NoJobLost, [Next]_vars,
                    NEW j \in Jobs, jobs'[j] # NoData
             PROVE  Present(j)'
  BY DEF NoJobLost, Present
<1> USE DEF redis, sets, workers, history, Leave, Unlist, Present
<1>0. /\ waiting \in Seq(Jobs)
      /\ jobs \in [Jobs -> RetriesLeft \cup {NoData}]
      /\ jobs[j] # NoData => Present(j)
  BY DEF TypeOK, NoJobLost
<1>1. ASSUME UNCHANGED redis PROVE Present(j)'
  BY <1>0, <1>1
<1>2. ASSUME StallCheck, UNCHANGED <<sets, jobs>> PROVE Present(j)'
  BY <1>0, <1>2, StallCheckEffect
<1>3. ASSUME NEW w \in Workers, Start(w) PROVE Present(j)'
  <2>1. CASE StallCheck
    BY <1>2, <1>3, <2>1 DEF Start
  <2>2. CASE UNCHANGED <<waiting, active, stalling, stallIn>>
    BY <1>1, <1>3, <2>2 DEF Start
  <2> QED
    BY <1>3, <2>1, <2>2 DEF Start
<1>4. ASSUME NEW w \in Workers, CheckStalledJobs(w) PROVE Present(j)'
  BY <1>2, <1>4 DEF CheckStalledJobs
<1>5. ASSUME NEW w \in Workers, CheckStalledJobsError(w) \/ Crash(w) PROVE Present(j)'
  BY <1>1, <1>5 DEF CheckStalledJobsError, Crash
<1>6. ASSUME NEW w \in Workers, NEW r \in Runs, Pop(w, r) PROVE Present(j)'
  BY <1>0, <1>6, IdsHeadTail DEF Pop
<1>7. ASSUME NEW r \in Runs,
             Fetch(r) \/ FetchNameless(r) \/ FetchMissing(r) \/ FetchError(r) \/ Settle(r)
               \/ RejectNothing(r) \/ Throw(r) \/ Timeout(r) \/ FinishError(r)
      PROVE  Present(j)'
  BY <1>1, <1>7
  DEF Fetch, FetchNameless, FetchMissing, FetchError, Settle, RejectNothing, Throw, Timeout,
      FinishError
<1>8. ASSUME NEW r \in Runs, PreventStalling(r) PROVE Present(j)'
  BY <1>0, <1>8 DEF PreventStalling
<1>9. ASSUME NEW r \in Runs, FinishSingleJob(r) PROVE Present(j)'
  <2>1. run[r].job \in Jobs
    BY <1>9, OpenRecord DEF FinishSingleJob, FinishSucceeded, FinishRetrying, FinishFailed
  <2>2. active' = active \ {run[r].job}
    BY <1>9 DEF FinishSingleJob
  <2>3. CASE FinishSucceeded(r)
    BY <1>0, <2>1, <2>2, <2>3 DEF FinishSucceeded
  <2>4. CASE FinishRetrying(r)
    BY <1>0, <2>1, <2>2, <2>4, IdsAppend DEF FinishRetrying
  <2>5. CASE FinishFailed(r)
    BY <1>0, <2>1, <2>2, <2>5 DEF FinishFailed
  <2> QED
    BY <1>9, <2>3, <2>4, <2>5 DEF FinishSingleJob
<1>10. ASSUME NEW k \in Jobs, NEW n \in Retries, AddJob(k, n) PROVE Present(j)'
  BY <1>0, <1>10, IdsAppend DEF AddJob
<1>11. ASSUME NEW k \in Jobs, Retry(k) PROVE Present(j)'
  BY <1>0, <1>11, IdsAppend DEF Retry
<1>12. ASSUME NEW k \in Jobs, Remove(k) PROVE Present(j)'
  <2>1. j # k /\ Present(j)
    BY <1>0, <1>12 DEF Remove
  <2>2. Ids(waiting) \ {k} \subseteq Ids(waiting')
    BY <1>0, <1>12, IdsLREM DEF Remove
  <2> QED
    BY <1>12, <2>1, <2>2 DEF Remove
<1>13. CASE Destroy
  BY <1>13 DEF Destroy
<1>14. CASE Tick
  BY <1>0, <1>14 DEF Tick
<1>15. CASE UNCHANGED vars
  BY <1>1, <1>15 DEF vars
<1> QED
  BY <1>3, <1>4, <1>5, <1>6, <1>7, <1>8, <1>9, <1>10, <1>11, <1>12, <1>13, <1>14, <1>15
  DEF Next, WorkerStep, RunStep, AppStep

\* No interleaving of workers, checks, crashes and calls strands a stored job.
THEOREM JobQueueNoJobLost == Spec => []NoJobLost
  BY InitTypeOK, NextTypeOK, InitNoJobLost, NextNoJobLost, PTL DEF Spec

LEMMA InitStalling == Init => StallingAreActive
  BY DEF Init, StallingAreActive

LEMMA NextStalling == TypeOK /\ StallingAreActive /\ [Next]_vars => StallingAreActive'
<1> SUFFICES ASSUME TypeOK, StallingAreActive, [Next]_vars PROVE StallingAreActive'
  OBVIOUS
<1> USE DEF redis, sets, workers, history, Leave, Unlist, StallingAreActive
<1>1. ASSUME UNCHANGED <<active, stalling>> PROVE StallingAreActive'
  BY <1>1
<1>2. ASSUME StallCheck PROVE StallingAreActive'
  BY <1>2, StallCheckEffect
<1>3. ASSUME NEW w \in Workers, WorkerStep(w) PROVE StallingAreActive'
  <2>1. CASE Start(w) \/ CheckStalledJobs(w)
    BY <1>1, <1>2, <2>1 DEF Start, CheckStalledJobs
  <2>2. CASE CheckStalledJobsError(w) \/ Crash(w)
    BY <2>2 DEF CheckStalledJobsError, Crash
  <2>3. ASSUME NEW r \in Runs, Pop(w, r) PROVE StallingAreActive'
    BY <2>3 DEF Pop
  <2> QED
    BY <1>3, <2>1, <2>2, <2>3 DEF WorkerStep
<1>4. ASSUME NEW r \in Runs, RunStep(r) PROVE StallingAreActive'
  <2>1. CASE FinishSingleJob(r) \/ PreventStalling(r)
    BY <2>1 DEF FinishSingleJob, PreventStalling
  <2>2. CASE UNCHANGED redis
    BY <2>2
  <2> QED
    BY <1>4, <2>1, <2>2
    DEF RunStep, Fetch, FetchNameless, FetchMissing, FetchError, Settle, RejectNothing, Throw,
        Timeout, FinishError
<1>5. CASE AppStep
  BY <1>5 DEF AppStep, AddJob, Retry, Remove, Destroy
<1>6. CASE Tick \/ UNCHANGED vars
  BY <1>6 DEF Tick, vars
<1> QED
  BY <1>3, <1>4, <1>5, <1>6 DEF Next

\* The stall check can only ever reset a job that is in active: it never
\* revives one that has been finished, removed or destroyed.
THEOREM JobQueueStallingAreActive == Spec => []StallingAreActive
  BY InitTypeOK, NextTypeOK, InitStalling, NextStalling, PTL DEF Spec
=============================================================================
