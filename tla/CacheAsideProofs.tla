-------------------------- MODULE CacheAsideProofs --------------------------
(* Proofs about CacheAside, for any processes, any number of versions and  *)
(* of failures of any kind, with a replica or without one.                 *)
EXTENDS CacheAside, TLAPS

\* Is p's call on its way to a SET of the key that del deletes?
Fills(p) == KeyOf(p) = WaterlineKey /\ ~call[p].skip

\* A SET has a value to set; what a DEL was to get rid of is older than the
\* data, and nobody who fills the cache has it in hand.
InFlight ==
  /\ \A p \in Procs : call[p].phase = "setting" => call[p].val # Nothing
  /\ purged \subseteq 1 .. source - 1
  /\ \A p \in Procs : Fills(p) => call[p].val \notin purged

CacheInv == TypeOK /\ StaleOnlyByRace /\ InFlight

----------------------------------------------------------------------------
(* Calls.                                                                  *)

LEMMA FaultType == \A f : faults \in 0 .. MaxFaults /\ Fault(f) => faults' \in 0 .. MaxFaults
  BY CacheAssumption DEF Fault

LEMMA ReadServerType == ReadServer \in Servers
  BY DEF ReadServer, Servers

LEMMA IdleType == Idle \in CallRecord /\ Idle.val = Nothing /\ Idle.phase = "idle"
  BY DEF Idle, CallRecord, Servers

\* Nothing is no version, so it is in no set of versions to be rid of.
LEMMA NothingIsNotPurged == CacheInv => Nothing \notin purged
  BY CacheAssumption DEF CacheInv, InFlight, TypeOK, Versions, Nothing

\* A step of process p that touches its call only, and whose new call is
\* sound, keeps the invariant.
LEMMA CallInv ==
  ASSUME CacheInv, NEW p \in Procs, NEW r \in CallRecord,
         call' = [call EXCEPT ![p] = r],
         r.phase = "setting" => ~r.skip /\ r.val # Nothing,
         KeyOf(p) = WaterlineKey /\ ~r.skip => r.val \notin purged,
         enabled' \in [Procs -> BOOLEAN], faults' \in 0 .. MaxFaults,
         UNCHANGED <<source, redis, fixed>>
  PROVE  CacheInv'
<1>1. call' \in [Procs -> CallRecord]
  BY DEF CacheInv, TypeOK
<1>2. UNCHANGED <<source, store, ready, kind, purged>>
  BY DEF redis, fixed
<1>3. TypeOK'
  <2>1. \A q \in Procs : call'[q].phase = "setting" => ~call'[q].skip
    BY DEF CacheInv, TypeOK
  <2> QED
    BY <1>1, <1>2, <2>1 DEF CacheInv, TypeOK
<1>4. InFlight'
  <2>1. \A q \in Procs : call'[q].phase = "setting" => call'[q].val # Nothing
    BY DEF CacheInv, TypeOK, InFlight
  <2>2. \A q \in Procs : Fills(q)' => call'[q].val \notin purged
    <3> SUFFICES ASSUME NEW q \in Procs, Fills(q)' PROVE call'[q].val \notin purged
      OBVIOUS
    <3>1. KeyOf(q) = WaterlineKey /\ ~call'[q].skip
      BY <1>2 DEF Fills, KeyOf, WaterlineKey
    <3>2. CASE q = p
      BY <3>1, <3>2 DEF CacheInv, TypeOK
    <3>3. CASE q # p
      BY <3>1, <3>3 DEF CacheInv, TypeOK, InFlight, Fills
    <3> QED
      BY <3>2, <3>3
  <2> QED
    BY <1>2, <2>1, <2>2 DEF CacheInv, InFlight
<1>5. StaleOnlyByRace'
  BY <1>2 DEF CacheInv, StaleOnlyByRace, WaterlineKey
<1> QED
  BY <1>3, <1>4, <1>5 DEF CacheInv

\* The same where the call is over.
LEMMA IdleInv ==
  ASSUME CacheInv, NEW p \in Procs, call' = [call EXCEPT ![p] = Idle],
         enabled' \in [Procs -> BOOLEAN], faults' \in 0 .. MaxFaults,
         UNCHANGED <<source, redis, fixed>>
  PROVE  CacheInv'
<1>1. Idle.phase # "setting" /\ Idle.val \notin purged /\ Idle \in CallRecord
  BY IdleType, NothingIsNotPurged
<1> QED
  BY <1>1, CallInv

\* A step that leaves calls, keys of calls and history alone.
LEMMA EntriesInv ==
  ASSUME CacheInv, store' \in [Servers -> [Keys -> Entry]], ready' \in SUBSET Servers,
         store'["master"][WaterlineKey].val \notin purged,
         source' \in Versions, source' >= source,
         enabled' \in [Procs -> BOOLEAN], faults' \in 0 .. MaxFaults,
         UNCHANGED <<call, fixed>>
  PROVE  CacheInv'
<1>1. UNCHANGED <<kind, purged, call>>
  BY DEF fixed
<1>2. TypeOK'
  BY <1>1 DEF CacheInv, TypeOK
<1>3. StaleOnlyByRace'
  BY <1>1 DEF StaleOnlyByRace, WaterlineKey
<1>4. \A p \in Procs : Fills(p)' = Fills(p)
  BY <1>1 DEF Fills, KeyOf, WaterlineKey
<1>5. purged' \subseteq 1 .. source' - 1
  <2>1. purged \subseteq 1 .. source - 1 /\ source \in Nat /\ source' \in Nat
    BY CacheAssumption DEF CacheInv, InFlight, TypeOK, Versions
  <2>2. \A a, b \in Nat : b >= a => 1 .. a - 1 \subseteq 1 .. b - 1
    OBVIOUS
  <2> QED
    BY <1>1, <2>1, <2>2
<1>6. InFlight'
  BY <1>1, <1>4, <1>5 DEF CacheInv, InFlight
<1> QED
  BY <1>2, <1>3, <1>6 DEF CacheInv

----------------------------------------------------------------------------
(* One lemma per group of actions.                                         *)

LEMMA InitCacheInv == Init => CacheInv
<1> SUFFICES ASSUME Init PROVE CacheInv
  OBVIOUS
<1>1. store \in [Servers -> [Keys -> Entry]] /\ store["master"][WaterlineKey].val = Nothing
  BY DEF Init, Entry, NoEntry, Servers, Keys
<1>2. call \in [Procs -> CallRecord] /\ \A p \in Procs : call[p].phase # "setting"
  BY IdleType DEF Init
<1>3. source \in Versions /\ faults \in 0 .. MaxFaults
  BY CacheAssumption DEF Init, Versions
<1>4. TypeOK
  BY <1>1, <1>2, <1>3 DEF Init, TypeOK
<1> QED
  BY <1>1, <1>2, <1>4 DEF Init, CacheInv, StaleOnlyByRace, InFlight

\* Before Redis and the source are asked there is nothing in hand; what the
\* source returns is newer than what any DEL was to get rid of.
LEMMA WrapInv == ASSUME CacheInv, NEW p \in Procs, Wrap(p) PROVE CacheInv'
<1>1. PICK skipCache \in BOOLEAN :
        call' = [call EXCEPT ![p] =
          IF skipCache \/ ~enabled[p]
          THEN [Idle EXCEPT !.phase = "query", !.skip = TRUE]
          ELSE [Idle EXCEPT !.phase = "asked", !.server = ReadServer]]
  BY DEF Wrap
<1>2. PICK r : r = IF skipCache \/ ~enabled[p]
                   THEN [Idle EXCEPT !.phase = "query", !.skip = TRUE]
                   ELSE [Idle EXCEPT !.phase = "asked", !.server = ReadServer]
  OBVIOUS
<1>3. r \in CallRecord /\ r.phase # "setting" /\ r.val = Nothing
  BY <1>2, ReadServerType DEF Idle, CallRecord, Servers
<1>4. UNCHANGED <<source, redis, enabled, fixed, faults>>
  BY DEF Wrap
<1> QED
  BY <1>1, <1>2, <1>3, <1>4, CallInv, NothingIsNotPurged DEF CacheInv, TypeOK

LEMMA QueryInv == ASSUME CacheInv, NEW p \in Procs, Query(p) PROVE CacheInv'
<1>1. PICK r : r = [call[p] EXCEPT !.val = source]
  OBVIOUS
<1>2. call[p] \in CallRecord /\ source \in Versions /\ source \notin purged
  BY CacheAssumption DEF CacheInv, TypeOK, InFlight, Versions
<1>3. r \in CallRecord /\ r.val = source /\ r.phase = call[p].phase /\ r.skip = call[p].skip
  BY <1>1, <1>2 DEF CallRecord
<1>4. call' = [call EXCEPT ![p] = r] /\ call[p].phase # "setting"
  BY <1>1 DEF Query
<1>5. UNCHANGED <<source, redis, enabled, fixed, faults>>
  BY DEF Query
<1> QED
  BY <1>2, <1>3, <1>4, <1>5, CallInv DEF CacheInv, TypeOK

\* A call that goes on keeps what it has in hand.
LEMMA KeepsHandInv ==
  ASSUME CacheInv, NEW p \in Procs, NEW r \in CallRecord, call' = [call EXCEPT ![p] = r],
         r.val = call[p].val, r.skip = call[p].skip,
         r.phase = "setting" => ~r.skip /\ r.val # Nothing,
         enabled' = enabled, faults' \in 0 .. MaxFaults,
         UNCHANGED <<source, redis, fixed>>
  PROVE  CacheInv'
<1>1. KeyOf(p) = WaterlineKey /\ ~r.skip => r.val \notin purged
  BY DEF CacheInv, InFlight, Fills
<1> QED
  BY <1>1, CallInv DEF CacheInv, TypeOK

LEMMA ReplyInv == ASSUME CacheInv, NEW p \in Procs, Reply(p) PROVE CacheInv'
<1>1. UNCHANGED <<source, redis, enabled, fixed, faults>> /\ call[p] \in CallRecord
  BY DEF Reply, CacheInv, TypeOK
<1>2. CASE Hit(p)
  <2>1. call' = [call EXCEPT ![p] = Idle]
    BY <1>2 DEF Reply
  <2> QED
    BY <1>1, <2>1, IdleInv DEF CacheInv, TypeOK
<1>3. CASE ~Hit(p)
  <2>1. PICK r : r = Missed(p)
    OBVIOUS
  <2>2. call' = [call EXCEPT ![p] = r]
    BY <1>3, <2>1 DEF Reply
  <2>3. r \in CallRecord /\ r.val = call[p].val /\ r.skip = call[p].skip /\ r.phase = "query"
    BY <1>1, <2>1 DEF Missed, CallRecord, Servers
  <2> QED
    BY <1>1, <2>2, <2>3, KeepsHandInv DEF CacheInv, TypeOK
<1> QED
  BY <1>2, <1>3

LEMMA ReadErrorInv ==
  ASSUME CacheInv, NEW p \in Procs, ReadError(p) \/ ReplicaError(p) \/ MasterError(p)
  PROVE  CacheInv'
<1>1. UNCHANGED <<source, redis, enabled, fixed, faults>> /\ call[p] \in CallRecord
  BY DEF ReadError, ReplicaError, MasterError, CacheInv, TypeOK
<1>2. faults' \in 0 .. MaxFaults
  BY <1>1 DEF CacheInv, TypeOK
<1>3. ASSUME NEW x \in {"asked", "refused"}, NEW s \in Servers, NEW a \in BOOLEAN,
             call' = [call EXCEPT ![p].phase = x, ![p].server = s, ![p].again = a]
      PROVE  CacheInv'
  <2>1. PICK r : r = [call[p] EXCEPT !.phase = x, !.server = s, !.again = a]
    OBVIOUS
  <2>2. r \in CallRecord /\ r.val = call[p].val /\ r.skip = call[p].skip /\ r.phase = x
    BY <1>1, <2>1 DEF CallRecord
  <2>3. call' = [call EXCEPT ![p] = r]
    BY <1>3, <2>1 DEF CacheInv, TypeOK
  <2> QED
    BY <1>1, <1>2, <2>2, <2>3, KeepsHandInv
<1>4. CASE ReadError(p)
  <2>1. call' = [call EXCEPT ![p].phase = "refused"]
    BY <1>4 DEF ReadError
  <2>2. PICK s \in Servers, a \in BOOLEAN : s = call[p].server /\ a = call[p].again
    BY <1>1 DEF CallRecord
  <2>3. call' = [call EXCEPT ![p].phase = "refused", ![p].server = s, ![p].again = a]
    BY <1>1, <2>1, <2>2 DEF CacheInv, TypeOK, CallRecord
  <2> QED
    BY <1>3, <2>3
<1>5. CASE ReplicaError(p)
  <2>1. call' = [call EXCEPT ![p].phase = "asked", ![p].server = ReadServer, ![p].again = TRUE]
    BY <1>5 DEF ReplicaError
  <2> QED
    BY <1>3, <2>1, ReadServerType
<1>6. CASE MasterError(p)
  <2>1. PICK r : r = [Idle EXCEPT !.phase = "hung"]
    OBVIOUS
  <2>2. r \in CallRecord /\ r.val = Nothing /\ r.phase = "hung"
    BY <2>1 DEF Idle, CallRecord, Servers
  <2>3. call' = [call EXCEPT ![p] = r]
    BY <1>6, <2>1 DEF MasterError
  <2> QED
    BY <1>1, <1>2, <2>2, <2>3, CallInv, NothingIsNotPurged DEF CacheInv, TypeOK
<1> QED
  BY <1>4, <1>5, <1>6

LEMMA ResolveInv == ASSUME CacheInv, NEW p \in Procs, Resolve(p) PROVE CacheInv'
<1>1. UNCHANGED <<source, redis, enabled, fixed, faults>> /\ call[p] \in CallRecord
  BY DEF Resolve, CacheInv, TypeOK
<1>2. CASE Sets(p)
  <2>1. PICK r : r = [call[p] EXCEPT !.phase = "setting"]
    OBVIOUS
  <2>2. call' = [call EXCEPT ![p] = r]
    BY <1>2, <2>1 DEF Resolve, CacheInv, TypeOK
  <2>3. r \in CallRecord /\ r.val = call[p].val /\ r.skip = call[p].skip
    BY <1>1, <2>1 DEF CallRecord
  <2>4. ~call[p].skip /\ call[p].val # Nothing
    BY <1>2 DEF Resolve, Sets
  <2> QED
    BY <1>1, <2>2, <2>3, <2>4, KeepsHandInv DEF CacheInv, TypeOK
<1>3. CASE ~Sets(p)
  <2>1. call' = [call EXCEPT ![p] = Idle]
    BY <1>3 DEF Resolve
  <2> QED
    BY <1>1, <2>1, IdleInv DEF CacheInv, TypeOK
<1> QED
  BY <1>2, <1>3

\* SET NX EX: the entry that is there stays, or gets what the call has in hand.
LEMMA SetInv == ASSUME CacheInv, NEW p \in Procs, Set(p) PROVE CacheInv'
<1>1. /\ call[p].phase = "setting"
      /\ store' = [store EXCEPT !["master"][KeyOf(p)] = SetNxEx(@, call[p].val)]
      /\ call' = [call EXCEPT ![p] = Idle]
      /\ UNCHANGED <<source, ready, enabled, fixed, faults>>
  BY DEF Set
<1>2. /\ store \in [Servers -> [Keys -> Entry]] /\ "master" \in Servers
      /\ KeyOf(p) \in Keys /\ WaterlineKey \in Keys
      /\ call[p] \in CallRecord /\ call[p].val \in Versions /\ ~call[p].skip
  BY <1>1 DEF CacheInv, TypeOK, InFlight, CallRecord, Servers, KeyOf, Keys
<1>3. PICK e : e = SetNxEx(store["master"][KeyOf(p)], call[p].val)
  OBVIOUS
<1>4. e \in Entry /\ e.val \in {store["master"][KeyOf(p)].val, call[p].val}
  BY <1>2, <1>3 DEF SetNxEx, Entry
<1>5. store' = [store EXCEPT !["master"][KeyOf(p)] = e]
  BY <1>1, <1>2, <1>3
<1>6. store' \in [Servers -> [Keys -> Entry]]
  BY <1>2, <1>4, <1>5
<1>7. store'["master"][WaterlineKey].val \notin purged
  <2>1. CASE KeyOf(p) = WaterlineKey
    <3>1. call[p].val \notin purged /\ store["master"][WaterlineKey].val \notin purged
      BY <1>2, <2>1 DEF CacheInv, InFlight, Fills, StaleOnlyByRace
    <3>2. store'["master"][WaterlineKey] = e
      BY <1>2, <1>5, <2>1
    <3> QED
      BY <1>4, <2>1, <3>1, <3>2
  <2>2. CASE KeyOf(p) # WaterlineKey
    <3>1. store'["master"][WaterlineKey] = store["master"][WaterlineKey]
      BY <1>2, <1>5, <2>2
    <3> QED
      BY <3>1 DEF CacheInv, StaleOnlyByRace
  <2> QED
    BY <2>1, <2>2
<1>8. UNCHANGED <<kind, purged>> /\ call' \in [Procs -> CallRecord]
  BY <1>1, IdleType DEF fixed, CacheInv, TypeOK
<1>9. \A q \in Procs : /\ call'[q].phase = "setting" => q # p /\ call'[q] = call[q]
                       /\ Fills(q)' => call'[q].val \notin purged
  <2> SUFFICES ASSUME NEW q \in Procs
               PROVE  /\ call'[q].phase = "setting" => q # p /\ call'[q] = call[q]
                      /\ Fills(q)' => call'[q].val \notin purged
    OBVIOUS
  <2>1. CASE q = p
    BY <1>1, <2>1, IdleType, NothingIsNotPurged DEF CacheInv, TypeOK
  <2>2. CASE q # p
    <3>1. call'[q] = call[q] /\ Fills(q)' = Fills(q)
      BY <1>1, <1>8, <2>2 DEF CacheInv, TypeOK, Fills, KeyOf, WaterlineKey
    <3> QED
      BY <2>2, <3>1 DEF CacheInv, InFlight
  <2> QED
    BY <2>1, <2>2
<1>10. TypeOK'
  BY <1>1, <1>6, <1>8, <1>9 DEF CacheInv, TypeOK
<1>11. StaleOnlyByRace'
  BY <1>7, <1>8 DEF StaleOnlyByRace, WaterlineKey
<1>12. InFlight'
  BY <1>1, <1>8, <1>9 DEF CacheInv, InFlight
<1> QED
  BY <1>10, <1>11, <1>12 DEF CacheInv

LEMMA CallDelInv == ASSUME CacheInv, NEW p \in Procs, CallDel(p) PROVE CacheInv'
<1>1. PICK r : r = [Idle EXCEPT !.phase = "deleting"]
  OBVIOUS
<1>2. r \in CallRecord /\ r.phase = "deleting" /\ r.val = Nothing
  BY <1>1 DEF Idle, CallRecord, Servers
<1>3. call' = [call EXCEPT ![p] = r] /\ UNCHANGED <<source, redis, enabled, fixed, faults>>
  BY <1>1 DEF CallDel
<1> QED
  BY <1>2, <1>3, CallInv, NothingIsNotPurged DEF CacheInv, TypeOK

\* DEL: the entry goes, and what is in hand is left out of what is purged.
LEMMA DelInv == ASSUME CacheInv, NEW p \in Procs, Del(p) PROVE CacheInv'
<1>1. /\ store' = [store EXCEPT !["master"][WaterlineKey] = NoEntry]
      /\ call' = [call EXCEPT ![p] = Idle]
      /\ purged' = (1 .. source - 1) \ InHand
      /\ UNCHANGED <<source, ready, kind, enabled, faults>>
  BY DEF Del, DelKey
<1>2. /\ store \in [Servers -> [Keys -> Entry]] /\ call \in [Procs -> CallRecord]
      /\ source \in Versions
  BY DEF CacheInv, TypeOK
<1>3. /\ store' \in [Servers -> [Keys -> Entry]]
      /\ store'["master"][WaterlineKey].val = Nothing
  <2>1. NoEntry \in Entry /\ "master" \in Servers /\ WaterlineKey \in Keys
    BY DEF Entry, Servers, Keys
  <2>2. store'["master"][WaterlineKey] = NoEntry
    BY <1>1, <1>2, <2>1
  <2>3. store' \in [Servers -> [Keys -> Entry]]
    BY <1>1, <1>2, <2>1
  <2> QED
    BY <2>2, <2>3 DEF NoEntry
<1>4. call' \in [Procs -> CallRecord]
  BY <1>1, <1>2, IdleType
<1>5. purged' \in SUBSET Versions /\ Nothing \notin purged'
  BY <1>1, <1>2, CacheAssumption DEF Versions, Nothing
<1>6. \A q \in Procs : /\ call'[q].phase = "setting" => call'[q] = call[q]
                       /\ Fills(q)' => call'[q].val \notin purged'
  <2> SUFFICES ASSUME NEW q \in Procs
               PROVE  /\ call'[q].phase = "setting" => call'[q] = call[q]
                      /\ Fills(q)' => call'[q].val \notin purged'
    OBVIOUS
  <2>1. CASE q = p
    BY <1>1, <1>2, <1>5, <2>1, IdleType
  <2>2. CASE q # p
    <3>1. call'[q] = call[q] /\ Fills(q)' = Fills(q)
      BY <1>1, <1>2, <2>2 DEF Fills, KeyOf, WaterlineKey
    <3>2. Fills(q) => call[q].val \in InHand
      BY DEF Fills, InHand
    <3> QED
      BY <1>1, <3>1, <3>2
  <2> QED
    BY <2>1, <2>2
<1>7. TypeOK'
  BY <1>1, <1>3, <1>4, <1>5, <1>6 DEF CacheInv, TypeOK
<1>8. StaleOnlyByRace'
  BY <1>3, <1>5 DEF StaleOnlyByRace, WaterlineKey
<1>9. InFlight'
  BY <1>1, <1>6 DEF CacheInv, InFlight
<1> QED
  BY <1>7, <1>8, <1>9 DEF CacheInv

\* Query, set and del fail.
LEMMA CallErrorInv ==
  ASSUME CacheInv, NEW p \in Procs, QueryError(p) \/ SetError(p) \/ DelError(p)
  PROVE  CacheInv'
<1>1. /\ call' = [call EXCEPT ![p] = Idle]
      /\ UNCHANGED <<source, redis, fixed>>
      /\ enabled' \in {enabled, [enabled EXCEPT ![p] = TRUE]}
  BY DEF QueryError, SetError, DelError
<1>2. faults' \in 0 .. MaxFaults
  BY FaultType DEF QueryError, SetError, DelError, CacheInv, TypeOK
<1>3. enabled' \in [Procs -> BOOLEAN]
  BY <1>1 DEF CacheInv, TypeOK
<1> QED
  BY <1>1, <1>2, <1>3, IdleInv

LEMMA BypassInv == ASSUME CacheInv, NEW p \in Procs, Bypass(p) PROVE CacheInv'
<1>1. enabled' \in [Procs -> BOOLEAN]
  BY DEF Bypass, CacheInv, TypeOK
<1> QED
  BY <1>1, EntriesInv, CacheAssumption
  DEF Bypass, redis, CacheInv, TypeOK, StaleOnlyByRace, Versions

----------------------------------------------------------------------------
(* The environment.                                                        *)

LEMMA EnvironmentInv ==
  ASSUME CacheInv,
         \/ Update \/ Replicate
         \/ \E k \in Keys : Expire(k)
         \/ \E s \in Servers : Down(s) \/ Up(s)
  PROVE  CacheInv'
<1>1. /\ store \in [Servers -> [Keys -> Entry]] /\ ready \in SUBSET Servers
      /\ source \in Versions /\ source \in Nat /\ enabled \in [Procs -> BOOLEAN]
      /\ faults \in 0 .. MaxFaults /\ store["master"][WaterlineKey].val \notin purged
      /\ "master" \in Servers /\ "replica" \in Servers /\ WaterlineKey \in Keys
  BY DEF CacheInv, TypeOK, StaleOnlyByRace, Versions, Servers, Keys
<1>2. CASE Update
  <2>1. source' \in Versions /\ source' >= source
    BY <1>1, <1>2, CacheAssumption DEF Update, Versions
  <2> QED
    BY <1>1, <1>2, <2>1, EntriesInv DEF Update, redis
<1>3. CASE Replicate
  <2>1. /\ store' \in [Servers -> [Keys -> Entry]]
        /\ store'["master"] = store["master"]
    BY <1>1, <1>3 DEF Replicate
  <2> QED
    BY <1>1, <1>3, <2>1, EntriesInv DEF Replicate
<1>4. ASSUME NEW k \in Keys, Expire(k) PROVE CacheInv'
  <2>1. store' = [store EXCEPT !["master"][k] = NoEntry] /\ NoEntry \in Entry
    BY <1>4 DEF Expire, Entry
  <2>2. store' \in [Servers -> [Keys -> Entry]]
    BY <1>1, <2>1
  <2>3. store'["master"][WaterlineKey] \in {NoEntry, store["master"][WaterlineKey]}
    BY <1>1, <2>1
  <2>4. store'["master"][WaterlineKey].val \notin purged
    BY <1>1, <2>3, NothingIsNotPurged DEF NoEntry
  <2> QED
    BY <1>1, <1>4, <2>2, <2>4, EntriesInv DEF Expire
<1>5. ASSUME NEW s \in Servers, Down(s) \/ Up(s) PROVE CacheInv'
  <2>1. ready' \in SUBSET Servers /\ faults' \in 0 .. MaxFaults
    BY <1>1, <1>5, FaultType DEF Down, Up
  <2> QED
    BY <1>1, <1>5, <2>1, EntriesInv DEF Down, Up
<1> QED
  BY <1>2, <1>3, <1>4, <1>5

LEMMA NextCacheInv == CacheInv /\ [Next]_vars => CacheInv'
<1> SUFFICES ASSUME CacheInv, [Next]_vars PROVE CacheInv'
  OBVIOUS
<1>1. ASSUME NEW p \in Procs, CallStep(p) PROVE CacheInv'
  BY <1>1, WrapInv, QueryInv, ReplyInv, ReadErrorInv, ResolveInv, SetInv, CallDelInv, DelInv,
     CallErrorInv, BypassInv DEF CallStep
<1>2. CASE UNCHANGED vars
  BY <1>2, EntriesInv, CacheAssumption
  DEF vars, redis, fixed, CacheInv, TypeOK, StaleOnlyByRace, Versions
<1> QED
  BY <1>1, <1>2, EnvironmentInv DEF Next

LEMMA CacheAlways == Spec => []CacheInv
  BY InitCacheInv, NextCacheInv, PTL DEF Spec

----------------------------------------------------------------------------
(* The theorems.                                                           *)

\* No entry is ever without a time to live, and nothing that was read past the
\* cache is put into it, however calls, errors and bypass interleave.
THEOREM CacheTypeOK == Spec => []TypeOK
<1>1. CacheInv => TypeOK
  BY DEF CacheInv
<1> QED
  BY CacheAlways, <1>1, PTL

\* del is undone only by a result that was in the hands of a wrap when DEL was
\* executed: neither a later miss, nor an error, nor a call that skips the cache,
\* nor wrapPromise brings back what was deleted.
THEOREM CacheStaleOnlyByRace == Spec => []StaleOnlyByRace
<1>1. CacheInv => StaleOnlyByRace
  BY DEF CacheInv
<1> QED
  BY CacheAlways, <1>1, PTL
=============================================================================
