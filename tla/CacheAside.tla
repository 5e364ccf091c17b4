----------------------------- MODULE CacheAside -----------------------------
(***************************************************************************)
(* The cache module: processes that wrap a query with wrapWaterline or     *)
(* wrapPromise under one key, delete the key, and bypass the cache, against *)
(* a Redis master that expires entries, a replica that lags behind, and a  *)
(* data source that changes.                                               *)
(*                                                                         *)
(* A value is the version of the source it was read from.  One action is   *)
(* one Redis command, or one callback in a process.                        *)
(***************************************************************************)
EXTENDS Naturals

CONSTANTS
  Procs,       \* processes, each with one call at a time
  Bypassers,   \* those whose application calls bypass
  MaxVersion,  \* bound: versions the data source goes through
  Empty,       \* versions in which the query finds nothing (a falsy result)
  Scaled,      \* cluster with clusterScaleReads: reads go to the replica
  Faults,      \* failures that may occur: "read", "set", "del", "query", "down"
  MaxFaults    \* bound on their number, except that any read may fail

Versions == 1 .. MaxVersion

ASSUME CacheAssumption ==
  /\ MaxVersion \in Nat \ {0} /\ MaxFaults \in Nat
  /\ Empty \subseteq Versions
  /\ Bypassers \subseteq Procs
  /\ Scaled \in BOOLEAN

\* What is stored under key k by wrapWaterline and del: toKey(k).  And by
\* wrapPromise, which applies toKey to it before get and set do: toKey(toKey(k)).
WaterlineKey == "prefix:k"
PromiseKey   == "prefix:prefix:k"
Keys == {WaterlineKey, PromiseKey}

Servers == {"master", "replica"}

VARIABLES
  source,   \* version of the data source
  store,    \* the entries of each server
  ready,    \* servers whose connection has status 'ready'
  kind,     \* the wrap each process uses: "waterline" or "promise"
  enabled,  \* options.enabled of each process
  call,     \* what each process is at
  purged,   \* history: the versions that the last DEL was to get rid of
  faults    \* number of failures so far

vars == <<source, store, ready, kind, enabled, call, purged, faults>>

Nothing == 0

NoEntry == [val |-> Nothing, ttl |-> FALSE]

Idle == [phase |-> "idle", server |-> "master", again |-> FALSE, skip |-> FALSE,
         val |-> Nothing]

KeyOf(p) == IF kind[p] = "promise" THEN PromiseKey ELSE WaterlineKey

Init ==
  /\ source = 1
  /\ store = [s \in Servers |-> [k \in Keys |-> NoEntry]]
  /\ ready = Servers
  /\ kind \in [Procs -> {"waterline", "promise"}]
  /\ enabled = [p \in Procs |-> TRUE]
  /\ call = [p \in Procs |-> Idle]
  /\ purged = {}
  /\ faults = 0

Fault(f) == f \in Faults /\ faults < MaxFaults /\ faults' = faults + 1

fixed   == <<kind, purged>>
redis   == <<store, ready>>

\* getReadOnlyClient: the replica while its connection is ready.  The
\* argument masterOnly is ignored.
ReadServer == IF Scaled /\ "replica" \in ready THEN "replica" ELSE "master"

\* connectionOK()
ConnectionOK == "master" \in ready

----------------------------------------------------------------------------
(* wrapWaterline and wrapPromise.                                          *)

\* The call: straight to the query if the cache is skipped or bypassed, else
\* GET is sent.
Wrap(p) ==
  /\ call[p].phase = "idle"
  /\ \E skipCache \in BOOLEAN :
       call' = [call EXCEPT ![p] =
         IF skipCache \/ ~enabled[p]
         THEN [Idle EXCEPT !.phase = "query", !.skip = TRUE]
         ELSE [Idle EXCEPT !.phase = "asked", !.server = ReadServer]]
  /\ UNCHANGED <<source, redis, enabled, fixed, faults>>

\* The query reads the source.  A promise runs from the start, a waterline
\* query only after the miss.
Query(p) ==
  /\ call[p].val = Nothing
  /\ \/ call[p].phase = "query"
     \/ call[p].phase \in {"asked", "refused"} /\ kind[p] = "promise"
  /\ call' = [call EXCEPT ![p].val = source]
  /\ UNCHANGED <<source, redis, enabled, fixed, faults>>

\* A value counts as a hit unless it is falsy, or was read after a failure:
\* the callback of the second get is the resolve of the first, which takes
\* its error argument, null, for the value.
Hit(p) == LET v == store[call[p].server][KeyOf(p)].val IN
          v \notin Empty \cup {Nothing} /\ ~call[p].again

Forgotten(p) == [call[p] EXCEPT !.phase = "stuck"]   \* mutation: no resolve() on a miss
Missed(p) == [call[p] EXCEPT !.phase = "query", !.server = "master", !.again = FALSE]

\* The reply to GET: the wrap resolves with the value, or goes on to the query.
Reply(p) ==
  /\ call[p].phase = "asked" /\ call[p].server \in ready
  /\ call' = [call EXCEPT ![p] = IF Hit(p) THEN Idle ELSE Missed(p)]
  /\ UNCHANGED <<source, redis, enabled, fixed, faults>>

\* GET is answered with an error, any number of times.
ReadError(p) ==
  /\ call[p].phase = "asked" /\ "read" \in Faults
  /\ call' = [call EXCEPT ![p].phase = "refused"]
  /\ UNCHANGED <<source, redis, enabled, fixed, faults>>

\* An error of the replica: get again, wherever getReadOnlyClient leads now,
\* the same replica included, and as often as that fails.
ReplicaError(p) ==
  /\ call[p].phase = "refused" /\ call[p].server = "replica"
  /\ call' = [call EXCEPT ![p].phase = "asked", ![p].server = ReadServer, ![p].again = TRUE]
  /\ UNCHANGED <<source, redis, enabled, fixed, faults>>

\* An error of the master: the handler calls this.redisError, which the cache
\* does not have, and the promise never settles: nothing becomes of its query.
MasterError(p) ==
  /\ call[p].phase = "refused" /\ call[p].server = "master"
  /\ call' = [call EXCEPT ![p] = [Idle EXCEPT !.phase = "hung"]]
  /\ UNCHANGED <<source, redis, enabled, fixed, faults>>

SetsEvenSkipped(p) == ConnectionOK   \* mutation: skipSet forgotten
Sets(p) == ~call[p].skip /\ ConnectionOK

\* The result is there: SET is sent if this was a miss, and the wrap resolves.
Resolve(p) ==
  /\ call[p].phase = "query" /\ call[p].val # Nothing
  /\ call' = [call EXCEPT ![p] = IF Sets(p) THEN [@ EXCEPT !.phase = "setting"] ELSE Idle]
  /\ UNCHANGED <<source, redis, enabled, fixed, faults>>

\* The query fails: the wrap rejects.
QueryError(p) ==
  /\ call[p].phase = "query" /\ call[p].val = Nothing
  /\ Fault("query")
  /\ call' = [call EXCEPT ![p] = Idle]
  /\ UNCHANGED <<source, redis, enabled, fixed>>

----------------------------------------------------------------------------
(* set and del at Redis, bypass.                                           *)

SetNx(e, v)   == IF e.val = Nothing THEN [val |-> v, ttl |-> FALSE] ELSE e   \* mutation: no EX
SetNxEx(e, v) == IF e.val = Nothing THEN [val |-> v, ttl |-> TRUE] ELSE e

\* SET key val NX EX ttl: an entry that is there stays, with its ttl.
Set(p) ==
  /\ call[p].phase = "setting" /\ "master" \in ready
  /\ store' = [store EXCEPT !["master"][KeyOf(p)] = SetNxEx(@, call[p].val)]
  /\ call' = [call EXCEPT ![p] = Idle]
  /\ UNCHANGED <<source, ready, enabled, fixed, faults>>

\* Its error is thrown out of the reply callback, again by this.redisError:
\* the process ends and is started again.
SetError(p) ==
  /\ call[p].phase = "setting"
  /\ Fault("set")
  /\ call' = [call EXCEPT ![p] = Idle]
  /\ enabled' = [enabled EXCEPT ![p] = TRUE]
  /\ UNCHANGED <<source, redis, fixed>>

CallDel(p) ==
  /\ call[p].phase = "idle" /\ ConnectionOK
  /\ call' = [call EXCEPT ![p] = [Idle EXCEPT !.phase = "deleting"]]
  /\ UNCHANGED <<source, redis, enabled, fixed, faults>>

DelKeyTwice == PromiseKey   \* mutation: the key is prefixed twice
DelKey == WaterlineKey

\* Values on their way to a SET of the key del deletes.
InHand == {call[q].val : q \in {r \in Procs : KeyOf(r) = WaterlineKey /\ ~call[r].skip}}

Del(p) ==
  /\ call[p].phase = "deleting" /\ "master" \in ready
  /\ store' = [store EXCEPT !["master"][DelKey] = NoEntry]
  /\ call' = [call EXCEPT ![p] = Idle]
  /\ purged' = (1 .. source - 1) \ InHand
  /\ UNCHANGED <<source, ready, kind, enabled, faults>>

\* The error goes to the callback.
DelError(p) ==
  /\ call[p].phase = "deleting"
  /\ Fault("del")
  /\ call' = [call EXCEPT ![p] = Idle]
  /\ UNCHANGED <<source, redis, enabled, fixed>>

\* bypass(true) enables the cache, bypass(false) and bypass() toggle it.
Bypass(p) ==
  /\ p \in Bypassers
  /\ \E bool \in BOOLEAN : enabled' = [enabled EXCEPT ![p] = bool \/ ~@]
  /\ UNCHANGED <<source, redis, call, fixed, faults>>

----------------------------------------------------------------------------
(* The environment.                                                        *)

\* The data change.
Update ==
  /\ source < MaxVersion
  /\ source' = source + 1
  /\ UNCHANGED <<redis, enabled, call, fixed, faults>>

Expire(k) ==
  /\ store["master"][k].ttl
  /\ store' = [store EXCEPT !["master"][k] = NoEntry]
  /\ UNCHANGED <<source, ready, enabled, call, fixed, faults>>

\* The replica catches up, now or some steps later.
Replicate ==
  /\ store' = [store EXCEPT !["replica"] = store["master"]]
  /\ UNCHANGED <<source, ready, enabled, call, fixed, faults>>

Down(s) ==
  /\ s \in ready /\ Fault("down")
  /\ ready' = ready \ {s}
  /\ UNCHANGED <<source, store, enabled, call, fixed>>

Up(s) ==
  /\ ready' = ready \cup {s}
  /\ UNCHANGED <<source, store, enabled, call, fixed, faults>>

----------------------------------------------------------------------------
CallStep(p) ==
  \/ Wrap(p) \/ Query(p) \/ Reply(p)
  \/ ReadError(p) \/ ReplicaError(p) \/ MasterError(p)
  \/ Resolve(p) \/ QueryError(p)
  \/ Set(p) \/ SetError(p)
  \/ CallDel(p) \/ Del(p) \/ DelError(p)
  \/ Bypass(p)

Next ==
  \/ \E p \in Procs : CallStep(p)
  \/ Update \/ Replicate
  \/ \E k \in Keys : Expire(k)
  \/ \E s \in Servers : Down(s) \/ Up(s)

Spec == Init /\ [][Next]_vars

\* What is sent is answered and what is answered is handled; a call is at one
\* of these at a time.
Proceeds(p) ==
  \/ Reply(p) \/ ReadError(p) \/ ReplicaError(p) \/ MasterError(p)
  \/ Resolve(p) \/ Set(p) \/ Del(p)

(* Redis answers, a read perhaps with an error, expires and replicates,    *)
(* connections come back, queries return.  Nobody owes a call, a change of *)
(* the data or a failure.                                                  *)
Fairness ==
  /\ \A p \in Procs : WF_vars(Query(p)) /\ WF_vars(Proceeds(p))
  /\ \A k \in Keys : WF_vars(Expire(k))
  /\ WF_vars(Replicate)
  /\ \A s \in Servers : WF_vars(Up(s))

LiveSpec == Spec /\ Fairness

----------------------------------------------------------------------------
(* Properties.                                                             *)

Entry == [val : Versions, ttl : {TRUE}] \cup {NoEntry}

CallRecord ==
  [phase : {"idle", "asked", "refused", "query", "hung", "setting", "deleting"},
   server : Servers, again : BOOLEAN, skip : BOOLEAN, val : Versions \cup {Nothing}]

\* Values have their types; every entry has a time to live; nothing a call
\* that skips the cache has read is on its way to Redis.
TypeOK ==
  /\ source \in Versions
  /\ store \in [Servers -> [Keys -> Entry]]
  /\ ready \in SUBSET Servers
  /\ kind \in [Procs -> {"waterline", "promise"}]
  /\ enabled \in [Procs -> BOOLEAN]
  /\ call \in [Procs -> CallRecord]
  /\ \A p \in Procs : call[p].phase = "setting" => ~call[p].skip
  /\ purged \in SUBSET Versions
  /\ faults \in 0 .. MaxFaults

\* After del(k), what wrapWaterline keeps under k is no older than the data
\* at that time, unless a query that was under way when the key was deleted
\* brings its older result: the one race of a cache filled by its readers.
StaleOnlyByRace == store["master"][WaterlineKey].val \notin purged

\* Once the data rest, so does the cache: in the end every entry of either
\* server is the current version or none, whatever calls, late SETs and
\* failures went before.
EventuallyFresh ==
  <>[](\A s \in Servers, k \in Keys : store[s][k].val \in {Nothing, source})

\* Every wrap settles, or is lost to an error of the master, or hears errors
\* from the replica for ever: index.js:86-90 has no bound on the repeats, and
\* masterOnly does not lead to the master, where index.js:88 says "lets try
\* the master client just once".
Waits(p) == call[p].phase \notin {"idle", "setting", "deleting", "hung"}
Repeats(p) == call[p].phase = "refused" /\ call[p].server = "replica"

Settles == \A p \in Procs : []<>(Waits(p) => Repeats(p))
=============================================================================
