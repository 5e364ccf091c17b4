----------------------------- MODULE MCPubSub -----------------------------
(* Instances of PubSub for TLC.                                            *)
EXTENDS PubSub, TLC

CONSTANTS p1, p2, c1, c2, onceA, onceB, of, lasting

\* Two processes on channel c2, no two calls of one process on one channel.
PrivateUse ==
  [owner  |-> onceA :> p1 @@ of :> p1 @@ lasting :> p2 @@ onceB :> p2,
   chans  |-> onceA :> {c1} @@ of :> {c2} @@ lasting :> {c2} @@ onceB :> {},
   errors |-> {"subscribe"}]

\* Channel c1 is used by two calls of one process and by another process.
SharedUse ==
  [owner  |-> onceA :> p2 @@ onceB :> p1 @@ of :> p1 @@ lasting :> p2,
   chans  |-> onceA :> {c1} @@ onceB :> {c1} @@ of :> {c1, c2} @@ lasting :> {},
   errors |-> {"unsubscribe", "numsub"}]

PrivateAndShared == [private |-> PrivateUse, shared |-> SharedUse]

\* Two calls of one process on one channel.
DeafUse ==
  [deaf |-> [owner  |-> onceA :> p1 @@ lasting :> p1,
             chans  |-> onceA :> {c1} @@ lasting :> {c1},
             errors |-> {}]]
=============================================================================
