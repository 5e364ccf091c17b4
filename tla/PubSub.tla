------------------------------- MODULE PubSub -------------------------------
(***************************************************************************)
(* The pub/sub methods of the core: subscribe, subscribeOnce with its      *)
(* timeout and its check whether to unsubscribe, subscribeOnceOf, and the  *)
(* routing of Redis messages to the listeners of a process.                *)
(*                                                                         *)
(* A process talks to Redis over two connections that are independent of   *)
(* each other: the subscriber, whose commands and whose replies and        *)
(* messages each keep their order, and the client, for PUBSUB NUMSUB.      *)
(* subscribeOnce treats each of its channels apart from the others: here   *)
(* it is one call per channel.                                             *)
(***************************************************************************)
EXTENDS Integers, Sequences, FiniteSets

CONSTANTS
  Procs,        \* processes, each with one RediBox
  Channels,
  Once,         \* calls of subscribeOnce
  OnceOf,       \* calls of subscribeOnceOf
  Lasting,      \* calls of subscribe
  Timed,        \* the calls with a timeout
  Uses,         \* what applications may make of them, by name, see PubSubAssumption
  MaxErrors,    \* bound on the failures
  MaxMessages   \* bound on the messages published

Calls == Once \cup OnceOf \cup Lasting

ASSUME PubSubAssumption ==
  /\ IsFiniteSet(Calls)
  /\ Once \cap OnceOf = {} /\ Once \cap Lasting = {} /\ OnceOf \cap Lasting = {}
  /\ \A n \in DOMAIN Uses : LET u == Uses[n] IN
       /\ u.owner \in [Calls -> Procs]            \* the process that makes a call
       /\ u.chans \in [Calls -> SUBSET Channels]  \* its channels, {} if it is not made
       /\ \A k \in Once : \A c, d \in u.chans[k] : c = d
       /\ u.errors \subseteq {"subscribe", "unsubscribe", "numsub"}  \* what may fail
  /\ Timed \subseteq Once \cup OnceOf
  /\ MaxErrors \in Nat /\ MaxMessages \in Nat

VARIABLES
  use,        \* the name of the use made of them here
  subs,       \* Redis: <<process, channel>> of each subscription
  sent,       \* commands on the subscriber connections, not executed yet
  inbox,      \* their replies and the messages, not received yet
  made,       \* calls made
  listening,  \* <<call, channel>> of each listener in subscriberMessageEvents
  timer,      \* calls whose timeout is armed
  spent,      \* closures: timedOut of subscribeOnce, the once() of subscribeOnceOf
  emits,      \* channels of the messages waiting in setImmediate
  check,      \* what became of the _unsubscribeAfterOnce of a call
  answers,    \* how often the listener of the application was called
  published,  \* number of messages so far
  errors      \* number of failures so far

network == <<subs, sent, inbox>>
process == <<made, listening, timer, spent, emits, check, answers>>
bounds  == <<use, published, errors>>
vars    == <<network, process, bounds>>

Owner(k) == Uses[use].owner[k]
Chans(k) == Uses[use].chans[k]

Item(op, of) == [op |-> op, of |-> of]

\* The reply to a command that fails.
Failed == [subscribe |-> "subscribeFailed", unsubscribe |-> "unsubscribeFailed"]

Fail(e) == e \in Uses[use].errors /\ errors < MaxErrors /\ errors' = errors + 1

\* The members of S in some order.
Orders(S) == {s \in [1 .. Cardinality(S) -> S] : \A x \in S : \E i \in DOMAIN s : s[i] = x}

Init ==
  /\ use \in DOMAIN Uses
  /\ subs = {}
  /\ sent = [p \in Procs |-> <<>>] /\ inbox = [p \in Procs |-> <<>>]
  /\ made = {} /\ listening = {} /\ timer = {} /\ spent = {}
  /\ emits = [p \in Procs |-> <<>>]
  /\ check = [k \in Calls |-> "none"]
  /\ answers = [k \in Calls |-> 0]
  /\ published = 0 /\ errors = 0

----------------------------------------------------------------------------
(* Calls.  The listener is registered when SUBSCRIBE has answered.         *)

ArmAlways(k) == timer' = timer \cup {k}   \* mutation: whether there is a timeout or not
ArmTimeout(k) == timer' = timer \cup ({k} \cap Timed)

Subscribe(k) ==
  /\ k \notin made /\ Chans(k) # {}
  /\ made' = made \cup {k}
  /\ ArmTimeout(k)
  /\ sent' = [sent EXCEPT ![Owner(k)] = Append(@, Item("subscribe", k))]
  /\ UNCHANGED <<subs, inbox, listening, spent, emits, check, answers, bounds>>

\* unsubscribe(channels, listener) of a listener given to subscribe, once the
\* application knows it is subscribed.
Unsubscribe(k) ==
  /\ k \in Lasting /\ \E c \in Channels : <<k, c>> \in listening
  /\ listening' = listening \ ({k} \X Channels)
  /\ sent' = [sent EXCEPT ![Owner(k)] = Append(@, Item("unsubscribe", k))]
  /\ UNCHANGED <<subs, inbox, made, timer, spent, emits, check, answers, bounds>>

----------------------------------------------------------------------------
(* Redis.                                                                  *)

Subscriptions(k) == {Owner(k)} \X Chans(k)

\* The next command of p's subscriber is executed, or fails.
Execute(p) ==
  /\ sent[p] # <<>>
  /\ LET cmd == Head(sent[p]) IN
       /\ \/ /\ subs' = IF cmd.op = "subscribe" THEN subs \cup Subscriptions(cmd.of)
                                                ELSE subs \ Subscriptions(cmd.of)
             /\ inbox' = [inbox EXCEPT ![p] = Append(@, cmd)]
             /\ UNCHANGED errors
          \/ /\ Fail(cmd.op)
             /\ inbox' = [inbox EXCEPT ![p] = Append(@, Item(Failed[cmd.op], cmd.of))]
             /\ UNCHANGED subs
  /\ sent' = [sent EXCEPT ![p] = Tail(@)]
  /\ UNCHANGED <<process, use, published>>

Publish(c) ==
  /\ published < MaxMessages
  /\ published' = published + 1
  /\ inbox' = [p \in Procs |->
                 IF <<p, c>> \in subs THEN Append(inbox[p], Item("message", c)) ELSE inbox[p]]
  /\ UNCHANGED <<subs, sent, process, use, errors>>

\* PUBSUB NUMSUB counts the subscribers of the channel, of all processes.
Count(c) == Cardinality({p \in Procs : <<p, c>> \in subs})

AloneNever(c) == Count(c) < 1   \* mutation: < for <=
Alone(c) == Count(c) <= 1

Numsub(k) ==
  /\ check[k] = "asked"
  /\ \/ /\ check' = [check EXCEPT ![k] =
                       IF \A c \in Chans(k) : Alone(c) THEN "alone" ELSE "others"]
        /\ UNCHANGED errors
     \/ Fail("numsub") /\ check' = [check EXCEPT ![k] = "none"]
  /\ UNCHANGED <<network, made, listening, timer, spent, emits, answers, use, published>>

----------------------------------------------------------------------------
(* Callbacks of a process.                                                 *)

Listeners(p, c) == {k \in Calls : Owner(k) = p /\ <<k, c>> \in listening}

\* The SUBSCRIBE of a call has succeeded: register its listener, unless it is
\* a subscribeOnce that timed out in the meantime.
SubscribedAnyway(item) == item.op \in {"subscribe", "subscribeFailed"}   \* mutation: errors too
Subscribed(item) == item.op = "subscribe"

OnSubscribed(k) ==
  /\ listening' = IF k \in Once \cap spent THEN listening ELSE listening \cup ({k} \X Chans(k))
  /\ UNCHANGED <<made, timer, spent, emits, check, answers>>

\* The UNSUBSCRIBE of a subscribeOnceOf has answered, with an error or not:
\* only now its listener gets the message.
UnsubscribedWell(item) == item.op = "unsubscribe"   \* mutation: not after an error
Unsubscribed(item) == item.op \in {"unsubscribe", "unsubscribeFailed"}

OnUnsubscribed(k) ==
  /\ answers' = IF k \in OnceOf THEN [answers EXCEPT ![k] = @ + 1] ELSE answers
  /\ UNCHANGED <<made, listening, timer, spent, emits, check>>

\* _onMessage: somebody listens, so emit the message in setImmediate.
SeveralListen(p, c) == Cardinality(Listeners(p, c)) > 1   \* mutation: > 1 for > 0
SomeoneListens(p, c) == Listeners(p, c) # {}

OnMessage(p, c) ==
  /\ emits' = IF SomeoneListens(p, c) THEN [emits EXCEPT ![p] = Append(@, c)] ELSE emits
  /\ UNCHANGED <<made, listening, timer, spent, check, answers>>

Receive(p) ==
  /\ inbox[p] # <<>>
  /\ LET item == Head(inbox[p]) IN
       CASE item.op = "message" -> OnMessage(p, item.of)
         [] Subscribed(item) -> OnSubscribed(item.of)
         [] Unsubscribed(item) -> OnUnsubscribed(item.of)
         [] OTHER -> UNCHANGED process
  /\ inbox' = [inbox EXCEPT ![p] = Tail(@)]
  /\ UNCHANGED <<subs, sent, bounds>>

\* subscribeOnceOf: the first message, or the timeout, of those in S, takes
\* their listeners away and unsubscribes from all their channels.
SendUnsubscribes(p, S) ==
  \E s \in Orders(S) :
    sent' = [sent EXCEPT ![p] = @ \o [i \in DOMAIN s |-> Item("unsubscribe", s[i])]]

ClearNothing(S) == timer' = timer   \* mutation: no clearTimeout
ClearTimeout(S) == timer' = timer \ S

(* The emitter calls every listener of the channel: those of subscribe;    *)
(* the wrappers of subscribeOnce, which go away, and are silent when timed *)
(* out; those of subscribeOnceOf, which act once.                          *)
Emit(p) ==
  /\ emits[p] # <<>>
  /\ LET c       == Head(emits[p])
         all     == Listeners(p, c)
         first   == (all \cap OnceOf) \ spent
         live    == (all \cap Once) \ spent
         removed == ((all \cap Once) \X {c}) \cup (first \X Channels)
     IN  /\ listening' = listening \ removed
         /\ ClearTimeout(live \cup first)
         /\ spent' = spent \cup first
         /\ check' = [k \in Calls |-> IF k \in live THEN "queued" ELSE check[k]]
         /\ answers' = [k \in Calls |->
                          answers[k] + IF k \in live \cup (all \cap Lasting) THEN 1 ELSE 0]
         /\ SendUnsubscribes(p, first)
  /\ emits' = [emits EXCEPT ![p] = Tail(@)]
  /\ UNCHANGED <<subs, inbox, made, bounds>>

\* The timeout of a subscribeOnce.  What it removes from the emitter is not
\* what was registered: the wrapper stays.
TimeoutOnce(k) ==
  /\ k \in Once \cap timer
  /\ timer' = timer \ {k}
  /\ spent' = spent \cup {k}
  /\ check' = [check EXCEPT ![k] = "queued"]
  /\ answers' = [answers EXCEPT ![k] = @ + 1]
  /\ UNCHANGED <<network, made, listening, emits, bounds>>

TimeoutOnceOf(k) ==
  /\ k \in OnceOf \cap timer
  /\ timer' = timer \ {k}
  /\ spent' = spent \cup {k}
  /\ listening' = listening \ ({k} \X Channels)
  /\ SendUnsubscribes(Owner(k), {k})
  /\ UNCHANGED <<subs, inbox, made, emits, check, answers, bounds>>

\* _unsubscribeAfterOnce, in setImmediate.
AskNumsub(k) ==
  /\ check[k] = "queued"
  /\ check' = [check EXCEPT ![k] = "asked"]
  /\ UNCHANGED <<network, made, listening, timer, spent, emits, answers, bounds>>

\* Its answer: nobody else is subscribed, so unsubscribe this process,
\* whatever other listeners it has on the channel by now.
NumsubReply(k) ==
  /\ check[k] \in {"alone", "others"}
  /\ check' = [check EXCEPT ![k] = "none"]
  /\ sent' = IF check[k] = "alone"
             THEN [sent EXCEPT ![Owner(k)] = Append(@, Item("unsubscribe", k))]
             ELSE sent
  /\ UNCHANGED <<subs, inbox, made, listening, timer, spent, emits, answers, bounds>>

----------------------------------------------------------------------------
CallStep(k) ==
  \/ Subscribe(k) \/ Unsubscribe(k)
  \/ TimeoutOnce(k) \/ TimeoutOnceOf(k)
  \/ AskNumsub(k) \/ Numsub(k) \/ NumsubReply(k)

ProcStep(p) == Execute(p) \/ Receive(p) \/ Emit(p)

Next ==
  \/ \E k \in Calls : CallStep(k)
  \/ \E p \in Procs : ProcStep(p)
  \/ \E c \in Channels : Publish(c)

Spec == Init /\ [][Next]_vars

\* Redis answers, the event loop runs callbacks and timers.  Nothing obliges
\* anybody to call or to publish; since calls and messages are bounded, no
\* kind of step of a process can keep another one waiting for ever.
Fairness ==
  /\ \A p \in Procs : WF_vars(ProcStep(p))
  /\ \A k \in Once \cup OnceOf :
       WF_vars(TimeoutOnce(k) \/ TimeoutOnceOf(k) \/ AskNumsub(k) \/ Numsub(k) \/ NumsubReply(k))

LiveSpec == Spec /\ Fairness

----------------------------------------------------------------------------
Commands == [op : {"subscribe", "unsubscribe"}, of : Calls]

Items ==
  Commands \cup [op : {"subscribeFailed", "unsubscribeFailed"}, of : Calls]
           \cup [op : {"message"}, of : Channels]

\* Every variable holds what the comments at its declaration say.
TypeOK ==
  /\ use \in DOMAIN Uses
  /\ subs \in SUBSET (Procs \X Channels)
  /\ sent \in [Procs -> Seq(Commands)]
  /\ inbox \in [Procs -> Seq(Items)]
  /\ made \in SUBSET Calls
  /\ listening \in SUBSET (Calls \X Channels)
  /\ timer \in SUBSET (made \cap Timed)
  /\ spent \in SUBSET (made \cap (Once \cup OnceOf))
  /\ emits \in [Procs -> Seq(Channels)]
  /\ check \in [Calls -> {"none", "queued", "asked", "alone", "others"}]
  /\ answers \in [Calls -> Nat]
  /\ published \in 0 .. MaxMessages /\ errors \in 0 .. MaxErrors

\* The UNSUBSCRIBE that answers a subscribeOnceOf is on its way to Redis or back.
Answering(k) ==
  /\ k \in OnceOf
  /\ \E s \in {sent[Owner(k)], inbox[Owner(k)]} : \E i \in DOMAIN s :
       s[i].of = k /\ s[i].op \in {"unsubscribe", "unsubscribeFailed"}

\* The listener of a subscribeOnce or subscribeOnceOf is called once at most:
\* with a message or with the timeout, however replies, messages and timers
\* interleave, and whoever else listens on the channel.  And while one that has
\* a timeout, or has used up its once(), waits, its timer or an UNSUBSCRIBE is
\* there to call it: no order of them clears the one without the other.
OneAnswer ==
  \A k \in Once \cup OnceOf :
    /\ answers[k] <= 1
    /\ (k \in made \cap Timed \/ k \in spent) /\ answers[k] = 0 => k \in timer \/ Answering(k)

\* A timeout is a promise: the listener of a call that has one is called, even
\* if SUBSCRIBE or UNSUBSCRIBE fails.
TimedCallsAnswer == \A k \in Timed : (k \in made) ~> (answers[k] > 0)

\* No other call of the process of k is on its channels.
Private(k) == \A l \in Calls \ {k} : Owner(l) = Owner(k) => Chans(l) \cap Chans(k) = {}

\* A live listener that shares no channel with another of its process is never
\* deaf: Redis sends its process the messages of the channel.
NotDeaf ==
  \A k \in Calls : Private(k) =>
    \A c \in Channels :
      (<<k, c>> \in listening /\ k \notin spent) => <<Owner(k), c>> \in subs

\* A message that reaches a process while a call without a timeout listens is
\* answered to it, whatever the other calls on the channel do meanwhile.
MessagesAnswer ==
  \A k \in (Once \cup OnceOf) \ Timed :
    (\E i \in DOMAIN inbox[Owner(k)] :
       LET m == inbox[Owner(k)][i] IN
         m.op = "message" /\ m.of \in Chans(k) /\ <<k, m.of>> \in listening)
      ~> (answers[k] > 0)

\* In the end an answered subscribeOnceOf that shares no channel in its process leaves no
\* subscription behind, nor does an answered subscribeOnce that has its channel
\* to itself, where only SUBSCRIBE may fail.
OnlyOneOn(k) == \A l \in Calls \ {k} : Chans(l) \cap Chans(k) = {}

CleansUp(k) ==
  /\ Uses[use].errors \subseteq {"subscribe"}
  /\ IF k \in OnceOf THEN Private(k) ELSE OnlyOneOn(k)

Unsubscribes ==
  <>[](\A k \in Once \cup OnceOf :
         CleansUp(k) /\ answers[k] > 0 => Subscriptions(k) \cap subs = {})

\* README.md:109 - after its first event subscribeOnce unsubscribes "if no
\* other subscribers": the listener of another call keeps its channel.
OthersKeepTheChannel ==
  \A k \in Lasting : \A c \in Channels :
    <<k, c>> \in listening => <<Owner(k), c>> \in subs
=============================================================================
