# RediBox in TLA+

RediBox (`src/src`) is a node library of small services on top of Redis: a job
queue with workers, a cache, a scheduler that one node of several runs at a
time, and the pub/sub and connection handling they share.  This directory holds
TLA+ models of it, the TLC configurations that check them on small instances,
and theorems about them that TLAPS checks for every value of the constants.

## Inventory

| component | source | state | operations | what is hard |
|---|---|---|---|---|
| job queue: keys, workers, stall check | `modules/job/queue.js`, `job.js`, `scripts.js` | per queue in Redis: lists `waiting`, `active`; sets `stalling`, `succeeded`, `failed`; hash `jobs`; `stallTime`.  Per worker: one closure of `_runJob` for each job in hand | `save`, `_getNextJob`, `_runJob` and its `preventStalling`, `handleOK`, `handleError`, `_finishSingleJob`, `checkStalledJobs`, `retry`, `remove`, `destroy` | several processes on the same keys; a worker that dies, or is slow, with a job in hand; a copy of the job worked on while the stored one changes; timers that race replies |
| scheduling of the processor | `queue.js:407-459` | `running`, `queued`, ticks in `setImmediate`, listeners on the blocking connection | `process`, `jobTick`, `restartProcessing` | counters changed in separate callbacks; failed fetches; reconnects |
| relay jobs | `queue.js:241-339` | `job.data.runs`, `initialJob`, `initialQueue` | `_finishMultiJob` | a stage is saved before the MULTI that ends the one before it |
| job events | `job.js:133-219`, `queue.js:388-392` | subscriptions of a job | `onSuccess`, `onFailure`, `setProgress` | the event precedes the EXEC; retries send failure events; the timeout |
| job facade | `modules/job/index.js` | map of queues | `create`, `queueCreate` | nothing: the other operations are empty |
| pub/sub | `core.js:238-453` | listeners of this process per channel; channels Redis holds for it | `subscribe`, `subscribeOnce`, `subscribeOnceOf`, `unsubscribe`, `publish`, `_onMessage` | a count over all processes decides for this one; timeouts race replies and messages |
| boot and clients | `core.js:45-198, 455-490` | clients, readiness count, connection timer | constructor, `createClient`, `quit`, `disconnect` | the timer races the clients |
| cache | `modules/cache` | Redis keys with a TTL; `enabled` | `get`, `set`, `del`, `wrapPromise`, `bypass`, `clear` | two misses at once; `SET NX`; reads from a replica that fail |
| scheduler loop | `modules/schedule/index.js` | the lock key all nodes share; `_running`, `_completed`, `_stalled`, timers | `start`, `stop`, `_schedulerLoop`, `_schedulerLoopComplete` | lock replies later than the stall timer; one run per delay over all nodes |
| schedule intervals | `modules/schedule/interval.js`, `schedule.js` | none | `human`, `machine` | boundaries of a conversion |
| throttle scripts | `modules/throttle/scripts.js` | counter with a TTL | `throttle`, `pThrottle` | nothing: no code calls them |
| lock, ipc, indices, timeseries | `modules/*` | none | none: empty shells | |

Components call each other directly (a relay job goes through the job facade,
job events through pub/sub); processes meet only in Redis.

What makes them correct: a saved job is never lost, is given to one worker at a
time as long as workers keep their schedule, is retried as often as it was asked
to be, and ends; a processor neither stops taking jobs nor runs more of them
than it was told to; a listener of one message gets one message, and nobody
else's; one node at a time runs the schedules, and one always does.

`PROJECT.json` lists the hazards of this code at their lines, with the
properties that would catch them.

## Modules

| module | what it is |
|---|---|
| `JobLifecycle` | abstract: what the job module promises of each job |
| `JobQueue` | one queue, its Redis keys, its worker processes, its application; implements `JobLifecycle` |
| `MCJobQueue` | symmetry of the workers and runs for TLC |
| `JobQueueProofs` | theorems about `JobQueue` with workers and applications of any kind, and the lemmas about `LREM`, `RPUSH` and the order of `SMEMBERS` they need |
| `JobQueuePunctualProofs` | theorems about `JobQueue` with punctual workers, and that it implements `JobLifecycle` |
| `JobRelay` | relay jobs: `_finishMultiJob` and the stages of a job; implements `JobLifecycle` too |
| `JobRelayProofs` | theorems about `JobRelay`, the implementation among them |
| `QueueSlots` | `process` and `jobTick` of one processor: how many jobs it runs at once |
| `QueueSlotsProofs` | theorems about `QueueSlots` |
| `PubSub` | the pub/sub methods of the core, in several processes |
| `MCPubSub` | who calls what in the instances of `PubSub` |
| `PubSubProofs` | theorems about `PubSub` |
| `SchedulerLoop` | the scheduler's loop on several nodes, and the lock they share |
| `MCSchedulerLoop` | two named nodes |
| `SchedulerLoopProofs` | theorems about `SchedulerLoop` |
| `CacheAside` | the cache in several processes, a master, a replica, and data that change |
| `CacheAsideProofs` | theorems about `CacheAside` |
| `Boot` | the start of an instance: its clients, its timer, its answer; `quit` and `disconnect` |
| `BootProofs` | theorems about `Boot` |

The modules stand side by side, one per part of the code that keeps state of its
own; what one part needs of another is an assumption in the second: the workers of
`JobQueue` take jobs one by one (`QueueSlots` says how many), `JobRelay` takes the
keys of `JobQueue` as one place per job, which is what the refinement of
`JobLifecycle` by `JobQueue` shows of them.

### JobLifecycle

`place[j]` and `left[j]` are all there is to see of a job: where it is, and its
retries.  A job that is taken is `held`, by nobody else; its run ends it, or costs
it a retry and gives it back; a run that lets go of it without an end (its worker
dies, EXEC fails) leaves it `dropped`, and only what is dropped goes back to the
queue by a stall check.  Removing is for jobs nobody holds.

`JobQueue!PlaceOf` and `JobRelay!PlaceOf` say where the detailed modules have a job:
an id in `active` is held if a run has it in hand and dropped otherwise, and the
other lists and sets are places of their own.  Both modules state
`KeepsLifecycle == Lifecycle!Spec`.  `JobQueue` keeps it with punctual workers and a
careful application; with others it does not, as a job given back while a slow
worker holds it shows.

### JobQueue

One action is one Redis command, script or MULTI as Redis executes it, or one
callback in a worker.  The keys are the variables of the same name.  `waiting`
is a sequence whose head is the end `BRPOPLPUSH` takes: `LPUSH` appends, the
`RPUSH` of the stall check prepends, in any order, since `SMEMBERS` gives none.
`active` is a set: nothing reads its order, and `LREM key 0` and `SADD` are
blind to repetition.  The hash keeps, of a job, the retries it has left, the only
part another step reads.  `run[r]` is one open call of `_runJob`: its worker, its
job, the copy of the retries it was fetched with, its phase:

    free -Pop-> popped -Fetch-> running -Settle, Timeout-> succeeding | failing -FinishSingleJob-> free
                                running -Throw-> thrown -Timeout-> failing

A handler that is missing goes from `popped` to `failing`, or, where the job does not
even name one, out of `_runJob` with an exception that leaves the job active
(`FetchNameless`: `deepGet(global, undefined)`, `queue.js:131`).  A handler that rejects
without a reason makes `handleError` throw after it has stopped the keepalive
(`queue.js:179`), and the run is gone while its job stays active.  `thrown` is a
handler that throws before it returns a promise: the promise of `_runJob` is
rejected, yet the keepalive and the timeout go on.

The retries a job is saved with are `Stored(n)`, `n - 1` and so -1 for `retries(0)`;
a job that is not in the hash has `NoData`, which is no number.

Time is a pair of countdowns: `stallIn` until `stallTime`, and `due` for each run
of a worker in `Punctual`, the longest it may still take until its next command
for this job reaches Redis.  `Tick` is disabled while such a command is late.
Workers outside `Punctual` have no deadline: they stand for blocked event loops
and paused processes.

A stall check is gated by the `Date.now()` of its caller (`queue.js:473`), which the
script compares with `stallTime` and stores with the interval added
(`scripts.js:82-85, 106`).  `CheckLag` bounds how far that instant is behind, when Redis
runs the script, the clock that is ahead of all: the time the check was under way and
the skew of the processes' clocks.  Each check picks its lag: with `lag` it acts once
`stallIn` is down to `-lag`, and leaves a `stallTime` of which `lag` has passed, so that
a check that is not late may act `StallInterval - lag` after it.  Hence
`TimingAssumption`: half an interval (`preventStalling`), two round trips and `CheckLag`
fit in an interval.  Nothing in the code sees to that; processes on hosts whose clocks
differ by half a stall interval may take each other's jobs away.

`Careful` says whether the application calls `retry`, `remove` and `destroy` only
on a job at rest; the code accepts them always.

Three things the code does that the model leaves out, and why.  `Queue.createJob`
passes itself for `rdb` and no queue name, and `_save` ends in `this.queue.jobs`
where `queue` is undefined, so that path cannot save a job as it is written;
`AddJob` is the script with the arguments of `_save`.  A rejection with a falsy
value other than none counts as success (`queue.js:350` tests the value); that is
`resolve`.  A handler that timed out goes on running, with no effect on the keys.

### JobRelay

A relay is a job whose `data.runs` lists stages: `_runJob` looks up the handler of
the first (`Named`: a stage given as an object cannot be looked up, nor can none),
`_finishMultiJob` shifts it off.  `run[j]` holds the copy of the job this run works
on, `stored[j]` the hash: their difference is what a lost run costs.  `stages`, `fails`
and `told` are history.  Resolving a stage that is not the last runs
`job.create(...).save`, which throws in every case: for a queue the facade has no
entry, and for one it has, `createJob` passes the queue itself for `rdb`, which has no
`log`.  The MULTI is then never sent and the job stays active until a stall check, so
no relay gets past a stage by succeeding.  The module says what the code does here;
what a stage costs that fails is `EachFailureTakesAStage`, and that the docs promise
otherwise `RetriesAsDocumented`, which is violated.

### QueueSlots

A chain of callbacks (tick, `BRPOPLPUSH`, `HGET`, run, tick again) is at one stage
at a time; the variables count chains per stage beside the counters `running` and
`queued` of the code.  `ticks` is what waits in `setImmediate`, which no counter of
the code sees.  `paused` is left out: no code sets it.

### PubSub

A process has two connections with nothing to order them: `subscriber`, whose
commands wait in `sent[p]` and whose replies and messages come in order in
`inbox[p]`, and the client that asks `PUBSUB NUMSUB`, which is `check[k]` from
`queued` (in `setImmediate`) over `asked` and the count Redis gives to the reply.
`listening` is what is registered in `subscriberMessageEvents`, `subs` what Redis
knows: the properties are about where these differ.  `spent` is the state of the
two closures that decide whether a listener may still be called: `timedOut` of
`subscribeOnce` and the `once` around the listener of `subscribeOnceOf`.
`subscribeOnce` handles each of its channels apart from the others, so it is one
call per channel.  Deliberately kept: the timeout of `subscribeOnce` takes the
application's listener from the emitter although its wrapper was registered, so
the wrapper stays in `listening`; an error reply to `SUBSCRIBE` leaves the timeout
armed.  Without a listener `unsubscribe` takes no listener away (`core.js:441`) and only
sends `UNSUBSCRIBE`: the library does that after the count (`NumsubReply`); that an
application does it to listeners it keeps is left out.

What the applications call is a constant, `Uses`: the initial state picks one of its
members, so that one run explores several ways of sharing channels.

### CacheAside

A value is the version of the data it was read from, so that "stale" is a
comparison.  `call[p]` is the wrap or `del` a process is at.  Four details of the
code decide the module.  `getReadOnlyClient` ignores its argument, so the second try
after a failed read on the replica goes to the replica again, and the third, with no
bound (`ReadError`, `ReplicaError`; the comment says "just once", `cache/index.js:88`); its
callback takes the error argument for the value, so a hit on that try is a miss
(`Hit`).  A failed read on the master calls a method the cache does not have, inside
a callback: the promise never settles (`MasterError`); the same in `set` ends the
process.  `wrapPromise` prefixes its key before `get` and `set` do it again, so `del`
never deletes what it keeps (`PromiseKey`).  `bypass(false)` toggles.  `purged` is
history: the versions the last `DEL` was to get rid of, less those still in the
hands of a query.  The keys built from queries and models are one key: two keys do
not meet.

### Boot

The constructor, `reportReady` (an `after` of as many reports as there are clients),
the timer that answers with an error, and the callbacks of each client.  All options
that change the control are variables, fixed at the start.  Deliberately kept: a
client that becomes ready after the error was answered still counts, and the modules
are mounted; without hosts in cluster mode the constructor throws with the timer
armed; a scheduler without a subscriber throws when it is mounted; `quit` and
`disconnect` name `client` where they mean `client_read`, which is never closed.

### SchedulerLoop

`node[n]` is the `Scheduler` object of a node, with its timers as countdowns;
`sent[n]` and `replies[n]` are its connection, on which commands and answers may
be late by any time.  What a callback passes to `process.nextTick` is part of its
action.  `_processSchedules` is a test of `length` on an object, which has none: no
schedule is ever run, so the loop ends in the same turn, and a model of the
schedules would add nothing but `HasSchedules`, on which the delay depends.  Time
is discrete; a timer that is due stops the clock (`Tick`), answers do not.
`sinceLock` is history for `LockGap`.  An error reply to the lock command is a
crash: its handler names `sails`, which is not defined.  So is the second half of a
graceful stop within a loop (`StopAgain`): the method has lost its object.

After an error reply to `HGETALL`, `Object.keys(undefined)` throws in the loop before
it arms a timer or asks for the lock, and the promise of `start` logs that: the
node stays `running` with nothing under way (`LoopThrows`, `lost`).  The next start may
throw again without another error: if the 3 seconds of `_gatherSchedules` pass before
its `HGETALL` is answered, the schedules are the undefined ones of before.
`LoopGoesOn` says that these are the only ways to get there.  The guard of the action is
the order of the connection: the error comes after the answers to all lock commands
sent before.  Where the loop has gone ahead without the answer, or a timer of an earlier loop is left, its next turn reads the
same missing schedules in a callback and the process ends, which is a `Crash`.

## Runs

| run | instance | shows |
|---|---|---|
| `jq_punctual` | 2 jobs (one unique), 2 punctual workers, 2 runs, 2 failures, retries 0 and 3, interval 7, latency 1, checks up to 1 late | a job runs in one place, `KeepaliveBeatsCheck` and with it `PunctualNeverReset`, retries counted once, no id without data, `KeepsLifecycle` |
| `jq_laggy` | 1 job, 2 workers without deadlines, periodic check, 2 runs, 2 failures, handlers that throw, application calls at any time | what holds even then: `NoJobLost`, `StallingAreActive`, `EveryJobEnds` |
| `jq_stalled` | no periodic check | finding: `StalledIsReset` fails |
| `relay` | 2 relays of 1 to 3 stages, 0 or 2 retries, the third stage given as an object, 1 lost run | `EachFailureTakesAStage`, `ToldOfTheLastStage`, `LastStageEnds`, `KeepsLifecycle` |
| `relay_retries` | 1 relay of up to 2 stages, `retries(2)`, no failure but the handlers' | finding: `RetriesAsDocumented` fails |
| `slots` | concurrency 1 to 3, failed fetches, stuck runs, reconnects | `QueuedAccounting`, `SerialUpToTwo`, `NeverIdle`, `JobsAreTaken` |
| `slots_concurrency` | concurrency 3, nothing fails | finding: 4 jobs run |
| `pubsub` | 2 processes and 2 channels, in two uses: `private`, where no two calls of a process share a channel, and `shared`, where two calls of one process and one of another do; errors | `NotDeaf`, `OneAnswer`, `Unsubscribes`, `TimedCallsAnswer`, `MessagesAnswer` |
| `pubsub_deaf` | 1 process, `subscribe` and `subscribeOnce` on one channel | finding: `OthersKeepTheChannel` fails |
| `sched` | 2 nodes, delay 3, stall 1, lock 5, one stop or crash, any number of failed `HGETALL`s, 2 commands under way | `LoopGoesOn`, `LockGap`, `SomeoneRuns` |
| `cache` | 2 processes, one of which bypasses, a replica, 2 versions of the data, the second empty, failing reads without bound and one other failure | `StaleOnlyByRace`, `EventuallyFresh`, `Settles` |
| `boot` | all 64 combinations of options, clients that come and go in any order | `OneAnswer`, `MountedWithAll`, `ErrorOnlyUnmounted`, `Answered` |

Bounds.  Two jobs, workers and runs are what it takes for a worker to hold a job
another one is given, and for two jobs to swap places in the lists.  Two failures let a
worker die after it has been restarted.  An interval of 7 with a latency of 1 and checks
up to 1 late is the smallest that `TimingAssumption` allows (3 + 2 + 1 < 7), so it leaves
the race no room: a keepalive a whole interval apart is caught.  `retries(0)` and `retries(3)`
store the two sides of the test for retries, and a count that comes down through it.
In `jq_laggy` an interval of 1 lets a check act at every tick, under any number of open
runs; there are no deadlines it could take from, so `CheckLag` is 0.
`MaxWaiting` bounds the list, which duplicate
runs of slow workers could lengthen for ever.  In `slots` the listeners of
`restartProcessing` fire once for `close` and once for `error`: two losses exhaust
them.  In `PubSub` a process makes each call once, so what hurts is not a number but
who shares a channel with whom: the uses of `MCPubSub` are the three cases, nobody,
several waiting for one message, and one that stays.  One failure is enough there: a
second could only fail another call.  In `sched`
a delay of 3 leaves a gap of 1 after a stall of 1 and a random number of 1, and
two commands under way let the answer of a loop arrive in the next one; one break
is a stop, a restart within a loop, or a death with the lock in hand.  A start without
schedules is not counted.  In `relay`
three stages make a first, a middle and a last one, and two retries leave one after
a failure; jobs do not touch each other, and two of them are there for `JobLifecycle`,
whose steps may move several.  In `cache` two versions are old and new, one of them a
result the cache takes for a miss; a read may fail on every try, with or without one
failure of another kind.  `boot` has no bounds.

### What the findings say

* `checkStalledJobs` is called once per start of a processor (`queue.js:458`).
  The job of a worker that restarts within the stall interval stays in `active`
  for good, unless the application calls `checkStalledJobs(interval)`.
* `subscribeOnce` unsubscribes when `PUBSUB NUMSUB` is at most 1 (`core.js:311`).
  That counts connections: another listener of the same process goes deaf.  So does
  a new call on the channel made between the count and the `UNSUBSCRIBE`.
* From a concurrency of 3 on, more jobs run than configured: when runs end and a
  fetch is answered before their ticks have run, the test for room sees neither.
  Up to 2 the test never passes: `process(2)` runs one job at a time.
* `retries(n)` is "the number of times this job will retry" (`job.js:185`) and stores
  `n - 1` (`job.js:193`), which is how many retries are made: a job saved with
  `retries(2)` is tried twice.
* A relay is to "relay resolved data to the next job in the chain" (`src/README.md:21`).
  A failure takes the stage that failed off the list (`queue.js:260`) before it is written
  back: the retry runs the stage after the one that failed, with its input.

The models contain more of what the code does and may not mean to do, without a run
that is violated by it:

* `Job.fromData` throws for an id without data (`job.js:82`), out of a reply
  callback.  Such an id is left by a worker that is slower than the stall interval:
  its job is put back into `waiting`, then it finishes and deletes the data
  (`NoDanglingId` is for punctual workers).
* A node whose lock command is granted after its stall timer has fired does not
  shorten the lock (`schedule/index.js:253`): no node runs its loop for ten seconds.
* A relay never relays by succeeding either: what saves the next stage throws
  (`queue.js:319`), and the job waits for a stall check to run the same stage again.
* A wrap whose read from the master fails never settles (`cache/index.js:92`); a read
  that fails on a replica is repeated on the replica, without end while that fails, where
  the comment says that the master is tried "just once" (`cache/index.js:88`), and its value is
  then taken for a miss: without the case `Repeats`, `Settles` is violated; what `wrapPromise` keeps is under a key `del` does not delete; `bypass(false)`
  enables a cache that is disabled.
* A node whose `HGETALL` fails at its start stays `running` and never loops
  (`schedule/index.js:330`, `LoopThrows`).
* A graceful stop within a loop ends the process (`schedule/index.js:86`, `StopAgain`).
* `quit` and `disconnect` leave `client_read` connected (`core.js:463`, `core.js:481`).
  In cluster mode without hosts the constructor throws, and the timer answers later.

### Fairness

`LiveSpec` of `JobQueue`: processes are restarted; a live process answers its
events (weak fairness of each reply and timer); time passes (strong fairness of
`Tick`, which a busy queue disables for moments).  Handlers owe nothing: their
timeout does, where a job has one (60 s by default, `job.js:38`).  Neither the
application nor a failure is fair.  `EveryJobEnds` leaves out two cases for which
it is false: handlers that reject without a reason, whose retries are never
counted, and an error reply to the periodic check, which ends its chain
(`queue.js:475`).  `LiveSpec` of `QueueSlots`: every callback the event loop holds
runs, Redis answers, the connection comes back, runs settle.  `LiveSpec` of
`JobRelay`: workers take jobs, handlers settle or time out, EXEC answers, the stall
check is repeated; `LastStageEnds` is for a relay whose last stage has a handler,
or no retry that could leave it without one.  `LiveSpec` of `PubSub`: for each
process weak fairness of its connections and callbacks together, for each call weak
fairness of its timer and its check; since calls and messages are bounded, none of
these steps can keep another away for ever.  Nobody owes a call or a message.
`LiveSpec` of `CacheAside`: Redis answers, expires and replicates, lost connections
come back, queries return; nobody owes a call, a change of the data or a failure.  The
answer to a read may be an error each time, so a wrap that hears nothing else from the
replica need not settle: `Settles` says so in `Repeats`.
`LiveSpec` of `Boot`: the constructor runs, and the event loop runs timers and
`setImmediate`; no client owes a connection, so `Answered` is the timer's promise.
`LiveSpec` of `SchedulerLoop`: the same, and time passes (strong fairness, for a due
timer disables it); nobody owes a start, so `SomeoneRuns` supposes a node that is
not stopped and has got its schedules.

## Proofs

`JobQueueProofs` proves, for any set of workers and runs, any finite set of jobs,
any number of failures and every choice of the other constants,

* `JobQueueTypeOK`: `Spec => []TypeOK`, by one step per action;
* `JobQueueNoJobLost`: with `TypeOK`, `NoJobLost` is inductive: each action that
  takes an id out of a list or set puts it into another or deletes its data;
* `JobQueueStallingAreActive`: with `TypeOK` it is inductive.

The lists need facts no prover finds alone: a section of their own states them once
(`IdsLREM`: what `LREM` leaves; `IdsConcat`, `OrdersAreLists`: what the reset adds;
`NoDupLREM` and its like: what keeps a list free of repetitions).
`LREM` is defined by rank instead of by recursion, so that this can be proved.

`JobQueuePunctualProofs` assumes `Disciplined`: every worker is punctual, and the
application retries, removes and destroys only jobs at rest.  Failures, crashes,
handlers and the order of everything stay free.  Its theorems are
`JobQueueKeepaliveBeatsCheck`, `JobQueueOneRunPerJob`, `JobQueueOnePlacePerJob`,
`JobQueueNoDanglingId`, `JobQueueRetryBudget` and `JobQueuePunctualNeverReset`.  None is
inductive alone, for each hangs on the race that the keepalive has to win.
`PunctualInv` takes them together and adds what they hang on, `InTime`: a run is due
at most `MaxDue` from now, and if its job is in `stalling`, the run is due so early
that its keepalive, and the one after, still come before the next check.  From this,
`TimingAssumption` gives that no check finds a job in hand; from that, that a job is
given to one run and is in one place; from that, that each failure is counted once.

The same module proves `JobQueueKeepsLifecycle` from `PunctualInv` and
`NoJobLost`: each action maps to a step of `JobLifecycle` or a stutter.  A crash is a
`Drop` of all the worker held, a stall check is a `GiveBack` of all of `stalling`
(which are dropped, since no punctual run is ever reset), `destroy` and `remove` are
`Remove`; ticks, fetches and keepalives stutter.

`JobRelayProofs` proves `RelayTypeOK`, `RelayEachFailureTakesAStage`,
`RelayToldOfTheLastStage` and `RelayKeepsLifecycle` for any jobs, stages, retries and
failures.  The invariant relates the copy in a run to the hash and both to the
history: a copy is fresh until the handler settles and then one stage short, the hash
has lost a stage and a retry per failure, and an event told and not yet followed by
its EXEC is paid for by a fault if it is told again.

`PubSubProofs` proves `PubSubTypeOK`, `PubSubOneAnswer` and `PubSubNotDeaf` for any
processes, channels, uses, failures and number of messages, and any finite set of
calls.  Commands and replies are tokens: the invariant (`CallInv`, one conjunct per
question) says that the `SUBSCRIBE` of a call is on one of the two queues of its own
process, once, or has been turned into listeners; that the same holds of the
`UNSUBSCRIBE` by which a `subscribeOnceOf` is answered, which exists only once the call
is spent; and that before a call is answered or timed out nothing of its own that
would end the subscription is under way (`Lives`).  Calls that share no channel in
their process cannot do it either (`PrivateApart`).  The lemmas about `Gains` and
`Loses` say once what appending, taking and sending do to the tokens of a call.
`OneAnswer` has a second half: a call with a timeout that is not answered either has
its timer or is being answered, so nobody is forgotten.  It is proved by an invariant of
its own, `DueInv`, on top of the first: a step that takes the timer away leaves the
`UNSUBSCRIBE` whose reply answers, and what has it on a queue passes it on.

`QueueSlotsProofs` proves, for every concurrency and every bound, `SlotsTypeOK`,
`SlotsQueuedAccounting`, `SlotsSerialUpToTwo` and `SlotsNeverIdle`.  The induction
needs one fact the properties do not state: the listeners armed and the chains
restarted are at most two together.  `SlotsFailedFetchesTakeRoom` says what the
accounting costs: a failed fetch is counted in `queued` for good, and once as many have
failed as jobs are configured, less two, no chain is ever added but by a reconnect.

`SchedulerLoopProofs` proves `SchedulerTypeOK`, `SchedulerLoopGoesOn` (a node that
runs and has its schedules has a timer armed or a start under way, inductive with
the types, forced stops included) and, for stops that are not forced,
`SchedulerLockGap`: for any nodes, times, stops, crashes and delays of commands and
answers, two grants of the lock are `LoopDelay - StallAfter - MaxRand` apart. The
invariant has three parts that lean on each other: a loop that is not completed is
younger than its stall timer allows (`StallGuards`); hence every `PEXPIRE` under
way, whoever's lock it will meet, leaves the gap (`CommandsLate`); hence the age of
the lock and its time to live make up the gap (`LockLasts`). In the code the stall
time is 100 ms and 15 ms per schedule: with 25 schedules and a delay of 500 ms the
gap proved is zero, and nothing is promised.

`CacheAsideProofs` proves `CacheTypeOK` and `CacheStaleOnlyByRace` for any processes,
versions, times to live and failures, with a replica and without.  What makes
`StaleOnlyByRace` inductive is `InFlight`: a `SET` has a value to set; what the last
`DEL` was to get rid of is older than the data; and no wrap that fills the deleted key has
one of those values in hand.  What a wrap picks up
later comes from the source, never from a server's reply, so a replica that lags cannot
bring a deleted value back; the promise of `wrapPromise`, which reads the source before the
miss, could, but its key is another.

`BootProofs` proves `BootTypeOK`, `BootOneAnswer`, `BootMountedWithAll` and
`BootErrorOnlyUnmounted` for all options and every order of the clients.
`BootInv` adds to the properties where an answer can come from: a client that reports is one of the
options' clients, and the subscriber reports with its emitter (`Reporting`, `Connected`);
what is mounted is mounted by the last report, when the timer has been cleared or has
fired, and each of the two answers has a cause that excludes the other (`Mounting`).  The
lemma `ReportCounts` gives `after` its meaning: each report leaves one less to wait for, and the
last one means that all have reported.  The model has no bound but the number of clients, so TLC has
explored it whole; the proof says why it holds.

The assumptions used are `JobsAssumption`, `TimingAssumption`, `SlotsAssumption`,
`SchedulerAssumption`, `RelayAssumption`, `PubSubAssumption` and `CacheAssumption`, and `Disciplined` where
it is said; TLC evaluates the assumptions in every run of their modules.

Only model-checked: all liveness (`EveryJobEnds`, `LastStageEnds`, `JobsAreTaken`,
`TimedCallsAnswer`, `MessagesAnswer`, `Unsubscribes`, `SomeoneRuns`, `EventuallyFresh`,
`Settles`, `Answered`), which is beyond the prover.  For some of it the proofs have
the safety half, that the step which owes the answer cannot be lost: `OneAnswer` of
`PubSub` and `Boot`, `LoopGoesOn`, `NeverIdle`, `NoJobLost`.  Every invariant and action
property a passing run checks is also proved, those of `JobQueue` that need a punctual worker
under `Disciplined`, and `LockGap` for stops that are not forced.

## Plan

Done: all modules above, with their runs and theorems.  Left, in this order:

1. `JobNotify`: the events of a job against its state, on top of `PubSub`: the event
   precedes the EXEC (`queue.js:388`), a retry sends a failure event that spends the
   listener, the listener times out two seconds after the job does.
2. `Interval` as an operator against a reference definition.
3. The list of schedules of `SchedulerLoop`: the events by which nodes keep their copies.

## Not modelled

* Logging, key formatting, Lua command definition: wording, and a loop at start-up.
* Redis and ioredis beyond the commands the code uses.
* The empty modules (`lock`, `ipc`, `indices`, `timeseries`, the methods of `throttle`)
  and methods (`queueDestroy`, `queuePause`, `queueResume`): there is nothing to model.
* `checkHealth`, `isInSet`, `getJob`, `status`: reads that no step depends on.
* `clear` and `list` of the cache: they throw on their first line, which names a method
  the cache does not have.  Its `lcap` script is called by nothing.
* The keys the cache makes of queries and models: one key stands for each.
* `_onPatternMessage`: nothing in the library subscribes to a pattern.
* The throttle scripts: nothing calls them.
* `unsubscribe` without a listener by an application, whose listeners then stay in the
  emitter and hear nothing (`core.js:441`).
* Job events (`onSuccess`, `onFailure`, `setProgress`), schedule intervals, the list of
  schedules: see the plan.
