# TLA+ models of hi-kafka-ext

This directory holds TLA+ models of the repository under `src/`, the TLC
configurations that check them on small instances, and theorems with proofs
that TLAPS checks for every value of the constants. `PROJECT.json` lists the
components, the runs, the mutants, the source lines behind every definition,
the findings, the hazards and the theorems.

## 1. The system

A PHP extension talks to Kafka through a worker process that it forks itself.
One worker serves all PHP processes of a node over a Unix socket.

```
 PHP process(es)                                   worker process (one per socket)
 ----------------                                  -------------------------------
 PHP API  (lib.rs, client.rs)
   | subscribe/poll/commit/...                      main.rs / worker_entry.rs
 virtual subscriptions (subscription.rs)              | signals, flush, exit
   | real ids, resubscribe on SubscriptionNotFound  server.rs: accept loop, idle
 IPC client (ipc.rs) -- with_retry, cid, timeouts     | and goodbye exits, drain
   | ensure ---> health cache, spawn lock, fork       |
   |        ---> cluster replay                       |
 connection pool (pool.rs) ==== Unix socket ====> one task per connection
   |                            frames of proto/    |            |
 module shutdown (lifecycle.rs): goodbye     consumer backend   producer backend
                                             (consumer/real.rs) (producer/real.rs)
                                                    |            |  cluster.rs
                                                       librdkafka
```

### Inventory

| Component | State | Operations | What is hard | What makes it correct |
|---|---|---|---|---|
| Consumer backend, `worker/src/consumer/real.rs` | buffer, `buffer_bytes`, `paused`, `user_paused`, `terminated`, the stream task, blocking jobs, the queue of rebalance events | subscribe, stream loop, poll, auto pause / resume, pause, resume, seek, commit, unsubscribe, rebalance callbacks, poll_rebalance_events | long polls, the stream task and blocking jobs interleave; `notify_waiters` can be missed; flags are read outside the mutex; the event queue drops its oldest | each message is returned once, in order, or counted as dropped; the counters are exact; a dead stream is reported; PHP knows its assignment |
| Virtual subscriptions, `ext/src/subscription.rs` | registry virtual id -> real id, a mutex per entry | subscribe, poll / commit with one resubscription, unsubscribe; the control calls bypass it | several threads heal one handle; answers come too late; the worker restarts its id counter | one live real subscription per handle, none forgotten, the handle heals and, once closed, stays closed |
| IPC client and pool, `ext/src/ipc.rs`, `pool.rs` | idle stack, cids, the exchange in progress | acquire, write, receive, time out, retry once, release or poison | late responses, cuts at any point, retries of what was already done | a connection has one owner, a response is read by its own call, every call returns |
| Connection task, `worker/src/server.rs` | one request in hand per connection | read a frame, check its limit, dispatch, answer | panics, aborts, clients that have gone, frames over a limit | requests are answered once and in order, with what their handler answered |
| Wire protocol, `proto/`, error mapping | none | encode, decode, error kinds | truncated and oversized payloads, versions | each side reads what the other wrote, or rejects it |
| Spawning, `ext/src/spawn.rs`, `worker_health.rs`, `worker_entry.rs` | flock, socket file, readiness cache | ensure, fork, wait, bind, drain, flush, unlink, exit | several processes race; a worker exits while its successor starts; flock is inherited by fork | one worker per socket, its socket file is its own, the service recovers |
| Cluster replay, `ext/src/cluster_replay.rs` | clusters registered by this process | record, replay after a respawn | who respawned it, and whether this process notices | an operation never finds its cluster unknown |
| Server lifecycle, `server.rs` run / drain, `shutdown.rs`, `main.rs`, `ext/src/lifecycle.rs` | draining flag and its `Notify`, JoinSet, idle clock, `expedited` | accept, drain, abort, flush, idle exit, goodbye | idle exit racing a new connection, a missed drain notification, tasks aborted with requests in hand | the worker ends itself only when nobody needs it, finishes what it accepted, and a stop completes |
| Producer backend and cluster registry, `producer/real.rs`, `cluster.rs` | configuration and version per cluster, cell table, `OnceCell`, transactions | produce, flush, begin / commit / abort / send_offsets, register | a cluster is replaced while its producer is built or used; a new producer fences the old one | the producer used belongs to the current configuration, it is built once, a commit tells the truth |
| PHP API, metrics, stubs | none of interest | argument and result conversion | | |

## 2. Modules

| Module | Models | Proofs |
|---|---|---|
| `ConsumerSub` (`MCConsumerSub`) | one subscription of the consumer backend | `ConsumerSub_proofs` |
| `Delivery` | what a subscription promises to PHP; `ConsumerSub` implements it | refinement in `ConsumerSub_proofs` |
| `VirtualSub` (`MCVirtualSub`) | virtual subscriptions over an abstract worker | `VirtualSub_proofs` |
| `PoolIpc` | pool, exchange, retry and connection task | `PoolIpc_proofs` |
| `WorkerSpawn` | spawn lock, worker life, cluster replay | `WorkerSpawn_proofs` |
| `ServerLifecycle` | accept loop, exits, drain, flush, goodbyes | `ServerLifecycle_proofs` |
| `ProducerCache` | registry, cells, producers and transactions of one cluster | `ProducerCache_proofs` |
| `Payloads`, `Codec` | what every payload consists of, on either side; the codec byte for byte | model-checked only |
| `Wire` (`MCWire`) | handshake, requests, handlers, answers and errors over a codec | `Wire_proofs` |

The modules meet at their edges. An RPC is one step in `VirtualSub` and
`WorkerSpawn`, a sequence of steps in `PoolIpc`, and a frame with bytes in
`Wire`. The worker's table of subscriptions in `VirtualSub` stands for what
`ConsumerSub` models of each; its handlers' answers in `Wire` stand for what
`ConsumerSub` and `ProducerCache` do. `WorkerSpawn` sees the end of a worker
from outside, `ServerLifecycle` from inside, and `DrainEnds` / `Flush` of
`ProducerCache` are the abort and the flush of `ServerLifecycle`.

### ConsumerSub and Delivery

A step is what no other thread can observe half-done: one critical section of
the buffer mutex, one atomic access, one call into librdkafka. `poll` is
therefore six steps (`PollStart`, `PollDrain` or `PollFoundEmpty`,
`PollTerminated`/`PollEmpty`/`PollNotTerminated`, `PollArm`, `PollWoken` or
`PollTimeout`, `PollMaybeResume`), `stream_loop` is `StreamFetch`,
`StreamPush`, `StreamNotify`, `StreamMaybePause` and its error branches, and
the closures given to `spawn_blocking` are jobs that run at any later time and
in any order (`AutoPauseRead` and
`AutoPauseCall`, `AutoResumeRead` and `AutoResumeCall`: `assignment()` and the
call on what it returned). The length
and byte count that `maybe_pause` and `maybe_resume` receive are kept per actor
(`slen`, `plen`, ...), since they are stale by the time they are used.
`NotifyWaiters` wakes exactly the polls whose `Notified` future exists.

A message is its partition, offset, size, seek generation and arrival number;
the last two are history. `handed` and `dropped` record what became of each.
librdkafka is external: assignment, paused partitions, position, stored and
committed offsets, changed as `real.rs` uses them. Whether a pause outlives a
revocation is left open. The callbacks of `RebalanceCtx` are steps of their own,
before or after librdkafka moves the partitions: `Revoke` queues the event and
`Revoked` takes the partitions, `Assign` gives them and `Assigned` queues the
event, a failed rebalance queues an error in both (`RebalanceError`,
`RebalanceFailed`). `rebalance` is where one is between the two; meanwhile polls,
control calls, jobs and PHP's fetches of events go on, and only the stream
yields nothing, since the callbacks run inside a poll of librdkafka. Events go
through the queue bounded by `MaxQueue`, which drops its oldest.

`Delivery` is the promise without threads: messages arrive, leave from the
oldest on in batches, and an arrival at the limit may push out the oldest. The
mapping is `arrived <- pushed`, `left <- pushed - Len(buffer)`,
`delivered <- Numbers(handed)`, `lost <- Numbers(dropped)`; `DeliversInOrder`
is the abstract specification under it.

### VirtualSub

`registry` is the map of `subscription.rs` (0: no entry), `snap` the copy of
the entry each call works on, `lock` the entry's mutex. The worker is a table
of live subscriptions and `SEQ`, which a `Crash` resets. `ResubscribeFails`
includes the subscribe that is carried out and answered too late (`late`), and
`SubscribeLate` is the same for the first subscribe of a handle, after which PHP
has an error and no handle.
`Control` / `ControlDone` are seek, pause, resume, send_offsets and
poll_rebalance_events, which send the virtual id as it is.

### PoolIpc

A connection is two FIFO streams and two ends; frames carry a cid and whether
they are answered (all are, except Unsubscribe). A call goes through `Begin`,
`TakeCid`, `AcquireIdle`/`AcquireNew`, `Write`, and `Recv`, `RecvEof` or
`RecvTimeout`; `Fail` is `with_retry`. `Serve`/`Respond` are the connection
task; `ServerCuts` ends it at any point (a panic, an oversized frame, the abort
at the end of a drain, the death of the worker). Read and write timeouts may
fire at any time.

### WorkerSpawn

`lock` is the set of processes that share the open file description on which
`flock` was taken: `fork` adds the child, and the lock is free when the set is
empty. A worker goes through `starting`, `serving` (bound), `draining`,
`flushing` (listener closed, producers flushed), `unlinked` and `exited`, and
may die at any point, leaving the socket file. A child forked from a process
with other threads may block for ever on a mutex one of them held (`Hang`;
`spawn.rs:165` warns of it and lets it happen unless `HI_KAFKA_STRICT_FORK` is
set): it holds the inherited lock, and nobody forks until it is killed. Each PHP process registers one
cluster; `recorded` is its replay cache and `cached` its readiness cache.

### ServerLifecycle

`phase` is where `Server::run` and then `main` are: `top` (the `select!` with a
fresh `wait_draining` future), `arm` (the flag has been read, the `Notified` not
yet created), `wait`, `drain`, `abort`, `flush`, `unlink`, `exited`. The
branches of the `select!` are the actions `SeesDrain`, `Accept`, `JoinNext` and
`Tick`; any branch that is ready may win, so that a connection may still be
accepted after the draining flag is set. The signal task stores the flag and
notifies in two steps (`SignalStores`, `SignalNotifies`), and only a `Notified`
that exists is woken. Tasks read frames, queue a message, wait for the delivery
report and answer; `queued` is what librdkafka still holds, `stale` the part of
it that is in producers which `entry_for` has replaced since, after a new
registration of the cluster. The flush reaches only the producers in the cache:
`FlushDone` waits for `queued \ stale`, `FlushExpires` gives up on it. Time is counted in
idle checks: `idle` and `sub` are ages capped at the timeout. A module shutdown
is `SayGoodbye`: an unsubscribe, if the process has a subscription, Goodbye and
the close, nobody waiting for an answer.

### ProducerCache

A step ends where the code awaits: `ReadCell` and `InsertCell` are `cell_for`
under the read and the write lock, `InitDone`, `InitBuilds`, `BuildDone` and
`BuildFails` are `get_or_try_init`, `Compare` and `Replace` the version check of
`entry_for`. A cell holds at most one producer and names it. `Flush` empties the
queue of the producer in the table, or runs out of time and leaves it. The broker's
coordinator is external: a transactional producer that is built fences the
older one and aborts its transaction. `acked`, `torn` and `lied` are history:
what a client was told is in its transaction, and whether a commit answered Ok
without it.

### Payloads, Codec and Wire

`Payloads` gives, for each payload, the items `encode()` writes (`<Payload>_out`)
and separately those `decode()` checks and reads (`<Payload>_in`). `Codec` holds
one interpreter for each direction. A byte knows which integer it belongs to, so
that a misaligned read is seen; a decoder that reads past the end is a panic.

`Wire` puts these payloads in frames: the handshake, `check_per_frame_limit`,
every handler with its refusals, backend errors, panics and decode errors, the
answer, `recv_resp`, and the mapping of worker errors to PHP exceptions. What a
backend answers is any answer it may give. The codec is a parameter of `Wire`
(`encode`, `decode`): `wire.cfg` gives it the interpreters of `Codec`, the proofs
know of it what `CodecAssumption` says, and TLC evaluates that assumption on the
interpreters. A connection is numbered by the call that opens it. Limits are
scaled (`StrMax` for 65535, `CONTROL_MAX`, `PRODUCE_MAX`, `MAX_PAYLOAD_LEN` for
64 KiB, 4 MiB, 16 MiB) in the order they have in the code.

## 3. Runs

Deadlock is checked except where the system may really stop (all calls made,
all handles closed, the worker gone). Distinct states are given for a sense of
size.

| Run | States | Checks | Bounds and why they suffice |
|---|---|---|---|
| `consumer_polls` | 113 k | `TypeOK`, `ExactlyOnce`, `WithinCapacity`, `BytesExact`, `TerminationReported`, `EventuallyHanded`, `DeliversInOrder` | two polls, three messages of sizes 1, 1, 2, capacity 2: the overflow by count and the watermarks occur with two polls at every step, stream errors up to the limit and an unsubscribe |
| `consumer_control` | 4.2 M | `BytesExact`, `SeekOrder`, `AssignmentKnown` | one poll and one control caller, failing librdkafka calls, a seek back to the first offset, messages of sizes 1 and 2 in two bytes of room (the overflow by bytes), commits, and rebalances whose events overrun a queue of one, fetched by PHP at any moment between the callbacks |
| `heal` | 31 k | `AtMostOneLive`, `OrphansAreLate`, `Healed`, `HandleStaysClosed` | two loops on one handle, five ids, one crash, streams that end, two late answers, unsubscribes: several rounds of healing by both loops |
| `ipc` | 144 k | `TypeOK`, `ExclusiveConn`, `PoolClean`, `OwnResponse`, `TwiceOnlyAfterCut`, `CallReturns` | two threads, three connections, a pool of one, two calls, each with its retry: reuse, a full pool, a retry beside another call |
| `spawn` | 59 k | `TypeOK`, `AtMostOneWorker`, `ServingReachable`, `ServiceRecovers` | two processes, two worker processes whose ids are reused: a forker and a waiter, an exiting worker and its successor, a child that hangs |
| `server` | 274 k | `SelfExitCutsNobody`, `AckedIsAnswered`, `FlushIsLast`, `DrainCompletes`, `IdleExits` | two producing connections, one of which also consumes, a subscription, a signal at any moment, an idle timeout of one check; connection ids are reused, so that a goodbye, an idle check and a drain each meet a new connection |
| `producer` | 169 k | `TypeOK`, `FreshAtStart`, `OneProducerAtFirst`, `CommitTruthful`, `CallReturns` | two callers, one of them transactional, the configuration overwritten once, three cells: a rebuild beside an operation, and two rebuilds at once |
| `wire` | 1.2 M | `Understood`, `RightAnswer` | every request type, two calls; payloads over each limit, strings and lists over the u16 length, batches over the frame limit, payloads cut at any byte, extensions of two majors |

The bounds are for TLC; the theorems of section 5 need none of them.

What the runs show, by component:

- **Consumer.** Every message fetched is buffered, handed to one poll, or counted
  as dropped; batches are runs of the oldest messages (`DeliversInOrder`, which
  is the refinement). A missed `notify_waiters` costs a poll its timeout and no
  message (`EventuallyHanded`, `TerminationReported`). What was fetched before a
  seek never follows what was fetched after it (`SeekOrder`). PHP that has read
  all events knows its partitions although the queue drops events, and never
  counts on one that a rebalance is moving (`AssignmentKnown`, for the eager protocol, whose events carry the whole
  assignment).
- **Virtual subscriptions.** Two loops that find their real id gone subscribe
  once between them; a subscription is forgotten only if the answer to its
  subscribe came too late, one per late answer (`OrphansAreLate`).
- **Pool.** No reader meets the response of another call, not even after
  timeouts; nothing runs twice after a timeout (`TwiceOnlyAfterCut`).
- **Server.** The worker ends itself only without a connection it accepted
  before the decision. An acknowledged produce loses its answer only if
  `drain_timeout` expires; messages are left only if it does and, besides, the
  flush expires too or does not reach their producer, which a new registration
  has replaced. A stop completes although
  `wait_draining` can miss its notification, since the idle tick comes back to
  the flag; an abandoned worker ends itself.
- **Spawning.** Never two workers on a socket, and a worker found dead is
  replaced, unless a forked child hangs with the lock.
- **Producer.** An overwritten configuration is in force for every operation
  that begins after it; concurrent first calls build one producer, of which a flush leaves messages
  only if it runs out of time; a commit
  answers Ok only for everything acknowledged since begin, with one
  transactional client per cluster (`producer.rs:28` has one transaction at a time
  per cluster; begin does not wait for another client's to end).
- **Wire.** Encoders and decoders agree for each payload, no prefix of a payload
  decodes, and PHP is told what the handler of its own request answered.

Every property has a mutant, an operator `<Definition>_<Bug>` beside the
definition it would replace, under which the run reports the property violated.

### Findings

Four runs state what a comment, a document or a test says and the code does
not do; TLC finds each violated. `PROJECT.json` quotes the lines.

| Run | What TLC shows |
|---|---|
| `consumer_stall` | `maybe_pause` acts on a length read before a poll drained the buffer and found nothing to resume; the fetcher is paused over an empty buffer |
| `consumer_commit` | `commit` covers messages that are still in the buffer |
| `control_crosstalk` | seek and the other control calls send the virtual id as a real one: two first subscribes that overlap get real and virtual ids in different orders, and a control call acts on the other handle's subscription |
| `spawn_other_process` | another process respawned the worker; this one's clusters are unknown |

Behaviours of the models, or seen while modelling, that have no run of their
own and that a property must not exclude:

Consumer

- nothing orders the blocking jobs either: a resume job that overtakes the pause
  job it should undo leaves the fetcher paused with `paused` false
  (`real.rs:884`), which breaks `FetcherResumed` in a longer trace than the one
  TLC reports;
- after a rebalance the new assignment is not paused although the buffer is over
  its high watermark, since `paused` is still set (`real.rs:876`);
- an auto-resume that has read `user_paused` undoes a later `pause()`
  (`real.rs:944`);
- messages fetched before a seek stay in the buffer and are polled after it,
  which `tests/php/seek.php:10` does not expect;
- `buffer_bytes` may exceed `buffer_bytes_capacity`: one pop does not make room
  for a larger message (`real.rs:1135`);
- a message pushed between the two checks of `poll` is discarded with the dead
  subscription (`real.rs:479`);
- a batch that was drained for a poll whose answer cannot be delivered, or is
  over 16 MiB, is lost (`server.rs:515`);
- with the cooperative-sticky assignor (`README.md:343`) events are increments,
  and a dropped one cannot be made up for: `AssignmentKnown` speaks of the eager
  protocol only.

Virtual subscriptions

- the control calls need no overlap to go wrong: ids also differ in a process
  that subscribes when another has, and after a handle has healed;
- after a restart of the worker a stale real id may name another handle's
  subscription, since `SEQ` starts at 1 again (`worker/src/consumer.rs:31`); `OwnSubscription`
  fails for that reason too, with `Controls = FALSE`, `MaxCrashes = 1` and two
  handles. The healed real id may also equal the stale one, and the second
  caller subscribes again (`subscription.rs:172`);
- a call that is healing a handle while it is unsubscribed leaves a real
  subscription in the worker (`subscription.rs:135`).

Spawning

- a child that hangs on an inherited mutex keeps the lock: every later call times
  out in `wait_for_socket` until somebody kills it (`spawn.rs:165`);
- `wait_for_socket` may time out before the worker binds; the next call finds it
  alive and the clusters are not replayed (`worker_health.rs:66`);
- a process that does not get the lock may wait for a socket nobody is going to
  create: the lock belongs to a worker on its way out (`spawn.rs:117`).

Server

- with `idle_timeout` 0, as a standalone worker may be run, nothing leads back to
  the flag after a missed notification until the next connection:
  `DrainCompletes` fails with `IdleTicks = 0`;
- `expedited` is never reset: after one Goodbye every later end of the last
  connection ends the worker;
- an idle tick that reaps the last finished task keeps `join_next` from seeing
  it, and the exit promised at once (`server.rs:98`) waits for the idle timeout;
- a connection may be accepted after the drain has begun, since `select!` picks
  among ready branches; it is then aborted or answered as the others are.

Producer

- two callers that find a stale producer may each replace the cell: at one
  version the client is created and `init_transactions` called twice, against
  `producer/real.rs:70`;
- `flush` reaches the producer of the current cell; messages of a replaced one
  are waited for only by their own calls, and are gone when these are aborted
  (`FlushIsLast` allows for it);
- with two transactional clients on one cluster a commit of one may cover or tear
  what the other was acknowledged.

Wire

- the kinds NotTransactional, OffsetInvalid, TxnState, Timeout and
  WorkerUnavailable are never produced; begin on a cluster without a
  `transactional.id` is answered Internal;
- the worker answers every ProduceFnf, after the delivery report, although
  `frame.rs:22` says that it is not answered; a sender that does not read keeps
  these answers on its connection;
- errors of the pool and of the exchange reach PHP as plain `\Exception`, against
  `kafka_exception.rs:1`;
- a second Hello and frames of an unknown type are dropped without an answer;
- a frame between the limit of its type and 16 MiB ends its connection
  (`server.rs:291`);
- the `group_id` of send_offsets is decoded and never compared, although
  `send_offsets.rs:42` says that the worker does;
- integers from PHP are converted with `as` and wrap (`client.rs:200`).

## 4. Fairness

- `ConsumerSub`: tokio runs the stream task and the blocking pool runs its jobs
  (WF); a PHP consumer loop keeps polling and its sleeps end (WF on each poll).
  Nothing is assumed of Kafka: no message, error or control call is owed.
- `VirtualSub`: each loop keeps calling (WF, and SF on its start); operations and
  subscribes do not fail for ever (SF on `OpGone` and `Resubscribe`). Crashes and
  late answers are bounded.
- `PoolIpc`: a thread in a call takes its next step (WF): every read and write
  has a timeout. Nothing is assumed of the worker. The bound on calls matters
  for `CallReturns`: with unboundedly many concurrent calls a thread could keep
  popping dead connections that others return.
- `WorkerSpawn`: PHP keeps calling; fork does not fail for ever, and not every
  forked worker that does not hang dies before it binds (SF); a worker told to
  stop gets on with it (WF). A hung child owes nothing, and `ServiceRecovers`
  excepts it.
- `ServerLifecycle`: the loop, the tasks, the timers and the shutdown go on
  (WF); `select!` polls its branches in random order, so that none is starved
  (SF on `SeesDrain` and `Tick`). Clients and signals owe nothing.
- `ProducerCache`: a task that can go on goes on (WF), since message.timeout.ms
  and the 30 seconds of the transaction calls end every wait outside; the
  semaphore of a `OnceCell` serves its waiters in order (SF on `InitBuilds`).

## 5. Proofs

Each theorem holds for every value of the constants.

| Theorem | States |
|---|---|
| `ConsumerSub_proofs!TypeCorrect` | `Spec => []TypeOK` |
| `ConsumerSub_proofs!MessagesExactlyOnce` | `Spec => []ExactlyOnce` |
| `ConsumerSub_proofs!BufferBounded` | `Spec => []WithinCapacity` |
| `ConsumerSub_proofs!PhpKnowsAssignment` | `Spec => []AssignmentKnown` |
| `ConsumerSub_proofs!SeeksKeepOrder` | `Spec => []SeekOrder` |
| `ConsumerSub_proofs!BytesAreExact` | `Spec => []BytesExact` |
| `ConsumerSub_proofs!ImplementsDelivery` | `Spec => DeliversInOrder` |
| `VirtualSub_proofs!TypeCorrect` | `Spec => []TypeOK` |
| `VirtualSub_proofs!ClosedForGood` | `Spec => HandleStaysClosed` |
| `VirtualSub_proofs!HealInvariance` | `Spec => [](FirstWorker /\ LockDiscipline)`, the invariant of the next two |
| `VirtualSub_proofs!OneLive` | `Spec => []AtMostOneLive` |
| `VirtualSub_proofs!OrphansOnlyLate` | `Spec => []OrphansAreLate` |
| `PoolIpc_proofs!TypeCorrect` | `Spec => []TypeOK` |
| `PoolIpc_proofs!ConnectionsExclusive` | `Spec => []ExclusiveConn` |
| `PoolIpc_proofs!PoolCarriesNothing` | `Spec => []PoolClean` |
| `PoolIpc_proofs!NoCidMismatch` | `Spec => []OwnResponse` |
| `PoolIpc_proofs!TwiceOnlyCut` | `Spec => []TwiceOnlyAfterCut` |
| `WorkerSpawn_proofs!TypeCorrect` | `Spec => []TypeOK` |
| `WorkerSpawn_proofs!OneWorker` | `Spec => []AtMostOneWorker` |
| `WorkerSpawn_proofs!SocketKept` | `Spec => []ServingReachable` |
| `ServerLifecycle_proofs!TypeCorrect` | `Spec => []TypeOK` |
| `ServerLifecycle_proofs!SelfExitIsPolite` | `Spec => []SelfExitCutsNobody` |
| `ServerLifecycle_proofs!AcksAreAnswered` | `Spec => []AckedIsAnswered` |
| `ServerLifecycle_proofs!FlushComesLast` | `Spec => []FlushIsLast` |
| `ProducerCache_proofs!TypeCorrect` | `Spec => []TypeOK` |
| `ProducerCache_proofs!OverwriteTakesEffect` | `Spec => []FreshAtStart` |
| `ProducerCache_proofs!BuiltOnce` | `Spec => []OneProducerAtFirst` |
| `ProducerCache_proofs!CommitIsTruthful` | `Spec => []CommitTruthful` |
| `Wire_proofs!WireInvariance` | `Spec => []Inv`, the invariant of the next two |
| `Wire_proofs!AnswersAreRight` | `Spec => []RightAnswer` |
| `Wire_proofs!BothUnderstand` | `RequestsRoundTrip => (Spec => []Understood)` |

With them every invariant and every action property that a passing run checks
is a theorem. The type invariants of `VirtualSub` and `ServerLifecycle` are theorems
only: no change of the code that the models can express would break them. They rest on the assumptions named in the component modules (sets
of naturals for bounds and capacities, distinct null
values, finitely many transactional clients, and what `CodecAssumption` says of
the codec); TLC evaluates each of them in a run.

- **Consumer.** The invariant adds to `ExactlyOnce` that the message in the
  hands of the stream loop has the next arrival number and that the buffer is
  no longer than what was pushed. Only `StreamPush` and `PollDrain` move
  messages; `PushStep` shows that the overflow branch pops the oldest number
  and records it, `DrainStep` that a batch is a prefix of the buffer. The
  refinement uses the same two steps: a push is `Arrive` or `ArriveAtLimit`, a
  drain is `Deliver`, every other step is invisible in `Delivery`. `SeekOrder`
  needs that no buffered message is of a later generation than the one in the
  hand (`GenInv`); `AssignmentKnown` is inductive with the types, since the
  partitions are PHP's only between rebalances, the last event tells of them by
  then, and a full queue loses the other end. `BytesExact` needs what the recursive `Bytes`
  adds up for a sequence of any length: `NatSet` is induction stated for a set of
  naturals (by its least element, from `WFMin`), and with it `BytesIs` identifies
  `Bytes` with the partial sums of the sizes, so that `BytesSplit` holds for the
  two parts of any cut; the overflow branch and the drain are such cuts.
- **Virtual subscriptions.** `HandleStaysClosed` follows from the types, since the only writes to the registry
  are the insert of a fresh handle and the update of an entry that is there.
  The two counting properties speak of one life of the worker, and so does their
  invariant `FirstWorker`: ids are given out in order (`Numbered`), a handle is
  inserted before another call can use it (`Inserting`), and the id a thread
  heals is gone and is still the one in the registry when it subscribes (`Gone`),
  because the lock of the entry keeps the others out (`LockDiscipline`).
  From that every live subscription that no handle owns goes back to a late
  answer, and each late answer adds one at most; `AtMostOneLive` is the case of
  none.
- **Pool.** `OwnResponse` is not inductive. `Wire` (in `PoolIpc_proofs`) says
  where the one outstanding request of a held connection is: last in the stream,
  in the hands of the task, or answered, with nothing else before or behind it;
  `Ends` ties this to open and closed ends, `Cids` keeps request cids apart from
  the 0 of Unsubscribe. The steps fall into a few shapes (a thread moves without
  a connection, takes one, drops one, returns one; the worker's side moves), one
  lemma for each. `TwiceOnlyAfterCut` has an invariant of its own, `Once`: each
  cid belongs to one thread and has been sent once, and a call whose connection
  was not cut has sent at most one of its cids, none before its first write.
- **Spawning.** The invariant is that every running worker is in `lock`, that
  at most one worker is, and that a process about to fork holds the lock alone.
  It shows that the inheritance of the lock, which a comment in `spawn.rs`
  takes to end with the parent's `drop`, is what keeps a second worker from
  starting while the first exits.
- **Server.** `LifeInv` says that only an expired `drain_timeout` aborts, that a
  queued message has a task waiting for it unless its task was aborted, and that
  no task is left once `run` has returned, and that only an expired flush leaves
  what it can reach; the three properties follow.
- **Producer.** `Inv` says that cells are created one after the other
  (`InOrder`), so that a replacement never touches a cell in use; that a cell
  being built is still empty and has one builder (`Permit`); that no producer is
  newer than the registry; and, until the first overwrite, that there is one
  cell, which nobody replaces (`First`). `OthersKeep` shows once and for all that
  what a caller knows of its cell survives the steps of the others.
  `CommitTruthful` (`Truth`) needs in addition that callers only move forward in
  the table of cells (`Forward`), and of the one transactional client that all it
  was acknowledged is in the open transaction of the newest producer with one,
  or else the loss is already known (`torn`) and no producer the client can still
  reach would commit. `ClientsAssumption`, that the clients are finitely many, is
  what lets `Cardinality(TxnCaller) <= 1` be read as one client.
- **Wire.** `RightAnswer` is not inductive: that a call reads its own answer rests
  on what lies on its connection. `Inv` says that each call is written once
  (`Unique`), that what the worker has still to read are whole or cut requests
  nobody has served (`Reading`), that a connection nobody waits on holds no answer
  and can only bring an unsubscribe, which has none, and that one that is waited on
  holds the answer of that very call or nothing (`Clean`). `CodecAssumption` asks
  of the codec that requests are sequences and that HELLO and every answer a
  handler can give are read as written and have no readable proper prefix.
  `BothUnderstand` has as hypothesis that the requests are read so too
  (`RequestsRoundTrip`), and concludes that each request the worker decodes is the
  one PHP made in that call, or Truncated. It is a hypothesis and not an
  assumption because it is about the decoders of the worker, which `Understood`
  is there to check: on the interpreters of `Codec` the `wire` run finds it true
  for every request of the sample.

Only model-checked:

- every liveness property, since fairness is outside the prover's reach
  (`TerminationReported`, `EventuallyHanded`, `Healed`, `CallReturns`,
  `ServiceRecovers`, `DrainCompletes`, `IdleExits`);
- that the byte-level codec satisfies `CodecAssumption` and `RequestsRoundTrip`:
  its interpreters are recursive operators over nested lists, and the prover has
  no backend for modules that hold such. The `wire` run evaluates the first and,
  through `Understood`, the second on the payloads of `MCWire`, every type of
  request and answer among them.

## 6. Not modelled

- UTF-8 and the contents of payloads, formatting, logging, metrics and their
  HTTP endpoint, INI settings, statistics.
- The conversion of PHP arguments and results in `lib.rs` and `client.rs`, beyond
  which id is passed on and which exception is thrown; the frame builders and
  parsers that `lib.rs` offers to coroutine drivers use the codec of `Wire`, the
  drivers themselves are not in the repository.
- librdkafka and the broker, except as the code uses them: OAuth refresh
  callbacks, `group_metadata`, delivery retries, the content of statistics.
- Several clusters and several sockets: their tables share nothing but a lock.
- The `LoggingConsumer` / `LoggingProducer` of builds without Kafka.
- The set-up of the worker process (stdio, logging, signal masks), stubs, tests
  and scripts.
