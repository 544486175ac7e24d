# OmniQueue in TLA+

OmniQueue (`src/packages`) gives applications one interface, `Broker`, over nine
messaging systems: `publish(topic, msg)` fans a message out to consumer groups,
`subscribe(topic, handler, group)` shares a group's messages among its consumers, and a
handler settles each message with `ack` or `nack`. This directory models the interface's
promise, the nine adapters together with the services they talk to (the SQS one in two
variants: alone, and behind SNS), and the life of a broker; TLC checks the models on small
instances, and TLAPS proves all their safety properties for every size.

Paths below are relative to `src/`; `core`, `rabbitmq`, `kafka`, `aws_sqs` and so on stand for
`packages/<name>/src/index.ts`.

## 1. Inventory

| Component | State | Operations | Interacts with | Hard behaviour |
|---|---|---|---|---|
| Contract, `core:8-148` | none (interfaces) | publish, subscribe, ack, nack, init, close | implemented by the adapters, called by applications | what it promises is prose only; every adapter reads it differently |
| Registry, `core:155-220` | `REGISTRY` | register, create | adapters register on import; create calls the adapter's factory, which calls init | create in flight, repeated registration, init called again, also beside close |
| RabbitMQ adapter, `rabbitmq` | connection, one channel for everything | init, publish, subscribe, consume callback, close | amqplib and the server: requests with answers, frames without | frames lost with the channel, deliveries of a channel the server has let go, double settlement, prefetch, drain |
| Kafka adapter, `kafka` | producer, admin client, a consumer per subscribe | init, ensureTopic, publish, subscribe, `ready`, `data`, close | librdkafka threads in the process, the cluster's log and group coordinator | overlapping handlers, offsets, rebalancing, local queue, flush and disconnect, late commits |
| SQS adapter, `aws_sqs` | client, stop flag, URL cache *of the module* | ensureQueue, publish, subscribe, poll loop, close | the SQS service, by requests | parallel fan-out, stale cache, visibility timeouts of what is handled and of what waits, unawaited delete |
| SNS+SQS adapter, `aws_sqs_sns` | two clients, two module caches, stop flag | as SQS, plus topic, policy and subscription | SNS, SQS | up to seven requests to set a group up, policies that are replaced, envelope mismatch |
| Azure Service Bus adapter, `azure_service_bus` | client, admin client, map of senders, receivers | exists-then-create, send, peek-lock settlement, close in three steps | Service Bus | check-then-act, settling twice, settlements that fail |
| BullMQ adapter, `bullmq` | map of queues, set of workers | sequential fan-out, worker callback, close one by one | Redis | partial fan-out with job ids, removing or retrying an active job, a worker made behind close |
| NATS adapter, `nats` | connection | info-then-add of the stream, publish with ids, `for await` loop, drain | JetStream | failed lookups, a poisoned message ends the loop |
| Pulsar adapter, `pulsa` | map of producers, consumers | get-or-create producer, receive loop, close in three steps | Pulsar | map read before an await and written after, settling twice |
| ZeroMQ adapter, `zeromq` | map of push sockets | bind, send, pull loop | peers | a bind nobody awaits, a send that resolves in the local pipe, one port for all groups |
| ActiveMQ adapter, `activemq` | one producer connection | send, a connection per subscribe | STOMP server | frames lost with the connection, settling twice, connections not closed |
| Example apps, `apps/` | none | endless produce / consume | one broker each | they fix how the models are instantiated |

Node's event loop makes each stretch of adapter code between two `await`s atomic; everything
else interleaves: other calls on the same broker, handlers, other processes, the service.

What makes each component correct:

* **Contract**: a copy of every message for every group that has joined; one holder at a time
  inside a group; a copy leaves only on its holder's word, and otherwise comes back.
* **Registry, life cycle**: first registration wins; create resolves with a broker that works;
  close releases what the broker uses.
* **RabbitMQ**: the contract, through channel failures and handlers that misbehave; the first
  settlement is final; consuming implies bound; the adapter settles nothing a handler has
  settled, unless that handler throws; close loses no frame; ready messages are settled in the end.
* **Kafka**: the offset a group resumes at stems from an ack; a resolved publish is stored
  once; a group with a member keeps reading.
* **SQS**: a resolved publish has reached every group; deletion only after an ack or the
  return of a handler; one loop per copy unless a visibility timeout runs out under a loop
  that has it; a loop never dies of a message or a failed request.
* **SNS+SQS**: whatever part of a set-up failed and was repeated, a subscribe that resolves has
  made every request that delivery needs; a queue refuses nothing of a topic it is subscribed
  to unless two topics share it; a loop never dies of a body.
* **The other six, publish and set-up**: a resolved publish has reached the groups set up
  before it, and repeating a failed one does not double it where ids are passed; a call that
  ensures does not miss its topic; close releases what the object knows, with three of them
  also what calls under way open meanwhile.
* **The other six, consuming**: the adapter settles after every handler, and that should
  not overrule what the handler did itself; every path of the callback settles; the
  callback or loop goes on with the next message.

`PROJECT.json` lists every hazard at its line.

## 2. Modules

| Module | Models | Its state and the code's |
|---|---|---|
| `GroupDelivery` | the contract (`core:8-20, 75-139`) | `joined` groups, the `stage` of each group's copy, the consumers that have it in hand (`held`) |
| `RabbitMQ` | the RabbitMQ adapter and the server | `chan`: `this.channel`, as the server and as the client see it; `subs`, `pub`: the await a call of subscribe / publish is at; `wire`: frames sent without an answer; `deliveries`, `unacked`, `copy`: the server's side; `started`, `running`, `called`: the consume callbacks |
| `Kafka` | the Kafka adapter, librdkafka, the cluster | `process`, `consumer`: the clients, what they wait for, and how far close has come; `outbox`: the producer's local queue; `late`: what was produced after close's flush (history); `log`, `owner`, `position`, `committed`: the cluster; `commits`: commits under way |
| `Sqs` | the SQS adapter and the service | `urlCache`: the module-level map, per process; `send`, `target`: the parallel parts of publish; `sub`, `source`, `batch`: subscribe and its loop; `queue`, `exists`: the service; `deletes`: unawaited requests; `settled`, `expired`: history |
| `SnsSqs` | the SNS+SQS adapter and both services | `sub`, `pub`: the request a call waits for, then the loop; `arnCache`, `urlCache`: the module-level maps, per process; `topics`, `queues`, `policy`, `subscribed`, `transit`, `copy`: the services; `deletes`: unawaited requests; `joined`, `refused`, `settled`: history |
| `Provision` | publish, set-up and close of the adapters of Azure Service Bus, NATS, Pulsar, ActiveMQ, BullMQ and ZeroMQ, one per behaviour | `stage[c]`: the await that call `c` is at; `opened`: clients, senders, producers, workers, sockets that are open; `listed`: those in the object's maps and lists; `push`, `pipe`, `wire`, `todo`: the ZeroMQ socket and its local pipes, ActiveMQ frames, BullMQ groups to come; `topic`, `groups`, `stored`, `copies`, `port`: the service; `closing`: how far close has come; `before`, `atClose`, `removed`, `lost`: history |
| `Settling` | the consuming side of the same six adapters, one per behaviour | `consumer`: receiver, connection, loop or consumer; `inbox`, `handling`: deliveries the client has and those in `await handler(...)`; `called`, `ended`: what handlers have done (history); `sent`: settlements under way; `failed`: those that failed (history); `copy`, `attempt`, `holder`: the service |
| `Lifecycle` | `register`, `create`, RabbitMQ's init and close | `registry`: `REGISTRY`; `conn`, `channel`: the object's fields; `live`, `usable`: what is really open; `closing`: what a running close has asked to close; `overlapped`: history |
| `MC*` | instances for TLC | sets of handler behaviours and calls, placements of brokers, names |
| `RabbitMQProofs` | theorems about `RabbitMQ`: types, exclusive delivery, nothing dropped | |
| `ContractProofs` | `RabbitMQ` implements `GroupDelivery`; channels, callbacks, close | extends `RabbitMQProofs` |
| `KafkaProofs`, `SqsProofs`, `SnsSqsProofs`, `ProvisionProofs`, `SettlingProofs`, `LifecycleProofs` | theorems about the module of that name | each extends it |

Conventions:

* One action per stretch of code between awaits, or per step of the service. A comment gives
  the code behaviour that is easy to miss.
* Handlers are application code. `Outcomes` lists what they may do as pairs <<settlement call
  or "none", way to end>>. The most general set is every call times return / throw; a handler
  makes at most one call itself, and the adapter may add another.
* `Environment` lists what else may happen (close, network failures, restarts, calls without
  `ensure`...), so that each run names the disturbances it is about. In `SnsSqs` and
  `Provision`, `Closers` are the brokers that the application closes: one of two equal ones is
  enough.
* `Malformed` are messages of other producers whose body does not parse.
* Some operators have a second version next to them whose name says what is wrong with it
  (`PublishDrainedResend`, `HandlerThrowAck`...). They occur in no specification: they
  are what the code would do after a plausible slip, and serve to show that the properties
  notice.

What the RabbitMQ model decides:

* An awaited request is one step, taken when the frames sent before it have been processed:
  the server handles a channel's frames in order, and answers only then.
* Prefetch is per consumer (`basic.qos` without `global`).
* A channel that fails does so at the server first (`ChannelEnds`), which puts back what was
  not settled; until its channel.close, or the end of the socket, reaches the client
  (`CloseArrives`) the channel is "failing": deliveries that the server had sent still enter
  handlers, publish still sends, and what is sent goes nowhere. A client that notices first
  adds nothing, since its frames are lost either way. When the client closes the channel
  itself, amqplib ignores the deliveries that follow its own channel.close, so that `Close`
  is one step.
* An unknown delivery tag is a channel error. The adapter never reconnects: a channel that has
  failed stays so. In the process amqplib's unhandled `error` event would also end the
  process; the model lets its handlers run on, which has more behaviours, not fewer.
* Consumer cancellation by the server (`raw === null`) and queues deleted from outside are not
  modelled.
* Each message is published at most once; publishing anew is another message.

What the Kafka model decides: `commit(raw)` passes the message object, whose `offset` is taken
as it stands (`CommitDelta = 0`; the constant also allows 1, for comparison); rebalancing is
eager and restarts every partition at the committed offset; `auto.offset.reset` is `latest`,
librdkafka's default; delivery reports are never polled, so what has been produced counts
against the local queue for good (`QueueLimit`); each process subscribes to one group,
chosen in the initial state. `producer.disconnect` of close flushes the local queue and then
goes (`Close`, `Flushed`, `Disconnect`); publishes go on in between, and what they produce
after the flush is gone with the client.

What the SQS model decides: a receipt makes older handles of the copy work or not, as the
service likes (both are allowed), while the handle of the last receipt always deletes; a
failed request (creation, send, receive, delete) may or may not have had its effect; a call
of publish is retried only when the parts of the first one have ended; a process that dies
may have deletes under way that still arrive. The visibility timeout of a copy runs out when
nobody has it, and also under its handler (`"timeout"`) and while it waits behind others in a
batch or for its delete (`"waiting"`); `expired` remembers which ones a loop still has.
`Subscribers` lists which broker may subscribe for which group. The cache of a process is keyed
by queue name alone, as in the code, so brokers of different regions would use each other's
URLs; the runs have one region.

What the SnsSqs model decides: each broker is a process, and a process that ends starts again
with empty caches. Two topics may share a queue name (`sqsQueueName` maps `.` and `-` to
the same character). SNS accepts a message at once and copies it for the queues subscribed at
that moment; SQS takes it only if the policy names its topic, and what it does not take is
`refused`, the stated exception of `ResolvedReachesJoined`. Without `ensure` the topic is
looked up under an ARN without region and account, which fails always. `Enveloped` messages
are what others put into a queue in SNS's envelope: the only bodies the loop can parse.

What the Provision model decides. There is one topic. A call <<b, x>> publishes or subscribes,
and runs beside the other calls of its broker and of other brokers; a request may fail with or
without effect, and a call that has not resolved may be made again.

* Calls are not made after close has been called, but those under way go on, and may be
  rejected from then on.
* `copies` counts a group's copies of a message up to 2, which stands for more.
* `topicExists` and the creations of Service Bus use the administration client, which close
  leaves alone; a creation of what exists is rejected.
* A NATS stream that exists may be added again with the same options only. The stream takes a
  message id once: its duplicate window is taken to cover all retries.
* BullMQ takes a job id once while it has the job. `job.remove` of a late ack makes room for a
  second one (`RemoveJob`), the stated exception of `RetriedStoredOnce`.
* ZeroMQ's pull sockets connect to one port, whatever group stands behind the number, so
  that a message reaches one group. `send` resolves when the message is in the local pipe to
  a pull socket (`SendZeroMQ`); it arrives later (`PipeArrives`), or is lost with the peer
  (`PeerLost`, under `"network"`) or by close, which loses any part of what is in the pipes.
  A send on a socket that is being bound, or that sends already, may throw.
* `getOrCreateQueue` of BullMQ is awaited although it waits for nothing: subscribe makes its
  worker one step later (`AttachBullMQ`), when close may have gone past the workers.
* `MaxFailed` bounds the calls that have failed and have not been repeated yet.

What the Settling model decides. Four adapters share the form
`try { await handler(m); await m.ack() } catch { await m.nack() }`; the worker of BullMQ
completes a job whose callback returns, and ZeroMQ settles nothing. They differ in what `ack` and
`nack` call, in how the next message is started, in what an unparsable body ends, and in how
they close; `adapter`, chosen initially, selects among the actions. What a second settlement
does is the service's choice, stated at `Late`, `LateAck` and the actions that use them:

* Service Bus rejects it with the promise (`completeMessage`), which leads into the `catch` and
  to `nack(true)`; where that rejects too it ends in `processError`.
* Under `"settle error"` a settlement of Service Bus, BullMQ or NATS fails, or its frame is
  lost, on a lock that is still valid, with or without its effect (`Fails`); a delivery
  is then in nobody's hands until the lock or the ack wait runs out (`failed`). With Pulsar
  and ActiveMQ settlements are frames of one connection, which are lost only with it: that is
  the end of the consumer (`Gone`).
* ActiveMQ answers an unknown ack with an ERROR frame; the client gives up the connection. A
  nack is a redelivery or a move to the dead-letter queue, as the server is configured: both
  are allowed. An unparsable body is an unhandled rejection and ends the process.
* A NATS message object sends only its first settlement. The ack or term of an earlier
  delivery may count or come too late. An unparsable body leaves the `for await` loop, which
  drops the subscription.
* Pulsar accepts the ack of a message that waits for redelivery, and the client keeps negative
  acknowledgements back, so that settlements overtake each other. An unparsable body leaves
  the loop while the consumer stays subscribed: it goes on receiving what nobody handles.
* BullMQ refuses `remove` of a job that is locked, `retry` of one that has not failed, and
  `moveToFailed` with the job's id for the lock: the rejection goes to the handler, or, after
  a handler that threw, out of the callback, and the worker fails the job. A handler that
  awaits its `ack` throws with that rejection: it is the outcome <<"ack", "throw">>. A job that
  stalls a second time fails.
* ZeroMQ's `ack` and `nack` are empty; a message exists only where it was delivered. An
  unparsable body leaves the loop, and the socket stays connected.

In this module subscribing is one step on a subscription that exists, each message belongs to
one group, and handlers of a consumer that is gone are forgotten, since what they settle
reaches nobody. `NothingForgotten` and `HandedOn` leave a Pulsar or ZeroMQ consumer out whose
loop has ended: what it holds stays with it until it is closed. `MaxMalformed` bounds the
deliveries of a malformed message, which all take the same path.

In `Lifecycle`, init and close may overlap in every way: `InitAgain` has no condition on close,
nor `CloseCall` on init. `closing` is what close has read from the fields at each of its two
awaits; `overlapped` are the brokers whose init and close were under way at once.

What cannot be verified from this repository. The services' rules above are assumptions, taken
from how the code uses the client libraries. Some may be stricter: SNS may refuse
topic names with a dot (`oq.<topic>`), BullMQ queue names with a colon (`oq:<topic>:<group>`),
and the NATS client a durable push consumer without a deliver subject. Then the adapter
rejects at once and nothing that is checked here comes to pass.

## 3. Runs

All bounds are in the `.cfg` files; `MaxDeliveries`, `MaxLog`, `MaxCopies`, `MaxReceipts`,
`MaxAttempts`, `MaxMalformed` and `MaxConns` only cut histories. `CHECK_DEADLOCK FALSE` stands
in the runs because these systems do stop: all messages have been published and settled, all brokers closed.

### Runs that pass

| Run | Shows | Bounds and why they suffice |
|---|---|---|
| `RabbitMQDelivery` | `TypeOK`, `HeldOnce`, `GoneOnHandlersWord`, `ConsumingIsBound`, `OnlyThrowSettlesTwice`, `FirstSettlementFinal`, `StartedIsHeld`, `CloseLosesNothing`; `RabbitMQ` implements `GroupDelivery` | two brokers that set up and compete for one message, each with up to two deliveries of it: redelivery to the other and back, second settlements, close at every point, failure at every point and unheard of for any time |
| `RabbitMQLiveness` | `IInv`, the inductive invariant; `EventuallySettled`, `PublishSettles` | connections that are lost, server restarts, missing queues and a malformed message beside a sound one: the holder is lost, another consumer is left; publish at each of its steps |
| `KafkaDelivery` | `TypeOK`, `CommitComesFromAck`, `StoredOnce`, `CatchesUp` | two members that also produce, of which either may crash, close or die of a malformed value; publishes before, during and after close's flush; rebalances with handlers running; a local queue of one. Three `data` events per process for a log of two: one that had used them up with a message left to read would violate `CatchesUp` |
| `SqsDelivery` | `TypeOK`, `DeletedByAckOrReturn`, `ResolvedReachesAll`, `LoopGoesOn` | batches of two with a malformed neighbour, two receipts per copy, requests that fail with and without effect, timeouts under a handler and in the batch, retries, delays, a queue that is deleted: every way out of a round |
| `SqsLiveness` | `OneLoopPerCopy`, `ResolvedReachesAll`, `EventuallyDeleted` | two processes, two groups: both create the queues at once, publish to both, compete for one group, while timeouts run out under what they have; either may close with a copy in hand. One message, so that a batch holds one copy: waiting neighbours are the business of `SqsDelivery` and, for `OneLoopPerCopy`, of the proof |
| `SnsSqsSetUp` | `TypeOK`, `ResolvedReachesJoined`, `SubscribedIsAllowed`, `LeavesByAck`, `LoopEndsByClose` | two processes, two topics with one queue, a published message and an enveloped one; each of the requests fails with or without effect and is repeated, by the same process or after a restart |
| `ProvisionFanOut` | `TypeOK`, `ResolvedReachesAll`, `RetriedStoredOnce`, `EnsuredFindsTopic`, `CloseReleases` | each of six adapters; the first broker publishes two messages (with Service Bus one), subscribes and closes, the second subscribes (with ZeroMQ it publishes too), with other stream options; BullMQ fans out to two groups: two calls between the same awaits, on one object and on two, and one failure at a time at every request |
| `SettlingDelivery` | `TypeOK`, `SettledAsMeant`, `NothingForgotten`, `HandedOn` | each of six adapters, two consumers, a sound and a malformed message, two deliveries of the sound one: locks that expire under a handler, settlements that fail on valid locks, redelivery to the same or the other consumer, two callbacks at once, closes and crashes |
| `LifecycleRelease` | `TypeOK`, `CloseReleases`, `ResolvesReady` | two creates, two providers, two factories, a second init of each broker, before, during or after its close |

Where a property speaks of a situation that a disturbance would change, the run leaves that
disturbance out and another run has it: without `ensure` a subscription may consume from a
queue that is not bound, so `ConsumingIsBound` is about subscriptions that ensure; a network
that loses answers makes the producer store a message twice or give it up, so `StoredOnce` is
about one that holds. Where the code itself makes an exception, the property names it:
`OneLoopPerCopy` a timeout that has run out for one of the two loops, `StartedIsHeld` a channel
whose end the client has not heard of, `CloseReleases` of `Lifecycle` an init that overlaps.

### Runs that end in a violation

Each checks one sentence of the repository against the code. The code does otherwise;
`PROJECT.json` quotes the sentence and says what happens.

| Run | The sentence | What the code does |
|---|---|---|
| `KafkaNack` | nack: no commit, redeliver (`NackedIsRedelivered`) | the commit of a later message passes the nacked one |
| `SnsSqsEnvelope` | every group gets a copy, one consumer handles it (`CopyIsHandled`) | the subscription asks for raw bodies, the loop unwraps an envelope: no published message reaches a handler |
| `SettlingNack` | nack(true): redeliver (`NackedIsRedelivered`) | with Pulsar the adapter's ack after the return of the handler counts; with BullMQ the worker completes the job |

More disagreements between the code and the interface, or its own comments, are stated where
they belong instead of being run; the properties that pass name each of them as an exception:

* **nack(true) and return.** "if `requeue` is true → redeliver" (`core:18`). Besides Pulsar and
  BullMQ above, the SQS adapter's own ack deletes such a copy (`aws_sqs:182-183`), although its
  comment leaves it to the visibility timeout (`aws_sqs:178`): `DeletedByAckOrReturn` counts the
  return. Service Bus completes it if the request of the nack has failed before (`AckedAgainst`).
* **nack of BullMQ.** "if requeue true, retry later" (`bullmq:123`): `job.retry` is always refused
  while the worker has the job, so that a handler that throws ends in a failed job. The documented
  `await msg.ack()` (`core:130`) rejects for the same reason, and the job fails although its
  handler has done its work (`DiscardedAgainst`).
* **nack of ActiveMQ and Pulsar.** nack(false) of ActiveMQ acks; Pulsar's redelivers
  (`activemq:134-137`, `pulsa:109`).
* **One consumer at a time.** "within each group, only one consumer will handle the message"
  (`core:110-111`). With RabbitMQ, the handler of a channel that the server has let go may start on
  a message that another has (`StartedIsHeld`). With SQS, the messages of a batch are handled one
  after the other while the timeouts of all of them run, so that those that wait are handed to
  another loop although every handler is in time (`OneLoopPerCopy`).
* **A copy for each group.** (`core:109-110`.) A message of ZeroMQ reaches one group only, and
  may be lost from the local pipe after publish has resolved; a frame of ActiveMQ may go down
  with the connection (`ResolvedReachesAll` of `Provision`).
* **close releases.** "resources are released" (`core:144-145`). A close of RabbitMQ that an init
  overlaps may leave the connection open that it was called for, or the one that init opens; what
  an earlier init has replaced stays open in any case (`CloseReleases` of `Lifecycle`). ActiveMQ does not wait
  for its DISCONNECT and never closes the connections of its consumers; ZeroMQ leaves its pull
  sockets; a worker that a BullMQ subscribe adds behind close's loops stays open (`CloseReleases` of
  `Provision`). Kafka's consumers go on (`kafka:208-214`), and what is published between the flush
  and the disconnect is lost (`StoredOnce`).
* **publish rejects or resolves.** `PublishSettles` names the one case in which RabbitMQ's does
  neither: the channel is lost while it waits for `drain` (`rabbitmq:93`).
* **The SQS URL cache.** Brokers of different regions share it (`aws_sqs:39`); it is in the model
  of `Sqs`, but the runs have one region.

### Fairness

`FairSpec` assumes weak fairness of what the event loop, the client libraries and the services
do by themselves: frames are processed, the end of a channel is heard of, deliveries dispatched,
awaited requests answered, timers fired, groups rebalanced, locks and visibility timeouts of what
nobody has run out. In `Settling` only the callbacks and the handlers of each consumer are fair,
since `HandedOn` needs no more. A handler that has been entered goes on, since its promise is
part of the interface's contract ("should return a promise that resolves when the message has
been processed", `core:115-116`). Nothing is assumed of calls the application makes, nor of
failures, closes and crashes. For RabbitMQ the delivery of a given message is fair as a whole and
not per consumer: the server may prefer one consumer for ever. The liveness runs limit `Outcomes`
where a handler that throws every time would make the property false rightly.

## 4. Proofs

Every safety property that a passing run checks, invariant or action property, is also a
theorem, and so is the refinement of `GroupDelivery`. The theorems hold for all sets of brokers,
groups, messages and so on, all handlers (`Outcomes`), all environments and all bounds, from the
named assumption of the module alone; the three that need more say so in the table.

| Module | Theorem | Property | Further hypothesis |
|---|---|---|---|
| `RabbitMQProofs` | `TypeCorrect` | `TypeOK` | |
| | `Invariant` | `IInv` | |
| | `ExclusiveDelivery` | `HeldOnce` | |
| | `NothingDropped` | `GoneOnHandlersWord` | |
| | `SettledForGood` | `FirstSettlementFinal` (action property) | |
| `ContractProofs` | `ImplementsContract` | `ImplementsGroupDelivery` (refinement) | no server restart |
| | `SettlesOnce` | `OnlyThrowSettlesTwice` | |
| | `StartsHeld` | `StartedIsHeld` (action property) | |
| | `ClosesCleanly` | `CloseLosesNothing` (action property) | |
| | `JoinsFirst` | `ConsumingIsBound` | every subscribe ensures |
| `KafkaProofs` | `TypeCorrect` | `TypeOK` | |
| | `CommitsAreAcks` | `CommitComesFromAck` | |
| | `StoresOnce` | `StoredOnce` | topics ensured, a network that holds, priorities that are partitions |
| `SqsProofs` | `TypeCorrect` | `TypeOK` | |
| | `DeletedOnlyOnHandlersWord` | `DeletedByAckOrReturn` | |
| | `ReachesAll` | `ResolvedReachesAll` | |
| | `OneLoopEach` | `OneLoopPerCopy` | |
| `SnsSqsProofs` | `TypeCorrect` | `TypeOK` | |
| | `DeletedOnlyByAck` | `LeavesByAck` | |
| | `SubscribedAllowed` | `SubscribedIsAllowed` | |
| | `ReachesJoined` | `ResolvedReachesJoined` | |
| | `EndsByClose` | `LoopEndsByClose` (action property) | |
| `ProvisionProofs` | `TypeCorrect` | `TypeOK` | |
| | `ReachesAll` | `ResolvedReachesAll` | |
| | `StoresOnce` | `RetriedStoredOnce` | |
| | `FindsTopic` | `EnsuredFindsTopic` | |
| | `Releases` | `CloseReleases` | |
| `SettlingProofs` | `TypeCorrect` | `TypeOK` | |
| | `SettlesAsMeant` | `SettledAsMeant` | |
| | `ForgetsNothing` | `NothingForgotten` | |
| `LifecycleProofs` | `TypeCorrect` | `TypeOK` | |
| | `Releases` | `CloseReleases` | |
| | `ResolvesWithChannel` | `ResolvesReady` (action property) | |

The hypotheses are conditions on `Environment` (and, for `StoresOnce`, on the priorities) under
which the property is true at all; the run that checks the property makes the same choice. A
restarted server forgets messages, since `publish` asks for no persistence (`rabbitmq:86`): the
contract has no such step.

**RabbitMQ.** `HeldOnce` is not inductive: a `publish` frame that arrives overwrites the
copies of its message, so a second frame for a message already delivered would reset a copy
somebody holds. `PublishedOnce` excludes that: each message has one publisher (the first
call of publish is the only one), a message whose frame has not been sent is in no queue, and
there is one frame for it, on one wire. Its own preservation needs `HeldOnce`, because ending a
channel or settling a tag must only touch copies that are out of the queue already. Likewise
`GoneOnHandlersWord` needs `WireIsCalled`: an ack or discard on the wire was called by a handler
for that very tag, and the tag is one the callback has seen, so the delivery it names never
changes. `IInv` is the conjunction of these with the types. The lemmas follow that structure:
`StepCases`, `WireCases`, `PubCases` and `NoneCases` reduce the steps of `Next` to the few kinds
that matter to a variable, and each part of `IInv` then has one lemma per kind. TLC checks `IInv`
as well (`RabbitMQLiveness`), on an instance with one group; several groups are the proof's.

**The contract.** `ChannelsOk` adds what each channel guarantees: only an open one has frames
under way; while it is open, a delivery the callback has not taken is unsettled (`Waits`), nor is
one settled whose handler has called nothing (`Untouched`); a settlement frame is the first of its tag, for a tag
the server waits for (`IsFirst`), or the `nack(true)` of a catch block whose handler had called
something (`IsExtra`). The last three lean on each other: a frame is first because its handler
was untouched. `StartsHeld` is `Waits` and `Untouched` (a channel
that is failing is its stated exception) with `HeldOnce`, `SettlesOnce` is `FirstOrExtra`, and `ClosesCleanly`
follows from what a step can do to a wire (`WireStep`). The refinement maps a bind to `Join`, the
arrival of a publish frame to `Publish`, a delivery to `Deliver`, the arrival of a known
settlement to `Settle` or `GiveUp`, the end of a channel to `GiveUp` of all it held, and
everything else to a stutter; it uses `HeldOnce` (the one who gives up is the only holder) and
`PublishedOnce` (a message is published once).

**Kafka.** A committed offset stems from an ack because every commit under way does (`UnderWay`),
and because what a member was given stands in the log for good (`Delivered`), whoever owns the
partition by then. `StoresOnce` counts where a message is, in local queues and log (`InOnePlace`),
with at most one publisher, and allows none for what was produced after close's flush.

**SQS.** No copy ever changes place in its queue (`Evolves`), so handles keep meaning what they
meant: a request to delete was made for an ack, and a copy that is there stays. `OneLoopEach`
needs that what a loop has in its batch is not visible to any other unless its timeout has run
out (`Invisible`).

**SNS+SQS.** `InOrder`: a set-up that has come to a request finds everything the earlier ones
created, also if a cache made it skip them. From there `Allowed`, `Reaching` (a group that has
joined has its subscription, and keeps it) and `Acked` are each inductive on the types.

**Publish, set-up and close of six adapters.** `Core`: types, BullMQ's groups still to come exist
exactly in the `send` loop, NATS copies mirror the stream. `ObjectInv` relates what is open to what
the object lists and to how far close has come (`ReleasedAt`): BullMQ never opens again what it has
listed, the hosted adapters open nothing once the client is closed, the port belongs to the socket
that is bound. That a BullMQ worker added late was not there before rests on `Workers` (a subscribe
under way has none), that a closed ZeroMQ broker has no socket on `Unbound`. `Ensured`, `Reaches`
and `JobsOnce` carry the promise through the awaits of a call; a resolved ZeroMQ publish is traced
through the local pipes (`Piped`, `InPipe`).

**Consuming with six adapters.** A delivery is in one place (`Places`). Frames mean what a handler
meant, or one of the named exceptions, or will be rejected because an earlier frame or attempt has settled the message
(`FramesMeant`, where `AckBacked` is the heart); a handler's own call is under way until it
is processed or has failed (`Answered`); what is held is in somebody's hands, or a settlement of
it has failed (`Held`). The steps fall into four
kinds: those that touch no settlement (`Quiet`), those that add, drop or replace one frame
(`Moves`), a delivery, and the service's decision. Bodies are shared by the adapters through
`Follows`, which says how one sequence of frames follows from another.

**Life cycle.** `Broker(k)`: a broker holds the last connection opened for it, a running init asks
for the prefetch on the channel of that connection. `Closing(k)`: what close has asked to close is
closed, never younger than what the fields hold, and the same unless init and close overlap.

What the proofs taught about the models: the history variable `before` of `Provision` has to
be kept per call and not per message, or a second publisher of the message would change what was
promised to the first; the conditions of `BullMQTakes` overlapped and left its value open; a priority
need not be among `Prios` when the caller gives none; `Settling` says nothing without a consumer.

Model-checked only:

* liveness, as fairness and ENABLED are out of the prover's reach: `EventuallySettled`,
  `PublishSettles`, `CatchesUp`, `LoopGoesOn`, `EventuallyDeleted`, `HandedOn`;
* the three properties the code violates, which have a counterexample and no proof.

## 5. Not modelled

* The predeclared exchanges of RabbitMQ's init, `createOptions` and other settings that only
  shape what is created, headers and authentication.
* The name functions: queues, streams and exchanges have abstract names, and collisions occur
  only where a constant makes them (`QueueName` of `SnsSqs`). The hash that gives a ZeroMQ topic
  its port is left out with them.
* Message order and priorities, and Pulsar's use of `prio` as a sequence id (`pulsa:78`), which
  only a broker with deduplication switched on would notice.
* A second subscribe of the same broker for the same group, except by retry, and subscriptions
  of one broker to several topics in `Provision`.
* The example applications, the site and the book: they have no state of their own.

## 6. Plan

Done: the contract, RabbitMQ, Kafka, SQS, SNS+SQS, publish, set-up, consuming and close of the
other six adapters, the life cycle; every safety property of a run proved, and RabbitMQ shown to
implement the contract.

1. Refinement: which abstract promises `Kafka`, `Sqs` and `Settling` keep (an at-least-once
   version of `GroupDelivery` without exclusive holding), stated, checked and proved as for RabbitMQ.
2. Consequences of the contract, proved once about `GroupDelivery` (types, one holder, settled for
   good), which RabbitMQ inherits through `ImplementsContract`.
3. `Naming`: the name functions as functions on short words; which pairs of topic and group
   collide.
