------------------------------ MODULE Settling ------------------------------
(***************************************************************************)
(* The consuming side of six adapters on one group of one topic: Azure     *)
(* Service Bus, ActiveMQ, NATS JetStream and Pulsar, whose callback has the*)
(* form try { await handler(msg); await msg.ack() } catch { await msg.nack *)
(* () }, BullMQ, whose worker settles when the callback has ended, and     *)
(* ZeroMQ, which has no settlement (packages/azure_service_bus, activemq,  *)
(* nats, pulsa, bullmq and zeromq, src/index.ts). A behaviour is about one *)
(* of them, chosen at the start.                                           *)
(*                                                                         *)
(* The adapter settles after every handler, and a handler may have settled *)
(* itself. What a second settlement does is different in each service:     *)
(* Service Bus rejects it, ActiveMQ answers with an ERROR frame that ends  *)
(* the connection, the NATS client sends only the first, Pulsar accepts an *)
(* ack of a message that is to be redelivered. Each consumer is a process  *)
(* of its own; what it settles is under way (sent) until the service has   *)
(* processed it, or until it fails or is lost. A delivery is <<message,    *)
(* number of the attempt>>.                                                *)
(***************************************************************************)
EXTENDS Naturals, Sequences, FiniteSets, SequencesExt

CONSTANTS
  Consumers,    \* processes that subscribe for the group
  Messages,
  Malformed,    \* messages of other producers, whose body is not JSON
  Concurrency,  \* ServiceBusConfig.concurrency, BullConfig.defaultConcurrency
  Outcomes,     \* what a handler may do: <<call or "none", way to end>>
  Environment,  \* what may happen besides calls and handlers
  MaxAttempts,  \* bound: deliveries of one message
  MaxMalformed  \* bound: deliveries of one that is malformed

Adapters == {"servicebus", "activemq", "nats", "pulsar", "bullmq", "zeromq"}
Calls == {"none", "ack", "requeue", "discard"}
Settlements == Calls \ {"none"}
Deliveries == Messages \X (1..MaxAttempts)
Events == {"close", "crash", "timeout", "read error", "settle error"}

(* What is held there comes back when a lock or an ack wait runs out. *)
Locking == {"servicebus", "nats", "bullmq"}

ASSUME SettlingAssumption ==
  /\ Consumers # {} /\ Malformed \subseteq Messages
  /\ Concurrency \in Nat \ {0} /\ MaxAttempts \in Nat /\ MaxMalformed \in Nat
  /\ Outcomes \subseteq Calls \X {"return", "throw"}
  /\ Environment \subseteq Events

VARIABLES
  adapter,    \* the adapter that this behaviour is about
  consumer,   \* consumer[c]: its subscription and receive loop
  copy,       \* copy[m]: the message in the group's subscription
  attempt,    \* attempt[m]: how often it has been delivered
  holder,     \* holder[m]: who got it last
  inbox,      \* inbox[c]: deliveries that wait for the callback or the loop
  handling,   \* handling[c]: deliveries whose handler runs
  called,     \* called[d]: the settlement the handler of d has called
  ended,      \* ended[d]: how that handler, or reading the body, has ended
  sent,       \* sent[c]: settlements under way
  failed      \* deliveries with a settlement that failed or was lost in time

service == <<copy, attempt, holder>>
callback == <<handling, called, ended>>
vars == <<adapter, consumer, service, inbox, callback, sent, failed>>

Frames == [op : Settlements, of : Deliveries, by : {"handler", "return", "throw", "worker"}]
Final == [ack |-> "acked", requeue |-> "ready", discard |-> "discarded"]

TypeOK ==
  /\ adapter \in Adapters
  /\ consumer \in [Consumers -> {"idle", "open", "draining", "stalled", "ended", "closed"}]
  /\ copy \in [Messages -> {"none", "ready", "held", "acked", "discarded", "gone"}]
  /\ attempt \in [Messages -> 0..MaxAttempts]
  /\ holder \in [Messages -> Consumers]
  /\ inbox \in [Consumers -> Seq(Deliveries)]
  /\ handling \in [Consumers -> SUBSET Deliveries]
  /\ called \in [Deliveries -> Calls]
  /\ ended \in [Deliveries -> {"no", "return", "throw"}]
  /\ sent \in [Consumers -> Seq(Frames)] /\ failed \subseteq Deliveries
  /\ \A c \in Consumers : \A d \in handling[c] :
       ended[d] = "no" /\ d[2] <= attempt[d[1]] /\ ~Contains(inbox[c], d)

Init ==
  /\ adapter \in Adapters
  /\ consumer = [c \in Consumers |-> "idle"]
  /\ copy = [m \in Messages |-> "none"]
  /\ attempt = [m \in Messages |-> 0]
  /\ holder = [m \in Messages |-> CHOOSE c \in Consumers : TRUE]
  /\ inbox = [c \in Consumers |-> <<>>]
  /\ handling = [c \in Consumers |-> {}]
  /\ called = [d \in Deliveries |-> "none"]
  /\ ended = [d \in Deliveries |-> "no"]
  /\ sent = [c \in Consumers |-> <<>>] /\ failed = {}

-----------------------------------------------------------------------------
(* The service *)

(* Service Bus and BullMQ do not parse bodies, so that one more kind of message
   would make no difference there. *)
Publish(m) ==
  /\ copy[m] = "none" /\ (adapter \in {"servicebus", "bullmq"} => m \notin Malformed)
  /\ copy' = [copy EXCEPT ![m] = "ready"]
  /\ UNCHANGED <<adapter, consumer, attempt, holder, inbox, callback, sent, failed>>

HeldBy(c) == {m \in Messages : copy[m] = "held" /\ holder[m] = c}

(* Service Bus and BullMQ have no more under way than may be handled at once. A
   Pulsar or ZeroMQ consumer whose loop has ended still gets its share. What
   ZeroMQ has delivered exists nowhere else. *)
Deliver(c, m) ==
  /\ consumer[c] \in {"open", "stalled"} /\ copy[m] = "ready"
  /\ adapter \in {"servicebus", "bullmq"} => Cardinality(HeldBy(c)) < Concurrency
  /\ attempt[m] < MaxAttempts /\ (m \in Malformed => attempt[m] < MaxMalformed)
  /\ copy' = [copy EXCEPT ![m] = IF adapter = "zeromq" THEN "gone" ELSE "held"]
  /\ attempt' = [attempt EXCEPT ![m] = @ + 1]
  /\ holder' = [holder EXCEPT ![m] = c]
  /\ inbox' = [inbox EXCEPT ![c] = Append(@, <<m, attempt[m] + 1>>)]
  /\ UNCHANGED <<adapter, consumer, callback, sent, failed>>

(* Whether the holder of m still works on it, or its settlement is under way. *)
InHand(m) ==
  LET c == holder[m]  d == <<m, attempt[m]>> IN
  \/ Contains(inbox[c], d) \/ d \in handling[c]
  \/ \E i \in DOMAIN sent[c] : sent[c][i].of = d

(* BullMQ fails a job that stalls a second time (maxStalledCount). *)
StalledBefore(m) == adapter = "bullmq" /\ attempt[m] > 1

(* The lock (Service Bus, BullMQ) or the ack wait (NATS) runs out; on something
   that is in hand only if the handler takes longer than that. *)
LockExpires(m) ==
  /\ adapter \in Locking /\ copy[m] = "held"
  /\ InHand(m) => "timeout" \in Environment
  /\ \/ copy' = [copy EXCEPT ![m] = "ready"]
     \/ StalledBefore(m) /\ copy' = [copy EXCEPT ![m] = "discarded"]
  /\ UNCHANGED <<adapter, consumer, attempt, holder, inbox, callback, sent, failed>>

(* ActiveMQ and Pulsar hand out again what a consumer that is gone had; the
   locks of Service Bus, NATS and BullMQ run out. *)
Release(c) ==
  copy' = IF adapter \in {"activemq", "pulsar"}
            THEN [m \in Messages |-> IF m \in HeldBy(c) THEN "ready" ELSE copy[m]]
            ELSE copy

(* The consumer of c is gone, with what it had under way. Handlers may run on
   (when it was closed), but what they settle reaches nobody. *)
Gone(c) ==
  /\ consumer' = [consumer EXCEPT ![c] = "closed"]
  /\ inbox' = [inbox EXCEPT ![c] = <<>>] /\ sent' = [sent EXCEPT ![c] = <<>>]
  /\ handling' = [handling EXCEPT ![c] = {}]
  /\ Release(c)
  /\ UNCHANGED <<adapter, attempt, holder, called, ended, failed>>

Crash(c) ==
  "crash" \in Environment /\ consumer[c] \notin {"idle", "closed"} /\ Gone(c)

-----------------------------------------------------------------------------
(* subscribe and the callback *)

Subscribing(c) ==
  /\ consumer[c] = "idle"
  /\ consumer' = [consumer EXCEPT ![c] = "open"]
  /\ UNCHANGED <<adapter, service, inbox, callback, sent, failed>>

(* The topic and the subscription are there; requests and their answers up to
   the first delivery are one step. *)
SubscribeServiceBus(c) == adapter = "servicebus" /\ Subscribing(c)
SubscribeActiveMQ(c) == adapter = "activemq" /\ Subscribing(c)
SubscribeNats(c) == adapter = "nats" /\ Subscribing(c)
SubscribePulsar(c) == adapter = "pulsar" /\ Subscribing(c)
SubscribeBullMQ(c) == adapter = "bullmq" /\ Subscribing(c)
SubscribeZeroMQ(c) == adapter = "zeromq" /\ Subscribing(c)

First(c) == Head(inbox[c])

Waiting(c) == consumer[c] \in {"open", "draining"} /\ inbox[c] # <<>>

Parses(c) == First(c)[1] \notin Malformed

Begin(c) ==
  /\ Waiting(c) /\ Parses(c)
  /\ handling' = [handling EXCEPT ![c] = @ \cup {First(c)}]
  /\ inbox' = [inbox EXCEPT ![c] = Tail(@)]
  /\ UNCHANGED <<adapter, consumer, service, called, ended, sent, failed>>

(* maxConcurrentCalls *)
StartServiceBus(c) ==
  adapter = "servicebus" /\ Cardinality(handling[c]) < Concurrency /\ Begin(c)

(* The callback of one message does not wait for that of another. *)
StartActiveMQ(c) == adapter = "activemq" /\ Begin(c)

(* for await: one message at a time. *)
StartNats(c) == adapter = "nats" /\ handling[c] = {} /\ Begin(c)

StartPulsarConfirmed(c) ==
  adapter = "pulsar" /\ handling[c] = {} /\ sent[c] = <<>> /\ Begin(c)

(* while (true): one message at a time. *)
StartPulsar(c) == adapter = "pulsar" /\ handling[c] = {} /\ Begin(c)

(* The worker's concurrency *)
StartBullMQ(c) ==
  adapter = "bullmq" /\ Cardinality(handling[c]) < Concurrency /\ Begin(c)

(* for await: one message at a time. *)
StartZeroMQ(c) == adapter = "zeromq" /\ handling[c] = {} /\ Begin(c)

(* JSON.parse throws in an async callback: the process ends. *)
ParseFailureActiveMQ(c) ==
  adapter = "activemq" /\ Waiting(c) /\ ~Parses(c) /\ Gone(c)

LoopEnds(c, how) ==
  /\ Waiting(c) /\ ~Parses(c) /\ handling[c] = {}
  /\ consumer' = [consumer EXCEPT ![c] = how]
  /\ UNCHANGED <<adapter, service, callback, sent, failed>>

(* An exception leaves the loop, which drops the subscription. *)
ParseFailureNats(c) ==
  adapter = "nats" /\ LoopEnds(c, "ended") /\ inbox' = [inbox EXCEPT ![c] = <<>>]

(* An exception leaves the loop, and the consumer stays subscribed. *)
ParseFailurePulsar(c) ==
  adapter = "pulsar" /\ LoopEnds(c, "stalled") /\ inbox' = [inbox EXCEPT ![c] = Tail(@)]

(* An exception leaves the loop, and the socket stays connected. *)
ParseFailureZeroMQ(c) ==
  adapter = "zeromq" /\ LoopEnds(c, "stalled") /\ inbox' = [inbox EXCEPT ![c] = Tail(@)]

-----------------------------------------------------------------------------
(* Settling *)

(* ack and nack of ZeroMQ do nothing. *)
Send(c, d, op, by) ==
  IF adapter = "zeromq" THEN UNCHANGED sent ELSE
  sent' = [sent EXCEPT ![c] = Append(@, [op |-> op, of |-> d, by |-> by])]

(* complete, abandon, deadLetter *)
ServiceBusOp(call) == call

(* nack(false) acks. *)
ActiveMQOp(call) == IF call = "discard" THEN "ack" ELSE call

(* ack, nak, term *)
NatsOp(call) == call

(* nack does not look at its argument. *)
PulsarOp(call) == IF call = "discard" THEN "requeue" ELSE call

(* job.remove, job.retry, job.moveToFailed *)
BullMQOp(call) == call

Op(call) ==
  CASE adapter = "activemq" -> ActiveMQOp(call)
    [] adapter = "pulsar" -> PulsarOp(call)
    [] adapter = "servicebus" -> ServiceBusOp(call)
    [] adapter = "nats" -> NatsOp(call)
    [] OTHER -> BullMQOp(call)

(* A message of the NATS client is settled once, whatever is called after. *)
AdapterSettles(c, d, call, by) ==
  IF adapter = "nats" /\ called[d] # "none" THEN UNCHANGED sent
  ELSE Send(c, d, Op(call), by)

HandlerCall(c, d, call) ==
  /\ d \in handling[c] /\ called[d] = "none"
  /\ \E end \in {"return", "throw"} : <<call, end>> \in Outcomes
  /\ called' = [called EXCEPT ![d] = call]
  /\ Send(c, d, Op(call), "handler")
  /\ UNCHANGED <<adapter, consumer, service, inbox, handling, ended, failed>>

HandlerEnds(c, d, end) ==
  /\ d \in handling[c] /\ <<called[d], end>> \in Outcomes
  /\ handling' = [handling EXCEPT ![c] = @ \ {d}]
  /\ ended' = [ended EXCEPT ![d] = end]
  /\ UNCHANGED <<adapter, consumer, service, inbox, called, failed>>

(* The handler returns: the adapter acks, settled or not. With BullMQ it is the
   worker that completes the job. *)
HandlerReturn(c, d) == HandlerEnds(c, d, "return") /\ AdapterSettles(c, d, "ack", "return")

(* The body cannot be read: nack, without a handler. *)
ReadFailureActiveMQ(c) ==
  /\ "read error" \in Environment /\ adapter = "activemq" /\ Waiting(c)
  /\ Send(c, First(c), ActiveMQOp("requeue"), "throw")
  /\ ended' = [ended EXCEPT ![First(c)] = "throw"]
  /\ inbox' = [inbox EXCEPT ![c] = Tail(@)]
  /\ UNCHANGED <<adapter, consumer, service, handling, called, failed>>

HandlerThrowAck(c, d) == HandlerEnds(c, d, "throw") /\ AdapterSettles(c, d, "ack", "throw")

HandlerThrowHolding(c, d) ==
  /\ d \in handling[c] /\ <<called[d], "throw">> \in Outcomes /\ ended[d] = "no"
  /\ ended' = [ended EXCEPT ![d] = "throw"]
  /\ AdapterSettles(c, d, "requeue", "throw")
  /\ UNCHANGED <<adapter, consumer, service, inbox, handling, called, failed>>

HandlerThrowSilent(c, d) == HandlerEnds(c, d, "throw") /\ UNCHANGED sent

(* The handler throws: the adapter nacks, settled or not. *)
HandlerThrow(c, d) == HandlerEnds(c, d, "throw") /\ AdapterSettles(c, d, "requeue", "throw")

Current(d) == copy[d[1]] = "held" /\ attempt[d[1]] = d[2]

(* NATS and Pulsar let an ack count also when the message has gone back, NATS a
   term too; with NATS it may come too late. *)
LateAck(f) ==
  /\ \/ adapter \in {"nats", "pulsar"} /\ f.op = "ack"
     \/ adapter = "nats" /\ f.op = "discard"
  /\ copy[f.of[1]] \in {"held", "ready"}

(* Whether BullMQ does what it is asked to. The worker completes or fails a job
   as long as it has its lock. The calls of the handler's message know nothing of
   that lock: a job that is locked cannot be removed, one that has not failed
   cannot be retried, and moveToFailed passes the job's id for the lock. *)
BullMQTakes(f) ==
  IF f.by \in {"worker", "return"} THEN Current(f.of)
  ELSE \/ f.op = "ack" /\ copy[f.of[1]] = "ready"
       \/ f.op = "requeue" /\ copy[f.of[1]] = "discarded"

Takes(f) ==
  IF adapter = "bullmq" THEN BullMQTakes(f) ELSE Current(f.of) \/ LateAck(f)

(* ActiveMQ redelivers what is nacked, or moves it to the dead-letter queue.
   BullMQ tries a failed job again while it has attempts left (one is the
   default). *)
Result(f) ==
  IF \/ adapter = "activemq" /\ f.op = "requeue"
     \/ adapter = "bullmq" /\ f.op = "discard"
    THEN {"ready", "discarded"} ELSE {Final[f.op]}

Processed(f) ==
  Takes(f) /\ \E result \in Result(f) : copy' = [copy EXCEPT ![f.of[1]] = result]

(* Settlements are processed in order, but the Pulsar client keeps a negative
   acknowledgement back for a while. *)
Accepted(c, i) ==
  /\ i = 1 \/ adapter = "pulsar"
  /\ Processed(sent[c][i])
  /\ sent' = [sent EXCEPT ![c] = RemoveAt(@, i)]
  /\ UNCHANGED <<adapter, consumer, attempt, holder, inbox, callback, failed>>

Late(c) ==
  sent[c] # <<>> /\ LET f == Head(sent[c]) IN
                    ~Takes(f) \/ (adapter = "nats" /\ ~Current(f.of))

(* The request for a settlement fails, or the frame is lost with the connection,
   whether the lock is still there or not; it may have been processed. *)
Fails(c) ==
  /\ "settle error" \in Environment /\ sent[c] # <<>>
  /\ \/ Processed(Head(sent[c])) /\ UNCHANGED failed
     \/ /\ UNCHANGED copy
        /\ failed' = failed \cup {d \in {Head(sent[c]).of} : Current(d)}

Rejected(c) == (Late(c) /\ UNCHANGED <<copy, failed>>) \/ Fails(c)

OnClient == UNCHANGED <<adapter, consumer, attempt, holder, inbox, callback>>

(* completeMessage rejects: within the try block that leads to nack(true). Where
   that rejects in turn it ends in processError, and nobody settles the message. *)
RefusedServiceBus(c) ==
  LET f == Head(sent[c]) IN
  /\ adapter = "servicebus" /\ Rejected(c) /\ OnClient
  /\ sent' = [sent EXCEPT ![c] =
       Tail(@) \o IF f.by = "return" THEN <<[f EXCEPT !.op = "requeue", !.by = "throw"]>>
                  ELSE <<>>]

(* An ERROR frame: the client gives the connection up, and nobody listens to
   its 'error' event. *)
RefusedActiveMQ(c) == adapter = "activemq" /\ Late(c) /\ Gone(c)

(* The rejection of nack(true) leaves the callback, and the worker fails the job;
   the others go to a handler, or are the worker's own, which leaves the job to its
   lock. *)
RefusedBullMQ(c) ==
  LET f == Head(sent[c]) IN
  /\ adapter = "bullmq" /\ Rejected(c) /\ OnClient
  /\ sent' = [sent EXCEPT ![c] =
       Tail(@) \o IF f.by = "throw" THEN <<[f EXCEPT !.op = "discard", !.by = "worker"]>>
                  ELSE <<>>]

(* The clients of NATS and Pulsar wait for no answer. *)
Ignored(c) ==
  /\ \/ adapter = "nats" /\ Rejected(c)
     \/ adapter = "pulsar" /\ Late(c) /\ UNCHANGED <<copy, failed>>
  /\ sent' = [sent EXCEPT ![c] = Tail(@)] /\ OnClient

-----------------------------------------------------------------------------
(* close. That of ActiveMQ and that of ZeroMQ concern the producer only. *)

(* The receivers and the consumers are closed at once. *)
CloseServiceBus(c) ==
  "close" \in Environment /\ adapter = "servicebus" /\ consumer[c] = "open" /\ Gone(c)

ClosePulsar(c) ==
  /\ "close" \in Environment /\ adapter = "pulsar"
  /\ consumer[c] \in {"open", "stalled"} /\ Gone(c)

Drains(c) ==
  /\ "close" \in Environment /\ consumer[c] = "open"
  /\ consumer' = [consumer EXCEPT ![c] = "draining"]
  /\ UNCHANGED <<adapter, service, inbox, callback, sent, failed>>

(* drain: no more deliveries, what is there is handled, then nc.close(). *)
DrainNats(c) == adapter = "nats" /\ Drains(c)

(* worker.close() waits for the jobs that are active. *)
DrainBullMQ(c) == adapter = "bullmq" /\ Drains(c)

CloseDrained(c) ==
  /\ consumer[c] = "draining"
  /\ inbox[c] = <<>> /\ handling[c] = {} /\ sent[c] = <<>>
  /\ Gone(c)

-----------------------------------------------------------------------------
Subscribe(c) ==
  \/ SubscribeServiceBus(c) \/ SubscribeActiveMQ(c)
  \/ SubscribeNats(c) \/ SubscribePulsar(c)
  \/ SubscribeBullMQ(c) \/ SubscribeZeroMQ(c)

Start(c) ==
  \/ StartServiceBus(c) \/ StartActiveMQ(c) \/ StartNats(c) \/ StartPulsar(c)
  \/ StartBullMQ(c) \/ StartZeroMQ(c)

BodyFailure(c) ==
  \/ ReadFailureActiveMQ(c) \/ ParseFailureActiveMQ(c) \/ ParseFailureNats(c)
  \/ ParseFailurePulsar(c) \/ ParseFailureZeroMQ(c)

Handler(c, d) ==
  \/ \E call \in Settlements : HandlerCall(c, d, call)
  \/ HandlerReturn(c, d) \/ HandlerThrow(c, d)

Settle(c) ==
  \/ \E i \in DOMAIN sent[c] : Accepted(c, i)
  \/ RefusedServiceBus(c) \/ RefusedActiveMQ(c)
  \/ RefusedBullMQ(c) \/ Ignored(c)

Close(c) ==
  CloseServiceBus(c) \/ ClosePulsar(c) \/ DrainNats(c) \/ DrainBullMQ(c) \/ CloseDrained(c)

Next ==
  \/ \E m \in Messages : Publish(m) \/ LockExpires(m)
  \/ \E c \in Consumers :
       \/ Subscribe(c) \/ Close(c) \/ Crash(c)
       \/ \E m \in Messages : Deliver(c, m)
       \/ Start(c) \/ BodyFailure(c) \/ Settle(c)
       \/ \E d \in handling[c] : Handler(c, d)

Spec == Init /\ [][Next]_vars

(* The event loop goes on, and handlers that have been entered end. *)
Fairness ==
  \A c \in Consumers :
    /\ WF_vars(Start(c) \/ BodyFailure(c))
    /\ WF_vars(\E d \in handling[c] : Handler(c, d))

FairSpec == Spec /\ Fairness

-----------------------------------------------------------------------------
(* Properties *)

(* What a handler asks for, in the words of the interface (core:16-19): what has
   been neither acked nor nacked is acked by a return. *)
AckMeant(d) == called[d] = "ack" \/ (called[d] = "none" /\ ended[d] = "return")

DiscardMeant(d) == called[d] = "discard"

(* Where an adapter acks against the interface: nack(false) of ActiveMQ acks; with
   Pulsar and BullMQ the return of a handler overrules its own nack; with Service Bus
   it does when the request of that nack has failed. *)
AckedAgainst(d) ==
  \/ adapter = "activemq" /\ called[d] = "discard"
  \/ /\ called[d] \in {"requeue", "discard"} /\ ended[d] = "return"
     /\ adapter \in {"pulsar", "bullmq"} \/ (adapter = "servicebus" /\ d \in failed)

(* Where a message is given up that nobody discarded: ActiveMQ may move what is nacked
   to its dead-letter queue; with BullMQ nack(true) is always refused, so that a job
   fails whose handler throws, also with the rejection of the ack or nack it awaits. *)
DiscardedAgainst(d) ==
  \/ adapter = "activemq" /\ (called[d] = "requeue" \/ ended[d] = "throw")
  \/ adapter = "bullmq" /\ ended[d] = "throw"

(* A message leaves the group for good only if one of its handlers meant it to, or in
   one of the ways named above in which an adapter goes against the interface; and a
   BullMQ job also if two of its handlers were too slow. With NATS, and with Service
   Bus as long as no request of a settlement fails, there is no such way: the
   settlement that the adapter adds after a handler's own never overrules it, across
   locks that run out, redeliveries to the same consumer, and the second nack that
   follows a rejected ack. *)
SettledAsMeant ==
  \A m \in Messages :
    /\ copy[m] = "acked" =>
         \E n \in 1..attempt[m] : AckMeant(<<m, n>>) \/ AckedAgainst(<<m, n>>)
    /\ copy[m] = "discarded" =>
         \/ StalledBefore(m)
         \/ \E n \in 1..attempt[m] : DiscardMeant(<<m, n>>) \/ DiscardedAgainst(<<m, n>>)

(* "Negative acknowledgement; if `requeue` is true -> redeliver" (core:18): what all
   its handlers have nacked so is not acked. *)
NackedIsRedelivered ==
  \A m \in Messages :
    copy[m] = "acked" => \E n \in 1..attempt[m] : called[<<m, n>>] # "requeue"

(* What a running consumer holds is waiting for its callback, with a handler, or
   has a settlement under way: the callback settles on every path, also when
   the handler throws, has settled itself, or its settlement was refused. Nobody
   works on it only after a settlement of it has failed or was lost, and then the
   lock runs out: ActiveMQ and Pulsar would never hand a forgotten message out
   again. *)
NothingForgotten ==
  \A m \in Messages :
    copy[m] = "held" /\ consumer[holder[m]] \in {"open", "draining"} =>
      InHand(m) \/ (adapter \in Locking /\ <<m, attempt[m]>> \in failed)

(* What has reached an open consumer reaches its handler, whatever the handlers
   before it did: one that throws or settles twice does not stop the callback
   or the loop, unless the consumer itself comes to an end. *)
HandedOn ==
  \A c \in Consumers, d \in Deliveries :
    (consumer[c] = "open" /\ Contains(inbox[c], d))
      ~> (~Contains(inbox[c], d) \/ consumer[c] # "open")
=============================================================================
