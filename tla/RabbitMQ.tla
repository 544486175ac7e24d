------------------------------ MODULE RabbitMQ ------------------------------
(***************************************************************************)
(* The RabbitMQ adapter (packages/rabbitmq/src/index.ts) on one topic: a   *)
(* set of RabbitBroker instances, each with one connection and one channel *)
(* (as the containers of apps/test-rabbitmq have), and the RabbitMQ server *)
(* they talk to.                                                           *)
(*                                                                         *)
(* What a channel sends without waiting for an answer (publish, ack, nack) *)
(* travels as frames on wire[c], in order, and is lost with the channel.   *)
(* A call that awaits an answer (assertExchange, assertQueue, bindQueue,   *)
(* consume, close) is one step, taken when the frames sent before it have  *)
(* been processed. A delivery tag is an index of deliveries[c]. The server *)
(* keeps the queue of every group (copy), and for every channel the tags   *)
(* it has not settled (unacked). The adapter never reconnects: a channel   *)
(* that has failed or closed stays so, and so does its RabbitBroker.       *)
(*                                                                         *)
(* A channel that fails does so at the server first: it is "failing" until *)
(* the client hears of it, and "failed" then. What the server had sent     *)
(* before is still on its way to the callback, and what the client sends   *)
(* in the meantime goes nowhere.                                           *)
(*                                                                         *)
(* Handlers are application code: Outcomes says what they may do, as pairs *)
(* <<settlement call, way to end>>. Environment says what else may happen. *)
(***************************************************************************)
EXTENDS Naturals, Sequences, FiniteSets

CONSTANTS
  Clients,        \* RabbitBroker instances
  Groups,         \* consumer groups
  Messages,       \* messages, each published at most once
  Malformed,      \* messages of other producers, whose body is not JSON
  Prefetch,       \* RabbitConfig.prefetch
  Outcomes,       \* what a handler may do
  Environment,    \* what may happen besides calls and handlers
  MaxDeliveries   \* bound: deliveries per channel

Calls == {"none", "ack", "requeue", "discard"}
Events == {"close", "connection", "restart", "unensured"}

ASSUME RabbitAssumption ==
  /\ Malformed \subseteq Messages
  /\ Prefetch \in Nat \ {0}
  /\ MaxDeliveries \in Nat
  /\ Outcomes \subseteq Calls \X {"return", "throw"}
  /\ Environment \subseteq Events

VARIABLES
  chan,         \* chan[c]: the channel of client c, see above
  exchange,     \* the fanout exchange oq.exchange.<topic> exists
  queues,       \* groups whose queue oq.queue.<topic>.<group> exists
  bound,        \* groups whose queue is bound to the exchange
  subs,         \* subs[c][g]: the call subscribe waits for, or its result
  pub,          \* pub[c][m]: where the call publish(topic, m) of c stands
  wire,         \* wire[c]: frames sent by c, not yet processed by the server
  copy,         \* copy[g][m]: the message in the queue of g
  deliveries,   \* deliveries[c][t]: the queue and message of delivery tag t
  unacked,      \* unacked[c]: tags the server waits to see settled
  started,      \* started[c]: how many deliveries have reached the callback
  running,      \* running[c]: tags whose handler is running
  called        \* called[c][call]: tags whose handler has made that call

topology == <<exchange, queues, bound>>
handlers == <<started, running, called>>
vars == <<chan, topology, subs, pub, wire, copy, deliveries, unacked, handlers>>

Settlements == Calls \ {"none"}
Frames == [op : {"publish"}, msg : Messages] \cup [op : Settlements, tag : Nat]
Final == [ack |-> "acked", requeue |-> "ready", discard |-> "discarded"]

TypeOK ==
  /\ chan \in [Clients -> {"new", "open", "closed", "failing", "failed"}]
  /\ exchange \in BOOLEAN /\ queues \subseteq Groups /\ bound \subseteq Groups
  /\ subs \in [Clients -> [Groups -> {"idle", "exchange", "queue", "bind",
                                      "consume", "consuming", "stopped"}]]
  /\ pub \in [Clients -> [Messages -> {"idle", "asserted", "draining",
                                       "resolved", "rejected"}]]
  /\ wire \in [Clients -> Seq(Frames)]
  /\ copy \in [Groups -> [Messages -> {"none", "ready", "unacked", "acked",
                                       "discarded", "lost"}]]
  /\ deliveries \in [Clients -> Seq(Groups \X Messages)]
  /\ unacked \in [Clients -> SUBSET Nat]
  /\ started \in [Clients -> Nat]
  /\ running \in [Clients -> SUBSET Nat]
  /\ called \in [Clients -> [Settlements -> SUBSET Nat]]
  /\ \A c \in Clients :
       /\ started[c] <= Len(deliveries[c])
       /\ unacked[c] \subseteq 1..Len(deliveries[c])
       /\ running[c] \subseteq 1..started[c]
       /\ \A call \in Settlements : called[c][call] \subseteq 1..started[c]

Init ==
  /\ chan = [c \in Clients |-> "new"]
  /\ exchange = FALSE /\ queues = {} /\ bound = {}
  /\ subs = [c \in Clients |-> [g \in Groups |-> "idle"]]
  /\ pub = [c \in Clients |-> [m \in Messages |-> "idle"]]
  /\ wire = [c \in Clients |-> <<>>]
  /\ copy = [g \in Groups |-> [m \in Messages |-> "none"]]
  /\ deliveries = [c \in Clients |-> <<>>]
  /\ unacked = [c \in Clients |-> {}]
  /\ started = [c \in Clients |-> 0]
  /\ running = [c \in Clients |-> {}]
  /\ called = [c \in Clients |-> [call \in Settlements |-> {}]]

-----------------------------------------------------------------------------
(* Channels *)

(* The copies the server has handed to c and waits to see settled. *)
HeldBy(c) == {deliveries[c][t] : t \in unacked[c]}

Rpc(c) == chan[c] = "open" /\ wire[c] = <<>>

(* The client takes its channel for open. *)
Live(c) == chan[c] \in {"open", "failing"}

Send(c, frame) ==
  wire' = IF chan[c] = "open" THEN [wire EXCEPT ![c] = Append(@, frame)] ELSE wire

Stop(s) == IF s = "idle" THEN "idle" ELSE "stopped"

(* The server lets a channel go: it puts what was not settled back in its
   queues, the frames under way are lost, and its consumers are gone. *)
ChannelEnds(c, how) ==
  /\ chan' = [chan EXCEPT ![c] = how]
  /\ wire' = [wire EXCEPT ![c] = <<>>]
  /\ subs' = [subs EXCEPT ![c] = [g \in Groups |-> Stop(subs[c][g])]]
  /\ unacked' = [unacked EXCEPT ![c] = {}]
  /\ copy' = [g \in Groups |-> [m \in Messages |->
                IF <<g, m>> \in HeldBy(c) THEN "ready" ELSE copy[g][m]]]
  /\ UNCHANGED <<topology, pub, deliveries, handlers>>

Connect(c) ==
  /\ chan[c] = "new"
  /\ chan' = [chan EXCEPT ![c] = "open"]
  /\ UNCHANGED <<topology, subs, pub, wire, copy, deliveries, unacked, handlers>>

CloseAtOnce(c) ==
  /\ "close" \in Environment /\ chan[c] = "open"
  /\ ChannelEnds(c, "closed")

(* channel.close() is answered once the frames before it are processed; the
   code does not wait for the handlers that are running. *)
Close(c) ==
  /\ "close" \in Environment /\ Rpc(c)
  /\ ChannelEnds(c, "closed")

(* The network or the client's process fails. *)
ConnectionLost(c) ==
  /\ "connection" \in Environment /\ chan[c] = "open"
  /\ ChannelEnds(c, "failing")

(* The server's channel.close, or the end of the socket, reaches the client. *)
CloseArrives(c) ==
  /\ chan[c] = "failing"
  /\ chan' = [chan EXCEPT ![c] = "failed"]
  /\ UNCHANGED <<topology, subs, pub, wire, copy, deliveries, unacked, handlers>>

(* publish sets no `persistent`, so the server keeps messages in memory even
   in a durable queue: a restart drops them along with every connection. *)
ServerRestart ==
  /\ "restart" \in Environment /\ \E c \in Clients : chan[c] = "open"
  /\ chan' = [c \in Clients |-> IF chan[c] = "open" THEN "failing" ELSE chan[c]]
  /\ wire' = [c \in Clients |-> <<>>]
  /\ subs' = [c \in Clients |-> [g \in Groups |-> Stop(subs[c][g])]]
  /\ unacked' = [c \in Clients |-> {}]
  /\ copy' = [g \in Groups |-> [m \in Messages |->
                IF copy[g][m] \in {"ready", "unacked"} THEN "lost" ELSE copy[g][m]]]
  /\ UNCHANGED <<topology, pub, deliveries, handlers>>

-----------------------------------------------------------------------------
(* subscribe(topic, handler, groupId, opts) *)

SubStep(c, g, from, to) ==
  /\ subs[c][g] = from
  /\ subs' = [subs EXCEPT ![c][g] = to]
  /\ UNCHANGED <<chan, pub, wire, copy, deliveries, unacked, handlers>>

(* Calls on a channel that fails are never answered, and reject when the
   client hears of it. *)
SubscribeCall(c, g, ensure) ==
  /\ chan[c] = "open" /\ (ensure \/ "unensured" \in Environment)
  /\ SubStep(c, g, "idle", IF ensure THEN "exchange" ELSE "consume")
  /\ UNCHANGED topology

AssertExchange(c, g) ==
  /\ Rpc(c) /\ SubStep(c, g, "exchange", "queue")
  /\ exchange' = TRUE /\ UNCHANGED <<queues, bound>>

AssertQueueOnly(c, g) ==
  /\ Rpc(c) /\ SubStep(c, g, "queue", "consume")
  /\ queues' = queues \cup {g} /\ UNCHANGED <<exchange, bound>>

AssertQueue(c, g) ==
  /\ Rpc(c) /\ SubStep(c, g, "queue", "bind")
  /\ queues' = queues \cup {g} /\ UNCHANGED <<exchange, bound>>

BindQueue(c, g) ==
  /\ Rpc(c) /\ SubStep(c, g, "bind", "consume")
  /\ bound' = bound \cup {g} /\ UNCHANGED <<exchange, queues>>

(* Consuming from a queue that does not exist is an error of the channel, the
   one channel that everything of this broker goes through. *)
Consume(c, g) ==
  /\ Rpc(c) /\ subs[c][g] = "consume"
  /\ \/ /\ g \in queues
        /\ SubStep(c, g, "consume", "consuming") /\ UNCHANGED topology
     \/ g \notin queues /\ ChannelEnds(c, "failing")

-----------------------------------------------------------------------------
(* publish(topic, msg, opts) *)

PubStep(c, m, from, to) ==
  /\ pub[c][m] = from
  /\ pub' = [pub EXCEPT ![c][m] = to]
  /\ UNCHANGED <<chan, subs, copy, deliveries, unacked, handlers>>

(* The exchange is asserted whatever opts says: opts.ensure is not read. *)
PublishCall(c, m) ==
  /\ Rpc(c) /\ m \notin Malformed /\ \A d \in Clients : pub[d][m] = "idle"
  /\ PubStep(c, m, "idle", "asserted")
  /\ exchange' = TRUE /\ UNCHANGED <<queues, bound, wire>>

PublishSendIfOpen(c, m) ==
  /\ Live(c)
  /\ \E result \in {"resolved", "draining"} : PubStep(c, m, "asserted", result)
  /\ Send(c, [op |-> "publish", msg |-> m]) /\ UNCHANGED topology

(* channel.publish throws on a channel the client knows to be gone; on any
   other it queues the frame and says whether the write buffer is full. *)
PublishSend(c, m) ==
  /\ \/ /\ Live(c)
        /\ \E result \in {"resolved", "draining"} : PubStep(c, m, "asserted", result)
     \/ ~Live(c) /\ PubStep(c, m, "asserted", "rejected")
  /\ Send(c, [op |-> "publish", msg |-> m]) /\ UNCHANGED topology

PublishDrainedResend(c, m) ==
  /\ Rpc(c) /\ PubStep(c, m, "draining", "resolved")
  /\ Send(c, [op |-> "publish", msg |-> m]) /\ UNCHANGED topology

(* The channel emits 'drain', which it does as long as the client takes it
   for open. *)
PublishDrained(c, m) ==
  /\ Live(c) /\ wire[c] = <<>> /\ PubStep(c, m, "draining", "resolved")
  /\ UNCHANGED <<topology, wire>>

(* The fanout exchange copies a message to every queue bound to it. *)
Route(m) ==
  copy' = [g \in Groups |->
             [copy[g] EXCEPT ![m] = IF g \in bound THEN "ready" ELSE @]]

Arrived(c, op) == chan[c] = "open" /\ wire[c] # <<>> /\ Head(wire[c]).op = op

PublishArrives(c) ==
  /\ Arrived(c, "publish")
  /\ Route(Head(wire[c]).msg)
  /\ wire' = [wire EXCEPT ![c] = Tail(@)]
  /\ UNCHANGED <<chan, topology, subs, pub, deliveries, unacked, handlers>>

ForeignPublish(m) ==
  /\ m \in Malformed /\ exchange /\ \A g \in Groups : copy[g][m] = "none"
  /\ Route(m)
  /\ UNCHANGED <<chan, topology, subs, pub, wire, deliveries, unacked, handlers>>

-----------------------------------------------------------------------------
(* Deliveries and handlers *)

(* The server hands a ready message to a consumer below its prefetch limit. *)
Deliver(c, g, m) ==
  /\ chan[c] = "open" /\ subs[c][g] = "consuming" /\ copy[g][m] = "ready"
  /\ Cardinality({t \in unacked[c] : deliveries[c][t][1] = g}) < Prefetch
  /\ Len(deliveries[c]) < MaxDeliveries
  /\ deliveries' = [deliveries EXCEPT ![c] = Append(@, <<g, m>>)]
  /\ unacked' = [unacked EXCEPT ![c] = @ \cup {Len(deliveries[c]) + 1}]
  /\ copy' = [copy EXCEPT ![g][m] = "unacked"]
  /\ UNCHANGED <<chan, topology, subs, pub, wire, handlers>>

HandlerStartEarly(c) ==
  /\ chan[c] = "open" /\ started[c] <= Len(deliveries[c])
  /\ started' = [started EXCEPT ![c] = @ + 1]
  /\ running' = [running EXCEPT ![c] = @ \cup {started[c] + 1}]
  /\ UNCHANGED <<chan, topology, subs, pub, wire, copy, deliveries, unacked, called>>

PendingForever(c) == started[c] < Len(deliveries[c])

Pending(c) == Live(c) /\ started[c] < Len(deliveries[c])

(* The consume callback runs for the next delivery and enters the handler,
   until the client hears that its channel has gone. *)
HandlerStart(c) ==
  /\ Pending(c) /\ deliveries[c][started[c] + 1][2] \notin Malformed
  /\ started' = [started EXCEPT ![c] = @ + 1]
  /\ running' = [running EXCEPT ![c] = @ \cup {started[c] + 1}]
  /\ UNCHANGED <<chan, topology, subs, pub, wire, copy, deliveries, unacked, called>>

(* JSON.parse throws outside the try block: the callback's promise rejects
   with nobody to catch it, which ends the process. *)
ParseFailure(c) ==
  /\ Pending(c) /\ deliveries[c][started[c] + 1][2] \in Malformed
  /\ ChannelEnds(c, "failed")

Called(c, t) == {call \in Settlements : t \in called[c][call]}

CanEnd(c, t, end) ==
  \E call \in Calls : <<call, end>> \in Outcomes /\ Called(c, t) = {call} \ {"none"}

HandlerCallUnsent(c, t, call) ==
  /\ t \in running[c] /\ Called(c, t) = {}
  /\ \E end \in {"return", "throw"} : <<call, end>> \in Outcomes
  /\ called' = [called EXCEPT ![c][call] = @ \cup {t}]
  /\ UNCHANGED <<chan, topology, subs, pub, wire, copy, deliveries, unacked, started, running>>

(* The handler calls msg.ack(), msg.nack(true) or msg.nack(false). *)
HandlerCall(c, t, call) ==
  /\ t \in running[c] /\ Called(c, t) = {}
  /\ \E end \in {"return", "throw"} : <<call, end>> \in Outcomes
  /\ called' = [called EXCEPT ![c][call] = @ \cup {t}]
  /\ Send(c, [op |-> call, tag |-> t])
  /\ UNCHANGED <<chan, topology, subs, pub, copy, deliveries, unacked, started, running>>

HandlerEnds(c, t, end) ==
  /\ t \in running[c] /\ CanEnd(c, t, end)
  /\ running' = [running EXCEPT ![c] = @ \ {t}]
  /\ UNCHANGED <<chan, topology, subs, pub, copy, deliveries, unacked, started, called>>

HandlerReturnAutoAck(c, t) ==
  HandlerEnds(c, t, "return") /\ Send(c, [op |-> "ack", tag |-> t])

(* The handler returns: the adapter settles nothing on its behalf. *)
HandlerReturn(c, t) == HandlerEnds(c, t, "return") /\ UNCHANGED wire

HandlerThrowAck(c, t) ==
  HandlerEnds(c, t, "throw") /\ Send(c, [op |-> "ack", tag |-> t])

(* The handler throws: the adapter calls nack(true), settled or not. *)
HandlerThrow(c, t) ==
  HandlerEnds(c, t, "throw") /\ Send(c, [op |-> "requeue", tag |-> t])

SettleKnown(c, call) ==
  LET t == Head(wire[c]).tag  p == deliveries[c][t] IN
  /\ t \in unacked[c]
  /\ unacked' = [unacked EXCEPT ![c] = @ \ {t}]
  /\ copy' = [copy EXCEPT ![p[1]][p[2]] = Final[call]]
  /\ wire' = [wire EXCEPT ![c] = Tail(@)]
  /\ UNCHANGED <<chan, topology, subs, pub, deliveries, handlers>>

(* The server settles a tag it waits for; any other tag is an error of the
   channel (PRECONDITION_FAILED, unknown delivery tag). *)
SettleArrives(c, call) ==
  /\ Arrived(c, call)
  /\ \/ SettleKnown(c, call)
     \/ Head(wire[c]).tag \notin unacked[c] /\ ChannelEnds(c, "failing")

-----------------------------------------------------------------------------
Subscribe(c, g) ==
  \/ \E ensure \in BOOLEAN : SubscribeCall(c, g, ensure)
  \/ AssertExchange(c, g) \/ AssertQueue(c, g) \/ BindQueue(c, g) \/ Consume(c, g)

Publish(c, m) == PublishCall(c, m) \/ PublishSend(c, m) \/ PublishDrained(c, m)

Handler(c, t) ==
  \/ \E call \in Settlements : HandlerCall(c, t, call)
  \/ HandlerReturn(c, t) \/ HandlerThrow(c, t)

Server(c) ==
  \/ PublishArrives(c)
  \/ \E call \in Settlements : SettleArrives(c, call)
  \/ \E g \in Groups, m \in Messages : Deliver(c, g, m)

Next ==
  \/ \E c \in Clients :
       \/ Connect(c) \/ Close(c) \/ ConnectionLost(c) \/ CloseArrives(c)
       \/ \E g \in Groups : Subscribe(c, g)
       \/ \E m \in Messages : Publish(c, m)
       \/ HandlerStart(c) \/ ParseFailure(c)
       \/ \E t \in running[c] : Handler(c, t)
       \/ Server(c)
  \/ \E m \in Messages : ForeignPublish(m)
  \/ ServerRestart

Spec == Init /\ [][Next]_vars

(* What the event loop and the server keep doing: frames are processed,
   deliveries dispatched, calls answered. Nothing is assumed of Connect,
   SubscribeCall, PublishCall or Close (the application's choice). A handler
   that has been entered goes on (an application that awaits forever is
   outside the interface's contract). *)
Fairness ==
  /\ \A g \in Groups, m \in Messages : WF_vars(\E c \in Clients : Deliver(c, g, m))
  /\ \A c \in Clients :
       /\ WF_vars(PublishArrives(c) \/ \E call \in Settlements : SettleArrives(c, call))
       /\ WF_vars(HandlerStart(c) \/ ParseFailure(c)) /\ WF_vars(CloseArrives(c))
       /\ \A g \in Groups :
            WF_vars(AssertExchange(c, g) \/ AssertQueue(c, g)
                      \/ BindQueue(c, g) \/ Consume(c, g))
       /\ \A m \in Messages : WF_vars(PublishSend(c, m) \/ PublishDrained(c, m))
       /\ \A t \in 1..MaxDeliveries : WF_vars(t \in running[c] /\ Handler(c, t))

FairSpec == Spec /\ Fairness

-----------------------------------------------------------------------------
(* Safety *)

HeldIsUnacked ==
  \A c \in Clients : \A t \in unacked[c] :
    copy[deliveries[c][t][1]][deliveries[c][t][2]] = "unacked"

HeldByOne ==
  \A c, d \in Clients : \A t \in unacked[c], s \in unacked[d] :
    deliveries[c][t] = deliveries[d][s] => c = d /\ t = s

UnackedIsHeld ==
  \A g \in Groups, m \in Messages :
    copy[g][m] = "unacked" => \E c \in Clients : <<g, m>> \in HeldBy(c)

(* A copy the server waits to see settled is held under one tag of one
   channel, and every tag it waits for stands for such a copy: inside a group
   one consumer at a time has the message, through requeues, lost channels
   and closes. *)
HeldOnce == HeldIsUnacked /\ HeldByOne /\ UnackedIsHeld

(* A message leaves a group's queue for good only because a handler that was
   given it called ack (or nack without requeue): a handler that throws, a
   channel that dies and frames that are lost never make it disappear. *)
GoneOnHandlersWord ==
  \A g \in Groups, m \in Messages, call \in {"ack", "discard"} :
    copy[g][m] = Final[call] =>
      \E c \in Clients : \E t \in called[c][call] : deliveries[c][t] = <<g, m>>

(* Why the two hold. A message is published by one client, which sends one
   frame for it, and until that frame is processed no queue has the message. *)
Unsent == {"idle", "asserted", "rejected"}

Carries(frame, m) == frame.op = "publish" /\ frame.msg = m

OnePublisher ==
  \A m \in Messages, c \in Clients : pub[c][m] # "idle" =>
    m \notin Malformed /\ \A d \in Clients : pub[d][m] # "idle" => c = d

UnsentIsNowhere ==
  \A m \in Messages \ Malformed : (\A c \in Clients : pub[c][m] \in Unsent) =>
    \A g \in Groups : copy[g][m] = "none"

OneFrame ==
  \A m \in Messages, c \in Clients : \A i \in 1..Len(wire[c]) :
    Carries(wire[c][i], m) =>
      /\ pub[c][m] \notin Unsent
      /\ \A g \in Groups : copy[g][m] = "none"
      /\ \A j \in 1..Len(wire[c]) : Carries(wire[c][j], m) => i = j

PublishedOnce == OnePublisher /\ UnsentIsNowhere /\ OneFrame

(* An ack or a discard on the wire is one a handler has called; every tag on
   the wire is one the callback has seen. *)
WireIsCalled ==
  \A c \in Clients : \A i \in 1..Len(wire[c]) :
    wire[c][i].op # "publish" =>
      /\ wire[c][i].tag \in 1..started[c]
      /\ wire[c][i].op \in {"ack", "discard"} => wire[c][i].tag \in called[c][wire[c][i].op]

(* The inductive invariant. *)
IInv == TypeOK /\ HeldOnce /\ PublishedOnce /\ WireIsCalled /\ GoneOnHandlersWord

(* The settlement that a delivery receives first is final: no later nack, not
   even the one the adapter adds when a handler throws after it has settled,
   brings an acknowledged or discarded message back. *)
FirstSettlementFinal ==
  [][\A g \in Groups, m \in Messages :
       copy[g][m] \in {"acked", "discarded"} => copy'[g][m] = copy[g][m]]_vars

(* A handler is entered for a delivery the server waits for, which no other
   handler of a channel that is up works on unsettled. The one exception is a
   client whose channel the server has let go and that has not heard of it: it
   enters handlers for messages that others may have by now. *)
WorksOn(c, p) ==
  chan[c] = "open" /\ \E t \in running[c] : deliveries[c][t] = p /\ Called(c, t) = {}

StartedIsHeld ==
  [][\A c \in Clients : LET t == started'[c] IN
       t # started[c] =>
         \/ chan[c] = "failing"
         \/ t \in unacked[c] /\ \A d \in Clients : ~WorksOn(d, deliveries[c][t])]_vars

(* Once subscribe(ensure) has resolved, the group's queue is bound: every
   message routed from then on has a copy for the group. *)
ConsumingIsBound ==
  \A c \in Clients, g \in Groups : subs[c][g] = "consuming" => g \in bound

(* The adapter settles nothing in addition to the handler, except that it
   requeues what a handler had settled before it threw: an acknowledgement or
   discard on its way always meets a server that waits for it, and only the
   nack(true) of the catch block can cost the broker its channel. *)
Settles(frame, t) == frame.op # "publish" /\ frame.tag = t

OnlyThrowSettlesTwice ==
  \A c \in Clients : \A i \in 1..Len(wire[c]) : \A t \in 1..started[c] :
    /\ Settles(wire[c][i], t)
    /\ t \notin unacked[c] \/ \E j \in 1..(i - 1) : Settles(wire[c][j], t)
    => wire[c][i].op = "requeue" /\ Called(c, t) # {} /\ t \notin running[c]

(* A message that publish has handed to the channel reaches the queue of every
   bound group unless the channel fails: a close lets go of nothing. *)
OnWire(c, m) == \E i \in 1..Len(wire[c]) : Carries(wire[c][i], m)

CloseLosesNothing ==
  [][\A c \in Clients, m \in Messages :
       OnWire(c, m) /\ ~OnWire(c, m)'
         => chan'[c] \in {"failing", "failed"} \/ \A g \in bound : copy'[g][m] = "ready"]_vars

(* The detailed system is an implementation of the group-delivery contract. *)
Delivery == INSTANCE GroupDelivery WITH
  Consumers <- Clients,
  joined <- bound,
  stage <- [g \in Groups |-> [m \in Messages |->
              IF copy[g][m] = "none" THEN "absent"
              ELSE IF copy[g][m] \in {"ready", "unacked"} THEN "pending"
              ELSE copy[g][m]]],
  held <- [g \in Groups |-> [m \in Messages |->
              {c \in Clients : <<g, m>> \in HeldBy(c)}]]

ImplementsGroupDelivery == Delivery!Spec

(* A group with a live consumer works its queue off: when handlers come to a
   decision, each message in the queue is acknowledged or discarded, by another
   consumer if the one that held it is lost, unless no consumer is left. *)
HasConsumer(g) == \E c \in Clients : subs[c][g] = "consuming"

EventuallySettled ==
  \A g \in Groups, m \in Messages :
    (copy[g][m] = "ready" /\ HasConsumer(g))
      ~> (copy[g][m] \in {"acked", "discarded"} \/ ~HasConsumer(g))

(* A publish that has set up its exchange resolves or rejects, also when the
   channel fails before it is sent; the one exception is a channel that fails
   while publish waits for its drain event, for which nothing listens. *)
PublishSettles ==
  \A c \in Clients, m \in Messages :
    pub[c][m] = "asserted"
      ~> \/ pub[c][m] \in {"resolved", "rejected"}
         \/ pub[c][m] = "draining" /\ chan[c] # "open"
=============================================================================
