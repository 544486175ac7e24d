--------------------------- MODULE RabbitMQProofs ---------------------------
(***************************************************************************)
(* What RabbitMQ.tla's model of the RabbitMQ adapter guarantees for every  *)
(* number of brokers, groups, messages and deliveries, every prefetch,     *)
(* every handler and every environment.                                    *)
(***************************************************************************)
EXTENDS RabbitMQ, TLAPS

(* What the steps do to sequences. *)
LEMMA AppendFact ==
  ASSUME NEW S, NEW s \in Seq(S), NEW e \in S
  PROVE  /\ Append(s, e) \in Seq(S)
         /\ Len(Append(s, e)) = Len(s) + 1 /\ Len(s) \in Nat
         /\ Append(s, e)[Len(s) + 1] = e
         /\ \A i \in 1..Len(s) : Append(s, e)[i] = s[i]
  OBVIOUS

(* What remains of a non-empty sequence when its head is taken off. *)
LEMMA TailFact ==
  ASSUME NEW S, NEW s \in Seq(S), s # <<>>
  PROVE  /\ Tail(s) \in Seq(S) /\ Head(s) \in S /\ Head(s) = s[1]
         /\ Len(s) \in Nat \ {0} /\ Len(Tail(s)) = Len(s) - 1
         /\ \A i \in 1..Len(Tail(s)) : Tail(s)[i] = s[i + 1]
  OBVIOUS

(* The empty sequence is a sequence over every set and has length 0. *)
LEMMA EmptyFact == ASSUME NEW S PROVE <<>> \in Seq(S) /\ Len(<<>>) = 0
  OBVIOUS

-----------------------------------------------------------------------------
(* Types *)

(* Writing a frame on a channel leaves every wire a sequence of frames. *)
LEMMA SendType ==
  ASSUME TypeOK, NEW c \in Clients, NEW frame \in Frames, Send(c, frame)
  PROVE  wire' \in [Clients -> Seq(Frames)]
  BY AppendFact DEF Send, TypeOK

(* Taking the first frame off a wire leaves every wire a sequence of *)
(* frames.                                                           *)
LEMMA WireTailType ==
  ASSUME TypeOK, NEW c \in Clients, wire[c] # <<>>,
         wire' = [wire EXCEPT ![c] = Tail(@)]
  PROVE  wire' \in [Clients -> Seq(Frames)]
  BY TailFact DEF TypeOK

(* The end of a channel, closed or failed, leaves the types. *)
LEMMA ChannelEndsType ==
  ASSUME TypeOK, NEW c \in Clients, NEW how \in {"closed", "failing", "failed"},
         ChannelEnds(c, how)
  PROVE  TypeOK'
  <1> USE DEF ChannelEnds, TypeOK, topology, handlers
  <1>1. subs' \in [Clients -> [Groups -> {"idle", "exchange", "queue", "bind",
                                          "consume", "consuming", "stopped"}]]
    BY DEF Stop
  <1>2. wire' \in [Clients -> Seq(Frames)]
    BY EmptyFact
  <1>3. copy' \in [Groups -> [Messages -> {"none", "ready", "unacked", "acked",
                                           "discarded", "lost"}]]
    OBVIOUS
  <1>4. chan' \in [Clients -> {"new", "open", "closed", "failing", "failed"}]
    OBVIOUS
  <1>5. unacked' \in [Clients -> SUBSET Nat]
        /\ \A d \in Clients : unacked'[d] \subseteq 1..Len(deliveries[d])
    OBVIOUS
  <1> QED
    BY <1>1, <1>2, <1>3, <1>4, <1>5

(* The initial state has the types. *)
LEMMA InitType == Init => TypeOK
  <1> SUFFICES ASSUME Init PROVE TypeOK
    OBVIOUS
  <1>1. /\ wire \in [Clients -> Seq(Frames)]
        /\ deliveries \in [Clients -> Seq(Groups \X Messages)]
    BY EmptyFact DEF Init
  <1>2. called \in [Clients -> [Settlements -> SUBSET Nat]]
    BY DEF Init
  <1>3. \A c \in Clients :
          /\ started[c] <= Len(deliveries[c])
          /\ unacked[c] \subseteq 1..Len(deliveries[c])
          /\ running[c] \subseteq 1..started[c]
          /\ \A call \in Settlements : called[c][call] \subseteq 1..started[c]
    BY EmptyFact DEF Init
  <1>4. /\ subs \in [Clients -> [Groups -> {"idle", "exchange", "queue", "bind",
                                            "consume", "consuming", "stopped"}]]
        /\ pub \in [Clients -> [Messages -> {"idle", "asserted", "draining",
                                             "resolved", "rejected"}]]
    BY DEF Init
  <1>5. copy \in [Groups -> [Messages -> {"none", "ready", "unacked", "acked",
                                         "discarded", "lost"}]]
    BY DEF Init
  <1> QED
    BY <1>1, <1>2, <1>3, <1>4, <1>5 DEF Init, TypeOK

(* Subscribe's topology calls and its basic.consume keep the types. *)
LEMMA SubscribeType ==
  ASSUME TypeOK, NEW c \in Clients, NEW g \in Groups, Subscribe(c, g)
  PROVE  TypeOK'
  <1> USE DEF TypeOK, topology, handlers, SubStep
  <1>1. ASSUME NEW ensure \in BOOLEAN, SubscribeCall(c, g, ensure) PROVE TypeOK'
    BY <1>1 DEF SubscribeCall
  <1>2. CASE AssertExchange(c, g)
    BY <1>2 DEF AssertExchange
  <1>3. CASE AssertQueue(c, g)
    BY <1>3 DEF AssertQueue
  <1>4. CASE BindQueue(c, g)
    BY <1>4 DEF BindQueue
  <1>5. CASE Consume(c, g)
    <2>1. CASE ChannelEnds(c, "failing")
      BY <2>1, ChannelEndsType
    <2>2. CASE SubStep(c, g, "consume", "consuming") /\ UNCHANGED topology
      BY <2>2
    <2> QED
      BY <1>5, <2>1, <2>2 DEF Consume
  <1> QED
    BY <1>1, <1>2, <1>3, <1>4, <1>5 DEF Subscribe

(* Every step of a publish call keeps the types. *)
LEMMA PublishType ==
  ASSUME TypeOK, NEW c \in Clients, NEW m \in Messages, Publish(c, m)
  PROVE  TypeOK'
  <1> USE DEF TypeOK, topology, handlers, PubStep
  <1>1. CASE PublishCall(c, m)
    BY <1>1 DEF PublishCall
  <1>2. CASE PublishSend(c, m)
    <2>1. [op |-> "publish", msg |-> m] \in Frames
      BY DEF Frames
    <2>2. wire' \in [Clients -> Seq(Frames)]
      BY <1>2, <2>1, SendType DEF PublishSend
    <2>3. \E result \in {"resolved", "draining", "rejected"} :
            PubStep(c, m, "asserted", result) /\ UNCHANGED topology
      BY <1>2 DEF PublishSend
    <2> QED
      BY <2>2, <2>3
  <1>3. CASE PublishDrained(c, m)
    BY <1>3 DEF PublishDrained
  <1> QED
    BY <1>1, <1>2, <1>3 DEF Publish

(* Routing a message to the bound queues leaves the copies typed. *)
LEMMA RouteType ==
  ASSUME TypeOK, NEW m \in Messages, Route(m)
  PROVE  copy' \in [Groups -> [Messages -> {"none", "ready", "unacked", "acked",
                                           "discarded", "lost"}]]
  BY DEF Route, TypeOK

(* What is known of the frame at the head of an open channel's wire. *)
LEMMA ArrivedFact ==
  ASSUME TypeOK, NEW c \in Clients, NEW op, Arrived(c, op)
  PROVE  /\ chan[c] = "open" /\ wire[c] # <<>>
         /\ Head(wire[c]) \in Frames /\ Head(wire[c]) = wire[c][1]
         /\ Head(wire[c]).op = op /\ 1 \in 1..Len(wire[c])
         /\ op = "publish" => Head(wire[c]).msg \in Messages
         /\ op \in Settlements => Head(wire[c]).tag \in Nat
  <1>1. wire[c] \in Seq(Frames) /\ wire[c] # <<>> /\ Head(wire[c]).op = op
    BY DEF TypeOK, Arrived
  <1>2. Head(wire[c]) \in Frames /\ Head(wire[c]) = wire[c][1] /\ 1 \in 1..Len(wire[c])
    BY <1>1, TailFact
  <1> QED
    BY <1>1, <1>2 DEF Arrived, Frames, Settlements, Calls

(* The server's handling of a basic.publish keeps the types. *)
LEMMA PublishArrivesType ==
  ASSUME TypeOK, NEW c \in Clients, PublishArrives(c)
  PROVE  TypeOK'
  <1>1. wire' \in [Clients -> Seq(Frames)]
    BY WireTailType, ArrivedFact DEF PublishArrives
  <1>2. copy' \in [Groups -> [Messages -> {"none", "ready", "unacked", "acked",
                                          "discarded", "lost"}]]
    BY RouteType, ArrivedFact DEF PublishArrives
  <1> QED
    BY <1>1, <1>2 DEF PublishArrives, TypeOK, topology, handlers

(* A publish by another producer of the exchange keeps the types. *)
LEMMA ForeignPublishType ==
  ASSUME TypeOK, NEW m \in Messages, ForeignPublish(m)
  PROVE  TypeOK'
  BY RouteType DEF ForeignPublish, TypeOK, topology, handlers

(* The tag a delivery gets. *)
LEMMA DeliverFact ==
  ASSUME TypeOK, NEW c \in Clients, NEW g \in Groups, NEW m \in Messages,
         Deliver(c, g, m)
  PROVE  /\ deliveries' \in [Clients -> Seq(Groups \X Messages)]
         /\ Len(deliveries[c]) \in Nat /\ Len(deliveries'[c]) = Len(deliveries[c]) + 1
         /\ deliveries'[c][Len(deliveries[c]) + 1] = <<g, m>>
         /\ \A t \in 1..Len(deliveries[c]) : deliveries'[c][t] = deliveries[c][t]
         /\ \A d \in Clients \ {c} : deliveries'[d] = deliveries[d]
  <1>1. deliveries[c] \in Seq(Groups \X Messages) /\ <<g, m>> \in Groups \X Messages
    BY DEF TypeOK
  <1>2. deliveries' = [deliveries EXCEPT ![c] = Append(deliveries[c], <<g, m>>)]
    BY DEF Deliver
  <1> QED
    BY <1>1, <1>2, AppendFact DEF TypeOK

(* A delivery to a consumer keeps the types. *)
LEMMA DeliverType ==
  ASSUME TypeOK, NEW c \in Clients, NEW g \in Groups, NEW m \in Messages,
         Deliver(c, g, m)
  PROVE  TypeOK'
  <1>1. /\ unacked' \in [Clients -> SUBSET Nat]
        /\ \A d \in Clients : unacked'[d] \subseteq 1..Len(deliveries'[d])
    BY DeliverFact DEF Deliver, TypeOK
  <1>2. copy' \in [Groups -> [Messages -> {"none", "ready", "unacked", "acked",
                                          "discarded", "lost"}]]
    BY DEF Deliver, TypeOK
  <1>3. \A d \in Clients : started'[d] <= Len(deliveries'[d])
    BY DeliverFact DEF Deliver, TypeOK, handlers
  <1> QED
    BY <1>1, <1>2, <1>3, DeliverFact DEF Deliver, TypeOK, topology, handlers

(* The start of the handler on a delivery keeps the types. *)
LEMMA HandlerStartType ==
  ASSUME TypeOK, NEW c \in Clients, HandlerStart(c)
  PROVE  TypeOK'
  <1>1. Len(deliveries[c]) \in Nat /\ started[c] < Len(deliveries[c])
    BY DEF HandlerStart, Pending, TypeOK
  <1> QED
    BY <1>1 DEF HandlerStart, TypeOK, topology

(* The handler's ack and nack calls, its return and its throw keep the *)
(* types.                                                              *)
LEMMA HandlerType ==
  ASSUME TypeOK, NEW c \in Clients, NEW t \in running[c], Handler(c, t)
  PROVE  TypeOK'
  <1> USE DEF TypeOK, topology, handlers
  <1>1. t \in Nat /\ t \in 1..started[c]
    OBVIOUS
  <1>2. \A op \in Settlements : [op |-> op, tag |-> t] \in Frames
    BY <1>1 DEF Frames
  <1>3. ASSUME NEW call \in Settlements, HandlerCall(c, t, call) PROVE TypeOK'
    <2>1. wire' \in [Clients -> Seq(Frames)]
      BY <1>2, <1>3, SendType DEF HandlerCall
    <2>2. /\ called' \in [Clients -> [Settlements -> SUBSET Nat]]
          /\ \A d \in Clients, op \in Settlements : called'[d][op] \subseteq 1..started[d]
      BY <1>1, <1>3 DEF HandlerCall
    <2> QED
      BY <1>3, <2>1, <2>2 DEF HandlerCall
  <1>4. ASSUME NEW end \in {"return", "throw"}, HandlerEnds(c, t, end),
               wire' \in [Clients -> Seq(Frames)]
        PROVE  TypeOK'
    BY <1>4 DEF HandlerEnds
  <1>5. CASE HandlerReturn(c, t)
    BY <1>4, <1>5 DEF HandlerReturn
  <1>6. CASE HandlerThrow(c, t)
    <2>1. "requeue" \in Settlements
      BY DEF Settlements, Calls
    <2> QED
      BY <1>2, <1>4, <1>6, <2>1, SendType DEF HandlerThrow
  <1> QED
    BY <1>3, <1>5, <1>6 DEF Handler

(* The settlement of a known delivery tag keeps the types. *)
LEMMA SettleKnownType ==
  ASSUME TypeOK, NEW c \in Clients, NEW call \in Settlements,
         Arrived(c, call), SettleKnown(c, call)
  PROVE  TypeOK'
  <1>1. wire' \in [Clients -> Seq(Frames)]
    BY WireTailType, ArrivedFact DEF SettleKnown
  <1>2. copy' \in [Groups -> [Messages -> {"none", "ready", "unacked", "acked",
                                          "discarded", "lost"}]]
    BY DEF SettleKnown, TypeOK, Final, Settlements, Calls
  <1>3. /\ unacked' \in [Clients -> SUBSET Nat]
        /\ \A d \in Clients : unacked'[d] \subseteq 1..Len(deliveries[d])
    BY DEF SettleKnown, TypeOK
  <1> QED
    BY <1>1, <1>2, <1>3 DEF SettleKnown, TypeOK, topology, handlers

(* A restart of the server keeps the types. *)
LEMMA ServerRestartType ==
  ASSUME TypeOK, ServerRestart
  PROVE  TypeOK'
  <1> USE DEF ServerRestart, TypeOK
  <1>1. wire' \in [Clients -> Seq(Frames)]
    BY EmptyFact
  <1>2. subs' \in [Clients -> [Groups -> {"idle", "exchange", "queue", "bind",
                                          "consume", "consuming", "stopped"}]]
    BY DEF Stop
  <1>3. copy' \in [Groups -> [Messages -> {"none", "ready", "unacked", "acked",
                                          "discarded", "lost"}]]
    OBVIOUS
  <1>4. unacked' \in [Clients -> SUBSET Nat] /\ chan' \in [Clients -> {"new", "open", "closed", "failing", "failed"}]
    OBVIOUS
  <1> QED
    BY <1>1, <1>2, <1>3, <1>4 DEF topology, handlers

(* A new channel, or the news that one has gone, keeps the types. *)
LEMMA ConnectType ==
  ASSUME TypeOK, NEW c \in Clients, Connect(c) \/ CloseArrives(c)
  PROVE  TypeOK'
  BY DEF Connect, CloseArrives, TypeOK, topology, handlers

(* A stuttering step keeps the types. *)
LEMMA StutterType == TypeOK /\ UNCHANGED vars => TypeOK'
  BY DEF TypeOK, vars, topology, handlers

(* A step ends a channel, moves copies, or leaves them alone. *)
Quiet == UNCHANGED <<copy, deliveries, unacked>>

(* Every step either moves no copy and hands out no tag (Quiet) or is one *)
(* of the six that do.                                                    *)
LEMMA StepCases ==
  ASSUME TypeOK, [Next]_vars
  PROVE  \/ Quiet
         \/ \E c \in Clients, how \in {"closed", "failing", "failed"} : ChannelEnds(c, how)
         \/ \E c \in Clients : PublishArrives(c)
         \/ \E c \in Clients, call \in Settlements : Arrived(c, call) /\ SettleKnown(c, call)
         \/ \E c \in Clients, g \in Groups, m \in Messages : Deliver(c, g, m)
         \/ \E m \in Messages : ForeignPublish(m)
         \/ ServerRestart
  <1> USE DEF Quiet, topology, handlers
  <1>1. CASE UNCHANGED vars
    BY <1>1 DEF vars
  <1>2. ASSUME NEW c \in Clients, Connect(c) \/ CloseArrives(c) PROVE Quiet
    BY <1>2 DEF Connect, CloseArrives
  <1>3. ASSUME NEW c \in Clients, Close(c) \/ ConnectionLost(c) \/ ParseFailure(c)
        PROVE  \E how \in {"closed", "failing", "failed"} : ChannelEnds(c, how)
    BY <1>3 DEF Close, ConnectionLost, ParseFailure
  <1>4. ASSUME NEW c \in Clients, NEW g \in Groups, Subscribe(c, g)
        PROVE  Quiet \/ ChannelEnds(c, "failing")
    BY <1>4 DEF Subscribe, SubscribeCall, AssertExchange, AssertQueue, BindQueue,
                Consume, SubStep
  <1>5. ASSUME NEW c \in Clients, NEW m \in Messages, Publish(c, m) PROVE Quiet
    BY <1>5 DEF Publish, PublishCall, PublishSend, PublishDrained, PubStep
  <1>6. ASSUME NEW c \in Clients, HandlerStart(c) PROVE Quiet
    BY <1>6 DEF HandlerStart
  <1>7. ASSUME NEW c \in Clients, NEW t \in running[c], Handler(c, t) PROVE Quiet
    BY <1>7 DEF Handler, HandlerCall, HandlerReturn, HandlerThrow, HandlerEnds
  <1>8. ASSUME NEW c \in Clients, NEW call \in Settlements, SettleArrives(c, call)
        PROVE  Arrived(c, call) /\ (SettleKnown(c, call) \/ ChannelEnds(c, "failing"))
    BY <1>8 DEF SettleArrives
  <1> QED
    BY <1>1, <1>2, <1>3, <1>4, <1>5, <1>6, <1>7, <1>8 DEF Next, Server

(* Every step keeps the types. *)
LEMMA TypeNext == TypeOK /\ [Next]_vars => TypeOK'
  <1> SUFFICES ASSUME TypeOK, [Next]_vars PROVE TypeOK'
    OBVIOUS
  <1>1. CASE UNCHANGED vars
    BY <1>1, StutterType
  <1>2. ASSUME NEW c \in Clients,
               Close(c) \/ ConnectionLost(c) \/ ParseFailure(c)
        PROVE  TypeOK'
    BY <1>2, ChannelEndsType DEF Close, ConnectionLost, ParseFailure
  <1>3. ASSUME NEW c \in Clients, NEW call \in Settlements, SettleArrives(c, call)
        PROVE  TypeOK'
    BY <1>3, SettleKnownType, ChannelEndsType DEF SettleArrives
  <1>4. ASSUME NEW c \in Clients, NEW t \in running[c], Handler(c, t) PROVE TypeOK'
    BY <1>4, HandlerType
  <1> QED
    BY <1>1, <1>2, <1>3, <1>4, ConnectType, SubscribeType, PublishType,
       HandlerStartType, PublishArrivesType, DeliverType, ForeignPublishType,
       ServerRestartType DEF Next, Server

(* Every state of the model has its type: in particular the tags the server
   waits for, and those the handlers have settled, are tags of deliveries. *)
THEOREM TypeCorrect == Spec => []TypeOK
  BY InitType, TypeNext, PTL DEF Spec

-----------------------------------------------------------------------------
(* One consumer at a time *)

(* A delivery tag that was handed out names a group and a message. *)
LEMMA DeliveryFact ==
  ASSUME TypeOK, NEW c \in Clients, NEW t \in 1..Len(deliveries[c])
  PROVE  /\ deliveries[c][t] \in Groups \X Messages
         /\ deliveries[c][t][1] \in Groups /\ deliveries[c][t][2] \in Messages
         /\ deliveries[c][t] = <<deliveries[c][t][1], deliveries[c][t][2]>>
  BY DEF TypeOK

(* A tag the client has not settled names a copy the client holds. *)
LEMMA HeldFact ==
  ASSUME TypeOK, NEW c \in Clients, NEW t \in unacked[c]
  PROVE  /\ t \in 1..Len(deliveries[c])
         /\ deliveries[c][t][1] \in Groups /\ deliveries[c][t][2] \in Messages
         /\ deliveries[c][t] = <<deliveries[c][t][1], deliveries[c][t][2]>>
         /\ deliveries[c][t] \in HeldBy(c)
  BY DeliveryFact DEF TypeOK, HeldBy

(* The end of a channel returns its copies to the queue, so that nobody *)
(* holds them twice.                                                    *)
LEMMA HeldChannelEnds ==
  ASSUME TypeOK, HeldOnce, NEW c \in Clients, NEW how, ChannelEnds(c, how)
  PROVE  HeldOnce'
  <1> USE DEF ChannelEnds
  <1>1. /\ unacked'[c] = {} /\ deliveries' = deliveries
        /\ \A d \in Clients \ {c} : unacked'[d] = unacked[d] /\ HeldBy(d)' = HeldBy(d)
    BY DEF TypeOK, HeldBy
  <1>2. \A g \in Groups, m \in Messages :
          copy'[g][m] = IF <<g, m>> \in HeldBy(c) THEN "ready" ELSE copy[g][m]
    OBVIOUS
  <1>3. HeldIsUnacked'
    <2> SUFFICES ASSUME NEW d \in Clients, NEW t \in unacked'[d]
                 PROVE  copy'[deliveries'[d][t][1]][deliveries'[d][t][2]] = "unacked"
      BY DEF HeldIsUnacked
    <2>1. d # c /\ t \in unacked[d]
      BY <1>1
    <2>2. deliveries[d][t] \notin HeldBy(c)
      BY <2>1 DEF HeldOnce, HeldByOne, HeldBy
    <2> QED
      BY <1>1, <1>2, <2>1, <2>2, HeldFact DEF HeldOnce, HeldIsUnacked
  <1>4. HeldByOne'
    BY <1>1 DEF HeldOnce, HeldByOne
  <1>5. UnackedIsHeld'
    <2> SUFFICES ASSUME NEW g \in Groups, NEW m \in Messages, copy'[g][m] = "unacked"
                 PROVE  \E d \in Clients : <<g, m>> \in HeldBy(d)'
      BY DEF UnackedIsHeld
    <2>1. <<g, m>> \notin HeldBy(c) /\ copy[g][m] = "unacked"
      BY <1>2
    <2>2. PICK d \in Clients : <<g, m>> \in HeldBy(d)
      BY <2>1 DEF HeldOnce, UnackedIsHeld
    <2> QED
      BY <1>1, <2>1, <2>2
  <1> QED
    BY <1>3, <1>4, <1>5 DEF HeldOnce

(* The settled copy was held, and by nobody else. *)
LEMMA HeldSettle ==
  ASSUME TypeOK, HeldOnce, NEW c \in Clients, NEW call \in Settlements,
         SettleKnown(c, call)
  PROVE  HeldOnce'
  <1> DEFINE t == Head(wire[c]).tag
             p == deliveries[c][t]
  <1>1. /\ t \in unacked[c] /\ deliveries' = deliveries
        /\ unacked'[c] = unacked[c] \ {t}
        /\ \A d \in Clients \ {c} : unacked'[d] = unacked[d]
        /\ p[1] \in Groups /\ p[2] \in Messages /\ p = <<p[1], p[2]>>
    BY HeldFact DEF SettleKnown, TypeOK
  <1>2. /\ \A g \in Groups, m \in Messages : <<g, m>> # p => copy'[g][m] = copy[g][m]
        /\ copy'[p[1]][p[2]] # "unacked"
    <2>1. Final[call] # "unacked"
      BY DEF Final, Settlements, Calls
    <2>2. copy' = [copy EXCEPT ![p[1]][p[2]] = Final[call]]
      BY DEF SettleKnown
    <2> HIDE DEF p
    <2> QED
      BY <1>1, <2>1, <2>2 DEF TypeOK
  <1>3. \A d \in Clients : \A s \in unacked'[d] : s \in unacked[d] /\ deliveries[d][s] # p
    BY <1>1 DEF HeldOnce, HeldByOne
  <1> HIDE DEF t, p
  <1>4. HeldIsUnacked'
    BY <1>1, <1>2, <1>3, HeldFact DEF HeldOnce, HeldIsUnacked
  <1>5. HeldByOne'
    BY <1>1, <1>3 DEF HeldOnce, HeldByOne
  <1>6. UnackedIsHeld'
    <2> SUFFICES ASSUME NEW g \in Groups, NEW m \in Messages, copy'[g][m] = "unacked"
                 PROVE  \E d \in Clients : <<g, m>> \in HeldBy(d)'
      BY DEF UnackedIsHeld
    <2>1. <<g, m>> # p /\ copy[g][m] = "unacked"
      BY <1>1, <1>2
    <2>2. PICK d \in Clients : \E s \in unacked[d] : deliveries[d][s] = <<g, m>>
      BY <2>1 DEF HeldOnce, UnackedIsHeld, HeldBy
    <2>3. \E s \in unacked'[d] : deliveries[d][s] = <<g, m>>
      BY <1>1, <2>1, <2>2 DEF p
    <2> QED
      BY <1>1, <2>3 DEF HeldBy
  <1> QED
    BY <1>4, <1>5, <1>6 DEF HeldOnce

(* A delivery takes a ready copy, which nobody held. *)
LEMMA HeldDeliver ==
  ASSUME TypeOK, HeldOnce, NEW c \in Clients, NEW g \in Groups, NEW m \in Messages,
         Deliver(c, g, m)
  PROVE  HeldOnce'
  <1> DEFINE n == Len(deliveries[c]) + 1
  <1>1. /\ n \in Nat /\ deliveries'[c][n] = <<g, m>>
        /\ unacked'[c] = unacked[c] \cup {n} /\ n \notin unacked[c]
        /\ \A d \in Clients \ {c} : unacked'[d] = unacked[d]
        /\ \A d \in Clients : \A s \in unacked[d] : deliveries'[d][s] = deliveries[d][s]
    BY DeliverFact, HeldFact DEF Deliver, TypeOK
  <1>2. /\ copy[g][m] = "ready" /\ copy'[g][m] = "unacked"
        /\ \A h \in Groups, k \in Messages : <<h, k>> # <<g, m>> => copy'[h][k] = copy[h][k]
    BY DEF Deliver, TypeOK
  <1>3. \A d \in Clients : \A s \in unacked[d] : deliveries[d][s] # <<g, m>>
    BY <1>2 DEF HeldOnce, HeldIsUnacked
  <1> HIDE DEF n
  <1>4. HeldIsUnacked'
    <2> SUFFICES ASSUME NEW d \in Clients, NEW s \in unacked'[d]
                 PROVE  copy'[deliveries'[d][s][1]][deliveries'[d][s][2]] = "unacked"
      BY DEF HeldIsUnacked
    <2>1. CASE s \in unacked[d]
      BY <2>1, <1>1, <1>2, <1>3, HeldFact DEF HeldOnce, HeldIsUnacked
    <2>2. CASE d = c /\ s = n
      BY <2>2, <1>1, <1>2
    <2> QED
      BY <1>1, <2>1, <2>2
  <1>5. HeldByOne'
    BY <1>1, <1>3 DEF HeldOnce, HeldByOne
  <1>6. UnackedIsHeld'
    <2> SUFFICES ASSUME NEW h \in Groups, NEW k \in Messages, copy'[h][k] = "unacked"
                 PROVE  \E d \in Clients : \E s \in unacked'[d] : deliveries'[d][s] = <<h, k>>
      BY DEF UnackedIsHeld, HeldBy
    <2>1. CASE <<h, k>> = <<g, m>>
      BY <2>1, <1>1
    <2>2. CASE <<h, k>> # <<g, m>>
      <3>1. PICK d \in Clients : \E s \in unacked[d] : deliveries[d][s] = <<h, k>>
        BY <2>2, <1>2 DEF HeldOnce, UnackedIsHeld, HeldBy
      <3>2. \E s \in unacked'[d] : deliveries'[d][s] = <<h, k>>
        BY <3>1, <1>1
      <3> QED
        BY <3>2
    <2> QED
      BY <2>1, <2>2
  <1> QED
    BY <1>4, <1>5, <1>6 DEF HeldOnce

(* Routing a message that no queue has yet disturbs nothing. *)
LEMMA HeldRoute ==
  ASSUME TypeOK, HeldOnce, NEW m \in Messages, Route(m),
         \A g \in Groups : copy[g][m] = "none",
         UNCHANGED <<deliveries, unacked>>
  PROVE  HeldOnce'
  <1>1. \A g \in Groups, k \in Messages :
          /\ k # m => copy'[g][k] = copy[g][k]
          /\ k = m => copy'[g][k] \in {"none", "ready"}
    BY DEF Route, TypeOK
  <1>2. HeldIsUnacked'
    BY <1>1, HeldFact DEF HeldOnce, HeldIsUnacked
  <1>3. HeldByOne'
    BY DEF HeldOnce, HeldByOne
  <1>4. UnackedIsHeld'
    BY <1>1 DEF HeldOnce, UnackedIsHeld, HeldBy
  <1> QED
    BY <1>2, <1>3, <1>4 DEF HeldOnce

(* A basic.publish on the wire finds no copy of its message in any queue. *)
LEMMA FrameFresh ==
  ASSUME TypeOK, PublishedOnce, NEW c \in Clients, Arrived(c, "publish")
  PROVE  /\ Head(wire[c]).msg \in Messages
         /\ \A g \in Groups : copy[g][Head(wire[c]).msg] = "none"
  BY ArrivedFact DEF PublishedOnce, OneFrame, Carries

(* Every step keeps each unacked copy with exactly one holder. *)
LEMMA HeldNext ==
  ASSUME TypeOK, HeldOnce, PublishedOnce, [Next]_vars
  PROVE  HeldOnce'
  <1>1. CASE Quiet
    BY <1>1 DEF Quiet, HeldOnce, HeldIsUnacked, HeldByOne, UnackedIsHeld, HeldBy
  <1>2. ASSUME NEW c \in Clients, PublishArrives(c) PROVE HeldOnce'
    BY <1>2, FrameFresh, HeldRoute DEF PublishArrives
  <1>3. ASSUME NEW m \in Messages, ForeignPublish(m) PROVE HeldOnce'
    BY <1>3, HeldRoute DEF ForeignPublish
  <1>4. CASE ServerRestart
    BY <1>4 DEF ServerRestart, HeldOnce, HeldIsUnacked, HeldByOne, UnackedIsHeld, HeldBy
  <1> QED
    BY <1>1, <1>2, <1>3, <1>4, StepCases, HeldChannelEnds, HeldSettle, HeldDeliver

-----------------------------------------------------------------------------
(* What is on the wire *)

(* Frames are lost, processed or kept. *)
Shrinks(c) ==
  \/ wire'[c] = wire[c] \/ wire'[c] = <<>>
  \/ wire[c] # <<>> /\ wire'[c] = Tail(wire[c])

Grows(c, frame) == wire'[c] = Append(wire[c], frame)

(* Where the frames of a wire that only shrinks stood before the step. *)
LEMMA ShrinkFact ==
  ASSUME TypeOK, NEW c \in Clients, Shrinks(c)
  PROVE  \A i \in 1..Len(wire'[c]) :
           \/ i \in 1..Len(wire[c]) /\ wire'[c][i] = wire[c][i]
           \/ i + 1 \in 1..Len(wire[c]) /\ wire'[c][i] = wire[c][i + 1]
              /\ wire'[c] = Tail(wire[c])
  <1>0. wire[c] \in Seq(Frames) /\ Len(wire[c]) \in Nat
    BY DEF TypeOK
  <1>1. CASE wire'[c] = wire[c]
    BY <1>1
  <1>2. CASE wire'[c] = <<>>
    BY <1>2
  <1>3. CASE wire[c] # <<>> /\ wire'[c] = Tail(wire[c])
    BY <1>0, <1>3, TailFact
  <1> QED
    BY <1>1, <1>2, <1>3 DEF Shrinks

(* A send adds its frame at the end of its own client's wire or nothing at *)
(* all.                                                                    *)
LEMMA SendFact ==
  ASSUME TypeOK, NEW c \in Clients, NEW frame, Send(c, frame)
  PROVE  /\ \A d \in Clients \ {c} : wire'[d] = wire[d]
         /\ Grows(c, frame) \/ wire'[c] = wire[c]
  BY DEF Send, Grows, TypeOK

(* Nothing but publish, a call of the handler and its exception adds a frame;
   what has started or has been called stays so. *)
LEMMA WireCases ==
  ASSUME TypeOK, [Next]_vars
  PROVE  /\ \/ \A c \in Clients : Shrinks(c)
            \/ \E c \in Clients, m \in Messages : PublishSend(c, m)
            \/ \E c \in Clients : \E t \in running[c], call \in Settlements : HandlerCall(c, t, call)
            \/ \E c \in Clients : \E t \in running[c] : HandlerThrow(c, t)
         /\ \A c \in Clients : started'[c] \in Nat /\ started[c] <= started'[c]
         /\ \A c \in Clients, call \in Settlements : called[c][call] \subseteq called'[c][call]
  <1> USE DEF topology, handlers
  <1> DEFINE Kept == UNCHANGED <<started, called>>
             AllShrink == \A c \in Clients : Shrinks(c)
  <1>0. ASSUME Kept PROVE
          /\ \A c \in Clients : started'[c] \in Nat /\ started[c] <= started'[c]
          /\ \A c \in Clients, call \in Settlements : called[c][call] \subseteq called'[c][call]
    BY <1>0 DEF TypeOK
  <1>1. CASE UNCHANGED vars
    BY <1>0, <1>1 DEF vars, Shrinks
  <1>2. ASSUME NEW c \in Clients, NEW how, ChannelEnds(c, how) PROVE AllShrink /\ Kept
    BY <1>2 DEF ChannelEnds, Shrinks, TypeOK
  <1>3. ASSUME NEW c \in Clients,
               Connect(c) \/ Close(c) \/ ConnectionLost(c) \/ CloseArrives(c) \/ ParseFailure(c)
        PROVE  AllShrink /\ Kept
    BY <1>2, <1>3 DEF Connect, Close, ConnectionLost, CloseArrives, ParseFailure, Shrinks
  <1>4. ASSUME NEW c \in Clients, NEW g \in Groups, Subscribe(c, g) PROVE AllShrink /\ Kept
    BY <1>2, <1>4 DEF Subscribe, SubscribeCall, AssertExchange, AssertQueue, BindQueue,
                      Consume, SubStep, Shrinks
  <1>5. ASSUME NEW c \in Clients, NEW m \in Messages, Publish(c, m)
        PROVE  (AllShrink \/ PublishSend(c, m)) /\ Kept
    BY <1>5 DEF Publish, PublishCall, PublishSend, PublishDrained, PubStep, Shrinks
  <1>6. ASSUME NEW c \in Clients, HandlerStart(c)
        PROVE  /\ AllShrink /\ called' = called
               /\ \A d \in Clients : started'[d] \in Nat /\ started[d] <= started'[d]
    BY <1>6 DEF HandlerStart, Shrinks, TypeOK
  <1>7. ASSUME NEW c \in Clients, NEW t \in running[c], HandlerReturn(c, t)
        PROVE  AllShrink /\ Kept
    BY <1>7 DEF HandlerReturn, HandlerEnds, Shrinks
  <1>8. ASSUME NEW c \in Clients, NEW t \in running[c], HandlerThrow(c, t) PROVE Kept
    BY <1>8 DEF HandlerThrow, HandlerEnds
  <1>9. ASSUME NEW c \in Clients, NEW t \in running[c], NEW call \in Settlements,
               HandlerCall(c, t, call)
        PROVE  /\ started' = started
               /\ \A d \in Clients, op \in Settlements : called[d][op] \subseteq called'[d][op]
    BY <1>9 DEF HandlerCall, TypeOK
  <1>10. ASSUME NEW c \in Clients, PublishArrives(c) PROVE AllShrink /\ Kept
    BY <1>10 DEF PublishArrives, Arrived, Shrinks, TypeOK
  <1>11. ASSUME NEW c \in Clients, NEW call \in Settlements, SettleArrives(c, call)
         PROVE  AllShrink /\ Kept
    BY <1>2, <1>11 DEF SettleArrives, SettleKnown, Arrived, Shrinks, TypeOK
  <1>12. ASSUME NEW c \in Clients, NEW g \in Groups, NEW m \in Messages, Deliver(c, g, m)
         PROVE  AllShrink /\ Kept
    BY <1>12 DEF Deliver, Shrinks
  <1>13. ASSUME NEW m \in Messages, ForeignPublish(m) PROVE AllShrink /\ Kept
    BY <1>13 DEF ForeignPublish, Shrinks
  <1>14. CASE ServerRestart
    <2>1. AllShrink /\ Kept
      BY <1>14 DEF ServerRestart, Shrinks
    <2> QED
      BY <1>0, <2>1
  <1> HIDE DEF AllShrink
  <1>15. ASSUME NEW c \in Clients, NEW t \in running[c], Handler(c, t)
         PROVE  \/ AllShrink /\ Kept
                \/ Kept /\ HandlerThrow(c, t)
                \/ \E call \in Settlements : HandlerCall(c, t, call)
    BY <1>7, <1>8, <1>15 DEF Handler
  <1>16. ASSUME NEW c \in Clients, Server(c) PROVE AllShrink /\ Kept
    BY <1>10, <1>11, <1>12, <1>16 DEF Server
  <1>17. \/ Kept /\ AllShrink
         \/ Kept /\ \E c \in Clients, m \in Messages : PublishSend(c, m)
         \/ AllShrink /\ \E c \in Clients : HandlerStart(c)
         \/ Kept /\ \E c \in Clients : \E t \in running[c] : HandlerThrow(c, t)
         \/ \E c \in Clients : \E t \in running[c], call \in Settlements : HandlerCall(c, t, call)
         \/ ServerRestart \/ UNCHANGED vars
    BY <1>3, <1>4, <1>5, <1>6, <1>13, <1>15, <1>16 DEF Next
  <1> QED
    BY <1>0, <1>1, <1>6, <1>9, <1>14, <1>17 DEF AllShrink, TypeOK

(* Every settlement on a wire was called for, before and after every step. *)
LEMMA CalledNext ==
  ASSUME TypeOK, WireIsCalled, [Next]_vars
  PROVE  WireIsCalled'
  <1> DEFINE Good(c, f) == f.op # "publish" =>
               /\ f.tag \in 1..started'[c]
               /\ f.op \in {"ack", "discard"} => f.tag \in called'[c][f.op]
  <1>1. \A c \in Clients : \A i \in 1..Len(wire[c]) : Good(c, wire[c][i])
    <2>1. \A c \in Clients : started[c] \in Nat /\ started'[c] \in Nat /\ started[c] <= started'[c]
      BY WireCases DEF TypeOK
    <2>2. {"ack", "discard"} \subseteq Settlements
      BY DEF Settlements, Calls
    <2> QED
      BY <2>1, <2>2, WireCases DEF WireIsCalled
  <1>2. ASSUME NEW c \in Clients, NEW f \in Frames, Good(c, f),
               \A d \in Clients \ {c} : wire'[d] = wire[d],
               Grows(c, f) \/ wire'[c] = wire[c]
        PROVE  \A d \in Clients : \A i \in 1..Len(wire'[d]) : Good(d, wire'[d][i])
    <2>1. wire[c] \in Seq(Frames)
      BY DEF TypeOK
    <2> HIDE DEF Good
    <2>2. CASE Grows(c, f)
      BY <1>1, <1>2, <2>1, <2>2, AppendFact DEF Grows
    <2>3. CASE wire'[c] = wire[c]
      BY <1>1, <1>2, <2>3
    <2> QED
      BY <1>2, <2>2, <2>3
  <1>3. CASE \A c \in Clients : Shrinks(c)
    <2> HIDE DEF Good
    <2>1. \A c \in Clients : \A i \in 1..Len(wire'[c]) : Good(c, wire'[c][i])
      BY <1>1, <1>3, ShrinkFact
    <2> QED
      BY <2>1 DEF WireIsCalled, Good
  <1>4. ASSUME NEW c \in Clients, NEW m \in Messages, PublishSend(c, m) PROVE WireIsCalled'
    <2>1. [op |-> "publish", msg |-> m] \in Frames /\ Good(c, [op |-> "publish", msg |-> m])
      BY DEF Frames
    <2> QED
      BY <1>2, <1>4, <2>1, SendFact DEF PublishSend, WireIsCalled
  <1>5. ASSUME NEW c \in Clients, NEW t \in running[c], NEW call \in Settlements,
               HandlerCall(c, t, call)
        PROVE  WireIsCalled'
    <2>1. /\ t \in Nat /\ t \in 1..started'[c] /\ t \in called'[c][call]
      BY <1>5 DEF HandlerCall, TypeOK
    <2>2. [op |-> call, tag |-> t] \in Frames /\ Good(c, [op |-> call, tag |-> t])
      BY <2>1 DEF Frames
    <2> QED
      BY <1>2, <1>5, <2>2, SendFact DEF HandlerCall, WireIsCalled
  <1>6. ASSUME NEW c \in Clients, NEW t \in running[c], HandlerThrow(c, t) PROVE WireIsCalled'
    <2>1. t \in Nat /\ t \in 1..started'[c]
      BY <1>6 DEF HandlerThrow, HandlerEnds, TypeOK
    <2>2. [op |-> "requeue", tag |-> t] \in Frames /\ Good(c, [op |-> "requeue", tag |-> t])
      BY <2>1 DEF Frames, Settlements, Calls
    <2> QED
      BY <1>2, <1>6, <2>2, SendFact DEF HandlerThrow, WireIsCalled
  <1> QED
    BY <1>3, <1>4, <1>5, <1>6, WireCases

-----------------------------------------------------------------------------
(* Published once *)

(* No queue takes a message that it has not. *)
NoneKept == \A g \in Groups, m \in Messages : copy[g][m] = "none" => copy'[g][m] = "none"

(* Only a publish, of the adapter or of another producer, creates a copy. *)
LEMMA NoneCases ==
  ASSUME TypeOK, HeldOnce, [Next]_vars
  PROVE  \/ NoneKept
         \/ \E c \in Clients : PublishArrives(c)
         \/ \E m \in Messages : ForeignPublish(m)
  <1> USE DEF NoneKept
  <1>1. CASE Quiet
    BY <1>1 DEF Quiet
  <1>2. ASSUME NEW c \in Clients, NEW how, ChannelEnds(c, how) PROVE NoneKept
    <2>1. \A g \in Groups, m \in Messages : <<g, m>> \in HeldBy(c) => copy[g][m] = "unacked"
      BY DEF HeldOnce, HeldIsUnacked, HeldBy
    <2> QED
      BY <1>2, <2>1 DEF ChannelEnds
  <1>3. ASSUME NEW c \in Clients, NEW call \in Settlements, SettleKnown(c, call)
        PROVE  NoneKept
    <2> DEFINE p == deliveries[c][Head(wire[c]).tag]
    <2>1. p[1] \in Groups /\ p[2] \in Messages /\ copy[p[1]][p[2]] = "unacked"
      BY <1>3, HeldFact DEF SettleKnown, HeldOnce, HeldIsUnacked
    <2>2. copy' = [copy EXCEPT ![p[1]][p[2]] = Final[call]]
      BY <1>3 DEF SettleKnown
    <2> HIDE DEF p
    <2> QED
      BY <2>1, <2>2 DEF TypeOK
  <1>4. ASSUME NEW c \in Clients, NEW g \in Groups, NEW m \in Messages, Deliver(c, g, m)
        PROVE  NoneKept
    BY <1>4 DEF Deliver, TypeOK
  <1>5. CASE ServerRestart
    BY <1>5 DEF ServerRestart
  <1> QED
    BY <1>1, <1>2, <1>3, <1>4, <1>5, StepCases

(* Only the publish calls change the state of publishing. *)
LEMMA PubCases ==
  ASSUME TypeOK, [Next]_vars
  PROVE  \/ pub' = pub
         \/ \E c \in Clients, m \in Messages : Publish(c, m)
  <1>1. ASSUME NEW c \in Clients, NEW how, ChannelEnds(c, how) PROVE pub' = pub
    BY <1>1 DEF ChannelEnds
  <1>2. ASSUME NEW c \in Clients,
               Connect(c) \/ Close(c) \/ ConnectionLost(c) \/ CloseArrives(c) \/ ParseFailure(c) \/ HandlerStart(c)
        PROVE  pub' = pub
    BY <1>1, <1>2 DEF Connect, Close, ConnectionLost, CloseArrives, ParseFailure, HandlerStart
  <1>3. ASSUME NEW c \in Clients, NEW g \in Groups, Subscribe(c, g) PROVE pub' = pub
    BY <1>1, <1>3 DEF Subscribe, SubscribeCall, AssertExchange, AssertQueue, BindQueue,
                      Consume, SubStep
  <1>4. ASSUME NEW c \in Clients, NEW t \in running[c], Handler(c, t) PROVE pub' = pub
    BY <1>4 DEF Handler, HandlerCall, HandlerReturn, HandlerThrow, HandlerEnds
  <1>5. ASSUME NEW c \in Clients, Server(c) PROVE pub' = pub
    BY <1>1, <1>5 DEF Server, PublishArrives, SettleArrives, SettleKnown, Deliver
  <1>6. ASSUME NEW m \in Messages, ForeignPublish(m) PROVE pub' = pub
    BY <1>6 DEF ForeignPublish
  <1>7. CASE ServerRestart \/ UNCHANGED vars
    BY <1>7 DEF ServerRestart, vars
  <1> QED
    BY <1>2, <1>3, <1>4, <1>5, <1>6, <1>7 DEF Next

(* Losing or processing frames duplicates none. *)
LEMMA OneFrameShrinks ==
  ASSUME TypeOK, OneFrame, NEW c \in Clients, Shrinks(c), NEW m \in Messages,
         NEW i \in 1..Len(wire'[c]), Carries(wire'[c][i], m)
  PROVE  /\ pub[c][m] \notin Unsent
         /\ \A g \in Groups : copy[g][m] = "none"
         /\ \A j \in 1..Len(wire'[c]) : Carries(wire'[c][j], m) => i = j
  <1>0. wire[c] \in Seq(Frames) /\ Len(wire[c]) \in Nat
    BY DEF TypeOK
  <1>1. CASE wire'[c] = wire[c]
    BY <1>1 DEF OneFrame
  <1>2. CASE wire'[c] = <<>>
    BY <1>2
  <1>3. CASE wire[c] # <<>> /\ wire'[c] = Tail(wire[c])
    <2>1. \A j \in 1..Len(wire'[c]) : j + 1 \in 1..Len(wire[c]) /\ wire'[c][j] = wire[c][j + 1]
      BY <1>0, <1>3, TailFact
    <2>2. /\ pub[c][m] \notin Unsent
          /\ \A g \in Groups : copy[g][m] = "none"
          /\ \A j \in 1..Len(wire[c]) : Carries(wire[c][j], m) => i + 1 = j
      BY <2>1 DEF OneFrame
    <2>3. \A j \in 1..Len(wire'[c]) : Carries(wire'[c][j], m) => i = j
      BY <2>1, <2>2
    <2> QED
      BY <2>2, <2>3
  <1> QED
    BY <1>1, <1>2, <1>3 DEF Shrinks

(* Wires that only lose frames leave every message published at most once. *)
LEMMA PublishedShrinks ==
  ASSUME TypeOK, PublishedOnce, NoneKept, pub' = pub, \A c \in Clients : Shrinks(c)
  PROVE  PublishedOnce'
  <1>1. OnePublisher'
    BY DEF PublishedOnce, OnePublisher
  <1>2. UnsentIsNowhere'
    BY DEF PublishedOnce, UnsentIsNowhere, NoneKept
  <1>3. OneFrame'
    <2> SUFFICES ASSUME NEW m \in Messages, NEW c \in Clients, NEW i \in 1..Len(wire'[c]),
                        Carries(wire'[c][i], m)
                 PROVE  /\ pub'[c][m] \notin Unsent
                        /\ \A g \in Groups : copy'[g][m] = "none"
                        /\ \A j \in 1..Len(wire'[c]) : Carries(wire'[c][j], m) => i = j
      BY DEF OneFrame, Carries
    <2> QED
      BY OneFrameShrinks DEF PublishedOnce, NoneKept
  <1> QED
    BY <1>1, <1>2, <1>3 DEF PublishedOnce

(* A settlement frame carries no message. *)
LEMMA PublishedSettles ==
  ASSUME TypeOK, PublishedOnce, NEW c \in Clients, NEW f \in Frames, f.op # "publish",
         Send(c, f), UNCHANGED <<pub, copy>>
  PROVE  PublishedOnce'
  <1>1. OnePublisher' /\ UnsentIsNowhere'
    BY DEF PublishedOnce, OnePublisher, UnsentIsNowhere
  <1>2. wire[c] \in Seq(Frames) /\ Len(wire[c]) \in Nat
    BY DEF TypeOK
  <1>3. \A d \in Clients, m \in Messages : \A i \in 1..Len(wire'[d]) :
          Carries(wire'[d][i], m) => i \in 1..Len(wire[d]) /\ Carries(wire[d][i], m)
    <2>1. CASE Grows(c, f)
      BY <1>2, <2>1, SendFact, AppendFact DEF Grows, Carries
    <2>2. CASE wire'[c] = wire[c]
      BY <2>2, SendFact
    <2> QED
      BY <2>1, <2>2, SendFact
  <1>4. OneFrame'
    <2> SUFFICES ASSUME NEW m \in Messages, NEW d \in Clients, NEW i \in 1..Len(wire'[d]),
                        Carries(wire'[d][i], m)
                 PROVE  /\ pub'[d][m] \notin Unsent
                        /\ \A g \in Groups : copy'[g][m] = "none"
                        /\ \A j \in 1..Len(wire'[d]) : Carries(wire'[d][j], m) => i = j
      BY DEF OneFrame, Carries
    <2> QED
      BY <1>3 DEF PublishedOnce, OneFrame
  <1> QED
    BY <1>1, <1>4 DEF PublishedOnce

(* A publish that arrives leaves the wire as it creates its copies. *)
LEMMA PublishedArrives ==
  ASSUME TypeOK, PublishedOnce, NEW c \in Clients, PublishArrives(c)
  PROVE  PublishedOnce'
  <1> DEFINE k == Head(wire[c]).msg
  <1>1. /\ wire[c] \in Seq(Frames) /\ wire[c] # <<>> /\ 1 \in 1..Len(wire[c])
        /\ k \in Messages /\ Carries(wire[c][1], k)
    BY ArrivedFact DEF PublishArrives, Carries, TypeOK
  <1>2. /\ pub' = pub /\ wire'[c] = Tail(wire[c])
        /\ \A d \in Clients \ {c} : wire'[d] = wire[d]
        /\ \A g \in Groups, m \in Messages : m # k => copy'[g][m] = copy[g][m]
    BY DEF PublishArrives, Route, TypeOK
  <1>3. /\ pub[c][k] \notin Unsent
        /\ \A j \in 1..Len(wire[c]) : Carries(wire[c][j], k) => j = 1
    BY <1>1 DEF PublishedOnce, OneFrame
  <1> HIDE DEF k
  <1>4. OnePublisher' /\ UnsentIsNowhere'
    BY <1>2, <1>3 DEF PublishedOnce, OnePublisher, UnsentIsNowhere
  <1>5. \A d \in Clients : \A i \in 1..Len(wire'[d]) : ~Carries(wire'[d][i], k)
    <2>1. ASSUME NEW i \in 1..Len(wire'[c]) PROVE ~Carries(wire'[c][i], k)
      <3>1. i + 1 \in 1..Len(wire[c]) /\ wire'[c][i] = wire[c][i + 1] /\ i + 1 # 1
        BY <1>1, <1>2, TailFact
      <3> QED
        BY <1>3, <3>1
    <2>2. ASSUME NEW d \in Clients \ {c}, NEW i \in 1..Len(wire'[d])
          PROVE  ~Carries(wire'[d][i], k)
      <3>1. pub[c][k] # "idle" /\ \A e \in Clients : pub[e][k] \notin Unsent => e = c
        BY <1>1, <1>3 DEF PublishedOnce, OnePublisher, Unsent
      <3> QED
        BY <1>1, <1>2, <3>1 DEF PublishedOnce, OneFrame
    <2> QED
      BY <2>1, <2>2
  <1>6. \A d \in Clients : Shrinks(d)
    BY <1>1, <1>2 DEF Shrinks
  <1>7. OneFrame'
    <2> SUFFICES ASSUME NEW m \in Messages, NEW d \in Clients, NEW i \in 1..Len(wire'[d]),
                        Carries(wire'[d][i], m)
                 PROVE  /\ pub'[d][m] \notin Unsent
                        /\ \A g \in Groups : copy'[g][m] = "none"
                        /\ \A j \in 1..Len(wire'[d]) : Carries(wire'[d][j], m) => i = j
      BY DEF OneFrame, Carries
    <2>1. m # k
      BY <1>5
    <2> QED
      BY <1>2, <1>6, <2>1, OneFrameShrinks DEF PublishedOnce
  <1> QED
    BY <1>4, <1>7 DEF PublishedOnce

(* Another producer publishes only a message no client has published. *)
LEMMA PublishedForeign ==
  ASSUME TypeOK, PublishedOnce, NEW k \in Messages, ForeignPublish(k)
  PROVE  PublishedOnce'
  <1>1. /\ k \in Malformed /\ UNCHANGED <<pub, wire>>
        /\ \A g \in Groups, m \in Messages : m # k => copy'[g][m] = copy[g][m]
    BY DEF ForeignPublish, Route, TypeOK
  <1>2. OnePublisher' /\ UnsentIsNowhere'
    BY <1>1 DEF PublishedOnce, OnePublisher, UnsentIsNowhere
  <1>3. \A c \in Clients : pub[c][k] \in Unsent
    BY <1>1 DEF PublishedOnce, OnePublisher, Unsent
  <1>4. OneFrame'
    BY <1>1, <1>3 DEF PublishedOnce, OneFrame, Carries
  <1> QED
    BY <1>2, <1>4 DEF PublishedOnce

(* A publish call puts its message on one wire, once. *)
LEMMA PublishedPublish ==
  ASSUME TypeOK, PublishedOnce, NEW c \in Clients, NEW k \in Messages, Publish(c, k)
  PROVE  PublishedOnce'
  <1> USE DEF PubStep, topology
  <1>0. wire[c] \in Seq(Frames) /\ Len(wire[c]) \in Nat
    BY DEF TypeOK
  <1>1. CASE PublishCall(c, k)
    <2>1. /\ k \notin Malformed /\ UNCHANGED <<wire, copy>> /\ pub'[c][k] = "asserted"
          /\ \A d \in Clients : pub[d][k] = "idle"
          /\ \A d \in Clients, m \in Messages : d # c \/ m # k => pub'[d][m] = pub[d][m]
      BY <1>1 DEF PublishCall, TypeOK
    <2>2. OnePublisher'
      BY <2>1 DEF PublishedOnce, OnePublisher
    <2>3. UnsentIsNowhere'
      BY <2>1 DEF PublishedOnce, UnsentIsNowhere, Unsent
    <2>4. OneFrame'
      BY <2>1 DEF PublishedOnce, OneFrame, Carries, Unsent
    <2> QED
      BY <2>2, <2>3, <2>4 DEF PublishedOnce
  <1>2. CASE PublishSend(c, k)
    <2> DEFINE f == [op |-> "publish", msg |-> k]
    <2>1. /\ copy' = copy /\ pub[c][k] = "asserted"
          /\ \A d \in Clients, m \in Messages : d # c \/ m # k => pub'[d][m] = pub[d][m]
          /\ \A d \in Clients \ {c} : wire'[d] = wire[d]
          /\ \/ wire'[c] = wire[c]
             \/ Grows(c, f) /\ pub'[c][k] \in {"resolved", "draining"}
      BY <1>2 DEF PublishSend, Live, Send, Grows, TypeOK
    <2>2. k \notin Malformed /\ \A d \in Clients : pub[d][k] \in Unsent
      BY <2>1 DEF PublishedOnce, OnePublisher, Unsent
    <2>3. \A g \in Groups : copy[g][k] = "none"
      BY <2>2 DEF PublishedOnce, UnsentIsNowhere
    <2>4. \A d \in Clients : \A i \in 1..Len(wire[d]) : ~Carries(wire[d][i], k)
      BY <2>2 DEF PublishedOnce, OneFrame
    <2>5. f \in Frames /\ \A m \in Messages : Carries(f, m) <=> m = k
      BY DEF Frames, Carries
    <2>6. OnePublisher'
      BY <2>1 DEF PublishedOnce, OnePublisher
    <2>7. UnsentIsNowhere'
      BY <2>1, <2>3 DEF PublishedOnce, UnsentIsNowhere
    <2>8. OneFrame'
      <3> HIDE DEF f
      <3>1. CASE wire'[c] = wire[c]
        BY <2>1, <2>4, <3>1 DEF PublishedOnce, OneFrame, Carries
      <3>2. CASE Grows(c, f) /\ pub'[c][k] \in {"resolved", "draining"}
        <4> SUFFICES ASSUME NEW m \in Messages, NEW d \in Clients, NEW i \in 1..Len(wire'[d]),
                            Carries(wire'[d][i], m)
                     PROVE  /\ pub'[d][m] \notin Unsent
                            /\ \A g \in Groups : copy'[g][m] = "none"
                            /\ \A j \in 1..Len(wire'[d]) : Carries(wire'[d][j], m) => i = j
          BY DEF OneFrame, Carries
        <4>1. /\ Len(wire'[c]) = Len(wire[c]) + 1 /\ wire'[c][Len(wire[c]) + 1] = f
              /\ \A j \in 1..Len(wire[c]) : wire'[c][j] = wire[c][j]
          BY <1>0, <2>5, <3>2, AppendFact DEF Grows
        <4>2. CASE m = k
          <5>1. d = c /\ i = Len(wire[c]) + 1
            BY <1>0, <2>1, <2>4, <4>1, <4>2
          <5> QED
            BY <1>0, <2>1, <2>3, <2>4, <3>2, <4>1, <4>2, <5>1 DEF Unsent
        <4>3. CASE m # k
          <5>1. \A j \in 1..Len(wire'[d]) :
                  Carries(wire'[d][j], m) => j \in 1..Len(wire[d]) /\ Carries(wire[d][j], m)
            BY <1>0, <2>1, <2>5, <4>1, <4>3
          <5> QED
            BY <2>1, <4>3, <5>1 DEF PublishedOnce, OneFrame
        <4> QED
          BY <4>2, <4>3
      <3> QED
        BY <2>1, <3>1, <3>2
    <2> QED
      BY <2>6, <2>7, <2>8 DEF PublishedOnce
  <1>3. CASE PublishDrained(c, k)
    <2>1. /\ UNCHANGED <<wire, copy>> /\ pub[c][k] = "draining" /\ pub'[c][k] = "resolved"
          /\ \A d \in Clients, m \in Messages : d # c \/ m # k => pub'[d][m] = pub[d][m]
      BY <1>3 DEF PublishDrained, TypeOK
    <2>2. OnePublisher' /\ UnsentIsNowhere'
      BY <2>1 DEF PublishedOnce, OnePublisher, UnsentIsNowhere, Unsent
    <2>3. OneFrame'
      BY <2>1 DEF PublishedOnce, OneFrame, Carries, Unsent
    <2> QED
      BY <2>2, <2>3 DEF PublishedOnce
  <1> QED
    BY <1>1, <1>2, <1>3 DEF Publish

(* Every step leaves every message published at most once. *)
LEMMA PublishedNext ==
  ASSUME TypeOK, HeldOnce, PublishedOnce, [Next]_vars
  PROVE  PublishedOnce'
  <1> SUFFICES ASSUME pub' = pub, NoneKept PROVE PublishedOnce'
    BY NoneCases, PubCases, PublishedArrives, PublishedForeign, PublishedPublish
  <1>1. CASE \A c \in Clients : Shrinks(c)
    BY <1>1, PublishedShrinks
  <1>2. ASSUME NEW c \in Clients, NEW m \in Messages, PublishSend(c, m) PROVE PublishedOnce'
    BY <1>2, PublishedPublish DEF Publish
  <1>3. ASSUME NEW c \in Clients, NEW t \in running[c], NEW call \in Settlements,
               HandlerCall(c, t, call)
        PROVE  PublishedOnce'
    <2>1. [op |-> call, tag |-> t] \in Frames /\ call # "publish"
      BY DEF TypeOK, Frames, Settlements, Calls
    <2> QED
      BY <1>3, <2>1, PublishedSettles DEF HandlerCall
  <1>4. ASSUME NEW c \in Clients, NEW t \in running[c], HandlerThrow(c, t)
        PROVE  PublishedOnce'
    <2>1. [op |-> "requeue", tag |-> t] \in Frames
      BY DEF TypeOK, Frames, Settlements, Calls
    <2> QED
      BY <1>4, <2>1, PublishedSettles DEF HandlerThrow, HandlerEnds
  <1> QED
    BY <1>1, <1>2, <1>3, <1>4, WireCases

-----------------------------------------------------------------------------
(* Gone on a handler's word *)

(* The delivery a tag stands for never changes. *)
LEMMA DeliveriesKept ==
  ASSUME TypeOK, [Next]_vars, NEW c \in Clients, NEW t \in 1..Len(deliveries[c])
  PROVE  deliveries'[c][t] = deliveries[c][t]
  <1>1. ASSUME NEW d \in Clients, NEW g \in Groups, NEW m \in Messages, Deliver(d, g, m)
        PROVE  deliveries'[c][t] = deliveries[c][t]
    BY <1>1, DeliverFact
  <1> QED
    BY <1>1, StepCases DEF Quiet, ChannelEnds, PublishArrives, SettleKnown, ForeignPublish,
                           ServerRestart

(* A copy goes for good in one step, the arrival of a handler's settlement. *)
LEMMA GoneCases ==
  ASSUME TypeOK, HeldOnce, WireIsCalled, [Next]_vars,
         NEW g \in Groups, NEW m \in Messages, NEW call \in {"ack", "discard"},
         copy'[g][m] = Final[call]
  PROVE  \/ copy[g][m] = Final[call]
         \/ \E c \in Clients : \E t \in called[c][call] : deliveries[c][t] = <<g, m>>
  <1>0. Final[call] \in {"acked", "discarded"}
    BY DEF Final
  <1>1. CASE Quiet
    BY <1>1 DEF Quiet
  <1>2. ASSUME NEW c \in Clients, NEW how, ChannelEnds(c, how) PROVE copy[g][m] = Final[call]
    BY <1>0, <1>2 DEF ChannelEnds
  <1>3. ASSUME NEW k \in Messages, Route(k) PROVE copy[g][m] = Final[call]
    BY <1>0, <1>3 DEF Route, TypeOK
  <1>4. ASSUME NEW c \in Clients, NEW h \in Groups, NEW k \in Messages, Deliver(c, h, k)
        PROVE  copy[g][m] = Final[call]
    BY <1>0, <1>4 DEF Deliver, TypeOK
  <1>5. CASE ServerRestart
    BY <1>0, <1>5 DEF ServerRestart
  <1>6. ASSUME NEW c \in Clients, NEW op \in Settlements, Arrived(c, op), SettleKnown(c, op)
        PROVE  \/ copy[g][m] = Final[call]
               \/ \E d \in Clients : \E t \in called[d][call] : deliveries[d][t] = <<g, m>>
    <2> DEFINE t == Head(wire[c]).tag
               p == deliveries[c][t]
    <2>1. p[1] \in Groups /\ p[2] \in Messages /\ p = <<p[1], p[2]>>
      BY <1>6, HeldFact DEF SettleKnown
    <2>2. copy' = [copy EXCEPT ![p[1]][p[2]] = Final[op]]
      BY <1>6 DEF SettleKnown
    <2>3. op \in {"ack", "discard"} => t \in called[c][op]
      BY <1>6, ArrivedFact DEF WireIsCalled
    <2>4. Final[op] = Final[call] => op = call
      BY DEF Final, Settlements, Calls
    <2> HIDE DEF p
    <2>5. CASE <<g, m>> = p
      <3>1. copy'[g][m] = Final[op]
        BY <2>1, <2>2, <2>5 DEF TypeOK
      <3> QED
        BY <2>3, <2>4, <2>5, <3>1 DEF p
    <2>6. CASE <<g, m>> # p
      BY <2>1, <2>2, <2>6 DEF TypeOK
    <2> QED
      BY <2>5, <2>6
  <1>7. ASSUME NEW c \in Clients, PublishArrives(c) PROVE copy[g][m] = Final[call]
    BY <1>3, <1>7, ArrivedFact DEF PublishArrives
  <1>8. ASSUME NEW k \in Messages, ForeignPublish(k) PROVE copy[g][m] = Final[call]
    BY <1>3, <1>8 DEF ForeignPublish
  <1> QED
    BY <1>1, <1>2, <1>4, <1>5, <1>6, <1>7, <1>8, StepCases

(* Every step leaves a copy acked or discarded only on a handler's word. *)
LEMMA GoneNext ==
  ASSUME TypeOK, HeldOnce, WireIsCalled, GoneOnHandlersWord, [Next]_vars
  PROVE  GoneOnHandlersWord'
  <1> SUFFICES ASSUME NEW g \in Groups, NEW m \in Messages, NEW call \in {"ack", "discard"},
                      copy'[g][m] = Final[call]
               PROVE  \E c \in Clients : \E t \in called'[c][call] : deliveries'[c][t] = <<g, m>>
    BY DEF GoneOnHandlersWord, Final
  <1>1. call \in Settlements
    BY DEF Settlements, Calls
  <1>2. PICK c \in Clients : \E t \in called[c][call] : deliveries[c][t] = <<g, m>>
    BY GoneCases DEF GoneOnHandlersWord
  <1>3. PICK t \in called[c][call] : deliveries[c][t] = <<g, m>>
    BY <1>2
  <1>4. t \in 1..Len(deliveries[c])
    <2>1. /\ called[c][call] \subseteq 1..started[c] /\ started[c] \in Nat
          /\ Len(deliveries[c]) \in Nat /\ started[c] <= Len(deliveries[c])
      BY <1>1 DEF TypeOK
    <2> QED
      BY <2>1
  <1>5. t \in called'[c][call] /\ deliveries'[c][t] = <<g, m>>
    BY <1>1, <1>3, <1>4, DeliveriesKept, WireCases
  <1> QED
    BY <1>5

-----------------------------------------------------------------------------
(* The inductive invariant and what follows from it *)

(* The inductive invariant holds in the initial state. *)
LEMMA InitInvariant == Init => IInv
  <1> SUFFICES ASSUME Init PROVE IInv
    OBVIOUS
  <1>1. HeldOnce
    BY DEF Init, HeldOnce, HeldIsUnacked, HeldByOne, UnackedIsHeld
  <1>2. OnePublisher /\ UnsentIsNowhere
    BY DEF Init, OnePublisher, UnsentIsNowhere
  <1>3. \A c \in Clients : 1..Len(wire[c]) = {}
    BY DEF Init
  <1>4. OneFrame /\ WireIsCalled
    BY <1>3 DEF OneFrame, WireIsCalled
  <1>5. GoneOnHandlersWord
    BY DEF Init, GoneOnHandlersWord, Final
  <1> QED
    BY <1>1, <1>2, <1>4, <1>5, InitType DEF IInv, PublishedOnce

(* Every step keeps the inductive invariant. *)
LEMMA NextInvariant == IInv /\ [Next]_vars => IInv'
  <1> SUFFICES ASSUME IInv, [Next]_vars PROVE IInv'
    OBVIOUS
  <1> USE DEF IInv
  <1>1. TypeOK'
    BY TypeNext
  <1>2. HeldOnce' /\ PublishedOnce'
    BY HeldNext, PublishedNext
  <1>3. WireIsCalled' /\ GoneOnHandlersWord'
    BY CalledNext, GoneNext
  <1> QED
    BY <1>1, <1>2, <1>3

(* Every state of the model satisfies the inductive invariant. *)
THEOREM Invariant == Spec => []IInv
  BY InitInvariant, NextInvariant, PTL DEF Spec

(* Inside a group at most one consumer holds a message at a time, and a
   message that is out of the queue is held by exactly one, whatever handlers
   throw, channels die and frames are lost (rabbitmq/src/index.ts:112-132). *)
THEOREM ExclusiveDelivery == Spec => []HeldOnce
  <1>1. IInv => HeldOnce
    BY DEF IInv
  <1> QED
    BY <1>1, Invariant, PTL

(* No message leaves a group's queue unless a handler that was given it has
   called ack or nack(false): the adapter's own nack(true) after an exception
   never removes one (rabbitmq/src/index.ts:122-130). *)
THEOREM NothingDropped == Spec => []GoneOnHandlersWord
  <1>1. IInv => GoneOnHandlersWord
    BY DEF IInv
  <1> QED
    BY <1>1, Invariant, PTL

(* No step takes a copy out of acked or discarded. *)
LEMMA SettledStays ==
  ASSUME IInv, [Next]_vars, NEW g \in Groups, NEW m \in Messages,
         copy[g][m] \in {"acked", "discarded"}
  PROVE  copy'[g][m] = copy[g][m]
  <1> USE DEF IInv
  <1>1. CASE Quiet
    BY <1>1 DEF Quiet
  <1>2. ASSUME NEW c \in Clients PROVE <<g, m>> \notin HeldBy(c)
    BY DEF HeldOnce, HeldIsUnacked, HeldBy
  <1>3. ASSUME NEW c \in Clients, NEW how, ChannelEnds(c, how)
        PROVE  copy'[g][m] = copy[g][m]
    BY <1>2, <1>3 DEF ChannelEnds
  <1>4. ASSUME NEW k \in Messages, Route(k), \A h \in Groups : copy[h][k] = "none"
        PROVE  copy'[g][m] = copy[g][m]
    BY <1>4 DEF Route, TypeOK
  <1>5. ASSUME NEW c \in Clients, NEW call \in Settlements, SettleKnown(c, call)
        PROVE  copy'[g][m] = copy[g][m]
    <2> DEFINE p == deliveries[c][Head(wire[c]).tag]
    <2>1. /\ p[1] \in Groups /\ p[2] \in Messages /\ p = <<p[1], p[2]>>
          /\ p \in HeldBy(c)
      BY <1>5, HeldFact DEF SettleKnown
    <2>2. copy' = [copy EXCEPT ![p[1]][p[2]] = Final[call]]
      BY <1>5 DEF SettleKnown
    <2> HIDE DEF p
    <2> QED
      BY <1>2, <2>1, <2>2 DEF TypeOK
  <1>6. ASSUME NEW c \in Clients, NEW h \in Groups, NEW k \in Messages, Deliver(c, h, k)
        PROVE  copy'[g][m] = copy[g][m]
    BY <1>6 DEF Deliver, TypeOK
  <1>7. CASE ServerRestart
    BY <1>7 DEF ServerRestart
  <1>8. ASSUME NEW c \in Clients, PublishArrives(c) PROVE copy'[g][m] = copy[g][m]
    BY <1>4, <1>8, FrameFresh DEF PublishArrives
  <1>9. ASSUME NEW k \in Messages, ForeignPublish(k) PROVE copy'[g][m] = copy[g][m]
    BY <1>4, <1>9 DEF ForeignPublish
  <1> QED
    BY <1>1, <1>3, <1>5, <1>6, <1>7, <1>8, <1>9, StepCases

(* The first settlement a delivery receives is final: the nack(true) that the
   adapter adds when a handler throws after it has acknowledged or discarded
   brings nothing back (rabbitmq/src/index.ts:126-130). *)
THEOREM SettledForGood == Spec => FirstSettlementFinal
  <1>1. IInv /\ [Next]_vars =>
          [\A g \in Groups, m \in Messages :
             copy[g][m] \in {"acked", "discarded"} => copy'[g][m] = copy[g][m]]_vars
    BY SettledStays
  <1> QED
    BY <1>1, Invariant, PTL DEF Spec, FirstSettlementFinal
=============================================================================
