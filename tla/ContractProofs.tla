--------------------------- MODULE ContractProofs ---------------------------
(***************************************************************************)
(* The RabbitMQ adapter implements the contract of GroupDelivery.tla, and  *)
(* what its handlers and channels guarantee, for every instance.           *)
(***************************************************************************)
EXTENDS RabbitMQProofs

-----------------------------------------------------------------------------
(* One channel: what its callback and its handlers have sent *)

(* Only an open channel has frames under way. *)
OpenWire(c) == wire[c] # <<>> => chan[c] = "open"

NewEmpty(c) == chan[c] = "new" => Len(deliveries[c]) = 0

(* What waits for the callback has not been settled. *)
Waits(c) ==
  chan[c] = "open" => \A t \in 1..Len(deliveries[c]) : t > started[c] => t \in unacked[c]

(* Nor has what a handler has, as long as it has called nothing. *)
Untouched(c) ==
  \A t \in running[c] :
    Called(c, t) = {} /\ chan[c] = "open" =>
      t \in unacked[c] /\ \A i \in 1..Len(wire[c]) : ~Settles(wire[c][i], t)

(* Frame i is the first settlement of t, or the nack(true) of a catch block whose
   handler had settled. *)
IsFirst(c, i, t) == t \in unacked[c] /\ \A j \in 1..(i - 1) : ~Settles(wire[c][j], t)

IsExtra(c, i, t) == wire[c][i].op = "requeue" /\ Called(c, t) # {} /\ t \notin running[c]

FirstOrExtra(c) ==
  \A i \in 1..Len(wire[c]), t \in 1..started[c] :
    Settles(wire[c][i], t) => IsFirst(c, i, t) \/ IsExtra(c, i, t)

ChannelOk(c) == OpenWire(c) /\ NewEmpty(c) /\ Waits(c) /\ Untouched(c) /\ FirstOrExtra(c)

ChannelsOk == \A c \in Clients : ChannelOk(c)

(* Nothing that concerns the channel of c changes. *)
SameAt(c) ==
  /\ chan'[c] = chan[c] /\ wire'[c] = wire[c] /\ deliveries'[c] = deliveries[c]
  /\ unacked'[c] = unacked[c] /\ started'[c] = started[c] /\ running'[c] = running[c]
  /\ called'[c] = called[c]

(* A channel whose frames, tags and handlers are unchanged stays in order. *)
LEMMA SameOk ==
  ASSUME NEW c \in Clients, ChannelOk(c), SameAt(c)
  PROVE  ChannelOk(c)'
  <1> USE DEF SameAt, ChannelOk
  <1>1. \A t : Called(c, t)' = Called(c, t)
    BY DEF Called
  <1>2. OpenWire(c)' /\ NewEmpty(c)' /\ Waits(c)'
    BY DEF OpenWire, NewEmpty, Waits
  <1>3. Untouched(c)'
    BY <1>1 DEF Untouched
  <1>4. FirstOrExtra(c)'
    <2>1. ASSUME NEW i \in 1..Len(wire'[c]), NEW t \in 1..started'[c], Settles(wire'[c][i], t)
          PROVE  IsFirst(c, i, t)' \/ IsExtra(c, i, t)'
      <3>1. IsFirst(c, i, t) \/ IsExtra(c, i, t)
        BY <2>1 DEF FirstOrExtra
      <3> QED
        BY <1>1, <3>1 DEF IsFirst, IsExtra
    <2> QED
      BY <2>1 DEF FirstOrExtra
  <1> QED
    BY <1>2, <1>3, <1>4

(* A channel that has gone away: nothing is left that could go wrong. *)
LEMMA GoneOk ==
  ASSUME NEW c \in Clients, chan'[c] \notin {"new", "open"}, wire'[c] = <<>>
  PROVE  ChannelOk(c)'
  <1>1. 1..Len(wire'[c]) = {}
    OBVIOUS
  <1> QED
    BY <1>1 DEF ChannelOk, OpenWire, NewEmpty, Waits, Untouched, FirstOrExtra

(* The types of one channel's wire, tags and handlers. *)
LEMMA TypeFact ==
  ASSUME TypeOK, NEW c \in Clients
  PROVE  /\ wire[c] \in Seq(Frames) /\ Len(wire[c]) \in Nat /\ Len(deliveries[c]) \in Nat
         /\ started[c] \in Nat /\ started[c] <= Len(deliveries[c])
         /\ running[c] \subseteq 1..started[c] /\ unacked[c] \subseteq 1..Len(deliveries[c])
         /\ \A t : t \in running[c] => t \in 1..started[c] /\ t \in Nat
  <1>1. wire[c] \in Seq(Frames) /\ deliveries[c] \in Seq(Groups \X Messages)
        /\ started[c] \in Nat
    BY DEF TypeOK
  <1>2. /\ started[c] <= Len(deliveries[c])
        /\ running[c] \subseteq 1..started[c] /\ unacked[c] \subseteq 1..Len(deliveries[c])
    BY DEF TypeOK
  <1> QED
    BY <1>1, <1>2

(* Every channel is in order in the initial state. *)
LEMMA InitOk == Init => ChannelsOk
  <1> SUFFICES ASSUME Init, NEW c \in Clients PROVE ChannelOk(c)
    BY DEF ChannelsOk
  <1>1. /\ wire[c] = <<>> /\ deliveries[c] = <<>> /\ chan[c] = "new" /\ running[c] = {}
    BY DEF Init
  <1>2. 1..Len(wire[c]) = {} /\ Len(deliveries[c]) = 0
    BY <1>1
  <1> QED
    BY <1>1, <1>2 DEF ChannelOk, OpenWire, NewEmpty, Waits, Untouched, FirstOrExtra

(* A new channel starts in order. *)
LEMMA ConnectOk ==
  ASSUME TypeOK, ChannelsOk, NEW c \in Clients, Connect(c)
  PROVE  ChannelsOk'
  <1>1. \A d \in Clients \ {c} : SameAt(d)
    BY DEF Connect, SameAt, handlers, TypeOK
  <1>2. ChannelOk(c)'
    <2>1. /\ chan[c] = "new" /\ wire'[c] = wire[c] /\ deliveries'[c] = deliveries[c]
          /\ running'[c] = running[c] /\ started' = started
      BY DEF Connect, handlers
    <2>2. Len(deliveries[c]) = 0 /\ wire[c] = <<>>
      BY <2>1 DEF ChannelsOk, ChannelOk, NewEmpty, OpenWire
    <2>3. 1..Len(deliveries[c]) = {} /\ 1..Len(wire[c]) = {}
      BY <2>2
    <2>4. running[c] = {}
      BY <2>2, TypeFact
    <2> QED
      BY <2>1, <2>2, <2>3, <2>4 DEF ChannelOk, OpenWire, NewEmpty, Waits, Untouched, FirstOrExtra
  <1> QED
    BY <1>1, <1>2, SameOk DEF ChannelsOk

(* The news that a channel has gone leaves every channel in order. *)
LEMMA CloseArrivesOk ==
  ASSUME TypeOK, ChannelsOk, NEW c \in Clients, CloseArrives(c)
  PROVE  ChannelsOk'
  <1>1. \A d \in Clients \ {c} : SameAt(d)
    BY DEF CloseArrives, SameAt, handlers, TypeOK
  <1>2. chan'[c] \notin {"new", "open"} /\ wire'[c] = <<>>
    BY DEF CloseArrives, ChannelsOk, ChannelOk, OpenWire, TypeOK
  <1> QED
    BY <1>1, <1>2, SameOk, GoneOk DEF ChannelsOk

(* The end of a channel leaves every channel in order. *)
LEMMA EndsOk ==
  ASSUME TypeOK, ChannelsOk, NEW c \in Clients, NEW how \in {"closed", "failing", "failed"},
         ChannelEnds(c, how)
  PROVE  ChannelsOk'
  <1>1. \A d \in Clients \ {c} : SameAt(d)
    BY DEF ChannelEnds, SameAt, handlers, TypeOK
  <1>2. chan'[c] \notin {"new", "open"} /\ wire'[c] = <<>>
    BY DEF ChannelEnds, TypeOK
  <1> QED
    BY <1>1, <1>2, SameOk, GoneOk DEF ChannelsOk

(* A restart of the server leaves every channel in order. *)
LEMMA RestartOk ==
  ASSUME TypeOK, ChannelsOk, ServerRestart
  PROVE  ChannelsOk'
  <1>1. ASSUME NEW c \in Clients, chan[c] # "new"
        PROVE  ChannelOk(c)'
    <2>1. chan'[c] \notin {"new", "open"} /\ wire'[c] = <<>>
      BY <1>1 DEF ServerRestart, TypeOK
    <2> QED
      BY <2>1, GoneOk
  <1>2. ASSUME NEW c \in Clients, chan[c] = "new"
        PROVE  ChannelOk(c)'
    <2>1. /\ chan'[c] = "new" /\ wire'[c] = <<>> /\ deliveries'[c] = deliveries[c]
      BY <1>2 DEF ServerRestart
    <2>2. Len(deliveries[c]) = 0
      BY <1>2 DEF ChannelsOk, ChannelOk, NewEmpty
    <2>3. 1..Len(wire'[c]) = {}
      BY <2>1
    <2> QED
      BY <2>1, <2>2, <2>3 DEF ChannelOk, OpenWire, NewEmpty, Waits, Untouched, FirstOrExtra
  <1> QED
    BY <1>1, <1>2 DEF ChannelsOk


(* A step that touches no channel leaves all of them in order. *)
LEMMA StillOk ==
  ASSUME ChannelsOk,
         UNCHANGED <<chan, wire, deliveries, unacked, started, running, called>>
  PROVE  ChannelsOk'
  BY SameOk DEF ChannelsOk, SameAt

(* A channel that is not open, whatever its handlers do. *)
LEMMA ShutOk ==
  ASSUME NEW c \in Clients, ChannelOk(c), chan[c] # "open", chan'[c] = chan[c],
         wire'[c] = wire[c], deliveries'[c] = deliveries[c]
  PROVE  ChannelOk(c)'
  <1>1. wire'[c] = <<>> /\ (chan[c] = "new" => Len(deliveries'[c]) = 0)
    BY DEF ChannelOk, OpenWire, NewEmpty
  <1>2. 1..Len(wire'[c]) = {}
    BY <1>1
  <1> QED
    BY <1>1, <1>2 DEF ChannelOk, OpenWire, NewEmpty, Waits, Untouched, FirstOrExtra

(* Where the frames of a wire stand once one is appended. *)
LEMMA GrowFact ==
  ASSUME TypeOK, NEW c \in Clients, NEW f \in Frames, wire'[c] = Append(wire[c], f)
  PROVE  /\ \A i \in 1..Len(wire'[c]) :
              \/ i \in 1..Len(wire[c]) /\ wire'[c][i] = wire[c][i]
              \/ i = Len(wire[c]) + 1 /\ wire'[c][i] = f
         /\ \A i \in 1..Len(wire[c]) : wire'[c][i] = wire[c][i]
         /\ Len(wire[c]) \in Nat
  <1>1. wire[c] \in Seq(Frames)
    BY DEF TypeOK
  <1>2. /\ Len(wire'[c]) = Len(wire[c]) + 1 /\ Len(wire[c]) \in Nat
        /\ wire'[c][Len(wire[c]) + 1] = f
        /\ \A i \in 1..Len(wire[c]) : wire'[c][i] = wire[c][i]
    BY <1>1, AppendFact
  <1> QED
    BY <1>2

(* A frame that is first or extra stays so when others are added behind it. *)
LEMMA GrowKeeps ==
  ASSUME TypeOK, NEW c \in Clients, NEW f \in Frames, wire'[c] = Append(wire[c], f),
         unacked'[c] = unacked[c], running'[c] \subseteq running[c], FirstOrExtra(c),
         \A s : Called(c, s) \subseteq Called(c, s)',
         NEW i \in 1..Len(wire[c]), NEW s \in 1..started[c], Settles(wire'[c][i], s)
  PROVE  IsFirst(c, i, s)' \/ IsExtra(c, i, s)'
  <1>1. /\ \A j \in 1..Len(wire[c]) : wire'[c][j] = wire[c][j]
        /\ Len(wire[c]) \in Nat
    BY GrowFact
  <1>2. \A j \in 1..(i - 1) : j \in 1..Len(wire[c])
    BY <1>1
  <1>3. IsFirst(c, i, s) \/ IsExtra(c, i, s)
    BY <1>1 DEF FirstOrExtra
  <1>4. CASE IsFirst(c, i, s)
    BY <1>1, <1>2, <1>4 DEF IsFirst
  <1>5. CASE IsExtra(c, i, s)
    BY <1>1, <1>5 DEF IsExtra
  <1> QED
    BY <1>3, <1>4, <1>5

(* A basic.publish on the wire leaves every channel in order. *)
LEMMA PublishSendOk ==
  ASSUME TypeOK, ChannelsOk, NEW c \in Clients, NEW m \in Messages, PublishSend(c, m)
  PROVE  ChannelsOk'
  <1> PICK f \in Frames : f = [op |-> "publish", msg |-> m]
    BY DEF Frames
  <1>1. /\ UNCHANGED <<chan, deliveries, unacked, started, running, called>>
        /\ Send(c, f)
    BY DEF PublishSend, PubStep, handlers
  <1>2. \A d \in Clients \ {c} : SameAt(d)
    BY <1>1, SendFact DEF SameAt
  <1>3. CASE chan[c] # "open"
    BY <1>1, <1>2, <1>3, SameOk, ShutOk DEF Send, ChannelsOk
  <1>4. CASE chan[c] = "open"
    <2>1. wire'[c] = Append(wire[c], f)
      BY <1>1, <1>4 DEF Send, TypeOK
    <2>2. f.op = "publish"
      OBVIOUS
    <2>3. \A s : Called(c, s)' = Called(c, s)
      BY <1>1 DEF Called
    <2> USE DEF ChannelsOk, ChannelOk
    <2>4. OpenWire(c)' /\ NewEmpty(c)' /\ Waits(c)'
      BY <1>1, <1>4 DEF OpenWire, NewEmpty, Waits
    <2>5. Untouched(c)'
      BY <1>1, <2>1, <2>2, <2>3, GrowFact DEF Untouched, Settles
    <2>6. FirstOrExtra(c)'
      <3>1. ASSUME NEW i \in 1..Len(wire'[c]), NEW s \in 1..started'[c], Settles(wire'[c][i], s)
            PROVE  IsFirst(c, i, s)' \/ IsExtra(c, i, s)'
        <4>1. i \in 1..Len(wire[c])
          BY <2>1, <2>2, <3>1, GrowFact DEF Settles
        <4> QED
          BY <1>1, <2>1, <2>3, <3>1, <4>1, GrowKeeps
      <3> QED
        BY <3>1 DEF FirstOrExtra
    <2>7. ChannelOk(c)'
      BY <2>4, <2>5, <2>6
    <2> QED
      BY <1>2, <2>7, SameOk
  <1> QED
    BY <1>3, <1>4

(* The callback or a handler settles t, or will: what is behind on the wire is
   the first settlement of t or its extra one. *)
LEMMA SettleSendOk ==
  ASSUME TypeOK, ChannelsOk, NEW c \in Clients, NEW t \in running[c], NEW f \in Frames,
         f.op # "publish", f.tag = t, wire'[c] = Append(wire[c], f), chan[c] = "open",
         chan'[c] = chan[c], deliveries'[c] = deliveries[c], unacked'[c] = unacked[c],
         started'[c] = started[c], running'[c] \subseteq running[c],
         \A s : Called(c, s) \subseteq Called(c, s)',
         Called(c, t)' # {} \/ t \notin running'[c],
         \/ Called(c, t) = {}
         \/ f.op = "requeue" /\ t \notin running'[c]
  PROVE  ChannelOk(c)'
  <1> USE DEF ChannelsOk, ChannelOk
  <1>1. OpenWire(c)' /\ NewEmpty(c)' /\ Waits(c)'
    BY DEF OpenWire, NewEmpty, Waits
  <1>2. Untouched(c)'
    <2> SUFFICES ASSUME NEW s \in running'[c], Called(c, s)' = {}
                 PROVE  s \in unacked[c] /\ \A i \in 1..Len(wire'[c]) : ~Settles(wire'[c][i], s)
      BY DEF Untouched
    <2>1. s \in running[c] /\ Called(c, s) = {} /\ s # t
      OBVIOUS
    <2>2. s \in unacked[c] /\ \A i \in 1..Len(wire[c]) : ~Settles(wire[c][i], s)
      BY <2>1 DEF Untouched
    <2> QED
      BY <2>1, <2>2, GrowFact DEF Settles
  <1>3. FirstOrExtra(c)'
    <2> SUFFICES ASSUME NEW i \in 1..Len(wire'[c]), NEW s \in 1..started'[c],
                        Settles(wire'[c][i], s)
                 PROVE  IsFirst(c, i, s)' \/ IsExtra(c, i, s)'
      BY DEF FirstOrExtra
    <2>1. CASE i \in 1..Len(wire[c])
      BY <2>1, GrowKeeps
    <2>2. CASE i = Len(wire[c]) + 1 /\ wire'[c][i] = f
      <3>1. s = t
        BY <2>2 DEF Settles
      <3>2. CASE Called(c, t) = {}
        <4>1. t \in unacked[c] /\ \A j \in 1..Len(wire[c]) : ~Settles(wire[c][j], t)
          BY <3>2 DEF Untouched
        <4>2. \A j \in 1..(i - 1) : ~Settles(wire'[c][j], t)
          BY <2>2, <4>1, GrowFact
        <4> QED
          BY <3>1, <4>1, <4>2 DEF IsFirst
      <3>3. CASE Called(c, t) # {} /\ f.op = "requeue" /\ t \notin running'[c]
        BY <2>2, <3>1, <3>3 DEF IsExtra
      <3> QED
        BY <3>2, <3>3
    <2> QED
      BY <2>1, <2>2, GrowFact
  <1> QED
    BY <1>1, <1>2, <1>3


(* A handler's ack or nack leaves every channel in order. *)
LEMMA HandlerCallOk ==
  ASSUME TypeOK, ChannelsOk, NEW c \in Clients, NEW t \in running[c],
         NEW call \in Settlements, HandlerCall(c, t, call)
  PROVE  ChannelsOk'
  <1>t. t \in Nat
    BY TypeFact
  <1> PICK f \in Frames : f = [op |-> call, tag |-> t]
    BY <1>t DEF Frames
  <1>1. /\ UNCHANGED <<chan, deliveries, unacked, started, running>>
        /\ Send(c, f) /\ Called(c, t) = {}
        /\ called' = [called EXCEPT ![c][call] = @ \cup {t}]
    BY DEF HandlerCall
  <1>2. \A d \in Clients \ {c} : SameAt(d)
    BY <1>1, SendFact DEF SameAt, TypeOK
  <1>3. called \in [Clients -> [Settlements -> SUBSET Nat]]
    BY DEF TypeOK
  <1>4. \A s : Called(c, s) \subseteq Called(c, s)'
    BY <1>1, <1>3 DEF Called
  <1>5. call \in Called(c, t)'
    BY <1>1, <1>3 DEF Called
  <1>6. ChannelOk(c)'
    <2>1. CASE chan[c] # "open"
      BY <1>1, <2>1, ShutOk DEF Send, ChannelsOk
    <2>2. CASE chan[c] = "open"
      <3>1. wire'[c] = Append(wire[c], f)
        BY <1>1, <2>2 DEF Send, TypeOK
      <3>2. f.op # "publish" /\ f.tag = t
        BY DEF Settlements, Calls
      <3> QED
        BY <1>1, <1>4, <1>5, <2>2, <3>1, <3>2, SettleSendOk
    <2> QED
      BY <2>1, <2>2
  <1> QED
    BY <1>2, <1>6, SameOk DEF ChannelsOk

(* A handler's throw, and the nack it causes, leave every channel in order. *)
LEMMA HandlerThrowOk ==
  ASSUME TypeOK, ChannelsOk, NEW c \in Clients, NEW t \in running[c], HandlerThrow(c, t)
  PROVE  ChannelsOk'
  <1>t. t \in Nat
    BY TypeFact
  <1> PICK f \in Frames : f = [op |-> "requeue", tag |-> t]
    BY <1>t DEF Frames, Settlements, Calls
  <1>1. /\ UNCHANGED <<chan, deliveries, unacked, started, called>>
        /\ Send(c, f) /\ running' = [running EXCEPT ![c] = @ \ {t}]
    BY DEF HandlerThrow, HandlerEnds
  <1>2. \A d \in Clients \ {c} : SameAt(d)
    BY <1>1, SendFact DEF SameAt, TypeOK
  <1>3. running'[c] = running[c] \ {t}
    BY <1>1 DEF TypeOK
  <1>4. \A s : Called(c, s)' = Called(c, s)
    BY <1>1 DEF Called
  <1>5. ChannelOk(c)'
    <2>1. CASE chan[c] # "open"
      BY <1>1, <2>1, ShutOk DEF Send, ChannelsOk
    <2>2. CASE chan[c] = "open"
      <3>1. wire'[c] = Append(wire[c], f)
        BY <1>1, <2>2 DEF Send, TypeOK
      <3>2. f.op = "requeue" /\ f.op # "publish" /\ f.tag = t
        OBVIOUS
      <3> QED
        BY <1>1, <1>3, <1>4, <2>2, <3>1, <3>2, SettleSendOk
    <2> QED
      BY <2>1, <2>2
  <1> QED
    BY <1>2, <1>5, SameOk DEF ChannelsOk

(* A handler's return, and the ack it may cause, leave every channel in *)
(* order.                                                               *)
LEMMA HandlerReturnOk ==
  ASSUME TypeOK, ChannelsOk, NEW c \in Clients, NEW t \in running[c], HandlerReturn(c, t)
  PROVE  ChannelsOk'
  <1>1. /\ UNCHANGED <<chan, wire, deliveries, unacked, started, called>>
        /\ running' = [running EXCEPT ![c] = @ \ {t}]
    BY DEF HandlerReturn, HandlerEnds
  <1>2. \A d \in Clients \ {c} : SameAt(d)
    BY <1>1 DEF SameAt, TypeOK
  <1>3. running'[c] = running[c] \ {t}
    BY <1>1 DEF TypeOK
  <1>4. \A s : Called(c, s)' = Called(c, s)
    BY <1>1 DEF Called
  <1>5. ChannelOk(c)'
    <2> USE DEF ChannelsOk, ChannelOk
    <2>1. OpenWire(c)' /\ NewEmpty(c)' /\ Waits(c)'
      BY <1>1 DEF OpenWire, NewEmpty, Waits
    <2>2. Untouched(c)'
      BY <1>1, <1>3, <1>4 DEF Untouched
    <2>3. FirstOrExtra(c)'
      <3>1. ASSUME NEW i \in 1..Len(wire'[c]), NEW s \in 1..started'[c], Settles(wire'[c][i], s)
            PROVE  IsFirst(c, i, s)' \/ IsExtra(c, i, s)'
        <4>1. IsFirst(c, i, s) \/ IsExtra(c, i, s)
          BY <1>1, <3>1 DEF FirstOrExtra
        <4> QED
          BY <1>1, <1>3, <1>4, <4>1 DEF IsFirst, IsExtra
      <3> QED
        BY <3>1 DEF FirstOrExtra
    <2> QED
      BY <2>1, <2>2, <2>3
  <1> QED
    BY <1>2, <1>5, SameOk DEF ChannelsOk

(* The callback takes the next delivery: no frame can be about it yet. *)
LEMMA HandlerStartOk ==
  ASSUME TypeOK, WireIsCalled, ChannelsOk, NEW c \in Clients, HandlerStart(c)
  PROVE  ChannelsOk'
  <1> PICK n : n = started[c] + 1
    OBVIOUS
  <1>1. /\ UNCHANGED <<chan, wire, deliveries, unacked, called>>
        /\ started'[c] = n /\ running'[c] = running[c] \cup {n}
        /\ n \in 1..Len(deliveries[c]) /\ n > started[c] /\ started[c] \in Nat
    <2>1. started[c] < Len(deliveries[c])
      BY DEF HandlerStart, Pending
    <2> QED
      BY <2>1, TypeFact DEF HandlerStart, TypeOK
  <1>2. \A d \in Clients \ {c} : SameAt(d)
    BY <1>1 DEF SameAt, HandlerStart, TypeOK
  <1>3. \A i \in 1..Len(wire[c]) : ~Settles(wire[c][i], n)
    <2>1. ASSUME NEW i \in 1..Len(wire[c]), Settles(wire[c][i], n)
          PROVE  FALSE
      <3>1. n \in 1..started[c]
        BY <2>1 DEF WireIsCalled, Settles
      <3> QED
        BY <1>1, <3>1
    <2> QED
      BY <2>1
  <1>4. \A s : Called(c, s)' = Called(c, s)
    BY <1>1 DEF Called
  <1>5. CASE chan[c] # "open"
    BY <1>1, <1>2, <1>5, SameOk, ShutOk DEF ChannelsOk
  <1>6. CASE chan[c] = "open"
    <2> USE DEF ChannelsOk, ChannelOk
    <2>1. n \in unacked[c]
      BY <1>1, <1>6 DEF Waits
    <2>2. OpenWire(c)' /\ NewEmpty(c)'
      BY <1>1 DEF OpenWire, NewEmpty
    <2>3. Waits(c)'
      BY <1>1, TypeFact DEF Waits
    <2>4. Untouched(c)'
      BY <1>1, <1>3, <1>4, <2>1 DEF Untouched
    <2>5. FirstOrExtra(c)'
      <3>1. ASSUME NEW i \in 1..Len(wire'[c]), NEW s \in 1..started'[c], Settles(wire'[c][i], s)
            PROVE  IsFirst(c, i, s)' \/ IsExtra(c, i, s)'
        <4>1. s # n /\ s \in 1..started[c]
          BY <1>1, <1>3, <3>1
        <4>2. IsFirst(c, i, s) \/ IsExtra(c, i, s)
          BY <1>1, <3>1, <4>1 DEF FirstOrExtra
        <4> QED
          BY <1>1, <1>4, <4>1, <4>2 DEF IsFirst, IsExtra
      <3> QED
        BY <3>1 DEF FirstOrExtra
    <2>6. ChannelOk(c)'
      BY <2>2, <2>3, <2>4, <2>5
    <2> QED
      BY <1>2, <2>6, SameOk
  <1> QED
    BY <1>5, <1>6

(* A delivery adds a tag no handler and no frame knows. *)
LEMMA DeliverOk ==
  ASSUME TypeOK, ChannelsOk, NEW c \in Clients, NEW g \in Groups, NEW m \in Messages,
         Deliver(c, g, m)
  PROVE  ChannelsOk'
  <1> PICK n : n = Len(deliveries[c]) + 1
    OBVIOUS
  <1>1. /\ UNCHANGED <<chan, wire, started, running, called>> /\ chan[c] = "open"
        /\ unacked'[c] = unacked[c] \cup {n} /\ Len(deliveries'[c]) = n
        /\ Len(deliveries[c]) \in Nat
    BY DeliverFact DEF Deliver, TypeOK, handlers
  <1>2. \A d \in Clients \ {c} : SameAt(d)
    BY <1>1, DeliverFact DEF SameAt, Deliver, TypeOK
  <1>3. \A s : Called(c, s)' = Called(c, s)
    BY <1>1 DEF Called
  <1>4. ChannelOk(c)'
    <2> USE DEF ChannelsOk, ChannelOk
    <2>1. OpenWire(c)' /\ NewEmpty(c)'
      BY <1>1 DEF OpenWire, NewEmpty
    <2>2. Waits(c)'
      <3>1. \A t \in 1..Len(deliveries'[c]) : t = n \/ t \in 1..Len(deliveries[c])
        BY <1>1
      <3> QED
        BY <1>1, <3>1 DEF Waits
    <2>3. Untouched(c)'
      BY <1>1, <1>3 DEF Untouched
    <2>4. FirstOrExtra(c)'
      <3>1. ASSUME NEW i \in 1..Len(wire'[c]), NEW s \in 1..started'[c], Settles(wire'[c][i], s)
            PROVE  IsFirst(c, i, s)' \/ IsExtra(c, i, s)'
        <4>1. IsFirst(c, i, s) \/ IsExtra(c, i, s)
          BY <1>1, <3>1 DEF FirstOrExtra
        <4> QED
          BY <1>1, <1>3, <4>1 DEF IsFirst, IsExtra
      <3> QED
        BY <3>1 DEF FirstOrExtra
    <2> QED
      BY <2>1, <2>2, <2>3, <2>4
  <1> QED
    BY <1>2, <1>4, SameOk DEF ChannelsOk

(* The server processes the oldest frame; what it settles leaves unacked. *)
LEMMA TailOk ==
  ASSUME TypeOK, ChannelsOk, NEW c \in Clients, wire[c] # <<>>, wire'[c] = Tail(wire[c]),
         chan'[c] = chan[c], deliveries'[c] = deliveries[c], started'[c] = started[c],
         running'[c] = running[c], called' = called,
         \/ unacked'[c] = unacked[c]
         \/ \E t \in 1..started[c] : Settles(wire[c][1], t) /\ unacked'[c] = unacked[c] \ {t}
  PROVE  ChannelOk(c)'
  <1> USE DEF ChannelsOk, ChannelOk
  <1>1. /\ Len(wire[c]) \in Nat \ {0} /\ Len(wire'[c]) = Len(wire[c]) - 1
        /\ \A i \in 1..Len(wire'[c]) : wire'[c][i] = wire[c][i + 1] /\ i + 1 \in 1..Len(wire[c])
        /\ 1 \in 1..Len(wire[c])
    <2>1. wire[c] \in Seq(Frames)
      BY DEF TypeOK
    <2>2. /\ Len(wire[c]) \in Nat \ {0} /\ Len(wire'[c]) = Len(wire[c]) - 1
          /\ \A i \in 1..Len(wire'[c]) : wire'[c][i] = wire[c][i + 1]
      BY <2>1, TailFact
    <2> QED
      BY <2>2
  <1>2. \A s \in unacked[c] : ~Settles(wire[c][1], s) => s \in unacked'[c]
    OBVIOUS
  <1>3. \A s : Called(c, s)' = Called(c, s)
    BY DEF Called
  <1>4. OpenWire(c)' /\ NewEmpty(c)'
    BY DEF OpenWire, NewEmpty
  <1>5. Waits(c)'
    <2>1. started[c] \in Nat /\ Len(deliveries[c]) \in Nat
      BY TypeFact
    <2>2. \A s \in 1..Len(deliveries[c]) : s > started[c] => s \notin 1..started[c]
      BY <2>1
    <2> QED
      BY <2>2 DEF Waits
  <1>6. Untouched(c)'
    BY <1>1, <1>2, <1>3 DEF Untouched
  <1>7. FirstOrExtra(c)'
    <2>1. ASSUME NEW i \in 1..Len(wire'[c]), NEW s \in 1..started'[c], Settles(wire'[c][i], s)
          PROVE  IsFirst(c, i, s)' \/ IsExtra(c, i, s)'
      <3>1. IsFirst(c, i + 1, s) \/ IsExtra(c, i + 1, s)
        BY <1>1, <2>1 DEF FirstOrExtra
      <3>2. CASE IsFirst(c, i + 1, s)
        <4>1. 1 \in 1..((i + 1) - 1) /\ \A j \in 1..(i - 1) : j + 1 \in 1..((i + 1) - 1)
          BY <2>1
        <4>2. s \in unacked'[c]
          BY <1>2, <3>2, <4>1 DEF IsFirst
        <4>3. \A j \in 1..(i - 1) : j \in 1..Len(wire'[c])
          BY <1>1
        <4>4. \A j \in 1..(i - 1) : ~Settles(wire'[c][j], s)
          BY <1>1, <3>2, <4>1, <4>3 DEF IsFirst
        <4> QED
          BY <4>2, <4>4 DEF IsFirst
      <3>3. CASE IsExtra(c, i + 1, s)
        BY <1>1, <1>3, <3>3 DEF IsExtra
      <3> QED
        BY <3>1, <3>2, <3>3
    <2> QED
      BY <2>1 DEF FirstOrExtra
  <1> QED
    BY <1>4, <1>5, <1>6, <1>7


(* A publish that arrives leaves every channel in order. *)
LEMMA PublishArrivesOk ==
  ASSUME TypeOK, ChannelsOk, NEW c \in Clients, PublishArrives(c)
  PROVE  ChannelsOk'
  <1>1. /\ UNCHANGED <<chan, deliveries, unacked, started, running, called>>
        /\ wire' = [wire EXCEPT ![c] = Tail(@)] /\ wire[c] # <<>>
    BY DEF PublishArrives, Arrived, handlers
  <1>2. wire'[c] = Tail(wire[c]) /\ \A d \in Clients \ {c} : SameAt(d)
    BY <1>1 DEF SameAt, TypeOK
  <1> QED
    BY <1>1, <1>2, TailOk, SameOk DEF ChannelsOk

(* A settlement that arrives leaves every channel in order. *)
LEMMA SettleKnownOk ==
  ASSUME TypeOK, WireIsCalled, ChannelsOk, NEW c \in Clients, NEW call \in Settlements,
         Arrived(c, call), SettleKnown(c, call)
  PROVE  ChannelsOk'
  <1> PICK t : t = Head(wire[c]).tag
    OBVIOUS
  <1>1. /\ UNCHANGED <<chan, deliveries, started, running, called>>
        /\ wire' = [wire EXCEPT ![c] = Tail(@)] /\ wire[c] # <<>>
        /\ unacked' = [unacked EXCEPT ![c] = @ \ {t}]
    BY DEF SettleKnown, Arrived, handlers
  <1>2. wire'[c] = Tail(wire[c]) /\ \A d \in Clients \ {c} : SameAt(d)
    BY <1>1 DEF SameAt, TypeOK
  <1>3. Settles(wire[c][1], t) /\ 1 \in 1..Len(wire[c])
    BY ArrivedFact DEF Settles, Settlements, Calls
  <1>4. t \in 1..started[c]
    BY <1>3 DEF WireIsCalled, Settles
  <1>5. unacked'[c] = unacked[c] \ {t}
    BY <1>1 DEF TypeOK
  <1> QED
    BY <1>1, <1>2, <1>3, <1>4, <1>5, TailOk, SameOk DEF ChannelsOk

(* Every step leaves every channel in order. *)
LEMMA NextOk ==
  ASSUME TypeOK, WireIsCalled, ChannelsOk, [Next]_vars
  PROVE  ChannelsOk'
  <1> DEFINE Still == UNCHANGED <<chan, wire, deliveries, unacked, started, running, called>>
  <1>1. CASE UNCHANGED vars
    BY <1>1, StillOk DEF vars, handlers
  <1>2. ASSUME NEW c \in Clients, Connect(c) \/ CloseArrives(c)
        PROVE  ChannelsOk'
    BY <1>2, ConnectOk, CloseArrivesOk
  <1>3. ASSUME NEW c \in Clients, Close(c) \/ ConnectionLost(c) \/ ParseFailure(c)
        PROVE  ChannelsOk'
    BY <1>3, EndsOk DEF Close, ConnectionLost, ParseFailure
  <1>4. ASSUME NEW c \in Clients, NEW g \in Groups, Subscribe(c, g)
        PROVE  ChannelsOk'
    <2>1. Still \/ ChannelEnds(c, "failing")
      BY <1>4 DEF Subscribe, SubscribeCall, AssertExchange, AssertQueue, BindQueue,
                  Consume, SubStep, handlers
    <2> QED
      BY <2>1, StillOk, EndsOk
  <1>5. ASSUME NEW c \in Clients, NEW m \in Messages, Publish(c, m)
        PROVE  ChannelsOk'
    <2>1. Still \/ PublishSend(c, m)
      BY <1>5 DEF Publish, PublishCall, PublishDrained, PubStep, handlers
    <2> QED
      BY <2>1, StillOk, PublishSendOk
  <1>6. ASSUME NEW c \in Clients, HandlerStart(c)
        PROVE  ChannelsOk'
    BY <1>6, HandlerStartOk
  <1>7. ASSUME NEW c \in Clients, NEW t \in running[c], Handler(c, t)
        PROVE  ChannelsOk'
    BY <1>7, HandlerCallOk, HandlerReturnOk, HandlerThrowOk DEF Handler
  <1>8. ASSUME NEW c \in Clients, Server(c)
        PROVE  ChannelsOk'
    <2>1. ASSUME NEW call \in Settlements, SettleArrives(c, call)
          PROVE  ChannelsOk'
      BY <2>1, SettleKnownOk, EndsOk DEF SettleArrives
    <2> QED
      BY <1>8, <2>1, PublishArrivesOk, DeliverOk DEF Server
  <1>9. ASSUME NEW m \in Messages, ForeignPublish(m)
        PROVE  ChannelsOk'
    BY <1>9, StillOk DEF ForeignPublish, handlers
  <1>10. CASE ServerRestart
    BY <1>10, RestartOk
  <1> QED
    BY <1>1, <1>2, <1>3, <1>4, <1>5, <1>6, <1>7, <1>8, <1>9, <1>10 DEF Next

(* In every reachable state the invariant of RabbitMQProofs holds and *)
(* channels are in order.                                             *)
LEMMA ChannelsInvariant == Spec => [](IInv /\ ChannelsOk)
  <1>1. Init => IInv /\ ChannelsOk
    BY InitInvariant, InitOk
  <1>2. IInv /\ ChannelsOk /\ [Next]_vars => (IInv /\ ChannelsOk)'
    BY NextInvariant, NextOk DEF IInv
  <1> QED
    BY <1>1, <1>2, PTL DEF Spec

(* The adapter settles nothing in addition to the handler, except that it
   requeues what a handler had settled before it threw: only that frame can meet
   a server that no longer waits for it (rabbitmq/src/index.ts:117-131). *)
THEOREM SettlesOnce == Spec => []OnlyThrowSettlesTwice
  <1>1. ASSUME ChannelsOk PROVE OnlyThrowSettlesTwice
    <2> SUFFICES ASSUME NEW c \in Clients, NEW i \in 1..Len(wire[c]),
                        NEW t \in 1..started[c], Settles(wire[c][i], t),
                        t \notin unacked[c] \/ \E j \in 1..(i - 1) : Settles(wire[c][j], t)
                 PROVE  IsExtra(c, i, t)
      BY DEF OnlyThrowSettlesTwice, IsExtra
    <2>1. IsFirst(c, i, t) \/ IsExtra(c, i, t)
      BY <1>1 DEF ChannelsOk, ChannelOk, FirstOrExtra
    <2> QED
      BY <2>1 DEF IsFirst
  <1> QED
    BY <1>1, ChannelsInvariant, PTL

(* A handler is entered for a delivery the server waits for, which no other
   handler of a channel that is up works on unsettled, unless the server has let
   the channel go and the client has not heard of it: the callback has no way to
   know (rabbitmq/src/index.ts:113-127). *)
THEOREM StartsHeld == Spec => StartedIsHeld
  <1> DEFINE Entered(c) == LET t == started'[c] IN
               t # started[c] =>
                 \/ chan[c] = "failing"
                 \/ t \in unacked[c] /\ \A d \in Clients : ~WorksOn(d, deliveries[c][t])
  <1>1. ASSUME IInv, ChannelsOk, [Next]_vars
        PROVE  \A c \in Clients : Entered(c)
    <2>1. ASSUME NEW c \in Clients, HandlerStart(c)
          PROVE  \A d \in Clients : Entered(d)
      <3> DEFINE n == started[c] + 1
      <3>1. /\ \A d \in Clients : started'[d] # started[d] => d = c
            /\ started'[c] = n /\ chan[c] \in {"open", "failing"}
            /\ started[c] < Len(deliveries[c])
        BY <1>1, <2>1 DEF HandlerStart, Pending, Live, IInv, TypeOK
      <3>2. n \in 1..Len(deliveries[c]) /\ n > started[c] /\ n \notin running[c]
        BY <1>1, <3>1, TypeFact DEF IInv
      <3>3. ASSUME chan[c] = "open" PROVE n \in unacked[c]
        BY <1>1, <3>2, <3>3 DEF ChannelsOk, ChannelOk, Waits
      <3>4. ASSUME chan[c] = "open", NEW d \in Clients, WorksOn(d, deliveries[c][n])
            PROVE  FALSE
        <4>1. PICK t \in running[d] : deliveries[d][t] = deliveries[c][n] /\ Called(d, t) = {}
          BY <3>4 DEF WorksOn
        <4>2. t \in unacked[d]
          BY <1>1, <3>4, <4>1 DEF WorksOn, ChannelsOk, ChannelOk, Untouched
        <4>3. d = c /\ t = n
          BY <1>1, <3>3, <3>4, <4>1, <4>2 DEF IInv, HeldOnce, HeldByOne
        <4> QED
          BY <3>2, <4>1, <4>3
      <3> HIDE DEF n
      <3> QED
        BY <3>1, <3>3, <3>4
    <2>2. CASE started' = started
      BY <2>2
    <2>3. started' = started \/ \E d \in Clients : HandlerStart(d)
      <3>1. ASSUME NEW c \in Clients,
                   \/ Connect(c) \/ Close(c) \/ ConnectionLost(c) \/ CloseArrives(c) \/ ParseFailure(c)
                   \/ \E g \in Groups : Subscribe(c, g)
                   \/ \E m \in Messages : Publish(c, m)
            PROVE  started' = started
        BY <3>1 DEF Connect, Close, ConnectionLost, CloseArrives, ParseFailure, ChannelEnds, Subscribe,
                    SubscribeCall, AssertExchange, AssertQueue, BindQueue, Consume, SubStep,
                    Publish, PublishCall, PublishSend, PublishDrained, PubStep, handlers
      <3>2. ASSUME NEW c \in Clients, Server(c) \/ \E t \in running[c] : Handler(c, t)
            PROVE  started' = started
        BY <3>2 DEF Server, PublishArrives, SettleArrives, SettleKnown, ChannelEnds, Deliver,
                    Handler, HandlerCall, HandlerReturn, HandlerThrow, HandlerEnds, handlers
      <3> QED
        BY <1>1, <3>1, <3>2 DEF Next, vars, ForeignPublish, ServerRestart, handlers
    <2> QED
      BY <2>1, <2>2, <2>3
  <1>2. IInv /\ ChannelsOk /\ [Next]_vars
          => [\A c \in Clients : Entered(c)]_vars
    BY <1>1
  <1> QED
    BY <1>2, ChannelsInvariant, PTL DEF Spec, StartedIsHeld


-----------------------------------------------------------------------------
(* A close loses nothing *)

(* What may become of the frames of a channel in one step. *)
LEMMA WireStep ==
  ASSUME TypeOK, NEW c \in Clients, OpenWire(c), [Next]_vars
  PROVE  \/ wire'[c] = wire[c]
         \/ \E f \in Frames : wire'[c] = Append(wire[c], f)
         \/ PublishArrives(c)
         \/ /\ wire'[c] = Tail(wire[c]) /\ wire[c] # <<>>
            /\ wire[c][1].op # "publish"
         \/ wire[c] = <<>>
         \/ chan'[c] \in {"failing", "failed"}
  <1> DEFINE Goal == \/ wire'[c] = wire[c]
                     \/ \E f \in Frames : wire'[c] = Append(wire[c], f)
                     \/ PublishArrives(c)
                     \/ /\ wire'[c] = Tail(wire[c]) /\ wire[c] # <<>>
                        /\ wire[c][1].op # "publish"
                     \/ wire[c] = <<>>
                     \/ chan'[c] \in {"failing", "failed"}
  <1>1. ASSUME NEW d \in Clients, NEW how \in {"failing", "failed"}, ChannelEnds(d, how)
        PROVE  Goal
    <2>1. d = c \/ wire'[c] = wire[c]
      BY <1>1 DEF ChannelEnds, TypeOK
    <2>2. d = c => chan'[c] \in {"failing", "failed"}
      BY <1>1 DEF ChannelEnds, TypeOK
    <2> QED
      BY <2>1, <2>2
  <1>2. ASSUME NEW d \in Clients, Close(d) PROVE Goal
    <2>1. d = c => wire[c] = <<>>
      BY <1>2 DEF Close, Rpc
    <2>2. d # c => wire'[c] = wire[c]
      BY <1>2 DEF Close, ChannelEnds, TypeOK
    <2> QED
      BY <2>1, <2>2
  <1>3. ASSUME NEW d \in Clients, NEW f \in Frames, Send(d, f) PROVE Goal
    <2>1. wire'[c] = wire[c] \/ wire'[c] = Append(wire[c], f)
      BY <1>3 DEF Send, TypeOK
    <2> QED
      BY <2>1
  <1>4. ASSUME NEW d \in Clients, NEW g \in Groups, Subscribe(d, g) PROVE Goal
    <2>1. wire' = wire \/ ChannelEnds(d, "failing")
      BY <1>4 DEF Subscribe, SubscribeCall, AssertExchange, AssertQueue, BindQueue,
                  Consume, SubStep
    <2> QED
      BY <1>1, <2>1
  <1>5. ASSUME NEW d \in Clients, NEW m \in Messages, Publish(d, m) PROVE Goal
    <2>1. PICK f \in Frames : f = [op |-> "publish", msg |-> m]
      BY DEF Frames
    <2>2. wire' = wire \/ Send(d, f)
      BY <1>5, <2>1 DEF Publish, PublishCall, PublishSend, PublishDrained
    <2> QED
      BY <1>3, <2>2
  <1>6. ASSUME NEW d \in Clients, NEW t \in running[d], Handler(d, t) PROVE Goal
    <2>1. t \in Nat
      BY TypeFact
    <2>2. \A call \in Settlements : [op |-> call, tag |-> t] \in Frames
      BY <2>1 DEF Frames
    <2>3. "requeue" \in Settlements
      BY DEF Settlements, Calls
    <2>4. wire' = wire \/ \E call \in Settlements : Send(d, [op |-> call, tag |-> t])
      BY <1>6, <2>3 DEF Handler, HandlerCall, HandlerReturn, HandlerThrow
    <2> QED
      BY <1>3, <2>2, <2>4
  <1>7. ASSUME NEW d \in Clients, Server(d) PROVE Goal
    <2>1. CASE PublishArrives(d)
      <3>1. d # c => wire'[c] = wire[c]
        BY <2>1 DEF PublishArrives, TypeOK
      <3> QED
        BY <2>1, <3>1
    <2>2. ASSUME NEW call \in Settlements, SettleArrives(d, call) PROVE Goal
      <3>1. CASE ChannelEnds(d, "failing")
        BY <1>1, <3>1
      <3>2. CASE SettleKnown(d, call)
        <4>1. wire' = [wire EXCEPT ![d] = Tail(@)]
          BY <3>2 DEF SettleKnown
        <4>2. wire[d] # <<>> /\ wire[d][1].op # "publish"
          BY <2>2, ArrivedFact DEF SettleArrives, Settlements, Calls
        <4>3. d # c => wire'[c] = wire[c]
          BY <4>1 DEF TypeOK
        <4>4. d = c => wire'[c] = Tail(wire[c])
          BY <4>1 DEF TypeOK
        <4> QED
          BY <4>2, <4>3, <4>4
      <3> QED
        BY <2>2, <3>1, <3>2 DEF SettleArrives
    <2>3. ASSUME NEW g \in Groups, NEW m \in Messages, Deliver(d, g, m) PROVE Goal
      BY <2>3 DEF Deliver
    <2> QED
      BY <1>7, <2>1, <2>2, <2>3 DEF Server
  <1>8. CASE ServerRestart
    <2>1. chan[c] = "open" => chan'[c] \in {"failing", "failed"}
      BY <1>8 DEF ServerRestart
    <2> QED
      BY <2>1 DEF OpenWire
  <1>9. ASSUME NEW d \in Clients, Connect(d) \/ CloseArrives(d) \/ HandlerStart(d)
        PROVE  Goal
    BY <1>9 DEF Connect, CloseArrives, HandlerStart
  <1>10. ASSUME NEW d \in Clients, ConnectionLost(d) \/ ParseFailure(d) PROVE Goal
    BY <1>1, <1>10 DEF ConnectionLost, ParseFailure
  <1>11. ASSUME NEW m \in Messages, ForeignPublish(m) PROVE Goal
    BY <1>11 DEF ForeignPublish
  <1>12. CASE UNCHANGED vars
    BY <1>12 DEF vars
  <1> QED
    BY <1>2, <1>4, <1>5, <1>6, <1>7, <1>8, <1>9, <1>10, <1>11, <1>12 DEF Next

(* A message leaves an open wire by reaching every bound queue or with the *)
(* channel.                                                                *)
LEMMA ArrivesOrFails ==
  ASSUME TypeOK, NEW c \in Clients, OpenWire(c), [Next]_vars, NEW m \in Messages,
         OnWire(c, m), ~OnWire(c, m)'
  PROVE  chan'[c] \in {"failing", "failed"} \/ \A g \in bound : copy'[g][m] = "ready"
  <1>1. PICK i \in 1..Len(wire[c]) : Carries(wire[c][i], m)
    BY DEF OnWire
  <1>2. \A j \in 1..Len(wire'[c]) : ~Carries(wire'[c][j], m)
    BY DEF OnWire
  <1>3. wire[c] \in Seq(Frames)
    BY DEF TypeOK
  <1>4. ASSUME wire'[c] = Tail(wire[c]), wire[c] # <<>>
        PROVE  i = 1
    <2>1. /\ Len(wire[c]) \in Nat /\ Len(wire'[c]) = Len(wire[c]) - 1
          /\ \A j \in 1..Len(wire'[c]) : wire'[c][j] = wire[c][j + 1]
      BY <1>3, <1>4, TailFact
    <2>2. i # 1 => i - 1 \in 1..Len(wire'[c]) /\ wire'[c][i - 1] = wire[c][i]
      BY <2>1
    <2> QED
      BY <1>1, <1>2, <2>2
  <1>5. CASE wire'[c] = wire[c]
    BY <1>1, <1>2, <1>5
  <1>6. CASE \E f \in Frames : wire'[c] = Append(wire[c], f)
    <2>1. i \in 1..Len(wire'[c]) /\ wire'[c][i] = wire[c][i]
      BY <1>3, <1>6, AppendFact
    <2> QED
      BY <1>1, <1>2, <2>1
  <1>7. CASE PublishArrives(c)
    <2>1. /\ wire'[c] = Tail(wire[c]) /\ wire[c] # <<>> /\ Head(wire[c]) = wire[c][1]
      BY <1>7, ArrivedFact DEF PublishArrives, TypeOK
    <2>2. Head(wire[c]).msg = m
      BY <1>1, <1>4, <2>1 DEF Carries
    <2>3. Route(m)
      BY <1>7, <2>2 DEF PublishArrives
    <2> QED
      BY <2>3 DEF Route, TypeOK
  <1>8. CASE wire'[c] = Tail(wire[c]) /\ wire[c] # <<>> /\ wire[c][1].op # "publish"
    BY <1>1, <1>4, <1>8 DEF Carries
  <1>9. CASE wire[c] = <<>>
    BY <1>1, <1>9
  <1> QED
    BY <1>5, <1>6, <1>7, <1>8, <1>9, WireStep

(* A message that publish has handed to the channel reaches the queue of every
   bound group unless the channel fails: close() waits for the frames before it
   (rabbitmq/src/index.ts:82-91, 136-139). *)
THEOREM ClosesCleanly == Spec => CloseLosesNothing
  <1>1. IInv /\ ChannelsOk /\ [Next]_vars
          => [\A c \in Clients, m \in Messages :
                OnWire(c, m) /\ ~OnWire(c, m)'
                  => chan'[c] \in {"failing", "failed"} \/ \A g \in bound : copy'[g][m] = "ready"]_vars
    BY ArrivesOrFails DEF IInv, ChannelsOk, ChannelOk
  <1> QED
    BY <1>1, ChannelsInvariant, PTL DEF Spec, CloseLosesNothing


-----------------------------------------------------------------------------
(* Joining before consuming *)

BoundFirst ==
  \A c \in Clients, g \in Groups : subs[c][g] \in {"consume", "consuming"} => g \in bound

(* When every subscribe ensures its topology, every step leaves a *)
(* consumer's queue bound.                                        *)
LEMMA BoundFirstNext ==
  ASSUME "unensured" \notin Environment, TypeOK, BoundFirst, [Next]_vars
  PROVE  BoundFirst'
  <1> USE DEF BoundFirst
  <1>1. ASSUME NEW c \in Clients, NEW how, ChannelEnds(c, how) PROVE BoundFirst'
    <2>1. /\ \A d \in Clients, g \in Groups : subs'[d][g] \in {subs[d][g], "idle", "stopped"}
          /\ bound' = bound
      BY <1>1 DEF ChannelEnds, Stop, TypeOK, topology
    <2> QED
      BY <2>1
  <1>2. CASE ServerRestart
    <2>1. /\ \A d \in Clients, g \in Groups : subs'[d][g] \in {"idle", "stopped"}
      BY <1>2 DEF ServerRestart, Stop
    <2> QED
      BY <2>1
  <1>3. ASSUME NEW c \in Clients, NEW g \in Groups, NEW from, NEW to,
               SubStep(c, g, from, to), bound \subseteq bound',
               to \in {"consume", "consuming"} => g \in bound'
        PROVE  BoundFirst'
    <2>1. \A d \in Clients, h \in Groups :
            subs'[d][h] = IF d = c /\ h = g THEN to ELSE subs[d][h]
      BY <1>3 DEF SubStep, TypeOK
    <2> QED
      BY <1>3, <2>1
  <1>4. ASSUME NEW c \in Clients, NEW g \in Groups, Subscribe(c, g) PROVE BoundFirst'
    <2>1. CASE \E ensure \in BOOLEAN : SubscribeCall(c, g, ensure)
      <3>1. SubStep(c, g, "idle", "exchange") /\ bound' = bound
        BY <2>1 DEF SubscribeCall, topology
      <3> QED
        BY <1>3, <3>1
    <2>2. CASE AssertExchange(c, g)
      BY <1>3, <2>2 DEF AssertExchange
    <2>3. CASE AssertQueue(c, g)
      BY <1>3, <2>3 DEF AssertQueue
    <2>4. CASE BindQueue(c, g)
      BY <1>3, <2>4 DEF BindQueue
    <2>5. CASE Consume(c, g)
      <3>1. CASE ChannelEnds(c, "failing")
        BY <1>1, <3>1
      <3>2. CASE SubStep(c, g, "consume", "consuming") /\ UNCHANGED topology
        <4>1. g \in bound /\ bound' = bound
          BY <2>5, <3>2 DEF Consume, topology
        <4> QED
          BY <1>3, <3>2, <4>1
      <3> QED
        BY <2>5, <3>1, <3>2 DEF Consume
    <2> QED
      BY <1>4, <2>1, <2>2, <2>3, <2>4, <2>5 DEF Subscribe
  <1>5. ASSUME subs' = subs, bound' = bound PROVE BoundFirst'
    BY <1>5
  <1>6. ASSUME NEW c \in Clients,
               \/ Connect(c) \/ CloseArrives(c) \/ HandlerStart(c)
               \/ \E m \in Messages : Publish(c, m)
               \/ \E t \in running[c] : Handler(c, t)
        PROVE  BoundFirst'
    <2>1. subs' = subs /\ bound' = bound
      BY <1>6 DEF Connect, CloseArrives, HandlerStart, Publish, PublishCall, PublishSend,
                  PublishDrained, PubStep, Handler, HandlerCall, HandlerReturn, HandlerThrow, HandlerEnds, topology
    <2> QED
      BY <1>5, <2>1
  <1>7. ASSUME NEW c \in Clients, Server(c) PROVE BoundFirst'
    <2>1. (subs' = subs /\ bound' = bound) \/ ChannelEnds(c, "failing")
      BY <1>7 DEF Server, PublishArrives, SettleArrives, SettleKnown, Deliver, topology
    <2> QED
      BY <1>1, <1>5, <2>1
  <1>8. ASSUME NEW c \in Clients, Close(c) \/ ConnectionLost(c) \/ ParseFailure(c)
        PROVE  BoundFirst'
    BY <1>1, <1>8 DEF Close, ConnectionLost, ParseFailure
  <1>9. ASSUME UNCHANGED vars \/ \E m \in Messages : ForeignPublish(m) PROVE BoundFirst'
    BY <1>5, <1>9 DEF vars, ForeignPublish, topology
  <1> QED
    BY <1>2, <1>4, <1>6, <1>7, <1>8, <1>9 DEF Next

(* Once subscribe(ensure) has resolved, the group's queue is bound, as long as no
   broker subscribes without ensure (rabbitmq/src/index.ts:102-113). *)
THEOREM JoinsFirst ==
  ASSUME "unensured" \notin Environment
  PROVE  Spec => []ConsumingIsBound
  <1>1. Init => BoundFirst
    BY DEF Init, BoundFirst
  <1>2. TypeOK /\ BoundFirst /\ [Next]_vars => BoundFirst'
    BY BoundFirstNext
  <1>3. BoundFirst => ConsumingIsBound
    BY DEF BoundFirst, ConsumingIsBound
  <1> QED
    BY <1>1, <1>2, <1>3, TypeCorrect, PTL DEF Spec


-----------------------------------------------------------------------------
(* The contract *)

StageAt(g, m) ==
  IF copy[g][m] = "none" THEN "absent"
  ELSE IF copy[g][m] \in {"ready", "unacked"} THEN "pending"
  ELSE copy[g][m]

HeldAt(g, m) == {c \in Clients : <<g, m>> \in HeldBy(c)}

Stage == [g \in Groups |-> [m \in Messages |-> StageAt(g, m)]]

HeldTable == [g \in Groups |-> [m \in Messages |-> HeldAt(g, m)]]

(* The states and steps of the contract, in terms of the two tables. *)
LEMMA ContractInit ==
  Delivery!Init <=>
    /\ bound = {}
    /\ Stage = [g \in Groups |-> [m \in Messages |-> "absent"]]
    /\ HeldTable = [g \in Groups |-> [m \in Messages |-> {}]]
  BY DEF Delivery!Init, Stage, StageAt, HeldTable, HeldAt

(* The abstract contract stutters exactly when its three variables stay. *)
LEMMA ContractStutter ==
  UNCHANGED Delivery!vars <=> bound' = bound /\ Stage' = Stage /\ HeldTable' = HeldTable
  BY DEF Delivery!vars, Stage, StageAt, HeldTable, HeldAt

(* The abstract Join, in terms of the mapped variables. *)
LEMMA ContractJoin ==
  ASSUME NEW g
  PROVE  Delivery!Join(g) <=>
           /\ bound' = bound \cup {g} /\ Stage' = Stage /\ HeldTable' = HeldTable
  BY DEF Delivery!Join, Stage, StageAt, HeldTable, HeldAt

(* The abstract Publish, in terms of the mapped variables. *)
LEMMA ContractPublish ==
  ASSUME NEW m
  PROVE  Delivery!Publish(m) <=>
           /\ \A g \in Groups : Stage[g][m] = "absent"
           /\ Stage' = [g \in Groups |->
                          [Stage[g] EXCEPT ![m] = IF g \in bound THEN "pending" ELSE @]]
           /\ bound' = bound /\ HeldTable' = HeldTable
  BY DEF Delivery!Publish, Stage, StageAt, HeldTable, HeldAt

(* The abstract Deliver, in terms of the mapped variables. *)
LEMMA ContractDeliver ==
  ASSUME NEW c, NEW g, NEW m
  PROVE  Delivery!Deliver(c, g, m) <=>
           /\ Stage[g][m] = "pending" /\ HeldTable[g][m] = {}
           /\ HeldTable' = [HeldTable EXCEPT ![g][m] = {c}]
           /\ bound' = bound /\ Stage' = Stage
  BY DEF Delivery!Deliver, Stage, StageAt, HeldTable, HeldAt

(* The abstract Settle, in terms of the mapped variables. *)
LEMMA ContractSettle ==
  ASSUME NEW c, NEW g, NEW m, NEW how
  PROVE  Delivery!Settle(c, g, m, how) <=>
           /\ c \in HeldTable[g][m]
           /\ Stage' = [Stage EXCEPT ![g][m] = how]
           /\ HeldTable' = [HeldTable EXCEPT ![g][m] = {}]
           /\ bound' = bound
  BY DEF Delivery!Settle, Stage, StageAt, HeldTable, HeldAt

(* The abstract GiveUp, in terms of the mapped variables. *)
LEMMA ContractGiveUp ==
  ASSUME NEW c, NEW copies
  PROVE  Delivery!GiveUp(c, copies) <=>
           /\ \A p \in copies : c \in HeldTable[p[1]][p[2]]
           /\ HeldTable' = [g \in Groups |-> [m \in Messages |->
                              IF <<g, m>> \in copies THEN {} ELSE HeldTable[g][m]]]
           /\ bound' = bound /\ Stage' = Stage
  BY DEF Delivery!GiveUp, Stage, StageAt, HeldTable, HeldAt

(* The tables, entry by entry. *)
LEMMA Tables ==
  ASSUME NEW g \in Groups, NEW m \in Messages
  PROVE  /\ Stage[g][m] = StageAt(g, m) /\ Stage'[g][m] = StageAt(g, m)'
         /\ HeldTable[g][m] = HeldAt(g, m) /\ HeldTable'[g][m] = HeldAt(g, m)'
  BY DEF Stage, HeldTable

(* Tables whose entries are all unchanged are unchanged. *)
LEMMA SameTables ==
  /\ (\A g \in Groups, m \in Messages : StageAt(g, m)' = StageAt(g, m)) => Stage' = Stage
  /\ (\A g \in Groups, m \in Messages : HeldAt(g, m)' = HeldAt(g, m))
       => HeldTable' = HeldTable
  BY DEF Stage, HeldTable

(* A table of stages that differs in one entry is the EXCEPT of that entry. *)
LEMMA OneStage ==
  ASSUME NEW g \in Groups, NEW m \in Messages, NEW e,
         \A h \in Groups, k \in Messages :
           StageAt(h, k)' = IF h = g /\ k = m THEN e ELSE StageAt(h, k)
  PROVE  Stage' = [Stage EXCEPT ![g][m] = e]
  BY DEF Stage

(* A table of holders that differs in one entry is the EXCEPT of that *)
(* entry.                                                             *)
LEMMA OneHeld ==
  ASSUME NEW g \in Groups, NEW m \in Messages, NEW e,
         \A h \in Groups, k \in Messages :
           HeldAt(h, k)' = IF h = g /\ k = m THEN e ELSE HeldAt(h, k)
  PROVE  HeldTable' = [HeldTable EXCEPT ![g][m] = e]
  BY DEF HeldTable

(* A routed message is one nobody had: what its groups hold does not change. *)
LEMMA RouteImplements ==
  ASSUME TypeOK, NEW m \in Messages, Route(m), \A g \in Groups : copy[g][m] = "none",
         UNCHANGED <<bound, deliveries, unacked>>
  PROVE  Delivery!Publish(m)
  <1>1. \A g \in Groups, k \in Messages :
          StageAt(g, k)' = IF k = m /\ g \in bound THEN "pending" ELSE StageAt(g, k)
    BY DEF Route, TypeOK, StageAt
  <1>2. \A g \in Groups : Stage[g][m] = "absent"
    BY Tables DEF StageAt
  <1>3. Stage' = [g \in Groups |->
                    [Stage[g] EXCEPT ![m] = IF g \in bound THEN "pending" ELSE @]]
    BY <1>1 DEF Stage
  <1>4. HeldTable' = HeldTable
    BY DEF HeldTable, HeldAt, HeldBy
  <1> QED
    BY <1>2, <1>3, <1>4, ContractPublish

(* What a channel holds is in the queue of its group, unacknowledged, and no
   other channel holds it. *)
LEMMA HeldAlone ==
  ASSUME TypeOK, HeldOnce, NEW c \in Clients, NEW p \in HeldBy(c)
  PROVE  /\ p \in Groups \X Messages /\ p = <<p[1], p[2]>>
         /\ copy[p[1]][p[2]] = "unacked"
         /\ \A d \in Clients : p \in HeldBy(d) => d = c
  <1>1. PICK t \in unacked[c] : p = deliveries[c][t]
    BY DEF HeldBy
  <1>2. p[1] \in Groups /\ p[2] \in Messages /\ p = <<p[1], p[2]>>
    BY <1>1, HeldFact
  <1>3. copy[p[1]][p[2]] = "unacked"
    BY <1>1 DEF HeldOnce, HeldIsUnacked
  <1>4. \A d \in Clients : p \in HeldBy(d) => d = c
    BY <1>1 DEF HeldOnce, HeldByOne, HeldBy
  <1> QED
    BY <1>2, <1>3, <1>4

(* A channel ends: its consumers give up what they hold. *)
LEMMA EndsImplements ==
  ASSUME TypeOK, HeldOnce, NEW c \in Clients, NEW how, ChannelEnds(c, how)
  PROVE  Delivery!GiveUp(c, HeldBy(c)) /\ HeldBy(c) \in SUBSET (Groups \X Messages)
  <1>1. /\ bound' = bound /\ HeldBy(c)' = {}
        /\ \A d \in Clients \ {c} : HeldBy(d)' = HeldBy(d)
    BY DEF ChannelEnds, TypeOK, HeldBy, topology
  <1>2. \A g \in Groups, m \in Messages : StageAt(g, m)' = StageAt(g, m)
    <2>1. ASSUME NEW g \in Groups, NEW m \in Messages
          PROVE  StageAt(g, m)' = StageAt(g, m)
      <3>1. copy'[g][m] = IF <<g, m>> \in HeldBy(c) THEN "ready" ELSE copy[g][m]
        BY DEF ChannelEnds
      <3>2. <<g, m>> \in HeldBy(c) => copy[g][m] = "unacked"
        BY HeldAlone
      <3> QED
        BY <3>1, <3>2 DEF StageAt
    <2> QED
      BY <2>1
  <1>3. \A p \in HeldBy(c) : p \in Groups \X Messages /\ c \in HeldTable[p[1]][p[2]]
    BY HeldAlone, Tables DEF HeldAt
  <1>4. \A g \in Groups, m \in Messages :
          HeldAt(g, m)' = IF <<g, m>> \in HeldBy(c) THEN {} ELSE HeldAt(g, m)
    <2>1. ASSUME NEW g \in Groups, NEW m \in Messages, <<g, m>> \in HeldBy(c)
          PROVE  HeldAt(g, m)' = {}
      BY <1>1, <2>1, HeldAlone DEF HeldAt
    <2>2. ASSUME NEW g \in Groups, NEW m \in Messages, <<g, m>> \notin HeldBy(c)
          PROVE  HeldAt(g, m)' = HeldAt(g, m)
      BY <1>1, <2>2 DEF HeldAt
    <2> QED
      BY <2>1, <2>2
  <1>5. HeldTable' = [g \in Groups |-> [m \in Messages |->
                       IF <<g, m>> \in HeldBy(c) THEN {} ELSE HeldTable[g][m]]]
    BY <1>4 DEF HeldTable
  <1>6. Stage' = Stage
    BY <1>2, SameTables
  <1> QED
    BY <1>1, <1>3, <1>5, <1>6, ContractGiveUp

(* The server hands a copy out: its group takes it. *)
LEMMA DeliverImplements ==
  ASSUME TypeOK, HeldOnce, NEW c \in Clients, NEW g \in Groups, NEW m \in Messages,
         Deliver(c, g, m)
  PROVE  Delivery!Deliver(c, g, m)
  <1> PICK n : n = Len(deliveries[c]) + 1
    OBVIOUS
  <1>1. /\ bound' = bound /\ copy[g][m] = "ready"
        /\ copy' = [copy EXCEPT ![g][m] = "unacked"]
        /\ unacked'[c] = unacked[c] \cup {n}
        /\ \A d \in Clients \ {c} : unacked'[d] = unacked[d]
    BY DEF Deliver, TypeOK, topology
  <1>2. /\ deliveries'[c][n] = <<g, m>>
        /\ \A d \in Clients : \A s \in unacked[d] : deliveries'[d][s] = deliveries[d][s]
    BY DeliverFact, HeldFact
  <1>3. /\ HeldBy(c)' = HeldBy(c) \cup {<<g, m>>}
        /\ \A d \in Clients \ {c} : HeldBy(d)' = HeldBy(d)
    <2>1. HeldBy(c)' = {deliveries'[c][s] : s \in unacked[c]} \cup {deliveries'[c][n]}
      BY <1>1 DEF HeldBy
    <2>2. {deliveries'[c][s] : s \in unacked[c]} = HeldBy(c)
      BY <1>2 DEF HeldBy
    <2>3. ASSUME NEW d \in Clients \ {c} PROVE HeldBy(d)' = HeldBy(d)
      BY <1>1, <1>2 DEF HeldBy
    <2> QED
      BY <1>2, <2>1, <2>2, <2>3
  <1>4. HeldAt(g, m) = {}
    BY <1>1, HeldAlone DEF HeldAt
  <1>5. \A h \in Groups, k \in Messages :
          HeldAt(h, k)' = IF h = g /\ k = m THEN {c} ELSE HeldAt(h, k)
    <2>1. HeldAt(g, m)' = {c}
      BY <1>3, <1>4 DEF HeldAt
    <2>2. ASSUME NEW h \in Groups, NEW k \in Messages, ~(h = g /\ k = m)
          PROVE  HeldAt(h, k)' = HeldAt(h, k)
      <3>1. <<h, k>> # <<g, m>>
        BY <2>2
      <3> QED
        BY <1>3, <3>1 DEF HeldAt
    <2> QED
      BY <2>1, <2>2
  <1>6. \A h \in Groups, k \in Messages : StageAt(h, k)' = StageAt(h, k)
    BY <1>1 DEF StageAt, TypeOK
  <1>7. HeldTable' = [HeldTable EXCEPT ![g][m] = {c}]
    BY <1>5, OneHeld
  <1>8. Stage' = Stage
    BY <1>6, SameTables
  <1>9. Stage[g][m] = "pending" /\ HeldTable[g][m] = {}
    BY <1>1, <1>4, Tables DEF StageAt
  <1> QED
    BY <1>1, <1>7, <1>8, <1>9, ContractDeliver

(* A copy that is settled, with nothing else changed, is the abstract *)
(* Settle.                                                            *)
LEMMA SettledEntry ==
  ASSUME NEW c, NEW g \in Groups, NEW m \in Messages, NEW how,
         bound' = bound, c \in HeldTable[g][m],
         StageAt(g, m)' = how, HeldAt(g, m)' = {},
         \A h \in Groups, k \in Messages :
           (h = g /\ k = m) \/ StageAt(h, k)' = StageAt(h, k),
         \A h \in Groups, k \in Messages :
           (h = g /\ k = m) \/ HeldAt(h, k)' = HeldAt(h, k)
  PROVE  Delivery!Settle(c, g, m, how)
  <1>1. Stage' = [Stage EXCEPT ![g][m] = how]
    BY DEF Stage
  <1>2. HeldTable' = [HeldTable EXCEPT ![g][m] = {}]
    BY DEF HeldTable
  <1> QED
    BY <1>1, <1>2, ContractSettle

(* A settlement reaches the server: the holder settles its copy or gives it up. *)
LEMMA SettleImplements ==
  ASSUME TypeOK, HeldOnce, NEW c \in Clients, NEW call \in Settlements,
         SettleKnown(c, call)
  PROVE  \E g \in Groups, m \in Messages :
           \/ \E how \in {"acked", "discarded"} : Delivery!Settle(c, g, m, how)
           \/ Delivery!GiveUp(c, {<<g, m>>})
  <1> PICK t : t = Head(wire[c]).tag
    OBVIOUS
  <1> PICK p : p = deliveries[c][t]
    OBVIOUS
  <1>1. /\ t \in unacked[c] /\ bound' = bound /\ deliveries' = deliveries
        /\ unacked' = [unacked EXCEPT ![c] = @ \ {t}]
        /\ copy' = [copy EXCEPT ![p[1]][p[2]] = Final[call]]
    BY DEF SettleKnown, topology
  <1>2. p \in HeldBy(c)
    BY <1>1 DEF HeldBy
  <1> PICK g \in Groups, m \in Messages : g = p[1] /\ m = p[2]
    BY <1>2, HeldAlone
  <1>3. /\ p = <<g, m>> /\ copy[g][m] = "unacked"
        /\ \A d \in Clients : p \in HeldBy(d) => d = c
    BY <1>2, HeldAlone
  <1>4. HeldBy(c)' = HeldBy(c) \ {p}
    <2>1. ASSUME NEW s \in unacked[c], deliveries[c][s] = p PROVE s = t
      <3>1. deliveries[c][s] = deliveries[c][t]
        BY <2>1
      <3> QED
        BY <1>1, <3>1 DEF HeldOnce, HeldByOne
    <2>2. unacked'[c] = unacked[c] \ {t}
      BY <1>1 DEF TypeOK
    <2> QED
      BY <1>1, <2>1, <2>2 DEF HeldBy
  <1>5. \A d \in Clients \ {c} : HeldBy(d)' = HeldBy(d)
    BY <1>1 DEF HeldBy, TypeOK
  <1>6. HeldAt(g, m)' = {} /\ HeldAt(g, m) = {c}
    BY <1>2, <1>3, <1>4, <1>5 DEF HeldAt
  <1>7. ASSUME NEW h \in Groups, NEW k \in Messages, ~(h = g /\ k = m)
        PROVE  HeldAt(h, k)' = HeldAt(h, k)
    <2>1. <<h, k>> # p
      BY <1>3, <1>7
    <2> QED
      BY <1>4, <1>5, <2>1 DEF HeldAt
  <1>8. \A h \in Groups, k \in Messages :
          copy'[h][k] = IF h = g /\ k = m THEN Final[call] ELSE copy[h][k]
    BY <1>1 DEF TypeOK
  <1>9. c \in HeldTable[g][m]
    BY <1>6, Tables
  <1>10. CASE call = "requeue"
    <2>1. Stage' = Stage
      <3>1. Final[call] = "ready"
        BY <1>10 DEF Final
      <3> QED
        BY <1>3, <1>8, <3>1, SameTables DEF StageAt
    <2>2. \A h \in Groups, k \in Messages :
            HeldAt(h, k)' = IF <<h, k>> \in {<<g, m>>} THEN {} ELSE HeldAt(h, k)
      BY <1>6, <1>7
    <2>3. HeldTable' = [h \in Groups |-> [k \in Messages |->
                         IF <<h, k>> \in {<<g, m>>} THEN {} ELSE HeldTable[h][k]]]
      BY <2>2 DEF HeldTable
    <2>4. \A q \in {<<g, m>>} : c \in HeldTable[q[1]][q[2]]
      BY <1>9
    <2>5. Delivery!GiveUp(c, {<<g, m>>})
      BY <1>1, <2>1, <2>3, <2>4, ContractGiveUp
    <2> QED
      BY <2>5
  <1>11. CASE call \in {"ack", "discard"}
    <2> PICK how : how = Final[call]
      OBVIOUS
    <2>1. how \in {"acked", "discarded"}
      BY <1>11 DEF Final
    <2>2. StageAt(g, m)' = how
      BY <1>8, <2>1 DEF StageAt
    <2>3. \A h \in Groups, k \in Messages :
            (h = g /\ k = m) \/ StageAt(h, k)' = StageAt(h, k)
      BY <1>8 DEF StageAt
    <2>4. HeldAt(g, m)' = {}
      BY <1>6
    <2>5. \A h \in Groups, k \in Messages :
            (h = g /\ k = m) \/ HeldAt(h, k)' = HeldAt(h, k)
      BY <1>7
    <2>6. Delivery!Settle(c, g, m, how)
      BY <1>1, <1>9, <2>2, <2>3, <2>4, <2>5, SettledEntry
    <2> QED
      BY <2>1, <2>6
  <1> QED
    BY <1>10, <1>11 DEF Settlements, Calls


(* A step that touches no copy binds a queue, which is a group joining, or is
   none of the contract's business. *)
LEMMA BoundCases ==
  ASSUME [Next]_vars
  PROVE  bound' = bound \/ \E c \in Clients, g \in Groups : BindQueue(c, g)
  <1>1. ASSUME NEW c \in Clients, NEW g \in Groups, Subscribe(c, g)
        PROVE  bound' = bound \/ BindQueue(c, g)
    BY <1>1 DEF Subscribe, SubscribeCall, AssertExchange, AssertQueue, Consume, ChannelEnds,
                topology
  <1>2. ASSUME NEW c \in Clients,
               \/ Connect(c) \/ Close(c) \/ ConnectionLost(c) \/ CloseArrives(c) \/ ParseFailure(c)
               \/ HandlerStart(c) \/ \E m \in Messages : Publish(c, m)
        PROVE  bound' = bound
    BY <1>2 DEF Connect, Close, ConnectionLost, CloseArrives, ParseFailure, ChannelEnds, HandlerStart,
                Publish, PublishCall, PublishSend, PublishDrained, topology
  <1>3. ASSUME NEW c \in Clients, Server(c) \/ \E t \in running[c] : Handler(c, t)
        PROVE  bound' = bound
    BY <1>3 DEF Server, PublishArrives, SettleArrives, SettleKnown, ChannelEnds, Deliver,
                Handler, HandlerCall, HandlerReturn, HandlerThrow, HandlerEnds, topology
  <1> QED
    BY <1>1, <1>2, <1>3 DEF Next, vars, ForeignPublish, ServerRestart, topology

(* The initial state maps to an initial state of the contract. *)
LEMMA InitImplements == Init => Delivery!Init
  <1> SUFFICES ASSUME Init PROVE Delivery!Init
    OBVIOUS
  <1>1. Stage = [g \in Groups |-> [m \in Messages |-> "absent"]]
    BY DEF Init, Stage, StageAt
  <1>2. HeldTable = [g \in Groups |-> [m \in Messages |-> {}]]
    BY DEF Init, HeldTable, HeldAt, HeldBy
  <1> QED
    BY <1>1, <1>2, ContractInit DEF Init

(* Every step maps to a step of the contract or to a stutter. *)
LEMMA NextImplements ==
  ASSUME "restart" \notin Environment, IInv, [Next]_vars
  PROVE  [Delivery!Next]_(Delivery!vars)
  <1> USE DEF IInv
  <1>1. CASE Quiet
    <2>1. Stage' = Stage /\ HeldTable' = HeldTable
      BY <1>1 DEF Quiet, Stage, StageAt, HeldTable, HeldAt, HeldBy
    <2>2. CASE bound' = bound
      BY <2>1, <2>2, ContractStutter
    <2>3. ASSUME NEW c \in Clients, NEW g \in Groups, BindQueue(c, g)
          PROVE  Delivery!Join(g)
      BY <2>1, <2>3, ContractJoin DEF BindQueue
    <2> QED
      BY <2>2, <2>3, BoundCases DEF Delivery!Next
  <1>2. ASSUME NEW c \in Clients, NEW how \in {"closed", "failing", "failed"}, ChannelEnds(c, how)
        PROVE  Delivery!Next
    BY <1>2, EndsImplements DEF Delivery!Next
  <1>3. ASSUME NEW c \in Clients, PublishArrives(c)
        PROVE  Delivery!Next
    <2>1. PICK m \in Messages : m = Head(wire[c]).msg
      BY <1>3, FrameFresh DEF PublishArrives
    <2>2. /\ Route(m) /\ \A g \in Groups : copy[g][m] = "none"
          /\ UNCHANGED <<bound, deliveries, unacked>>
      BY <1>3, <2>1, FrameFresh DEF PublishArrives, topology
    <2>3. Delivery!Publish(m)
      BY <2>2, RouteImplements
    <2> QED
      BY <2>3 DEF Delivery!Next
  <1>4. ASSUME NEW c \in Clients, NEW call \in Settlements, SettleKnown(c, call)
        PROVE  Delivery!Next
    <2>1. PICK g \in Groups, m \in Messages :
            \/ \E how \in {"acked", "discarded"} : Delivery!Settle(c, g, m, how)
            \/ Delivery!GiveUp(c, {<<g, m>>})
      BY <1>4, SettleImplements
    <2>2. PICK one : one = {<<g, m>>}
      OBVIOUS
    <2>3. one \in SUBSET (Groups \X Messages)
      BY <2>2
    <2> QED
      BY <2>1, <2>2, <2>3 DEF Delivery!Next
  <1>5. ASSUME NEW c \in Clients, NEW g \in Groups, NEW m \in Messages, Deliver(c, g, m)
        PROVE  Delivery!Next
    BY <1>5, DeliverImplements DEF Delivery!Next
  <1>6. ASSUME NEW m \in Messages, ForeignPublish(m)
        PROVE  Delivery!Next
    <2>1. /\ Route(m) /\ \A g \in Groups : copy[g][m] = "none"
          /\ UNCHANGED <<bound, deliveries, unacked>>
      BY <1>6 DEF ForeignPublish, topology
    <2> QED
      BY <2>1, RouteImplements DEF Delivery!Next
  <1>7. ~ServerRestart
    BY DEF ServerRestart
  <1> QED
    BY <1>1, <1>2, <1>3, <1>4, <1>5, <1>6, <1>7, StepCases

(* The RabbitMQ adapter implements the contract of GroupDelivery.tla: whatever
   handlers do and channels suffer, every step of its brokers and their server is
   one of the contract's steps or none of its business. A server that restarts is
   excluded: publish asks for no persistence, and the server forgets its messages
   (rabbitmq/src/index.ts:82-91, 113-131). *)
THEOREM ImplementsContract ==
  ASSUME "restart" \notin Environment
  PROVE  Spec => ImplementsGroupDelivery
  <1>1. IInv /\ [Next]_vars => [Delivery!Next]_(Delivery!vars)
    BY NextImplements
  <1> QED
    BY <1>1, InitImplements, Invariant, PTL DEF Spec, ImplementsGroupDelivery, Delivery!Spec
=============================================================================
