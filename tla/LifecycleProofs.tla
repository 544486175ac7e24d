--------------------------- MODULE LifecycleProofs ---------------------------
(***************************************************************************)
(* What Lifecycle.tla's model of the registry and of a broker's life       *)
(* guarantees for every number of providers, factories, calls and          *)
(* connections, and every environment.                                     *)
(***************************************************************************)
EXTENDS Lifecycle, TLAPS

Typed ==
  /\ registry \in [Providers -> Factories \cup {NoFactory}]
  /\ refused \subseteq Providers \X Factories
  /\ create \in [Creates -> {"idle", "init", "resolved", "rejected"}]
  /\ made \in [Creates -> Factories \cup {NoFactory}]
  /\ init \in [Creates -> {"none", "connection", "channel", "prefetch"}]
  /\ close \in [Creates -> {"none", "channel", "connection", "done", "thrown"}]
  /\ closing \in [Creates -> [channel : Nat, connection : Nat]]
  /\ overlapped \subseteq Creates
  /\ opened \in [Creates -> 0..MaxConns]
  /\ conn \in [Creates -> Nat] /\ channel \in [Creates -> Nat]
  /\ live \in [Creates -> SUBSET Nat] /\ usable \in [Creates -> SUBSET Nat]

(* The broker of one call of create: the connection it holds is the last one it has
   opened, which has no channel until init has got one. *)
Broker(k) ==
  /\ conn[k] = opened[k] /\ channel[k] <= conn[k]
  /\ usable[k] \subseteq live[k] /\ live[k] \subseteq 1..opened[k]
  /\ create[k] = "init" => init[k] # "none" /\ made[k] # NoFactory
  /\ create[k] = "resolved" => channel[k] # 0 /\ made[k] # NoFactory
  /\ init[k] = "prefetch" => channel[k] = conn[k]
  /\ init[k] = "channel" => channel[k] < conn[k]
  /\ close[k] # "none" => create[k] = "resolved"

(* Its close: what it has asked to close is older than anything init opens from then
   on, and is all the broker has unless the two overlap. *)
Closing(k) ==
  /\ closing[k].channel <= channel[k] /\ closing[k].connection <= conn[k]
  /\ close[k] \in {"connection", "done"} => closing[k].channel \notin usable[k]
  /\ close[k] = "done" => closing[k].connection \notin live[k]
  /\ close[k] # "none" /\ k \notin overlapped =>
       init[k] = "none" /\ closing[k].channel = channel[k]
  /\ close[k] \in {"connection", "done"} /\ k \notin overlapped =>
       closing[k].connection = conn[k]

Inv == Typed /\ \A k \in Creates : Broker(k) /\ Closing(k)

(* The inductive invariant holds in the initial state. *)
LEMMA InitInv == Init => Inv
  <1> SUFFICES ASSUME Init PROVE Inv
    OBVIOUS
  <1>1. Typed
    <2>1. MaxConns \in Nat
      BY LifecycleAssumption
    <2>2. 0 \in 0..MaxConns
      BY <2>1
    <2> QED
      BY <2>2 DEF Init, Typed
  <1>2. ASSUME NEW k \in Creates
        PROVE  Broker(k) /\ Closing(k)
    <2>1. /\ closing[k].channel = 0 /\ closing[k].connection = 0
          /\ conn[k] = 0 /\ opened[k] = 0 /\ channel[k] = 0 /\ live[k] = {} /\ usable[k] = {}
          /\ create[k] = "idle" /\ init[k] = "none" /\ close[k] = "none"
      BY <1>2 DEF Init
    <2> QED
      BY <2>1 DEF Broker, Closing
  <1> QED
    BY <1>1, <1>2 DEF Inv

(* The inductive invariant contains the types the runs check. *)
LEMMA InvTypeOK == Inv => TypeOK
  <1> SUFFICES ASSUME Inv PROVE TypeOK
    OBVIOUS
  <1>1. ASSUME NEW k \in Creates
        PROVE  /\ closing[k] \in [channel : 0..MaxConns, connection : 0..MaxConns]
               /\ conn[k] \in 0..opened[k] /\ channel[k] \in 0..conn[k]
               /\ usable[k] \subseteq live[k] /\ live[k] \subseteq 1..opened[k]
               /\ create[k] = "init" => init[k] # "none"
               /\ create[k] = "resolved" => channel[k] # 0 /\ made[k] # NoFactory
    <2>1. /\ Broker(k) /\ Closing(k) /\ conn[k] \in Nat /\ channel[k] \in Nat
          /\ opened[k] \in 0..MaxConns /\ closing[k] \in [channel : Nat, connection : Nat]
          /\ MaxConns \in Nat
      BY LifecycleAssumption DEF Inv, Typed
    <2>2. closing[k].channel \in 0..MaxConns /\ closing[k].connection \in 0..MaxConns
      BY <2>1 DEF Broker, Closing
    <2> QED
      BY <2>1, <2>2 DEF Broker
  <1>2. closing \in [Creates -> [channel : 0..MaxConns, connection : 0..MaxConns]]
    BY <1>1 DEF Inv, Typed
  <1> QED
    BY <1>1, <1>2 DEF Inv, Typed, TypeOK

(* A step of one broker. *)
LEMMA OneBroker ==
  ASSUME Inv, Typed', NEW k \in Creates, Broker(k)', Closing(k)',
         \A d \in Creates \ {k} :
           /\ create'[d] = create[d] /\ made'[d] = made[d] /\ init'[d] = init[d]
           /\ conn'[d] = conn[d] /\ channel'[d] = channel[d] /\ opened'[d] = opened[d]
           /\ live'[d] = live[d] /\ usable'[d] = usable[d] /\ close'[d] = close[d]
           /\ closing'[d] = closing[d] /\ (d \in overlapped' <=> d \in overlapped)
  PROVE  Inv'
  <1>1. ASSUME NEW d \in Creates \ {k}
        PROVE  Broker(d)' /\ Closing(d)'
    BY <1>1 DEF Inv, Broker, Closing
  <1> QED
    BY <1>1 DEF Inv

(* create, up to the init call it starts, keeps the invariant. *)
LEMMA CreateInv ==
  ASSUME Inv, NEW k \in Creates, NEW p \in Providers, Create(k, p)
  PROVE  Inv'
  <1> USE DEF Create, table, object, teardown, resources
  <1>1. Typed'
    BY DEF Inv, Typed
  <1>2. Broker(k)' /\ Closing(k)'
    <2>1. Broker(k) /\ Closing(k) /\ create[k] = "idle"
      BY DEF Inv
    <2>2. \/ create'[k] = "init" /\ made'[k] # NoFactory /\ init'[k] = "connection"
          \/ create'[k] = "rejected" /\ init'[k] = init[k]
      BY DEF Inv, Typed
    <2> QED
      BY <2>1, <2>2 DEF Broker, Closing
  <1> QED
    BY <1>1, <1>2, OneBroker DEF Inv, Typed

(* The answer to connect keeps the invariant. *)
LEMMA ConnectedInv ==
  ASSUME Inv, NEW k \in Creates, Connected(k)
  PROVE  Inv'
  <1> USE DEF Connected, InitStep, table, teardown
  <1>0. /\ opened[k] \in Nat /\ opened[k] < MaxConns /\ MaxConns \in Nat
        /\ channel[k] \in Nat /\ conn[k] \in Nat
    <2>1. MaxConns \in Nat
      BY LifecycleAssumption
    <2>2. opened[k] \in 0..MaxConns /\ channel[k] \in Nat /\ conn[k] \in Nat
      BY DEF Inv, Typed
    <2> QED
      BY <2>1, <2>2
  <1>1. Typed'
    <2>1. opened[k] + 1 \in 0..MaxConns /\ opened[k] + 1 \in Nat
      BY <1>0
    <2> QED
      BY <2>1 DEF Inv, Typed
  <1>2. Broker(k)' /\ Closing(k)'
    <2>1. /\ Broker(k) /\ Closing(k)
          /\ closing[k].channel \in Nat /\ closing[k].connection \in Nat
      BY DEF Inv, Typed
    <2>2. /\ conn'[k] = opened[k] + 1 /\ opened'[k] = opened[k] + 1
          /\ live'[k] = live[k] \cup {opened[k] + 1}
          /\ init[k] = "connection" /\ init'[k] = "channel"
      BY DEF Inv, Typed
    <2> QED
      BY <1>0, <2>1, <2>2 DEF Broker, Closing
  <1> QED
    BY <1>1, <1>2, OneBroker DEF Inv, Typed

(* The answer to createChannel keeps the invariant. *)
LEMMA ChannelCreatedInv ==
  ASSUME Inv, NEW k \in Creates, ChannelCreated(k)
  PROVE  Inv'
  <1> USE DEF ChannelCreated, InitStep, table, teardown
  <1>1. Typed'
    BY DEF Inv, Typed
  <1>2. Broker(k)' /\ Closing(k)'
    <2>1. /\ Broker(k) /\ Closing(k) /\ conn[k] \in Nat /\ channel[k] \in Nat
          /\ closing[k].channel \in Nat /\ closing[k].connection \in Nat
      BY DEF Inv, Typed
    <2>2. /\ usable'[k] = usable[k] \cup {conn[k]} /\ channel'[k] = conn[k]
          /\ init[k] = "channel" /\ init'[k] = "prefetch" /\ conn[k] \in live[k]
      BY DEF Inv, Typed
    <2>3. conn[k] # 0
      BY <2>1, <2>2 DEF Broker, Closing
    <2> QED
      BY <2>1, <2>2, <2>3 DEF Broker, Closing
  <1> QED
    BY <1>1, <1>2, OneBroker DEF Inv, Typed

(* The end of init, by prefetch or by a failure, keeps the invariant. *)
LEMMA InitEndsInv ==
  ASSUME Inv, NEW k \in Creates, PrefetchSet(k) \/ InitFails(k)
  PROVE  Inv'
  <1> USE DEF PrefetchSet, InitFails, InitStep, InitEnds, table, object, teardown, resources
  <1>1. Typed'
    BY DEF Inv, Typed
  <1>2. Broker(k)' /\ Closing(k)'
    <2>1. Broker(k) /\ Closing(k) /\ channel[k] \in Nat
      BY DEF Inv, Typed
    <2>2. init[k] # "none" /\ init'[k] = "none"
      BY DEF Inv, Typed
    <2>3. CASE create[k] = "init" /\ PrefetchSet(k)
      <3>1. create'[k] = "resolved" /\ channel[k] # 0
        <4>1. channel[k] \in 1..opened[k]
          BY <2>1, <2>3 DEF Broker, Closing
        <4>2. opened[k] \in Nat
          BY DEF Inv, Typed
        <4> QED
          BY <2>3, <4>1, <4>2 DEF Inv, Typed
      <3> QED
        BY <2>1, <2>2, <2>3, <3>1 DEF Broker, Closing
    <2>4. CASE create[k] = "init" /\ InitFails(k)
      <3>1. create'[k] = "rejected"
        BY <2>4 DEF Inv, Typed
      <3> QED
        BY <2>1, <2>2, <2>4, <3>1 DEF Broker, Closing
    <2>5. CASE create[k] # "init"
      <3>1. create'[k] = create[k]
        BY <2>5 DEF Inv, Typed
      <3> QED
        BY <2>1, <2>2, <2>5, <3>1 DEF Broker, Closing
    <2> QED
      BY <2>3, <2>4, <2>5
  <1> QED
    BY <1>1, <1>2, OneBroker DEF Inv, Typed

(* A second init on the same broker keeps the invariant. *)
LEMMA InitAgainInv ==
  ASSUME Inv, NEW k \in Creates, InitAgain(k)
  PROVE  Inv'
  <1> USE DEF InitAgain, InitStep, table, object, teardown, resources
  <1>1. Typed'
    BY DEF Inv, Typed
  <1>2. Broker(k)' /\ Closing(k)'
    <2>1. Broker(k) /\ Closing(k) /\ init'[k] = "connection"
      BY DEF Inv, Typed
    <2> QED
      BY <2>1 DEF Broker, Closing
  <1> QED
    BY <1>1, <1>2, OneBroker DEF Inv, Typed

(* The steps of close keep the invariant. *)
LEMMA CloseInv ==
  ASSUME Inv, NEW k \in Creates, CloseCall(k) \/ ChannelClosed(k) \/ ConnectionClosed(k)
  PROVE  Inv'
  <1> USE DEF CloseStep, table, object, teardown
  <1>0. closing \in [Creates -> [channel : Nat, connection : Nat]]
        /\ channel[k] \in Nat /\ conn[k] \in Nat
    BY DEF Inv, Typed
  <1>1. Typed'
    <2>1. \/ closing' = closing
          \/ closing' = [closing EXCEPT ![k].channel = channel[k]]
          \/ closing' = [closing EXCEPT ![k].connection = conn[k]]
      BY DEF CloseCall, ChannelClosed, ConnectionClosed
    <2>2. closing' \in [Creates -> [channel : Nat, connection : Nat]]
      BY <1>0, <2>1
    <2>3. /\ live' \in [Creates -> SUBSET Nat] /\ usable' \in [Creates -> SUBSET Nat]
          /\ close' \in [Creates -> {"none", "channel", "connection", "done", "thrown"}]
          /\ overlapped' \subseteq Creates
      <3>1. CASE CloseCall(k)
        BY <3>1 DEF Inv, Typed, CloseCall
      <3>2. CASE ChannelClosed(k)
        BY <3>2 DEF Inv, Typed, ChannelClosed
      <3>3. CASE ConnectionClosed(k)
        BY <3>3 DEF Inv, Typed, ConnectionClosed
      <3> QED
        BY <3>1, <3>2, <3>3
    <2>4. UNCHANGED <<table, create, made, init, object, opened>>
      BY DEF CloseCall, ChannelClosed, ConnectionClosed
    <2> QED
      BY <2>2, <2>3, <2>4 DEF Inv, Typed
  <1>2. Broker(k) /\ Closing(k) /\ opened[k] \in Nat
        /\ closing[k].channel \in Nat /\ closing[k].connection \in Nat
    BY <1>0 DEF Inv, Typed
  <1>3. CASE CloseCall(k)
    <2>1. /\ close[k] = "none" /\ close'[k] \in {"channel", "thrown"} /\ create[k] = "resolved"
          /\ closing'[k].channel = channel[k] /\ closing'[k].connection = closing[k].connection
          /\ k \notin overlapped' => init[k] = "none"
          /\ UNCHANGED <<create, made, init, object, opened, live, usable>>
      BY <1>0, <1>3 DEF CloseCall, Inv, Typed
    <2>2. Broker(k)' /\ Closing(k)'
      BY <1>0, <1>2, <2>1 DEF Broker, Closing
    <2> QED
      BY <1>1, <1>3, <2>2, OneBroker DEF CloseCall, Inv, Typed
  <1>4. CASE ChannelClosed(k)
    <2>1. /\ close[k] = "channel" /\ close'[k] \in {"connection", "thrown"}
          /\ usable'[k] = usable[k] \ {closing[k].channel}
          /\ closing'[k].channel = closing[k].channel /\ closing'[k].connection = conn[k]
          /\ UNCHANGED <<create, made, init, object, opened, live, overlapped>>
      BY <1>0, <1>4 DEF ChannelClosed, Inv, Typed
    <2>2. Broker(k)' /\ Closing(k)'
      BY <1>0, <1>2, <2>1 DEF Broker, Closing
    <2> QED
      BY <1>1, <1>4, <2>2, OneBroker DEF ChannelClosed, Inv, Typed
  <1>5. CASE ConnectionClosed(k)
    <2> DEFINE n == closing[k].connection
    <2>1. /\ close[k] = "connection" /\ close'[k] \in {"done", "thrown"}
          /\ live'[k] = live[k] \ {n} /\ usable'[k] = usable[k] \ {n}
          /\ UNCHANGED <<create, made, init, object, opened, closing, overlapped>>
      BY <1>5 DEF ConnectionClosed, Inv, Typed
    <2>2. Broker(k)' /\ Closing(k)'
      BY <1>0, <1>2, <2>1 DEF Broker, Closing
    <2> QED
      BY <1>1, <1>5, <2>2, OneBroker DEF ConnectionClosed, Inv, Typed
  <1> QED
    BY <1>3, <1>4, <1>5

(* A channel error and a lost connection keep the invariant. *)
LEMMA EnvironmentInv ==
  ASSUME Inv, NEW k \in Creates,
         ChannelError(k) \/ \E n \in 1..MaxConns : ConnectionLost(k, n)
  PROVE  Inv'
  <1> USE DEF table, object, teardown
  <1>1. PICK n : \/ live' = live /\ usable' = [usable EXCEPT ![k] = @ \ {n}]
                 \/ /\ live' = [live EXCEPT ![k] = @ \ {n}]
                    /\ usable' = [usable EXCEPT ![k] = @ \ {n}]
    BY DEF ChannelError, ConnectionLost
  <1>2. UNCHANGED <<table, create, made, init, object, opened, teardown>>
    BY DEF ChannelError, ConnectionLost
  <1>3. Typed'
    BY <1>1, <1>2 DEF Inv, Typed
  <1>4. Broker(k)' /\ Closing(k)'
    <2>1. Broker(k) /\ Closing(k)
      BY DEF Inv
    <2>2. live'[k] \subseteq live[k] /\ usable'[k] \subseteq usable[k] /\ usable'[k] \subseteq live'[k]
      BY <1>1, <2>1 DEF Inv, Typed, Broker
    <2> QED
      BY <1>2, <2>1, <2>2 DEF Broker, Closing
  <1> QED
    BY <1>1, <1>2, <1>3, <1>4, OneBroker DEF Inv, Typed

(* Every step keeps the invariant. *)
LEMMA StepInv ==
  ASSUME Inv, [Next]_vars
  PROVE  Inv'
  <1>1. ASSUME NEW p \in Providers, NEW f \in Factories, Register(p, f)
        PROVE  Inv'
    <2> USE <1>1 DEF Register, object, resources, teardown
    <2>1. Typed'
      BY DEF Inv, Typed
    <2> QED
      BY <2>1 DEF Inv, Broker, Closing
  <1>2. ASSUME UNCHANGED vars
        PROVE  Inv'
    BY <1>2 DEF Inv, Typed, Broker, Closing, vars, table, object, resources, teardown
  <1> QED
    BY <1>1, <1>2, CreateInv, ConnectedInv, ChannelCreatedInv, InitEndsInv, InitAgainInv,
       CloseInv, EnvironmentInv DEF Next

(* The inductive invariant holds in every reachable state. *)
LEMMA Invariant == Spec => []Inv
  BY InitInv, StepInv, PTL DEF Spec

(* Every variable keeps its type: the fields of a broker refer to connections it has
   opened, and a broker that create has given away has a channel and a factory (core/src/index.ts:208-220). *)
THEOREM TypeCorrect == Spec => []TypeOK
  BY Invariant, InvTypeOK, PTL

(* When close resolves, the channel it was called for and the connection it then
   found are closed, whatever was refused, lost, in error or initialised before and
   whatever init does meanwhile; the broker's own are if init does not overlap close
   (rabbitmq/src/index.ts:62-71, 136-139). *)
THEOREM Releases == Spec => []CloseReleases
  <1>1. ASSUME Inv PROVE CloseReleases
    <2> SUFFICES ASSUME NEW k \in Creates, close[k] = "done"
                 PROVE  /\ closing[k].channel \notin usable[k]
                        /\ closing[k].connection \notin live[k]
                        /\ k \notin overlapped =>
                             /\ live[k] \subseteq 1..(conn[k] - 1)
                             /\ channel[k] \notin usable[k]
      BY DEF CloseReleases
    <2>1. Broker(k) /\ Closing(k) /\ conn[k] \in Nat
      BY <1>1 DEF Inv, Typed
    <2> QED
      BY <2>1 DEF Broker, Closing
  <1> QED
    BY <1>1, Invariant, PTL

(* The step that resolves create leaves an open channel on the connection that the
   broker holds, and no init under way (rabbitmq/src/index.ts:62-71, 145-149). *)
THEOREM ResolvesWithChannel == Spec => ResolvesReady
  <1> DEFINE Ready == \A k \in Creates : create[k] # "resolved" /\ create'[k] = "resolved" =>
               init'[k] = "none" /\ conn[k] = channel[k] /\ channel[k] \in usable[k]
  <1>1. ASSUME Inv, [Next]_vars
        PROVE  Ready
    <2>1. SUFFICES ASSUME NEW k \in Creates, create[k] # "resolved", create'[k] = "resolved"
                   PROVE  init'[k] = "none" /\ conn[k] = channel[k] /\ channel[k] \in usable[k]
      OBVIOUS
    <2>2. PrefetchSet(k)
      BY <1>1, <2>1 DEF Inv, Typed, Next, Register, Create, Connected, ChannelCreated,
         InitFails, InitEnds, InitStep, InitAgain, CloseCall, ChannelClosed, ConnectionClosed,
         CloseStep, ConnectionLost, ChannelError, vars, PrefetchSet
    <2>3. Broker(k) /\ init[k] = "prefetch" /\ init'[k] = "none"
      BY <1>1, <2>2 DEF PrefetchSet, InitStep, Inv, Typed
    <2> QED
      BY <2>2, <2>3 DEF Broker, PrefetchSet
  <1>2. Inv /\ [Next]_vars => [Ready]_vars
    BY <1>1
  <1> QED
    BY <1>2, Invariant, PTL DEF Spec, ResolvesReady
=============================================================================
