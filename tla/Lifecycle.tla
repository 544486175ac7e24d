----------------------------- MODULE Lifecycle -----------------------------
(***************************************************************************)
(* The core's plug-in registry (packages/core/src/index.ts) in one         *)
(* process, and the life of the brokers it creates: register, create, the  *)
(* adapter's factory, init and close. The adapter is RabbitMQ's, whose     *)
(* init awaits three answers (connection, channel, prefetch) and whose     *)
(* close awaits two.                                                       *)
(*                                                                         *)
(* Each call of create that finds a factory makes a broker of its own. The *)
(* connections a broker has opened are numbered; each has one channel. An  *)
(* object field holds the number of what it refers to, 0 when undefined.   *)
(* Nothing in the adapter keeps init and close apart: the application may  *)
(* call one while the other waits, and each reads the fields when it gets  *)
(* to them. Bounds: one close per broker, MaxConns connections.            *)
(***************************************************************************)
EXTENDS Naturals, FiniteSets

CONSTANTS
  Providers,    \* provider keys
  Factories,    \* factories that adapters register
  Creates,      \* calls of create
  NoFactory,
  Environment,  \* what may happen besides calls
  MaxConns      \* bound: connections a broker opens

ASSUME LifecycleAssumption ==
  /\ NoFactory \notin Factories
  /\ Environment \subseteq {"refused", "reinit", "lost", "channel error"}
  /\ MaxConns \in Nat

VARIABLES
  registry,     \* REGISTRY
  refused,      \* register calls that have thrown
  create,       \* create[k]: the call of create
  made,         \* made[k]: the factory that has made its broker
  init,         \* init[k]: what a running init of that broker awaits
  conn,         \* conn[k]: this.conn
  channel,      \* channel[k]: the connection of this.channel
  opened,       \* opened[k]: how many connections the broker has opened
  live,         \* live[k]: those that are open
  usable,       \* usable[k]: those whose channel is open
  close,        \* close[k]: what a running close awaits, or its result
  closing,      \* closing[k]: the channel and the connection it has asked to close
  overlapped    \* brokers of which init and close were under way at once

table == <<registry, refused>>
object == <<conn, channel>>
resources == <<opened, live, usable>>
teardown == <<close, closing, overlapped>>
vars == <<table, create, made, init, object, resources, teardown>>

TypeOK ==
  /\ registry \in [Providers -> Factories \cup {NoFactory}]
  /\ refused \subseteq Providers \X Factories
  /\ create \in [Creates -> {"idle", "init", "resolved", "rejected"}]
  /\ made \in [Creates -> Factories \cup {NoFactory}]
  /\ init \in [Creates -> {"none", "connection", "channel", "prefetch"}]
  /\ close \in [Creates -> {"none", "channel", "connection", "done", "thrown"}]
  /\ closing \in [Creates -> [channel : 0..MaxConns, connection : 0..MaxConns]]
  /\ overlapped \subseteq Creates
  /\ opened \in [Creates -> 0..MaxConns]
  /\ \A k \in Creates :
       /\ conn[k] \in 0..opened[k] /\ channel[k] \in 0..conn[k]
       /\ usable[k] \subseteq live[k] /\ live[k] \subseteq 1..opened[k]
       /\ create[k] = "init" => init[k] # "none"
       /\ create[k] = "resolved" => channel[k] # 0 /\ made[k] # NoFactory

Init ==
  /\ registry = [p \in Providers |-> NoFactory] /\ refused = {}
  /\ create = [k \in Creates |-> "idle"]
  /\ made = [k \in Creates |-> NoFactory]
  /\ init = [k \in Creates |-> "none"]
  /\ conn = [k \in Creates |-> 0] /\ channel = [k \in Creates |-> 0]
  /\ opened = [k \in Creates |-> 0]
  /\ live = [k \in Creates |-> {}] /\ usable = [k \in Creates |-> {}]
  /\ close = [k \in Creates |-> "none"]
  /\ closing = [k \in Creates |-> [channel |-> 0, connection |-> 0]]
  /\ overlapped = {}

-----------------------------------------------------------------------------
(* register throws for a provider that is registered. *)
Register(p, f) ==
  /\ \/ /\ registry[p] = NoFactory
        /\ registry' = [registry EXCEPT ![p] = f] /\ UNCHANGED refused
     \/ /\ registry[p] # NoFactory
        /\ refused' = refused \cup {<<p, f>>} /\ UNCHANGED registry
  /\ UNCHANGED <<create, made, init, object, resources, teardown>>

(* create: the factory makes the object and calls init; without a factory it
   throws. *)
Create(k, p) ==
  /\ create[k] = "idle"
  /\ \/ /\ registry[p] # NoFactory
        /\ create' = [create EXCEPT ![k] = "init"]
        /\ made' = [made EXCEPT ![k] = registry[p]]
        /\ init' = [init EXCEPT ![k] = "connection"]
     \/ /\ registry[p] = NoFactory
        /\ create' = [create EXCEPT ![k] = "rejected"] /\ UNCHANGED <<made, init>>
  /\ UNCHANGED <<table, object, resources, teardown>>

InitStep(k, from, to) ==
  /\ init[k] = from
  /\ init' = [init EXCEPT ![k] = to]
  /\ UNCHANGED <<table, made, close, closing>>

(* this.conn = await connect(url) *)
Connected(k) ==
  /\ opened[k] < MaxConns /\ InitStep(k, "connection", "channel")
  /\ opened' = [opened EXCEPT ![k] = @ + 1]
  /\ live' = [live EXCEPT ![k] = @ \cup {opened[k] + 1}]
  /\ conn' = [conn EXCEPT ![k] = opened[k] + 1]
  /\ UNCHANGED <<overlapped, create, channel, usable>>

(* this.channel = await this.conn.createChannel() *)
ChannelCreated(k) ==
  /\ conn[k] \in live[k] /\ InitStep(k, "channel", "prefetch")
  /\ usable' = [usable EXCEPT ![k] = @ \cup {conn[k]}]
  /\ channel' = [channel EXCEPT ![k] = conn[k]]
  /\ UNCHANGED <<overlapped, create, conn, opened, live>>

(* init ends; when the factory has called it, so does create. *)
InitEnds(k, result) ==
  create' = [create EXCEPT ![k] = IF @ = "init" THEN result ELSE @]

PrefetchSet(k) ==
  /\ channel[k] \in usable[k] /\ InitStep(k, "prefetch", "none")
  /\ InitEnds(k, "resolved") /\ UNCHANGED <<object, resources, overlapped>>

InitFailsQuietly(k) ==
  /\ \/ "refused" \in Environment
     \/ init[k] = "channel" /\ conn[k] \notin live[k]
     \/ init[k] = "prefetch" /\ channel[k] \notin usable[k]
  /\ init[k] # "none" /\ InitStep(k, init[k], "none")
  /\ InitEnds(k, "resolved") /\ UNCHANGED <<object, resources, overlapped>>

(* One of the three awaits rejects: init throws and undoes nothing. *)
InitFails(k) ==
  /\ \/ "refused" \in Environment
     \/ init[k] = "channel" /\ conn[k] \notin live[k]
     \/ init[k] = "prefetch" /\ channel[k] \notin usable[k]
  /\ init[k] # "none" /\ InitStep(k, init[k], "none")
  /\ InitEnds(k, "rejected") /\ UNCHANGED <<object, resources, overlapped>>

(* The application calls init on the broker it was given, as the example in
   the interface's documentation does: before, during or after a close. *)
InitAgain(k) ==
  /\ "reinit" \in Environment /\ create[k] = "resolved"
  /\ opened[k] < MaxConns /\ InitStep(k, "none", "connection")
  /\ overlapped' = IF close[k] = "none" THEN overlapped ELSE overlapped \cup {k}
  /\ UNCHANGED <<create, object, resources>>

-----------------------------------------------------------------------------
CloseStep(k, from, to) ==
  /\ close[k] = from
  /\ close' = [close EXCEPT ![k] = to]
  /\ UNCHANGED <<table, create, made, init, object, opened>>

(* await this.channel.close(), which throws on a channel that is not open. *)
CloseCall(k) ==
  /\ create[k] = "resolved"
  /\ CloseStep(k, "none", IF channel[k] \in usable[k] THEN "channel" ELSE "thrown")
  /\ closing' = [closing EXCEPT ![k].channel = channel[k]]
  /\ overlapped' = IF init[k] = "none" THEN overlapped ELSE overlapped \cup {k}
  /\ UNCHANGED <<live, usable>>

ChannelClosedOnly(k) ==
  /\ CloseStep(k, "channel", "done")
  /\ usable' = [usable EXCEPT ![k] = @ \ {closing[k].channel}]
  /\ closing' = [closing EXCEPT ![k].connection = conn[k]]
  /\ UNCHANGED <<live, overlapped>>

(* The answer (none comes over a lost connection), then await this.conn.close()
   on what the field holds by now. *)
ChannelClosed(k) ==
  /\ CloseStep(k, "channel",
       IF closing[k].channel \in usable[k] THEN "connection" ELSE "thrown")
  /\ usable' = [usable EXCEPT ![k] = @ \ {closing[k].channel}]
  /\ closing' = [closing EXCEPT ![k].connection = conn[k]]
  /\ UNCHANGED <<live, overlapped>>

(* conn.close() throws on a connection that is not open. *)
ConnectionClosed(k) == LET n == closing[k].connection IN
  /\ CloseStep(k, "connection", IF n \in live[k] THEN "done" ELSE "thrown")
  /\ live' = [live EXCEPT ![k] = @ \ {n}]
  /\ usable' = [usable EXCEPT ![k] = @ \ {n}]
  /\ UNCHANGED <<closing, overlapped>>

-----------------------------------------------------------------------------
(* The server or the network ends a connection. *)
ConnectionLost(k, n) ==
  /\ "lost" \in Environment /\ n \in live[k]
  /\ live' = [live EXCEPT ![k] = @ \ {n}]
  /\ usable' = [usable EXCEPT ![k] = @ \ {n}]
  /\ UNCHANGED <<table, create, made, init, object, opened, teardown>>

(* The server answers a request with an error of the channel, which closes it. *)
ChannelError(k) ==
  /\ "channel error" \in Environment
  /\ create[k] = "resolved" /\ channel[k] \in usable[k]
  /\ usable' = [usable EXCEPT ![k] = @ \ {channel[k]}]
  /\ UNCHANGED <<table, create, made, init, object, opened, live, teardown>>

Next ==
  \/ \E p \in Providers, f \in Factories : Register(p, f)
  \/ \E k \in Creates :
       \/ \E p \in Providers : Create(k, p)
       \/ Connected(k) \/ ChannelCreated(k) \/ PrefetchSet(k) \/ InitFails(k)
       \/ InitAgain(k)
       \/ CloseCall(k) \/ ChannelClosed(k) \/ ConnectionClosed(k)
       \/ \E n \in 1..MaxConns : ConnectionLost(k, n)
       \/ ChannelError(k)

Spec == Init /\ [][Next]_vars

-----------------------------------------------------------------------------
(* Properties *)

(* What create gives to its caller is usable: at the moment it resolves, the
   channel is open on the connection the broker holds, and no init is under way. *)
ResolvesReady ==
  [][\A k \in Creates : create[k] # "resolved" /\ create'[k] = "resolved" =>
       init'[k] = "none" /\ conn[k] = channel[k] /\ channel[k] \in usable[k]]_vars

(* When close resolves, the channel it was called for and the connection it then
   found in the field are closed, whatever was refused, lost or in error before and
   whatever init does meanwhile. If no init was under way since close was called,
   the broker's own channel and connection are, and all that is left open is what
   an earlier init has replaced; an init that overlaps close may leave open the
   connection close was called for or the one it opens itself. *)
CloseReleases ==
  \A k \in Creates : close[k] = "done" =>
    /\ closing[k].channel \notin usable[k] /\ closing[k].connection \notin live[k]
    /\ k \notin overlapped =>
         live[k] \subseteq 1..(conn[k] - 1) /\ channel[k] \notin usable[k]
=============================================================================
