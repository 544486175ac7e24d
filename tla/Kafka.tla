------------------------------- MODULE Kafka -------------------------------
(***************************************************************************)
(* The Kafka adapter (packages/kafka/src/index.ts) on one topic: a set of  *)
(* processes with one KafkaBroker each, whose producer and admin clients   *)
(* are made by init and whose subscribe makes a consumer of its own, the   *)
(* Kafka cluster, and the part of librdkafka that lives in the process     *)
(* (the producer's local queue, commits under way).                        *)
(*                                                                         *)
(* Offsets count from 0. The consumers run with enable.auto.commit = false *)
(* and auto.offset.reset at its default ("latest"). A group reassigns all  *)
(* its partitions whenever a member joins or leaves (the eager protocol),  *)
(* and each assignment resumes at the committed offset. The 'data' event   *)
(* does not wait for the handler of the previous one: any number of        *)
(* handlers runs at a time, and each ends when it likes.                   *)
(***************************************************************************)
EXTENDS Naturals, Sequences, FiniteSets, SequencesExt

CONSTANTS
  Clients,        \* KafkaBroker instances, each in a process of its own
  Groups,         \* consumer groups
  Messages,       \* messages, each published at most once
  Malformed,      \* messages of other producers, whose value is not JSON
  NumPartitions,  \* defaultTopic.numPartitions
  Prios,          \* values of opts.prio
  QueueLimit,     \* queue.buffering.max.messages
  CommitDelta,    \* commit(raw) stores raw.offset + CommitDelta
  Outcomes,       \* what a handler may do: <<call or "none", way to end>>
  Environment,    \* what may happen besides calls and handlers
  NoOffset,       \* the group has committed nothing
  NoClient,       \* the partition has no owner
  MaxDeliveries,  \* bound: 'data' events per process
  MaxLog          \* bound: messages per partition

Events == {"close", "crash", "network", "unensured", "admin"}

ASSUME KafkaAssumption ==
  /\ NumPartitions \in Nat \ {0} /\ Prios \subseteq Nat
  /\ Malformed \subseteq Messages
  /\ QueueLimit \in Nat /\ CommitDelta \in {0, 1}
  /\ Outcomes \subseteq {"none", "ack", "nack"} \X {"return", "throw"}
  /\ Environment \subseteq Events
  /\ NoOffset \notin Nat /\ NoClient \notin Clients
  /\ MaxDeliveries \in Nat /\ MaxLog \in Nat

Partitions == 0..(NumPartitions - 1)

VARIABLES
  topic,        \* the topic exists
  log,          \* log[p]: the messages of partition p
  process,      \* process[c]: the producer and admin clients of c, or "dead"
  pub,          \* pub[c][m]: where the call publish(topic, m) of c stands
  late,         \* messages produced between the end of close's flush and its disconnect
  outbox,       \* outbox[c]: <<message, prio>> in the producer's local queue
  consumer,     \* consumer[c]: the consumer that subscribe of c has made
  group,        \* group[c]: its group.id
  stable,       \* groups whose members agree on an assignment
  owner,        \* owner[g][p]: the member partition p is assigned to
  position,     \* position[g][p]: the offset that member reads next
  committed,    \* committed[g][p]: the offset the group resumes at
  deliveries,   \* deliveries[c][t]: <<partition, offset>> of the t-th 'data'
  running,      \* running[c]: 'data' events whose handler is running
  called,       \* called[c][call]: those whose message has been settled so
  commits       \* commits[c]: commits sent, not yet processed by the cluster

producing == <<topic, log, process, pub, late, outbox>>
groups == <<consumer, group, stable, owner, position>>
handlers == <<deliveries, running, called>>
vars == <<producing, groups, committed, handlers, commits>>

Offsets == Partitions \X Nat

TypeOK ==
  /\ topic \in BOOLEAN /\ log \in [Partitions -> Seq(Messages)]
  /\ process \in [Clients -> {"new", "connected", "flushing", "flushed",
                           "disconnected", "dead"}]
  /\ late \subseteq Messages
  /\ pub \in [Clients -> [Messages -> {"idle", "ensuring", "producing",
                                       "resolved", "rejected"}]]
  /\ outbox \in [Clients -> SUBSET (Messages \X Prios)]
  /\ consumer \in [Clients -> {"idle", "ensuring", "connecting", "joined", "gone"}]
  /\ group \in [Clients -> Groups] /\ stable \subseteq Groups
  /\ owner \in [Groups -> [Partitions -> Clients \cup {NoClient}]]
  /\ position \in [Groups -> [Partitions -> Nat]]
  /\ committed \in [Groups -> [Partitions -> Nat \cup {NoOffset}]]
  /\ deliveries \in [Clients -> Seq(Offsets)]
  /\ commits \in [Clients -> Seq(Offsets)]
  /\ \A c \in Clients :
       /\ running[c] \subseteq 1..Len(deliveries[c])
       /\ \A call \in {"ack", "nack"} : called[c][call] \subseteq 1..Len(deliveries[c])
  /\ \A g \in Groups, p \in Partitions :
       /\ position[g][p] <= Len(log[p])
       /\ committed[g][p] \in {NoOffset} \cup 0..Len(log[p])

Init ==
  /\ topic = FALSE /\ log = [p \in Partitions |-> <<>>]
  /\ process = [c \in Clients |-> "new"]
  /\ pub = [c \in Clients |-> [m \in Messages |-> "idle"]] /\ late = {}
  /\ outbox = [c \in Clients |-> {}]
  /\ consumer = [c \in Clients |-> "idle"]
  /\ group \in [Clients -> Groups]
  /\ stable = {}
  /\ owner = [g \in Groups |-> [p \in Partitions |-> NoClient]]
  /\ position = [g \in Groups |-> [p \in Partitions |-> 0]]
  /\ committed = [g \in Groups |-> [p \in Partitions |-> NoOffset]]
  /\ deliveries = [c \in Clients |-> <<>>]
  /\ running = [c \in Clients |-> {}]
  /\ called = [c \in Clients |-> [call \in {"ack", "nack"} |-> {}]]
  /\ commits = [c \in Clients |-> <<>>]

-----------------------------------------------------------------------------
(* The process *)

(* Until disconnect has ended, the clients that init has made work. *)
Connected(c) == process[c] \in {"connected", "flushing", "flushed"}

Alive(c) == Connected(c) \/ process[c] = "disconnected"

ProcessStep(c, from, to) ==
  /\ process[c] = from
  /\ process' = [process EXCEPT ![c] = to]
  /\ UNCHANGED <<topic, log, pub, late, groups, committed, handlers, commits>>

(* init: the producer connects; the admin client needs no connection. *)
Connect(c) == ProcessStep(c, "new", "connected") /\ UNCHANGED outbox

(* close calls producer.disconnect, which starts with a flush. *)
Close(c) ==
  "close" \in Environment /\ ProcessStep(c, "connected", "flushing") /\ UNCHANGED outbox

NotFlushed(c) == ProcessStep(c, "flushing", "flushed") /\ UNCHANGED outbox

(* The flush ends when the local queue is empty, or gives up when the network is
   too slow. *)
Flushed(c) ==
  /\ outbox[c] = {} \/ "network" \in Environment
  /\ ProcessStep(c, "flushing", "flushed") /\ UNCHANGED outbox

(* The client goes, with what is in its local queue by now, and the admin client
   after it. The consumers made by subscribe are not in reach of close: they go on. *)
Disconnect(c) ==
  ProcessStep(c, "flushed", "disconnected") /\ outbox' = [outbox EXCEPT ![c] = {}]

(* The process ends: its handlers, its local queue and the commits it has not
   sent are gone, and its group notices that a member has left. *)
ProcessEnds(c) ==
  /\ process' = [process EXCEPT ![c] = "dead"]
  /\ outbox' = [outbox EXCEPT ![c] = {}]
  /\ consumer' = [consumer EXCEPT ![c] = "gone"]
  /\ stable' = IF consumer[c] = "joined" THEN stable \ {group[c]} ELSE stable
  /\ running' = [running EXCEPT ![c] = {}]
  /\ commits' = [commits EXCEPT ![c] = <<>>]
  /\ UNCHANGED <<topic, log, pub, late, group, owner, position, committed,
                 deliveries, called>>

Crash(c) == "crash" \in Environment /\ Alive(c) /\ ProcessEnds(c)

-----------------------------------------------------------------------------
(* publish(topic, msg, opts) *)

PubStep(c, m, from, to) ==
  /\ pub[c][m] = from
  /\ pub' = [pub EXCEPT ![c][m] = to]

PublishCall(c, m, ensure) ==
  /\ Alive(c) /\ m \notin Malformed /\ \A d \in Clients : pub[d][m] = "idle"
  /\ ensure \/ "unensured" \in Environment
  /\ PubStep(c, m, "idle", IF ensure THEN "ensuring" ELSE "producing")
  /\ UNCHANGED <<topic, log, process, late, outbox, groups, committed, handlers, commits>>

(* ensureTopic: a topic that exists already is no error; any other error of
   the admin client rejects. *)
PublishEnsure(c, m) ==
  /\ Alive(c)
  /\ \/ /\ Connected(c)
        /\ topic' = TRUE /\ PubStep(c, m, "ensuring", "producing")
     \/ /\ process[c] = "disconnected" \/ "admin" \in Environment
        /\ PubStep(c, m, "ensuring", "rejected") /\ UNCHANGED topic
  /\ UNCHANGED <<log, process, late, outbox, groups, committed, handlers, commits>>

(* What the producer has accepted stays in its account until a delivery report
   is polled, which the adapter never does (dr_cb without poll). *)
LocalQueueFull(c) ==
  Cardinality({m \in Messages : pub[c][m] = "resolved"}) >= QueueLimit

(* produce() puts the message in the local queue and publish resolves. It throws
   when it is not connected, when the queue is full, and for a partition it
   knows not to exist (it may not know yet). *)
Produce(c, m, prio) ==
  /\ Alive(c)
  /\ \/ /\ Connected(c) /\ ~LocalQueueFull(c)
        /\ PubStep(c, m, "producing", "resolved")
        /\ late' = IF process[c] = "flushed" THEN late \cup {m} ELSE late
        /\ outbox' = [outbox EXCEPT ![c] = @ \cup {<<m, prio>>}]
     \/ /\ ~Connected(c) \/ LocalQueueFull(c) \/ prio \notin Partitions
        /\ PubStep(c, m, "producing", "rejected") /\ UNCHANGED <<late, outbox>>
  /\ UNCHANGED <<topic, log, process, groups, committed, handlers, commits>>

Write(p, m) ==
  /\ Len(log[p]) < MaxLog
  /\ log' = [log EXCEPT ![p] = Append(@, m)]

(* The producer's thread transmits a message. A network that loses the
   cluster's answer makes it transmit the message again, or give up. *)
Transmit(c, m, prio) ==
  /\ <<m, prio>> \in outbox[c]
  /\ \/ /\ topic /\ prio \in Partitions /\ Write(prio, m)
        /\ \/ outbox' = [outbox EXCEPT ![c] = @ \ {<<m, prio>>}]
           \/ "network" \in Environment /\ UNCHANGED outbox
     \/ /\ ~topic \/ prio \notin Partitions \/ "network" \in Environment
        /\ outbox' = [outbox EXCEPT ![c] = @ \ {<<m, prio>>}]
        /\ UNCHANGED log
  /\ UNCHANGED <<topic, process, pub, late, groups, committed, handlers, commits>>

ForeignPublish(m, p) ==
  /\ m \in Malformed /\ topic /\ \A q \in Partitions : ~Contains(log[q], m)
  /\ Write(p, m)
  /\ UNCHANGED <<topic, process, pub, late, outbox, groups, committed, handlers, commits>>

-----------------------------------------------------------------------------
(* subscribe(topic, handler, groupId, opts) *)

(* Without ensure, subscribe resolves at once: consumer.connect() has been
   called, and nothing waits for 'ready'. *)
SubscribeCall(c, ensure) ==
  /\ Alive(c) /\ consumer[c] = "idle"
  /\ ensure \/ "unensured" \in Environment
  /\ consumer' = [consumer EXCEPT ![c] = IF ensure THEN "ensuring" ELSE "connecting"]
  /\ UNCHANGED <<producing, group, stable, owner, position, committed, handlers, commits>>

SubscribeEnsure(c) ==
  /\ Alive(c) /\ consumer[c] = "ensuring"
  /\ \/ /\ Connected(c)
        /\ topic' = TRUE /\ consumer' = [consumer EXCEPT ![c] = "connecting"]
     \/ /\ process[c] = "disconnected" \/ "admin" \in Environment
        /\ consumer' = [consumer EXCEPT ![c] = "gone"] /\ UNCHANGED topic
  /\ UNCHANGED <<log, process, pub, late, outbox, group, stable, owner, position,
                 committed, handlers, commits>>

(* 'ready': the consumer subscribes to the topic and starts to consume. *)
Ready(c) ==
  /\ consumer[c] = "connecting"
  /\ consumer' = [consumer EXCEPT ![c] = "joined"]
  /\ stable' = stable \ {group[c]}
  /\ UNCHANGED <<producing, group, owner, position, committed, handlers, commits>>

Members(g) == {c \in Clients : consumer[c] = "joined" /\ group[c] = g}

StartPastEnd(g, p) ==
  IF committed[g][p] = NoOffset THEN Len(log[p]) + 1 ELSE committed[g][p]

StartAt(g, p) == IF committed[g][p] = NoOffset THEN Len(log[p]) ELSE committed[g][p]

(* The group assigns its partitions anew. *)
Rebalance(g) ==
  /\ g \notin stable /\ topic
  /\ \E assignment \in [Partitions -> Members(g)] :
       owner' = [owner EXCEPT ![g] = assignment]
  /\ position' = [position EXCEPT ![g] = [p \in Partitions |-> StartAt(g, p)]]
  /\ stable' = stable \cup {g}
  /\ UNCHANGED <<producing, consumer, group, committed, handlers, commits>>

-----------------------------------------------------------------------------
(* Messages and handlers *)

(* The partition has a message for consumer c. *)
Fetchable(c, p) ==
  LET g == group[c] IN
  /\ consumer[c] = "joined" /\ g \in stable /\ owner[g][p] = c
  /\ position[g][p] < Len(log[p])

NextMessage(c, p) == log[p][position[group[c]][p] + 1]

DataAfterAck(c, p) ==
  LET g == group[c] IN
  /\ Fetchable(c, p) /\ NextMessage(c, p) \notin Malformed
  /\ Len(deliveries[c]) < MaxDeliveries
  /\ called[c]["ack"] = 1..Len(deliveries[c])
  /\ deliveries' = [deliveries EXCEPT ![c] = Append(@, <<p, position[g][p]>>)]
  /\ running' = [running EXCEPT ![c] = @ \cup {Len(deliveries[c]) + 1}]
  /\ position' = [position EXCEPT ![g][p] = @ + 1]
  /\ UNCHANGED <<producing, consumer, group, stable, owner, committed, called, commits>>

(* 'data': the callback runs up to the handler. *)
Data(c, p) ==
  LET g == group[c] IN
  /\ Fetchable(c, p) /\ NextMessage(c, p) \notin Malformed
  /\ Len(deliveries[c]) < MaxDeliveries
  /\ deliveries' = [deliveries EXCEPT ![c] = Append(@, <<p, position[g][p]>>)]
  /\ running' = [running EXCEPT ![c] = @ \cup {Len(deliveries[c]) + 1}]
  /\ position' = [position EXCEPT ![g][p] = @ + 1]
  /\ UNCHANGED <<producing, consumer, group, stable, owner, committed, called, commits>>

(* JSON.parse throws outside the try block: the unhandled rejection ends the
   process. *)
ParseFailure(c, p) ==
  Fetchable(c, p) /\ NextMessage(c, p) \in Malformed /\ ProcessEnds(c)

Called(c, t) == {call \in {"ack", "nack"} : t \in called[c][call]}

CanEnd(c, t, end) ==
  \E call \in {"none", "ack", "nack"} :
    <<call, end>> \in Outcomes /\ Called(c, t) = {call} \ {"none"}

(* ack: the offset of the message goes to the cluster, whatever has become of
   the messages before it. *)
Ack(c, t) ==
  /\ called' = [called EXCEPT ![c]["ack"] = @ \cup {t}]
  /\ commits' = [commits EXCEPT ![c] = Append(@, deliveries[c][t])]

(* nack does nothing. *)
Nack(c, t) ==
  /\ called' = [called EXCEPT ![c]["nack"] = @ \cup {t}]
  /\ UNCHANGED commits

HandlerCall(c, t, call) ==
  /\ t \in running[c] /\ Called(c, t) = {}
  /\ \E end \in {"return", "throw"} : <<call, end>> \in Outcomes
  /\ IF call = "ack" THEN Ack(c, t) ELSE Nack(c, t)
  /\ UNCHANGED <<producing, groups, committed, deliveries, running>>

HandlerEnds(c, t, end) ==
  /\ t \in running[c] /\ CanEnd(c, t, end)
  /\ running' = [running EXCEPT ![c] = @ \ {t}]
  /\ UNCHANGED <<producing, groups, committed, deliveries>>

(* The handler returns: the adapter acks, also when the handler has nacked. *)
HandlerReturn(c, t) == HandlerEnds(c, t, "return") /\ Ack(c, t)

HandlerThrowCommit(c, t) ==
  /\ HandlerEnds(c, t, "throw")
  /\ commits' = [commits EXCEPT ![c] = Append(@, deliveries[c][t])]
  /\ UNCHANGED called

(* The handler throws: the adapter nacks. *)
HandlerThrow(c, t) == HandlerEnds(c, t, "throw") /\ Nack(c, t)

(* The cluster stores the offset for the group; while the group reassigns its
   partitions it may refuse, and nobody hears of it. *)
CommitArrives(c) ==
  LET g == group[c]  o == Head(commits[c]) IN
  /\ commits[c] # <<>>
  /\ commits' = [commits EXCEPT ![c] = Tail(@)]
  /\ \/ committed' = [committed EXCEPT ![g][o[1]] = o[2] + CommitDelta]
     \/ g \notin stable /\ UNCHANGED committed
  /\ UNCHANGED <<producing, groups, handlers>>

-----------------------------------------------------------------------------
Publish(c, m) ==
  \/ \E ensure \in BOOLEAN : PublishCall(c, m, ensure)
  \/ PublishEnsure(c, m)
  \/ \E prio \in Prios : Produce(c, m, prio) \/ Transmit(c, m, prio)

Subscribe(c) ==
  \/ \E ensure \in BOOLEAN : SubscribeCall(c, ensure)
  \/ SubscribeEnsure(c) \/ Ready(c)

Handler(c, t) ==
  \/ \E call \in {"ack", "nack"} : HandlerCall(c, t, call)
  \/ HandlerReturn(c, t) \/ HandlerThrow(c, t)

Next ==
  \/ \E c \in Clients :
       \/ Connect(c) \/ Close(c) \/ Flushed(c) \/ Disconnect(c) \/ Crash(c)
       \/ \E m \in Messages : Publish(c, m)
       \/ Subscribe(c)
       \/ \E p \in Partitions : Data(c, p) \/ ParseFailure(c, p)
       \/ \E t \in running[c] : Handler(c, t)
       \/ CommitArrives(c)
  \/ \E g \in Groups : Rebalance(g)
  \/ \E m \in Messages, p \in Partitions : ForeignPublish(m, p)

Spec == Init /\ [][Next]_vars

(* librdkafka's threads and the cluster keep working, and a handler that has
   been entered goes on. Connect, the calls of the application, Close and Crash
   need not happen. *)
Fairness ==
  /\ \A g \in Groups : WF_vars(Rebalance(g))
  /\ \A c \in Clients :
       /\ WF_vars(SubscribeEnsure(c)) /\ WF_vars(Ready(c))
       /\ WF_vars(CommitArrives(c))
       /\ \A m \in Messages :
            /\ WF_vars(PublishEnsure(c, m))
            /\ WF_vars(\E prio \in Prios : Produce(c, m, prio))
            /\ \A prio \in Prios : WF_vars(Transmit(c, m, prio))
       /\ \A p \in Partitions : WF_vars(Data(c, p) \/ ParseFailure(c, p))
       /\ \A t \in 1..MaxDeliveries : WF_vars(t \in running[c] /\ Handler(c, t))

FairSpec == Spec /\ Fairness

-----------------------------------------------------------------------------
(* Properties *)

Acked(g, o) ==
  \E c \in Clients : group[c] = g /\ \E t \in called[c]["ack"] : deliveries[c][t] = o

(* The offset a group resumes at is always that of a message whose ack was
   called in the group, by the handler or by the adapter after the handler has
   returned: a handler that throws, a member that has lost its partition or a
   process that dies never moves the group past a message by itself. *)
CommitComesFromAck ==
  \A g \in Groups, p \in Partitions :
    committed[g][p] # NoOffset =>
      \E o \in 0..(Len(log[p]) - 1) :
        committed[g][p] = o + CommitDelta /\ Acked(g, <<p, o>>)

(* With topics that are ensured, priorities that are partitions and a network
   that holds, a publish that has resolved is stored once: it waits in the
   local queue or stands at one place of the log until its process ends, also when
   the broker closes while publishes go on. Only a message produced after close's
   flush had ended may be gone with the disconnect. *)
StoredOnce ==
  \A c \in Clients, m \in Messages : pub[c][m] = "resolved" /\ process[c] # "dead" =>
    LET places == Cardinality({o \in outbox[c] : o[1] = m})
                    + Cardinality({o \in Partitions \X (1..MaxLog) :
                                     o[2] <= Len(log[o[1]]) /\ log[o[1]][o[2]] = m}) IN
    \/ places = 1
    \/ places = 0 /\ m \in late /\ process[c] = "disconnected"

(* A group that has a member keeps reading: what its position has not reached
   it reaches, whatever its handlers do, when they never settle, and when the
   member that was reading is lost, as long as one is left. *)
CatchesUp ==
  \A g \in Groups, p \in Partitions, o \in 0..(MaxLog - 1) :
    (g \in stable /\ position[g][p] <= o /\ o < Len(log[p]))
      ~> (position[g][p] > o \/ Members(g) = {})

-----------------------------------------------------------------------------
(* What the documentation says and the code does not do *)

(* "nack() -> no commit (redeliver)": while the last word on a message is nack,
   the group resumes at that message or before it. *)
NackedIsRedelivered ==
  \A c \in Clients : \A t \in called[c]["nack"] :
    LET g == group[c]  o == deliveries[c][t] IN
    ~Acked(g, o) /\ committed[g][o[1]] # NoOffset => committed[g][o[1]] <= o[2]
=============================================================================
