------------------------------ MODULE Provision ------------------------------
(***************************************************************************)
(* publish, the set-up by subscribe, and close of six adapters on one      *)
(* topic: Azure Service Bus, NATS, Pulsar, ActiveMQ, BullMQ and ZeroMQ     *)
(* (packages/azure_service_bus, nats, pulsa, activemq, bullmq and zeromq,  *)
(* src/index.ts). A behaviour is about one of them, chosen at the start.   *)
(* What happens to a message once a group has it is in Settling.           *)
(*                                                                         *)
(* Each broker is a process. Several of its calls run at once; between two *)
(* awaits a call is not interrupted. stage[c] is the await that call c is  *)
(* at. A call <<b, x>> publishes x if x is a message and subscribes for x  *)
(* if x is a group. A request may fail with or without effect.             *)
(***************************************************************************)
EXTENDS Naturals, Sequences, FiniteSets, SequencesExt

CONSTANTS
  Brokers, Messages, Groups,
  CallsOf,       \* CallsOf[a]: the calls <<b, x>> the application makes with adapter a
  GroupNames,    \* createOptions.groupNames of BullMQ: a sequence of groups
  Options,       \* Options[b]: the stream options that broker b passes
  Environment,   \* what may happen besides calls
  Closers,       \* the brokers that the application closes
  MaxFailed,     \* bound: calls that have failed and are not repeated yet
  Absent, Nobody

Adapters == {"servicebus", "nats", "pulsar", "activemq", "bullmq", "zeromq"}
Events == {"network", "retry", "unensured"}

ASSUME ProvisionAssumption ==
  /\ Messages \cap Groups = {}
  /\ CallsOf \in [Adapters -> SUBSET (Brokers \X (Messages \cup Groups))]
  /\ GroupNames \in Seq(Groups) /\ GroupNames # <<>>
  /\ Absent \notin {Options[b] : b \in Brokers} /\ Nobody \notin Brokers
  /\ Environment \subseteq Events /\ Closers \subseteq Brokers /\ MaxFailed \in Nat

Calls == UNION {CallsOf[a] : a \in Adapters}

VARIABLES
  adapter,   \* the adapter that this behaviour is about
  topic,     \* the options the topic or stream exists with, or Absent
  groups,    \* groups that have a subscription, durable consumer or queue
  stored,    \* stored[m]: how often m is in the NATS stream
  copies,    \* copies[g][m]: how many copies of m group g has got (2: or more)
  port,      \* the broker whose ZeroMQ socket has the topic's port
  stage,     \* stage[c]: what call c waits for, or how it has ended
  ensured,   \* calls made with opts.ensure
  before,    \* before[c]: groups set up when publish c was called (history)
  removed,   \* <<g, m>>: a late ack has removed the job of m (history)
  todo,      \* todo[c]: the groups a BullMQ publish has not reached
  wire,      \* wire[b]: ActiveMQ frames that are under way
  push,      \* push[b]: the ZeroMQ push socket
  pipe,      \* <<p, s>>: publish p waits in the local pipe to the pull socket of s
  lost,      \* ZeroMQ publishes lost from there (history)
  opened,    \* opened[b]: <<kind, x>> what is open on behalf of b
  listed,    \* listed[b]: what the broker object has in its maps and lists
  client,    \* brokers whose client is connected
  closing,   \* closing[b]: how far close has come
  atClose    \* atClose[b]: what was open when close was called (history)

service == <<topic, groups, stored, copies, port>>
call == <<ensured, before, todo, removed>>
local == <<pipe, lost>>
object == <<opened, listed>>
life == <<client, closing, atClose>>
vars == <<adapter, service, stage, call, wire, push, local, object, life>>

IsPublish(c) == c[2] \in Messages
IsSubscribe(c) == c[2] \in Groups
Pipes == {c \in Calls : IsPublish(c)} \X {c \in Calls : IsSubscribe(c)}

Waits == {"manager", "look", "create", "lookGroup", "createGroup", "attach",
          "producer", "send"}
(* failed: the network or a client that is closed; refused: the service will not
   create what exists; missing: there is no topic *)
Ends == {"resolved", "failed", "refused", "missing"}

Resources == {"producer", "consumer"} \X (Messages \cup Groups)
Producers(b) == {r \in listed[b] : r[1] = "producer"}

TypeOK ==
  /\ adapter \in Adapters
  /\ topic \in {Absent} \cup {Options[b] : b \in Brokers} /\ groups \subseteq Groups
  /\ stored \in [Messages -> 0..2] /\ copies \in [Groups -> [Messages -> 0..2]]
  /\ port \in Brokers \cup {Nobody}
  /\ stage \in [Calls -> {"idle"} \cup Waits \cup Ends]
  /\ ensured \subseteq Calls /\ before \in [Calls -> SUBSET groups]
  /\ todo \in [Calls -> Seq(Groups)] /\ wire \in [Brokers -> Seq(Messages)]
  /\ push \in [Brokers -> {"none", "binding", "bound", "unbound"}]
  /\ pipe \subseteq Pipes /\ lost \subseteq Calls
  /\ opened \in [Brokers -> SUBSET Resources] /\ listed \in [Brokers -> SUBSET Resources]
  /\ client \subseteq Brokers
  /\ closing \in [Brokers -> {"open", "consumers", "producers", "client", "closed", "failed"}]
  /\ atClose \in [Brokers -> SUBSET Resources]
  /\ \A b \in Brokers :
       /\ adapter # "bullmq" => Cardinality(Producers(b)) <= 1
       /\ push[b] = "bound" <=> port = b
  /\ removed \in SUBSET (Groups \X Messages)
  /\ \A c \in Calls : todo[c] # <<>> <=> adapter = "bullmq" /\ stage[c] = "send"

Init ==
  /\ adapter \in Adapters
  /\ topic = Absent /\ groups = {} /\ port = Nobody
  /\ stored = [m \in Messages |-> 0]
  /\ copies = [g \in Groups |-> [m \in Messages |-> 0]]
  /\ stage = [c \in Calls |-> "idle"] /\ ensured = {}
  /\ before = [c \in Calls |-> {}] /\ todo = [c \in Calls |-> <<>>]
  /\ removed = {}
  /\ wire = [b \in Brokers |-> <<>>] /\ push = [b \in Brokers |-> "none"]
  /\ pipe = {} /\ lost = {}
  /\ opened = [b \in Brokers |-> {}] /\ listed = [b \in Brokers |-> {}]
  /\ client = Brokers /\ closing = [b \in Brokers |-> "open"]
  /\ atClose = [b \in Brokers |-> {}]

-----------------------------------------------------------------------------
(* Calls and their answers *)

NetworkFails ==
  "network" \in Environment /\ Cardinality({c \in Calls : stage[c] = "failed"}) < MaxFailed

Go(c, from, to) == stage[c] = from /\ stage' = [stage EXCEPT ![c] = to]

(* The request of c is rejected: by the network, or as close has begun. *)
Fails(c, from) ==
  (NetworkFails \/ closing[c[1]] # "open") /\ Go(c, from, "failed")

Up(c, from, to) == c[1] \in client /\ Go(c, from, to)

SetUp == {c[2] : c \in {d \in Calls : stage[d] = "resolved"}} \cap groups

(* What every call begins with: it is made, or made again after a failure. *)
Called(c, ensure) ==
  /\ c \in CallsOf[adapter] /\ closing[c[1]] = "open"
  /\ stage[c] = "idle" \/ (stage[c] \in Ends \ {"resolved"} /\ "retry" \in Environment)
  /\ ensure \/ "unensured" \in Environment
  /\ ensured' = IF ensure THEN ensured \cup {c} ELSE ensured \ {c}
  /\ before' = IF IsPublish(c) THEN [before EXCEPT ![c] = SetUp] ELSE before

Open(b, r) ==
  /\ opened' = [opened EXCEPT ![b] = @ \cup {r}]
  /\ listed' = [listed EXCEPT ![b] = @ \cup {r}]

More(n) == IF n = 2 THEN 2 ELSE n + 1

CopyTo(S, m) ==
  copies' = [g \in Groups |->
               IF g \in S THEN [copies[g] EXCEPT ![m] = More(@)] ELSE copies[g]]

(* A message for all groups is taken, or the network fails before or after. *)
Answered(c, from, to, effect) ==
  \/ Up(c, from, to) /\ effect
  \/ Fails(c, from) /\ (effect \/ UNCHANGED service)

HasProducer(b) == \E r \in opened[b] : r[1] = "producer"

Elsewhere == UNCHANGED <<adapter, call, wire, push, local, life>>

-----------------------------------------------------------------------------
(* Azure Service Bus *)

(* createSender, unless the map has one, or createReceiver: both at once *)
Attach(c, from) ==
  LET b == c[1] IN
  \/ /\ b \notin client /\ Go(c, from, "failed") /\ UNCHANGED object
  \/ /\ IsPublish(c) /\ Up(c, from, "send")
     /\ IF Producers(b) = {} THEN Open(b, <<"producer", c[2]>>) ELSE UNCHANGED object
  \/ /\ IsSubscribe(c) /\ Up(c, from, "resolved") /\ Open(b, <<"consumer", c[2]>>)

AfterTopic(c, from) ==
  \/ IsSubscribe(c) /\ Go(c, from, "lookGroup") /\ UNCHANGED object
  \/ IsPublish(c) /\ Attach(c, from)

(* Requests to the administration client, which close leaves alone *)
AdminFails(c, from) == NetworkFails /\ Go(c, from, "failed") /\ UNCHANGED object

CallServiceBus(c, ensure) ==
  /\ adapter = "servicebus" /\ Called(c, ensure)
  /\ IF ensure THEN Go(c, stage[c], "look") /\ UNCHANGED object ELSE Attach(c, stage[c])
  /\ UNCHANGED <<adapter, service, todo, removed, wire, push, local, life>>

TopicExists(c) ==
  /\ adapter = "servicebus"
  /\ \/ topic # Absent /\ AfterTopic(c, "look")
     \/ topic = Absent /\ Go(c, "look", "create") /\ UNCHANGED object
     \/ AdminFails(c, "look")
  /\ Elsewhere /\ UNCHANGED service

CreateTopic(c) ==
  /\ adapter = "servicebus"
  /\ \/ topic = Absent /\ AfterTopic(c, "create") /\ topic' = Options[c[1]]
     \/ topic # Absent /\ Go(c, "create", "refused") /\ UNCHANGED <<object, topic>>
     \/ /\ AdminFails(c, "create")
        /\ topic' \in IF topic = Absent THEN {Absent, Options[c[1]]} ELSE {topic}
  /\ Elsewhere /\ UNCHANGED <<groups, stored, copies, port>>

SubscriptionExists(c) ==
  /\ adapter = "servicebus"
  /\ \/ c[2] \in groups /\ Attach(c, "lookGroup")
     \/ c[2] \notin groups /\ Go(c, "lookGroup", "createGroup") /\ UNCHANGED object
     \/ AdminFails(c, "lookGroup")
  /\ Elsewhere /\ UNCHANGED service

CreateSubscription(c) ==
  /\ adapter = "servicebus"
  /\ \/ c[2] \notin groups /\ Attach(c, "createGroup") /\ groups' = groups \cup {c[2]}
     \/ c[2] \in groups /\ Go(c, "createGroup", "refused") /\ UNCHANGED <<object, groups>>
     \/ AdminFails(c, "createGroup") /\ groups' \in {groups, groups \cup {c[2]}}
  /\ Elsewhere /\ UNCHANGED <<topic, stored, copies, port>>

SendServiceBus(c) ==
  /\ adapter = "servicebus"
  /\ \/ topic = Absent /\ Up(c, "send", "missing") /\ UNCHANGED service
     \/ Fails(c, "send") /\ UNCHANGED service
     \/ topic # Absent /\ HasProducer(c[1]) /\ Answered(c, "send", "resolved",
          CopyTo(groups, c[2]) /\ UNCHANGED <<topic, groups, stored, port>>)
  /\ Elsewhere /\ UNCHANGED object

-----------------------------------------------------------------------------
(* NATS JetStream *)

AfterStream(c) == IF IsPublish(c) THEN "send" ELSE "attach"

CallNats(c, ensure) ==
  /\ adapter = "nats" /\ Called(c, ensure)
  /\ Go(c, stage[c], IF ensure THEN "manager" ELSE AfterStream(c))
  /\ UNCHANGED <<adapter, service, todo, removed, wire, push, local, object, life>>

(* jetstreamManager asks the server for the account. *)
Manager(c) ==
  /\ adapter = "nats" /\ (Up(c, "manager", "look") \/ Fails(c, "manager"))
  /\ Elsewhere /\ UNCHANGED <<service, object>>

StreamInfoQuiet(c) ==
  /\ adapter = "nats"
  /\ topic # Absent \/ NetworkFails
  /\ Go(c, "look", AfterStream(c))
  /\ Elsewhere /\ UNCHANGED <<service, object>>

(* Whatever makes streams.info fail, the stream is created. *)
StreamInfo(c) ==
  /\ adapter = "nats"
  /\ \/ topic # Absent /\ Up(c, "look", AfterStream(c))
     \/ /\ topic = Absent \/ NetworkFails \/ closing[c[1]] # "open"
        /\ Go(c, "look", "create")
  /\ Elsewhere /\ UNCHANGED <<service, object>>

(* streams.add of a stream that exists is fine if the options are the same. *)
StreamAdd(c) ==
  LET created == topic' = Options[c[1]] /\ UNCHANGED <<groups, stored, copies, port>> IN
  /\ adapter = "nats"
  /\ \/ topic \in {Absent, Options[c[1]]} /\ Answered(c, "create", AfterStream(c), created)
     \/ /\ topic \notin {Absent, Options[c[1]]}
        /\ Up(c, "create", "refused") /\ UNCHANGED service
     \/ Fails(c, "create") /\ UNCHANGED service
  /\ Elsewhere /\ UNCHANGED object

SendNatsAnonymous(c) ==
  /\ adapter = "nats"
  /\ \/ topic = Absent /\ Up(c, "send", "missing") /\ UNCHANGED service
     \/ topic # Absent /\ Answered(c, "send", "resolved",
          /\ stored' = [stored EXCEPT ![c[2]] = More(@)]
          /\ CopyTo(groups, c[2])
          /\ UNCHANGED <<topic, groups, port>>)
  /\ Elsewhere /\ UNCHANGED object

(* js.publish with msgID: the stream takes an id once. *)
SendNats(c) ==
  /\ adapter = "nats"
  /\ \/ topic = Absent /\ Up(c, "send", "missing") /\ UNCHANGED service
     \/ topic # Absent /\ stored[c[2]] = 0 /\ Answered(c, "send", "resolved",
          /\ stored' = [stored EXCEPT ![c[2]] = 1]
          /\ CopyTo(groups, c[2])
          /\ UNCHANGED <<topic, groups, port>>)
     \/ /\ topic # Absent /\ stored[c[2]] # 0
        /\ Answered(c, "send", "resolved", UNCHANGED service)
  /\ Elsewhere /\ UNCHANGED object

(* DeliverPolicy.All: a new durable consumer begins with the stream. *)
AttachNats(c) ==
  /\ adapter = "nats"
  /\ \/ topic = Absent /\ Up(c, "attach", "missing") /\ UNCHANGED service
     \/ topic # Absent /\ Answered(c, "attach", "resolved",
          /\ groups' = groups \cup {c[2]}
          /\ copies' = IF c[2] \in groups THEN copies ELSE [copies EXCEPT ![c[2]] = stored]
          /\ UNCHANGED <<topic, stored, port>>)
  /\ opened' = [opened EXCEPT ![c[1]] =
                  IF stage'[c] = "resolved" THEN @ \cup {<<"consumer", c[2]>>} ELSE @]
  /\ Elsewhere /\ UNCHANGED listed

-----------------------------------------------------------------------------
(* Pulsar *)

CallPulsar(c) ==
  /\ adapter = "pulsar" /\ Called(c, TRUE)
  /\ Go(c, stage[c], CASE IsSubscribe(c) -> "attach"
                       [] Producers(c[1]) = {} -> "producer"
                       [] OTHER -> "send")
  /\ UNCHANGED <<adapter, service, todo, removed, wire, push, local, object, life>>

CreateProducerInArray(c) ==
  LET b == c[1]  r == <<"producer", c[2]>> IN
  /\ adapter = "pulsar"
  /\ \/ Up(c, "producer", "send") /\ Open(b, r)
     \/ Fails(c, "producer") /\ UNCHANGED object
  /\ Elsewhere /\ UNCHANGED service

(* The map was read before the await: another call may have set it meanwhile,
   and its producer drops out of the map. *)
CreateProducer(c) ==
  LET b == c[1]  r == <<"producer", c[2]>> IN
  /\ adapter = "pulsar"
  /\ \/ /\ Up(c, "producer", "send")
        /\ opened' = [opened EXCEPT ![b] = @ \cup {r}]
        /\ listed' = [listed EXCEPT ![b] = (@ \ Producers(b)) \cup {r}]
     \/ Fails(c, "producer") /\ UNCHANGED object
  /\ Elsewhere /\ UNCHANGED service

SendPulsar(c) ==
  /\ adapter = "pulsar"
  /\ \/ Fails(c, "send") /\ UNCHANGED service
     \/ HasProducer(c[1]) /\ Answered(c, "send", "resolved",
          CopyTo(groups, c[2]) /\ UNCHANGED <<topic, groups, stored, port>>)
  /\ Elsewhere /\ UNCHANGED object

AttachPulsar(c) ==
  /\ adapter = "pulsar"
  /\ Answered(c, "attach", "resolved",
       groups' = groups \cup {c[2]} /\ UNCHANGED <<topic, stored, copies, port>>)
  /\ IF stage'[c] = "resolved" THEN Open(c[1], <<"consumer", c[2]>>) ELSE UNCHANGED object
  /\ Elsewhere

-----------------------------------------------------------------------------
(* ActiveMQ *)

(* publish hands the frame to the producer's connection and resolves. *)
CallActiveMQ(c) ==
  /\ adapter = "activemq" /\ Called(c, TRUE)
  /\ IF IsPublish(c)
       THEN /\ Go(c, stage[c], "resolved")
            /\ wire' = [wire EXCEPT ![c[1]] =
                          IF c[1] \in client THEN Append(@, c[2]) ELSE @]
       ELSE Go(c, stage[c], "attach") /\ UNCHANGED wire
  /\ UNCHANGED <<adapter, service, todo, removed, push, local, object, life>>

(* A connection of its own, kept nowhere; its SUBSCRIBE frame is under way when
   subscribe resolves. *)
AttachActiveMQ(c) ==
  /\ adapter = "activemq"
  /\ \/ /\ Go(c, "attach", "resolved")
        /\ opened' = [opened EXCEPT ![c[1]] = @ \cup {<<"consumer", c[2]>>}]
     \/ NetworkFails /\ Go(c, "attach", "failed") /\ UNCHANGED opened
  /\ Elsewhere /\ UNCHANGED <<service, listed>>

SubscribeArrives(b, g) ==
  /\ adapter = "activemq" /\ <<"consumer", g>> \in opened[b] /\ g \notin groups
  /\ groups' = groups \cup {g}
  /\ UNCHANGED <<adapter, topic, stored, copies, port, stage, call, wire, push, local, object, life>>

(* The server puts a copy into the queue of every group. *)
SendArrives(b) ==
  /\ wire[b] # <<>>
  /\ CopyTo(groups, Head(wire[b])) /\ wire' = [wire EXCEPT ![b] = Tail(@)]
  /\ UNCHANGED <<adapter, topic, groups, stored, port, stage, call, push, local, object, life>>

(* The producer's connection is lost, with what is under way. *)
ConnectionLost(b) ==
  /\ adapter = "activemq" /\ NetworkFails /\ b \in client
  /\ client' = client \ {b} /\ wire' = [wire EXCEPT ![b] = <<>>]
  /\ UNCHANGED <<adapter, service, stage, call, push, local, object, closing, atClose>>

-----------------------------------------------------------------------------
(* BullMQ *)

(* getOrCreateQueue: without an await, but its callers await it. For publish, the
   queue may be closed in between as it may be until the job is added. *)
OpenQueue(b, g) ==
  LET new == {r \in {<<"producer", g>>} : r \notin listed[b]} IN
  /\ opened' = [opened EXCEPT ![b] = @ \cup new]
  /\ listed' = [listed EXCEPT ![b] = @ \cup new]

CallBullMQ(c, ensure) ==
  LET b == c[1] IN
  /\ adapter = "bullmq" /\ Called(c, ensure)
  /\ \/ /\ IsPublish(c) /\ ~ensure
        /\ Go(c, stage[c], "refused") /\ UNCHANGED <<todo, object>>
     \/ /\ IsPublish(c) /\ ensure /\ Go(c, stage[c], "send")
        /\ todo' = [todo EXCEPT ![c] = GroupNames]
        /\ OpenQueue(b, Head(GroupNames))
     \/ /\ IsSubscribe(c) /\ ensure /\ Go(c, stage[c], "attach")
        /\ OpenQueue(b, c[2]) /\ UNCHANGED todo
  /\ UNCHANGED <<adapter, service, removed, wire, push, local, life>>

(* The worker comes after the await of the queue, also when close has been called in
   between and has gone past the workers. *)
AttachBullMQ(c) ==
  /\ adapter = "bullmq" /\ Go(c, "attach", "resolved")
  /\ Open(c[1], <<"consumer", c[2]>>)
  /\ Elsewhere /\ UNCHANGED service

(* A queue takes a job id once, as long as it has the job. *)
AddJob(c) ==
  LET g == Head(todo[c])  m == c[2] IN
  /\ copies' = [copies EXCEPT ![g][m] =
                  IF @ = 0 \/ <<g, m>> \in removed THEN More(@) ELSE @]
  /\ UNCHANGED <<topic, groups, stored, port>>

(* ack removes a job that is no longer active: once the handler has returned. *)
RemoveJob(g, m) ==
  /\ adapter = "bullmq" /\ copies[g][m] = 1
  /\ \E b \in Brokers : <<"consumer", g>> \in opened[b]
  /\ removed' = removed \cup {<<g, m>>}
  /\ UNCHANGED <<adapter, service, stage, ensured, before, todo, wire, push, local, object, life>>

AddFails(c) ==
  /\ NetworkFails \/ <<"producer", Head(todo[c])>> \notin opened[c[1]]
  /\ Go(c, "send", "failed") /\ todo' = [todo EXCEPT ![c] = <<>>]
  /\ UNCHANGED object

SendBullMQQuiet(c) ==
  /\ adapter = "bullmq" /\ stage[c] = "send"
  /\ \/ <<"producer", Head(todo[c])>> \in opened[c[1]] /\ AddJob(c)
     \/ NetworkFails /\ UNCHANGED service
  /\ todo' = [todo EXCEPT ![c] = Tail(@)]
  /\ IF Len(todo[c]) > 1
       THEN UNCHANGED stage /\ OpenQueue(c[1], todo[c][2])
       ELSE Go(c, "send", "resolved") /\ UNCHANGED object
  /\ UNCHANGED <<adapter, ensured, before, removed, wire, push, local, life>>

(* One group after the other; the first failure ends publish. *)
SendBullMQ(c) ==
  /\ adapter = "bullmq" /\ stage[c] = "send"
  /\ \/ /\ <<"producer", Head(todo[c])>> \in opened[c[1]] /\ AddJob(c)
        /\ todo' = [todo EXCEPT ![c] = Tail(@)]
        /\ IF Len(todo[c]) > 1
             THEN UNCHANGED stage /\ OpenQueue(c[1], todo[c][2])
             ELSE Go(c, "send", "resolved") /\ UNCHANGED object
     \/ AddFails(c) /\ (AddJob(c) \/ UNCHANGED service)
  /\ UNCHANGED <<adapter, ensured, before, removed, wire, push, local, life>>

-----------------------------------------------------------------------------
(* ZeroMQ *)

Sending(b) == \E m \in Messages : <<b, m>> \in Calls /\ stage[<<b, m>>] = "send"

(* One send at a time, or the library throws; it may also throw while the socket
   is being bound, which publish does not wait for. *)
CallZeroMQ(c) ==
  LET b == c[1]  binding == push[b] \in {"none", "binding"} IN
  /\ adapter = "zeromq" /\ Called(c, TRUE)
  /\ \/ /\ IsPublish(c)
        /\ \/ ~Sending(b) /\ Go(c, stage[c], "send")
           \/ (Sending(b) \/ binding) /\ Go(c, stage[c], "failed")
        /\ push' = [push EXCEPT ![b] = IF @ = "none" THEN "binding" ELSE @]
        /\ IF push[b] = "none" THEN Open(b, <<"producer", c[2]>>) ELSE UNCHANGED object
     \/ IsSubscribe(c) /\ Go(c, stage[c], "attach") /\ UNCHANGED <<push, object>>
  /\ UNCHANGED <<adapter, service, todo, removed, wire, local, life>>

(* bind fails if another process has the port; the socket stays in the map. *)
Bind(b) ==
  /\ push[b] = "binding"
  /\ \/ port = Nobody /\ port' = b /\ push' = [push EXCEPT ![b] = "bound"]
     \/ port # Nobody /\ push' = [push EXCEPT ![b] = "unbound"] /\ UNCHANGED port
  /\ UNCHANGED <<adapter, topic, groups, stored, copies, stage, call, wire, local, object,
                 life>>

(* The pull socket is in no list. *)
AttachZeroMQ(c) ==
  /\ adapter = "zeromq" /\ Go(c, "attach", "resolved")
  /\ opened' = [opened EXCEPT ![c[1]] = @ \cup {<<"consumer", c[2]>>}]
  /\ groups' = groups \cup {c[2]}
  /\ Elsewhere /\ UNCHANGED <<topic, stored, copies, port, listed>>

(* send resolves when the message is in the local pipe to one peer. The pull sockets of
   all groups connect to the one port (what follows the number is ignored). *)
SendZeroMQ(c) ==
  /\ adapter = "zeromq" /\ push[c[1]] = "bound" /\ Go(c, "send", "resolved")
  /\ \E s \in Calls : /\ IsSubscribe(s) /\ <<"consumer", s[2]>> \in opened[s[1]]
                      /\ pipe' = pipe \cup {<<c, s>>}
  /\ UNCHANGED <<adapter, service, call, wire, push, lost, object, life>>

PipeArrives(p) ==
  /\ p \in pipe /\ pipe' = pipe \ {p}
  /\ CopyTo({p[2][2]}, p[1][2])
  /\ UNCHANGED <<adapter, topic, groups, stored, port, stage, call, wire, push, lost,
                 object, life>>

Lose(gone) == pipe' = pipe \ gone /\ lost' = lost \cup {p[1] : p \in gone}

(* The connection to the pull socket of s breaks, with what is in the pipe. *)
PeerLost(s) ==
  /\ NetworkFails
  /\ \E p \in pipe : p[2] = s
  /\ Lose({p \in pipe : p[2] = s})
  /\ UNCHANGED <<adapter, service, stage, call, wire, push, object, life>>

-----------------------------------------------------------------------------
(* close *)

Closing(b, from, to) ==
  closing[b] = from /\ closing' = [closing EXCEPT ![b] = to]

KindOf(b, kind) == {r \in opened[b] \cap listed[b] : r[1] = kind}

FirstStep ==
  CASE adapter = "nats" -> "client"
    [] adapter = "activemq" -> "closed"
    [] adapter = "zeromq" -> "producers"
    [] OTHER -> "consumers"

(* ActiveMQ: what has been sent before the DISCONNECT frame arrives. *)
Close(b) ==
  /\ b \in Closers /\ Closing(b, "open", FirstStep)
  /\ atClose' = [atClose EXCEPT ![b] = opened[b]]
  /\ UNCHANGED <<adapter, service, stage, call, wire, push, local, object, client>>

OnClose == UNCHANGED <<adapter, topic, groups, stored, copies, call, wire, listed, atClose>>

CloseListedOnly(b) ==
  /\ adapter \in {"servicebus", "pulsar"}
  /\ \/ /\ Closing(b, "consumers", "producers")
        /\ opened' = [opened EXCEPT ![b] = @ \ KindOf(b, "consumer")]
     \/ /\ Closing(b, "producers", "closed")
        /\ opened' = [opened EXCEPT ![b] = @ \ KindOf(b, "producer")]
  /\ OnClose /\ UNCHANGED <<port, stage, push, local, client>>

(* Service Bus and Pulsar close all receivers, then all senders of the map. *)
CloseListed(b) ==
  /\ adapter \in {"servicebus", "pulsar"}
  /\ \/ /\ Closing(b, "consumers", "producers")
        /\ opened' = [opened EXCEPT ![b] = @ \ KindOf(b, "consumer")]
     \/ /\ Closing(b, "producers", "client")
        /\ opened' = [opened EXCEPT ![b] = @ \ KindOf(b, "producer")]
  /\ OnClose /\ UNCHANGED <<port, stage, push, local, client>>

(* The client takes with it what belongs to it. *)
CloseClient(b) ==
  /\ Closing(b, "client", "closed")
  /\ client' = client \ {b} /\ opened' = [opened EXCEPT ![b] = {}]
  /\ OnClose /\ UNCHANGED <<port, stage, push, local>>

(* BullMQ closes one worker after the other, then one queue after the other; the
   loops see what is added meanwhile. *)
CloseBullMQ(b) ==
  LET Step(kind) == IF kind = "consumer" THEN "consumers" ELSE "producers" IN
  /\ adapter = "bullmq"
  /\ \E kind \in {"consumer", "producer"} :
       \/ /\ closing[b] = Step(kind) /\ UNCHANGED closing
          /\ \E r \in KindOf(b, kind) : opened' = [opened EXCEPT ![b] = @ \ {r}]
       \/ /\ KindOf(b, kind) = {}
          /\ Closing(b, Step(kind), IF kind = "consumer" THEN "producers" ELSE "closed")
          /\ UNCHANGED opened
  /\ OnClose /\ UNCHANGED <<port, stage, push, local, client>>

(* What is in the pipes of the socket arrives nevertheless, or is lost. *)
CloseZeroMQ(b) ==
  /\ adapter = "zeromq" /\ Closing(b, "producers", "closed")
  /\ opened' = [opened EXCEPT ![b] = @ \ KindOf(b, "producer")]
  /\ port' = IF port = b THEN Nobody ELSE port
  /\ push' = [push EXCEPT ![b] = "none"]
  /\ stage' = [c \in Calls |-> IF c[1] = b /\ stage[c] = "send" THEN "failed" ELSE stage[c]]
  /\ \E gone \in SUBSET {p \in pipe : p[1][1] = b} : Lose(gone)
  /\ OnClose /\ UNCHANGED client

(* One close that rejects ends the whole. *)
CloseFails(b) ==
  /\ NetworkFails
  /\ \E from \in {"consumers", "producers", "client"} : Closing(b, from, "failed")
  /\ OnClose /\ UNCHANGED <<port, stage, push, local, opened, client>>

-----------------------------------------------------------------------------
(* Pulsar, ActiveMQ and ZeroMQ do not read opts.ensure. *)
Call(c) ==
  \/ CallPulsar(c) \/ CallActiveMQ(c) \/ CallZeroMQ(c)
  \/ \E ensure \in BOOLEAN :
       CallServiceBus(c, ensure) \/ CallNats(c, ensure) \/ CallBullMQ(c, ensure)

Publish(c) ==
  /\ IsPublish(c)
  /\ \/ SendServiceBus(c) \/ SendNats(c) \/ CreateProducer(c) \/ SendPulsar(c)
     \/ SendBullMQ(c) \/ SendZeroMQ(c)

Subscribe(c) ==
  /\ IsSubscribe(c)
  /\ \/ SubscriptionExists(c) \/ CreateSubscription(c)
     \/ AttachNats(c) \/ AttachPulsar(c) \/ AttachActiveMQ(c) \/ AttachBullMQ(c)
     \/ AttachZeroMQ(c)

Ensure(c) == TopicExists(c) \/ CreateTopic(c) \/ Manager(c) \/ StreamInfo(c) \/ StreamAdd(c)

Next ==
  \/ \E c \in Calls :
       Ensure(c) \/ Publish(c) \/ Subscribe(c) \/ Call(c)
  \/ \E b \in Brokers :
       \/ SendArrives(b) \/ ConnectionLost(b) \/ Bind(b)
       \/ \E g \in Groups : SubscribeArrives(b, g)
       \/ Close(b) \/ CloseListed(b) \/ CloseClient(b) \/ CloseBullMQ(b) \/ CloseZeroMQ(b)
       \/ CloseFails(b)
  \/ \E g \in Groups, m \in Messages : RemoveJob(g, m)
  \/ \E p \in pipe : PipeArrives(p)
  \/ \E s \in Calls : PeerLost(s)

Spec == Init /\ [][Next]_vars

-----------------------------------------------------------------------------
(* Properties *)

OnWire(b, m) == Contains(wire[b], m)

(* When publish resolves, every group that was set up before the call has a copy,
   with BullMQ every group it names: also when topics were created by several
   calls at once, when lookups failed, and when the call repeats one that failed
   half-way. ActiveMQ may still lose the frame, with the connection. ZeroMQ gives the
   message to one group only, and until it is there it may be lost from the pipe, with
   the peer or by close. *)
ResolvedReachesAll ==
  \A c \in Calls : IsPublish(c) /\ stage[c] = "resolved" =>
    LET Has(g) == copies[g][c[2]] > 0 IN
    CASE adapter = "bullmq" -> \A g \in ToSet(GroupNames) : Has(g)
      [] adapter = "activemq" ->
           \/ \A g \in before[c] : Has(g)
           \/ OnWire(c[1], c[2]) \/ c[1] \notin client
      [] adapter = "zeromq" ->
           (\E g \in Groups : Has(g)) \/ c \in lost \/ \E p \in pipe : p[1] = c
      [] OTHER -> \A g \in before[c] : Has(g)

(* NATS and BullMQ keep one copy of a message, however often publish has failed,
   with or without effect, and been repeated; a second job comes only after an ack
   that came so late that it removed the first one. *)
RetriedStoredOnce ==
  adapter \in {"nats", "bullmq"} => \A g \in Groups, m \in Messages :
    copies[g][m] > 1 => <<g, m>> \in removed

(* A call that ensures does not find the topic missing afterwards. It is refused
   only because another call has created the topic (or, with Service Bus, the
   subscription) since it looked, or, with NATS, because the stream exists with
   other options: a repeated call finds what it needs. *)
EnsuredFindsTopic ==
  \A c \in ensured :
    /\ stage[c] # "missing"
    /\ stage[c] = "refused" =>
         CASE adapter = "servicebus" -> topic # Absent
           [] adapter = "nats" -> topic \notin {Absent, Options[c[1]]}
           [] OTHER -> FALSE

(* When close has resolved, nothing is open with Service Bus, NATS and Pulsar, also
   not what calls that were under way have opened since, or producers that had dropped
   out of the map. With BullMQ nothing is open that was when close was called: what a
   call under way adds behind the loops stays open. With ZeroMQ the push socket is
   closed; the pull sockets, which no list has, stay open. That of ActiveMQ promises
   nothing: it does not wait for the DISCONNECT of the producer's connection, and leaves
   those of the consumers. *)
CloseReleases ==
  \A b \in Brokers : closing[b] = "closed" /\ adapter # "activemq" =>
    CASE adapter = "bullmq" -> opened[b] \cap atClose[b] = {}
      [] adapter = "zeromq" -> push[b] = "none" /\ ~HasProducer(b)
      [] OTHER -> opened[b] = {}
=============================================================================
