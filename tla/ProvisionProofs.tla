-------------------------- MODULE ProvisionProofs --------------------------
(***************************************************************************)
(* What Provision.tla's model of six adapters guarantees for all sets of   *)
(* brokers, messages, groups and calls, all stream options and every       *)
(* environment.                                                            *)
(***************************************************************************)
EXTENDS Provision, FiniteSetTheorems, SequenceTheorems, TLAPS

(* One entry of a table is replaced. *)
LEMMA EntryFact ==
  ASSUME NEW I, NEW J, NEW V, NEW f \in [I -> [J -> V]], NEW i \in I, NEW j \in J, NEW v \in V
  PROVE  /\ [f EXCEPT ![i][j] = v] \in [I -> [J -> V]]
         /\ \A x \in I, y \in J :
              [f EXCEPT ![i][j] = v][x][y] = IF x = i /\ y = j THEN v ELSE f[x][y]
  OBVIOUS

Stages == {"idle"} \cup Waits \cup Ends
Phases == {"open", "consumers", "producers", "client", "closed", "failed"}

(* The parts of the type invariant. *)
ServiceTyped ==
  /\ topic \in {Absent} \cup {Options[b] : b \in Brokers} /\ groups \subseteq Groups
  /\ stored \in [Messages -> 0..2] /\ copies \in [Groups -> [Messages -> 0..2]]
  /\ port \in Brokers \cup {Nobody}

CallTyped ==
  /\ stage \in [Calls -> Stages] /\ ensured \subseteq Calls
  /\ before \in [Calls -> SUBSET groups] /\ todo \in [Calls -> Seq(Groups)]
  /\ removed \in SUBSET (Groups \X Messages)

ObjectTyped ==
  /\ wire \in [Brokers -> Seq(Messages)]
  /\ push \in [Brokers -> {"none", "binding", "bound", "unbound"}]
  /\ opened \in [Brokers -> SUBSET Resources] /\ listed \in [Brokers -> SUBSET Resources]
  /\ client \subseteq Brokers /\ closing \in [Brokers -> Phases]
  /\ atClose \in [Brokers -> SUBSET Resources]

Typed == adapter \in Adapters /\ ServiceTyped /\ CallTyped /\ ObjectTyped

(* A call is a publish of a message or a subscribe of a group, never both. *)
LEMMA CallFact ==
  ASSUME NEW c \in Calls
  PROVE  /\ c[1] \in Brokers /\ c[2] \in Messages \cup Groups
         /\ IsPublish(c) <=> c[2] \in Messages
         /\ IsSubscribe(c) <=> c[2] \in Groups
         /\ ~(IsPublish(c) /\ IsSubscribe(c)) /\ (IsPublish(c) \/ IsSubscribe(c))
         /\ \A kind \in {"producer", "consumer"} : <<kind, c[2]>> \in Resources
  <1>1. PICK a \in Adapters : c \in CallsOf[a]
    BY DEF Calls
  <1>2. c \in Brokers \X (Messages \cup Groups)
    BY <1>1, ProvisionAssumption
  <1>3. Messages \cap Groups = {}
    BY ProvisionAssumption
  <1> QED
    BY <1>2, <1>3 DEF IsPublish, IsSubscribe, Resources

-----------------------------------------------------------------------------
(* The service: topic, groups and copies only grow. *)
Grows ==
  /\ UNCHANGED adapter
  /\ topic # Absent => topic' = topic
  /\ groups \subseteq groups'
  /\ \A g \in Groups, m \in Messages : copies[g][m] > 0 => copies'[g][m] > 0

(* A step that leaves the service alone keeps its types and what it has. *)
LEMMA SameService ==
  ASSUME ServiceTyped, UNCHANGED <<adapter, topic, groups, stored, copies, port>>
  PROVE  ServiceTyped' /\ Grows
  BY DEF ServiceTyped, Grows

(* Counting one more copy, up to two, leaves at least one. *)
LEMMA MoreFact ==
  ASSUME NEW n \in 0..2
  PROVE  More(n) \in 0..2 /\ More(n) > 0
  BY DEF More

(* Counting one more at one place of a table changes that place alone. *)
LEMMA RowFact ==
  ASSUME NEW I, NEW f \in [I -> 0..2], NEW i \in I
  PROVE  /\ [f EXCEPT ![i] = More(@)] \in [I -> 0..2]
         /\ \A j \in I : [f EXCEPT ![i] = More(@)][j] = IF j = i THEN More(f[i]) ELSE f[j]
  BY MoreFact

(* Copying a message to a set of groups adds copies there and nowhere else. *)
LEMMA CopyToFact ==
  ASSUME ServiceTyped, NEW S, NEW m \in Messages, CopyTo(S, m)
  PROVE  /\ copies' \in [Groups -> [Messages -> 0..2]]
         /\ \A g \in Groups, l \in Messages :
              copies'[g][l] = IF g \in S /\ l = m THEN More(copies[g][l]) ELSE copies[g][l]
         /\ \A g \in Groups, l \in Messages : copies[g][l] > 0 => copies'[g][l] > 0
         /\ \A g \in Groups : g \in S => copies'[g][m] > 0
  <1>1. \A n \in 0..2 : More(n) > 0
    BY MoreFact
  <1>2. \A g \in Groups : copies[g] \in [Messages -> 0..2]
    BY DEF ServiceTyped
  <1>3. \A g \in Groups :
          copies'[g] = IF g \in S THEN [copies[g] EXCEPT ![m] = More(@)] ELSE copies[g]
    BY DEF CopyTo
  <1>4. ASSUME NEW g \in Groups
        PROVE  /\ copies'[g] \in [Messages -> 0..2]
               /\ \A l \in Messages :
                    copies'[g][l] = IF g \in S /\ l = m THEN More(copies[g][l]) ELSE copies[g][l]
    <2>1. copies[g] \in [Messages -> 0..2]
      BY <1>2
    <2>2. CASE g \in S
      <3>1. copies'[g] = [copies[g] EXCEPT ![m] = More(@)]
        BY <1>3, <2>2
      <3>2. /\ [copies[g] EXCEPT ![m] = More(@)] \in [Messages -> 0..2]
            /\ \A l \in Messages : [copies[g] EXCEPT ![m] = More(@)][l]
                                     = IF l = m THEN More(copies[g][m]) ELSE copies[g][l]
        BY <2>1, RowFact
      <3> QED
        BY <2>2, <3>1, <3>2
    <2>3. CASE g \notin S
      BY <1>3, <2>1, <2>3
    <2> QED
      BY <2>2, <2>3
  <1>5. \A g \in Groups, l \in Messages :
          copies'[g][l] = IF g \in S /\ l = m THEN More(copies[g][l]) ELSE copies[g][l]
    BY <1>4
  <1>6. copies' \in [Groups -> [Messages -> 0..2]]
    BY <1>4 DEF CopyTo
  <1> QED
    BY <1>1, <1>2, <1>5, <1>6

(* A message copied to groups keeps the service's types, and nothing is *)
(* lost.                                                                *)
LEMMA CopiesService ==
  ASSUME ServiceTyped, NEW S, NEW m \in Messages, CopyTo(S, m),
         UNCHANGED <<adapter, topic, groups, port>>, stored' \in [Messages -> 0..2]
  PROVE  ServiceTyped' /\ Grows
  <1>1. /\ copies' \in [Groups -> [Messages -> 0..2]]
        /\ \A g \in Groups, l \in Messages : copies[g][l] > 0 => copies'[g][l] > 0
    BY CopyToFact
  <1> QED
    BY <1>1 DEF ServiceTyped, Grows

(* One more group keeps the service's types, and nothing is lost. *)
LEMMA GroupsService ==
  ASSUME ServiceTyped, UNCHANGED <<adapter, topic, stored, copies, port>>,
         NEW g \in Groups, groups' = groups \cup {g}
  PROVE  ServiceTyped' /\ Grows
  BY DEF ServiceTyped, Grows

(* A topic that is created, or left as it is, keeps the service's types. *)
LEMMA TopicService ==
  ASSUME ServiceTyped, UNCHANGED <<adapter, groups, stored, copies, port>>,
         NEW b \in Brokers, topic' = topic \/ (topic \in {Absent, Options[b]} /\ topic' = Options[b])
  PROVE  ServiceTyped' /\ Grows
  <1>1. topic' \in {Absent} \cup {Options[d] : d \in Brokers}
    BY DEF ServiceTyped
  <1>2. topic # Absent => topic' = topic
    OBVIOUS
  <1> QED
    BY <1>1, <1>2 DEF ServiceTyped, Grows

(* With NATS, a group that has a consumer has what is in the stream. *)
NatsCopies ==
  adapter = "nats" => \A m \in Messages :
    /\ stored[m] \in {0, 1}
    /\ \A g \in Groups : copies[g][m] = IF g \in groups THEN stored[m] ELSE 0

(* A NATS publish, and the catching up of a new durable, keep the service's *)
(* types.                                                                   *)
LEMMA NatsService ==
  ASSUME ServiceTyped, NatsCopies, NEW c \in Calls, (SendNats(c) /\ IsPublish(c)) \/ (AttachNats(c) /\ IsSubscribe(c))
  PROVE  ServiceTyped' /\ Grows
  <1>1. UNCHANGED adapter
    BY DEF SendNats, AttachNats, Elsewhere
  <1>2. CASE SendNats(c) /\ IsPublish(c)
    <2>1. c[2] \in Messages
      BY <1>2, CallFact
    <2>2. CASE UNCHANGED service
      BY <1>1, <2>2, SameService DEF service
    <2>3. CASE /\ stored' = [stored EXCEPT ![c[2]] = 1]
               /\ CopyTo(groups, c[2])
               /\ UNCHANGED <<topic, groups, port>>
      <3>1. stored' \in [Messages -> 0..2]
        <4>1. 1 \in 0..2
          OBVIOUS
        <4> QED
          BY <2>3, <4>1 DEF ServiceTyped
      <3> QED
        BY <1>1, <2>1, <2>3, <3>1, CopiesService
    <2> QED
      BY <1>2, <2>2, <2>3 DEF SendNats, Answered
  <1>3. CASE AttachNats(c) /\ IsSubscribe(c)
    <2>1. c[2] \in Groups
      BY <1>3, CallFact
    <2>2. CASE UNCHANGED service
      BY <1>1, <2>2, SameService DEF service
    <2>3. CASE /\ groups' = groups \cup {c[2]}
               /\ copies' = IF c[2] \in groups THEN copies ELSE [copies EXCEPT ![c[2]] = stored]
               /\ UNCHANGED <<topic, stored, port>>
      <3>1. copies' \in [Groups -> [Messages -> 0..2]]
        BY <2>1, <2>3 DEF ServiceTyped
      <3>2. \A g \in Groups, m \in Messages : copies[g][m] > 0 => copies'[g][m] > 0
        <4>1. adapter = "nats"
          BY <1>3 DEF AttachNats
        <4>2. \A g \in Groups, m \in Messages : g \notin groups => copies[g][m] = 0
          BY <4>1 DEF NatsCopies
        <4>3. \A g \in Groups : g # c[2] \/ g \in groups => copies'[g] = copies[g]
          BY <2>3 DEF ServiceTyped
        <4> QED
          BY <4>2, <4>3
      <3>3. groups' \subseteq Groups /\ groups \subseteq groups'
        BY <2>1, <2>3 DEF ServiceTyped
      <3> QED
        BY <1>1, <2>3, <3>1, <3>2, <3>3 DEF ServiceTyped, Grows
    <2> QED
      BY <1>3, <2>2, <2>3 DEF AttachNats, Answered
  <1> QED
    BY <1>2, <1>3

(* A BullMQ publish has groups to come while it is sending, and only then. *)
TodoInStep == \A c \in Calls : todo[c] # <<>> <=> adapter = "bullmq" /\ stage[c] = "send"

WireQuiet == adapter # "activemq" => \A b \in Brokers : wire[b] = <<>>

(* Only ZeroMQ has pipes; they hold publishes for pull sockets. *)
Piped ==
  /\ pipe \subseteq Pipes /\ lost \subseteq Calls
  /\ adapter # "zeromq" => pipe = {}

Core == Typed /\ TodoInStep /\ WireQuiet /\ NatsCopies /\ Piped

(* A BullMQ publish under way has a first group to add its job to, and the *)
(* rest.                                                                   *)
LEMMA TodoFact ==
  ASSUME Core, NEW c \in Calls, adapter = "bullmq", stage[c] = "send"
  PROVE  /\ todo[c] \in Seq(Groups) /\ todo[c] # <<>> /\ Head(todo[c]) \in Groups
         /\ Tail(todo[c]) \in Seq(Groups)
         /\ Len(todo[c]) > 1 => Tail(todo[c]) # <<>> /\ todo[c][2] \in Groups
         /\ ~(Len(todo[c]) > 1) => Tail(todo[c]) = <<>>
         /\ ToSet(todo[c]) = {Head(todo[c])} \cup ToSet(Tail(todo[c]))
  <1> DEFINE s == todo[c]
  <1>1. s \in Seq(Groups) /\ s # <<>>
    BY DEF Core, Typed, CallTyped, TodoInStep
  <1> HIDE DEF s
  <1>2. /\ Head(s) = s[1] /\ Head(s) \in Groups /\ Tail(s) \in Seq(Groups)
        /\ Len(Tail(s)) = Len(s) - 1
        /\ \A i \in 1..Len(Tail(s)) : Tail(s)[i] = s[i + 1]
    BY <1>1, HeadTailProperties
  <1>3. Len(s) \in Nat \ {0} /\ DOMAIN s = 1..Len(s) /\ DOMAIN Tail(s) = 1..Len(Tail(s))
    BY <1>1, <1>2, EmptySeq, LenProperties
  <1>4. Tail(s) # <<>> <=> Len(Tail(s)) # 0
    BY <1>2, EmptySeq
  <1>5. Len(s) > 1 => Tail(s) # <<>> /\ s[2] \in Groups
    <2>1. Len(s) > 1 => Len(Tail(s)) # 0 /\ 2 \in 1..Len(s)
      BY <1>2, <1>3
    <2>2. 2 \in 1..Len(s) => s[2] \in Groups
      BY <1>1, ElementOfSeq
    <2> QED
      BY <1>4, <2>1, <2>2
  <1>6. ~(Len(s) > 1) => Tail(s) = <<>>
    <2>1. ~(Len(s) > 1) => Len(Tail(s)) = 0
      BY <1>2, <1>3
    <2> QED
      BY <1>4, <2>1
  <1>7. ToSet(s) = {Head(s)} \cup ToSet(Tail(s))
    <2>1. ASSUME NEW x \in ToSet(s)
          PROVE  x \in {Head(s)} \cup ToSet(Tail(s))
      <3>1. PICK i \in 1..Len(s) : x = s[i]
        BY <1>3 DEF ToSet
      <3>2. CASE i = 1
        BY <1>2, <3>1, <3>2
      <3>3. CASE i # 1
        <4>1. i - 1 \in 1..Len(Tail(s)) /\ (i - 1) + 1 = i
          BY <1>2, <1>3, <3>3
        <4>2. x = Tail(s)[i - 1]
          BY <1>2, <3>1, <4>1
        <4> QED
          BY <1>3, <4>1, <4>2 DEF ToSet
      <3> QED
        BY <3>2, <3>3
    <2>2. Head(s) \in ToSet(s)
      <3>1. 1 \in 1..Len(s)
        BY <1>3
      <3> QED
        BY <1>2, <1>3, <3>1 DEF ToSet
    <2>3. ASSUME NEW x \in ToSet(Tail(s))
          PROVE  x \in ToSet(s)
      <3>1. PICK i \in 1..Len(Tail(s)) : x = Tail(s)[i]
        BY <1>3 DEF ToSet
      <3>2. i + 1 \in 1..Len(s) /\ x = s[i + 1]
        BY <1>2, <1>3, <3>1
      <3> QED
        BY <1>3, <3>2 DEF ToSet
    <2> QED
      BY <2>1, <2>2, <2>3
  <1> QED
    BY <1>1, <1>2, <1>5, <1>6, <1>7 DEF s

(* A job that is added reaches the queue of the first group left. *)
LEMMA AddJobFact ==
  ASSUME Core, NEW c \in Calls, IsPublish(c), adapter = "bullmq", stage[c] = "send",
         UNCHANGED adapter, AddJob(c)
  PROVE  /\ ServiceTyped' /\ Grows
         /\ copies'[Head(todo[c])][c[2]] > 0
         /\ \A g \in Groups, m \in Messages :
              \/ copies'[g][m] = copies[g][m] \/ copies'[g][m] <= 1 \/ <<g, m>> \in removed
  <1> DEFINE g == Head(todo[c])
             m == c[2]
             n == IF copies[g][m] = 0 \/ <<g, m>> \in removed THEN More(copies[g][m]) ELSE copies[g][m]
  <1>1. g \in Groups /\ m \in Messages
    BY TodoFact, CallFact
  <1>2. copies \in [Groups -> [Messages -> 0..2]]
    BY DEF Core, Typed, ServiceTyped
  <1>3. copies[g][m] \in 0..2
    BY <1>1, <1>2
  <1>4. n \in 0..2 /\ n > 0 /\ (n = copies[g][m] \/ n <= 1 \/ <<g, m>> \in removed)
    BY <1>3, MoreFact DEF More
  <1>5. copies' = [copies EXCEPT ![g][m] = n] /\ UNCHANGED <<topic, groups, stored, port>>
    BY DEF AddJob
  <1> HIDE DEF n, g, m
  <1>6. \E v \in 0..2 : v = n /\ copies' = [copies EXCEPT ![g][m] = v]
    BY <1>4, <1>5
  <1>7. /\ copies' \in [Groups -> [Messages -> 0..2]]
        /\ \A h \in Groups, l \in Messages :
             copies'[h][l] = IF h = g /\ l = m THEN n ELSE copies[h][l]
    BY <1>1, <1>2, <1>6, EntryFact
  <1>8. ServiceTyped'
    BY <1>5, <1>7 DEF Core, Typed, ServiceTyped
  <1>9. Grows
    BY <1>4, <1>5, <1>7 DEF Grows
  <1>10. copies'[g][m] > 0
    BY <1>1, <1>4, <1>7
  <1>11. \A h \in Groups, l \in Messages :
           \/ copies'[h][l] = copies[h][l] \/ copies'[h][l] <= 1 \/ <<h, l>> \in removed
    BY <1>4, <1>7
  <1> QED
    BY <1>8, <1>9, <1>10, <1>11 DEF g, m

(* The first message on a wire and what remains after it. *)
LEMMA WireFact ==
  ASSUME Core, NEW b \in Brokers, wire[b] # <<>>
  PROVE  /\ Head(wire[b]) \in Messages /\ Tail(wire[b]) \in Seq(Messages)
         /\ \A m : Contains(wire[b], m) => m = Head(wire[b]) \/ Contains(Tail(wire[b]), m)
  <1> DEFINE s == wire[b]
  <1>1. s \in Seq(Messages) /\ s # <<>>
    BY DEF Core, Typed, ObjectTyped
  <1> HIDE DEF s
  <1>2. /\ Head(s) = s[1] /\ Head(s) \in Messages /\ Tail(s) \in Seq(Messages)
        /\ Len(Tail(s)) = Len(s) - 1
        /\ \A i \in 1..Len(Tail(s)) : Tail(s)[i] = s[i + 1]
    BY <1>1, HeadTailProperties
  <1>3. Len(s) \in Nat
    BY <1>1, LenProperties
  <1>4. ASSUME NEW m, Contains(s, m), m # Head(s)
        PROVE  Contains(Tail(s), m)
    <2>1. PICK i \in 1..Len(s) : s[i] = m
      BY <1>4 DEF Contains
    <2>2. i - 1 \in 1..Len(Tail(s)) /\ (i - 1) + 1 = i
      BY <1>2, <1>3, <1>4, <2>1
    <2> QED
      BY <1>2, <2>1, <2>2 DEF Contains
  <1> QED
    BY <1>2, <1>4 DEF s

(* What waits in a pipe is a publish on its way to a subscriber's group. *)
LEMMA PipeFact ==
  ASSUME Core, NEW p \in pipe
  PROVE  /\ adapter = "zeromq" /\ p[1] \in Calls /\ p[2] \in Calls
         /\ p[1][2] \in Messages /\ p[2][2] \in Groups
  <1>1. adapter = "zeromq" /\ p \in Pipes
    BY DEF Core, Piped
  <1> QED
    BY <1>1 DEF Pipes, IsPublish, IsSubscribe

(* Every step keeps the service's types, and topic, groups and copies grow. *)
LEMMA StepService ==
  ASSUME Core, [Next]_vars
  PROVE  ServiceTyped' /\ Grows
  <1> USE DEF Core, Typed
  <1>1. ASSUME UNCHANGED <<adapter, service>>
        PROVE  ServiceTyped' /\ Grows
    BY <1>1, SameService DEF service
  <1>2. ASSUME NEW c \in Calls, NEW ensure \in BOOLEAN,
               CallServiceBus(c, ensure) \/ CallNats(c, ensure) \/ CallBullMQ(c, ensure)
        PROVE  ServiceTyped' /\ Grows
    BY <1>1, <1>2 DEF CallServiceBus, CallNats, CallBullMQ
  <1>3. ASSUME NEW c \in Calls, CallPulsar(c) \/ CallActiveMQ(c) \/ CallZeroMQ(c)
        PROVE  ServiceTyped' /\ Grows
    BY <1>1, <1>3 DEF CallPulsar, CallActiveMQ, CallZeroMQ
  <1>4. ASSUME NEW c \in Calls, \/ TopicExists(c) \/ Manager(c) \/ StreamInfo(c) \/ SubscriptionExists(c)
                                \/ CreateProducer(c) \/ AttachActiveMQ(c) \/ AttachBullMQ(c)
                                \/ SendZeroMQ(c)
        PROVE  ServiceTyped' /\ Grows
    BY <1>1, <1>4 DEF TopicExists, Manager, StreamInfo, SubscriptionExists, CreateProducer,
                      AttachActiveMQ, AttachBullMQ, SendZeroMQ, Elsewhere
  <1>5. ASSUME NEW c \in Calls, CreateTopic(c)
        PROVE  ServiceTyped' /\ Grows
    <2>1. UNCHANGED <<adapter, groups, stored, copies, port>>
      BY <1>5 DEF CreateTopic, Elsewhere
    <2>2. topic' = topic \/ (topic \in {Absent, Options[c[1]]} /\ topic' = Options[c[1]])
      BY <1>5 DEF CreateTopic
    <2> QED
      BY <2>1, <2>2, CallFact, TopicService
  <1>6. ASSUME NEW c \in Calls, CreateSubscription(c), IsSubscribe(c)
        PROVE  ServiceTyped' /\ Grows
    <2>1. UNCHANGED <<adapter, topic, stored, copies, port>> /\ c[2] \in Groups
      BY <1>6, CallFact DEF CreateSubscription, Elsewhere
    <2>2. groups' = groups \/ groups' = groups \cup {c[2]}
      BY <1>6 DEF CreateSubscription
    <2> QED
      BY <2>1, <2>2, SameService, GroupsService
  <1>7. ASSUME NEW c \in Calls, SendServiceBus(c) \/ SendPulsar(c), IsPublish(c)
        PROVE  ServiceTyped' /\ Grows
    <2>1. UNCHANGED adapter /\ c[2] \in Messages
      BY <1>7, CallFact DEF SendServiceBus, SendPulsar, Elsewhere
    <2>2. UNCHANGED service \/ (CopyTo(groups, c[2]) /\ UNCHANGED <<topic, groups, stored, port>>)
      BY <1>7 DEF SendServiceBus, SendPulsar, Answered
    <2>3. CASE UNCHANGED service
      BY <1>1, <2>1, <2>3
    <2>4. CASE CopyTo(groups, c[2]) /\ UNCHANGED <<topic, groups, stored, port>>
      BY <2>1, <2>4, CopiesService DEF ServiceTyped
    <2> QED
      BY <2>2, <2>3, <2>4
  <1>8. ASSUME NEW c \in Calls, StreamAdd(c)
        PROVE  ServiceTyped' /\ Grows
    <2>1. UNCHANGED adapter
      BY <1>8 DEF StreamAdd, Elsewhere
    <2>2. \/ UNCHANGED service
          \/ /\ topic \in {Absent, Options[c[1]]} /\ topic' = Options[c[1]]
             /\ UNCHANGED <<groups, stored, copies, port>>
      BY <1>8 DEF StreamAdd, Answered
    <2> QED
      BY <1>1, <2>1, <2>2, CallFact, TopicService
  <1>9. ASSUME NEW c \in Calls, AttachPulsar(c), IsSubscribe(c)
        PROVE  ServiceTyped' /\ Grows
    <2>1. UNCHANGED adapter /\ c[2] \in Groups
      BY <1>9, CallFact DEF AttachPulsar, Elsewhere
    <2>2. \/ UNCHANGED service
          \/ groups' = groups \cup {c[2]} /\ UNCHANGED <<topic, stored, copies, port>>
      BY <1>9 DEF AttachPulsar, Answered
    <2> QED
      BY <1>1, <2>1, <2>2, GroupsService
  <1>10. ASSUME NEW b \in Brokers, NEW g \in Groups, SubscribeArrives(b, g)
        PROVE  ServiceTyped' /\ Grows
    BY <1>10, GroupsService DEF SubscribeArrives
  <1>11. ASSUME NEW b \in Brokers, SendArrives(b)
        PROVE  ServiceTyped' /\ Grows
    <2>1. Head(wire[b]) \in Messages
      BY <1>11, WireFact DEF SendArrives
    <2>2. CopyTo(groups, Head(wire[b])) /\ UNCHANGED <<adapter, topic, groups, stored, port>>
      BY <1>11 DEF SendArrives
    <2> QED
      BY <2>1, <2>2, CopiesService DEF ServiceTyped
  <1>12. ASSUME NEW c \in Calls, SendBullMQ(c), IsPublish(c)
        PROVE  ServiceTyped' /\ Grows
    <2>1. UNCHANGED adapter /\ adapter = "bullmq" /\ stage[c] = "send"
      BY <1>12 DEF SendBullMQ
    <2>2. AddJob(c) \/ UNCHANGED service
      BY <1>12 DEF SendBullMQ
    <2> QED
      BY <1>1, <1>12, <2>1, <2>2, AddJobFact
  <1>13. ASSUME NEW c \in Calls, AttachZeroMQ(c), IsSubscribe(c)
        PROVE  ServiceTyped' /\ Grows
    <2>1. c[2] \in Groups
      BY <1>13, CallFact
    <2> QED
      BY <1>13, <2>1, GroupsService DEF AttachZeroMQ, Elsewhere
  <1>14. ASSUME NEW p \in pipe, PipeArrives(p)
        PROVE  ServiceTyped' /\ Grows
    <2>1. CopyTo({p[2][2]}, p[1][2]) /\ UNCHANGED <<adapter, topic, groups, stored, port>>
      BY <1>14 DEF PipeArrives
    <2>2. p[1][2] \in Messages
      BY PipeFact
    <2> QED
      BY <2>1, <2>2, CopiesService DEF ServiceTyped
  <1>15. ASSUME NEW b \in Brokers, Bind(b) \/ CloseZeroMQ(b)
        PROVE  ServiceTyped' /\ Grows
    <2>1. UNCHANGED <<adapter, topic, groups, stored, copies>>
      BY <1>15 DEF Bind, CloseZeroMQ, OnClose
    <2>2. port' \in Brokers \cup {Nobody}
      BY <1>15 DEF Bind, CloseZeroMQ, ServiceTyped
    <2> QED
      BY <2>1, <2>2 DEF ServiceTyped, Grows
  <1>16. ASSUME NEW b \in Brokers,
                \/ ConnectionLost(b) \/ Close(b) \/ CloseListed(b) \/ CloseClient(b)
                \/ CloseBullMQ(b) \/ CloseFails(b)
        PROVE  ServiceTyped' /\ Grows
    BY <1>1, <1>16 DEF ConnectionLost, Close, CloseListed, CloseClient, CloseBullMQ,
                       CloseFails, OnClose, service
  <1>17. ASSUME NEW g \in Groups, NEW m \in Messages, RemoveJob(g, m)
        PROVE  ServiceTyped' /\ Grows
    BY <1>1, <1>17 DEF RemoveJob
  <1>18. CASE UNCHANGED vars \/ \E s \in Calls : PeerLost(s)
    BY <1>1, <1>18 DEF vars, PeerLost
  <1> QED
    BY <1>2, <1>3, <1>4, <1>5, <1>6, <1>7, <1>8, <1>9, <1>10, <1>11, <1>12, <1>13, <1>14,
       <1>15, <1>16, <1>17, <1>18, NatsService
    DEF Next, Ensure, Publish, Subscribe, Call

-----------------------------------------------------------------------------
(* Calls: one call moves on at a time, or close ends the sends of a socket. *)
Moves(c, S) == \E to \in S : Go(c, stage[c], to)

(* A call that goes on is the only one that does. *)
LEMMA GoFact ==
  ASSUME Typed, NEW c \in Calls, NEW from, NEW to \in Stages, Go(c, from, to)
  PROVE  /\ stage' \in [Calls -> Stages] /\ stage[c] = from
         /\ \A d \in Calls : stage'[d] = IF d = c THEN to ELSE stage[d]
  BY DEF Go, Typed, CallTyped

(* A call that moves leaves every call at a stage. *)
LEMMA MovesTyped ==
  ASSUME Typed, NEW c \in Calls, Moves(c, Stages)
  PROVE  stage' \in [Calls -> Stages]
  BY GoFact DEF Moves

(* What the calls that wait for an answer may do. *)
RequestServiceBus(c) ==
  \/ TopicExists(c) \/ CreateTopic(c)
  \/ IsSubscribe(c) /\ (SubscriptionExists(c) \/ CreateSubscription(c))
  \/ IsPublish(c) /\ SendServiceBus(c)

RequestNats(c) ==
  \/ Manager(c) \/ StreamInfo(c) \/ StreamAdd(c)
  \/ IsPublish(c) /\ SendNats(c)
  \/ IsSubscribe(c) /\ AttachNats(c)

RequestOther(c) ==
  \/ IsPublish(c) /\ (CreateProducer(c) \/ SendPulsar(c) \/ SendZeroMQ(c))
  \/ IsSubscribe(c) /\ (AttachPulsar(c) \/ AttachActiveMQ(c) \/ AttachZeroMQ(c))

Request(c) == RequestServiceBus(c) \/ RequestNats(c) \/ RequestOther(c)

(* A request to Service Bus moves its call and touches no wire or socket. *)
LEMMA ServiceBusMoves ==
  ASSUME NEW c \in Calls, RequestServiceBus(c)
  PROVE  Moves(c, Stages) /\ UNCHANGED <<adapter, call, wire, push, life>> /\ adapter = "servicebus"
  <1>1. UNCHANGED <<adapter, call, wire, push, life>> /\ adapter = "servicebus"
    BY DEF RequestServiceBus, TopicExists, CreateTopic, SubscriptionExists, CreateSubscription,
           SendServiceBus, Elsewhere
  <1>2. ASSUME NEW from, Attach(c, from) \/ AfterTopic(c, from) \/ AdminFails(c, from)
        PROVE  Moves(c, Stages)
    BY <1>2 DEF Attach, AfterTopic, AdminFails, Up, Go, Moves, Stages, Waits, Ends
  <1>3. ASSUME TopicExists(c) \/ CreateTopic(c)
        PROVE  Moves(c, Stages)
    <2>1. \/ AfterTopic(c, "look") \/ AfterTopic(c, "create") \/ AdminFails(c, "look")
          \/ AdminFails(c, "create") \/ Go(c, "look", "create") \/ Go(c, "create", "refused")
      BY <1>3 DEF TopicExists, CreateTopic
    <2>2. Go(c, "look", "create") \/ Go(c, "create", "refused") => Moves(c, Stages)
      BY DEF Go, Moves, Stages, Waits, Ends
    <2> QED
      BY <1>2, <2>1, <2>2
  <1>4. ASSUME SubscriptionExists(c) \/ CreateSubscription(c)
        PROVE  Moves(c, Stages)
    <2>1. \/ Attach(c, "lookGroup") \/ Attach(c, "createGroup") \/ AdminFails(c, "lookGroup")
          \/ AdminFails(c, "createGroup") \/ Go(c, "lookGroup", "createGroup")
          \/ Go(c, "createGroup", "refused")
      BY <1>4 DEF SubscriptionExists, CreateSubscription
    <2>2. Go(c, "lookGroup", "createGroup") \/ Go(c, "createGroup", "refused") => Moves(c, Stages)
      BY DEF Go, Moves, Stages, Waits, Ends
    <2> QED
      BY <1>2, <2>1, <2>2
  <1>5. ASSUME SendServiceBus(c)
        PROVE  Moves(c, Stages)
    BY <1>5 DEF SendServiceBus, Answered, Fails, Up, Go, Moves, Stages, Waits, Ends
  <1> QED
    BY <1>1, <1>3, <1>4, <1>5 DEF RequestServiceBus

(* A request to JetStream moves its call and touches no wire or socket. *)
LEMMA NatsMoves ==
  ASSUME NEW c \in Calls, RequestNats(c)
  PROVE  Moves(c, Stages) /\ UNCHANGED <<adapter, call, wire, push, life>> /\ adapter = "nats"
  <1>1. UNCHANGED <<adapter, call, wire, push, life>> /\ adapter = "nats"
    BY DEF RequestNats, Manager, StreamInfo, StreamAdd, SendNats, AttachNats, Elsewhere
  <1>2. ASSUME Manager(c) \/ StreamInfo(c) \/ StreamAdd(c)
        PROVE  Moves(c, Stages)
    BY <1>2 DEF Manager, StreamInfo, StreamAdd, AfterStream, Answered, Fails, Up, Go, Moves,
                Stages, Waits, Ends
  <1>3. ASSUME SendNats(c) \/ AttachNats(c)
        PROVE  Moves(c, Stages)
    BY <1>3 DEF SendNats, AttachNats, Answered, Fails, Up, Go, Moves, Stages, Waits, Ends
  <1> QED
    BY <1>1, <1>2, <1>3 DEF RequestNats

(* A request to the other services moves its call and touches no wire or *)
(* socket.                                                               *)
LEMMA OtherMoves ==
  ASSUME NEW c \in Calls, RequestOther(c)
  PROVE  /\ Moves(c, Stages) /\ UNCHANGED <<adapter, call, wire, push, life>>
         /\ adapter \in {"pulsar", "activemq", "zeromq"}
  <1>1. UNCHANGED <<adapter, call, wire, push, life>> /\ adapter \in {"pulsar", "activemq", "zeromq"}
    BY DEF RequestOther, CreateProducer, SendPulsar, SendZeroMQ, AttachPulsar, AttachActiveMQ,
           AttachZeroMQ, Elsewhere
  <1>2. ASSUME CreateProducer(c) \/ SendPulsar(c) \/ AttachPulsar(c)
        PROVE  Moves(c, Stages)
    BY <1>2 DEF CreateProducer, SendPulsar, AttachPulsar, Answered, Fails, Up, Go, Moves,
                Stages, Waits, Ends
  <1>3. ASSUME AttachActiveMQ(c) \/ AttachZeroMQ(c) \/ SendZeroMQ(c)
        PROVE  Moves(c, Stages)
    BY <1>3 DEF AttachActiveMQ, AttachZeroMQ, SendZeroMQ, Go, Moves, Stages, Waits, Ends
  <1> QED
    BY <1>1, <1>2, <1>3 DEF RequestOther

(* A request moves its call and touches no wire or socket. *)
LEMMA RequestMoves ==
  ASSUME NEW c \in Calls, Request(c)
  PROVE  Moves(c, Stages) /\ UNCHANGED <<adapter, call, wire, push, life>> /\ adapter # "bullmq"
  BY ServiceBusMoves, NatsMoves, OtherMoves DEF Request

(* What a publish or subscribe call changes before its first request. *)
LEMMA CallMoves ==
  ASSUME Typed, NEW c \in Calls, Call(c)
  PROVE  /\ Moves(c, Stages) /\ UNCHANGED <<adapter, service, removed, local, life>>
         /\ \E ensure \in BOOLEAN : Called(c, ensure)
         /\ adapter # "bullmq" => UNCHANGED todo
         /\ adapter # "activemq" => UNCHANGED wire
         /\ adapter # "zeromq" => UNCHANGED push
  <1>1. ASSUME NEW ensure \in BOOLEAN, CallServiceBus(c, ensure)
        PROVE  /\ Moves(c, Stages) /\ UNCHANGED <<adapter, service, todo, removed, wire, push, local, life>>
               /\ Called(c, ensure)
    <2>1. Attach(c, stage[c]) => Moves(c, Stages)
      BY DEF Attach, Up, Go, Moves, Stages, Waits, Ends
    <2>2. Go(c, stage[c], "look") => Moves(c, Stages)
      BY DEF Go, Moves, Stages, Waits, Ends
    <2> QED
      BY <1>1, <2>1, <2>2 DEF CallServiceBus
  <1>2. ASSUME NEW ensure \in BOOLEAN, CallNats(c, ensure)
        PROVE  /\ Moves(c, Stages) /\ UNCHANGED <<adapter, service, todo, removed, wire, push, local, life>>
               /\ Called(c, ensure)
    <2>1. (IF ensure THEN "manager" ELSE AfterStream(c)) \in Stages
      BY DEF AfterStream, Stages, Waits, Ends
    <2> QED
      BY <1>2, <2>1 DEF CallNats, Moves
  <1>3. ASSUME NEW ensure \in BOOLEAN, CallBullMQ(c, ensure)
        PROVE  /\ Moves(c, Stages) /\ UNCHANGED <<adapter, service, removed, wire, push, local, life>>
               /\ Called(c, ensure) /\ adapter = "bullmq"
    <2>1. \A to \in {"send", "refused", "attach"} : Go(c, stage[c], to) => Moves(c, Stages)
      BY DEF Go, Moves, Stages, Waits, Ends
    <2> QED
      BY <1>3, <2>1 DEF CallBullMQ
  <1>4. ASSUME CallPulsar(c)
        PROVE  /\ Moves(c, Stages) /\ UNCHANGED <<adapter, service, todo, removed, wire, push, local, life>>
               /\ Called(c, TRUE)
    <2>1. (CASE IsSubscribe(c) -> "attach" [] Producers(c[1]) = {} -> "producer"
             [] OTHER -> "send") \in Stages
      BY DEF Stages, Waits, Ends
    <2> QED
      BY <1>4, <2>1 DEF CallPulsar, Moves
  <1>5. ASSUME CallActiveMQ(c)
        PROVE  /\ Moves(c, Stages) /\ UNCHANGED <<adapter, service, todo, removed, push, local, life>>
               /\ Called(c, TRUE) /\ adapter = "activemq"
    <2>1. \A to \in {"attach", "resolved"} : Go(c, stage[c], to) => Moves(c, Stages)
      BY DEF Go, Moves, Stages, Waits, Ends
    <2> QED
      BY <1>5, <2>1 DEF CallActiveMQ
  <1>6. ASSUME CallZeroMQ(c)
        PROVE  /\ Moves(c, Stages) /\ UNCHANGED <<adapter, service, todo, removed, wire, local, life>>
               /\ Called(c, TRUE) /\ adapter = "zeromq"
    <2>1. \A to \in {"attach", "send", "failed"} : Go(c, stage[c], to) => Moves(c, Stages)
      BY DEF Go, Moves, Stages, Waits, Ends
    <2> QED
      BY <1>6, <2>1 DEF CallZeroMQ
  <1> QED
    BY <1>1, <1>2, <1>3, <1>4, <1>5, <1>6 DEF Call, CallServiceBus, CallNats, CallPulsar

(* The cases of a step, in the terms above. *)
Closings(b) ==
  \/ CloseListed(b) \/ CloseClient(b) \/ CloseBullMQ(b) \/ CloseZeroMQ(b) \/ CloseFails(b)

(* The cases of a step: a call's, a broker's, a job that is removed, a *)
(* stutter.                                                            *)
LEMMA Cases ==
  ASSUME [Next]_vars
  PROVE  \/ \E c \in Calls : \/ Call(c) \/ Request(c) \/ (IsPublish(c) /\ SendBullMQ(c))
                             \/ (IsSubscribe(c) /\ AttachBullMQ(c)) \/ PeerLost(c)
         \/ \E p \in pipe : PipeArrives(p)
         \/ \E b \in Brokers :
              \/ SendArrives(b) \/ ConnectionLost(b) \/ Bind(b) \/ Close(b) \/ Closings(b)
              \/ \E g \in Groups : SubscribeArrives(b, g)
         \/ \E g \in Groups, m \in Messages : RemoveJob(g, m)
         \/ UNCHANGED vars
  BY DEF Next, Ensure, Publish, Subscribe, Request, RequestServiceBus, RequestNats,
         RequestOther, Closings

(* A call notes the groups of that moment and whether it is to ensure. *)
LEMMA CalledTyped ==
  ASSUME Typed, NEW c \in Calls, NEW ensure \in BOOLEAN, Called(c, ensure)
  PROVE  /\ ensured' \subseteq Calls /\ before' \in [Calls -> SUBSET groups]
         /\ stage[c] \in {"idle", "failed", "refused", "missing"} /\ closing[c[1]] = "open"
         /\ c \in CallsOf[adapter]
         /\ \A d \in Calls : d # c => before'[d] = before[d] /\ (d \in ensured' <=> d \in ensured)
         /\ c \in ensured' <=> ensure
  <1>1. SetUp \in SUBSET groups
    BY DEF SetUp
  <1>2. before' \in [Calls -> SUBSET groups] /\ \A d \in Calls : d # c => before'[d] = before[d]
    BY <1>1 DEF Called, Typed, CallTyped
  <1>3. ensured' = IF ensure THEN ensured \cup {c} ELSE ensured \ {c}
    BY DEF Called
  <1>4. stage[c] \in {"idle", "failed", "refused", "missing"}
    BY DEF Called, Ends
  <1> QED
    BY <1>2, <1>3, <1>4 DEF Called, Typed, CallTyped

(* A BullMQ publish adds the next group's job and ends after the last, or *)
(* fails.                                                                 *)
LEMMA SendBullMQFact ==
  ASSUME Core, NEW c \in Calls, IsPublish(c), SendBullMQ(c)
  PROVE  /\ adapter = "bullmq" /\ stage[c] = "send"
         /\ UNCHANGED <<adapter, ensured, before, removed, wire, push, life>>
         /\ todo' \in [Calls -> Seq(Groups)]
         /\ \A d \in Calls : d # c => todo'[d] = todo[d]
         /\ \/ /\ todo'[c] = Tail(todo[c]) /\ AddJob(c)
               /\ \/ UNCHANGED stage /\ todo'[c] # <<>>
                  \/ Go(c, "send", "resolved") /\ todo'[c] = <<>>
            \/ todo'[c] = <<>> /\ Go(c, "send", "failed")
  <1>1. /\ adapter = "bullmq" /\ stage[c] = "send"
        /\ UNCHANGED <<adapter, ensured, before, removed, wire, push, life>>
    BY DEF SendBullMQ
  <1>2. /\ Tail(todo[c]) \in Seq(Groups)
        /\ Len(todo[c]) > 1 => Tail(todo[c]) # <<>>
        /\ ~(Len(todo[c]) > 1) => Tail(todo[c]) = <<>>
        /\ <<>> \in Seq(Groups) /\ todo \in [Calls -> Seq(Groups)]
    BY <1>1, TodoFact, EmptySeq DEF Core, Typed, CallTyped
  <1>3. CASE AddFails(c)
    <2>1. todo' = [todo EXCEPT ![c] = <<>>] /\ Go(c, "send", "failed")
      BY <1>3 DEF AddFails
    <2> QED
      BY <1>1, <1>2, <2>1
  <1>4. CASE ~AddFails(c)
    <2>1. AddJob(c) /\ todo' = [todo EXCEPT ![c] = Tail(todo[c])]
      BY <1>4 DEF SendBullMQ
    <2>2. IF Len(todo[c]) > 1 THEN UNCHANGED stage ELSE Go(c, "send", "resolved")
      BY <1>4 DEF SendBullMQ
    <2>3. todo' \in [Calls -> Seq(Groups)] /\ todo'[c] = Tail(todo[c])
          /\ \A d \in Calls : d # c => todo'[d] = todo[d]
      BY <1>2, <2>1
    <2> QED
      BY <1>1, <1>2, <2>1, <2>2, <2>3
  <1> QED
    BY <1>3, <1>4

(* A BullMQ call is refused, starts to add its jobs, or goes on to its worker. *)
LEMMA CallBullMQFact ==
  ASSUME Core, NEW c \in Calls, Call(c), adapter = "bullmq"
  PROVE  /\ todo' \in [Calls -> Seq(Groups)]
         /\ \A d \in Calls : d # c => todo'[d] = todo[d]
         /\ \/ Go(c, stage[c], "refused") /\ UNCHANGED <<todo, object>> /\ c \notin ensured'
            \/ Go(c, stage[c], "send") /\ todo'[c] = GroupNames /\ IsPublish(c)
               /\ OpenQueue(c[1], Head(GroupNames))
            \/ Go(c, stage[c], "attach") /\ UNCHANGED todo /\ IsSubscribe(c)
               /\ OpenQueue(c[1], c[2])
  <1>1. PICK ensure \in BOOLEAN : CallBullMQ(c, ensure)
    BY DEF Call, CallPulsar, CallActiveMQ, CallZeroMQ, CallServiceBus, CallNats
  <1>2. GroupNames \in Seq(Groups) /\ todo \in [Calls -> Seq(Groups)]
    BY ProvisionAssumption DEF Core, Typed, CallTyped
  <1>3. c \in ensured' <=> ensure
    BY <1>1, CalledTyped DEF CallBullMQ, Core
  <1> QED
    BY <1>1, <1>2, <1>3 DEF CallBullMQ

(* A step that touches no call keeps the types of the calls. *)
LEMMA QuietCalls ==
  ASSUME Core, Grows, UNCHANGED <<stage, call>>
  PROVE  CallTyped' /\ TodoInStep'
  BY DEF Core, Typed, CallTyped, TodoInStep, Grows, call

(* With the adapters that have no list of groups to come. *)
LEMMA NoTodo ==
  ASSUME Core, UNCHANGED <<adapter, todo>>, adapter # "bullmq"
  PROVE  TodoInStep'
  BY DEF Core, TodoInStep

(* A call leaves the lists of groups to add to in step with the stages. *)
LEMMA CallTodo ==
  ASSUME Core, NEW c \in Calls, Call(c)
  PROVE  todo' \in [Calls -> Seq(Groups)] /\ TodoInStep'
  <1>1. Typed
    BY DEF Core
  <1>2. UNCHANGED adapter /\ \E ensure \in BOOLEAN : Called(c, ensure)
    BY <1>1, CallMoves
  <1>3. CASE adapter # "bullmq"
    BY <1>1, <1>2, <1>3, CallMoves, NoTodo DEF Typed, CallTyped
  <1>4. CASE adapter = "bullmq"
    <2>1. stage[c] \in {"idle", "failed", "refused", "missing"}
      BY <1>1, <1>2, CalledTyped
    <2>2. todo[c] = <<>>
      BY <2>1 DEF Core, TodoInStep
    <2>3. PICK to \in {"refused", "send", "attach"} :
            /\ Go(c, stage[c], to)
            /\ to = "send" => todo'[c] # <<>>
            /\ to # "send" => todo'[c] = <<>>
      BY <1>4, <2>2, CallBullMQFact, ProvisionAssumption
    <2>4. \A d \in Calls : stage'[d] = IF d = c THEN to ELSE stage[d]
      BY <1>1, <2>3, GoFact DEF Stages, Waits, Ends
    <2>5. todo' \in [Calls -> Seq(Groups)] /\ \A d \in Calls : d # c => todo'[d] = todo[d]
      BY <1>4, CallBullMQFact
    <2>6. TodoInStep'
      BY <1>2, <1>4, <2>3, <2>4, <2>5 DEF Core, TodoInStep
    <2> QED
      BY <2>5, <2>6
  <1> QED
    BY <1>3, <1>4

(* A job that is added leaves the lists of groups in step with the stages. *)
LEMMA SendBullMQTodo ==
  ASSUME Core, NEW c \in Calls, IsPublish(c), SendBullMQ(c)
  PROVE  stage' \in [Calls -> Stages] /\ TodoInStep'
  <1>1. /\ adapter = "bullmq" /\ UNCHANGED adapter /\ stage[c] = "send" /\ Typed
        /\ \A d \in Calls : d # c => todo'[d] = todo[d]
    BY SendBullMQFact DEF Core
  <1>2. CASE UNCHANGED stage /\ todo'[c] # <<>>
    BY <1>1, <1>2 DEF Core, Typed, CallTyped, TodoInStep
  <1>3. ASSUME NEW to \in {"resolved", "failed"}, Go(c, "send", to), todo'[c] = <<>>
        PROVE  stage' \in [Calls -> Stages] /\ TodoInStep'
    <2>1. stage' \in [Calls -> Stages] /\ \A d \in Calls : stage'[d] = IF d = c THEN to ELSE stage[d]
      BY <1>1, <1>3, GoFact DEF Stages, Waits, Ends
    <2> QED
      BY <1>1, <1>3, <2>1 DEF Core, TodoInStep
  <1> QED
    BY <1>2, <1>3, SendBullMQFact

(* A BullMQ worker is added for its call alone. *)
LEMMA AttachBullMQFact ==
  ASSUME Core, NEW c \in Calls, AttachBullMQ(c)
  PROVE  /\ adapter = "bullmq" /\ UNCHANGED <<adapter, service, call, wire, push, local, life>>
         /\ stage[c] = "attach" /\ stage' \in [Calls -> Stages]
         /\ \A d \in Calls : stage'[d] = IF d = c THEN "resolved" ELSE stage[d]
  <1>1. "resolved" \in Stages /\ Typed
    BY DEF Stages, Ends, Core
  <1>2. /\ adapter = "bullmq" /\ UNCHANGED <<adapter, service, call, wire, push, local, life>>
        /\ Go(c, "attach", "resolved")
    BY DEF AttachBullMQ, Elsewhere
  <1> QED
    BY <1>1, <1>2, GoFact

(* The steps of close move no call but ZeroMQ's binding ones, which fail. *)
LEMMA ClosingsCalls ==
  ASSUME Core, NEW b \in Brokers, Closings(b)
  PROVE  /\ stage' \in [Calls -> Stages] /\ UNCHANGED <<adapter, call, wire, listed, atClose>>
         /\ \A c \in Calls : stage'[c] = stage[c]
                             \/ (adapter = "zeromq" /\ c[1] = b /\ stage'[c] = "failed")
  <1>1. UNCHANGED <<adapter, call, wire, listed, atClose>>
    BY DEF Closings, CloseListed, CloseClient, CloseBullMQ, CloseZeroMQ, CloseFails, OnClose
  <1>2. CASE CloseZeroMQ(b)
    <2>1. stage' = [c \in Calls |-> IF c[1] = b /\ stage[c] = "send" THEN "failed" ELSE stage[c]]
          /\ adapter = "zeromq"
      BY <1>2 DEF CloseZeroMQ
    <2>2. "failed" \in Stages
      BY DEF Stages, Ends
    <2> QED
      BY <1>1, <2>1, <2>2 DEF Core, Typed, CallTyped
  <1>3. CASE UNCHANGED stage
    BY <1>1, <1>3 DEF Core, Typed, CallTyped
  <1> QED
    BY <1>2, <1>3 DEF Closings, CloseListed, CloseClient, CloseBullMQ, CloseFails

(* Every step keeps the types of the calls and the lists of groups. *)
LEMMA StepCall ==
  ASSUME Core, Grows, [Next]_vars
  PROVE  CallTyped' /\ TodoInStep'
  <1>0. Typed /\ groups \subseteq groups'
    BY DEF Core, Grows
  <1>1. ASSUME NEW c \in Calls, Call(c)
        PROVE  CallTyped' /\ TodoInStep'
    <2>1. PICK ensure \in BOOLEAN : Called(c, ensure)
      BY <1>0, <1>1, CallMoves
    <2>2. ensured' \subseteq Calls /\ before' \in [Calls -> SUBSET groups]
      BY <1>0, <2>1, CalledTyped
    <2>3. stage' \in [Calls -> Stages] /\ UNCHANGED removed
      BY <1>0, <1>1, CallMoves, MovesTyped
    <2>4. todo' \in [Calls -> Seq(Groups)] /\ TodoInStep'
      BY <1>1, CallTodo
    <2>5. before' \in [Calls -> SUBSET groups']
      BY <1>0, <2>2
    <2> QED
      BY <2>2, <2>3, <2>4, <2>5 DEF CallTyped, Typed, Core
  <1>2. ASSUME NEW c \in Calls, Request(c)
        PROVE  CallTyped' /\ TodoInStep'
    <2>1. stage' \in [Calls -> Stages]
      BY <1>0, <1>2, RequestMoves, MovesTyped
    <2>2. UNCHANGED <<adapter, ensured, before, todo, removed>> /\ adapter # "bullmq"
      BY <1>2, RequestMoves DEF call
    <2> QED
      BY <1>0, <2>1, <2>2, NoTodo DEF CallTyped, Typed
  <1>3. ASSUME NEW c \in Calls, IsPublish(c), SendBullMQ(c)
        PROVE  CallTyped' /\ TodoInStep'
    <2>1. /\ UNCHANGED <<ensured, before, removed>>
          /\ todo' \in [Calls -> Seq(Groups)] /\ stage' \in [Calls -> Stages] /\ TodoInStep'
      BY <1>3, SendBullMQFact, SendBullMQTodo
    <2> QED
      BY <1>0, <2>1 DEF CallTyped, Typed
  <1>4. ASSUME NEW b \in Brokers, Closings(b)
        PROVE  CallTyped' /\ TodoInStep'
    <2>1. /\ stage' \in [Calls -> Stages] /\ UNCHANGED <<adapter, ensured, before, todo, removed>>
          /\ \A c \in Calls : stage'[c] = stage[c] \/ adapter = "zeromq"
      BY <1>4, ClosingsCalls DEF call
    <2>2. CallTyped'
      BY <1>0, <2>1 DEF CallTyped, Typed
    <2> QED
      BY <2>1, <2>2 DEF Core, TodoInStep
  <1>5. ASSUME NEW b \in Brokers,
               SendArrives(b) \/ ConnectionLost(b) \/ Bind(b) \/ Close(b)
        PROVE  CallTyped' /\ TodoInStep'
    BY <1>5, QuietCalls DEF SendArrives, ConnectionLost, Bind, Close
  <1>6. ASSUME NEW b \in Brokers, NEW g \in Groups, SubscribeArrives(b, g)
        PROVE  CallTyped' /\ TodoInStep'
    BY <1>6, QuietCalls DEF SubscribeArrives
  <1>7. ASSUME NEW g \in Groups, NEW m \in Messages, RemoveJob(g, m)
        PROVE  CallTyped' /\ TodoInStep'
    <2>1. UNCHANGED <<adapter, stage, ensured, before, todo>>
          /\ removed' = removed \cup {<<g, m>>}
      BY <1>7 DEF RemoveJob
    <2> QED
      BY <1>0, <2>1 DEF CallTyped, Typed, Core, TodoInStep
  <1>8. CASE \/ UNCHANGED vars \/ \E s \in Calls : PeerLost(s)
             \/ \E p \in pipe : PipeArrives(p)
    BY <1>8, QuietCalls DEF vars, PeerLost, PipeArrives
  <1>9. ASSUME NEW c \in Calls, AttachBullMQ(c)
        PROVE  CallTyped' /\ TodoInStep'
    <2>1. /\ UNCHANGED <<adapter, ensured, before, todo, removed>> /\ stage[c] = "attach"
          /\ stage' \in [Calls -> Stages]
          /\ \A d \in Calls : stage'[d] = IF d = c THEN "resolved" ELSE stage[d]
      BY <1>9, AttachBullMQFact DEF call
    <2>2. CallTyped'
      BY <1>0, <2>1 DEF CallTyped, Typed
    <2> QED
      BY <2>1, <2>2 DEF Core, TodoInStep
  <1> QED
    BY <1>1, <1>2, <1>3, <1>4, <1>5, <1>6, <1>7, <1>8, <1>9, Cases

-----------------------------------------------------------------------------
(* NATS: the stream takes a message once, and groups have what the stream has. *)
LEMMA NatsKept ==
  ASSUME Core, UNCHANGED <<adapter, groups, stored, copies>>
  PROVE  NatsCopies'
  BY DEF Core, NatsCopies

(* A NATS request leaves every durable with the messages of the stream. *)
LEMMA RequestNatsCopies ==
  ASSUME Core, NEW c \in Calls, RequestNats(c)
  PROVE  NatsCopies'
  <1>0. UNCHANGED adapter /\ adapter = "nats"
    BY NatsMoves
  <1>1. CASE UNCHANGED <<groups, stored, copies>>
    BY <1>0, <1>1, NatsKept
  <1>2. CASE Manager(c) \/ StreamInfo(c) \/ StreamAdd(c)
    <2>1. UNCHANGED <<groups, stored, copies>>
      BY <1>2 DEF Manager, StreamInfo, StreamAdd, Answered, service
    <2> QED
      BY <1>1, <2>1
  <1>3. CASE IsPublish(c) /\ SendNats(c)
    <2>1. c[2] \in Messages
      BY <1>3, CallFact
    <2>2. CASE /\ stored[c[2]] = 0 /\ stored' = [stored EXCEPT ![c[2]] = 1]
               /\ CopyTo(groups, c[2]) /\ UNCHANGED groups
      <3>1. /\ \A m \in Messages : stored'[m] = IF m = c[2] THEN 1 ELSE stored[m]
            /\ \A g \in Groups, m \in Messages :
                 copies'[g][m] = IF g \in groups /\ m = c[2] THEN More(copies[g][m]) ELSE copies[g][m]
        BY <2>1, <2>2, CopyToFact DEF Core, Typed, ServiceTyped
      <3>2. More(0) = 1
        BY DEF More
      <3>3. ASSUME NEW m \in Messages, NEW g \in Groups
            PROVE  copies'[g][m] = IF g \in groups THEN stored'[m] ELSE 0
        <4>1. copies[g][m] = IF g \in groups THEN stored[m] ELSE 0
          BY <1>0 DEF Core, NatsCopies
        <4> QED
          BY <2>2, <3>1, <3>2, <4>1
      <3>4. \A m \in Messages : stored'[m] \in {0, 1}
        BY <1>0, <3>1 DEF Core, NatsCopies
      <3> QED
        BY <2>2, <3>3, <3>4 DEF NatsCopies
    <2>3. CASE UNCHANGED service
      BY <1>1, <2>3 DEF service
    <2> QED
      BY <1>3, <2>2, <2>3 DEF SendNats, Answered
  <1>4. CASE IsSubscribe(c) /\ AttachNats(c)
    <2>1. c[2] \in Groups
      BY <1>4, CallFact
    <2>2. CASE /\ groups' = groups \cup {c[2]} /\ UNCHANGED stored
               /\ copies' = IF c[2] \in groups THEN copies ELSE [copies EXCEPT ![c[2]] = stored]
      <3>1. \A g \in Groups :
              copies'[g] = IF g = c[2] /\ g \notin groups THEN stored ELSE copies[g]
        BY <2>1, <2>2 DEF Core, Typed, ServiceTyped
      <3> QED
        BY <1>0, <2>2, <3>1 DEF Core, NatsCopies
    <2>3. CASE UNCHANGED service
      BY <1>1, <2>3 DEF service
    <2> QED
      BY <1>4, <2>2, <2>3 DEF AttachNats, Answered
  <1> QED
    BY <1>2, <1>3, <1>4 DEF RequestNats

(* Every step leaves every durable with the messages of the stream. *)
LEMMA StepNatsCopies ==
  ASSUME Core, [Next]_vars
  PROVE  NatsCopies' /\ WireQuiet'
  <1>0. Typed
    BY DEF Core
  <1>1. ASSUME UNCHANGED <<adapter, groups, stored, copies, wire>>
        PROVE  NatsCopies' /\ WireQuiet'
    BY <1>1, NatsKept DEF Core, WireQuiet
  <1>2. ASSUME NEW c \in Calls, Call(c)
        PROVE  NatsCopies' /\ WireQuiet'
    <2>1. UNCHANGED <<adapter, groups, stored, copies>> /\ (adapter # "activemq" => UNCHANGED wire)
      BY <1>0, <1>2, CallMoves DEF service
    <2> QED
      BY <2>1, NatsKept DEF Core, WireQuiet
  <1>3. ASSUME NEW c \in Calls, Request(c)
        PROVE  NatsCopies' /\ WireQuiet'
    <2>1. UNCHANGED <<adapter, wire>>
      BY <1>3, RequestMoves
    <2>2. NatsCopies'
      BY <1>3, <2>1, ServiceBusMoves, OtherMoves, RequestNatsCopies DEF Request, NatsCopies
    <2> QED
      BY <2>1, <2>2 DEF Core, WireQuiet
  <1>4. ASSUME NEW c \in Calls, IsPublish(c), SendBullMQ(c)
        PROVE  NatsCopies' /\ WireQuiet'
    <2>1. UNCHANGED <<adapter, wire>> /\ adapter = "bullmq"
      BY <1>4, SendBullMQFact
    <2> QED
      BY <2>1 DEF Core, WireQuiet, NatsCopies
  <1>5. ASSUME NEW b \in Brokers, SendArrives(b) \/ ConnectionLost(b)
        PROVE  NatsCopies' /\ WireQuiet'
    <2>1. UNCHANGED adapter /\ adapter = "activemq"
      BY <1>5 DEF SendArrives, ConnectionLost, Core, WireQuiet
    <2> QED
      BY <2>1 DEF NatsCopies, WireQuiet
  <1>6. ASSUME NEW b \in Brokers, Bind(b) \/ Close(b)
        PROVE  NatsCopies' /\ WireQuiet'
    BY <1>1, <1>6 DEF Bind, Close, service
  <1>7. ASSUME NEW b \in Brokers, Closings(b)
        PROVE  NatsCopies' /\ WireQuiet'
    BY <1>1, <1>7 DEF Closings, CloseListed, CloseClient, CloseBullMQ, CloseZeroMQ, CloseFails, OnClose
  <1>8. ASSUME NEW b \in Brokers, NEW g \in Groups, SubscribeArrives(b, g)
        PROVE  NatsCopies' /\ WireQuiet'
    BY <1>8 DEF SubscribeArrives, NatsCopies, WireQuiet, Core
  <1>9. ASSUME NEW g \in Groups, NEW m \in Messages, RemoveJob(g, m)
        PROVE  NatsCopies' /\ WireQuiet'
    BY <1>1, <1>9 DEF RemoveJob, service
  <1>10. CASE UNCHANGED vars \/ \E s \in Calls : PeerLost(s) \/ AttachBullMQ(s)
    BY <1>1, <1>10 DEF vars, service, PeerLost, AttachBullMQ, Elsewhere
  <1>11. ASSUME NEW p \in pipe, PipeArrives(p)
         PROVE  NatsCopies' /\ WireQuiet'
    BY <1>11, PipeFact DEF PipeArrives, NatsCopies, WireQuiet, Core
  <1> QED
    BY <1>2, <1>3, <1>4, <1>5, <1>6, <1>7, <1>8, <1>9, <1>10, <1>11, Cases

-----------------------------------------------------------------------------
(* The pipes of ZeroMQ's push sockets *)

(* A request puts nothing into a pipe but what send does. *)
LEMMA RequestPipe ==
  ASSUME NEW c \in Calls, Request(c)
  PROVE  UNCHANGED local \/ (IsPublish(c) /\ SendZeroMQ(c))
  <1>1. CASE RequestServiceBus(c)
    BY <1>1 DEF RequestServiceBus, TopicExists, CreateTopic, SubscriptionExists,
                CreateSubscription, SendServiceBus, Elsewhere
  <1>2. CASE RequestNats(c)
    BY <1>2 DEF RequestNats, Manager, StreamInfo, StreamAdd, SendNats, AttachNats, Elsewhere
  <1>3. CASE RequestOther(c)
    BY <1>3 DEF RequestOther, CreateProducer, SendPulsar, AttachPulsar, AttachActiveMQ,
                AttachZeroMQ, Elsewhere
  <1> QED
    BY <1>1, <1>2, <1>3 DEF Request

(* What is lost from the pipes was in them. *)
LEMMA LoseFact ==
  ASSUME Core, NEW gone, gone \subseteq pipe, Lose(gone), UNCHANGED adapter
  PROVE  Piped'
  <1>1. \A p \in gone : p[1] \in Calls
    BY PipeFact
  <1> QED
    BY <1>1 DEF Core, Piped, Lose

(* Every step keeps the types of the pipes. *)
LEMMA StepPiped ==
  ASSUME Core, [Next]_vars
  PROVE  Piped'
  <1>0. Typed
    BY DEF Core
  <1>1. ASSUME UNCHANGED <<adapter, local>>
        PROVE  Piped'
    BY <1>1 DEF Core, Piped, local
  <1>2. ASSUME NEW c \in Calls, Call(c)
        PROVE  Piped'
    BY <1>0, <1>1, <1>2, CallMoves
  <1>3. ASSUME NEW c \in Calls, IsPublish(c), SendZeroMQ(c)
        PROVE  Piped'
    <2>1. PICK s \in Calls : IsSubscribe(s) /\ pipe' = pipe \cup {<<c, s>>}
      BY <1>3 DEF SendZeroMQ
    <2>2. UNCHANGED <<adapter, lost>> /\ adapter = "zeromq"
      BY <1>3 DEF SendZeroMQ
    <2>3. <<c, s>> \in Pipes
      BY <1>3, <2>1 DEF Pipes
    <2> QED
      BY <2>1, <2>2, <2>3 DEF Core, Piped
  <1>4. ASSUME NEW c \in Calls, Request(c)
        PROVE  Piped'
    BY <1>1, <1>3, <1>4, RequestMoves, RequestPipe
  <1>5. ASSUME NEW c \in Calls, SendBullMQ(c) \/ AttachBullMQ(c)
        PROVE  Piped'
    BY <1>1, <1>5 DEF SendBullMQ, AttachBullMQ, Elsewhere
  <1>6. ASSUME NEW s \in Calls, PeerLost(s)
        PROVE  Piped'
    BY <1>6, LoseFact DEF PeerLost
  <1>7. ASSUME NEW p \in pipe, PipeArrives(p)
        PROVE  Piped'
    BY <1>7 DEF PipeArrives, Core, Piped
  <1>8. ASSUME NEW b \in Brokers, CloseZeroMQ(b)
        PROVE  Piped'
    BY <1>8, LoseFact DEF CloseZeroMQ, OnClose
  <1>9. ASSUME NEW b \in Brokers,
               \/ SendArrives(b) \/ ConnectionLost(b) \/ Bind(b) \/ Close(b)
               \/ CloseListed(b) \/ CloseClient(b) \/ CloseBullMQ(b) \/ CloseFails(b)
               \/ \E g \in Groups : SubscribeArrives(b, g)
        PROVE  Piped'
    BY <1>1, <1>9 DEF SendArrives, ConnectionLost, Bind, Close, CloseListed, CloseClient,
                      CloseBullMQ, CloseFails, OnClose, SubscribeArrives
  <1>10. ASSUME NEW g \in Groups, NEW m \in Messages, RemoveJob(g, m)
         PROVE  Piped'
    BY <1>1, <1>10 DEF RemoveJob
  <1>11. CASE UNCHANGED vars
    BY <1>1, <1>11 DEF vars
  <1> QED
    BY <1>2, <1>4, <1>5, <1>6, <1>7, <1>8, <1>9, <1>10, <1>11, Cases DEF Closings

-----------------------------------------------------------------------------
(* What brokers open and list. *)
AtMostOne(b) == \A r \in listed[b], s \in listed[b] :
  r[1] = "producer" /\ s[1] = "producer" => r = s

ObjectsTyped ==
  opened \in [Brokers -> SUBSET Resources] /\ listed \in [Brokers -> SUBSET Resources]

Hosted == {"servicebus", "nats", "pulsar"}

(* What a request may do to the object: one broker's resources, none of a closed
   client, and producers only where there is none in the map. *)
Opens(c) ==
  /\ ObjectsTyped'
  /\ \A d \in Brokers : d # c[1] => opened'[d] = opened[d] /\ listed'[d] = listed[d]
  /\ AtMostOne(c[1]) => AtMostOne(c[1])'
  /\ adapter \in Hosted /\ c[1] \notin client => opened'[c[1]] = opened[c[1]]
  /\ adapter \in {"activemq", "zeromq"} =>
       /\ listed'[c[1]] = listed[c[1]]
       /\ \A r \in opened'[c[1]] : r \in opened[c[1]] \/ r[1] = "consumer"

(* A step that touches no client object opens nothing. *)
LEMMA SameOpens ==
  ASSUME Typed, UNCHANGED object, NEW c \in Calls
  PROVE  Opens(c)
  BY DEF Opens, Typed, ObjectTyped, ObjectsTyped, AtMostOne, object

(* An object that is opened is opened and listed in its broker alone. *)
LEMMA OpenFact ==
  ASSUME Typed, NEW b \in Brokers, NEW r \in Resources, Open(b, r)
  PROVE  /\ ObjectsTyped'
         /\ \A d \in Brokers : d # b => opened'[d] = opened[d] /\ listed'[d] = listed[d]
         /\ opened'[b] = opened[b] \cup {r} /\ listed'[b] = listed[b] \cup {r}
  BY DEF Open, Typed, ObjectTyped, ObjectsTyped

(* A Service Bus call that attaches opens objects of its own broker, on a *)
(* live client.                                                           *)
LEMMA AttachOpens ==
  ASSUME Typed, adapter = "servicebus", NEW c \in Calls, NEW from, Attach(c, from)
  PROVE  Opens(c)
  <1>1. c[1] \in Brokers /\ <<"producer", c[2]>> \in Resources /\ <<"consumer", c[2]>> \in Resources
    BY CallFact
  <1>2. CASE UNCHANGED object
    BY <1>2, SameOpens
  <1>3. CASE c[1] \in client /\ Producers(c[1]) = {} /\ Open(c[1], <<"producer", c[2]>>)
    <2>1. \A r \in listed[c[1]] : r[1] # "producer"
      BY <1>3 DEF Producers
    <2> QED
      BY <1>1, <1>3, <2>1, OpenFact DEF Opens, AtMostOne
  <1>4. CASE c[1] \in client /\ Open(c[1], <<"consumer", c[2]>>)
    <2>1. /\ listed'[c[1]] = listed[c[1]] \cup {<<"consumer", c[2]>>} /\ ObjectsTyped'
          /\ \A d \in Brokers : d # c[1] => opened'[d] = opened[d] /\ listed'[d] = listed[d]
      BY <1>1, <1>4, OpenFact
    <2>2. <<"consumer", c[2]>>[1] # "producer"
      OBVIOUS
    <2>3. AtMostOne(c[1]) => AtMostOne(c[1])'
      BY <2>1, <2>2 DEF AtMostOne
    <2> QED
      BY <1>4, <2>1, <2>3 DEF Opens
  <1> QED
    BY <1>2, <1>3, <1>4 DEF Attach, Up

(* A Service Bus request opens objects of its own broker, on a live client. *)
LEMMA ServiceBusOpens ==
  ASSUME Typed, NEW c \in Calls, RequestServiceBus(c)
  PROVE  Opens(c)
  <1>0. adapter = "servicebus"
    BY ServiceBusMoves
  <1>1. \/ UNCHANGED object
        \/ \E from \in {"look", "create", "lookGroup", "createGroup"} : Attach(c, from)
    BY DEF RequestServiceBus, TopicExists, CreateTopic, SubscriptionExists, CreateSubscription,
           SendServiceBus, AfterTopic, AdminFails
  <1> QED
    BY <1>0, <1>1, SameOpens, AttachOpens

(* A NATS request opens objects of its own broker, on a live client. *)
LEMMA NatsOpens ==
  ASSUME Typed, NEW c \in Calls, RequestNats(c)
  PROVE  Opens(c)
  <1>0. adapter = "nats"
    BY NatsMoves
  <1>1. CASE ~AttachNats(c)
    <2>1. UNCHANGED object
      BY <1>1 DEF RequestNats, Manager, StreamInfo, StreamAdd, SendNats, object
    <2> QED
      BY <2>1, SameOpens
  <1>2. CASE AttachNats(c)
    <2>1. UNCHANGED listed /\ opened' = [opened EXCEPT ![c[1]] =
                  IF stage'[c] = "resolved" THEN @ \cup {<<"consumer", c[2]>>} ELSE @]
      BY <1>2 DEF AttachNats
    <2>2. c[1] \notin client => stage'[c] # "resolved"
      BY <1>2 DEF AttachNats, Answered, Up, Fails, Go, Typed, CallTyped
    <2>3. c[1] \in Brokers /\ <<"consumer", c[2]>> \in Resources
      BY CallFact
    <2>4. ObjectsTyped' /\ \A d \in Brokers : d # c[1] => opened'[d] = opened[d]
      BY <2>1, <2>3 DEF ObjectsTyped, Typed, ObjectTyped
    <2>5. c[1] \notin client => opened'[c[1]] = opened[c[1]]
      BY <2>1, <2>2, <2>3 DEF Typed, ObjectTyped
    <2> QED
      BY <1>0, <2>1, <2>4, <2>5 DEF Opens, AtMostOne
  <1> QED
    BY <1>1, <1>2

(* A request to the other services opens objects of its own broker. *)
LEMMA OtherOpens ==
  ASSUME Typed, NEW c \in Calls, RequestOther(c)
  PROVE  Opens(c)
  <1>0. c[1] \in Brokers /\ <<"producer", c[2]>> \in Resources /\ <<"consumer", c[2]>> \in Resources
    BY CallFact
  <1>1. CASE UNCHANGED object
    BY <1>1, SameOpens
  <1>2. CASE SendPulsar(c) \/ SendZeroMQ(c)
    BY <1>1, <1>2 DEF SendPulsar, SendZeroMQ, object
  <1>3. CASE CreateProducer(c)
    <2> DEFINE r == <<"producer", c[2]>>
    <2>1. CASE /\ c[1] \in client /\ adapter = "pulsar"
               /\ opened' = [opened EXCEPT ![c[1]] = @ \cup {r}]
               /\ listed' = [listed EXCEPT ![c[1]] = (@ \ Producers(c[1])) \cup {r}]
      <3>1. /\ ObjectsTyped'
            /\ \A d \in Brokers : d # c[1] => opened'[d] = opened[d] /\ listed'[d] = listed[d]
            /\ listed'[c[1]] = (listed[c[1]] \ Producers(c[1])) \cup {r}
        BY <1>0, <2>1 DEF ObjectsTyped, Typed, ObjectTyped
      <3>2. AtMostOne(c[1])'
        BY <3>1 DEF AtMostOne, Producers
      <3> QED
        BY <2>1, <3>1, <3>2 DEF Opens
    <2> QED
      BY <1>1, <1>3, <2>1 DEF CreateProducer, Up
  <1>4. CASE AttachPulsar(c)
    <2>1. CASE stage'[c] = "resolved"
      <3>1. c[1] \in client /\ adapter = "pulsar" /\ Open(c[1], <<"consumer", c[2]>>)
        BY <1>4, <2>1 DEF AttachPulsar, Answered, Up, Fails, Go, Typed, CallTyped
      <3>2. /\ listed'[c[1]] = listed[c[1]] \cup {<<"consumer", c[2]>>} /\ ObjectsTyped'
            /\ \A d \in Brokers : d # c[1] => opened'[d] = opened[d] /\ listed'[d] = listed[d]
        BY <1>0, <3>1, OpenFact
      <3>3. <<"consumer", c[2]>>[1] # "producer"
        OBVIOUS
      <3>4. AtMostOne(c[1]) => AtMostOne(c[1])'
        BY <3>2, <3>3 DEF AtMostOne
      <3> QED
        BY <3>1, <3>2, <3>4 DEF Opens
    <2> QED
      BY <1>1, <1>4, <2>1 DEF AttachPulsar
  <1>5. CASE AttachActiveMQ(c) \/ AttachZeroMQ(c)
    <2> DEFINE r == <<"consumer", c[2]>>
    <2>1. UNCHANGED listed /\ adapter \in {"activemq", "zeromq"}
      BY <1>5 DEF AttachActiveMQ, AttachZeroMQ, Elsewhere
    <2>2. CASE opened' = [opened EXCEPT ![c[1]] = @ \cup {r}]
      <3>1. /\ opened' \in [Brokers -> SUBSET Resources]
            /\ \A d \in Brokers : d # c[1] => opened'[d] = opened[d]
            /\ opened'[c[1]] = opened[c[1]] \cup {r}
        BY <1>0, <2>2 DEF Typed, ObjectTyped
      <3>2. ObjectsTyped'
        BY <2>1, <3>1 DEF ObjectsTyped, Typed, ObjectTyped
      <3>3. \A x \in opened'[c[1]] : x \in opened[c[1]] \/ x[1] = "consumer"
        BY <3>1
      <3> QED
        BY <2>1, <3>1, <3>2, <3>3 DEF Opens, AtMostOne, Hosted
    <2>3. CASE UNCHANGED opened
      BY <1>1, <2>1, <2>3 DEF object
    <2> QED
      BY <1>5, <2>2, <2>3 DEF AttachActiveMQ, AttachZeroMQ
  <1> QED
    BY <1>2, <1>3, <1>4, <1>5 DEF RequestOther

(* A request opens objects of its own broker, at most one producer, on a *)
(* live client.                                                          *)
LEMMA RequestOpens ==
  ASSUME Typed, NEW c \in Calls, Request(c)
  PROVE  Opens(c)
  BY ServiceBusOpens, NatsOpens, OtherOpens DEF Request

(* A producer is made once: of ZeroMQ's there is none as long as there is no
   socket. *)
NoneListed(b) ==
  adapter = "zeromq" /\ push[b] = "none" /\ closing[b] = "open" => Producers(b) = {}

OnlyAt(b) == \A d \in Brokers : d # b => opened'[d] = opened[d] /\ listed'[d] = listed[d]

(* A step that touches no client object keeps a broker's objects. *)
LEMMA SameObject ==
  ASSUME Typed, UNCHANGED object, NEW b \in Brokers
  PROVE  /\ ObjectsTyped' /\ OnlyAt(b) /\ opened'[b] = opened[b] /\ listed'[b] = listed[b]
         /\ (AtMostOne(b) => AtMostOne(b)')
  BY DEF OnlyAt, Typed, ObjectTyped, ObjectsTyped, AtMostOne, object

(* A ZeroMQ call opens at most its broker's one push socket. *)
LEMMA CallZeroMQObject ==
  ASSUME Typed, NEW c \in Calls, CallZeroMQ(c), NoneListed(c[1])
  PROVE  /\ ObjectsTyped' /\ OnlyAt(c[1])
         /\ push' \in [Brokers -> {"none", "binding", "bound", "unbound"}]
         /\ \A d \in Brokers : push'[d] = push[d] \/ (push[d] = "none" /\ push'[d] = "binding")
         /\ (AtMostOne(c[1]) => AtMostOne(c[1])')
         /\ \A r \in opened'[c[1]] : r \in opened[c[1]] \/ r \in listed'[c[1]]
         /\ listed[c[1]] \subseteq listed'[c[1]]
         /\ (push'[c[1]] = "none" => listed'[c[1]] = listed[c[1]])
  <1> DEFINE b == c[1]
             r == <<"producer", c[2]>>
  <1>1. b \in Brokers /\ r \in Resources
    BY CallFact
  <1>2. push \in [Brokers -> {"none", "binding", "bound", "unbound"}]
    BY DEF Typed, ObjectTyped
  <1>3. \/ push' = push /\ UNCHANGED object
        \/ /\ push' = [push EXCEPT ![b] = IF @ = "none" THEN "binding" ELSE @]
           /\ IF push[b] = "none" THEN Open(b, r) ELSE UNCHANGED object
    BY DEF CallZeroMQ
  <1>4. closing[b] = "open" /\ adapter = "zeromq"
    BY DEF CallZeroMQ, Called
  <1> HIDE DEF b, r
  <1>5. CASE push' = push /\ UNCHANGED object
    BY <1>1, <1>2, <1>5, SameObject DEF b
  <1>6. CASE /\ push' = [push EXCEPT ![b] = IF @ = "none" THEN "binding" ELSE @]
             /\ push[b] # "none" /\ UNCHANGED object
    <2>1. push' \in [Brokers -> {"none", "binding", "bound", "unbound"}]
          /\ \A d \in Brokers : push'[d] = push[d]
      BY <1>1, <1>2, <1>6
    <2> QED
      BY <1>1, <1>6, <2>1, SameObject DEF b
  <1>7. CASE /\ push' = [push EXCEPT ![b] = IF @ = "none" THEN "binding" ELSE @]
             /\ push[b] = "none" /\ Open(b, r)
    <2>1. push' \in [Brokers -> {"none", "binding", "bound", "unbound"}]
          /\ \A d \in Brokers : push'[d] = IF d = b THEN "binding" ELSE push[d]
      BY <1>1, <1>2, <1>7
    <2>2. /\ ObjectsTyped'
          /\ \A d \in Brokers : d # b => opened'[d] = opened[d] /\ listed'[d] = listed[d]
          /\ opened'[b] = opened[b] \cup {r} /\ listed'[b] = listed[b] \cup {r}
      BY <1>1, <1>7, OpenFact
    <2>3. \A x \in listed[b] : x[1] # "producer"
      BY <1>4, <1>7 DEF NoneListed, Producers, b
    <2>4. AtMostOne(b)'
      BY <2>2, <2>3 DEF AtMostOne
    <2> QED
      BY <1>1, <1>7, <2>1, <2>2, <2>4 DEF OnlyAt, b
  <1> QED
    BY <1>3, <1>5, <1>6, <1>7

(* BullMQ opens the queues that are not in its map. *)
Adds(b) == \E new \in SUBSET Resources :
  /\ opened'[b] = opened[b] \cup new /\ listed'[b] = listed[b] \cup new
  /\ \A r \in new : r[1] = "producer" /\ r \notin listed[b]

(* Opening a BullMQ queue adds it, unless its broker lists one. *)
LEMMA OpenQueueFact ==
  ASSUME Typed, NEW b \in Brokers, NEW g \in Groups, OpenQueue(b, g)
  PROVE  ObjectsTyped' /\ OnlyAt(b) /\ Adds(b)
  <1> DEFINE more == {r \in {<<"producer", g>>} : r \notin listed[b]}
  <1>1. more \in SUBSET Resources
    BY DEF Resources
  <1>2. \A r \in more : r[1] = "producer" /\ r \notin listed[b]
    OBVIOUS
  <1>3. /\ opened' = [opened EXCEPT ![b] = @ \cup more]
        /\ listed' = [listed EXCEPT ![b] = @ \cup more]
    BY DEF OpenQueue
  <1> HIDE DEF more
  <1>4. /\ ObjectsTyped' /\ OnlyAt(b)
        /\ opened'[b] = opened[b] \cup more /\ listed'[b] = listed[b] \cup more
    BY <1>1, <1>3 DEF ObjectsTyped, OnlyAt, Typed, ObjectTyped
  <1> QED
    BY <1>1, <1>2, <1>4 DEF Adds

(* A step that touches no client object adds none. *)
LEMMA AddsNothing ==
  ASSUME Typed, NEW b \in Brokers, UNCHANGED object
  PROVE  Adds(b)
  <1>1. /\ opened'[b] = opened[b] \cup {} /\ listed'[b] = listed[b] \cup {}
        /\ {} \in SUBSET Resources
    BY DEF object
  <1> QED
    BY <1>1 DEF Adds

(* A BullMQ call adds queues to its own broker alone. *)
LEMMA CallBullMQObject ==
  ASSUME Core, NEW c \in Calls, Call(c), adapter = "bullmq"
  PROVE  ObjectsTyped' /\ OnlyAt(c[1]) /\ Adds(c[1])
  <1>0. Typed /\ c[1] \in Brokers
    BY CallFact DEF Core
  <1>1. Head(GroupNames) \in Groups
    BY ProvisionAssumption, HeadTailProperties
  <1>2. UNCHANGED object \/ \E g \in Groups : OpenQueue(c[1], g)
    BY <1>1, CallBullMQFact, CallFact
  <1> QED
    BY <1>0, <1>2, SameObject, AddsNothing, OpenQueueFact

(* A BullMQ publish adds at most queues it did not list. *)
LEMMA SendBullMQObject ==
  ASSUME Core, NEW c \in Calls, IsPublish(c), SendBullMQ(c)
  PROVE  ObjectsTyped' /\ OnlyAt(c[1]) /\ Adds(c[1])
  <1>0. Typed /\ c[1] \in Brokers /\ adapter = "bullmq" /\ stage[c] = "send"
    BY CallFact DEF Core, SendBullMQ
  <1>1. \/ UNCHANGED object
        \/ Len(todo[c]) > 1 /\ OpenQueue(c[1], todo[c][2])
    BY DEF SendBullMQ, AddFails
  <1>2. Len(todo[c]) > 1 => todo[c][2] \in Groups
    BY <1>0, TodoFact
  <1> QED
    BY <1>0, <1>1, <1>2, SameObject, AddsNothing, OpenQueueFact

(* What a call may open, adapter by adapter. *)
LEMMA CallObject ==
  ASSUME Core, NEW c \in Calls, Call(c), NoneListed(c[1])
  PROVE  /\ ObjectsTyped' /\ OnlyAt(c[1])
         /\ adapter # "bullmq" => (AtMostOne(c[1]) => AtMostOne(c[1])')
         /\ adapter = "bullmq" => Adds(c[1])
         /\ adapter = "activemq" => opened'[c[1]] = opened[c[1]]
         /\ adapter = "zeromq" =>
              /\ \A r \in opened'[c[1]] : r \in opened[c[1]] \/ r \in listed'[c[1]]
              /\ listed[c[1]] \subseteq listed'[c[1]]
              /\ (push'[c[1]] = "none" => listed'[c[1]] = listed[c[1]])
         /\ push' \in [Brokers -> {"none", "binding", "bound", "unbound"}]
         /\ \A d \in Brokers : push'[d] = push[d] \/ (push[d] = "none" /\ push'[d] = "binding")
         /\ closing[c[1]] = "open" /\ UNCHANGED life
  <1>0. Typed /\ c[1] \in Brokers
    BY CallFact DEF Core
  <1>1. closing[c[1]] = "open" /\ UNCHANGED life
    BY <1>0, CallMoves, CalledTyped
  <1>2. adapter # "zeromq" => /\ UNCHANGED push
                             /\ push' \in [Brokers -> {"none", "binding", "bound", "unbound"}]
    BY <1>0, CallMoves DEF Typed, ObjectTyped
  <1>3. CASE adapter = "bullmq"
    BY <1>1, <1>2, <1>3, CallBullMQObject
  <1>4. CASE CallZeroMQ(c)
    <2>1. adapter = "zeromq"
      BY <1>4 DEF CallZeroMQ
    <2> QED
      BY <1>0, <1>1, <1>4, <2>1, CallZeroMQObject
  <1>5. CASE CallPulsar(c) \/ CallActiveMQ(c) \/ \E ensure \in BOOLEAN : CallNats(c, ensure)
    <2>1. UNCHANGED object /\ adapter \in {"pulsar", "activemq", "nats"}
      BY <1>5 DEF CallPulsar, CallActiveMQ, CallNats
    <2> QED
      BY <1>0, <1>1, <1>2, <2>1, SameObject
  <1>6. ASSUME NEW ensure \in BOOLEAN, CallServiceBus(c, ensure)
        PROVE  /\ ObjectsTyped' /\ OnlyAt(c[1]) /\ adapter = "servicebus"
               /\ (AtMostOne(c[1]) => AtMostOne(c[1])')
    <2>1. adapter = "servicebus" /\ (UNCHANGED object \/ Attach(c, stage[c]))
      BY <1>6 DEF CallServiceBus
    <2>2. Opens(c)
      BY <1>0, <2>1, SameOpens, AttachOpens
    <2> QED
      BY <2>1, <2>2 DEF Opens, OnlyAt
  <1>7. CASE adapter = "servicebus"
    <2>1. \E ensure \in BOOLEAN : CallServiceBus(c, ensure)
      BY <1>7 DEF Call, CallPulsar, CallActiveMQ, CallZeroMQ, CallNats, CallBullMQ
    <2> QED
      BY <1>1, <1>2, <1>6, <1>7, <2>1
  <1> QED
    BY <1>3, <1>4, <1>5, <1>7 DEF Call, CallServiceBus, CallBullMQ

-----------------------------------------------------------------------------
(* close: a step of it is about one broker and opens nothing. *)
LEMMA ClosingFact ==
  ASSUME Typed, NEW b \in Brokers, NEW from, NEW to \in Phases, Closing(b, from, to)
  PROVE  /\ closing' \in [Brokers -> Phases] /\ closing[b] = from /\ closing'[b] = to
         /\ \A d \in Brokers : d # b => closing'[d] = closing[d]
  BY DEF Closing, Typed, ObjectTyped

(* Objects that are closed are taken from their broker alone. *)
LEMMA LessFact ==
  ASSUME Typed, NEW b \in Brokers, NEW S, opened' = [opened EXCEPT ![b] = @ \ S]
  PROVE  /\ opened' \in [Brokers -> SUBSET Resources] /\ opened'[b] = opened[b] \ S
         /\ \A d \in Brokers : d # b => opened'[d] = opened[d]
  <1>1. opened \in [Brokers -> SUBSET Resources]
    BY DEF Typed, ObjectTyped
  <1>2. opened[b] \ S \in SUBSET Resources
    BY <1>1
  <1> QED
    BY <1>1, <1>2

(* What a step of close may do to a broker. *)
Shuts(b) ==
  /\ opened' \in [Brokers -> SUBSET Resources] /\ closing' \in [Brokers -> Phases]
  /\ \A d \in Brokers : d # b => opened'[d] = opened[d] /\ closing'[d] = closing[d]
  /\ opened'[b] \subseteq opened[b] /\ client' \subseteq client
  /\ closing[b] # "open" /\ closing'[b] # "open"
  /\ closing'[b] = "closed" =>
       \/ opened'[b] = {} /\ b \notin client'
       \/ adapter = "bullmq" /\ closing[b] = "producers" /\ KindOf(b, "producer") = {}
       \/ adapter = "zeromq" /\ opened'[b] = opened[b] \ KindOf(b, "producer")
  /\ adapter = "bullmq" /\ closing'[b] = "producers" =>
       closing[b] = "producers" \/ KindOf(b, "consumer") = {}

(* Closing what is listed shuts objects of that broker alone. *)
LEMMA ListedShuts ==
  ASSUME Typed, NEW b \in Brokers, CloseListed(b)
  PROVE  Shuts(b)
  <1>0. adapter \in {"servicebus", "pulsar"} /\ UNCHANGED client
    BY DEF CloseListed
  <1>1. ASSUME NEW S, NEW from \in {"consumers", "producers"}, NEW to \in {"producers", "client"},
               Closing(b, from, to), opened' = [opened EXCEPT ![b] = @ \ S]
        PROVE  Shuts(b)
    <2>1. to \in Phases
      BY DEF Phases
    <2>2. /\ closing' \in [Brokers -> Phases] /\ closing[b] = from /\ closing'[b] = to
          /\ \A d \in Brokers : d # b => closing'[d] = closing[d]
      BY <1>1, <2>1, ClosingFact
    <2>3. /\ opened' \in [Brokers -> SUBSET Resources] /\ opened'[b] = opened[b] \ S
          /\ \A d \in Brokers : d # b => opened'[d] = opened[d]
      BY <1>1, LessFact
    <2> QED
      BY <1>0, <2>2, <2>3 DEF Shuts
  <1>2. CASE Closing(b, "consumers", "producers")
             /\ opened' = [opened EXCEPT ![b] = @ \ KindOf(b, "consumer")]
    BY <1>1, <1>2
  <1>3. CASE Closing(b, "producers", "client")
             /\ opened' = [opened EXCEPT ![b] = @ \ KindOf(b, "producer")]
    BY <1>1, <1>3
  <1> QED
    BY <1>2, <1>3 DEF CloseListed

(* Closing the client shuts objects of that broker alone. *)
LEMMA ClientShuts ==
  ASSUME Typed, NEW b \in Brokers, CloseClient(b)
  PROVE  Shuts(b)
  <1>1. /\ closing' \in [Brokers -> Phases] /\ closing[b] = "client" /\ closing'[b] = "closed"
        /\ \A d \in Brokers : d # b => closing'[d] = closing[d]
    BY ClosingFact DEF CloseClient, Phases
  <1>2. /\ opened' \in [Brokers -> SUBSET Resources] /\ opened'[b] = {}
        /\ \A d \in Brokers : d # b => opened'[d] = opened[d]
    BY DEF CloseClient, Typed, ObjectTyped
  <1>3. client' = client \ {b}
    BY DEF CloseClient
  <1> QED
    BY <1>1, <1>2, <1>3 DEF Shuts

(* The BullMQ close shuts objects of that broker alone. *)
LEMMA BullMQShuts ==
  ASSUME Typed, NEW b \in Brokers, CloseBullMQ(b)
  PROVE  Shuts(b)
  <1>0. adapter = "bullmq" /\ UNCHANGED client
    BY DEF CloseBullMQ
  <1>1. PICK kind \in {"consumer", "producer"} :
          LET step == IF kind = "consumer" THEN "consumers" ELSE "producers" IN
          \/ /\ closing[b] = step /\ UNCHANGED closing
             /\ \E r : opened' = [opened EXCEPT ![b] = @ \ {r}]
          \/ /\ KindOf(b, kind) = {} /\ UNCHANGED opened
             /\ Closing(b, step, IF kind = "consumer" THEN "producers" ELSE "closed")
    BY DEF CloseBullMQ
  <1>2. ASSUME NEW r, opened' = [opened EXCEPT ![b] = @ \ {r}],
               UNCHANGED closing, closing[b] \in {"consumers", "producers"}
        PROVE  Shuts(b)
    <2>1. /\ opened' \in [Brokers -> SUBSET Resources] /\ opened'[b] = opened[b] \ {r}
          /\ \A d \in Brokers : d # b => opened'[d] = opened[d]
      BY <1>2, LessFact
    <2>2. closing' \in [Brokers -> Phases]
      BY <1>2 DEF Typed, ObjectTyped
    <2> QED
      BY <1>0, <1>2, <2>1, <2>2 DEF Shuts
  <1>3. ASSUME UNCHANGED opened,
               \/ KindOf(b, "consumer") = {} /\ Closing(b, "consumers", "producers")
               \/ KindOf(b, "producer") = {} /\ Closing(b, "producers", "closed")
        PROVE  Shuts(b)
    <2>1. opened' \in [Brokers -> SUBSET Resources]
      BY <1>3 DEF Typed, ObjectTyped
    <2>2. CASE KindOf(b, "consumer") = {} /\ Closing(b, "consumers", "producers")
      <3>1. /\ closing' \in [Brokers -> Phases] /\ closing[b] = "consumers"
            /\ closing'[b] = "producers"
            /\ \A d \in Brokers : d # b => closing'[d] = closing[d]
        BY <2>2, ClosingFact DEF Phases
      <3> QED
        BY <1>0, <1>3, <2>1, <2>2, <3>1 DEF Shuts
    <2>3. CASE KindOf(b, "producer") = {} /\ Closing(b, "producers", "closed")
      <3>1. /\ closing' \in [Brokers -> Phases] /\ closing[b] = "producers"
            /\ closing'[b] = "closed"
            /\ \A d \in Brokers : d # b => closing'[d] = closing[d]
        BY <2>3, ClosingFact DEF Phases
      <3> QED
        BY <1>0, <1>3, <2>1, <2>3, <3>1 DEF Shuts
    <2> QED
      BY <1>3, <2>2, <2>3
  <1>4. CASE kind = "consumer"
    BY <1>1, <1>2, <1>3, <1>4
  <1>5. CASE kind = "producer"
    BY <1>1, <1>2, <1>3, <1>5
  <1> QED
    BY <1>4, <1>5

(* The ZeroMQ close shuts objects of that broker alone. *)
LEMMA ZeroMQShuts ==
  ASSUME Typed, NEW b \in Brokers, CloseZeroMQ(b)
  PROVE  Shuts(b)
  <1>1. /\ closing' \in [Brokers -> Phases] /\ closing[b] = "producers" /\ closing'[b] = "closed"
        /\ \A d \in Brokers : d # b => closing'[d] = closing[d]
    BY ClosingFact DEF CloseZeroMQ, Phases
  <1>2. /\ opened' \in [Brokers -> SUBSET Resources]
        /\ opened'[b] = opened[b] \ KindOf(b, "producer")
        /\ \A d \in Brokers : d # b => opened'[d] = opened[d]
    BY LessFact DEF CloseZeroMQ
  <1> QED
    BY <1>1, <1>2 DEF Shuts, CloseZeroMQ

(* A close that fails shuts nothing of another broker. *)
LEMMA FailsShuts ==
  ASSUME Typed, NEW b \in Brokers, CloseFails(b)
  PROVE  Shuts(b)
  <1>1. PICK from \in {"consumers", "producers", "client"} : Closing(b, from, "failed")
    BY DEF CloseFails
  <1>2. /\ closing' \in [Brokers -> Phases] /\ closing[b] = from /\ closing'[b] = "failed"
        /\ \A d \in Brokers : d # b => closing'[d] = closing[d]
    BY <1>1, ClosingFact DEF Phases
  <1> QED
    BY <1>2 DEF Shuts, CloseFails, Typed, ObjectTyped

(* Every step of close shuts objects of that broker alone. *)
LEMMA ClosingsShut ==
  ASSUME Typed, NEW b \in Brokers, Closings(b)
  PROVE  Shuts(b)
  BY ListedShuts, ClientShuts, BullMQShuts, ZeroMQShuts, FailsShuts DEF Closings

-----------------------------------------------------------------------------
(* The object: types, the port, one producer, and what close has released. *)
PortHeld == \A b \in Brokers : push[b] = "bound" <=> port = b

Once == \A b \in Brokers : adapter # "bullmq" => AtMostOne(b) /\ NoneListed(b)

(* BullMQ never opens again what it has listed, so what was open when close was
   called and has been closed stays closed; with the hosted adapters nothing is
   opened once the client is closed; ZeroMQ lists its producers. *)
ReleasedAt(b) ==
  /\ adapter \in Hosted /\ closing[b] = "closed" => b \notin client /\ opened[b] = {}
  /\ adapter = "bullmq" =>
       /\ opened[b] \subseteq listed[b] /\ atClose[b] \subseteq listed[b]
       /\ closing[b] \in {"producers", "closed"} =>
            \A r \in opened[b] \cap atClose[b] : r[1] # "consumer"
       /\ closing[b] = "closed" => opened[b] \cap atClose[b] = {}
  /\ adapter = "activemq" => \A r \in opened[b] : r[1] = "consumer"
  /\ adapter = "zeromq" =>
       /\ \A r \in opened[b] : r[1] = "consumer" \/ r \in listed[b]
       /\ closing[b] = "closed" => \A r \in opened[b] : r[1] = "consumer"

Released == \A b \in Brokers : ReleasedAt(b)

ObjectInv == PortHeld /\ Once /\ Released

(* What close has released stays released while its broker's objects do. *)
LEMMA ReleasedKept ==
  ASSUME NEW b \in Brokers, ReleasedAt(b), UNCHANGED adapter, client' \subseteq client,
         opened'[b] = opened[b], listed'[b] = listed[b], closing'[b] = closing[b],
         atClose'[b] = atClose[b]
  PROVE  ReleasedAt(b)'
  BY DEF ReleasedAt

(* A broker's objects stay unique while its list and its socket do. *)
LEMMA OnceKept ==
  ASSUME NEW b \in Brokers, adapter # "bullmq" => AtMostOne(b) /\ NoneListed(b),
         UNCHANGED adapter, listed'[b] = listed[b],
         push'[b] = "none" /\ closing'[b] = "open" => push[b] = "none" /\ closing[b] = "open"
  PROVE  adapter' # "bullmq" => AtMostOne(b)' /\ NoneListed(b)'
  BY DEF AtMostOne, NoneListed, Producers

(* A request binds no port. *)
LEMMA RequestPort ==
  ASSUME NEW c \in Calls, Request(c)
  PROVE  UNCHANGED port
  <1>1. CASE RequestServiceBus(c)
    BY <1>1 DEF RequestServiceBus, TopicExists, CreateTopic, SubscriptionExists,
                CreateSubscription, SendServiceBus, Answered, service
  <1>2. CASE RequestNats(c)
    BY <1>2 DEF RequestNats, Manager, StreamInfo, StreamAdd, SendNats, AttachNats, Answered, service
  <1>3. CASE RequestOther(c)
    BY <1>3 DEF RequestOther, CreateProducer, SendPulsar, SendZeroMQ, AttachPulsar,
                AttachActiveMQ, AttachZeroMQ, Answered, service
  <1> QED
    BY <1>1, <1>2, <1>3 DEF Request

(* A call leaves every wire a sequence of messages. *)
LEMMA CallWire ==
  ASSUME Typed, NEW c \in Calls, Call(c)
  PROVE  wire' \in [Brokers -> Seq(Messages)]
  <1>1. wire \in [Brokers -> Seq(Messages)]
    BY DEF Typed, ObjectTyped
  <1>2. CASE UNCHANGED wire
    BY <1>1, <1>2
  <1>3. CASE IsPublish(c) /\ wire' = [wire EXCEPT ![c[1]] =
                               IF c[1] \in client THEN Append(@, c[2]) ELSE @]
    <2>1. c[1] \in Brokers /\ c[2] \in Messages
      BY <1>3, CallFact
    <2>2. Append(wire[c[1]], c[2]) \in Seq(Messages)
      BY <1>1, <2>1, AppendProperties
    <2> QED
      BY <1>1, <1>3, <2>1, <2>2
  <1>4. adapter # "activemq" \/ CallActiveMQ(c)
    BY DEF Call, CallServiceBus, CallNats, CallBullMQ, CallPulsar, CallZeroMQ
  <1> QED
    BY <1>2, <1>3, <1>4, CallMoves DEF CallActiveMQ

(* Steps that leave the object, its phase and the port alone. *)
LEMMA QuietObject ==
  ASSUME Core, ObjectInv, UNCHANGED <<adapter, port, push, object, closing, atClose>>,
         wire' \in [Brokers -> Seq(Messages)], client' \subseteq client
  PROVE  ObjectTyped' /\ ObjectInv'
  <1>1. ObjectTyped'
    BY DEF Core, Typed, ObjectTyped, object
  <1>2. PortHeld'
    BY DEF ObjectInv, PortHeld
  <1>3. Once'
    BY OnceKept DEF ObjectInv, Once, object
  <1>4. Released'
    BY ReleasedKept DEF ObjectInv, Released, object
  <1> QED
    BY <1>1, <1>2, <1>3, <1>4 DEF ObjectInv

(* A call keeps the invariant of the client objects. *)
LEMMA CallObjectInv ==
  ASSUME Core, ObjectInv, NEW c \in Calls, Call(c)
  PROVE  ObjectTyped' /\ ObjectInv'
  <1> DEFINE b == c[1]
  <1>0. Typed /\ b \in Brokers /\ (adapter = "zeromq" => NoneListed(b))
    BY CallFact DEF Core, ObjectInv, Once
  <1>1. NoneListed(b)
    BY <1>0 DEF NoneListed
  <1>2. /\ ObjectsTyped' /\ OnlyAt(b)
        /\ adapter # "bullmq" => (AtMostOne(b) => AtMostOne(b)')
        /\ adapter = "bullmq" => Adds(b)
        /\ adapter = "activemq" => opened'[b] = opened[b]
        /\ adapter = "zeromq" =>
             /\ \A r \in opened'[b] : r \in opened[b] \/ r \in listed'[b]
             /\ listed[b] \subseteq listed'[b]
             /\ (push'[b] = "none" => listed'[b] = listed[b])
        /\ push' \in [Brokers -> {"none", "binding", "bound", "unbound"}]
        /\ \A d \in Brokers : push'[d] = push[d] \/ (push[d] = "none" /\ push'[d] = "binding")
        /\ closing[b] = "open" /\ UNCHANGED life
    BY <1>1, CallObject
  <1>3. UNCHANGED <<adapter, port, client, closing, atClose>>
    BY <1>0, <1>2, CallMoves DEF service, life
  <1>4. wire' \in [Brokers -> Seq(Messages)]
    BY <1>0, CallWire
  <1> HIDE DEF b
  <1>5. ObjectTyped'
    BY <1>2, <1>3, <1>4 DEF ObjectTyped, ObjectsTyped, Core, Typed
  <1>6. PortHeld'
    BY <1>2, <1>3 DEF ObjectInv, PortHeld
  <1>7. Once'
    <2>1. ASSUME NEW d \in Brokers, d # b
          PROVE  adapter' # "bullmq" => AtMostOne(d)' /\ NoneListed(d)'
      <3>1. listed'[d] = listed[d] /\ (push'[d] = "none" => push[d] = "none")
        BY <1>2, <2>1 DEF OnlyAt
      <3> QED
        BY <1>3, <3>1, OnceKept DEF ObjectInv, Once
    <2>2. adapter # "bullmq" => AtMostOne(b)'
      BY <1>0, <1>2 DEF ObjectInv, Once
    <2>3. NoneListed(b)'
      <3>1. adapter = "zeromq" /\ push'[b] = "none" => listed'[b] = listed[b] /\ push[b] = "none"
        BY <1>0, <1>2
      <3> QED
        BY <1>1, <1>3, <3>1 DEF NoneListed, Producers
    <2> QED
      BY <1>3, <2>1, <2>2, <2>3 DEF Once
  <1>8. Released'
    <2>1. ASSUME NEW d \in Brokers, d # b
          PROVE  ReleasedAt(d)'
      <3>1. opened'[d] = opened[d] /\ listed'[d] = listed[d]
        BY <1>2, <2>1 DEF OnlyAt
      <3> QED
        BY <1>3, <3>1, ReleasedKept DEF ObjectInv, Released
    <2>2. ReleasedAt(b)
      BY <1>0 DEF ObjectInv, Released
    <2>3. closing'[b] = "open" /\ atClose'[b] = atClose[b] /\ UNCHANGED adapter
      BY <1>2, <1>3
    <2>4. adapter = "bullmq" => opened'[b] \subseteq listed'[b] /\ atClose'[b] \subseteq listed'[b]
      BY <1>2, <2>2, <2>3 DEF ReleasedAt, Adds
    <2>5. adapter = "activemq" => \A r \in opened'[b] : r[1] = "consumer"
      BY <1>2, <2>2 DEF ReleasedAt
    <2>6. adapter = "zeromq" => \A r \in opened'[b] : r[1] = "consumer" \/ r \in listed'[b]
      BY <1>2, <2>2 DEF ReleasedAt
    <2>7. ReleasedAt(b)'
      BY <2>3, <2>4, <2>5, <2>6 DEF ReleasedAt, Hosted
    <2> QED
      BY <2>1, <2>7 DEF Released
  <1> QED
    BY <1>5, <1>6, <1>7, <1>8 DEF ObjectInv

(* A request keeps the invariant of the client objects. *)
LEMMA RequestObjectInv ==
  ASSUME Core, ObjectInv, NEW c \in Calls, Request(c)
  PROVE  ObjectTyped' /\ ObjectInv'
  <1> DEFINE b == c[1]
  <1>0. Typed /\ b \in Brokers
    BY CallFact DEF Core
  <1>1. /\ UNCHANGED <<adapter, port, wire, push, client, closing, atClose>> /\ adapter # "bullmq"
    BY RequestMoves, RequestPort DEF life
  <1>2. Opens(c)
    BY <1>0, RequestOpens
  <1>3. ObjectTyped'
    BY <1>1, <1>2 DEF Opens, ObjectTyped, ObjectsTyped, Core, Typed
  <1>4. PortHeld'
    BY <1>1 DEF ObjectInv, PortHeld
  <1>5. ASSUME NEW d \in Brokers, d # b
        PROVE  (adapter' # "bullmq" => AtMostOne(d)' /\ NoneListed(d)') /\ ReleasedAt(d)'
    <2>1. opened'[d] = opened[d] /\ listed'[d] = listed[d]
      BY <1>2, <1>5 DEF Opens
    <2>2. adapter' # "bullmq" => AtMostOne(d)' /\ NoneListed(d)'
      BY <1>1, <2>1, OnceKept DEF ObjectInv, Once
    <2>3. ReleasedAt(d)'
      BY <1>1, <2>1, ReleasedKept DEF ObjectInv, Released
    <2> QED
      BY <2>2, <2>3
  <1>6. AtMostOne(b)' /\ NoneListed(b)'
    <2>1. AtMostOne(b)'
      BY <1>0, <1>1, <1>2 DEF Opens, ObjectInv, Once
    <2>2. NoneListed(b)'
      <3>1. adapter = "zeromq" => listed'[b] = listed[b] /\ NoneListed(b)
        BY <1>0, <1>2 DEF Opens, ObjectInv, Once
      <3> QED
        BY <1>1, <3>1 DEF NoneListed, Producers
    <2> QED
      BY <2>1, <2>2
  <1>7. ReleasedAt(b)'
    <2>1. ReleasedAt(b)
      BY <1>0 DEF ObjectInv, Released
    <2>2. /\ adapter \in Hosted /\ b \notin client => opened'[b] = opened[b]
          /\ adapter \in {"activemq", "zeromq"} =>
               /\ listed'[b] = listed[b]
               /\ \A r \in opened'[b] : r \in opened[b] \/ r[1] = "consumer"
      BY <1>2 DEF Opens
    <2> HIDE DEF b
    <2> QED
      BY <1>1, <2>1, <2>2 DEF ReleasedAt
  <1> QED
    BY <1>3, <1>4, <1>5, <1>6, <1>7 DEF ObjectInv, Once, Released

(* A BullMQ publish keeps the invariant of the client objects. *)
LEMMA SendBullMQObjectInv ==
  ASSUME Core, ObjectInv, NEW c \in Calls, IsPublish(c), SendBullMQ(c)
  PROVE  ObjectTyped' /\ ObjectInv'
  <1> DEFINE b == c[1]
  <1>0. Typed /\ b \in Brokers
    BY CallFact DEF Core
  <1>1. /\ UNCHANGED <<adapter, wire, push, client, closing, atClose>> /\ adapter = "bullmq"
        /\ UNCHANGED port
    BY DEF SendBullMQ, life, AddJob, service
  <1>2. ObjectsTyped' /\ OnlyAt(b) /\ Adds(b)
    BY SendBullMQObject
  <1>3. ObjectTyped'
    BY <1>1, <1>2 DEF ObjectTyped, ObjectsTyped, Core, Typed
  <1>4. PortHeld'
    BY <1>1 DEF ObjectInv, PortHeld
  <1>5. Once'
    BY <1>1 DEF Once
  <1>6. ASSUME NEW d \in Brokers, d # b
        PROVE  ReleasedAt(d)'
    BY <1>1, <1>2, <1>6, ReleasedKept DEF ObjectInv, Released, OnlyAt
  <1>7. ReleasedAt(b)'
    <2>1. ReleasedAt(b)
      BY <1>0 DEF ObjectInv, Released
    <2>2. PICK new \in SUBSET Resources :
            /\ opened'[b] = opened[b] \cup new /\ listed'[b] = listed[b] \cup new
            /\ \A r \in new : r[1] = "producer" /\ r \notin listed[b]
      BY <1>2 DEF Adds
    <2> HIDE DEF b
    <2>3. /\ opened[b] \subseteq listed[b] /\ atClose[b] \subseteq listed[b]
          /\ closing[b] \in {"producers", "closed"} =>
               \A r \in opened[b] \cap atClose[b] : r[1] # "consumer"
          /\ closing[b] = "closed" => opened[b] \cap atClose[b] = {}
      BY <1>1, <2>1 DEF ReleasedAt
    <2>4. opened'[b] \cap atClose[b] = opened[b] \cap atClose[b]
      BY <2>2, <2>3
    <2>5. opened'[b] \subseteq listed'[b] /\ atClose[b] \subseteq listed'[b]
      BY <2>2, <2>3
    <2> QED
      BY <1>1, <2>3, <2>4, <2>5 DEF ReleasedAt, Hosted
  <1> QED
    BY <1>3, <1>4, <1>5, <1>6, <1>7 DEF ObjectInv, Released

(* A BullMQ subscribe that has not resolved has no worker in the list. *)
Workers == adapter = "bullmq" => \A c \in Calls :
  IsSubscribe(c) /\ <<"consumer", c[2]>> \in listed[c[1]] => stage[c] = "resolved"

(* A BullMQ worker that is added late keeps the invariant of the client objects: it
   was not open when close was called. *)
LEMMA AttachBullMQObjectInv ==
  ASSUME Core, ObjectInv, Workers, NEW c \in Calls, IsSubscribe(c), AttachBullMQ(c)
  PROVE  ObjectTyped' /\ ObjectInv'
  <1> DEFINE b == c[1]
             r == <<"consumer", c[2]>>
  <1>0. Typed /\ b \in Brokers /\ r \in Resources
    BY CallFact DEF Core
  <1>1. /\ UNCHANGED <<adapter, port, wire, push, client, closing, atClose>> /\ adapter = "bullmq"
        /\ stage[c] = "attach"
    BY AttachBullMQFact DEF life, service
  <1>2. /\ ObjectsTyped' /\ OnlyAt(b)
        /\ opened'[b] = opened[b] \cup {r} /\ listed'[b] = listed[b] \cup {r}
    BY <1>0, OpenFact DEF AttachBullMQ, OnlyAt
  <1>3. r \notin listed[b]
    BY <1>1 DEF Workers
  <1> HIDE DEF b, r
  <1>4. ObjectTyped'
    BY <1>1, <1>2 DEF ObjectTyped, ObjectsTyped, Core, Typed
  <1>5. PortHeld'
    BY <1>1 DEF ObjectInv, PortHeld
  <1>6. Once'
    BY <1>1 DEF Once
  <1>7. ASSUME NEW d \in Brokers, d # b
        PROVE  ReleasedAt(d)'
    BY <1>1, <1>2, <1>7, ReleasedKept DEF ObjectInv, Released, OnlyAt
  <1>8. ReleasedAt(b)'
    <2>1. ReleasedAt(b)
      BY <1>0 DEF ObjectInv, Released
    <2>2. /\ opened[b] \subseteq listed[b] /\ atClose[b] \subseteq listed[b]
          /\ closing[b] \in {"producers", "closed"} =>
               \A x \in opened[b] \cap atClose[b] : x[1] # "consumer"
          /\ closing[b] = "closed" => opened[b] \cap atClose[b] = {}
      BY <1>1, <2>1 DEF ReleasedAt
    <2>3. opened'[b] \cap atClose[b] = opened[b] \cap atClose[b]
      BY <1>2, <1>3, <2>2
    <2>4. opened'[b] \subseteq listed'[b] /\ atClose[b] \subseteq listed'[b]
      BY <1>2, <2>2
    <2> QED
      BY <1>1, <2>2, <2>3, <2>4 DEF ReleasedAt, Hosted
  <1> QED
    BY <1>4, <1>5, <1>6, <1>7, <1>8 DEF ObjectInv, Released

(* The bind of a socket keeps the invariant of the client objects. *)
LEMMA BindObjectInv ==
  ASSUME Core, ObjectInv, NEW b \in Brokers, Bind(b)
  PROVE  ObjectTyped' /\ ObjectInv'
  <1>1. UNCHANGED <<adapter, wire, object, client, closing, atClose>> /\ push[b] = "binding"
    BY DEF Bind, life
  <1>2. PICK to \in {"bound", "unbound"} :
          /\ push' = [push EXCEPT ![b] = to]
          /\ to = "bound" => port = Nobody /\ port' = b
          /\ to = "unbound" => port' = port
    BY DEF Bind
  <1>3. /\ push' \in [Brokers -> {"none", "binding", "bound", "unbound"}]
        /\ \A d \in Brokers : push'[d] = IF d = b THEN to ELSE push[d]
    BY <1>2 DEF Core, Typed, ObjectTyped
  <1>4. ObjectTyped'
    BY <1>1, <1>3 DEF ObjectTyped, Core, Typed, object
  <1>5. PortHeld'
    <2>1. \A d \in Brokers : push[d] = "bound" <=> port = d
      BY DEF ObjectInv, PortHeld
    <2>2. CASE to = "bound"
      <3>1. \A d \in Brokers : push[d] # "bound"
        BY <1>2, <2>1, <2>2, ProvisionAssumption
      <3> QED
        BY <1>2, <1>3, <2>2, <3>1 DEF PortHeld
    <2>3. CASE to = "unbound"
      BY <1>1, <1>2, <1>3, <2>1, <2>3 DEF PortHeld
    <2> QED
      BY <2>2, <2>3
  <1>6. Once'
    BY <1>1, <1>3, OnceKept DEF ObjectInv, Once, object
  <1>7. Released'
    BY <1>1, ReleasedKept DEF ObjectInv, Released, object
  <1> QED
    BY <1>4, <1>5, <1>6, <1>7 DEF ObjectInv

(* The start of close keeps the invariant of the client objects. *)
LEMMA CloseObjectInv ==
  ASSUME Core, ObjectInv, NEW b \in Brokers, Close(b)
  PROVE  ObjectTyped' /\ ObjectInv'
  <1>0. Typed
    BY DEF Core
  <1>1. UNCHANGED <<adapter, port, wire, push, object, client>>
    BY DEF Close, service
  <1>2. FirstStep \in Phases \ {"open"} /\ (FirstStep = "closed" => adapter = "activemq")
        /\ (adapter = "bullmq" => FirstStep = "consumers")
    BY DEF FirstStep, Phases
  <1>3. /\ closing' \in [Brokers -> Phases] /\ closing[b] = "open" /\ closing'[b] = FirstStep
        /\ \A d \in Brokers : d # b => closing'[d] = closing[d]
    BY <1>0, <1>2, ClosingFact DEF Close
  <1>4. /\ atClose' \in [Brokers -> SUBSET Resources] /\ atClose'[b] = opened[b]
        /\ \A d \in Brokers : d # b => atClose'[d] = atClose[d]
    BY <1>0 DEF Close, Typed, ObjectTyped
  <1>5. ObjectTyped'
    BY <1>0, <1>1, <1>3, <1>4 DEF ObjectTyped, Typed, object
  <1>6. PortHeld'
    BY <1>1 DEF ObjectInv, PortHeld
  <1>7. Once'
    <2>1. ASSUME NEW d \in Brokers
          PROVE  adapter' # "bullmq" => AtMostOne(d)' /\ NoneListed(d)'
      BY <1>1, <1>2, <1>3, OnceKept DEF ObjectInv, Once, object
    <2> QED
      BY <2>1 DEF Once
  <1>8. ASSUME NEW d \in Brokers, d # b
        PROVE  ReleasedAt(d)'
    BY <1>1, <1>3, <1>4, <1>8, ReleasedKept DEF ObjectInv, Released, object
  <1>9. ReleasedAt(b)'
    <2>1. ReleasedAt(b)
      BY DEF ObjectInv, Released
    <2>2. UNCHANGED <<adapter, opened, listed>>
      BY <1>1 DEF object
    <2> QED
      BY <1>2, <1>3, <1>4, <2>1, <2>2 DEF ReleasedAt, Hosted
  <1> QED
    BY <1>5, <1>6, <1>7, <1>8, <1>9 DEF ObjectInv, Released

(* The steps of close keep the invariant of the client objects. *)
LEMMA ClosingsObjectInv ==
  ASSUME Core, ObjectInv, NEW b \in Brokers, Closings(b)
  PROVE  ObjectTyped' /\ ObjectInv'
  <1>0. Typed /\ Shuts(b)
    BY ClosingsShut DEF Core
  <1>1. UNCHANGED <<adapter, wire, listed, atClose>>
    BY ClosingsCalls
  <1>2. /\ push' \in [Brokers -> {"none", "binding", "bound", "unbound"}] /\ PortHeld'
        /\ \A d \in Brokers : d # b => push'[d] = push[d]
    <2>1. CASE UNCHANGED <<push, port>>
      BY <1>0, <2>1 DEF Typed, ObjectTyped, ObjectInv, PortHeld
    <2>2. CASE CloseZeroMQ(b)
      <3>1. push' = [push EXCEPT ![b] = "none"] /\ port' = IF port = b THEN Nobody ELSE port
        BY <2>2 DEF CloseZeroMQ
      <3>2. /\ push' \in [Brokers -> {"none", "binding", "bound", "unbound"}]
            /\ \A d \in Brokers : push'[d] = IF d = b THEN "none" ELSE push[d]
        BY <1>0, <3>1 DEF Typed, ObjectTyped
      <3>3. PortHeld'
        BY <3>1, <3>2, ProvisionAssumption DEF ObjectInv, PortHeld
      <3> QED
        BY <3>2, <3>3
    <2> QED
      BY <2>1, <2>2 DEF Closings, CloseListed, CloseClient, CloseBullMQ, CloseFails
  <1>3. ObjectTyped'
    BY <1>0, <1>1, <1>2 DEF ObjectTyped, Typed, Shuts
  <1>4. Once'
    <2>1. ASSUME NEW d \in Brokers
          PROVE  adapter' # "bullmq" => AtMostOne(d)' /\ NoneListed(d)'
      <3>1. push'[d] = "none" /\ closing'[d] = "open" => push[d] = "none" /\ closing[d] = "open"
        BY <1>0, <1>2 DEF Shuts
      <3> QED
        BY <1>1, <3>1, OnceKept DEF ObjectInv, Once
    <2> QED
      BY <2>1 DEF Once
  <1>5. ASSUME NEW d \in Brokers, d # b
        PROVE  ReleasedAt(d)'
    BY <1>0, <1>1, <1>5, ReleasedKept DEF ObjectInv, Released, Shuts
  <1>6. ReleasedAt(b)'
    <2>1. ReleasedAt(b)
      BY DEF ObjectInv, Released
    <2>2. /\ opened'[b] \subseteq opened[b] /\ client' \subseteq client
          /\ closing'[b] = "closed" =>
               \/ opened'[b] = {} /\ b \notin client'
               \/ adapter = "bullmq" /\ closing[b] = "producers" /\ KindOf(b, "producer") = {}
               \/ adapter = "zeromq" /\ opened'[b] = opened[b] \ KindOf(b, "producer")
          /\ adapter = "bullmq" /\ closing'[b] = "producers" =>
               closing[b] = "producers" \/ KindOf(b, "consumer") = {}
      BY <1>0 DEF Shuts
    <2>3. \A r \in opened[b] : r[1] \in {"producer", "consumer"}
      BY <1>0 DEF Typed, ObjectTyped, Resources
    <2>4. CASE adapter \in Hosted \cup {"activemq"}
      BY <1>1, <2>1, <2>2, <2>4 DEF ReleasedAt, Hosted
    <2>5. CASE adapter = "bullmq"
      <3>1. opened'[b] \subseteq listed[b] /\ atClose[b] \subseteq listed[b]
        BY <2>1, <2>2, <2>5 DEF ReleasedAt
      <3>2. KindOf(b, "consumer") = {} => \A r \in opened[b] : r[1] # "consumer"
        BY <2>1, <2>5 DEF ReleasedAt, KindOf
      <3>3. KindOf(b, "producer") = {} => \A r \in opened[b] : r[1] # "producer"
        BY <2>1, <2>5 DEF ReleasedAt, KindOf
      <3>4. closing[b] = "producers" => \A r \in opened[b] \cap atClose[b] : r[1] # "consumer"
        BY <2>1, <2>5 DEF ReleasedAt
      <3>5. closing'[b] = "producers" => \A r \in opened'[b] \cap atClose[b] : r[1] # "consumer"
        BY <2>2, <2>5, <3>2, <3>4
      <3>6. closing'[b] = "closed" => opened'[b] \cap atClose[b] = {}
        <4>1. ASSUME closing'[b] = "closed", NEW r \in opened'[b] \cap atClose[b]
              PROVE  FALSE
          BY <2>2, <2>3, <2>5, <3>3, <3>4, <4>1
        <4> QED
          BY <4>1
      <3> QED
        BY <1>1, <2>5, <3>1, <3>5, <3>6 DEF ReleasedAt, Hosted
    <2>6. CASE adapter = "zeromq"
      <3>1. \A r \in opened[b] : r[1] = "consumer" \/ r \in listed[b]
        BY <2>1, <2>6 DEF ReleasedAt
      <3>2. closing'[b] = "closed" => \A r \in opened'[b] : r[1] = "consumer"
        BY <2>2, <2>3, <2>6, <3>1 DEF KindOf
      <3> QED
        BY <1>1, <2>2, <2>6, <3>1, <3>2 DEF ReleasedAt, Hosted
    <2> QED
      BY <1>0, <2>4, <2>5, <2>6 DEF Typed, Adapters, Hosted
  <1> QED
    BY <1>2, <1>3, <1>4, <1>5, <1>6 DEF ObjectInv, Released

(* Every step keeps the invariant of the client objects. *)
LEMMA StepObject ==
  ASSUME Core, ObjectInv, Workers, [Next]_vars
  PROVE  ObjectTyped' /\ ObjectInv'
  <1>0. wire \in [Brokers -> Seq(Messages)] /\ <<>> \in Seq(Messages)
    BY EmptySeq DEF Core, Typed, ObjectTyped
  <1>1. ASSUME NEW b \in Brokers, SendArrives(b)
        PROVE  ObjectTyped' /\ ObjectInv'
    <2>1. wire' = [wire EXCEPT ![b] = Tail(wire[b])] /\ Tail(wire[b]) \in Seq(Messages)
      BY <1>1, WireFact DEF SendArrives
    <2>2. wire' \in [Brokers -> Seq(Messages)]
      BY <1>0, <2>1
    <2> QED
      BY <1>1, <2>2, QuietObject DEF SendArrives, life
  <1>2. ASSUME NEW b \in Brokers, ConnectionLost(b)
        PROVE  ObjectTyped' /\ ObjectInv'
    <2>1. wire' = [wire EXCEPT ![b] = <<>>] /\ client' \subseteq client
      BY <1>2 DEF ConnectionLost
    <2>2. wire' \in [Brokers -> Seq(Messages)]
      BY <1>0, <2>1
    <2> QED
      BY <1>2, <2>1, <2>2, QuietObject DEF ConnectionLost, service
  <1>3. ASSUME NEW b \in Brokers, NEW g \in Groups, SubscribeArrives(b, g)
        PROVE  ObjectTyped' /\ ObjectInv'
    BY <1>0, <1>3, QuietObject DEF SubscribeArrives, life
  <1>4. ASSUME NEW g \in Groups, NEW m \in Messages, RemoveJob(g, m)
        PROVE  ObjectTyped' /\ ObjectInv'
    BY <1>0, <1>4, QuietObject DEF RemoveJob, life, service
  <1>5. CASE UNCHANGED vars \/ \E s \in Calls : PeerLost(s)
    BY <1>0, <1>5, QuietObject DEF vars, life, service, PeerLost
  <1>6. ASSUME NEW p \in pipe, PipeArrives(p)
        PROVE  ObjectTyped' /\ ObjectInv'
    BY <1>0, <1>6, QuietObject DEF PipeArrives, life
  <1> QED
    BY <1>1, <1>2, <1>3, <1>4, <1>5, <1>6, Cases, CallObjectInv, RequestObjectInv,
       SendBullMQObjectInv, AttachBullMQObjectInv, BindObjectInv, CloseObjectInv,
       ClosingsObjectInv

(* Every step lists a BullMQ worker only as its subscribe resolves. *)
LEMMA StepWorkers ==
  ASSUME Core, Workers, [Next]_vars
  PROVE  Workers'
  <1>0. Typed
    BY DEF Core
  <1>1. ASSUME UNCHANGED <<adapter, listed>>, NEW b,
               \A c \in Calls : stage'[c] = stage[c] \/ (adapter = "zeromq" /\ c[1] = b)
        PROVE  Workers'
    BY <1>1 DEF Workers, IsSubscribe
  <1>2. ASSUME adapter # "bullmq", UNCHANGED adapter
        PROVE  Workers'
    BY <1>2 DEF Workers
  <1>3. ASSUME adapter = "bullmq", UNCHANGED adapter, NEW c \in Calls, OnlyAt(c[1]), Adds(c[1]),
               \A d \in Calls : d # c => stage'[d] = stage[d],
               IsSubscribe(c) => stage[c] # "resolved"
        PROVE  Workers'
    <2>1. ASSUME NEW d \in Calls, IsSubscribe(d), <<"consumer", d[2]>> \in listed'[d[1]]
          PROVE  stage'[d] = "resolved"
      <3>1. d[1] \in Brokers
        BY CallFact
      <3>2. <<"consumer", d[2]>> \in listed[d[1]]
        <4>1. CASE d[1] = c[1]
          <5>1. PICK new \in SUBSET Resources :
                  /\ listed'[c[1]] = listed[c[1]] \cup new
                  /\ \A r \in new : r[1] = "producer"
            BY <1>3 DEF Adds
          <5>2. <<"consumer", d[2]>>[1] # "producer"
            OBVIOUS
          <5> QED
            BY <2>1, <4>1, <5>1, <5>2
        <4>2. CASE d[1] # c[1]
          BY <1>3, <2>1, <3>1, <4>2 DEF OnlyAt
        <4> QED
          BY <4>1, <4>2
      <3>3. stage[d] = "resolved"
        BY <1>3, <2>1, <3>2 DEF Workers
      <3> QED
        BY <1>3, <2>1, <3>3
    <2> QED
      BY <2>1 DEF Workers, IsSubscribe
  <1>4. ASSUME NEW c \in Calls, Call(c), adapter = "bullmq"
        PROVE  Workers'
    <2>1. PICK ensure \in BOOLEAN : Called(c, ensure)
      BY <1>0, <1>4, CallMoves
    <2>2. stage[c] # "resolved"
      BY <1>0, <2>1, CalledTyped
    <2>3. Moves(c, Stages) /\ UNCHANGED adapter
      BY <1>0, <1>4, CallMoves
    <2>4. \A d \in Calls : d # c => stage'[d] = stage[d]
      BY <1>0, <2>3, GoFact DEF Moves
    <2> QED
      BY <1>3, <1>4, <2>2, <2>3, <2>4, CallBullMQObject
  <1>5. ASSUME NEW c \in Calls, Call(c)
        PROVE  Workers'
    BY <1>0, <1>2, <1>4, <1>5, CallMoves
  <1>6. ASSUME NEW c \in Calls, Request(c)
        PROVE  Workers'
    BY <1>2, <1>6, RequestMoves
  <1>7. ASSUME NEW c \in Calls, IsPublish(c), SendBullMQ(c)
        PROVE  Workers'
    <2>1. /\ adapter = "bullmq" /\ UNCHANGED adapter
          /\ UNCHANGED stage \/ Go(c, "send", "resolved") \/ Go(c, "send", "failed")
      BY <1>7, SendBullMQFact
    <2>2. \A d \in Calls : d # c => stage'[d] = stage[d]
      BY <1>0, <2>1, GoFact DEF Stages, Ends
    <2> QED
      BY <1>3, <1>7, <2>1, <2>2, CallFact, SendBullMQObject
  <1>8. ASSUME NEW c \in Calls, IsSubscribe(c), AttachBullMQ(c)
        PROVE  Workers'
    <2>1. /\ UNCHANGED adapter /\ adapter = "bullmq"
          /\ \A d \in Calls : stage'[d] = IF d = c THEN "resolved" ELSE stage[d]
      BY <1>8, AttachBullMQFact
    <2>2. /\ \A b \in Brokers : b # c[1] => listed'[b] = listed[b]
          /\ listed'[c[1]] = listed[c[1]] \cup {<<"consumer", c[2]>>}
      <3>1. c[1] \in Brokers /\ <<"consumer", c[2]>> \in Resources
        BY CallFact
      <3>2. Open(c[1], <<"consumer", c[2]>>)
        BY <1>8 DEF AttachBullMQ
      <3> QED
        BY <1>0, <3>1, <3>2, OpenFact
    <2>3. ASSUME NEW d \in Calls, IsSubscribe(d), <<"consumer", d[2]>> \in listed'[d[1]], d # c
          PROVE  stage'[d] = "resolved"
      <3>1. d[1] # c[1] \/ d[2] # c[2]
        <4>1. ASSUME NEW e \in Calls
              PROVE  e \in Brokers \X (Messages \cup Groups)
          <5>1. PICK a \in Adapters : e \in CallsOf[a]
            BY DEF Calls
          <5> QED
            BY <5>1, ProvisionAssumption
        <4>2. c = <<c[1], c[2]>> /\ d = <<d[1], d[2]>>
          BY <4>1
        <4> QED
          BY <2>3, <4>2
      <3>2. <<"consumer", d[2]>> \in listed[d[1]]
        <4>1. d[1] \in Brokers
          BY CallFact
        <4>2. <<"consumer", d[2]>> = <<"consumer", c[2]>> => d[2] = c[2]
          OBVIOUS
        <4>3. CASE d[1] # c[1]
          BY <2>2, <2>3, <4>1, <4>3
        <4>4. CASE d[1] = c[1]
          BY <2>2, <2>3, <3>1, <4>2, <4>4
        <4> QED
          BY <4>3, <4>4
      <3> QED
        BY <2>1, <2>3, <3>2 DEF Workers
    <2> QED
      BY <2>1, <2>3 DEF Workers, IsSubscribe
  <1>9. ASSUME NEW b \in Brokers, Closings(b)
        PROVE  Workers'
    BY <1>1, <1>9, ClosingsCalls
  <1>10. ASSUME NEW b \in Brokers,
                \/ SendArrives(b) \/ ConnectionLost(b) \/ Bind(b) \/ Close(b)
                \/ \E g \in Groups : SubscribeArrives(b, g)
         PROVE  Workers'
    BY <1>1, <1>10 DEF SendArrives, ConnectionLost, Bind, Close, SubscribeArrives, object
  <1>11. ASSUME \/ \E g \in Groups, m \in Messages : RemoveJob(g, m)
                \/ \E s \in Calls : PeerLost(s)
                \/ \E p \in pipe : PipeArrives(p)
                \/ UNCHANGED vars
         PROVE  Workers'
    BY <1>1, <1>11 DEF RemoveJob, PeerLost, PipeArrives, vars, object
  <1> QED
    BY <1>5, <1>6, <1>7, <1>8, <1>9, <1>10, <1>11, Cases

(* A ZeroMQ broker that is closed has no socket. *)
Unbound == adapter = "zeromq" => \A b \in Brokers :
  closing[b] # "client" /\ (closing[b] = "closed" => push[b] = "none")

(* Every step keeps a closed broker without a socket. *)
LEMMA StepUnbound ==
  ASSUME Core, Unbound, [Next]_vars
  PROVE  Unbound'
  <1>0. Typed
    BY DEF Core
  <1>1. ASSUME UNCHANGED <<adapter, push, closing>>
        PROVE  Unbound'
    BY <1>1 DEF Unbound
  <1>2. ASSUME NEW b \in Brokers, UNCHANGED adapter, closing[b] # "closed",
               \A d \in Brokers : d # b => push'[d] = push[d] /\ closing'[d] = closing[d],
               adapter = "zeromq" => /\ closing'[b] # "client"
                                     /\ closing'[b] = "closed" => push'[b] = "none"
        PROVE  Unbound'
    BY <1>2 DEF Unbound
  <1>3. ASSUME NEW c \in Calls, Call(c)
        PROVE  Unbound'
    <2>1. PICK ensure \in BOOLEAN : Called(c, ensure)
      BY <1>0, <1>3, CallMoves
    <2>2. UNCHANGED <<adapter, closing>> /\ closing[c[1]] = "open" /\ c[1] \in Brokers
      BY <1>0, <1>3, <2>1, CallMoves, CalledTyped, CallFact DEF life
    <2>3. CASE adapter # "zeromq"
      BY <2>2, <2>3 DEF Unbound
    <2>4. CASE adapter = "zeromq"
      <3>1. CallZeroMQ(c)
        BY <1>3, <2>4 DEF Call, CallPulsar, CallActiveMQ, CallServiceBus, CallNats, CallBullMQ
      <3>2. \A d \in Brokers : d # c[1] => push'[d] = push[d]
        BY <1>0, <2>2, <3>1 DEF CallZeroMQ, Typed, ObjectTyped
      <3> QED
        BY <1>2, <2>2, <3>2
    <2> QED
      BY <2>3, <2>4
  <1>4. ASSUME NEW c \in Calls, Request(c)
        PROVE  Unbound'
    BY <1>1, <1>4, RequestMoves DEF life
  <1>5. ASSUME NEW c \in Calls, SendBullMQ(c) \/ AttachBullMQ(c)
        PROVE  Unbound'
    BY <1>1, <1>5 DEF SendBullMQ, AttachBullMQ, Elsewhere, life
  <1>6. ASSUME NEW b \in Brokers, Bind(b)
        PROVE  Unbound'
    <2>1. /\ UNCHANGED <<adapter, closing>> /\ push[b] = "binding"
          /\ \A d \in Brokers : d # b => push'[d] = push[d]
      BY <1>0, <1>6 DEF Bind, life, Typed, ObjectTyped
    <2> QED
      BY <1>2, <2>1 DEF Unbound
  <1>7. ASSUME NEW b \in Brokers, Close(b)
        PROVE  Unbound'
    <2>1. FirstStep \in Phases /\ (adapter = "zeromq" => FirstStep = "producers")
      BY DEF FirstStep, Phases
    <2>2. UNCHANGED <<adapter, push>> /\ Closing(b, "open", FirstStep)
      BY <1>7 DEF Close
    <2> QED
      BY <1>0, <1>2, <2>1, <2>2, ClosingFact
  <1>8. ASSUME NEW b \in Brokers, CloseZeroMQ(b)
        PROVE  Unbound'
    <2>1. Closing(b, "producers", "closed") /\ "closed" \in Phases /\ UNCHANGED adapter
      BY <1>8 DEF CloseZeroMQ, OnClose, Phases
    <2>2. \A d \in Brokers : push'[d] = IF d = b THEN "none" ELSE push[d]
      BY <1>0, <1>8 DEF CloseZeroMQ, Typed, ObjectTyped
    <2> QED
      BY <1>0, <1>2, <2>1, <2>2, ClosingFact
  <1>9. ASSUME NEW b \in Brokers, CloseFails(b)
        PROVE  Unbound'
    <2>1. PICK from \in {"consumers", "producers", "client"} : Closing(b, from, "failed")
      BY <1>9 DEF CloseFails
    <2>2. UNCHANGED <<adapter, push>> /\ "failed" \in Phases
      BY <1>9 DEF CloseFails, OnClose, Phases
    <2> QED
      BY <1>0, <1>2, <2>1, <2>2, ClosingFact
  <1>10. ASSUME NEW b \in Brokers, CloseListed(b) \/ CloseBullMQ(b) \/ CloseClient(b)
         PROVE  Unbound'
    BY <1>10 DEF CloseListed, CloseBullMQ, CloseClient, Closing, OnClose, Unbound
  <1>11. ASSUME NEW b \in Brokers, \/ SendArrives(b) \/ ConnectionLost(b)
                                   \/ \E g \in Groups : SubscribeArrives(b, g)
         PROVE  Unbound'
    BY <1>1, <1>11 DEF SendArrives, ConnectionLost, SubscribeArrives, life
  <1>12. ASSUME \/ \E g \in Groups, m \in Messages : RemoveJob(g, m)
                \/ \E s \in Calls : PeerLost(s)
                \/ \E p \in pipe : PipeArrives(p)
                \/ UNCHANGED vars
         PROVE  Unbound'
    BY <1>1, <1>12 DEF RemoveJob, PeerLost, PipeArrives, vars, life
  <1> QED
    BY <1>3, <1>4, <1>5, <1>6, <1>7, <1>8, <1>9, <1>10, <1>11, <1>12, Cases DEF Closings

-----------------------------------------------------------------------------
(* A call that ensures has a topic once it is past its look-up, and is refused
   only where there is a topic. *)
PastTopic == {"lookGroup", "createGroup", "send", "attach"}

Finds(c, s, t) ==
  /\ adapter \in {"servicebus", "nats"} /\ s \in PastTopic => t # Absent
  /\ s # "missing"
  /\ s = "refused" => \/ adapter = "servicebus" /\ t # Absent
                      \/ adapter = "nats" /\ t \notin {Absent, Options[c[1]]}

Ensured == \A c \in ensured : Finds(c, stage[c], topic)

(* A call that finds its topic still finds it: a topic never goes. *)
LEMMA FindsKept ==
  ASSUME Grows, NEW c, Finds(c, stage[c], topic)
  PROVE  Finds(c, stage[c], topic')
  BY DEF Finds, Grows, PastTopic

(* A call that is not ended badly and needs no topic yet. *)
LEMMA FindsEarly ==
  ASSUME NEW c, NEW t, NEW s \in {"idle", "manager", "look", "create", "producer", "resolved", "failed"}
  PROVE  Finds(c, s, t)
  BY DEF Finds, PastTopic

(* A broker's options describe a topic. *)
LEMMA OptionsFact ==
  ASSUME NEW c \in Calls
  PROVE  Options[c[1]] # Absent
  <1>1. c[1] \in Brokers
    BY CallFact
  <1> QED
    BY <1>1, ProvisionAssumption

(* A Service Bus call that ensures finds its topic at its next stage. *)
LEMMA ServiceBusFinds ==
  ASSUME Core, Grows, NEW c \in Calls, RequestServiceBus(c), Finds(c, stage[c], topic)
  PROVE  \E to \in Stages : Go(c, stage[c], to) /\ Finds(c, to, topic')
  <1>0. adapter = "servicebus" /\ Options[c[1]] # Absent /\ (topic # Absent => topic' = topic)
    BY ServiceBusMoves, OptionsFact DEF Grows
  <1>1. ASSUME topic' # Absent, NEW to \in Stages \ {"missing"}
        PROVE  Finds(c, to, topic')
    BY <1>0, <1>1 DEF Finds
  <1>2. ASSUME NEW to \in {"create", "failed", "resolved"}
        PROVE  Finds(c, to, topic')
    BY <1>2, FindsEarly
  <1>3. ASSUME NEW from, topic' # Absent, AfterTopic(c, from) \/ Attach(c, from)
        PROVE  \E to \in Stages : Go(c, stage[c], to) /\ Finds(c, to, topic')
    <2>1. \E to \in {"lookGroup", "failed", "send", "resolved"} : Go(c, stage[c], to)
      BY <1>3 DEF AfterTopic, Attach, Up, Go
    <2>2. {"lookGroup", "failed", "send", "resolved"} \subseteq Stages \ {"missing"}
      BY DEF Stages, Waits, Ends
    <2> QED
      BY <1>1, <1>3, <2>1, <2>2
  <1>4. ASSUME NEW from, NEW to \in {"create", "failed", "resolved"}, Go(c, from, to)
        PROVE  \E s \in Stages : Go(c, stage[c], s) /\ Finds(c, s, topic')
    <2>1. to \in Stages /\ Go(c, stage[c], to)
      BY <1>4 DEF Go, Stages, Waits, Ends
    <2> QED
      BY <1>2, <2>1
  <1>5. ASSUME NEW from, NEW to \in {"createGroup", "refused"}, Go(c, from, to), topic' # Absent
        PROVE  \E s \in Stages : Go(c, stage[c], s) /\ Finds(c, s, topic')
    <2>1. to \in Stages \ {"missing"} /\ Go(c, stage[c], to)
      BY <1>5 DEF Go, Stages, Waits, Ends
    <2> QED
      BY <1>1, <1>5, <2>1
  <1>6. CASE TopicExists(c)
    <2>1. \/ topic # Absent /\ AfterTopic(c, "look")
          \/ Go(c, "look", "create") \/ Go(c, "look", "failed")
      BY <1>6 DEF TopicExists, AdminFails
    <2> QED
      BY <1>0, <1>3, <1>4, <2>1
  <1>7. CASE CreateTopic(c)
    <2>1. \/ topic' = Options[c[1]] /\ AfterTopic(c, "create")
          \/ topic # Absent /\ Go(c, "create", "refused")
          \/ Go(c, "create", "failed")
      BY <1>7 DEF CreateTopic, AdminFails
    <2> QED
      BY <1>0, <1>3, <1>4, <1>5, <2>1
  <1>8. CASE SubscriptionExists(c) \/ CreateSubscription(c)
    <2>1. \/ Attach(c, "lookGroup") \/ Attach(c, "createGroup")
          \/ Go(c, "lookGroup", "createGroup") \/ Go(c, "createGroup", "refused")
          \/ Go(c, "lookGroup", "failed") \/ Go(c, "createGroup", "failed")
      BY <1>8 DEF SubscriptionExists, CreateSubscription, AdminFails
    <2>2. stage[c] \in PastTopic
      BY <2>1 DEF Attach, Up, Go, PastTopic
    <2>3. topic' # Absent
      BY <1>0, <2>2 DEF Finds
    <2> QED
      BY <1>3, <1>4, <1>5, <2>1, <2>3
  <1>9. CASE SendServiceBus(c)
    <2>1. stage[c] = "send"
      BY <1>9 DEF SendServiceBus, Answered, Fails, Up, Go
    <2>2. topic # Absent
      BY <1>0, <2>1 DEF Finds, PastTopic
    <2>3. Go(c, "send", "failed") \/ Go(c, "send", "resolved")
      BY <1>9, <2>2 DEF SendServiceBus, Answered, Fails, Up
    <2> QED
      BY <1>4, <2>3
  <1> QED
    BY <1>6, <1>7, <1>8, <1>9 DEF RequestServiceBus

(* A NATS call that ensures finds its stream at its next stage. *)
LEMMA NatsFinds ==
  ASSUME Core, Grows, NEW c \in Calls, RequestNats(c), Finds(c, stage[c], topic)
  PROVE  \E to \in Stages : Go(c, stage[c], to) /\ Finds(c, to, topic')
  <1>0. adapter = "nats" /\ Options[c[1]] # Absent /\ (topic # Absent => topic' = topic)
    BY NatsMoves, OptionsFact DEF Grows
  <1>1. ASSUME topic' # Absent, NEW from, Go(c, from, AfterStream(c))
        PROVE  \E to \in Stages : Go(c, stage[c], to) /\ Finds(c, to, topic')
    <2>1. AfterStream(c) \in {"send", "attach"} /\ Go(c, stage[c], AfterStream(c))
      BY <1>1 DEF AfterStream, Go
    <2>2. \A to \in {"send", "attach"} : to \in Stages /\ Finds(c, to, topic')
      BY <1>1 DEF Finds, Stages, Waits, Ends
    <2> QED
      BY <2>1, <2>2
  <1>2. ASSUME NEW from, NEW to \in {"look", "create", "failed", "resolved"}, Go(c, from, to)
        PROVE  \E s \in Stages : Go(c, stage[c], s) /\ Finds(c, s, topic')
    <2>1. to \in Stages /\ Go(c, stage[c], to) /\ Finds(c, to, topic')
      BY <1>2, FindsEarly DEF Go, Stages, Waits, Ends
    <2> QED
      BY <2>1
  <1>3. ASSUME NEW from, Go(c, from, "refused"), topic' \notin {Absent, Options[c[1]]}
        PROVE  \E s \in Stages : Go(c, stage[c], s) /\ Finds(c, s, topic')
    <2>1. "refused" \in Stages /\ Go(c, stage[c], "refused")
      BY <1>3 DEF Go, Stages, Waits, Ends
    <2>2. Finds(c, "refused", topic')
      BY <1>0, <1>3 DEF Finds, PastTopic
    <2> QED
      BY <2>1, <2>2
  <1>4. CASE Manager(c)
    <2>1. Go(c, "manager", "look") \/ Go(c, "manager", "failed")
      BY <1>4 DEF Manager, Up, Fails
    <2> QED
      BY <1>2, <2>1
  <1>5. CASE StreamInfo(c)
    <2>1. (topic # Absent /\ Go(c, "look", AfterStream(c))) \/ Go(c, "look", "create")
      BY <1>5 DEF StreamInfo, Up
    <2> QED
      BY <1>0, <1>1, <1>2, <2>1
  <1>6. CASE StreamAdd(c)
    <2>1. \/ topic' = Options[c[1]] /\ Go(c, "create", AfterStream(c))
          \/ topic \notin {Absent, Options[c[1]]} /\ Go(c, "create", "refused")
          \/ Go(c, "create", "failed")
      BY <1>6 DEF StreamAdd, Answered, Up, Fails
    <2> QED
      BY <1>0, <1>1, <1>2, <1>3, <2>1
  <1>7. CASE SendNats(c) \/ AttachNats(c)
    <2>1. stage[c] \in {"send", "attach"}
      BY <1>7 DEF SendNats, AttachNats, Answered, Fails, Up, Go
    <2>2. topic # Absent
      BY <1>0, <2>1 DEF Finds, PastTopic
    <2>3. \E from : Go(c, from, "failed") \/ Go(c, from, "resolved")
      BY <1>7, <2>2 DEF SendNats, AttachNats, Answered, Fails, Up
    <2> QED
      BY <1>2, <2>3
  <1> QED
    BY <1>4, <1>5, <1>6, <1>7 DEF RequestNats

(* A call to the other services never ends missing or refused. *)
LEMMA OtherFinds ==
  ASSUME NEW c \in Calls, RequestOther(c)
  PROVE  \E to \in Stages : Go(c, stage[c], to) /\ Finds(c, to, topic')
  <1>0. adapter \notin {"servicebus", "nats"}
    BY OtherMoves
  <1>1. \E to \in {"send", "resolved", "failed"} : Go(c, stage[c], to)
    <2>1. CASE CreateProducer(c) \/ SendPulsar(c) \/ AttachPulsar(c)
      BY <2>1 DEF CreateProducer, SendPulsar, AttachPulsar, Answered, Fails, Up, Go
    <2>2. CASE AttachActiveMQ(c) \/ AttachZeroMQ(c) \/ SendZeroMQ(c)
      BY <2>2 DEF AttachActiveMQ, AttachZeroMQ, SendZeroMQ, Go
    <2> QED
      BY <2>1, <2>2 DEF RequestOther
  <1>2. \A to \in {"send", "resolved", "failed"} : to \in Stages /\ Finds(c, to, topic')
    BY <1>0 DEF Finds, Stages, Waits, Ends
  <1> QED
    BY <1>1, <1>2

(* A call that ensures starts where it will look for its topic. *)
LEMMA CallFinds ==
  ASSUME Core, NEW c \in Calls, Call(c), c \in ensured'
  PROVE  \E to \in Stages : Go(c, stage[c], to) /\ Finds(c, to, topic')
  <1>0. Typed
    BY DEF Core
  <1>1. ASSUME NEW to \in {"look", "manager"}, Go(c, stage[c], to)
        PROVE  \E s \in Stages : Go(c, stage[c], s) /\ Finds(c, s, topic')
    <2>1. to \in Stages /\ Finds(c, to, topic')
      BY <1>1, FindsEarly DEF Stages, Waits, Ends
    <2> QED
      BY <1>1, <2>1
  <1>2. ASSUME adapter \notin {"servicebus", "nats"},
               NEW to \in {"attach", "producer", "send", "resolved", "failed"},
               Go(c, stage[c], to)
        PROVE  \E s \in Stages : Go(c, stage[c], s) /\ Finds(c, s, topic')
    <2>1. to \in Stages /\ Finds(c, to, topic')
      BY <1>2 DEF Finds, Stages, Waits, Ends
    <2> QED
      BY <1>2, <2>1
  <1>3. ASSUME NEW ensure \in BOOLEAN, CallServiceBus(c, ensure) \/ CallNats(c, ensure)
        PROVE  \E s \in Stages : Go(c, stage[c], s) /\ Finds(c, s, topic')
    <2>1. ensure
      BY <1>0, <1>3, CalledTyped DEF CallServiceBus, CallNats
    <2>2. Go(c, stage[c], "look") \/ Go(c, stage[c], "manager")
      BY <1>3, <2>1 DEF CallServiceBus, CallNats
    <2> QED
      BY <1>1, <2>2
  <1>4. CASE adapter = "bullmq"
    <2>1. Go(c, stage[c], "send") \/ Go(c, stage[c], "attach")
      BY <1>4, CallBullMQFact
    <2> QED
      BY <1>2, <1>4, <2>1
  <1>5. CASE CallPulsar(c) \/ CallActiveMQ(c) \/ CallZeroMQ(c)
    <2>1. adapter \notin {"servicebus", "nats"}
      BY <1>5 DEF CallPulsar, CallActiveMQ, CallZeroMQ
    <2>2. \E to \in {"attach", "producer", "send", "resolved", "failed"} : Go(c, stage[c], to)
      BY <1>5 DEF CallPulsar, CallActiveMQ, CallZeroMQ
    <2> QED
      BY <1>2, <2>1, <2>2
  <1> QED
    BY <1>3, <1>4, <1>5 DEF Call, CallBullMQ

(* Every step leaves calls that ensure with the topic they use. *)
LEMMA StepEnsured ==
  ASSUME Core, Grows, Ensured, [Next]_vars
  PROVE  Ensured'
  <1>0. Typed /\ UNCHANGED adapter
    BY DEF Core, Grows
  <1>1. ASSUME ensured' \subseteq ensured,
               \A d \in ensured : stage'[d] = stage[d] \/ stage'[d] = "failed"
        PROVE  Ensured'
    <2>1. ASSUME NEW d \in ensured'
          PROVE  Finds(d, stage'[d], topic')
      <3>1. d \in ensured /\ (stage'[d] = stage[d] \/ stage'[d] = "failed")
        BY <1>1, <2>1
      <3>2. Finds(d, stage[d], topic')
        BY <3>1, FindsKept DEF Ensured
      <3>3. Finds(d, "failed", topic')
        BY FindsEarly
      <3> QED
        BY <3>1, <3>2, <3>3
    <2> QED
      BY <1>0, <2>1 DEF Ensured, Finds
  <1>2. ASSUME NEW c \in Calls, NEW to \in Stages, Go(c, stage[c], to),
               ensured' \ {c} \subseteq ensured, ensured \subseteq Calls,
               c \in ensured' => Finds(c, to, topic')
        PROVE  Ensured'
    <2>1. \A d \in Calls : stage'[d] = IF d = c THEN to ELSE stage[d]
      BY <1>0, <1>2, GoFact
    <2>2. ASSUME NEW d \in ensured'
          PROVE  Finds(d, stage'[d], topic')
      <3>1. CASE d = c
        BY <1>2, <2>1, <2>2, <3>1
      <3>2. CASE d # c
        <4>1. d \in ensured /\ stage'[d] = stage[d]
          BY <1>2, <2>1, <2>2, <3>2
        <4> QED
          BY <4>1, FindsKept DEF Ensured
      <3> QED
        BY <3>1, <3>2
    <2> QED
      BY <1>0, <2>2 DEF Ensured, Finds
  <1>3. ensured \subseteq Calls
    BY <1>0 DEF Typed, CallTyped
  <1>4. ASSUME NEW c \in Calls, Call(c)
        PROVE  Ensured'
    <2>1. PICK ensure \in BOOLEAN : Called(c, ensure)
      BY <1>0, <1>4, CallMoves
    <2>2. ensured' \ {c} \subseteq ensured
      BY <2>1 DEF Called
    <2>3. CASE c \in ensured'
      BY <1>2, <1>3, <1>4, <2>2, <2>3, CallFinds
    <2>4. CASE c \notin ensured'
      BY <1>0, <1>2, <1>3, <1>4, <2>2, <2>4, CallMoves DEF Moves
    <2> QED
      BY <2>3, <2>4
  <1>5. ASSUME NEW c \in Calls, Request(c)
        PROVE  Ensured'
    <2>1. UNCHANGED ensured
      BY <1>5, RequestMoves DEF call
    <2>2. CASE c \in ensured
      <3>1. Finds(c, stage[c], topic)
        BY <2>2 DEF Ensured
      <3>2. \E to \in Stages : Go(c, stage[c], to) /\ Finds(c, to, topic')
        BY <1>5, <3>1, ServiceBusFinds, NatsFinds, OtherFinds DEF Request
      <3> QED
        BY <1>2, <1>3, <2>1, <3>2
    <2>3. CASE c \notin ensured
      BY <1>2, <1>3, <1>5, <2>1, <2>3, RequestMoves DEF Moves
    <2> QED
      BY <2>2, <2>3
  <1>6. ASSUME NEW c \in Calls, IsPublish(c), SendBullMQ(c)
        PROVE  Ensured'
    <2>1. /\ adapter = "bullmq" /\ UNCHANGED ensured /\ stage[c] = "send"
          /\ UNCHANGED stage \/ Go(c, "send", "resolved") \/ Go(c, "send", "failed")
      BY <1>6, SendBullMQFact
    <2>2. CASE UNCHANGED stage
      BY <1>1, <2>1, <2>2
    <2>3. ASSUME NEW to \in {"resolved", "failed"}, Go(c, "send", to)
          PROVE  Ensured'
      <3>1. to \in Stages /\ Finds(c, to, topic')
        BY <2>3, FindsEarly DEF Stages, Ends
      <3> QED
        BY <1>2, <1>3, <2>1, <2>3, <3>1
    <2> QED
      BY <2>1, <2>2, <2>3
  <1>7. ASSUME NEW b \in Brokers, Closings(b)
        PROVE  Ensured'
    BY <1>1, <1>3, <1>7, ClosingsCalls DEF call
  <1>8. CASE UNCHANGED <<stage, ensured>>
    BY <1>1, <1>8
  <1>9. ASSUME NEW b \in Brokers,
               \/ SendArrives(b) \/ ConnectionLost(b) \/ Bind(b) \/ Close(b)
               \/ \E g \in Groups : SubscribeArrives(b, g)
        PROVE  Ensured'
    BY <1>8, <1>9 DEF SendArrives, ConnectionLost, Bind, Close, SubscribeArrives, call
  <1>10. ASSUME \/ \E g \in Groups, m \in Messages : RemoveJob(g, m)
                \/ \E s \in Calls : PeerLost(s)
                \/ \E p \in pipe : PipeArrives(p)
        PROVE  Ensured'
    BY <1>8, <1>10 DEF RemoveJob, PeerLost, PipeArrives, call
  <1>11. ASSUME NEW c \in Calls, AttachBullMQ(c)
         PROVE  Ensured'
    <2>1. Go(c, stage[c], "resolved") /\ UNCHANGED ensured /\ "resolved" \in Stages
      BY <1>11 DEF AttachBullMQ, Go, Elsewhere, call, Stages, Ends
    <2>2. Finds(c, "resolved", topic')
      BY FindsEarly
    <2> QED
      BY <1>2, <1>3, <2>1, <2>2
  <1> QED
    BY <1>4, <1>5, <1>6, <1>7, <1>8, <1>9, <1>10, <1>11, Cases DEF vars, call

-----------------------------------------------------------------------------
(* What a publish that has resolved has reached; one that BullMQ is sending has
   reached the groups that are no longer to come. *)
InPipe(c) == c \in lost \/ \E p \in pipe : p[1] = c

ReachesAt(c) == IsPublish(c) =>
  /\ stage[c] = "resolved" =>
       /\ adapter = "bullmq" => \A g \in ToSet(GroupNames) : copies[g][c[2]] > 0
       /\ adapter = "activemq" =>
            (\A g \in before[c] : copies[g][c[2]] > 0) \/ OnWire(c[1], c[2]) \/ c[1] \notin client
       /\ adapter = "zeromq" => (\E g \in Groups : copies[g][c[2]] > 0) \/ InPipe(c)
       /\ adapter \in Hosted => \A g \in before[c] : copies[g][c[2]] > 0
  /\ adapter = "bullmq" /\ stage[c] = "send" =>
       \A g \in ToSet(GroupNames) : copies[g][c[2]] > 0 \/ g \in ToSet(todo[c])

Reaches == \A c \in Calls : ReachesAt(c)

(* The groups a BullMQ broker is configured with are groups. *)
LEMMA NamesFact == ToSet(GroupNames) \subseteq Groups
  <1>1. GroupNames \in Seq(Groups)
    BY ProvisionAssumption
  <1>2. \A i \in DOMAIN GroupNames : GroupNames[i] \in Groups
    BY <1>1, LenProperties, ElementOfSeq
  <1> QED
    BY <1>2 DEF ToSet

(* A publish keeps the copies it has reached while its stage and list stay. *)
LEMMA ReachesKept ==
  ASSUME Core, Grows, NEW c \in Calls, ReachesAt(c), stage'[c] = stage[c],
         before'[c] = before[c], todo'[c] = todo[c], client' \subseteq client,
         OnWire(c[1], c[2]) /\ adapter = "activemq" =>
           \/ OnWire(c[1], c[2])' \/ c[1] \notin client'
           \/ \A g \in before[c] : copies'[g][c[2]] > 0,
         InPipe(c) /\ adapter = "zeromq" => InPipe(c)' \/ \E g \in Groups : copies'[g][c[2]] > 0
  PROVE  ReachesAt(c)'
  <1>1. CASE ~IsPublish(c)
    BY <1>1 DEF ReachesAt, IsPublish
  <1>2. CASE IsPublish(c)
    <2>1. c[2] \in Messages /\ c[1] \in Brokers
      BY <1>2, CallFact
    <2>2. before[c] \subseteq Groups /\ ToSet(GroupNames) \subseteq Groups
      BY NamesFact DEF Core, Typed, CallTyped, ServiceTyped
    <2>3. UNCHANGED adapter /\ \A g \in Groups : copies[g][c[2]] > 0 => copies'[g][c[2]] > 0
      BY <2>1 DEF Grows
    <2>4. ASSUME stage[c] = "resolved"
          PROVE  /\ adapter = "bullmq" => \A g \in ToSet(GroupNames) : copies'[g][c[2]] > 0
                 /\ adapter = "zeromq" =>
                      (\E g \in Groups : copies'[g][c[2]] > 0) \/ InPipe(c)'
                 /\ adapter \in Hosted => \A g \in before[c] : copies'[g][c[2]] > 0
      BY <1>2, <2>2, <2>3, <2>4 DEF ReachesAt
    <2>5. ASSUME stage[c] = "resolved", adapter = "activemq"
          PROVE  \/ \A g \in before[c] : copies'[g][c[2]] > 0
                 \/ OnWire(c[1], c[2])' \/ c[1] \notin client'
      <3>1. (\A g \in before[c] : copies[g][c[2]] > 0) \/ OnWire(c[1], c[2]) \/ c[1] \notin client
        BY <1>2, <2>5 DEF ReachesAt
      <3> QED
        BY <2>2, <2>3, <2>5, <3>1
    <2>6. ASSUME stage[c] = "send", adapter = "bullmq"
          PROVE  \A g \in ToSet(GroupNames) : copies'[g][c[2]] > 0 \/ g \in ToSet(todo'[c])
      BY <1>2, <2>2, <2>3, <2>6 DEF ReachesAt
    <2> QED
      BY <2>3, <2>4, <2>5, <2>6 DEF ReachesAt
  <1> QED
    BY <1>1, <1>2

(* A request that resolves a publish has reached the groups of that moment. *)
LEMMA RequestReaches ==
  ASSUME Core, NEW c \in Calls, Request(c), IsPublish(c), stage'[c] = "resolved"
  PROVE  /\ adapter \in Hosted => \A g \in groups : copies'[g][c[2]] > 0
         /\ adapter = "zeromq" => InPipe(c)'
         /\ adapter \in Hosted \cup {"zeromq"}
  <1>0. Typed /\ ServiceTyped /\ c[2] \in Messages /\ ~IsSubscribe(c) /\ groups \subseteq Groups
    BY CallFact DEF Core, Typed, ServiceTyped
  <1>1. ASSUME NEW from, NEW to, Go(c, from, to)
        PROVE  to = "resolved"
    BY <1>0, <1>1 DEF Go, Typed, CallTyped
  <1>2. ASSUME CopyTo(groups, c[2])
        PROVE  \A g \in groups : copies'[g][c[2]] > 0
    BY <1>0, <1>2, CopyToFact
  <1>3. CASE RequestServiceBus(c)
    <2>1. adapter = "servicebus"
      BY <1>3, ServiceBusMoves
    <2>2. ASSUME NEW from
          PROVE  ~Attach(c, from) /\ ~AfterTopic(c, from) /\ ~AdminFails(c, from)
      BY <1>0, <1>1 DEF Attach, AfterTopic, AdminFails, Up
    <2>3. ~TopicExists(c) /\ ~CreateTopic(c)
      BY <1>1, <2>2 DEF TopicExists, CreateTopic
    <2>4. SendServiceBus(c)
      BY <1>0, <1>3, <2>3 DEF RequestServiceBus
    <2>5. CopyTo(groups, c[2])
      BY <1>1, <2>4 DEF SendServiceBus, Answered, Up, Fails
    <2> QED
      BY <1>2, <2>1, <2>5 DEF Hosted
  <1>4. CASE RequestNats(c)
    <2>1. adapter = "nats"
      BY <1>4, NatsMoves
    <2>2. ~Manager(c) /\ ~StreamInfo(c) /\ ~StreamAdd(c)
      BY <1>1 DEF Manager, StreamInfo, StreamAdd, AfterStream, Answered, Up, Fails
    <2>3. SendNats(c)
      BY <1>0, <1>4, <2>2 DEF RequestNats
    <2>4. \/ CopyTo(groups, c[2])
          \/ stored[c[2]] # 0 /\ UNCHANGED copies
      BY <1>1, <2>3 DEF SendNats, Answered, Up, Fails, service
    <2>5. CASE stored[c[2]] # 0 /\ UNCHANGED copies
      <3>1. \A g \in groups : copies[g][c[2]] = stored[c[2]] /\ stored[c[2]] \in {0, 1}
        BY <1>0, <2>1 DEF Core, NatsCopies
      <3> QED
        BY <2>1, <2>5, <3>1 DEF Hosted
    <2> QED
      BY <1>2, <2>1, <2>4, <2>5 DEF Hosted
  <1>5. CASE RequestOther(c)
    <2>1. ~CreateProducer(c)
      BY <1>1 DEF CreateProducer, Up, Fails
    <2>2. CASE SendPulsar(c)
      <3>1. CopyTo(groups, c[2]) /\ adapter = "pulsar"
        BY <1>1, <2>2 DEF SendPulsar, Answered, Up, Fails
      <3> QED
        BY <1>2, <3>1 DEF Hosted
    <2>3. CASE SendZeroMQ(c)
      <3>1. PICK s \in Calls : pipe' = pipe \cup {<<c, s>>}
        BY <2>3 DEF SendZeroMQ
      <3>2. <<c, s>> \in pipe' /\ <<c, s>>[1] = c
        BY <3>1
      <3>3. InPipe(c)'
        BY <3>2 DEF InPipe
      <3> QED
        BY <2>3, <3>3 DEF SendZeroMQ, Hosted
    <2> QED
      BY <1>0, <1>5, <2>1, <2>2, <2>3 DEF RequestOther
  <1> QED
    BY <1>3, <1>4, <1>5 DEF Request

(* A request keeps what its call has reached. *)
LEMMA RequestReachesAt ==
  ASSUME Core, Grows, NEW c \in Calls, Request(c)
  PROVE  ReachesAt(c)'
  <1>1. UNCHANGED <<adapter, before>> /\ adapter # "bullmq" /\ before[c] \subseteq groups
    BY RequestMoves DEF call, Core, Typed, CallTyped
  <1>2. CASE IsPublish(c) /\ stage'[c] = "resolved"
    <2>1. /\ adapter \in Hosted => \A g \in before'[c] : copies'[g][c[2]] > 0
          /\ adapter = "zeromq" => InPipe(c)'
          /\ adapter # "activemq"
      BY <1>1, <1>2, RequestReaches DEF Hosted
    <2> QED
      BY <1>1, <2>1 DEF ReachesAt
  <1>3. CASE ~IsPublish(c) \/ stage'[c] # "resolved"
    BY <1>1, <1>3 DEF ReachesAt, IsPublish
  <1> QED
    BY <1>2, <1>3

(* A BullMQ publish keeps what its call has reached. *)
LEMMA SendBullMQReachesAt ==
  ASSUME Core, Grows, NEW c \in Calls, IsPublish(c), SendBullMQ(c), ReachesAt(c)
  PROVE  ReachesAt(c)'
  <1>1. /\ adapter = "bullmq" /\ stage[c] = "send" /\ UNCHANGED adapter
        /\ \/ /\ todo'[c] = Tail(todo[c]) /\ AddJob(c)
              /\ \/ UNCHANGED stage
                 \/ Go(c, "send", "resolved") /\ todo'[c] = <<>>
           \/ Go(c, "send", "failed")
    BY SendBullMQFact
  <1>2. Typed /\ c[2] \in Messages
    BY CallFact DEF Core
  <1>3. CASE Go(c, "send", "failed")
    <2>1. stage'[c] = "failed"
      BY <1>2, <1>3 DEF Go, Typed, CallTyped
    <2> QED
      BY <2>1 DEF ReachesAt
  <1>4. CASE todo'[c] = Tail(todo[c]) /\ AddJob(c)
    <2>1. ToSet(todo[c]) = {Head(todo[c])} \cup ToSet(todo'[c])
      BY <1>1, <1>4, TodoFact
    <2>2. copies'[Head(todo[c])][c[2]] > 0
      BY <1>1, <1>4, AddJobFact
    <2>3. \A g \in ToSet(GroupNames) : copies[g][c[2]] > 0 => copies'[g][c[2]] > 0
      BY <1>2, NamesFact DEF Grows
    <2>4. \A g \in ToSet(GroupNames) : copies'[g][c[2]] > 0 \/ g \in ToSet(todo'[c])
      BY <1>1, <2>1, <2>2, <2>3 DEF ReachesAt
    <2>5. todo'[c] = <<>> => ToSet(todo'[c]) = {}
      <3>1. ToSet(<<>>) = {}
        BY EmptySeq DEF ToSet
      <3> QED
        BY <3>1
    <2>6. stage'[c] = "resolved" => todo'[c] = <<>>
      BY <1>1, <1>2 DEF Go, Typed, CallTyped
    <2> QED
      BY <1>1, <2>4, <2>5, <2>6 DEF ReachesAt, Hosted
  <1> QED
    BY <1>1, <1>3, <1>4

(* A message appended to a wire is on it, with those that were. *)
LEMMA OnWireAppend ==
  ASSUME NEW s \in Seq(Messages), NEW m \in Messages
  PROVE  /\ Contains(Append(s, m), m)
         /\ \A l : Contains(s, l) => Contains(Append(s, m), l)
  <1>1. /\ Len(Append(s, m)) = Len(s) + 1 /\ Append(s, m)[Len(s) + 1] = m
        /\ \A i \in 1..Len(s) : Append(s, m)[i] = s[i]
    BY AppendProperties
  <1>2. Len(s) \in Nat
    BY LenProperties
  <1>3. Len(s) + 1 \in 1..Len(Append(s, m)) /\ 1..Len(s) \subseteq 1..Len(Append(s, m))
    BY <1>1, <1>2
  <1> QED
    BY <1>1, <1>3 DEF Contains

(* An ActiveMQ call takes no message off a wire, and a publish adds its *)
(* own.                                                                 *)
LEMMA CallWireGrows ==
  ASSUME Typed, NEW c \in Calls, Call(c), adapter = "activemq"
  PROVE  /\ \A b \in Brokers : \A m : OnWire(b, m) => OnWire(b, m)'
         /\ IsPublish(c) => OnWire(c[1], c[2])' \/ c[1] \notin client
  <1>1. CallActiveMQ(c) /\ wire \in [Brokers -> Seq(Messages)] /\ c[1] \in Brokers
    BY CallFact DEF Call, CallPulsar, CallZeroMQ, CallServiceBus, CallNats, CallBullMQ,
                    Typed, ObjectTyped
  <1>2. CASE UNCHANGED wire /\ (IsPublish(c) => c[1] \notin client)
    BY <1>2 DEF OnWire
  <1>3. CASE IsPublish(c) /\ wire' = [wire EXCEPT ![c[1]] = Append(@, c[2])]
    <2>1. wire[c[1]] \in Seq(Messages) /\ c[2] \in Messages
      BY <1>1, <1>3, CallFact
    <2>2. \A b \in Brokers : wire'[b] = IF b = c[1] THEN Append(wire[b], c[2]) ELSE wire[b]
      BY <1>1, <1>3
    <2> QED
      BY <1>1, <2>1, <2>2, OnWireAppend DEF OnWire
  <1>4. CASE IsPublish(c) /\ c[1] \in client
    BY <1>1, <1>3, <1>4 DEF CallActiveMQ
  <1>5. CASE ~IsPublish(c) \/ c[1] \notin client
    <2>1. ~IsPublish(c) => UNCHANGED wire
      BY <1>1 DEF CallActiveMQ
    <2>2. IsPublish(c) => wire' = [wire EXCEPT ![c[1]] = wire[c[1]]]
      BY <1>1, <1>5 DEF CallActiveMQ
    <2>3. UNCHANGED wire
      BY <1>1, <2>1, <2>2
    <2> QED
      BY <1>2, <1>5, <2>3
  <1> QED
    BY <1>4, <1>5

(* A call starts with nothing it should have reached already. *)
LEMMA CallReachesAt ==
  ASSUME Core, NEW c \in Calls, Call(c)
  PROVE  ReachesAt(c)'
  <1>0. Typed /\ UNCHANGED <<adapter, client>>
    BY CallMoves DEF Core, life
  <1>1. CASE ~IsPublish(c)
    BY <1>1 DEF ReachesAt, IsPublish
  <1>2. CASE IsPublish(c) /\ adapter = "bullmq"
    <2>1. ~IsSubscribe(c)
      BY <1>2, CallFact
    <2>2. \/ Go(c, stage[c], "refused")
          \/ Go(c, stage[c], "send") /\ todo'[c] = GroupNames
      BY <1>2, <2>1, CallBullMQFact
    <2>3. stage'[c] = "refused" \/ (stage'[c] = "send" /\ todo'[c] = GroupNames)
      BY <1>0, <2>2 DEF Go, Typed, CallTyped
    <2> QED
      BY <1>0, <1>2, <2>3 DEF ReachesAt
  <1>3. CASE IsPublish(c) /\ adapter = "activemq"
    BY <1>0, <1>3, CallWireGrows DEF ReachesAt, Hosted
  <1>4. CASE IsPublish(c) /\ adapter \in {"servicebus", "nats", "pulsar", "zeromq"}
    <2>1. ~IsSubscribe(c)
      BY <1>4, CallFact
    <2>2. ASSUME NEW ensure \in BOOLEAN, CallServiceBus(c, ensure)
          PROVE  stage'[c] \in {"look", "send", "failed"}
      BY <1>0, <2>1, <2>2 DEF CallServiceBus, Attach, Up, Go, Typed, CallTyped
    <2>3. ASSUME NEW ensure \in BOOLEAN, CallNats(c, ensure)
          PROVE  stage'[c] \in {"manager", "send", "attach"}
      BY <1>0, <2>3 DEF CallNats, AfterStream, Go, Typed, CallTyped
    <2>4. ASSUME CallPulsar(c) \/ CallZeroMQ(c)
          PROVE  stage'[c] \in {"producer", "attach", "send", "failed"}
      BY <1>0, <2>4 DEF CallPulsar, CallZeroMQ, Go, Typed, CallTyped
    <2>5. stage'[c] # "resolved"
      BY <1>4, <2>2, <2>3, <2>4 DEF Call, CallActiveMQ, CallBullMQ
    <2> QED
      BY <1>0, <1>4, <2>5 DEF ReachesAt
  <1> QED
    BY <1>0, <1>1, <1>2, <1>3, <1>4 DEF Typed, Adapters

(* What holds between a step and a call that is not its own. *)
Apart(d) ==
  /\ stage'[d] = stage[d] /\ before'[d] = before[d] /\ todo'[d] = todo[d]
  /\ client' \subseteq client
  /\ adapter = "activemq" /\ OnWire(d[1], d[2]) =>
       \/ OnWire(d[1], d[2])' \/ d[1] \notin client'
       \/ \A g \in before[d] : copies'[g][d[2]] > 0
  /\ adapter = "zeromq" /\ InPipe(d) => InPipe(d)' \/ \E g \in Groups : copies'[g][d[2]] > 0

(* What leaves a pipe without arriving is lost. *)
LEMMA LoseInPipe ==
  ASSUME NEW d, NEW gone, Lose(gone), InPipe(d)
  PROVE  InPipe(d)'
  BY DEF Lose, InPipe

(* A step that is apart from a call keeps what the call has reached. *)
LEMMA ApartFact ==
  ASSUME Core, Grows, Reaches, NEW d \in Calls, Apart(d)
  PROVE  ReachesAt(d)'
  BY ReachesKept DEF Apart, Reaches

(* A message that arrives leaves every call with what it has reached. *)
LEMMA SendArrivesApart ==
  ASSUME Core, NEW b \in Brokers, SendArrives(b), NEW d \in Calls
  PROVE  Apart(d)
  <1>1. /\ wire[b] # <<>> /\ wire' = [wire EXCEPT ![b] = Tail(@)]
        /\ CopyTo(groups, Head(wire[b])) /\ UNCHANGED <<stage, before, todo, client, pipe, lost>>
    BY DEF SendArrives, call, life, local
  <1>2. Head(wire[b]) \in Messages
        /\ \A m : Contains(wire[b], m) => m = Head(wire[b]) \/ Contains(Tail(wire[b]), m)
    BY <1>1, WireFact
  <1>3. \A g \in groups : copies'[g][Head(wire[b])] > 0
    <2>1. ServiceTyped /\ groups \subseteq Groups
      BY DEF Core, Typed, ServiceTyped
    <2> QED
      BY <1>1, <1>2, <2>1, CopyToFact
  <1>4. before[d] \subseteq groups
    BY DEF Core, Typed, CallTyped
  <1>5. \A e \in Brokers : wire'[e] = IF e = b THEN Tail(wire[b]) ELSE wire[e]
    BY <1>1 DEF Core, Typed, ObjectTyped
  <1>6. d[1] \in Brokers
    BY CallFact
  <1>7. OnWire(d[1], d[2]) => OnWire(d[1], d[2])' \/ \A g \in before[d] : copies'[g][d[2]] > 0
    <2>1. CASE d[1] # b
      BY <1>5, <1>6, <2>1 DEF OnWire
    <2>2. CASE d[1] = b
      BY <1>2, <1>3, <1>4, <1>5, <1>6, <2>2 DEF OnWire
    <2> QED
      BY <2>1, <2>2
  <1> QED
    BY <1>1, <1>7 DEF Apart, InPipe

(* A lost connection leaves every call with what it has reached. *)
LEMMA ConnectionLostApart ==
  ASSUME Core, NEW b \in Brokers, ConnectionLost(b), NEW d \in Calls
  PROVE  Apart(d)
  <1>1. /\ client' = client \ {b} /\ wire' = [wire EXCEPT ![b] = <<>>]
        /\ UNCHANGED <<stage, before, todo, pipe, lost>>
    BY DEF ConnectionLost, call, local
  <1>2. d[1] # b => wire'[d[1]] = wire[d[1]]
    BY <1>1, CallFact DEF Core, Typed, ObjectTyped
  <1> QED
    BY <1>1, <1>2 DEF Apart, OnWire, InPipe

(* A message that arrives from a pipe leaves every call with what it has reached. *)
LEMMA PipeArrivesApart ==
  ASSUME Core, NEW p \in pipe, PipeArrives(p), NEW d \in Calls
  PROVE  Apart(d)
  <1>1. /\ CopyTo({p[2][2]}, p[1][2]) /\ pipe' = pipe \ {p}
        /\ UNCHANGED <<stage, before, todo, client, wire, lost>>
    BY DEF PipeArrives, call, life
  <1>2. p[1][2] \in Messages /\ p[2][2] \in Groups /\ ServiceTyped
    BY PipeFact DEF Core, Typed
  <1>3. copies'[p[2][2]][p[1][2]] > 0
    BY <1>1, <1>2, CopyToFact
  <1>4. InPipe(d) => InPipe(d)' \/ p[1] = d
    BY <1>1 DEF InPipe
  <1> QED
    BY <1>1, <1>2, <1>3, <1>4 DEF Apart, OnWire

(* A call leaves every other call with what it has reached. *)
LEMMA CallApart ==
  ASSUME Core, NEW c \in Calls, Call(c), NEW d \in Calls, d # c
  PROVE  Apart(d)
  <1>0. Typed /\ d[1] \in Brokers
    BY CallFact DEF Core
  <1>1. /\ Moves(c, Stages) /\ UNCHANGED <<adapter, life>>
        /\ \E ensure \in BOOLEAN : Called(c, ensure)
        /\ adapter # "bullmq" => UNCHANGED todo
    BY <1>0, CallMoves
  <1>2. stage'[d] = stage[d]
    BY <1>0, <1>1, GoFact DEF Moves
  <1>3. before'[d] = before[d]
    BY <1>0, <1>1, CalledTyped
  <1>4. todo'[d] = todo[d]
    BY <1>1, CallBullMQFact
  <1>5. adapter = "activemq" /\ OnWire(d[1], d[2]) => OnWire(d[1], d[2])'
    BY <1>0, CallWireGrows
  <1>6. InPipe(d) => InPipe(d)'
    BY <1>0, CallMoves DEF InPipe, local
  <1> QED
    BY <1>1, <1>2, <1>3, <1>4, <1>5, <1>6 DEF Apart, life

(* Every step keeps what a resolved publish has reached. *)
LEMMA StepReaches ==
  ASSUME Core, Grows, Reaches, [Next]_vars
  PROVE  Reaches'
  <1>0. Typed
    BY DEF Core
  <1>1. ASSUME UNCHANGED <<stage, before, todo, wire, local>>, client' \subseteq client, NEW d \in Calls
        PROVE  ReachesAt(d)'
    BY <1>1, ApartFact DEF Apart, OnWire, InPipe, local
  <1>2. ASSUME NEW c \in Calls, Call(c), NEW d \in Calls
        PROVE  ReachesAt(d)'
    BY <1>2, CallReachesAt, CallApart, ApartFact
  <1>3. ASSUME NEW c \in Calls, Request(c), NEW d \in Calls
        PROVE  ReachesAt(d)'
    <2>1. CASE d = c
      BY <1>3, <2>1, RequestReachesAt
    <2>2. CASE d # c
      <3>1. Moves(c, Stages) /\ UNCHANGED <<before, todo, wire, client>>
        BY <1>3, RequestMoves DEF call, life
      <3>2. stage'[d] = stage[d]
        BY <1>0, <2>2, <3>1, GoFact DEF Moves
      <3>3. InPipe(d) => InPipe(d)'
        <4>1. UNCHANGED local \/ \E s \in Calls : pipe' = pipe \cup {<<c, s>>} /\ UNCHANGED lost
          BY <1>3, RequestPipe DEF SendZeroMQ
        <4> QED
          BY <4>1 DEF InPipe, local
      <3> QED
        BY <3>1, <3>2, <3>3, ApartFact DEF Apart, OnWire
    <2> QED
      BY <2>1, <2>2
  <1>4. ASSUME NEW c \in Calls, IsPublish(c), SendBullMQ(c), NEW d \in Calls
        PROVE  ReachesAt(d)'
    <2>1. CASE d = c
      BY <1>4, <2>1, SendBullMQReachesAt DEF Reaches
    <2>2. CASE d # c
      <3>1. /\ UNCHANGED <<before, wire, client>> /\ todo'[d] = todo[d]
            /\ UNCHANGED stage \/ Go(c, "send", "resolved") \/ Go(c, "send", "failed")
            /\ adapter # "zeromq"
        BY <1>4, <2>2, SendBullMQFact DEF life
      <3>2. stage'[d] = stage[d]
        BY <1>0, <2>2, <3>1, GoFact DEF Stages, Ends
      <3> QED
        BY <3>1, <3>2, ApartFact DEF Apart, OnWire
    <2> QED
      BY <2>1, <2>2
  <1>5. ASSUME NEW b \in Brokers, SendArrives(b) \/ ConnectionLost(b), NEW d \in Calls
        PROVE  ReachesAt(d)'
    BY <1>5, SendArrivesApart, ConnectionLostApart, ApartFact
  <1>6. ASSUME NEW b \in Brokers, Bind(b) \/ Close(b) \/ \E g \in Groups : SubscribeArrives(b, g),
               NEW d \in Calls
        PROVE  ReachesAt(d)'
    BY <1>1, <1>6 DEF Bind, Close, SubscribeArrives, call, life
  <1>7. ASSUME NEW b \in Brokers, Closings(b), NEW d \in Calls
        PROVE  ReachesAt(d)'
    <2>1. /\ UNCHANGED <<adapter, before, todo, wire>> /\ client' \subseteq client
          /\ stage'[d] = stage[d] \/ (adapter = "zeromq" /\ stage'[d] = "failed")
      BY <1>0, <1>7, ClosingsCalls, ClosingsShut DEF call, Shuts
    <2>2. CASE stage'[d] = stage[d]
      <3>1. UNCHANGED local \/ \E gone : Lose(gone)
        BY <1>7 DEF Closings, CloseListed, CloseClient, CloseBullMQ, CloseZeroMQ, CloseFails
      <3>2. InPipe(d) => InPipe(d)'
        BY <3>1, LoseInPipe DEF InPipe, local
      <3> QED
        BY <2>1, <2>2, <3>2, ApartFact DEF Apart, OnWire
    <2>3. CASE stage'[d] = "failed"
      BY <2>3 DEF ReachesAt
    <2> QED
      BY <2>1, <2>2, <2>3
  <1>8. ASSUME NEW g \in Groups, NEW m \in Messages, RemoveJob(g, m), NEW d \in Calls
        PROVE  ReachesAt(d)'
    BY <1>1, <1>8 DEF RemoveJob, life
  <1>9. ASSUME UNCHANGED vars, NEW d \in Calls
        PROVE  ReachesAt(d)'
    BY <1>1, <1>9 DEF vars, call, life
  <1>10. ASSUME NEW c \in Calls, IsSubscribe(c), AttachBullMQ(c), NEW d \in Calls
         PROVE  ReachesAt(d)'
    <2>1. /\ UNCHANGED <<before, todo, wire, client>> /\ adapter # "zeromq"
          /\ stage'[d] = IF d = c THEN "resolved" ELSE stage[d]
      BY <1>10, AttachBullMQFact DEF call, life
    <2>2. CASE d = c
      BY <1>10, <2>2, CallFact DEF ReachesAt, IsPublish
    <2>3. CASE d # c
      BY <2>1, <2>3, ApartFact DEF Apart, OnWire
    <2> QED
      BY <2>2, <2>3
  <1>11. ASSUME NEW s \in Calls, PeerLost(s), NEW d \in Calls
         PROVE  ReachesAt(d)'
    <2>1. /\ UNCHANGED <<stage, before, todo, wire, client>> /\ \E gone : Lose(gone)
      BY <1>11 DEF PeerLost, call, life
    <2>2. InPipe(d) => InPipe(d)'
      BY <2>1, LoseInPipe
    <2> QED
      BY <2>1, <2>2, ApartFact DEF Apart, OnWire
  <1>12. ASSUME NEW p \in pipe, PipeArrives(p), NEW d \in Calls
         PROVE  ReachesAt(d)'
    BY <1>12, PipeArrivesApart, ApartFact
  <1>13. ASSUME NEW d \in Calls
         PROVE  ReachesAt(d)'
    BY <1>2, <1>3, <1>4, <1>5, <1>6, <1>7, <1>8, <1>9, <1>10, <1>11, <1>12, <1>13, Cases
  <1> QED
    BY <1>13 DEF Reaches

-----------------------------------------------------------------------------
(* A BullMQ queue takes a second job only after the first one was removed. *)
JobsOnce == adapter = "bullmq" =>
  \A g \in Groups, m \in Messages : copies[g][m] > 1 => <<g, m>> \in removed

(* Every step leaves at most one job of a message with a group, removals *)
(* apart.                                                                *)
LEMMA StepJobsOnce ==
  ASSUME Core, JobsOnce, [Next]_vars
  PROVE  JobsOnce'
  <1>0. Typed
    BY DEF Core
  <1>1. ASSUME UNCHANGED <<adapter, copies>>, removed \subseteq removed'
        PROVE  JobsOnce'
    BY <1>1 DEF JobsOnce
  <1>2. ASSUME NEW c \in Calls, Call(c)
        PROVE  JobsOnce'
    BY <1>0, <1>1, <1>2, CallMoves DEF service
  <1>3. ASSUME NEW c \in Calls, Request(c)
        PROVE  JobsOnce'
    BY <1>3, RequestMoves DEF JobsOnce
  <1>4. ASSUME NEW c \in Calls, IsPublish(c), SendBullMQ(c)
        PROVE  JobsOnce'
    <2>1. UNCHANGED <<adapter, removed>> /\ adapter = "bullmq" /\ stage[c] = "send"
      BY <1>4, SendBullMQFact
    <2>2. AddJob(c) \/ UNCHANGED service
      BY <1>4 DEF SendBullMQ
    <2>3. CASE AddJob(c)
      <3>1. \A g \in Groups, m \in Messages :
              /\ copies[g][m] \in 0..2 /\ copies'[g][m] \in 0..2
              /\ copies'[g][m] = copies[g][m] \/ copies'[g][m] <= 1 \/ <<g, m>> \in removed
        BY <1>0, <1>4, <2>1, <2>3, AddJobFact DEF Typed, ServiceTyped
      <3>2. ASSUME NEW g \in Groups, NEW m \in Messages, copies'[g][m] > 1
            PROVE  <<g, m>> \in removed
        BY <2>1, <3>1, <3>2 DEF JobsOnce
      <3> QED
        BY <2>1, <3>2 DEF JobsOnce
    <2>4. CASE UNCHANGED service
      BY <1>1, <2>1, <2>4 DEF service
    <2> QED
      BY <2>2, <2>3, <2>4
  <1>5. ASSUME NEW b \in Brokers, SendArrives(b)
        PROVE  JobsOnce'
    <2>1. adapter = "activemq" /\ UNCHANGED adapter
      BY <1>5 DEF SendArrives, Core, WireQuiet
    <2> QED
      BY <2>1 DEF JobsOnce
  <1>6. ASSUME NEW b \in Brokers, ConnectionLost(b) \/ Bind(b) \/ Close(b)
                                  \/ \E g \in Groups : SubscribeArrives(b, g)
        PROVE  JobsOnce'
    BY <1>1, <1>6 DEF ConnectionLost, Bind, Close, SubscribeArrives, service, call
  <1>7. ASSUME NEW b \in Brokers, Closings(b)
        PROVE  JobsOnce'
    BY <1>1, <1>7 DEF Closings, CloseListed, CloseClient, CloseBullMQ, CloseZeroMQ, CloseFails,
                      OnClose, call
  <1>8. ASSUME NEW g \in Groups, NEW m \in Messages, RemoveJob(g, m)
        PROVE  JobsOnce'
    BY <1>1, <1>8 DEF RemoveJob, service
  <1>9. CASE UNCHANGED vars \/ \E s \in Calls : PeerLost(s) \/ AttachBullMQ(s)
    BY <1>1, <1>9 DEF vars, service, call, PeerLost, AttachBullMQ, Elsewhere
  <1>10. ASSUME NEW p \in pipe, PipeArrives(p)
         PROVE  JobsOnce'
    BY <1>10, PipeFact DEF PipeArrives, JobsOnce
  <1> QED
    BY <1>2, <1>3, <1>4, <1>5, <1>6, <1>7, <1>8, <1>9, <1>10, Cases

-----------------------------------------------------------------------------
(* The inductive invariant *)
Inv == Core /\ ObjectInv /\ Workers /\ Unbound /\ Ensured /\ Reaches /\ JobsOnce

(* The inductive invariant holds in the initial state. *)
LEMMA InitInv == Init => Inv
  <1> SUFFICES ASSUME Init
               PROVE  Inv
    OBVIOUS
  <1> USE DEF Init
  <1>1. <<>> \in Seq(Groups) /\ <<>> \in Seq(Messages)
    BY EmptySeq
  <1>2. ServiceTyped
    <2>1. [m \in Messages |-> 0] \in [Messages -> 0..2]
      OBVIOUS
    <2>2. copies \in [Groups -> [Messages -> 0..2]]
      BY <2>1
    <2> QED
      BY <2>1, <2>2 DEF ServiceTyped
  <1>3. CallTyped
    BY <1>1 DEF CallTyped, Stages
  <1>4. ObjectTyped
    BY <1>1 DEF ObjectTyped, Phases
  <1>5. TodoInStep /\ WireQuiet
    BY DEF TodoInStep, WireQuiet
  <1>6. NatsCopies
    BY DEF NatsCopies
  <1>7. Core
    BY <1>2, <1>3, <1>4, <1>5, <1>6 DEF Core, Typed, Piped
  <1>8. PortHeld
    BY ProvisionAssumption DEF PortHeld
  <1>9. Once
    BY DEF Once, AtMostOne, NoneListed, Producers
  <1>10. Released
    BY DEF Released, ReleasedAt
  <1>11. Ensured
    BY DEF Ensured
  <1>12. Reaches
    BY DEF Reaches, ReachesAt
  <1>13. JobsOnce
    BY DEF JobsOnce
  <1>14. Workers /\ Unbound
    BY CallFact DEF Workers, Unbound
  <1> QED
    BY <1>7, <1>8, <1>9, <1>10, <1>11, <1>12, <1>13, <1>14 DEF Inv, ObjectInv

(* Every step keeps the inductive invariant. *)
LEMMA NextInv == Inv /\ [Next]_vars => Inv'
  <1> SUFFICES ASSUME Inv, [Next]_vars
               PROVE  Inv'
    OBVIOUS
  <1>0. Core /\ ObjectInv /\ Workers /\ Unbound /\ Ensured /\ Reaches /\ JobsOnce
    BY DEF Inv
  <1>1. ServiceTyped' /\ Grows
    BY <1>0, StepService
  <1>2. CallTyped' /\ TodoInStep'
    BY <1>0, <1>1, StepCall
  <1>3. NatsCopies' /\ WireQuiet'
    BY <1>0, StepNatsCopies
  <1>4. ObjectTyped' /\ ObjectInv'
    BY <1>0, StepObject
  <1>5. adapter' \in Adapters
    BY <1>0, <1>1 DEF Core, Typed, Grows
  <1>6. Ensured' /\ Reaches' /\ JobsOnce'
    BY <1>0, <1>1, StepEnsured, StepReaches, StepJobsOnce
  <1>7. Piped' /\ Workers' /\ Unbound'
    BY <1>0, StepPiped, StepWorkers, StepUnbound
  <1> QED
    BY <1>1, <1>2, <1>3, <1>4, <1>5, <1>6, <1>7 DEF Inv, Core, Typed

(* The inductive invariant holds in every reachable state. *)
LEMMA Invariant == Spec => []Inv
  BY InitInv, NextInv, PTL DEF Spec

(* The inductive invariant contains the types the runs check. *)
LEMMA InvTypeOK == Inv => TypeOK
  <1> SUFFICES ASSUME Inv
               PROVE  TypeOK
    OBVIOUS
  <1>1. Typed /\ TodoInStep /\ PortHeld /\ Once /\ Piped
    BY DEF Inv, Core, ObjectInv
  <1>2. ASSUME NEW b \in Brokers, adapter # "bullmq"
        PROVE  Cardinality(Producers(b)) <= 1
    <2>1. \A r \in Producers(b), s \in Producers(b) : r = s
      BY <1>1, <1>2 DEF Once, AtMostOne, Producers
    <2>2. CASE Producers(b) = {}
      <3>1. Cardinality(Producers(b)) = 0
        BY <2>2, FS_EmptySet, Zenon
      <3> QED
        BY <3>1
    <2>3. ASSUME NEW r \in Producers(b)
          PROVE  Cardinality(Producers(b)) <= 1
      <3>1. Producers(b) = {r}
        BY <2>1
      <3>2. Cardinality(Producers(b)) = 1
        BY <3>1, FS_Singleton, Zenon
      <3> QED
        BY <3>2
    <2> QED
      BY <2>2, <2>3
  <1> QED
    BY <1>1, <1>2 DEF TypeOK, Typed, ServiceTyped, CallTyped, ObjectTyped, Stages, Phases,
                      TodoInStep, PortHeld, Piped

(* The inductive invariant gives ResolvedReachesAll. *)
LEMMA InvReaches == Inv => ResolvedReachesAll
  <1> SUFFICES ASSUME Inv, NEW c \in Calls, IsPublish(c), stage[c] = "resolved"
               PROVE  LET Has(g) == copies[g][c[2]] > 0 IN
                      CASE adapter = "bullmq" -> \A g \in ToSet(GroupNames) : Has(g)
                        [] adapter = "activemq" ->
                             \/ \A g \in before[c] : Has(g)
                             \/ OnWire(c[1], c[2]) \/ c[1] \notin client
                        [] adapter = "zeromq" ->
                             \/ \E g \in Groups : Has(g)
                             \/ c \in lost \/ \E p \in pipe : p[1] = c
                        [] OTHER -> \A g \in before[c] : Has(g)
    BY DEF ResolvedReachesAll
  <1>1. ReachesAt(c) /\ adapter \in Adapters
    BY DEF Inv, Reaches, Core, Typed
  <1> QED
    BY <1>1 DEF ReachesAt, InPipe, Hosted, Adapters

(* The inductive invariant gives RetriedStoredOnce. *)
LEMMA InvStoredOnce == Inv => RetriedStoredOnce
  <1> SUFFICES ASSUME Inv, adapter \in {"nats", "bullmq"}, NEW g \in Groups, NEW m \in Messages,
                      copies[g][m] > 1
               PROVE  <<g, m>> \in removed
    BY DEF RetriedStoredOnce
  <1>1. CASE adapter = "nats"
    <2>1. copies[g][m] \in {0, 1}
      BY <1>1 DEF Inv, Core, NatsCopies
    <2> QED
      BY <2>1
  <1>2. CASE adapter = "bullmq"
    BY <1>2 DEF Inv, JobsOnce
  <1> QED
    BY <1>1, <1>2

(* The inductive invariant gives EnsuredFindsTopic. *)
LEMMA InvFinds == Inv => EnsuredFindsTopic
  <1> SUFFICES ASSUME Inv, NEW c \in ensured
               PROVE  /\ stage[c] # "missing"
                      /\ stage[c] = "refused" =>
                           CASE adapter = "servicebus" -> topic # Absent
                             [] adapter = "nats" -> topic \notin {Absent, Options[c[1]]}
                             [] OTHER -> FALSE
    BY DEF EnsuredFindsTopic
  <1>1. Finds(c, stage[c], topic)
    BY DEF Inv, Ensured
  <1> QED
    BY <1>1 DEF Finds

(* The inductive invariant gives CloseReleases. *)
LEMMA InvReleases == Inv => CloseReleases
  <1> SUFFICES ASSUME Inv, NEW b \in Brokers, closing[b] = "closed", adapter # "activemq"
               PROVE  CASE adapter = "bullmq" -> opened[b] \cap atClose[b] = {}
                        [] adapter = "zeromq" -> push[b] = "none" /\ ~HasProducer(b)
                        [] OTHER -> opened[b] = {}
    BY DEF CloseReleases
  <1>1. ReleasedAt(b) /\ adapter \in Adapters /\ Unbound
    BY DEF Inv, ObjectInv, Released, Core, Typed
  <1>2. CASE adapter = "zeromq"
    <2>1. push[b] = "none" /\ \A r \in opened[b] : r[1] = "consumer"
      BY <1>1, <1>2 DEF ReleasedAt, Unbound
    <2> QED
      BY <1>2, <2>1 DEF HasProducer
  <1>3. CASE adapter # "zeromq"
    BY <1>1, <1>3 DEF ReleasedAt, Hosted, Adapters
  <1> QED
    BY <1>2, <1>3

-----------------------------------------------------------------------------
(* Theorems *)

(* The object, the call and the service have the types of the model; a broker
   has one producer in its map and at most one socket has the port
   (pulsa/src/index.ts:65-73, zeromq/src/index.ts:61-82). *)
THEOREM TypeCorrect == Spec => []TypeOK
  BY Invariant, InvTypeOK, PTL

(* What publish has reached when it has resolved: each of the groups that were set up
   before the call, with BullMQ every group that it names, has a copy. ActiveMQ and
   ZeroMQ promise less: a frame may still be under way or go down with the connection,
   and a message of ZeroMQ is with one group, in the local pipe to one pull socket, or
   lost from there (core/src/index.ts:75-92 and the publish of each adapter, as
   azure_service_bus/src/index.ts:64-92, zeromq/src/index.ts:80). *)
THEOREM ReachesAll == Spec => []ResolvedReachesAll
  BY Invariant, InvReaches, PTL

(* However often publish fails and is repeated, NATS and BullMQ keep one copy,
   unless a late ack has removed the job (nats/src/index.ts:97-106,
   bullmq/src/index.ts:83-95). *)
THEOREM StoresOnce == Spec => []RetriedStoredOnce
  BY Invariant, InvStoredOnce, PTL

(* A call that ensures the topic does not find it missing, and is refused only if
   the topic is there (azure_service_bus/src/index.ts:71-77, nats/src/index.ts:85-94). *)
THEOREM FindsTopic == Spec => []EnsuredFindsTopic
  BY Invariant, InvFinds, PTL

(* A close that has resolved has left nothing open with Service Bus, NATS and Pulsar,
   also not what calls under way have opened since; with BullMQ nothing that was open
   when it was called, but perhaps what a call under way has added behind its loops; with
   ZeroMQ no push socket, while the pull sockets stay. About ActiveMQ it says nothing
   (azure_service_bus/src/index.ts:159-167, bullmq/src/index.ts:149-152,
   zeromq/src/index.ts:127-129). *)
THEOREM Releases == Spec => []CloseReleases
  BY Invariant, InvReleases, PTL
=============================================================================
