---------------------------- MODULE SnsSqsProofs ----------------------------
(***************************************************************************)
(* What SnsSqs.tla's model of the SNS+SQS adapter guarantees for every     *)
(* number of brokers, topics, groups and messages, every assignment of     *)
(* queue names, every handler and every environment.                       *)
(***************************************************************************)
EXTENDS SnsSqs, FiniteSetTheorems, SequenceTheorems, TLAPS

(* How far the set-up of c has come when it waits for a request. *)
HasTopic(c) == sub[c] \in (SettingUp \ {"topic"}) \cup Polling
HasQueue(c) == sub[c] \in {"arn", "policy", "subscribe", "attributes"} \cup Polling
HasPolicy(c) == sub[c] \in {"subscribe", "attributes"} \cup Polling
HasSubscription(c) == sub[c] \in {"attributes"} \cup Polling

InOrder ==
  \A c \in Calls :
    /\ HasTopic(c) => c[2] \in topics
    /\ HasQueue(c) => Queue(c) \in queues
    /\ HasPolicy(c) => policy[Queue(c)] # NoTopic
    /\ HasSubscription(c) => <<c[2], Queue(c)>> \in subscribed

Typed == TypeOK /\ InOrder

(* What a call stands for. *)
LEMMA CallFact ==
  ASSUME NEW c \in Calls
  PROVE  /\ Broker(c) \in Brokers /\ c[2] \in Topics /\ c[3] \in Groups
         /\ Queue(c) \in Names /\ c[2] # NoTopic
  BY SnsSqsAssumption DEF Broker, Queue

(* A URL that is cached names a queue that exists. *)
LEMMA UrlCached ==
  ASSUME Typed, NEW b, NEW n \in queues', queues \subseteq queues', CacheUrl(b, n)
  PROVE  urlCache' \in [Brokers -> SUBSET queues']
  <1>1. urlCache \in [Brokers -> SUBSET queues]
    BY DEF Typed, TypeOK
  <1> QED
    BY <1>1 DEF CacheUrl

(* An ARN that is cached names a topic that exists. *)
LEMMA ArnCached ==
  ASSUME Typed, NEW b, NEW t \in topics', topics \subseteq topics', CacheArn(b, t)
  PROVE  arnCache' \in [Brokers -> SUBSET topics']
  <1>1. arnCache \in [Brokers -> SUBSET topics]
    BY DEF Typed, TypeOK
  <1> QED
    BY <1>1 DEF CacheArn

(* Where subscribe goes on once it has the topic; with a cached URL its *)
(* queue exists.                                                        *)
LEMMA AfterTopicFact ==
  ASSUME Typed, NEW c \in Calls
  PROVE  /\ AfterTopic(c) \in {"arn", "lookup"}
         /\ AfterTopic(c) = "arn" => Queue(c) \in queues
  BY CallFact DEF AfterTopic, Typed, TypeOK

(* The initial state has the types. *)
LEMMA InitTyped == Init => Typed
  BY SnsSqsAssumption DEF Init, Typed, TypeOK, InOrder, SettingUp, Polling,
     HasTopic, HasQueue, HasPolicy, HasSubscription

(* A step of a set-up: it adds to what exists, and goes on to a request for
   which enough is there. *)
Grows ==
  /\ topics \subseteq topics' /\ topics' \subseteq Topics
  /\ queues \subseteq queues' /\ queues' \subseteq Names
  /\ subscribed \subseteq subscribed' /\ subscribed' \subseteq topics' \X queues'
  /\ policy' \in [Names -> Topics \cup {NoTopic}]
  /\ \A n \in Names : policy[n] # NoTopic => policy'[n] # NoTopic
  /\ arnCache' \in [Brokers -> SUBSET topics'] /\ urlCache' \in [Brokers -> SUBSET queues']

MovesOn(c) ==
  /\ sub[c] \in SettingUp \cup {"idle", "rejected"}
  /\ sub'[c] \in SettingUp \cup {"rejected", "poll"}
  /\ sub' = [sub EXCEPT ![c] = sub'[c]]

Ready(c) ==
  /\ sub'[c] \in (SettingUp \ {"topic"}) \cup {"poll"} => c[2] \in topics'
  /\ sub'[c] \in {"arn", "policy", "subscribe", "attributes", "poll"} => Queue(c) \in queues'
  /\ sub'[c] \in {"subscribe", "attributes", "poll"} => policy'[Queue(c)] # NoTopic
  /\ sub'[c] \in {"attributes", "poll"} => <<c[2], Queue(c)>> \in subscribed'

(* A step of the set-up keeps the types. *)
LEMMA SetUpTyped ==
  ASSUME Typed, NEW c \in Calls, MovesOn(c), Grows, Ready(c), OnSetUp
  PROVE  Typed'
  <1> USE CallFact DEF Typed, TypeOK, OnSetUp, delivery, publishing, polling, MovesOn
  <1>1. sub' \in [Calls -> {"idle", "rejected", "ended"} \cup SettingUp \cup Polling]
    BY DEF Polling
  <1>2. \A d \in Calls : d # c => sub'[d] = sub[d]
    OBVIOUS
  <1>3. sub'[c] \in Polling => sub'[c] = "poll"
    BY DEF Polling, SettingUp
  <1>4. InOrder'
    <2> SUFFICES ASSUME NEW d \in Calls
                 PROVE  /\ HasTopic(d)' => d[2] \in topics'
                        /\ HasQueue(d)' => Queue(d) \in queues'
                        /\ HasPolicy(d)' => policy'[Queue(d)] # NoTopic
                        /\ HasSubscription(d)' => <<d[2], Queue(d)>> \in subscribed'
      BY DEF InOrder, Queue
    <2>1. CASE d = c
      BY <1>3, <2>1 DEF Ready, HasTopic, HasQueue, HasPolicy, HasSubscription, Polling
    <2>2. CASE d # c
      BY <1>2, <2>2 DEF Grows, InOrder, HasTopic, HasQueue, HasPolicy, HasSubscription
    <2> QED
      BY <2>1, <2>2
  <1>5. \A d \in Calls :
          /\ sub'[d] \in Polling => d[2] \in topics' /\ Queue(d) \in queues'
          /\ batch'[d] # <<>> <=> sub'[d] \in {"parsing", "handling", "ack", "nack"}
    <2>1. \A d \in Calls : sub'[d] \in Polling => d[2] \in topics' /\ Queue(d) \in queues'
      BY <1>4 DEF InOrder, HasTopic, HasQueue, Queue
    <2>2. batch[c] = <<>> /\ sub'[c] \notin {"parsing", "handling", "ack", "nack"}
      BY DEF SettingUp
    <2> QED
      BY <1>2, <1>3, <2>1, <2>2
  <1>6. /\ topics' \subseteq Topics /\ queues' \subseteq Names /\ stopped' \subseteq Brokers
        /\ policy' \in [Names -> Topics \cup {NoTopic}]
        /\ subscribed' \subseteq topics' \X queues'
        /\ arnCache' \in [Brokers -> SUBSET topics']
        /\ urlCache' \in [Brokers -> SUBSET queues']
    BY DEF Grows
  <1> QED
    BY <1>1, <1>4, <1>5, <1>6 DEF Queue

(* What a step of subscribe's set-up may change. *)
LEMMA SubscribeEffect ==
  ASSUME Typed, NEW c \in Calls, Subscribe(c)
  PROVE  MovesOn(c) /\ Grows /\ Ready(c) /\ OnSetUp
  <1>1. MovesOn(c) /\ Grows /\ Ready(c)
    <2> USE CallFact DEF Typed, TypeOK, setUp, caches, Step, Rejects, MovesOn
    <2>1. CASE SubscribeCall(c)
      <3>1. MovesOn(c)
        BY <2>1, AfterTopicFact DEF SubscribeCall, Called, SettingUp
      <3>2. Grows
        BY <2>1 DEF SubscribeCall, Grows
      <3>3. \/ sub'[c] = AfterTopic(c) /\ c[2] \in topics
            \/ sub'[c] = "topic"
        BY <2>1 DEF SubscribeCall
      <3>4. topics' = topics /\ queues' = queues
        BY <2>1 DEF SubscribeCall
      <3>5. Ready(c)
        BY <3>3, <3>4, AfterTopicFact DEF Ready, SettingUp
      <3> QED
        BY <3>1, <3>2, <3>5
    <2>2. ASSUME NEW ensure \in BOOLEAN, EnsureTopic(c, ensure)
          PROVE  MovesOn(c) /\ Grows /\ Ready(c)
      <3>1. MovesOn(c)
        BY <2>2, AfterTopicFact DEF EnsureTopic, SettingUp
      <3>2. Grows
        <4>1. /\ UNCHANGED <<queues, policy, subscribed, urlCache>>
              /\ topics' \in {topics, topics \cup {c[2]}}
          BY <2>2 DEF EnsureTopic, CreateTopic
        <4>2. arnCache' \in [Brokers -> SUBSET topics']
          BY <2>2, <4>1, ArnCached DEF EnsureTopic, CreateTopic
        <4> QED
          BY <4>1, <4>2 DEF Grows
      <3>3. \/ sub'[c] = AfterTopic(c) /\ c[2] \in topics'
            \/ sub'[c] = "rejected"
        BY <2>2 DEF EnsureTopic, CreateTopic
      <3>4. Ready(c)
        BY <3>2, <3>3, AfterTopicFact DEF Ready, SettingUp, Grows
      <3> QED
        BY <3>1, <3>2, <3>4
    <2>3. ASSUME NEW ensure \in BOOLEAN, LookUpQueue(c, ensure)
          PROVE  MovesOn(c) /\ Grows /\ Ready(c)
      <3>1. MovesOn(c)
        BY <2>3 DEF LookUpQueue, SettingUp
      <3>2. Grows
        <4>1. UNCHANGED <<topics, queues, policy, subscribed, arnCache>>
          BY <2>3 DEF LookUpQueue
        <4>2. urlCache' \in [Brokers -> SUBSET queues']
          BY <2>3, <4>1, UrlCached DEF LookUpQueue
        <4> QED
          BY <4>1, <4>2 DEF Grows
      <3>3. Ready(c)
        BY <2>3 DEF LookUpQueue, Ready, InOrder, HasTopic, SettingUp
      <3> QED
        BY <3>1, <3>2, <3>3
    <2>4. CASE CreateQueue(c)
      <3>1. MovesOn(c)
        BY <2>4 DEF CreateQueue, SettingUp
      <3>2. Grows
        <4>1. /\ UNCHANGED <<topics, policy, subscribed, arnCache>>
              /\ queues' \in {queues, queues \cup {Queue(c)}}
          BY <2>4 DEF CreateQueue
        <4>2. urlCache' \in [Brokers -> SUBSET queues']
          <5>1. \/ CacheUrl(Broker(c), Queue(c)) /\ Queue(c) \in queues'
                \/ UNCHANGED urlCache
            BY <2>4 DEF CreateQueue
          <5> QED
            BY <4>1, <5>1, UrlCached
        <4> QED
          BY <4>1, <4>2 DEF Grows
      <3>3. Ready(c)
        BY <2>4 DEF CreateQueue, Ready, InOrder, HasTopic, SettingUp
      <3> QED
        BY <3>1, <3>2, <3>3
    <2>5. CASE GetQueueArn(c)
      <3>1. MovesOn(c)
        BY <2>5 DEF GetQueueArn, SettingUp
      <3>2. Grows
        BY <2>5 DEF GetQueueArn, Grows
      <3>3. Ready(c)
        BY <2>5 DEF GetQueueArn, Ready, InOrder, HasTopic, HasQueue, SettingUp
      <3> QED
        BY <3>1, <3>2, <3>3
    <2>6. CASE SetQueuePolicy(c)
      <3>1. MovesOn(c)
        BY <2>6 DEF SetQueuePolicy, SettingUp
      <3>2. Grows
        BY <2>6 DEF SetQueuePolicy, Grows
      <3>3. Ready(c)
        BY <2>6 DEF SetQueuePolicy, Ready, InOrder, HasTopic, HasQueue, SettingUp
      <3> QED
        BY <3>1, <3>2, <3>3
    <2>7. CASE EnsureSubscription(c)
      <3>1. MovesOn(c)
        BY <2>7 DEF EnsureSubscription, SettingUp
      <3>2. c[2] \in topics /\ Queue(c) \in queues /\ policy[Queue(c)] # NoTopic
        BY <2>7 DEF EnsureSubscription, InOrder, HasTopic, HasQueue, HasPolicy, SettingUp
      <3>3. Grows
        BY <2>7, <3>2 DEF EnsureSubscription, Grows
      <3>4. Ready(c)
        BY <2>7, <3>2 DEF EnsureSubscription, Ready, InOrder, HasSubscription
      <3> QED
        BY <3>1, <3>3, <3>4
    <2> QED
      BY <2>1, <2>2, <2>3, <2>4, <2>5, <2>6, <2>7 DEF Subscribe
  <1>2. OnSetUp
    BY DEF Subscribe, SubscribeCall, EnsureTopic, LookUpQueue, CreateQueue, GetQueueArn,
       SetQueuePolicy, EnsureSubscription
  <1> QED
    BY <1>1, <1>2

(* What publish changes, besides the message's own state: the topic may come into
   being, and the queues that are subscribed get their copies under way. *)
Publishes(m) ==
  /\ topics \subseteq topics' /\ topics' \subseteq Topics
  /\ arnCache' \in [Brokers -> SUBSET topics']
  /\ transit' \subseteq Messages \X Names /\ transit \subseteq transit'
  /\ UNCHANGED <<refused, queues, policy, subscribed, copy, urlCache, sub, batch,
                 deletes, settled, stopped>>

(* What a step of a publish may change. *)
LEMMA PublishEffect ==
  ASSUME Typed, NEW b \in Brokers, NEW m \in Messages, Publish(b, m)
  PROVE  Publishes(m)
  <1>1. Topic[m] \in Topics
    BY SnsSqsAssumption
  <1>2. topics \subseteq Topics /\ arnCache \in [Brokers -> SUBSET topics]
    BY DEF Typed, TypeOK
  <1>3. UNCHANGED <<refused, queues, policy, subscribed, copy, urlCache, sub, batch,
                    deletes, settled, stopped>>
    BY DEF Publish, PublishCall, PublishTopic, PublishSend, OnPublish, delivery, polling
  <1>4. topics \subseteq topics' /\ topics' \subseteq Topics
    BY <1>1, <1>2 DEF Publish, PublishCall, PublishTopic, PublishSend, CreateTopic
  <1>5. arnCache' \in [Brokers -> SUBSET topics']
    <2>1. CASE arnCache' = arnCache
      BY <1>2, <1>4, <2>1
    <2>2. CASE CacheArn(b, Topic[m]) /\ Topic[m] \in topics'
      BY <1>4, <2>2, ArnCached
    <2> QED
      BY <2>1, <2>2 DEF Publish, PublishCall, PublishTopic, PublishSend, CreateTopic
  <1>6. transit' \subseteq Messages \X Names /\ transit \subseteq transit'
    BY DEF Publish, PublishCall, PublishTopic, PublishSend, delivery, Typed, TypeOK
  <1> QED
    BY <1>3, <1>4, <1>5, <1>6 DEF Publishes

(* A publish keeps the types. *)
LEMMA PublishTyped ==
  ASSUME Typed, NEW b \in Brokers, NEW m \in Messages, Publish(b, m)
  PROVE  Typed'
  <1>1. Publishes(m)
    BY PublishEffect
  <1>2. pub' \in [Brokers ->
                   [Messages -> {"idle", "topic", "sending", "resolved", "rejected"}]]
    <2>1. \E to \in {"topic", "sending", "resolved", "rejected"} :
            pub' = [pub EXCEPT ![b][m] = to]
      BY DEF Publish, PublishCall, PublishTopic, PublishSend, PubStep
    <2>2. pub \in [Brokers ->
                    [Messages -> {"idle", "topic", "sending", "resolved", "rejected"}]]
      BY DEF Typed, TypeOK
    <2> QED
      BY <2>1, <2>2
  <1>3. joined' \in [Messages -> SUBSET Calls]
    BY DEF Publish, PublishCall, PublishTopic, PublishSend, Typed, TypeOK
  <1>4. InOrder'
    BY <1>1 DEF Publishes, Typed, InOrder, Queue, HasTopic, HasQueue, HasPolicy,
       HasSubscription
  <1> QED
    BY <1>1, <1>2, <1>3, <1>4 DEF Typed, TypeOK, Publishes, Queue

(* What the services do: a copy that is there stays there, and none is made away
   with. *)
Serves ==
  /\ OnService
  /\ transit' \subseteq transit /\ refused \subseteq refused'
  /\ refused' \subseteq Messages \X Names
  /\ copy' \in [Names -> [Messages -> {"none", "visible", "inflight", "deleted"}]]
  /\ \A n \in Names, m \in Messages :
       /\ copy'[n][m] \in {copy[n][m], "visible"}
       /\ <<m, n>> \in transit => <<m, n>> \in transit' \cup refused' \/ copy'[n][m] = "visible"

(* What a step of the services may change. *)
LEMMA ServiceEffect ==
  ASSUME Typed, NEW m \in Messages, NEW n \in Names,
         Deliver(m, n) \/ EnvelopedSend(m, n) \/ VisibilityTimeout(m, n)
  PROVE  Serves
  <1>1. copy' \in [Names -> [Messages -> {"none", "visible", "inflight", "deleted"}]]
    <2>1. \/ copy' = [copy EXCEPT ![n][m] = "visible"]
          \/ copy' = copy
      BY DEF Deliver, EnvelopedSend, VisibilityTimeout
    <2>2. copy \in [Names -> [Messages -> {"none", "visible", "inflight", "deleted"}]]
      BY DEF Typed, TypeOK
    <2> QED
      BY <2>1, <2>2
  <1>2. transit' \subseteq transit /\ refused \subseteq refused'
    BY DEF Deliver, EnvelopedSend, VisibilityTimeout, delivery
  <1>3. refused' \subseteq Messages \X Names
    BY DEF Deliver, EnvelopedSend, VisibilityTimeout, delivery, Typed, TypeOK
  <1>4. \A k \in Names, l \in Messages : copy'[k][l] \in {copy[k][l], "visible"}
    BY DEF Deliver, EnvelopedSend, VisibilityTimeout, Typed, TypeOK
  <1>5. ASSUME NEW k \in Names, NEW l \in Messages, <<l, k>> \in transit,
               <<l, k>> \notin transit' \cup refused'
        PROVE  copy'[k][l] = "visible"
    BY <1>5 DEF Deliver, EnvelopedSend, VisibilityTimeout, delivery, Typed, TypeOK
  <1>6. OnService
    BY DEF Deliver, EnvelopedSend, VisibilityTimeout
  <1> QED
    BY <1>1, <1>2, <1>3, <1>4, <1>5, <1>6 DEF Serves

(* A step of the services keeps the types. *)
LEMMA ServiceTyped ==
  ASSUME Typed, Serves
  PROVE  Typed'
  <1>1. InOrder'
    BY DEF Serves, OnService, setUp, Typed, InOrder, Queue, HasTopic, HasQueue, HasPolicy,
       HasSubscription
  <1> QED
    BY <1>1 DEF Serves, OnService, setUp, caches, publishing, polling, Typed, TypeOK, Queue

(* A round of the poll loop of c: from one state of the loop to another, or to its
   end, with a batch to handle or without. *)
Holding == {"parsing", "handling", "ack", "nack"}

Runs(c) ==
  /\ sub[c] \in Polling /\ sub'[c] \in Polling \cup {"ended"}
  /\ sub'[c] = "ended" => Broker(c) \in stopped
  /\ sub' = [sub EXCEPT ![c] = sub'[c]]

Carries(c) ==
  /\ batch'[c] \in Seq(Messages)
  /\ batch' = [batch EXCEPT ![c] = batch'[c]]
  /\ batch'[c] # <<>> <=> sub'[c] \in Holding

Settles(c) ==
  \/ UNCHANGED <<deletes, settled>>
  \/ First(c) \in Messages /\ Ack(c)

Takes ==
  /\ copy' \in [Names -> [Messages -> {"none", "visible", "inflight", "deleted"}]]
  /\ \A n \in Names, m \in Messages :
       copy'[n][m] = copy[n][m] \/ (copy[n][m] = "visible" /\ copy'[n][m] = "inflight")

(* An ordering of a set of messages is a sequence of them, empty if the set *)
(* is.                                                                      *)
LEMMA OrderFact ==
  ASSUME NEW S \in SUBSET Messages, NEW order \in SetToSeqs(S)
  PROVE  order \in Seq(Messages) /\ (order = <<>> <=> S = {})
  <1>1. IsFiniteSet(S)
    BY SnsSqsAssumption, FS_Subset
  <1>2. Cardinality(S) \in Nat /\ (Cardinality(S) = 0 <=> S = {})
    BY <1>1, FS_CardinalityType, FS_EmptySet
  <1>3. order \in [1 .. Cardinality(S) -> S]
    BY DEF SetToSeqs
  <1>4. order \in Seq(Messages) /\ Len(order) = Cardinality(S)
    BY <1>2, <1>3
  <1> QED
    BY <1>2, <1>4, EmptySeq

(* The first message of a batch and what remains after it. *)
LEMMA BatchFact ==
  ASSUME Typed, NEW c \in Calls, sub[c] \in Holding
  PROVE  /\ batch[c] \in Seq(Messages) /\ First(c) \in Messages
         /\ Tail(batch[c]) \in Seq(Messages)
         /\ Tail(batch[c]) # <<>> <=> Len(batch[c]) > 1
  <1>1. batch[c] \in Seq(Messages) /\ batch[c] # <<>>
    BY DEF Typed, TypeOK, Holding
  <1>2. Len(batch[c]) \in Nat \ {0}
    BY <1>1, EmptySeq
  <1>3. Tail(batch[c]) \in Seq(Messages) /\ Len(Tail(batch[c])) = Len(batch[c]) - 1
    BY <1>1, HeadTailProperties
  <1>4. Tail(batch[c]) # <<>> <=> Len(Tail(batch[c])) # 0
    BY <1>3, EmptySeq
  <1>5. Head(batch[c]) \in Messages
    BY <1>1, HeadTailProperties
  <1>6. Len(Tail(batch[c])) # 0 <=> Len(batch[c]) > 1
    <2>1. ASSUME NEW k \in Nat \ {0}, NEW l, l = k - 1
          PROVE  l # 0 <=> k > 1
      BY <2>1
    <2> QED
      BY <1>2, <1>3, <2>1
  <1>7. Tail(batch[c]) # <<>> <=> Len(batch[c]) > 1
    BY <1>4, <1>6, Zenon
  <1> QED
    BY <1>1, <1>3, <1>5, <1>7 DEF First

(* A step of the poll loop keeps the types. *)
LEMMA LoopTyped ==
  ASSUME Typed, NEW c \in Calls, Runs(c), Carries(c), Settles(c), Takes, InLoop
  PROVE  Typed'
  <1> USE DEF InLoop, setUp, delivery, caches, publishing
  <1>1. \A d \in Calls : d # c => sub'[d] = sub[d] /\ batch'[d] = batch[d]
    BY DEF Runs, Carries, Typed, TypeOK
  <1>2. InOrder'
    <2>1. \A d \in Calls : sub'[d] \in Polling => sub[d] \in Polling
      BY <1>1 DEF Runs
    <2>2. \A d \in Calls : sub'[d] \in SettingUp => sub[d] = sub'[d]
      BY <1>1 DEF Runs, SettingUp, Polling
    <2> QED
      BY <2>1, <2>2 DEF Typed, InOrder, Queue, HasTopic, HasQueue, HasPolicy,
         HasSubscription, SettingUp
  <1>3. /\ sub' \in [Calls -> {"idle", "rejected", "ended"} \cup SettingUp \cup Polling]
        /\ batch' \in [Calls -> Seq(Messages)]
    BY DEF Runs, Carries, Typed, TypeOK
  <1>4. deletes' \in [Calls -> SUBSET Messages] /\ settled' \subseteq Messages \X Names
    <2>1. Queue(c) \in Names
      BY CallFact
    <2>2. deletes \in [Calls -> SUBSET Messages] /\ settled \subseteq Messages \X Names
      BY DEF Typed, TypeOK
    <2> QED
      BY <2>1, <2>2 DEF Settles, Ack
  <1>5. \A d \in Calls :
          /\ sub'[d] \in Polling => d[2] \in topics' /\ Queue(d) \in queues'
          /\ batch'[d] # <<>> <=> sub'[d] \in {"parsing", "handling", "ack", "nack"}
    BY <1>1 DEF Runs, Carries, Typed, TypeOK, Holding
  <1> QED
    BY <1>2, <1>3, <1>4, <1>5 DEF Typed, TypeOK, Takes, Queue

(* What a step of the poll loop may change. *)
LEMMA LoopEffect ==
  ASSUME Typed, NEW c \in Calls, Loop(c)
  PROVE  Runs(c) /\ Carries(c) /\ Settles(c) /\ Takes /\ InLoop
  <1> USE DEF Step
  <1>0. /\ sub \in [Calls -> {"idle", "rejected", "ended"} \cup SettingUp \cup Polling]
        /\ batch \in [Calls -> Seq(Messages)]
        /\ copy \in [Names -> [Messages -> {"none", "visible", "inflight", "deleted"}]]
        /\ batch[c] # <<>> <=> sub[c] \in Holding
    BY DEF Typed, TypeOK, Holding
  <1>1. UNCHANGED copy => Takes
    BY <1>0 DEF Takes
  <1>2. AfterRound(c) = "poll" \/ (AfterRound(c) = "ended" /\ Broker(c) \in stopped)
    BY DEF AfterRound
  <1>3. CASE Poll(c)
    <2>1. Runs(c)
      BY <1>0, <1>3 DEF Poll, Runs, Polling
    <2>2. Carries(c)
      BY <1>0, <1>3 DEF Poll, Carries, Holding, polling
    <2> QED
      BY <1>1, <1>3, <2>1, <2>2 DEF Poll, Settles, polling
  <1>4. CASE Receive(c)
    <2>1. PICK S \in SUBSET Visible(Queue(c)) :
            /\ \E order \in SetToSeqs(S) : batch' = [batch EXCEPT ![c] = order]
            /\ copy' = [copy EXCEPT ![Queue(c)] = [m \in Messages |->
                          IF m \in S THEN "inflight" ELSE @[m]]]
            /\ Step(c, "receiving", IF S = {} THEN AfterRound(c) ELSE "parsing")
      BY <1>4 DEF Receive
    <2>2. PICK order \in SetToSeqs(S) : batch' = [batch EXCEPT ![c] = order]
      BY <2>1
    <2>3. S \in SUBSET Messages
      BY DEF Visible
    <2>4. order \in Seq(Messages) /\ (order = <<>> <=> S = {})
      BY <2>3, OrderFact
    <2>5. Runs(c)
      BY <1>0, <1>2, <2>1 DEF Runs, Polling
    <2>6. Carries(c)
      BY <1>0, <1>2, <2>1, <2>2, <2>4 DEF Carries, Holding
    <2>7. Takes
      BY <1>0, <2>1 DEF Takes, Visible
    <2> QED
      BY <1>4, <2>5, <2>6, <2>7 DEF Receive, Settles
  <1>5. CASE ParseFailure(c)
    <2>1. Runs(c)
      BY <1>0, <1>2, <1>5 DEF ParseFailure, RoundBroken, Runs, Polling
    <2>2. Carries(c)
      BY <1>0, <1>2, <1>5, EmptySeq DEF ParseFailure, RoundBroken, Carries, Holding
    <2> QED
      BY <1>1, <1>5, <2>1, <2>2 DEF ParseFailure, RoundBroken, Settles
  <1>6. CASE HandlerStart(c)
    <2>1. Runs(c)
      BY <1>0, <1>6 DEF HandlerStart, Runs, Polling
    <2>2. Carries(c)
      BY <1>0, <1>6 DEF HandlerStart, Carries, Holding, polling
    <2> QED
      BY <1>1, <1>6, <2>1, <2>2 DEF HandlerStart, Settles, polling
  <1>7. ASSUME NEW call \in {"ack", "nack"}, HandlerCall(c, call)
        PROVE  Runs(c) /\ Carries(c) /\ Settles(c) /\ Takes /\ InLoop
    <2>1. Runs(c)
      BY <1>0, <1>7 DEF HandlerCall, Runs, Polling
    <2>2. Carries(c)
      BY <1>0, <1>7 DEF HandlerCall, Carries, Holding
    <2>3. First(c) \in Messages
      BY <1>7, BatchFact DEF HandlerCall, Holding
    <2> QED
      BY <1>1, <1>7, <2>1, <2>2, <2>3 DEF HandlerCall, Settles, Nack
  <1>8. ASSUME NEW end \in {"return", "throw"}, HandlerEnds(c, end)
        PROVE  Runs(c) /\ Carries(c) /\ Takes /\ InLoop /\ First(c) \in Messages
    <2>1. PICK call \in {"none", "ack", "nack"} :
            Step(c, IF call = "none" THEN "handling" ELSE call,
                 IF Len(batch[c]) > 1 THEN "parsing" ELSE AfterRound(c))
      BY <1>8 DEF HandlerEnds
    <2>2. sub[c] \in Holding
      BY <2>1 DEF Holding
    <2>3. Runs(c)
      BY <1>0, <1>2, <2>1 DEF Runs, Polling
    <2>4. batch' = [batch EXCEPT ![c] = Tail(@)]
      BY <1>8 DEF HandlerEnds
    <2>5. sub'[c] \in Holding <=> Len(batch[c]) > 1
      BY <1>0, <1>2, <2>1 DEF Holding
    <2>6. Carries(c)
      BY <1>0, <2>2, <2>4, <2>5, BatchFact DEF Carries
    <2> QED
      BY <1>1, <1>8, <2>2, <2>3, <2>6, BatchFact DEF HandlerEnds
  <1>9. HandlerReturn(c) \/ HandlerThrow(c) =>
          Runs(c) /\ Carries(c) /\ Settles(c) /\ Takes /\ InLoop
    BY <1>8 DEF HandlerReturn, HandlerThrow, Settles, Nack
  <1> QED
    BY <1>3, <1>4, <1>5, <1>6, <1>7, <1>9 DEF Loop

(* What the end of a process takes away, and what a DeleteMessage does. *)
LEMMA EndsTyped ==
  ASSUME Typed, NEW b \in Brokers, Ends(b),
         copy' \in [Names -> [Messages -> {"none", "visible", "inflight", "deleted"}]]
  PROVE  /\ Typed'
         /\ \A c \in Calls : sub'[c] \in {sub[c], "idle"} /\ deletes'[c] \subseteq deletes[c]
  <1> USE DEF Ends, setUp, delivery
  <1>1. /\ sub' \in [Calls -> {"idle", "rejected", "ended"} \cup SettingUp \cup Polling]
        /\ batch' \in [Calls -> Seq(Messages)] /\ deletes' \in [Calls -> SUBSET Messages]
    BY EmptySeq DEF Typed, TypeOK
  <1>2. \A c \in Calls :
          /\ sub'[c] \in {sub[c], "idle"} /\ deletes'[c] \subseteq deletes[c]
          /\ (sub'[c] = sub[c] /\ batch'[c] = batch[c]) \/ (sub'[c] = "idle" /\ batch'[c] = <<>>)
    BY DEF Typed, TypeOK
  <1>3. InOrder'
    <2>1. "idle" \notin SettingUp \cup Polling
      BY DEF SettingUp, Polling
    <2> QED
      BY <1>2, <2>1 DEF Typed, InOrder, Queue, HasTopic, HasQueue, HasPolicy, HasSubscription
  <1>4. \A c \in Calls :
          /\ sub'[c] \in Polling => c[2] \in topics' /\ Queue(c) \in queues'
          /\ batch'[c] # <<>> <=> sub'[c] \in {"parsing", "handling", "ack", "nack"}
    BY <1>2 DEF Typed, TypeOK, Polling
  <1>5. pub' \in [Brokers ->
                   [Messages -> {"idle", "topic", "sending", "resolved", "rejected"}]]
    BY DEF Typed, TypeOK
  <1>6. arnCache' \in [Brokers -> SUBSET topics'] /\ urlCache' \in [Brokers -> SUBSET queues']
    BY DEF Typed, TypeOK
  <1> QED
    BY <1>1, <1>2, <1>3, <1>4, <1>5, <1>6 DEF Typed, TypeOK, Queue

Deletes(c, m) ==
  /\ copy' \in [Names -> [Messages -> {"none", "visible", "inflight", "deleted"}]]
  /\ \A n \in Names, l \in Messages :
       copy'[n][l] = copy[n][l] \/ (n = Queue(c) /\ l = m /\ copy'[n][l] = "deleted")

(* A delete that arrives removes one message that was to be deleted. *)
LEMMA DeleteEffect ==
  ASSUME Typed, NEW c \in Calls, NEW m \in deletes[c], DeleteMessage(c, m)
  PROVE  Deletes(c, m) /\ m \in Messages
  <1>1. m \in Messages /\ Queue(c) \in Names
    BY CallFact DEF Typed, TypeOK
  <1>2. \/ copy' = [copy EXCEPT ![Queue(c)][m] = "deleted"]
        \/ UNCHANGED copy
    BY DEF DeleteMessage
  <1>3. copy \in [Names -> [Messages -> {"none", "visible", "inflight", "deleted"}]]
    BY DEF Typed, TypeOK
  <1> QED
    BY <1>1, <1>2, <1>3 DEF Deletes

(* A delete that arrives keeps the types. *)
LEMMA DeleteTyped ==
  ASSUME Typed, NEW c \in Calls, NEW m \in deletes[c], DeleteMessage(c, m)
  PROVE  Typed'
  <1>1. copy' \in [Names -> [Messages -> {"none", "visible", "inflight", "deleted"}]]
    BY DeleteEffect DEF Deletes
  <1>2. CASE Ends(Broker(c))
    BY <1>1, <1>2, EndsTyped, CallFact
  <1>3. CASE /\ deletes' = [deletes EXCEPT ![c] = @ \ {m}]
             /\ InLoop /\ UNCHANGED <<sub, batch, settled>>
    <2> USE <1>3 DEF InLoop, setUp, delivery, caches, publishing
    <2>1. InOrder'
      BY DEF Typed, InOrder, Queue, HasTopic, HasQueue, HasPolicy, HasSubscription
    <2>2. deletes' \in [Calls -> SUBSET Messages]
      BY DEF Typed, TypeOK
    <2> QED
      BY <1>1, <2>1, <2>2 DEF Typed, TypeOK, Queue
  <1> QED
    BY <1>2, <1>3 DEF DeleteMessage

(* close keeps the types. *)
LEMMA CloseTyped ==
  ASSUME Typed, NEW b \in Brokers, Close(b)
  PROVE  Typed'
  <1> USE DEF Close, setUp, delivery, caches, publishing, polling
  <1>1. InOrder'
    BY DEF Typed, InOrder, Queue, HasTopic, HasQueue, HasPolicy, HasSubscription
  <1> QED
    BY <1>1 DEF Typed, TypeOK, Queue

(* A stuttering step keeps the types. *)
LEMMA StutterTyped ==
  ASSUME Typed, UNCHANGED vars
  PROVE  Typed'
  <1> USE DEF vars, setUp, delivery, caches, publishing, polling
  <1>1. InOrder'
    BY DEF Typed, InOrder, Queue, HasTopic, HasQueue, HasPolicy, HasSubscription
  <1> QED
    BY <1>1 DEF Typed, TypeOK, Queue

(* Every step keeps the types. *)
LEMMA StepTyped ==
  ASSUME Typed, [Next]_vars
  PROVE  Typed'
  <1>1. ASSUME NEW c \in Calls, Subscribe(c)
        PROVE  Typed'
    BY <1>1, SubscribeEffect, SetUpTyped
  <1>2. ASSUME NEW c \in Calls, Loop(c)
        PROVE  Typed'
    BY <1>2, LoopEffect, LoopTyped
  <1>3. ASSUME NEW c \in Calls, NEW m \in deletes[c], DeleteMessage(c, m)
        PROVE  Typed'
    BY <1>3, DeleteTyped
  <1>4. ASSUME NEW b \in Brokers, Crash(b)
        PROVE  Typed'
    BY <1>4, EndsTyped DEF Crash, Typed, TypeOK
  <1>5. ASSUME NEW b \in Brokers, Close(b)
        PROVE  Typed'
    BY <1>5, CloseTyped
  <1>6. ASSUME NEW b \in Brokers, NEW m \in Messages, Publish(b, m)
        PROVE  Typed'
    BY <1>6, PublishTyped
  <1>7. ASSUME NEW m \in Messages, NEW n \in Names,
               Deliver(m, n) \/ EnvelopedSend(m, n) \/ VisibilityTimeout(m, n)
        PROVE  Typed'
    BY <1>7, ServiceEffect, ServiceTyped
  <1> QED
    BY <1>1, <1>2, <1>3, <1>4, <1>5, <1>6, <1>7, StutterTyped DEF Next

(* Every variable keeps its type: the pollers' topic and queue exist, the caches name
   what exists, and a batch is there exactly while it is handled
   (aws_sqs_sns/src/index.ts:109-149). *)
THEOREM TypeCorrect == Spec => []TypeOK
  <1>1. Spec => []Typed
    BY InitTyped, StepTyped, PTL DEF Spec
  <1> QED
    BY <1>1, PTL DEF Typed

-----------------------------------------------------------------------------
(* LeavesByAck: a DeleteMessage is under way only for a message that a handler has
   settled. *)
Acked ==
  /\ LeavesByAck
  /\ \A c \in Calls : \A m \in deletes[c] : <<m, Queue(c)>> \in settled

(* Nothing but a DeleteMessage makes a copy leave, and nothing but a handler adds a
   DeleteMessage. *)
LEMMA AckedKept ==
  ASSUME Typed, Acked, settled \subseteq settled',
         \A c \in Calls : \A m \in deletes'[c] :
           m \in deletes[c] \/ <<m, Queue(c)>> \in settled',
         \A m \in Messages, n \in Names :
           copy'[n][m] = "deleted" => copy[n][m] = "deleted" \/ <<m, n>> \in settled
  PROVE  Acked'
  BY DEF Acked, LeavesByAck, Queue

(* Every step leaves a message deleted only on a handler's ack. *)
LEMMA StepAcked ==
  ASSUME Typed, Acked, [Next]_vars
  PROVE  Acked'
  <1>1. ASSUME UNCHANGED <<copy, deletes, settled>>
        PROVE  Acked'
    BY <1>1, AckedKept DEF Acked, LeavesByAck
  <1>2. ASSUME NEW c \in Calls, Subscribe(c)
        PROVE  Acked'
    BY <1>1, <1>2 DEF Subscribe, SubscribeCall, EnsureTopic, LookUpQueue, CreateQueue,
       GetQueueArn, SetQueuePolicy, EnsureSubscription, OnSetUp, polling
  <1>3. ASSUME NEW c \in Calls, Loop(c)
        PROVE  Acked'
    <2>1. Settles(c) /\ Takes
      BY <1>3, LoopEffect
    <2>2. deletes \in [Calls -> SUBSET Messages]
      BY DEF Typed, TypeOK
    <2>3. /\ settled \subseteq settled'
          /\ \A d \in Calls : \A m \in deletes'[d] :
               m \in deletes[d] \/ <<m, Queue(d)>> \in settled'
      BY <2>1, <2>2 DEF Settles, Ack
    <2>4. \A m \in Messages, n \in Names :
            copy'[n][m] = "deleted" => copy[n][m] = "deleted" \/ <<m, n>> \in settled
      BY <2>1 DEF Takes
    <2> QED
      BY <2>3, <2>4, AckedKept
  <1>4. ASSUME NEW c \in Calls, NEW m \in deletes[c], DeleteMessage(c, m)
        PROVE  Acked'
    <2>1. Deletes(c, m) /\ m \in Messages
      BY <1>4, DeleteEffect
    <2>2. UNCHANGED settled /\ \A d \in Calls : deletes'[d] \subseteq deletes[d]
      <3>1. CASE Ends(Broker(c))
        BY <2>1, <3>1, EndsTyped, CallFact DEF Deletes, Ends
      <3>2. CASE deletes' = [deletes EXCEPT ![c] = @ \ {m}] /\ UNCHANGED settled
        BY <3>2 DEF Typed, TypeOK
      <3> QED
        BY <1>4, <3>1, <3>2 DEF DeleteMessage
    <2>3. \A l \in Messages, n \in Names :
            copy'[n][l] = "deleted" => copy[n][l] = "deleted" \/ <<l, n>> \in settled
      BY <2>1 DEF Deletes, Acked
    <2> QED
      BY <2>2, <2>3, AckedKept
  <1>5. ASSUME NEW b \in Brokers, Crash(b)
        PROVE  Acked'
    <2>1. \A c \in Calls : deletes'[c] \subseteq deletes[c]
      BY <1>5, EndsTyped DEF Crash, Typed, TypeOK
    <2> QED
      BY <1>5, <2>1, AckedKept DEF Crash, Ends, Acked, LeavesByAck
  <1>6. ASSUME NEW b \in Brokers, Close(b)
        PROVE  Acked'
    BY <1>1, <1>6 DEF Close, polling
  <1>7. ASSUME NEW b \in Brokers, NEW m \in Messages, Publish(b, m)
        PROVE  Acked'
    BY <1>1, <1>7, PublishEffect DEF Publishes
  <1>8. ASSUME NEW m \in Messages, NEW n \in Names,
               Deliver(m, n) \/ EnvelopedSend(m, n) \/ VisibilityTimeout(m, n)
        PROVE  Acked'
    <2>1. Serves
      BY <1>8, ServiceEffect
    <2>2. UNCHANGED <<deletes, settled>>
      BY <2>1 DEF Serves, OnService, polling
    <2>3. \A l \in Messages, k \in Names : copy'[k][l] = "deleted" => copy[k][l] = "deleted"
      BY <2>1 DEF Serves
    <2> QED
      BY <2>2, <2>3, AckedKept DEF Acked, LeavesByAck
  <1>9. CASE UNCHANGED vars
    BY <1>1, <1>9 DEF vars, polling
  <1> QED
    BY <1>2, <1>3, <1>4, <1>5, <1>6, <1>7, <1>8, <1>9 DEF Next

(* A message leaves its queue only when a handler has acked it or returned, whatever
   breaks, times out, closes or crashes in between
   (aws_sqs_sns/src/index.ts:131-145). *)
THEOREM DeletedOnlyByAck == Spec => []LeavesByAck
  <1>1. Init => Typed /\ Acked
    BY InitTyped DEF Init, Acked, LeavesByAck
  <1>2. Typed /\ Acked /\ [Next]_vars => (Typed /\ Acked)'
    BY StepTyped, StepAcked
  <1>3. Acked => LeavesByAck
    BY DEF Acked
  <1> QED
    BY <1>1, <1>2, <1>3, PTL DEF Spec

-----------------------------------------------------------------------------
(* SubscribedIsAllowed: the policy of a queue is always that of a call, and a queue is
   subscribed only when its policy is set. *)
Allowed ==
  /\ \A s \in subscribed : policy[s[2]] # NoTopic
  /\ \A n \in Names : policy[n] # NoTopic =>
       \E c \in Calls : Queue(c) = n /\ c[2] = policy[n]

(* Every step leaves a subscribed queue with a policy that a subscribe of *)
(* its topic set.                                                         *)
LEMMA StepAllowed ==
  ASSUME Typed, Allowed, [Next]_vars
  PROVE  Allowed'
  <1>1. ASSUME UNCHANGED <<policy, subscribed>>
        PROVE  Allowed'
    BY <1>1 DEF Allowed, Queue
  <1>2. ASSUME NEW c \in Calls, SetQueuePolicy(c)
        PROVE  Allowed'
    <2>1. Queue(c) \in Names /\ c[2] # NoTopic
      BY CallFact
    <2>2. CASE policy' = [policy EXCEPT ![Queue(c)] = c[2]]
      <3>1. UNCHANGED subscribed /\ subscribed \subseteq topics \X queues
        BY <1>2 DEF SetQueuePolicy, Typed, TypeOK
      <3>2. \A n \in Names : policy'[n] = IF n = Queue(c) THEN c[2] ELSE policy[n]
        BY <2>2 DEF Typed, TypeOK
      <3>3. queues \subseteq Names
        BY DEF Typed, TypeOK
      <3>4. \A s \in subscribed' : policy'[s[2]] # NoTopic
        BY <2>1, <3>1, <3>2, <3>3 DEF Allowed
      <3>5. \A n \in Names : policy'[n] # NoTopic =>
              \E d \in Calls : Queue(d) = n /\ d[2] = policy'[n]
        BY <3>2 DEF Allowed
      <3> QED
        BY <3>4, <3>5 DEF Allowed, Queue
    <2>3. CASE UNCHANGED policy
      BY <1>1, <1>2, <2>3 DEF SetQueuePolicy
    <2> QED
      BY <1>2, <2>2, <2>3 DEF SetQueuePolicy
  <1>3. ASSUME NEW c \in Calls, EnsureSubscription(c)
        PROVE  Allowed'
    <2>1. UNCHANGED policy /\ (subscribed' = subscribed \cup {<<c[2], Queue(c)>>} \/ UNCHANGED subscribed)
      BY <1>3 DEF EnsureSubscription
    <2>2. policy[Queue(c)] # NoTopic
      <3>1. sub[c] \in {"subscribe", "attributes"}
        BY <1>3 DEF EnsureSubscription, Step, Rejects
      <3> QED
        BY <3>1 DEF Typed, InOrder, HasPolicy
    <2> QED
      BY <2>1, <2>2 DEF Allowed, Queue
  <1>4. ASSUME NEW c \in Calls, Subscribe(c)
        PROVE  Allowed'
    <2>1. CASE SetQueuePolicy(c) \/ EnsureSubscription(c)
      BY <1>2, <1>3, <2>1
    <2>2. CASE ~(SetQueuePolicy(c) \/ EnsureSubscription(c))
      BY <1>1, <1>4, <2>2 DEF Subscribe, SubscribeCall, EnsureTopic, LookUpQueue, CreateQueue,
         GetQueueArn, setUp
    <2> QED
      BY <2>1, <2>2
  <1>5. ASSUME NEW c \in Calls, Loop(c)
        PROVE  Allowed'
    BY <1>1, <1>5, LoopEffect DEF InLoop, setUp
  <1>6. ASSUME NEW c \in Calls, NEW m \in deletes[c], DeleteMessage(c, m)
        PROVE  Allowed'
    BY <1>1, <1>6 DEF DeleteMessage, InLoop, Ends, setUp
  <1>7. ASSUME NEW b \in Brokers, Crash(b) \/ Close(b)
        PROVE  Allowed'
    BY <1>1, <1>7 DEF Crash, Ends, Close, setUp
  <1>8. ASSUME NEW b \in Brokers, NEW m \in Messages, Publish(b, m)
        PROVE  Allowed'
    BY <1>1, <1>8, PublishEffect DEF Publishes
  <1>9. ASSUME NEW m \in Messages, NEW n \in Names,
               Deliver(m, n) \/ EnvelopedSend(m, n) \/ VisibilityTimeout(m, n)
        PROVE  Allowed'
    BY <1>1, <1>9, ServiceEffect DEF Serves, OnService, setUp
  <1>10. CASE UNCHANGED vars
    BY <1>1, <1>10 DEF vars, setUp
  <1> QED
    BY <1>4, <1>5, <1>6, <1>7, <1>8, <1>9, <1>10 DEF Next

(* However a set-up fails half-way and is repeated, no queue is subscribed to a topic
   while its policy admits none, or one that no call of that queue names
   (aws_sqs_sns/src/index.ts:216-266). *)
THEOREM SubscribedAllowed == Spec => []SubscribedIsAllowed
  <1>1. Init => Typed /\ Allowed
    BY InitTyped DEF Init, Allowed
  <1>2. Typed /\ Allowed /\ [Next]_vars => (Typed /\ Allowed)'
    BY StepTyped, StepAllowed
  <1>3. Typed /\ Allowed => SubscribedIsAllowed
    <2> SUFFICES ASSUME Typed, Allowed, NEW s \in subscribed
                 PROVE  \E c \in Calls : Queue(c) = s[2] /\ c[2] = policy[s[2]]
      BY DEF SubscribedIsAllowed
    <2>1. s[2] \in Names
      BY DEF Typed, TypeOK
    <2> QED
      BY <2>1 DEF Allowed
  <1> QED
    BY <1>1, <1>2, <1>3, PTL DEF Spec

-----------------------------------------------------------------------------
(* ResolvedReachesJoined: a call that has polled has subscribed its queue, a
   subscription is never taken back, and what has reached a queue leaves a trace. *)
Reached(m, n) == <<m, n>> \in transit \cup refused \/ copy[n][m] # "none"

Joined ==
  \A m \in Messages : \A c \in joined[m] :
    c[2] = Topic[m] /\ <<c[2], Queue(c)>> \in subscribed

Reaching == ResolvedReachesJoined /\ Joined

(* A queue that a message has reached stays reached. *)
LEMMA ReachedKept ==
  ASSUME Typed, [Next]_vars, NEW m \in Messages, NEW n \in Names, Reached(m, n)
  PROVE  Reached(m, n)'
  <1>1. ASSUME UNCHANGED <<transit, refused>>, copy'[n][m] = copy[n][m] \/ copy'[n][m] # "none"
        PROVE  Reached(m, n)'
    BY <1>1 DEF Reached
  <1>2. ASSUME NEW c \in Calls, Subscribe(c)
        PROVE  Reached(m, n)'
    BY <1>1, <1>2 DEF Subscribe, SubscribeCall, EnsureTopic, LookUpQueue, CreateQueue,
       GetQueueArn, SetQueuePolicy, EnsureSubscription, OnSetUp, delivery
  <1>3. ASSUME NEW c \in Calls, Loop(c)
        PROVE  Reached(m, n)'
    <2>1. Takes /\ InLoop
      BY <1>3, LoopEffect
    <2> QED
      BY <1>1, <2>1 DEF Takes, InLoop, delivery
  <1>4. ASSUME NEW c \in Calls, NEW l \in deletes[c], DeleteMessage(c, l)
        PROVE  Reached(m, n)'
    <2>1. Deletes(c, l)
      BY <1>4, DeleteEffect
    <2> QED
      BY <1>1, <1>4, <2>1 DEF Deletes, DeleteMessage, InLoop, Ends, delivery
  <1>5. ASSUME NEW b \in Brokers, Crash(b) \/ Close(b)
        PROVE  Reached(m, n)'
    BY <1>1, <1>5 DEF Crash, Ends, Close, delivery
  <1>6. ASSUME NEW b \in Brokers, NEW l \in Messages, Publish(b, l)
        PROVE  Reached(m, n)'
    BY <1>6, PublishEffect DEF Publishes, Reached
  <1>7. ASSUME NEW l \in Messages, NEW k \in Names,
               Deliver(l, k) \/ EnvelopedSend(l, k) \/ VisibilityTimeout(l, k)
        PROVE  Reached(m, n)'
    <2>1. Serves
      BY <1>7, ServiceEffect
    <2>2. CASE <<m, n>> \in transit
      BY <2>1, <2>2 DEF Serves, Reached
    <2>3. CASE <<m, n>> \in refused \/ copy[n][m] # "none"
      BY <2>1, <2>3 DEF Serves, Reached
    <2> QED
      BY <2>2, <2>3 DEF Reached
  <1>8. CASE UNCHANGED vars
    BY <1>1, <1>8 DEF vars, delivery
  <1> QED
    BY <1>2, <1>3, <1>4, <1>5, <1>6, <1>7, <1>8 DEF Next

(* A step that resolves no publish and starts none. *)
LEMMA ReachingKept ==
  ASSUME Typed, Reaching, [Next]_vars, UNCHANGED joined, subscribed \subseteq subscribed',
         \A b \in Brokers, m \in Messages : pub'[b][m] = "resolved" => pub[b][m] = "resolved"
  PROVE  Reaching'
  <1>1. Joined'
    BY DEF Reaching, Joined, Queue
  <1>2. ASSUME NEW b \in Brokers, NEW m \in Messages, pub'[b][m] = "resolved",
               NEW c \in joined'[m]
        PROVE  Reached(m, Queue(c))'
    <2>1. pub[b][m] = "resolved" /\ c \in joined[m]
      BY <1>2
    <2>2. Reached(m, Queue(c))
      BY <2>1 DEF Reaching, ResolvedReachesJoined, Reached
    <2>3. Queue(c) \in Names
      BY <2>1, CallFact DEF Typed, TypeOK
    <2>4. \A n \in Names : Reached(m, n) => Reached(m, n)'
      BY ReachedKept
    <2> QED
      BY <2>2, <2>3, <2>4 DEF Reached, Queue
  <1> QED
    BY <1>1, <1>2 DEF Reaching, ResolvedReachesJoined, Reached, Queue

(* A publish reaches every queue that was joined when SNS took it. *)
LEMMA PublishReaching ==
  ASSUME Typed, Reaching, NEW b \in Brokers, NEW m \in Messages, Publish(b, m)
  PROVE  Reaching'
  <1>0. [Next]_vars
    BY DEF Next
  <1>1. UNCHANGED <<subscribed, copy, refused>>
    BY PublishEffect DEF Publishes
  <1>2. CASE PublishCall(b, m)
    <2>1. joined' = [joined EXCEPT ![m] = {c \in Calls : c[2] = Topic[m] /\ sub[c] \in Polling}]
      BY <1>2 DEF PublishCall
    <2>2. \A c \in Calls : sub[c] \in Polling => <<c[2], Queue(c)>> \in subscribed
      BY DEF Typed, InOrder, HasSubscription
    <2>3. Joined'
      BY <1>1, <2>1, <2>2 DEF Reaching, Joined, Typed, TypeOK, Queue
    <2>4. ASSUME NEW d \in Brokers, NEW l \in Messages, pub'[d][l] = "resolved",
                 NEW c \in joined'[l]
          PROVE  Reached(l, Queue(c))'
      <3>1. l # m /\ pub[d][l] = "resolved"
        BY <1>2, <2>4 DEF PublishCall, PubStep, Typed, TypeOK
      <3>2. c \in joined[l]
        BY <2>1, <2>4, <3>1 DEF Typed, TypeOK
      <3>3. Reached(l, Queue(c))
        BY <3>1, <3>2 DEF Reaching, ResolvedReachesJoined, Reached
      <3>4. UNCHANGED transit
        BY <1>2 DEF PublishCall, delivery
      <3> QED
        BY <1>1, <3>3, <3>4 DEF Reached, Queue
    <2> QED
      BY <2>3, <2>4 DEF Reaching, ResolvedReachesJoined, Reached, Queue
  <1>3. ASSUME NEW ensure \in BOOLEAN, PublishTopic(b, m, ensure)
        PROVE  Reaching'
    <2>1. UNCHANGED joined
      BY <1>3 DEF PublishTopic
    <2>2. \A d \in Brokers, l \in Messages : pub'[d][l] = "resolved" => pub[d][l] = "resolved"
      <3>1. \E to \in {"sending", "rejected"} : pub' = [pub EXCEPT ![b][m] = to]
        BY <1>3 DEF PublishTopic, PubStep
      <3> QED
        BY <3>1 DEF Typed, TypeOK
    <2> QED
      BY <1>0, <1>1, <2>1, <2>2, ReachingKept
  <1>4. CASE PublishSend(b, m) /\ pub'[b][m] = "rejected"
    <2>1. UNCHANGED joined
      BY <1>4 DEF PublishSend
    <2>2. \A d \in Brokers, l \in Messages : pub'[d][l] = "resolved" => pub[d][l] = "resolved"
      BY <1>4 DEF PublishSend, PubStep, Typed, TypeOK
    <2> QED
      BY <1>0, <1>1, <2>1, <2>2, ReachingKept
  <1>5. CASE PublishSend(b, m) /\ pub'[b][m] # "rejected"
    <2>1. UNCHANGED joined
      BY <1>5 DEF PublishSend
    <2>2. transit' = transit \cup {<<m, s[2]>> : s \in {r \in subscribed : r[1] = Topic[m]}}
      BY <1>5 DEF PublishSend
    <2>3. Joined'
      BY <1>1, <2>1 DEF Reaching, Joined, Queue
    <2>4. ASSUME NEW d \in Brokers, NEW l \in Messages, pub'[d][l] = "resolved",
                 NEW c \in joined'[l]
          PROVE  Reached(l, Queue(c))'
      <3>1. CASE l = m
        <4>1. <<c[2], Queue(c)>> \in subscribed /\ c[2] = Topic[m]
          BY <2>1, <2>4, <3>1 DEF Reaching, Joined
        <4>2. <<m, Queue(c)>> \in transit'
          BY <2>2, <4>1
        <4> QED
          BY <3>1, <4>2 DEF Reached, Queue
      <3>2. CASE l # m
        <4>1. pub[d][l] = "resolved"
          <5>1. \E to \in {"resolved", "rejected"} : pub' = [pub EXCEPT ![b][m] = to]
            BY <1>5 DEF PublishSend, PubStep
          <5> QED
            BY <2>4, <3>2, <5>1 DEF Typed, TypeOK
        <4>2. Reached(l, Queue(c))
          BY <2>1, <2>4, <4>1 DEF Reaching, ResolvedReachesJoined, Reached
        <4> QED
          BY <1>1, <2>2, <4>2 DEF Reached, Queue
      <3> QED
        BY <3>1, <3>2
    <2> QED
      BY <2>3, <2>4 DEF Reaching, ResolvedReachesJoined, Reached, Queue
  <1> QED
    BY <1>2, <1>3, <1>4, <1>5 DEF Publish

(* Every step keeps what a resolved publish has reached. *)
LEMMA StepReaching ==
  ASSUME Typed, Reaching, [Next]_vars
  PROVE  Reaching'
  <1>1. ASSUME UNCHANGED <<pub, joined>>, subscribed \subseteq subscribed'
        PROVE  Reaching'
    BY <1>1, ReachingKept
  <1>2. ASSUME NEW c \in Calls, Subscribe(c)
        PROVE  Reaching'
    <2>1. OnSetUp
      BY <1>2 DEF Subscribe, SubscribeCall, EnsureTopic, LookUpQueue, CreateQueue,
         GetQueueArn, SetQueuePolicy, EnsureSubscription
    <2>2. subscribed \subseteq subscribed'
      BY <1>2 DEF Subscribe, SubscribeCall, EnsureTopic, LookUpQueue, CreateQueue,
         GetQueueArn, SetQueuePolicy, EnsureSubscription, setUp
    <2> QED
      BY <1>1, <2>1, <2>2 DEF OnSetUp, publishing
  <1>3. ASSUME NEW c \in Calls, Loop(c)
        PROVE  Reaching'
    BY <1>1, <1>3, LoopEffect DEF InLoop, setUp, publishing
  <1>4. ASSUME NEW b \in Brokers, Ends(b)
        PROVE  Reaching'
    <2>1. UNCHANGED <<joined, subscribed>>
      BY <1>4 DEF Ends, setUp
    <2>2. \A d \in Brokers, m \in Messages : pub'[d][m] = "resolved" => pub[d][m] = "resolved"
      BY <1>4 DEF Ends, Typed, TypeOK
    <2> QED
      BY <2>1, <2>2, ReachingKept
  <1>5. ASSUME NEW c \in Calls, NEW m \in deletes[c], DeleteMessage(c, m)
        PROVE  Reaching'
    BY <1>1, <1>4, <1>5, CallFact DEF DeleteMessage, InLoop, setUp, publishing
  <1>6. ASSUME NEW b \in Brokers, Crash(b) \/ Close(b)
        PROVE  Reaching'
    BY <1>1, <1>4, <1>6 DEF Crash, Close, setUp, publishing
  <1>7. ASSUME NEW b \in Brokers, NEW m \in Messages, Publish(b, m)
        PROVE  Reaching'
    BY <1>7, PublishReaching
  <1>8. ASSUME NEW m \in Messages, NEW n \in Names,
               Deliver(m, n) \/ EnvelopedSend(m, n) \/ VisibilityTimeout(m, n)
        PROVE  Reaching'
    BY <1>1, <1>8, ServiceEffect DEF Serves, OnService, setUp, publishing
  <1>9. CASE UNCHANGED vars
    BY <1>1, <1>9 DEF vars, setUp, publishing
  <1> QED
    BY <1>2, <1>3, <1>5, <1>6, <1>7, <1>8, <1>9 DEF Next

(* When publish resolves, every group whose subscribe had resolved before the call has
   a copy or a refusal, whichever requests failed before and in whichever process
   (aws_sqs_sns/src/index.ts:81-118). *)
THEOREM ReachesJoined == Spec => []ResolvedReachesJoined
  <1>1. Init => Typed /\ Reaching
    BY InitTyped DEF Init, Reaching, ResolvedReachesJoined, Joined
  <1>2. Typed /\ Reaching /\ [Next]_vars => (Typed /\ Reaching)'
    BY StepTyped, StepReaching
  <1>3. Reaching => ResolvedReachesJoined
    BY DEF Reaching
  <1> QED
    BY <1>1, <1>2, <1>3, PTL DEF Spec

-----------------------------------------------------------------------------
(* LoopEndsByClose: what a step does to the loops. *)
EndsClosed ==
  \A c \in Calls : sub[c] \in Polling /\ sub'[c] = "ended" => Broker(c) \in stopped

(* A poll loop ends only in a broker that was closed. *)
LEMMA StepEndsClosed ==
  ASSUME Typed, [Next]_vars
  PROVE  EndsClosed
  <1>1. ASSUME UNCHANGED sub
        PROVE  EndsClosed
    BY <1>1 DEF EndsClosed, Polling
  <1>2. ASSUME NEW c \in Calls, Subscribe(c)
        PROVE  EndsClosed
    <2>1. MovesOn(c)
      BY <1>2, SubscribeEffect
    <2> QED
      <3>1. sub'[c] # "ended"
        BY <2>1 DEF MovesOn, SettingUp
      <3>2. \A d \in Calls : d # c => sub'[d] = sub[d]
        BY <2>1 DEF MovesOn, Typed, TypeOK
      <3> QED
        BY <3>1, <3>2 DEF EndsClosed, Polling
  <1>3. ASSUME NEW c \in Calls, Loop(c)
        PROVE  EndsClosed
    <2>1. Runs(c)
      BY <1>3, LoopEffect
    <2> QED
      <3>1. sub'[c] = "ended" => Broker(c) \in stopped
        BY <2>1 DEF Runs
      <3>2. \A d \in Calls : d # c => sub'[d] = sub[d]
        BY <2>1 DEF Runs, Typed, TypeOK
      <3> QED
        BY <3>1, <3>2 DEF EndsClosed, Polling
  <1>4. ASSUME NEW b \in Brokers, Ends(b)
        PROVE  EndsClosed
    BY <1>4 DEF Ends, Polling, EndsClosed
  <1>5. ASSUME NEW c \in Calls, NEW m \in deletes[c], DeleteMessage(c, m)
        PROVE  EndsClosed
    BY <1>1, <1>4, <1>5, CallFact DEF DeleteMessage
  <1>6. ASSUME NEW b \in Brokers, Crash(b) \/ Close(b)
        PROVE  EndsClosed
    BY <1>1, <1>4, <1>6 DEF Crash, Close
  <1>7. ASSUME NEW b \in Brokers, NEW m \in Messages, Publish(b, m)
        PROVE  EndsClosed
    BY <1>1, <1>7, PublishEffect DEF Publishes
  <1>8. ASSUME NEW m \in Messages, NEW n \in Names,
               Deliver(m, n) \/ EnvelopedSend(m, n) \/ VisibilityTimeout(m, n)
        PROVE  EndsClosed
    BY <1>1, <1>8, ServiceEffect DEF Serves, OnService
  <1>9. CASE UNCHANGED vars
    BY <1>1, <1>9 DEF vars
  <1> QED
    BY <1>2, <1>3, <1>5, <1>6, <1>7, <1>8, <1>9 DEF Next

(* A poll loop ends only when its broker has been closed: no message and no failed
   request ends it (aws_sqs_sns/src/index.ts:120-151). *)
THEOREM EndsByClose == Spec => LoopEndsByClose
  <1>1. Typed /\ [Next]_vars => [EndsClosed]_vars
    BY StepEndsClosed DEF EndsClosed
  <1>2. Spec => []Typed
    BY InitTyped, StepTyped, PTL DEF Spec
  <1>3. Spec => [][EndsClosed]_vars
    BY <1>1, <1>2, PTL DEF Spec
  <1> QED
    BY <1>3 DEF EndsClosed, LoopEndsByClose
=============================================================================
