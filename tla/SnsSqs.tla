------------------------------- MODULE SnsSqs -------------------------------
(***************************************************************************)
(* The SNS+SQS adapter (packages/aws_sqs_sns/src/index.ts): the requests   *)
(* by which subscribe sets a group up (topic, queue, policy, subscription),*)
(* publish, the poll loop, and the two services.                           *)
(*                                                                         *)
(* Each broker is a process with caches of its own. SNS takes a message at *)
(* once and delivers it later, to the queues that were subscribed when it  *)
(* came; SQS refuses what the queue's policy does not allow. A request may *)
(* be rejected with or without having had its effect.                      *)
(***************************************************************************)
EXTENDS Naturals, Sequences, FiniteSets, SequencesExt

CONSTANTS
  Brokers, Topics, Groups, Names,
  QueueName,     \* QueueName[t][g]: several topics may share a name
  Calls,         \* <<b, t, g>>: the subscribes that may be called
  Messages,
  Topic,         \* Topic[m]: where m is published
  Enveloped,     \* messages others put into a queue, in the envelope of SNS
  MaxMessages,   \* SnsSqsConfig.maxMessages
  Outcomes,      \* what a handler may do: <<call or "none", way to end>>
  Environment,   \* what may happen besides calls and handlers
  Closers,       \* the brokers that the application closes
  NoTopic

Events == {"network", "retry", "crash", "timeout", "unensured"}

ASSUME SnsSqsAssumption ==
  /\ QueueName \in [Topics -> [Groups -> Names]]
  /\ Calls \subseteq Brokers \X Topics \X Groups
  /\ Topic \in [Messages -> Topics] /\ Enveloped \subseteq Messages
  /\ IsFiniteSet(Messages)
  /\ MaxMessages \in Nat \ {0} /\ NoTopic \notin Topics
  /\ Outcomes \subseteq {"none", "ack", "nack"} \X {"return", "throw"}
  /\ Environment \subseteq Events /\ Closers \subseteq Brokers

VARIABLES
  topics,       \* SNS topics that exist
  queues,       \* SQS queues that exist
  policy,       \* policy[n]: the topic that may send to queue n
  subscribed,   \* <<t, n>>: queue n is subscribed to topic t
  transit,      \* <<m, n>>: m is on its way from SNS to queue n
  refused,      \* <<m, n>>: queue n did not take m (history)
  copy,         \* copy[n][m]: message m in queue n
  arnCache,     \* arnCache[b]: topics whose ARN is cached
  urlCache,     \* urlCache[b]: queues whose URL is cached
  pub,          \* pub[b][m]: publish of m by b
  joined,       \* joined[m]: the calls that polled when m was published (history)
  sub,          \* sub[c]: the request subscribe waits for, then its poll loop
  batch,        \* batch[c]: messages received and not yet handled
  deletes,      \* deletes[c]: messages whose DeleteMessage is under way
  settled,      \* <<m, n>>: acked by a handler, or its handler returned (history)
  stopped       \* brokers whose close has been called

setUp == <<topics, queues, policy, subscribed>>
delivery == <<transit, refused>>
caches == <<arnCache, urlCache>>
publishing == <<pub, joined>>
polling == <<batch, deletes, settled>>
vars == <<setUp, delivery, copy, caches, publishing, sub, polling, stopped>>

Broker(c) == c[1]
Queue(c) == QueueName[c[2]][c[3]]

SettingUp == {"topic", "lookup", "create", "arn", "policy", "subscribe", "attributes"}
Polling == {"poll", "receiving", "parsing", "handling", "ack", "nack"}

TypeOK ==
  /\ topics \subseteq Topics /\ queues \subseteq Names /\ stopped \subseteq Brokers
  /\ policy \in [Names -> Topics \cup {NoTopic}]
  /\ subscribed \subseteq topics \X queues
  /\ transit \cup refused \cup settled \subseteq Messages \X Names
  /\ copy \in [Names -> [Messages -> {"none", "visible", "inflight", "deleted"}]]
  /\ arnCache \in [Brokers -> SUBSET topics] /\ urlCache \in [Brokers -> SUBSET queues]
  /\ pub \in [Brokers -> [Messages -> {"idle", "topic", "sending", "resolved", "rejected"}]]
  /\ joined \in [Messages -> SUBSET Calls]
  /\ sub \in [Calls -> {"idle", "rejected", "ended"} \cup SettingUp \cup Polling]
  /\ batch \in [Calls -> Seq(Messages)] /\ deletes \in [Calls -> SUBSET Messages]
  /\ \A c \in Calls :
       /\ sub[c] \in Polling => c[2] \in topics /\ Queue(c) \in queues
       /\ batch[c] # <<>> <=> sub[c] \in {"parsing", "handling", "ack", "nack"}

Init ==
  /\ topics = {} /\ queues = {} /\ subscribed = {}
  /\ policy = [n \in Names |-> NoTopic]
  /\ transit = {} /\ refused = {} /\ settled = {} /\ stopped = {}
  /\ copy = [n \in Names |-> [m \in Messages |-> "none"]]
  /\ arnCache = [b \in Brokers |-> {}] /\ urlCache = [b \in Brokers |-> {}]
  /\ pub = [b \in Brokers |-> [m \in Messages |-> "idle"]]
  /\ joined = [m \in Messages |-> {}]
  /\ sub = [c \in Calls |-> "idle"]
  /\ batch = [c \in Calls |-> <<>>] /\ deletes = [c \in Calls |-> {}]

-----------------------------------------------------------------------------
(* ensureTopic and ensureQueue *)

NetworkFails == "network" \in Environment

CreateTopic(t) == topics' = topics \cup {t}
CacheArn(b, t) == arnCache' = [arnCache EXCEPT ![b] = @ \cup {t}]
CacheUrl(b, n) == urlCache' = [urlCache EXCEPT ![b] = @ \cup {n}]

AfterTopic(c) == IF Queue(c) \in urlCache[Broker(c)] THEN "arn" ELSE "lookup"

Step(c, from, to) == sub[c] = from /\ sub' = [sub EXCEPT ![c] = to]

(* The network rejects the request that c waits for. *)
Rejects(c, from) == NetworkFails /\ Step(c, from, "rejected")

Called(c) ==
  sub[c] = "idle" \/ (sub[c] = "rejected" /\ "retry" \in Environment)

OnSetUp == UNCHANGED <<delivery, copy, publishing, polling, stopped>>

SubscribeCallWired(c) ==
  /\ Called(c)
  /\ Step(c, sub[c], CASE c[2] \notin arnCache[Broker(c)] -> "topic"
                       [] Queue(c) \notin urlCache[Broker(c)] -> "lookup"
                       [] OTHER -> "poll")
  /\ UNCHANGED <<setUp, caches>> /\ OnSetUp

(* subscribe up to its first await *)
SubscribeCall(c) ==
  /\ Called(c)
  /\ Step(c, sub[c], IF c[2] \in arnCache[Broker(c)] THEN AfterTopic(c) ELSE "topic")
  /\ UNCHANGED <<setUp, caches>> /\ OnSetUp

(* Whether a call may set opts.ensure or not *)
Ensures(ensure) == ensure \/ "unensured" \in Environment

(* Without ensure the topic is looked up under an ARN that has neither region
   nor account, which no topic has. *)
EnsureTopic(c, ensure) ==
  /\ Ensures(ensure)
  /\ \/ /\ ensure /\ CreateTopic(c[2])
        /\ \/ Step(c, "topic", AfterTopic(c)) /\ CacheArn(Broker(c), c[2])
           \/ Rejects(c, "topic") /\ UNCHANGED arnCache
     \/ /\ ~ensure \/ NetworkFails
        /\ Step(c, "topic", "rejected") /\ UNCHANGED <<topics, arnCache>>
  /\ UNCHANGED <<queues, policy, subscribed, urlCache>> /\ OnSetUp

(* A lookup that fails, for whatever reason, is taken for a missing queue. *)
LookUpQueue(c, ensure) ==
  /\ Ensures(ensure)
  /\ \/ /\ Queue(c) \in queues
        /\ Step(c, "lookup", "arn") /\ CacheUrl(Broker(c), Queue(c))
     \/ /\ Queue(c) \notin queues \/ NetworkFails
        /\ Step(c, "lookup", IF ensure THEN "create" ELSE "rejected")
        /\ UNCHANGED urlCache
  /\ UNCHANGED <<setUp, arnCache>> /\ OnSetUp

CreateQueueCached(c) ==
  /\ Step(c, "create", "arn") \/ Rejects(c, "create")
  /\ CacheUrl(Broker(c), Queue(c))
  /\ \/ queues' = queues \cup {Queue(c)}
     \/ sub'[c] = "rejected" /\ UNCHANGED queues
  /\ UNCHANGED <<topics, policy, subscribed, arnCache>> /\ OnSetUp

CreateQueue(c) ==
  /\ \/ Step(c, "create", "arn") /\ CacheUrl(Broker(c), Queue(c))
     \/ Rejects(c, "create") /\ UNCHANGED urlCache
  /\ \/ queues' = queues \cup {Queue(c)}
     \/ sub'[c] = "rejected" /\ UNCHANGED queues
  /\ UNCHANGED <<topics, policy, subscribed, arnCache>> /\ OnSetUp

-----------------------------------------------------------------------------
(* The other requests of subscribe *)

GetQueueArnOnly(c) ==
  /\ Step(c, "arn", "subscribe") \/ Rejects(c, "arn")
  /\ UNCHANGED <<setUp, caches>> /\ OnSetUp

GetQueueArn(c) ==
  /\ Step(c, "arn", "policy") \/ Rejects(c, "arn")
  /\ UNCHANGED <<setUp, caches>> /\ OnSetUp

(* The policy names one topic, and replaces what the queue had. *)
SetQueuePolicy(c) ==
  /\ Step(c, "policy", "subscribe") \/ Rejects(c, "policy")
  /\ \/ policy' = [policy EXCEPT ![Queue(c)] = c[2]]
     \/ sub'[c] = "rejected" /\ UNCHANGED policy
  /\ UNCHANGED <<topics, queues, subscribed, caches>> /\ OnSetUp

(* Subscribe, with RawMessageDelivery, and the same attribute once more *)
EnsureSubscription(c) ==
  /\ \/ /\ Step(c, "subscribe", "attributes") \/ Rejects(c, "subscribe")
        /\ \/ subscribed' = subscribed \cup {<<c[2], Queue(c)>>}
           \/ sub'[c] = "rejected" /\ UNCHANGED subscribed
     \/ /\ Step(c, "attributes", "poll") \/ Rejects(c, "attributes")
        /\ UNCHANGED subscribed
  /\ UNCHANGED <<topics, queues, policy, caches>> /\ OnSetUp

-----------------------------------------------------------------------------
(* publish(topic, msg, opts) and SNS *)

PubStep(b, m, from, to) == pub[b][m] = from /\ pub' = [pub EXCEPT ![b][m] = to]

OnPublish == UNCHANGED <<queues, policy, subscribed, copy, urlCache, sub, polling, stopped>>

PublishCall(b, m) ==
  /\ m \notin Enveloped /\ \A d \in Brokers \ {b} : pub[d][m] = "idle"
  /\ PubStep(b, m, "idle", IF Topic[m] \in arnCache[b] THEN "sending" ELSE "topic")
  /\ joined' = [joined EXCEPT ![m] =
       {c \in Calls : c[2] = Topic[m] /\ sub[c] \in Polling}]
  /\ UNCHANGED <<topics, delivery, arnCache>> /\ OnPublish

PublishTopic(b, m, ensure) ==
  /\ Ensures(ensure)
  /\ \/ /\ ensure /\ CreateTopic(Topic[m])
        /\ \/ PubStep(b, m, "topic", "sending") /\ CacheArn(b, Topic[m])
           \/ NetworkFails /\ PubStep(b, m, "topic", "rejected") /\ UNCHANGED arnCache
     \/ /\ ~ensure \/ NetworkFails
        /\ PubStep(b, m, "topic", "rejected") /\ UNCHANGED <<topics, arnCache>>
  /\ UNCHANGED <<delivery, joined>> /\ OnPublish

PublishSend(b, m) ==
  /\ \/ PubStep(b, m, "sending", "resolved")
     \/ NetworkFails /\ PubStep(b, m, "sending", "rejected")
  /\ \/ transit' = transit \cup {<<m, s[2]>> : s \in {r \in subscribed : r[1] = Topic[m]}}
     \/ pub'[b][m] = "rejected" /\ UNCHANGED transit
  /\ UNCHANGED <<topics, refused, joined, arnCache>> /\ OnPublish

OnService == UNCHANGED <<setUp, caches, publishing, sub, polling, stopped>>

(* SQS refuses a message of a topic the policy does not name, and SNS does not
   try again. *)
Deliver(m, n) ==
  /\ <<m, n>> \in transit /\ transit' = transit \ {<<m, n>>}
  /\ IF policy[n] = Topic[m]
       THEN copy' = [copy EXCEPT ![n][m] = "visible"] /\ UNCHANGED refused
       ELSE refused' = refused \cup {<<m, n>>} /\ UNCHANGED copy
  /\ OnService

EnvelopedSend(m, n) ==
  /\ m \in Enveloped /\ n \in queues /\ copy[n][m] = "none"
  /\ copy' = [copy EXCEPT ![n][m] = "visible"]
  /\ OnService /\ UNCHANGED delivery

InHand(m, n) ==
  \E c \in Calls : Queue(c) = n /\ (Contains(batch[c], m) \/ m \in deletes[c])

VisibilityTimeout(m, n) ==
  /\ copy[n][m] = "inflight" /\ (InHand(m, n) => "timeout" \in Environment)
  /\ copy' = [copy EXCEPT ![n][m] = "visible"]
  /\ OnService /\ UNCHANGED delivery

-----------------------------------------------------------------------------
(* The poll loop *)

(* The process ends, and another starts with empty caches. *)
Ends(b) ==
  LET Own == {c \in Calls : Broker(c) = b} IN
  /\ sub' = [c \in Calls |-> IF c \in Own THEN "idle" ELSE sub[c]]
  /\ batch' = [c \in Calls |-> IF c \in Own THEN <<>> ELSE batch[c]]
  /\ deletes' = [c \in Calls |-> IF c \in Own THEN {} ELSE deletes[c]]
  /\ pub' = [pub EXCEPT ![b] = [m \in Messages |->
               IF @[m] \in {"topic", "sending"} THEN "rejected" ELSE @[m]]]
  /\ arnCache' = [arnCache EXCEPT ![b] = {}] /\ urlCache' = [urlCache EXCEPT ![b] = {}]
  /\ stopped' = stopped \ {b}
  /\ UNCHANGED <<setUp, delivery, joined, settled>>

Crash(b) == "crash" \in Environment /\ Ends(b) /\ UNCHANGED copy

Close(b) ==
  /\ b \in Closers /\ stopped' = stopped \cup {b}
  /\ UNCHANGED <<setUp, delivery, copy, caches, publishing, sub, polling>>

InLoop == UNCHANGED <<setUp, delivery, caches, publishing, stopped>>

AfterRound(c) == IF Broker(c) \in stopped THEN "ended" ELSE "poll"

Poll(c) ==
  /\ Step(c, "poll", IF Broker(c) \in stopped THEN "ended" ELSE "receiving")
  /\ InLoop /\ UNCHANGED <<copy, polling>>

Visible(n) == {m \in Messages : copy[n][m] = "visible"}

(* At most MaxMessages of the visible messages, in any order, or a failure *)
Receive(c) ==
  LET n == Queue(c) IN
  /\ \E S \in SUBSET Visible(n) :
       /\ Cardinality(S) <= MaxMessages
       /\ S = {} => Visible(n) = {} \/ NetworkFails
       /\ \E order \in SetToSeqs(S) : batch' = [batch EXCEPT ![c] = order]
       /\ copy' = [copy EXCEPT ![n] = [m \in Messages |->
                     IF m \in S THEN "inflight" ELSE @[m]]]
       /\ Step(c, "receiving", IF S = {} THEN AfterRound(c) ELSE "parsing")
  /\ InLoop /\ UNCHANGED <<deletes, settled>>

First(c) == Head(batch[c])

(* Raw delivery leaves the envelope away, but the parser looks for it. *)
Parses(m) == m \in Enveloped

RoundBroken(c, next) ==
  /\ Step(c, "parsing", next) /\ ~Parses(First(c))
  /\ batch' = [batch EXCEPT ![c] = <<>>]
  /\ InLoop /\ UNCHANGED <<copy, deletes, settled>>

ParseFailureEndsLoop(c) == RoundBroken(c, "ended")

(* The exception leaves the rest of the batch to the visibility timeout. *)
ParseFailure(c) == RoundBroken(c, AfterRound(c))

HandlerStart(c) ==
  /\ Step(c, "parsing", "handling") /\ Parses(First(c))
  /\ InLoop /\ UNCHANGED <<copy, polling>>

(* ack: the request is sent, nobody awaits it. *)
Ack(c) ==
  /\ deletes' = [deletes EXCEPT ![c] = @ \cup {First(c)}]
  /\ settled' = settled \cup {<<First(c), Queue(c)>>}

NackDeletes(c) ==
  deletes' = [deletes EXCEPT ![c] = @ \cup {First(c)}] /\ UNCHANGED settled

(* nack does nothing. *)
Nack(c) == UNCHANGED <<deletes, settled>>

HandlerCall(c, call) ==
  /\ \E end \in {"return", "throw"} : <<call, end>> \in Outcomes
  /\ Step(c, "handling", call)
  /\ IF call = "ack" THEN Ack(c) ELSE Nack(c)
  /\ InLoop /\ UNCHANGED <<copy, batch>>

HandlerEnds(c, end) ==
  /\ \E call \in {"none", "ack", "nack"} :
       /\ <<call, end>> \in Outcomes
       /\ Step(c, IF call = "none" THEN "handling" ELSE call,
               IF Len(batch[c]) > 1 THEN "parsing" ELSE AfterRound(c))
  /\ batch' = [batch EXCEPT ![c] = Tail(@)]
  /\ InLoop /\ UNCHANGED copy

HandlerReturn(c) == HandlerEnds(c, "return") /\ Ack(c)
HandlerThrow(c) == HandlerEnds(c, "throw") /\ Nack(c)

(* A receipt that has run out may or may not do. A failure is an unhandled
   rejection: the process ends. *)
DeleteMessage(c, m) ==
  /\ m \in deletes[c]
  /\ \/ copy' = [copy EXCEPT ![Queue(c)][m] = "deleted"]
     \/ Environment \cap {"timeout", "network"} # {} /\ UNCHANGED copy
  /\ \/ /\ copy' = copy => "timeout" \in Environment \/ copy[Queue(c)][m] = "deleted"
        /\ deletes' = [deletes EXCEPT ![c] = @ \ {m}]
        /\ InLoop /\ UNCHANGED <<sub, batch, settled>>
     \/ NetworkFails /\ Ends(Broker(c))

-----------------------------------------------------------------------------
Subscribe(c) ==
  \/ SubscribeCall(c) \/ CreateQueue(c)
  \/ \E ensure \in BOOLEAN : EnsureTopic(c, ensure) \/ LookUpQueue(c, ensure)
  \/ GetQueueArn(c) \/ SetQueuePolicy(c) \/ EnsureSubscription(c)

Publish(b, m) ==
  \/ PublishCall(b, m) \/ PublishSend(b, m)
  \/ \E ensure \in BOOLEAN : PublishTopic(b, m, ensure)

Loop(c) ==
  \/ Poll(c) \/ Receive(c) \/ ParseFailure(c) \/ HandlerStart(c)
  \/ \E call \in {"ack", "nack"} : HandlerCall(c, call)
  \/ HandlerReturn(c) \/ HandlerThrow(c)

Next ==
  \/ \E c \in Calls :
       Subscribe(c) \/ Loop(c) \/ \E m \in deletes[c] : DeleteMessage(c, m)
  \/ \E b \in Brokers : Crash(b) \/ Close(b) \/ \E m \in Messages : Publish(b, m)
  \/ \E m \in Messages, n \in Names :
       Deliver(m, n) \/ EnvelopedSend(m, n) \/ VisibilityTimeout(m, n)

Spec == Init /\ [][Next]_vars

(* The event loop and the services keep working, handlers that have been
   entered end, visibility timeouts run out. *)
Fairness ==
  /\ \A c \in Calls :
       WF_vars(Loop(c)) /\ WF_vars(\E m \in deletes[c] : DeleteMessage(c, m))
  /\ \A m \in Messages, n \in Names :
       WF_vars(Deliver(m, n)) /\ WF_vars(VisibilityTimeout(m, n))

FairSpec == Spec /\ Fairness

-----------------------------------------------------------------------------
(* Properties *)

(* When publish resolves, every group whose subscribe had resolved before the
   call gets a copy, or its queue has refused one: whichever of the six requests
   failed before, in whichever process, and whatever the caches skipped when the
   call was repeated. *)
ResolvedReachesJoined ==
  \A b \in Brokers, m \in Messages : pub[b][m] = "resolved" =>
    \A c \in joined[m] :
      \/ <<m, Queue(c)>> \in transit \cup refused
      \/ copy[Queue(c)][m] # "none"

(* A queue that is subscribed to a topic admits that topic, or one with a similar
   name: "." and "-" are the same in a queue's name, so that two topics may share
   a queue, whose policy names the one that has subscribed last. So nothing else
   makes SQS refuse what SNS delivers, also when a set-up has failed half-way. *)
SubscribedIsAllowed ==
  \A s \in subscribed :
    policy[s[2]] = s[1] \/ \E c \in Calls : Queue(c) = s[2] /\ c[2] = policy[s[2]]

(* A message leaves its queue only when a handler has acked it or returned: not
   with a batch that breaks, a timeout, a close or a crash. *)
LeavesByAck ==
  \A m \in Messages, n \in Names : copy[n][m] = "deleted" => <<m, n>> \in settled

(* No message or failed request ends a poll loop, least of all a body that does
   not parse, which is every body the adapter has published: a loop ends when the
   broker has been closed, or with its process. *)
LoopEndsByClose ==
  [][\A c \in Calls :
       sub[c] \in Polling /\ sub'[c] = "ended" => Broker(c) \in stopped]_vars

-----------------------------------------------------------------------------
(* What the documentation says and the code does not do *)

Handles(c, m) == sub[c] = "handling" /\ First(c) = m

(* "All the groups subscribed to that topic will receive a copy of the message,
   and within each group, only one consumer will handle the message." *)
CopyIsHandled ==
  \A c \in Calls, m \in Messages :
    (copy[Queue(c)][m] = "visible" /\ sub[c] \in Polling)
      ~> (Handles(c, m) \/ sub[c] \notin Polling)
=============================================================================
