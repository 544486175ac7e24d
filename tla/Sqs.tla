-------------------------------- MODULE Sqs --------------------------------
(***************************************************************************)
(* The SQS adapter (packages/aws_sqs/src/index.ts) on one topic: brokers   *)
(* of several processes and regions, the cache of queue URLs that all the  *)
(* brokers of a process share, the poll loops that subscribe starts, and   *)
(* the SQS service.                                                        *)
(*                                                                         *)
(* A queue URL stands for the region it was looked up in. Every request is *)
(* awaited (a step starts it, another answers) but the DeleteMessage of    *)
(* ack, whose promise nobody awaits. A copy in a queue is invisible from   *)
(* its receipt until the visibility timeout; each receipt has its own      *)
(* handle. The timeouts of a batch run while its messages are handled one  *)
(* after the other. A network failure rejects a request, which may have    *)
(* had its effect.                                                         *)
(***************************************************************************)
EXTENDS Naturals, Sequences, FiniteSets, SequencesExt

CONSTANTS
  Brokers, Processes, Regions,
  Process,        \* Process[b]: where broker b was created
  Region,         \* Region[b]: its SqsConfig.region (or endpoint)
  Groups,         \* createOptions.groupNames
  Subscribers,    \* <<b, g>>: the calls of subscribe that the application makes
  Messages,
  Malformed,      \* messages of other producers, whose Body is not JSON
  Prios,          \* values of opts.prio
  MaxMessages,    \* SqsConfig.maxMessages
  Outcomes,       \* what a handler may do: <<call or "none", way to end>>
  Environment,    \* what may happen besides calls and handlers
  NoUrl,
  MaxCopies,      \* bound: messages ever sent to one queue
  MaxReceipts     \* bound: receipts of one copy

(* A visibility timeout runs out under a handler ("timeout"), or under a copy that
   waits for its turn in a batch or for its delete ("waiting"). *)
Events == {"close", "network", "timeout", "waiting", "unensured", "deleted", "retry"}

ASSUME SqsAssumption ==
  /\ Process \in [Brokers -> Processes] /\ Region \in [Brokers -> Regions]
  /\ Subscribers \subseteq Brokers \X Groups
  /\ Malformed \subseteq Messages /\ Prios \subseteq Nat
  /\ MaxMessages \in Nat \ {0} /\ NoUrl \notin Regions
  /\ Outcomes \subseteq {"none", "ack", "nack"} \X {"return", "throw"}
  /\ Environment \subseteq Events
  /\ MaxCopies \in Nat /\ MaxReceipts \in Nat

VARIABLES
  alive,        \* processes that run
  stopped,      \* brokers whose close has been called
  urlCache,     \* urlCache[p][g]: the URL cached for the queue of group g
  exists,       \* <<region, group>> of the queues there are
  queue,        \* queue[q][i]: the i-th message sent to queue q
  pub,          \* pub[b][m]: the call publish(topic, m) of b
  send,         \* send[b][m][g]: its part for group g
  target,       \* target[b][m][g]: the URL that part sends to
  sub,          \* sub[b][g]: subscribe of b for g, then its poll loop
  source,       \* source[b][g]: the URL the loop polls
  batch,        \* batch[b][g]: handles received and not yet handled
  expired,      \* expired[b][g]: those of batch[b][g] whose visibility timeout has run out
  settled,      \* <<queue, copy>> for which a handler has called ack or has returned
  deletes       \* deletes[b]: handles whose DeleteMessage is under way

service == <<exists, queue>>
publishing == <<pub, send, target>>
polling == <<sub, source, batch, expired>>
settling == <<settled, deletes>>
vars == <<alive, stopped, urlCache, service, publishing, polling, settling>>

Queues == Regions \X Groups
Copies == [msg : Messages, prio : Prios \cup {0}, receipt : 0..MaxReceipts,
           state : {"delayed", "visible", "inflight", "deleted", "gone"}]
Handles ==
  [queue : Queues, copy : 1..MaxCopies, receipt : 1..MaxReceipts, msg : Messages]

TypeOK ==
  /\ alive \subseteq Processes /\ stopped \subseteq Brokers
  /\ urlCache \in [Processes -> [Groups -> Regions \cup {NoUrl}]]
  /\ exists \subseteq Queues
  /\ queue \in [Queues -> Seq(Copies)]
  /\ pub \in [Brokers -> [Messages -> {"idle", "pending", "resolved", "rejected"}]]
  /\ send \in [Brokers -> [Messages -> [Groups ->
                {"idle", "lookup", "create", "sending", "sent", "failed"}]]]
  /\ target \in [Brokers -> [Messages -> [Groups -> Regions]]]
  /\ sub \in [Brokers -> [Groups -> {"idle", "lookup", "create", "poll",
                "receiving", "parsing", "handling", "ack", "nack", "ended", "rejected"}]]
  /\ source \in [Brokers -> [Groups -> Regions]]
  /\ batch \in [Brokers -> [Groups -> Seq(Handles)]]
  /\ settled \subseteq Queues \X (1..MaxCopies)
  /\ deletes \in [Brokers -> SUBSET Handles]
  /\ \A b \in Brokers, g \in Groups :
       /\ Len(batch[b][g]) <= MaxMessages
       /\ expired[b][g] \subseteq ToSet(batch[b][g])
       /\ batch[b][g] # <<>> <=> sub[b][g] \in {"parsing", "handling", "ack", "nack"}

Init ==
  /\ alive = Processes /\ stopped = {}
  /\ urlCache = [p \in Processes |-> [g \in Groups |-> NoUrl]]
  /\ exists = {} /\ queue = [q \in Queues |-> <<>>]
  /\ pub = [b \in Brokers |-> [m \in Messages |-> "idle"]]
  /\ send = [b \in Brokers |-> [m \in Messages |-> [g \in Groups |-> "idle"]]]
  /\ target = [b \in Brokers |-> [m \in Messages |-> [g \in Groups |-> Region[b]]]]
  /\ sub = [b \in Brokers |-> [g \in Groups |-> "idle"]]
  /\ source = [b \in Brokers |-> [g \in Groups |-> Region[b]]]
  /\ batch = [b \in Brokers |-> [g \in Groups |-> <<>>]]
  /\ expired = [b \in Brokers |-> [g \in Groups |-> {}]]
  /\ settled = {} /\ deletes = [b \in Brokers |-> {}]

Alive(b) == Process[b] \in alive
NetworkFails == "network" \in Environment

-----------------------------------------------------------------------------
(* ensureQueue *)

Cached(b, g) == urlCache[Process[b]][g]

CacheUrl(b, g) == urlCache' = [urlCache EXCEPT ![Process[b]][g] = Region[b]]

(* The answer to the request that ensureQueue awaits, and what comes next. A
   GetQueueUrl that fails, for whatever reason, is taken for a missing queue. *)
EnsureAnswer(b, g, ensure, request, next) ==
  LET q == <<Region[b], g>> IN
  \/ /\ request = "lookup" /\ q \in exists
     /\ next = "found" /\ CacheUrl(b, g) /\ UNCHANGED exists
  \/ /\ request = "lookup" /\ (q \notin exists \/ NetworkFails)
     /\ next = (IF ensure THEN "create" ELSE "missing") /\ UNCHANGED <<urlCache, exists>>
  \/ /\ request = "create"
     /\ next = "found" /\ CacheUrl(b, g) /\ exists' = exists \cup {q}
  \/ /\ request = "create" /\ NetworkFails
     /\ next = "missing" /\ exists' \in {exists, exists \cup {q}} /\ UNCHANGED urlCache

-----------------------------------------------------------------------------
(* publish(topic, msg, opts): ensure and groupNames are required. *)

PartEnded(b, m) == \A g \in Groups : send[b][m][g] \in {"idle", "sent", "failed"}

(* Up to the first await of every part. *)
PublishCall(b, m) ==
  /\ Alive(b) /\ m \notin Malformed /\ PartEnded(b, m)
  /\ \A d \in Brokers \ {b} : pub[d][m] = "idle"
  /\ pub[b][m] = "idle" \/ (pub[b][m] = "rejected" /\ "retry" \in Environment)
  /\ pub' = [pub EXCEPT ![b][m] = "pending"]
  /\ send' = [send EXCEPT ![b][m] = [g \in Groups |->
                IF Cached(b, g) = NoUrl THEN "lookup" ELSE "sending"]]
  /\ target' = [target EXCEPT ![b][m] = [g \in Groups |->
                  IF Cached(b, g) = NoUrl THEN Region[b] ELSE Cached(b, g)]]
  /\ UNCHANGED <<alive, stopped, urlCache, service, polling, settling>>

PublishEnsure(b, m, g) ==
  /\ Alive(b)
  /\ \E next \in {"found", "create", "missing"} :
       /\ EnsureAnswer(b, g, TRUE, send[b][m][g], next)
       /\ send' = [send EXCEPT ![b][m][g] =
                     [found |-> "sending", create |-> "create", missing |-> "failed"][next]]
  /\ UNCHANGED <<alive, stopped, queue, pub, target, polling, settling>>

NewCopy(m, prio) ==
  [msg |-> m, prio |-> prio, receipt |-> 0,
   state |-> IF prio = 0 THEN "visible" ELSE "delayed"]

Store(q, m, prio) ==
  /\ Len(queue[q]) < MaxCopies
  /\ queue' = [queue EXCEPT ![q] = Append(@, NewCopy(m, prio))]

SendMessageQuiet(b, m, g, prio) ==
  LET q == <<target[b][m][g], g>> IN
  /\ Alive(b) /\ send[b][m][g] = "sending"
  /\ \/ q \in exists /\ Store(q, m, prio)
     \/ (q \notin exists \/ NetworkFails) /\ UNCHANGED queue
  /\ send' = [send EXCEPT ![b][m][g] = "sent"]
  /\ UNCHANGED <<alive, stopped, urlCache, exists, pub, target, polling, settling>>

(* SendMessage: DelaySeconds is opts.prio. A network that loses the answer
   rejects a message that is stored. *)
SendMessage(b, m, g, prio) ==
  LET q == <<target[b][m][g], g>> IN
  /\ Alive(b) /\ send[b][m][g] = "sending"
  /\ \/ q \in exists /\ Store(q, m, prio)
     \/ (q \notin exists \/ NetworkFails) /\ UNCHANGED queue
  /\ \E result \in {"sent", "failed"} :
       /\ result = "failed" => queue' = queue \/ NetworkFails
       /\ result = "sent" => queue' # queue
       /\ send' = [send EXCEPT ![b][m][g] = result]
  /\ UNCHANGED <<alive, stopped, urlCache, exists, pub, target, polling, settling>>

PublishDoneAny(b, m) ==
  /\ Alive(b) /\ pub[b][m] = "pending"
  /\ \/ /\ \E g \in Groups : send[b][m][g] = "sent"
        /\ pub' = [pub EXCEPT ![b][m] = "resolved"]
     \/ /\ \E g \in Groups : send[b][m][g] = "failed"
        /\ pub' = [pub EXCEPT ![b][m] = "rejected"]
  /\ UNCHANGED <<alive, stopped, urlCache, service, send, target, polling, settling>>

(* Promise.all: resolved with the last part, rejected with the first failure,
   while the other parts go on. *)
PublishDone(b, m) ==
  /\ Alive(b) /\ pub[b][m] = "pending"
  /\ \/ /\ \A g \in Groups : send[b][m][g] = "sent"
        /\ pub' = [pub EXCEPT ![b][m] = "resolved"]
     \/ /\ \E g \in Groups : send[b][m][g] = "failed"
        /\ pub' = [pub EXCEPT ![b][m] = "rejected"]
  /\ UNCHANGED <<alive, stopped, urlCache, service, send, target, polling, settling>>

ForeignSend(q, m) ==
  /\ m \in Malformed /\ q \in exists
  /\ ~\E i \in 1..Len(queue[q]) : queue[q][i].msg = m
  /\ Store(q, m, 0)
  /\ UNCHANGED <<alive, stopped, urlCache, exists, publishing, polling, settling>>

-----------------------------------------------------------------------------
(* The service *)

SetState(q, i, state) == queue' = [queue EXCEPT ![q][i].state = state]

OnService == UNCHANGED <<alive, stopped, urlCache, exists, publishing, polling, settling>>

DelayEnds(q, i) ==
  queue[q][i].state = "delayed" /\ SetState(q, i, "visible") /\ OnService

(* The handles of a copy that a loop has in its batch. *)
InHand(q, i) ==
  {h \in UNION {ToSet(batch[b][g]) : b \in Brokers, g \in Groups} :
     h.queue = q /\ h.copy = i}

Handled(q, i) ==
  \E b \in Brokers, g \in Groups :
    sub[b][g] \in {"handling", "ack", "nack"} /\ Head(batch[b][g]) \in InHand(q, i)

BeingDeleted(q, i) == \E b \in Brokers : \E h \in deletes[b] : h.queue = q /\ h.copy = i

(* A copy comes back when nobody has it, and else only if the timeout runs out
   under a handler, or under a copy that waits. *)
VisibilityTimeout(q, i) ==
  /\ queue[q][i].state = "inflight"
  /\ \/ InHand(q, i) = {} /\ ~BeingDeleted(q, i)
     \/ "timeout" \in Environment /\ Handled(q, i)
     \/ "waiting" \in Environment /\ ~Handled(q, i)
  /\ SetState(q, i, "visible")
  /\ expired' = [b \in Brokers |-> [g \in Groups |->
                   expired[b][g] \cup (InHand(q, i) \cap ToSet(batch[b][g]))]]
  /\ UNCHANGED <<alive, stopped, urlCache, exists, publishing, sub, source, batch, settling>>

Lose(copy) == IF copy.state = "deleted" THEN copy ELSE [copy EXCEPT !.state = "gone"]

(* Somebody deletes the queue with what is in it; the cache keeps its URL. *)
QueueDeleted(q) ==
  /\ "deleted" \in Environment /\ q \in exists
  /\ exists' = exists \ {q}
  /\ queue' = [queue EXCEPT ![q] = [i \in DOMAIN @ |-> Lose(@[i])]]
  /\ UNCHANGED <<alive, stopped, urlCache, publishing, polling, settling>>

StillThere(h) == h.queue \in exists /\ queue[h.queue][h.copy].state # "gone"

Forgotten ==
  expired' = [b \in Brokers |-> [g \in Groups |-> expired[b][g] \cap ToSet(batch'[b][g])]]

(* DeleteMessage. The handle of an older receipt may or may not do; a failure,
   also of a request that has had its effect, is an unhandled rejection, which ends
   the process. *)
DeleteMessage(b, h) ==
  /\ h \in deletes[b]
  /\ \/ /\ StillThere(h) /\ SetState(h.queue, h.copy, "deleted")
        /\ deletes' = [deletes EXCEPT ![b] = @ \ {h}]
        /\ UNCHANGED <<alive, sub, batch, expired>>
     \/ /\ StillThere(h) /\ queue[h.queue][h.copy].receipt # h.receipt
        /\ deletes' = [deletes EXCEPT ![b] = @ \ {h}]
        /\ UNCHANGED <<alive, queue, sub, batch, expired>>
     \/ /\ \/ NetworkFails /\ StillThere(h) /\ SetState(h.queue, h.copy, "deleted")
           \/ (NetworkFails \/ ~StillThere(h)) /\ UNCHANGED queue
        /\ deletes' = [deletes EXCEPT ![b] = @ \ {h}]
        /\ alive' = alive \ {Process[b]}
        /\ sub' = [d \in Brokers |-> IF Process[d] = Process[b]
                     THEN [g \in Groups |-> "ended"] ELSE sub[d]]
        /\ batch' = [d \in Brokers |-> IF Process[d] = Process[b]
                       THEN [g \in Groups |-> <<>>] ELSE batch[d]]
        /\ Forgotten
  /\ UNCHANGED <<stopped, urlCache, exists, publishing, source, settled>>

-----------------------------------------------------------------------------
(* subscribe(topic, handler, group, opts) and the poll loop *)

SubStep(b, g, from, to) ==
  Alive(b) /\ sub[b][g] = from /\ sub' = [sub EXCEPT ![b][g] = to]

SubscribeCall(b, g) ==
  /\ <<b, g>> \in Subscribers
  /\ \/ /\ Cached(b, g) = NoUrl /\ SubStep(b, g, "idle", "lookup")
        /\ UNCHANGED source
     \/ /\ Cached(b, g) # NoUrl /\ SubStep(b, g, "idle", "poll")
        /\ source' = [source EXCEPT ![b][g] = Cached(b, g)]
  /\ UNCHANGED <<alive, stopped, urlCache, service, publishing, batch, expired, settling>>

SubscribeEnsure(b, g, ensure) ==
  /\ Alive(b) /\ (ensure \/ "unensured" \in Environment)
  /\ \E next \in {"found", "create", "missing"} :
       /\ EnsureAnswer(b, g, ensure, sub[b][g], next)
       /\ sub' = [sub EXCEPT ![b][g] =
                    [found |-> "poll", create |-> "create", missing |-> "rejected"][next]]
  /\ UNCHANGED <<alive, stopped, queue, publishing, source, batch, expired, settling>>

(* close: the loops see the flag when they start their next round. *)
Close(b) ==
  /\ "close" \in Environment /\ Alive(b) /\ b \notin stopped
  /\ stopped' = stopped \cup {b}
  /\ UNCHANGED <<alive, urlCache, service, publishing, polling, settling>>

(* A round begins: with subscribe, or with the timer set by the round before. *)
Poll(b, g) ==
  /\ SubStep(b, g, "poll", IF b \in stopped THEN "ended" ELSE "receiving")
  /\ UNCHANGED <<alive, stopped, urlCache, service, publishing, source, batch, expired, settling>>

AfterRound(b) == IF b \in stopped THEN "ended" ELSE "poll"

Receivable(q) ==
  {i \in 1..Len(queue[q]) : queue[q][i].state = "visible" /\ queue[q][i].receipt < MaxReceipts}

NotHidden(copy) == [copy EXCEPT !.receipt = @ + 1]

(* The request leaves VisibilityTimeout to the queue: a copy handed out is
   invisible, and has a new receipt handle. *)
Received(copy) == [copy EXCEPT !.state = "inflight", !.receipt = @ + 1]

(* ReceiveMessage hands out at most MaxMessages visible copies. *)
HandOut(q, S) ==
  /\ S \subseteq Receivable(q) /\ Cardinality(S) <= MaxMessages
  /\ queue' = [queue EXCEPT ![q] = [i \in DOMAIN @ |->
                 IF i \in S THEN Received(@[i]) ELSE @[i]]]

Receive(b, g) ==
  LET q == <<source[b][g], g>> IN
  /\ \E S \in SUBSET Receivable(q) :
       /\ HandOut(q, S) /\ (S = {} => Receivable(q) = {})
       /\ \E order \in SetToSeqs(S) :
            batch' = [batch EXCEPT ![b][g] = [n \in DOMAIN order |->
                        [queue |-> q, copy |-> order[n], msg |-> queue[q][order[n]].msg,
                         receipt |-> queue[q][order[n]].receipt + 1]]]
       /\ SubStep(b, g, "receiving", IF S = {} THEN AfterRound(b) ELSE "parsing")
  /\ UNCHANGED <<alive, stopped, urlCache, exists, publishing, source, expired, settling>>

(* The request fails: what it has handed out, nobody has. *)
ReceiveFails(b, g) ==
  /\ NetworkFails /\ SubStep(b, g, "receiving", AfterRound(b))
  /\ \E S \in SUBSET Receivable(<<source[b][g], g>>) : HandOut(<<source[b][g], g>>, S)
  /\ UNCHANGED <<alive, stopped, urlCache, exists, publishing, source, batch, expired, settling>>

Handle(b, g) == Head(batch[b][g])

InLoop(b, g) ==
  UNCHANGED <<alive, stopped, urlCache, service, publishing, source>>

ParseFailureEndsLoop(b, g) ==
  /\ batch[b][g] # <<>> /\ Handle(b, g).msg \in Malformed
  /\ SubStep(b, g, "parsing", "ended")
  /\ batch' = [batch EXCEPT ![b][g] = <<>>] /\ Forgotten
  /\ InLoop(b, g) /\ UNCHANGED settling

(* JSON.parse throws to the catch of the whole round: the rest of the batch is
   left to the visibility timeout. *)
ParseFailure(b, g) ==
  /\ batch[b][g] # <<>> /\ Handle(b, g).msg \in Malformed
  /\ SubStep(b, g, "parsing", AfterRound(b))
  /\ batch' = [batch EXCEPT ![b][g] = <<>>] /\ Forgotten
  /\ InLoop(b, g) /\ UNCHANGED settling

HandlerStart(b, g) ==
  /\ batch[b][g] # <<>> /\ Handle(b, g).msg \notin Malformed
  /\ SubStep(b, g, "parsing", "handling")
  /\ InLoop(b, g) /\ UNCHANGED <<batch, expired, settling>>

AckUnsent(b, g) == UNCHANGED deletes

(* ack: the request is sent, nobody awaits it. *)
Ack(b, g) == deletes' = [deletes EXCEPT ![b] = @ \cup {Handle(b, g)}]

NackDeletes(b, g) == deletes' = [deletes EXCEPT ![b] = @ \cup {Handle(b, g)}]

(* nack does nothing, whatever its argument. *)
Nack(b, g) == UNCHANGED deletes

Settled(b, g) == settled' = settled \cup {<<Handle(b, g).queue, Handle(b, g).copy>>}

HandlerCall(b, g, call) ==
  /\ \E end \in {"return", "throw"} : <<call, end>> \in Outcomes
  /\ SubStep(b, g, "handling", call)
  /\ \/ call = "ack" /\ Ack(b, g) /\ Settled(b, g)
     \/ call = "nack" /\ Nack(b, g) /\ UNCHANGED settled
  /\ InLoop(b, g) /\ UNCHANGED <<batch, expired>>

HandlerEndsLate(b, g, end) ==
  /\ \E call \in {"none", "ack", "nack"} :
       /\ <<call, end>> \in Outcomes
       /\ SubStep(b, g, IF call = "none" THEN "handling" ELSE call,
                  IF Len(batch[b][g]) >= 1 THEN "parsing" ELSE AfterRound(b))
  /\ batch' = [batch EXCEPT ![b][g] = Tail(@)] /\ Forgotten
  /\ InLoop(b, g)

(* The handler ends, and the loop goes to the next message of the batch. *)
HandlerEnds(b, g, end) ==
  /\ \E call \in {"none", "ack", "nack"} :
       /\ <<call, end>> \in Outcomes
       /\ SubStep(b, g, IF call = "none" THEN "handling" ELSE call,
                  IF Len(batch[b][g]) > 1 THEN "parsing" ELSE AfterRound(b))
  /\ batch' = [batch EXCEPT ![b][g] = Tail(@)] /\ Forgotten
  /\ InLoop(b, g)

(* The handler returns: the adapter acks, also when the handler has nacked. *)
HandlerReturn(b, g) ==
  HandlerEnds(b, g, "return") /\ Ack(b, g) /\ Settled(b, g)

(* The handler throws: the adapter nacks. *)
HandlerThrow(b, g) ==
  HandlerEnds(b, g, "throw") /\ Nack(b, g) /\ UNCHANGED settled

-----------------------------------------------------------------------------
Publish(b, m) ==
  \/ PublishCall(b, m) \/ PublishDone(b, m)
  \/ \E g \in Groups :
       \/ PublishEnsure(b, m, g)
       \/ \E prio \in Prios : SendMessage(b, m, g, prio)

Subscribe(b, g) ==
  SubscribeCall(b, g) \/ \E ensure \in BOOLEAN : SubscribeEnsure(b, g, ensure)

Handler(b, g) ==
  \/ \E call \in {"ack", "nack"} : HandlerCall(b, g, call)
  \/ HandlerReturn(b, g) \/ HandlerThrow(b, g)

Loop(b, g) ==
  Poll(b, g) \/ Receive(b, g) \/ ReceiveFails(b, g) \/ ParseFailure(b, g) \/ HandlerStart(b, g) \/ Handler(b, g)

Service(q) ==
  \/ \E i \in 1..Len(queue[q]) : DelayEnds(q, i) \/ VisibilityTimeout(q, i)
  \/ QueueDeleted(q)
  \/ \E m \in Messages : ForeignSend(q, m)

Next ==
  \/ \E b \in Brokers :
       \/ Close(b)
       \/ \E m \in Messages : Publish(b, m)
       \/ \E g \in Groups : Subscribe(b, g) \/ Loop(b, g)
       \/ \E h \in deletes[b] : DeleteMessage(b, h)
  \/ \E q \in Queues : Service(q)

Spec == Init /\ [][Next]_vars

(* The event loop and the service keep working, handlers that have been entered
   end, visibility timeouts and delays run out. *)
Fairness ==
  /\ \A b \in Brokers, g \in Groups : WF_vars(Loop(b, g))
  /\ \A b \in Brokers : WF_vars(\E h \in deletes[b] : DeleteMessage(b, h))
  /\ \A q \in Queues, i \in 1..MaxCopies :
       /\ WF_vars(i \in DOMAIN queue[q] /\ DelayEnds(q, i))
       /\ WF_vars(i \in DOMAIN queue[q] /\ InHand(q, i) = {} /\ VisibilityTimeout(q, i))

FairSpec == Spec /\ Fairness

-----------------------------------------------------------------------------
(* Properties *)

(* When publish resolves, each of the groups has a copy, whatever lookups,
   creations and sends have failed, raced or been answered from the cache, and
   also when the call is a retry of one that failed half-way. *)
ResolvedReachesAll ==
  \A b \in Brokers, m \in Messages : pub[b][m] = "resolved" =>
    \A g \in Groups : \E i \in 1..MaxCopies :
      /\ i <= Len(queue[<<target[b][m][g], g>>])
      /\ queue[<<target[b][m][g], g>>][i].msg = m

(* A copy leaves its queue only after a handler has acked it under one of its
   receipts, or has returned: throws, unparsable neighbours in the batch, failed
   requests, timeouts and closes keep it. A return counts whatever the handler has
   called: after nack(true) and a return the adapter's own ack deletes the copy that
   the interface (core:18) and nack's comment leave to redelivery. *)
DeletedByAckOrReturn ==
  \A q \in Queues : \A i \in DOMAIN queue[q] :
    queue[q][i].state = "deleted" => <<q, i>> \in settled

(* Two loops have the same copy in hand only when a visibility timeout has run out
   while one of them had it: under its handler, or while the copy waited for its
   turn in the batch. *)
OneLoopPerCopy ==
  \A b, d \in Brokers, g, k \in Groups :
    \A h \in ToSet(batch[b][g]), j \in ToSet(batch[d][k]) :
      h.queue = j.queue /\ h.copy = j.copy /\ <<b, g>> # <<d, k>> =>
        h \in expired[b][g] \/ j \in expired[d][k]

(* No message, handler or failed request ends a poll loop: a round is always
   followed by another until the broker is closed or its process ends. *)
LoopGoesOn ==
  \A b \in Brokers, g \in Groups :
    sub[b][g] = "receiving" ~> (sub[b][g] = "poll" \/ b \in stopped \/ ~Alive(b))

IsState(q, i, state) == i \in DOMAIN queue[q] /\ queue[q][i].state = state

Polled(q) ==
  \E b \in Brokers : /\ source[b][q[2]] = q[1]
                     /\ sub[b][q[2]] \notin {"idle", "lookup", "create", "ended", "rejected"}

(* A copy that is visible while a loop polls its queue is deleted in the end,
   unless the last of these loops ends first: also when timeouts run out under it,
   loops compete for it, and the broker that has received it closes. *)
EventuallyDeleted ==
  \A q \in Queues, i \in 1..MaxCopies :
    (IsState(q, i, "visible") /\ Polled(q)) ~> (IsState(q, i, "deleted") \/ ~Polled(q))
=============================================================================
