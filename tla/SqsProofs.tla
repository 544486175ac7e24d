------------------------------ MODULE SqsProofs ------------------------------
(***************************************************************************)
(* What Sqs.tla's model of the SQS adapter guarantees for every number of  *)
(* brokers, processes, regions, groups and messages, every handler and     *)
(* every environment.                                                      *)
(***************************************************************************)
EXTENDS Sqs, FiniteSetTheorems, SequenceTheorems, TLAPS

(* What the constants are, one fact at a time. *)
LEMMA Bounds == MaxCopies \in Nat /\ MaxReceipts \in Nat /\ MaxMessages \in Nat \ {0}
  BY SqsAssumption

(* A broker runs in one of the processes and uses one of the regions. *)
LEMMA BrokerFact ==
  ASSUME NEW b \in Brokers
  PROVE  Process[b] \in Processes /\ Region[b] \in Regions
  BY SqsAssumption

(* A function on 1..n is a sequence. *)
LEMMA SeqFact ==
  ASSUME NEW S, NEW n \in Nat, NEW f \in [1..n -> S]
  PROVE  f \in Seq(S) /\ Len(f) = n /\ DOMAIN f = 1..n
  OBVIOUS

(* One entry of a table is replaced. *)
LEMMA EntryFact ==
  ASSUME NEW I, NEW J, NEW V, NEW f \in [I -> [J -> V]], NEW i \in I, NEW j \in J, NEW v \in V
  PROVE  /\ [f EXCEPT ![i][j] = v] \in [I -> [J -> V]]
         /\ \A x \in I, y \in J :
              [f EXCEPT ![i][j] = v][x][y] = IF x = i /\ y = j THEN v ELSE f[x][y]
  OBVIOUS

Typed == TypeOK /\ \A q \in Queues : Len(queue[q]) <= MaxCopies

(* The initial state has the types. *)
LEMMA InitTyped == Init => Typed
  <1> SUFFICES ASSUME Init PROVE Typed
    OBVIOUS
  <1> USE DEF Init
  <1>1. /\ queue \in [Queues -> Seq(Copies)]
        /\ batch \in [Brokers -> [Groups -> Seq(Handles)]]
    BY EmptySeq
  <1>2. \A b \in Brokers, g \in Groups :
          /\ Len(batch[b][g]) <= MaxMessages
          /\ batch[b][g] # <<>> <=> sub[b][g] \in {"parsing", "handling", "ack", "nack"}
    BY Bounds
  <1>3. \A q \in Queues : Len(queue[q]) <= MaxCopies
    BY Bounds
  <1>4. \A b \in Brokers : Region[b] \in Regions
    BY BrokerFact
  <1> QED
    BY <1>1, <1>2, <1>3, <1>4 DEF Typed, TypeOK

-----------------------------------------------------------------------------
(* Every loop that has the copy in hand takes note that its timeout has run out. *)
RunsOut(q, i) ==
  \A b \in Brokers, g \in Groups : \A h \in ToSet(batch[b][g]) :
    h.queue = q /\ h.copy = i => h \in expired'[b][g]

(* A loop forgets that a timeout has run out only with the handle itself. *)
Remembers ==
  \A b \in Brokers, g \in Groups :
    /\ expired'[b][g] \subseteq ToSet(batch'[b][g])
    /\ expired[b][g] \cap ToSet(batch'[b][g]) \subseteq expired'[b][g]

(* What a step does to the queues: they only grow, a copy stays a copy of the same
   message, and a copy is deleted or becomes visible again for a reason. *)
Evolves ==
  /\ queue' \in [Queues -> Seq(Copies)]
  /\ \A q \in Queues :
       /\ Len(queue[q]) <= Len(queue'[q]) /\ Len(queue'[q]) <= MaxCopies
       /\ \A i \in 1..Len(queue[q]) :
            /\ queue'[q][i].msg = queue[q][i].msg
            /\ queue'[q][i].state = "visible" =>
                 \/ queue[q][i].state \in {"delayed", "visible"}
                 \/ RunsOut(q, i)
            /\ queue'[q][i].state = "delayed" => queue[q][i].state = "delayed"
       /\ \A i \in 1..Len(queue'[q]) : queue'[q][i].state = "deleted" =>
            \/ i \in 1..Len(queue[q]) /\ queue[q][i].state = "deleted"
            \/ \E b \in Brokers : \E h \in deletes[b] : h.queue = q /\ h.copy = i

(* A queue is a sequence of copies. *)
LEMMA CopyFact ==
  ASSUME Typed, NEW q \in Queues
  PROVE  /\ queue[q] \in Seq(Copies) /\ Len(queue[q]) \in Nat
         /\ DOMAIN queue[q] = 1..Len(queue[q])
         /\ \A i \in 1..Len(queue[q]) : queue[q][i] \in Copies
  <1>1. queue[q] \in Seq(Copies)
    BY DEF Typed, TypeOK
  <1> QED
    BY <1>1, LenProperties, ElementOfSeq

(* Queues that do not change evolve in the sense of Evolves. *)
LEMMA SameEvolves ==
  ASSUME Typed, UNCHANGED queue
  PROVE  Evolves
  <1>1. \A q \in Queues : Len(queue[q]) \in Nat /\ Len(queue[q]) <= MaxCopies
    BY CopyFact DEF Typed
  <1> QED
    BY <1>1 DEF Evolves, Typed, TypeOK

(* The step replaces what queue q holds. *)
LEMMA OneEvolves ==
  ASSUME Typed, NEW q \in Queues, NEW s \in Seq(Copies), queue' = [queue EXCEPT ![q] = s],
         Len(queue[q]) <= Len(s), Len(s) <= MaxCopies,
         \A i \in 1..Len(queue[q]) :
           /\ s[i].msg = queue[q][i].msg
           /\ s[i].state = "visible" =>
                \/ queue[q][i].state \in {"delayed", "visible"}
                \/ RunsOut(q, i)
           /\ s[i].state = "delayed" => queue[q][i].state = "delayed",
         \A i \in 1..Len(s) : s[i].state = "deleted" =>
           \/ i \in 1..Len(queue[q]) /\ queue[q][i].state = "deleted"
           \/ \E b \in Brokers : \E h \in deletes[b] : h.queue = q /\ h.copy = i
  PROVE  Evolves
  <1>1. \A r \in Queues : queue'[r] = IF r = q THEN s ELSE queue[r]
    BY DEF Typed, TypeOK
  <1>2. queue' \in [Queues -> Seq(Copies)]
    BY DEF Typed, TypeOK
  <1>3. \A r \in Queues : Len(queue[r]) \in Nat /\ Len(queue[r]) <= MaxCopies
    BY CopyFact DEF Typed
  <1> QED
    BY <1>1, <1>2, <1>3 DEF Evolves

(* A stored message is one more copy at the end of its queue. *)
LEMMA StoreEvolves ==
  ASSUME Typed, NEW q \in Queues, NEW m \in Messages, NEW prio \in Prios \cup {0},
         Store(q, m, prio)
  PROVE  /\ Evolves
         /\ Len(queue'[q]) = Len(queue[q]) + 1
         /\ queue'[q][Len(queue[q]) + 1].msg = m
  <1> DEFINE s == Append(queue[q], NewCopy(m, prio))
             n == Len(queue[q])
  <1>1. NewCopy(m, prio) \in Copies /\ NewCopy(m, prio).msg = m /\ NewCopy(m, prio).state # "deleted"
    <2>1. 0 \in 0..MaxReceipts
      BY Bounds
    <2> QED
      BY <2>1 DEF NewCopy, Copies
  <1>2. queue[q] \in Seq(Copies) /\ n \in Nat
    BY CopyFact
  <1>3. /\ s \in Seq(Copies) /\ Len(s) = n + 1
        /\ \A i \in 1..n : s[i] = queue[q][i]
        /\ s[n + 1] = NewCopy(m, prio)
    BY <1>1, <1>2, AppendProperties
  <1>4. n < MaxCopies /\ queue' = [queue EXCEPT ![q] = s]
    BY DEF Store
  <1> HIDE DEF s, n
  <1>5. n <= Len(s) /\ Len(s) <= MaxCopies
    BY <1>2, <1>3, <1>4, Bounds
  <1>6. \A i \in 1..Len(s) : s[i].state = "deleted" => i \in 1..n /\ queue[q][i].state = "deleted"
    <2> SUFFICES ASSUME NEW i \in 1..Len(s), s[i].state = "deleted"
                 PROVE  i \in 1..n /\ queue[q][i].state = "deleted"
      OBVIOUS
    <2>1. i # n + 1
      BY <1>1, <1>3
    <2>2. i \in 1..n
      BY <1>2, <1>3, <2>1
    <2> QED
      BY <1>3, <2>2
  <1>7. Evolves
    BY <1>3, <1>4, <1>5, <1>6, OneEvolves DEF n
  <1>8. queue'[q] = s
    BY <1>4 DEF Typed, TypeOK
  <1> QED
    BY <1>1, <1>3, <1>7, <1>8 DEF n

(* One copy may become visible again, or be deleted with its receipt *)
(* handle.                                                           *)
LEMMA SetStateEvolves ==
  ASSUME Typed, NEW q \in Queues, NEW i \in 1..Len(queue[q]),
         NEW state \in {"visible", "deleted"}, SetState(q, i, state),
         state = "visible" => \/ queue[q][i].state \in {"delayed", "visible"}
                              \/ RunsOut(q, i),
         state = "deleted" =>
           \E b \in Brokers : \E h \in deletes[b] : h.queue = q /\ h.copy = i
  PROVE  Evolves
  <1> DEFINE s == [queue[q] EXCEPT ![i].state = state]
             n == Len(queue[q])
  <1>1. /\ queue[q] \in Seq(Copies) /\ n \in Nat /\ n <= MaxCopies /\ DOMAIN queue[q] = 1..n
        /\ \A j \in 1..n : queue[q][j] \in Copies
    BY CopyFact DEF Typed
  <1>2. queue' = [queue EXCEPT ![q] = s]
    BY DEF SetState
  <1>3. \A j \in 1..n :
          /\ s[j] \in Copies /\ s[j].msg = queue[q][j].msg
          /\ s[j].state = IF j = i THEN state ELSE queue[q][j].state
    BY <1>1 DEF Copies
  <1>4. s \in [1..n -> Copies]
    BY <1>1, <1>3
  <1>5. n \in Nat
    BY <1>1
  <1> HIDE DEF s, n
  <1>6. s \in Seq(Copies) /\ Len(s) = n
    BY <1>4, <1>5, SeqFact
  <1>7. /\ Len(queue[q]) <= Len(s) /\ Len(s) <= MaxCopies
        /\ \A j \in 1..Len(queue[q]) :
             /\ s[j].msg = queue[q][j].msg
             /\ s[j].state = "visible" =>
                  \/ queue[q][j].state \in {"delayed", "visible"}
                  \/ RunsOut(q, j)
             /\ s[j].state = "delayed" => queue[q][j].state = "delayed"
    BY <1>1, <1>3, <1>6 DEF n
  <1>8. \A j \in 1..Len(s) : s[j].state = "deleted" =>
          \/ j \in 1..Len(queue[q]) /\ queue[q][j].state = "deleted"
          \/ \E b \in Brokers : \E h \in deletes[b] : h.queue = q /\ h.copy = j
    BY <1>1, <1>3, <1>6 DEF n
  <1> QED
    BY <1>2, <1>6, <1>7, <1>8, OneEvolves

(* A queue that is deleted loses its copies and changes no other queue. *)
LEMMA QueueDeletedEvolves ==
  ASSUME Typed, NEW q \in Queues, QueueDeleted(q)
  PROVE  Evolves
  <1> DEFINE n == Len(queue[q])
             s == [i \in 1..n |-> Lose(queue[q][i])]
  <1>1. /\ n \in Nat /\ n <= MaxCopies /\ DOMAIN queue[q] = 1..n
        /\ \A i \in 1..n : queue[q][i] \in Copies
    BY CopyFact DEF Typed
  <1>2. queue' = [queue EXCEPT ![q] = s]
    BY <1>1 DEF QueueDeleted
  <1>3. \A i \in 1..n :
          /\ s[i] \in Copies /\ s[i].msg = queue[q][i].msg
          /\ s[i].state = IF queue[q][i].state = "deleted" THEN "deleted" ELSE "gone"
    BY <1>1 DEF Copies, Lose
  <1>4. s \in [1..n -> Copies]
    BY <1>3
  <1>5. n \in Nat
    BY <1>1
  <1> HIDE DEF s, n
  <1>6. s \in Seq(Copies) /\ Len(s) = n
    BY <1>4, <1>5, SeqFact
  <1>7. /\ Len(queue[q]) <= Len(s) /\ Len(s) <= MaxCopies
        /\ \A i \in 1..Len(queue[q]) :
             /\ s[i].msg = queue[q][i].msg
             /\ s[i].state = "visible" =>
                  \/ queue[q][i].state \in {"delayed", "visible"}
                  \/ RunsOut(q, i)
             /\ s[i].state = "delayed" => queue[q][i].state = "delayed"
    BY <1>1, <1>3, <1>6 DEF n
  <1>8. \A i \in 1..Len(s) : s[i].state = "deleted" =>
          \/ i \in 1..Len(queue[q]) /\ queue[q][i].state = "deleted"
          \/ \E b \in Brokers : \E h \in deletes[b] : h.queue = q /\ h.copy = i
    BY <1>1, <1>3, <1>6 DEF n
  <1> QED
    BY <1>2, <1>6, <1>7, <1>8, OneEvolves

(* A receive puts the copies it returns in flight and changes no others. *)
LEMMA HandsOutEvolves ==
  ASSUME Typed, NEW q \in Queues, NEW S, HandOut(q, S)
  PROVE  /\ Evolves
         /\ \A i \in S : queue'[q][i].state = "inflight"
         /\ \A r \in Queues : \A i \in 1..Len(queue[r]) :
              r # q \/ i \notin S => queue'[r][i] = queue[r][i]
  <1> DEFINE n == Len(queue[q])
             s == [i \in 1..n |-> IF i \in S THEN Received(queue[q][i]) ELSE queue[q][i]]
  <1>1. /\ n \in Nat /\ n <= MaxCopies /\ DOMAIN queue[q] = 1..n
        /\ \A i \in 1..n : queue[q][i] \in Copies
    BY CopyFact DEF Typed
  <1>2. queue' = [queue EXCEPT ![q] = s]
    BY <1>1 DEF HandOut
  <1>3. \A i \in S : /\ i \in 1..n /\ queue[q][i].receipt < MaxReceipts
                     /\ queue[q][i].state = "visible"
    BY DEF HandOut, Receivable
  <1>4. \A i \in S : s[i] \in Copies /\ s[i].msg = queue[q][i].msg /\ s[i].state = "inflight"
    <2> SUFFICES ASSUME NEW i \in S
                 PROVE  s[i] \in Copies /\ s[i].msg = queue[q][i].msg /\ s[i].state = "inflight"
      OBVIOUS
    <2>1. queue[q][i] \in Copies /\ s[i] = Received(queue[q][i])
      BY <1>1, <1>3
    <2>2. queue[q][i].receipt + 1 \in 0..MaxReceipts
      BY <1>3, <2>1, Bounds DEF Copies
    <2> HIDE DEF s
    <2> QED
      BY <2>1, <2>2 DEF Copies, Received
  <1>5. \A i \in (1..n) \ S : s[i] \in Copies /\ s[i] = queue[q][i]
    BY <1>1
  <1>6. s \in [1..n -> Copies]
    BY <1>4, <1>5
  <1>7. n \in Nat
    BY <1>1
  <1> HIDE DEF s, n
  <1>8. s \in Seq(Copies) /\ Len(s) = n
    BY <1>6, <1>7, SeqFact
  <1>9. /\ Len(queue[q]) <= Len(s) /\ Len(s) <= MaxCopies
        /\ \A i \in 1..Len(queue[q]) :
             /\ s[i].msg = queue[q][i].msg
             /\ s[i].state = "visible" =>
                  \/ queue[q][i].state \in {"delayed", "visible"}
                  \/ RunsOut(q, i)
             /\ s[i].state = "delayed" => queue[q][i].state = "delayed"
    BY <1>1, <1>4, <1>5, <1>8 DEF n
  <1>10. \A i \in 1..Len(s) : s[i].state = "deleted" =>
          \/ i \in 1..Len(queue[q]) /\ queue[q][i].state = "deleted"
          \/ \E b \in Brokers : \E h \in deletes[b] : h.queue = q /\ h.copy = i
    BY <1>1, <1>4, <1>5, <1>8 DEF n
  <1>11. Evolves
    BY <1>2, <1>8, <1>9, <1>10, OneEvolves
  <1>12. \A r \in Queues : queue'[r] = IF r = q THEN s ELSE queue[r]
    BY <1>2 DEF Typed, TypeOK
  <1> QED
    BY <1>4, <1>5, <1>11, <1>12 DEF n

-----------------------------------------------------------------------------
(* The poll loop of b for g: from one state to another, with a batch or without. *)
Holding == {"parsing", "handling", "ack", "nack"}
Rounds == {"poll", "receiving", "ended"} \cup Holding

Runs(b, g) ==
  /\ sub[b][g] \in Rounds /\ sub'[b][g] \in Rounds
  /\ sub' = [sub EXCEPT ![b][g] = sub'[b][g]]
  /\ batch'[b][g] \in Seq(Handles) /\ Len(batch'[b][g]) <= MaxMessages
  /\ batch'[b][g] # <<>> <=> sub'[b][g] \in Holding
  /\ batch' = [batch EXCEPT ![b][g] = batch'[b][g]]

Settles(b, g) ==
  UNCHANGED settling \/ (Handle(b, g) \in Handles /\ Ack(b, g) /\ Settled(b, g))

(* A loop that drops handles forgets what it knew of them, and only that. *)
LEMMA ForgottenRemembers == Forgotten => Remembers
  BY DEF Forgotten, Remembers

(* Where every batch that has expired handles stays, they are remembered. *)
LEMMA KeptRemembers ==
  ASSUME Typed, UNCHANGED expired,
         \A b \in Brokers, g \in Groups :
           batch'[b][g] = batch[b][g] \/ batch[b][g] = <<>>
  PROVE  Remembers
  <1>1. \A b \in Brokers, g \in Groups : expired[b][g] \subseteq ToSet(batch[b][g])
    BY DEF Typed, TypeOK
  <1>2. \A b \in Brokers, g \in Groups :
          \/ batch'[b][g] = batch[b][g]
          \/ expired[b][g] = {}
    BY <1>1 DEF ToSet
  <1> QED
    BY <1>1, <1>2 DEF Remembers

(* The types of one poll loop; its batch is empty exactly outside the *)
(* handler's part.                                                    *)
LEMMA LoopFact ==
  ASSUME Typed, NEW b \in Brokers, NEW g \in Groups
  PROVE  /\ sub \in [Brokers -> [Groups -> {"idle", "lookup", "create", "poll",
                 "receiving", "parsing", "handling", "ack", "nack", "ended", "rejected"}]]
         /\ batch \in [Brokers -> [Groups -> Seq(Handles)]]
         /\ source[b][g] \in Regions
         /\ batch[b][g] \in Seq(Handles) /\ Len(batch[b][g]) <= MaxMessages
         /\ batch[b][g] # <<>> <=> sub[b][g] \in Holding
  BY DEF Typed, TypeOK, Holding

(* The first handle of a batch and what remains after it. *)
LEMMA BatchFact ==
  ASSUME Typed, NEW b \in Brokers, NEW g \in Groups, batch[b][g] # <<>>
  PROVE  /\ Handle(b, g) \in Handles /\ Tail(batch[b][g]) \in Seq(Handles)
         /\ Len(Tail(batch[b][g])) <= MaxMessages
         /\ Tail(batch[b][g]) # <<>> <=> Len(batch[b][g]) > 1
         /\ ToSet(Tail(batch[b][g])) \subseteq ToSet(batch[b][g])
  <1>1. batch[b][g] \in Seq(Handles) /\ Len(batch[b][g]) <= MaxMessages /\ MaxMessages \in Nat
    BY LoopFact, Bounds
  <1>2. ASSUME NEW s \in Seq(Handles), s # <<>>, Len(s) <= MaxMessages, MaxMessages \in Nat
        PROVE  /\ Head(s) \in Handles /\ Tail(s) \in Seq(Handles)
               /\ Len(Tail(s)) <= MaxMessages
               /\ Tail(s) # <<>> <=> Len(s) > 1
               /\ ToSet(Tail(s)) \subseteq ToSet(s)
    <2>1. /\ Head(s) \in Handles /\ Tail(s) \in Seq(Handles) /\ Len(Tail(s)) = Len(s) - 1
          /\ \A i \in 1..Len(Tail(s)) : Tail(s)[i] = s[i + 1]
      BY <1>2, HeadTailProperties
    <2>2. Len(s) \in Nat \ {0} /\ DOMAIN s = 1..Len(s) /\ DOMAIN Tail(s) = 1..Len(Tail(s))
      BY <1>2, <2>1, EmptySeq, LenProperties
    <2>3. Tail(s) # <<>> <=> Len(Tail(s)) # 0
      BY <2>1, EmptySeq
    <2>4. Len(Tail(s)) # 0 <=> Len(s) > 1
      <3>1. ASSUME NEW k \in Nat \ {0}, NEW l, l = k - 1
            PROVE  l # 0 <=> k > 1
        BY <3>1
      <3> QED
        BY <2>1, <2>2, <3>1
    <2>5. Tail(s) # <<>> <=> Len(s) > 1
      BY <2>3, <2>4, Zenon
    <2>6. Len(Tail(s)) <= MaxMessages
      BY <1>2, <2>1, <2>2
    <2>7. ToSet(Tail(s)) \subseteq ToSet(s)
      BY <2>1, <2>2 DEF ToSet
    <2> QED
      BY <2>1, <2>5, <2>6, <2>7
  <1> QED
    BY <1>1, <1>2 DEF Handle

Took(b, g, S) ==
  /\ HandOut(<<source[b][g], g>>, S)
  /\ \A h \in ToSet(batch'[b][g]) : h.queue = <<source[b][g], g>> /\ h.copy \in S

(* What an answered receive changes: the loop's batch and the copies it *)
(* took.                                                                *)
LEMMA ReceiveEffect ==
  ASSUME Typed, NEW b \in Brokers, NEW g \in Groups, Receive(b, g)
  PROVE  /\ Runs(b, g) /\ UNCHANGED settling /\ Remembers
         /\ \E S : Took(b, g, S)
  <1> DEFINE q == <<source[b][g], g>>
  <1>0. q \in Queues /\ /\ queue[q] \in Seq(Copies) /\ Len(queue[q]) \in Nat
        /\ \A i \in 1..Len(queue[q]) : queue[q][i] \in Copies
    <2>1. q \in Queues
      BY LoopFact DEF Queues
    <2> QED
      BY <2>1, CopyFact
  <1>1. PICK S \in SUBSET Receivable(q) :
          /\ HandOut(q, S)
          /\ \E order \in SetToSeqs(S) :
               batch' = [batch EXCEPT ![b][g] = [n \in DOMAIN order |->
                        [queue |-> q, copy |-> order[n], msg |-> queue[q][order[n]].msg,
                         receipt |-> queue[q][order[n]].receipt + 1]]]
          /\ SubStep(b, g, "receiving", IF S = {} THEN AfterRound(b) ELSE "parsing")
    BY DEF Receive
  <1>2. PICK order \in SetToSeqs(S) :
          batch' = [batch EXCEPT ![b][g] = [n \in DOMAIN order |->
                     [queue |-> q, copy |-> order[n], msg |-> queue[q][order[n]].msg,
                      receipt |-> queue[q][order[n]].receipt + 1]]]
    BY <1>1
  <1> DEFINE c == Cardinality(S)
             Item(n) == [queue |-> q, copy |-> order[n], msg |-> queue[q][order[n]].msg,
                         receipt |-> queue[q][order[n]].receipt + 1]
             s == [n \in 1..c |-> Item(n)]
  <1>3. c \in Nat /\ (c = 0 <=> S = {})
    <2>1. IsFiniteSet(1..Len(queue[q]))
      <3>1. \A n \in Nat : IsFiniteSet(1..n)
        BY FS_Interval
      <3> QED
        BY <1>0, <3>1
    <2>2. S \in SUBSET (1..Len(queue[q]))
      BY DEF Receivable
    <2>3. IsFiniteSet(S)
      BY <2>1, <2>2, FS_Subset
    <2> QED
      BY <2>3, FS_CardinalityType, FS_EmptySet
  <1>4. order \in [1..c -> S]
    BY DEF SetToSeqs
  <1>5. \A n \in 1..c : Item(n) \in Handles /\ Item(n).queue = q /\ Item(n).copy \in S
    <2> SUFFICES ASSUME NEW n \in 1..c
                 PROVE  Item(n) \in Handles /\ Item(n).queue = q /\ Item(n).copy \in S
      OBVIOUS
    <2>1. order[n] \in S
      BY <1>4
    <2>2. order[n] \in 1..Len(queue[q]) /\ queue[q][order[n]].receipt < MaxReceipts
      BY <2>1 DEF Receivable
    <2>3. queue[q][order[n]].msg \in Messages /\ queue[q][order[n]].receipt \in Nat
      BY <1>0, <2>2 DEF Copies
    <2>4. Len(queue[q]) <= MaxCopies
      BY <1>0 DEF Typed
    <2>5. order[n] \in 1..MaxCopies
      BY <1>0, <2>2, <2>4, Bounds
    <2>6. queue[q][order[n]].receipt + 1 \in 1..MaxReceipts
      BY <2>2, <2>3, Bounds
    <2> QED
      BY <1>0, <2>1, <2>3, <2>5, <2>6 DEF Handles
  <1>6. s \in [1..c -> Handles]
    BY <1>5
  <1>7. s \in Seq(Handles) /\ Len(s) = c /\ DOMAIN s = 1..c
    <2> HIDE DEF s, c
    <2> QED
      BY <1>3, <1>6, SeqFact
  <1>8. DOMAIN order = 1..c
    BY <1>4
  <1>9. batch' = [batch EXCEPT ![b][g] = s]
    BY <1>2, <1>8
  <1>10. \A h \in ToSet(s) : h.queue = q /\ h.copy \in S
    BY <1>5, <1>7 DEF ToSet
  <1> HIDE DEF s, c
  <1>11. batch'[b][g] = s
    BY <1>9, LoopFact
  <1>12. s # <<>> <=> S # {}
    BY <1>3, <1>7, EmptySeq
  <1>13. sub[b][g] = "receiving" /\ sub' = [sub EXCEPT ![b][g] = sub'[b][g]]
         /\ sub'[b][g] = IF S = {} THEN AfterRound(b) ELSE "parsing"
    BY <1>1, LoopFact DEF SubStep
  <1>14. Runs(b, g)
    <2>1. Cardinality(S) <= MaxMessages
      BY <1>1 DEF HandOut
    <2> QED
      BY <2>1, <1>7, <1>9, <1>11, <1>12, <1>13 DEF Runs, Holding, Rounds, AfterRound, c
  <1>15. Took(b, g, S)
    BY <1>1, <1>10, <1>11 DEF Took
  <1>16. Remembers
    <2>1. batch[b][g] = <<>>
      BY <1>13, LoopFact DEF Holding
    <2>2. \A d \in Brokers, k \in Groups :
            batch'[d][k] = batch[d][k] \/ batch[d][k] = <<>>
      BY <1>9, <2>1, LoopFact
    <2> QED
      BY <2>2, KeptRemembers DEF Receive
  <1> QED
    BY <1>14, <1>15, <1>16 DEF Receive

(* What a step of a poll loop may change. *)
LEMMA LoopEffect ==
  ASSUME Typed, NEW b \in Brokers, NEW g \in Groups, Loop(b, g)
  PROVE  /\ Runs(b, g) /\ Settles(b, g) /\ Remembers
         /\ UNCHANGED <<alive, stopped, urlCache, exists, publishing, source>>
         /\ \/ /\ UNCHANGED queue \/ \E S : HandOut(<<source[b][g], g>>, S)
               /\ ToSet(batch'[b][g]) \subseteq ToSet(batch[b][g])
            \/ \E S : Took(b, g, S)
  <1> DEFINE Quiet == /\ UNCHANGED <<alive, stopped, urlCache, service, publishing, source>>
                      /\ ToSet(batch'[b][g]) \subseteq ToSet(batch[b][g])
                      /\ Remembers
  <1>0. UNCHANGED <<batch, expired>> => Remembers
    BY KeptRemembers
  <1> USE LoopFact DEF SubStep, InLoop, service
  <1>1. AfterRound(b) \in {"poll", "ended"}
    BY DEF AfterRound
  <1>2. CASE Poll(b, g)
    <2>1. UNCHANGED batch /\ sub[b][g] = "poll"
      BY <1>2 DEF Poll
    <2>2. Runs(b, g)
      BY <1>2, <2>1 DEF Poll, Runs, Rounds, Holding
    <2>3. Quiet
      BY <1>0, <1>2, <2>1 DEF Poll
    <2> QED
      BY <1>2, <2>2, <2>3 DEF Poll, Settles
  <1>3. CASE Receive(b, g)
    BY <1>3, ReceiveEffect DEF Settles, Receive
  <1>4. CASE ParseFailure(b, g)
    <2>1. batch'[b][g] = <<>> /\ sub[b][g] = "parsing"
      BY <1>4 DEF ParseFailure
    <2>2. Runs(b, g)
      <3>1. batch'[b][g] \in Seq(Handles) /\ Len(batch'[b][g]) <= MaxMessages
        BY <2>1, EmptySeq, Bounds
      <3>2. batch' = [batch EXCEPT ![b][g] = batch'[b][g]]
        BY <1>4, <2>1 DEF ParseFailure
      <3>3. sub'[b][g] \in {"poll", "ended"} /\ sub' = [sub EXCEPT ![b][g] = sub'[b][g]]
        BY <1>1, <1>4 DEF ParseFailure
      <3> QED
        BY <2>1, <3>1, <3>2, <3>3 DEF Runs, Rounds, Holding
    <2>3. Quiet
      BY <1>4, <2>1, ForgottenRemembers DEF ParseFailure, ToSet
    <2> QED
      BY <1>4, <2>2, <2>3 DEF ParseFailure, Settles
  <1>5. CASE HandlerStart(b, g)
    <2>1. UNCHANGED batch /\ sub[b][g] = "parsing"
      BY <1>5 DEF HandlerStart
    <2>2. Runs(b, g)
      BY <1>5, <2>1 DEF HandlerStart, Runs, Rounds, Holding
    <2>3. Quiet
      BY <1>0, <1>5, <2>1 DEF HandlerStart
    <2> QED
      BY <1>5, <2>2, <2>3 DEF HandlerStart, Settles
  <1>6. ASSUME NEW call \in {"ack", "nack"}, HandlerCall(b, g, call)
        PROVE  Runs(b, g) /\ Settles(b, g) /\ Quiet
    <2>1. UNCHANGED batch /\ sub[b][g] = "handling"
      BY <1>6 DEF HandlerCall
    <2>2. Runs(b, g)
      BY <1>6, <2>1 DEF HandlerCall, Runs, Rounds, Holding
    <2>3. Handle(b, g) \in Handles
      BY <2>1, BatchFact DEF Holding
    <2>4. Quiet
      BY <1>0, <1>6, <2>1 DEF HandlerCall
    <2>5. Settles(b, g)
      BY <1>6, <2>3 DEF HandlerCall, Settles, Nack, settling
    <2> QED
      BY <2>2, <2>4, <2>5
  <1>7. ASSUME NEW end \in {"return", "throw"}, HandlerEnds(b, g, end)
        PROVE  Runs(b, g) /\ Quiet /\ Handle(b, g) \in Handles
    <2>1. PICK call \in {"none", "ack", "nack"} :
            SubStep(b, g, IF call = "none" THEN "handling" ELSE call,
                    IF Len(batch[b][g]) > 1 THEN "parsing" ELSE AfterRound(b))
      BY <1>7 DEF HandlerEnds
    <2>2. sub[b][g] \in {"handling", "ack", "nack"} /\ batch[b][g] # <<>>
      BY <2>1 DEF Holding
    <2>3. batch'[b][g] = Tail(batch[b][g]) /\ batch' = [batch EXCEPT ![b][g] = batch'[b][g]]
      BY <1>7 DEF HandlerEnds
    <2>4. /\ sub'[b][g] = IF Len(batch[b][g]) > 1 THEN "parsing" ELSE AfterRound(b)
          /\ sub' = [sub EXCEPT ![b][g] = sub'[b][g]]
      BY <2>1
    <2>5. Runs(b, g)
      BY <1>1, <2>2, <2>3, <2>4, BatchFact DEF Runs, Rounds, Holding
    <2>6. Quiet
      BY <1>7, <2>2, <2>3, BatchFact, ForgottenRemembers DEF HandlerEnds
    <2> QED
      BY <2>2, <2>5, <2>6, BatchFact
  <1>8. HandlerReturn(b, g) \/ HandlerThrow(b, g) => Runs(b, g) /\ Settles(b, g) /\ Quiet
    BY <1>7 DEF HandlerReturn, HandlerThrow, Settles, Nack, settling
  <1>9. CASE ReceiveFails(b, g)
    <2>1. UNCHANGED <<batch, expired>> /\ sub[b][g] = "receiving"
      BY <1>9 DEF ReceiveFails
    <2>2. Runs(b, g)
      BY <1>1, <1>9, <2>1 DEF ReceiveFails, Runs, Rounds, Holding
    <2>3. \E S : HandOut(<<source[b][g], g>>, S)
      BY <1>9 DEF ReceiveFails
    <2> QED
      BY <1>0, <1>9, <2>1, <2>2, <2>3 DEF ReceiveFails, Settles
  <1> QED
    BY <1>2, <1>3, <1>4, <1>5, <1>6, <1>8, <1>9 DEF Loop, Handler

-----------------------------------------------------------------------------
(* What ensureQueue caches is a URL, whatever comes next. *)
LEMMA EnsureEffect ==
  ASSUME Typed, NEW b \in Brokers, NEW g \in Groups, NEW ensure, NEW request, NEW next,
         EnsureAnswer(b, g, ensure, request, next)
  PROVE  /\ urlCache' \in [Processes -> [Groups -> Regions \cup {NoUrl}]]
         /\ exists' \subseteq Queues
  <1>1. Process[b] \in Processes /\ Region[b] \in Regions
    BY BrokerFact
  <1>2. /\ urlCache \in [Processes -> [Groups -> Regions \cup {NoUrl}]]
        /\ exists \subseteq Queues
    BY DEF Typed, TypeOK
  <1>3. urlCache' \in [Processes -> [Groups -> Regions \cup {NoUrl}]]
    BY <1>1, <1>2 DEF EnsureAnswer, CacheUrl
  <1>4. exists' \subseteq Queues
    BY <1>1, <1>2 DEF EnsureAnswer, Queues
  <1> QED
    BY <1>3, <1>4

SendStates == {"idle", "lookup", "create", "sending", "sent", "failed"}

PubTyped ==
  /\ pub \in [Brokers -> [Messages -> {"idle", "pending", "resolved", "rejected"}]]
  /\ send \in [Brokers -> [Messages -> [Groups -> SendStates]]]
  /\ target \in [Brokers -> [Messages -> [Groups -> Regions]]]

(* A publish keeps its types and at most adds copies to the queues. *)
LEMMA PublishTyped ==
  ASSUME Typed, NEW b \in Brokers, NEW m \in Messages, Publish(b, m)
  PROVE  Evolves /\ PubTyped' /\ exists' \subseteq Queues
         /\ urlCache' \in [Processes -> [Groups -> Regions \cup {NoUrl}]]
         /\ UNCHANGED <<alive, stopped, polling, settling>>
  <1>0. PubTyped /\ exists \subseteq Queues /\ Process[b] \in Processes /\ Region[b] \in Regions
        /\ urlCache \in [Processes -> [Groups -> Regions \cup {NoUrl}]]
    BY BrokerFact DEF Typed, TypeOK, PubTyped, SendStates
  <1>1. CASE PublishCall(b, m)
    <2>1. PubTyped'
      <3>1. pub' \in [Brokers -> [Messages -> {"idle", "pending", "resolved", "rejected"}]]
        BY <1>0, <1>1 DEF PublishCall, PubTyped
      <3>2. send' \in [Brokers -> [Messages -> [Groups -> SendStates]]]
        BY <1>0, <1>1 DEF PublishCall, PubTyped, SendStates
      <3>3. \A g \in Groups : Cached(b, g) \in Regions \cup {NoUrl}
        BY <1>0 DEF Cached
      <3>4. target' \in [Brokers -> [Messages -> [Groups -> Regions]]]
        BY <1>0, <1>1, <3>3 DEF PublishCall, PubTyped
      <3> QED
        BY <3>1, <3>2, <3>4 DEF PubTyped
    <2> QED
      BY <1>0, <1>1, <2>1, SameEvolves DEF PublishCall, service
  <1>2. CASE PublishDone(b, m)
    <2>1. \E result \in {"resolved", "rejected"} : pub' = [pub EXCEPT ![b][m] = result]
      BY <1>2 DEF PublishDone
    <2>2. PubTyped'
      BY <1>0, <1>2, <2>1 DEF PublishDone, PubTyped
    <2> QED
      BY <1>0, <1>2, <2>2, SameEvolves DEF PublishDone, service
  <1>3. ASSUME NEW g \in Groups, PublishEnsure(b, m, g)
        PROVE  Evolves /\ PubTyped' /\ exists' \subseteq Queues
               /\ urlCache' \in [Processes -> [Groups -> Regions \cup {NoUrl}]]
               /\ UNCHANGED <<alive, stopped, polling, settling>>
    <2>1. PICK next \in {"found", "create", "missing"} :
            /\ EnsureAnswer(b, g, TRUE, send[b][m][g], next)
            /\ send' = [send EXCEPT ![b][m][g] =
                     [found |-> "sending", create |-> "create", missing |-> "failed"][next]]
      BY <1>3 DEF PublishEnsure
    <2>2. [found |-> "sending", create |-> "create", missing |-> "failed"][next] \in SendStates
      BY DEF SendStates
    <2>3. PubTyped'
      BY <1>0, <1>3, <2>1, <2>2 DEF PublishEnsure, PubTyped
    <2> QED
      BY <1>3, <2>1, <2>3, EnsureEffect, SameEvolves DEF PublishEnsure
  <1>4. ASSUME NEW g \in Groups, NEW prio \in Prios, SendMessage(b, m, g, prio)
        PROVE  Evolves /\ PubTyped' /\ exists' \subseteq Queues
               /\ urlCache' \in [Processes -> [Groups -> Regions \cup {NoUrl}]]
               /\ UNCHANGED <<alive, stopped, polling, settling>>
    <2>1. <<target[b][m][g], g>> \in Queues
      BY <1>0 DEF PubTyped, Queues
    <2>2. Evolves
      BY <1>4, <2>1, StoreEvolves, SameEvolves DEF SendMessage
    <2>3. \E result \in SendStates : send' = [send EXCEPT ![b][m][g] = result]
      BY <1>4 DEF SendMessage, SendStates
    <2>4. PubTyped'
      BY <1>0, <1>4, <2>3 DEF SendMessage, PubTyped
    <2> QED
      BY <1>0, <1>4, <2>2, <2>4 DEF SendMessage
  <1> QED
    BY <1>1, <1>2, <1>3, <1>4 DEF Publish

LoopStates == {"idle", "lookup", "create", "rejected"} \cup Rounds

LoopTyped ==
  /\ sub \in [Brokers -> [Groups -> LoopStates]]
  /\ source \in [Brokers -> [Groups -> Regions]]
  /\ batch \in [Brokers -> [Groups -> Seq(Handles)]]
  /\ settled \subseteq Queues \X (1..MaxCopies) /\ deletes \in [Brokers -> SUBSET Handles]
  /\ \A b \in Brokers, g \in Groups :
       /\ Len(batch[b][g]) <= MaxMessages
       /\ expired[b][g] \subseteq ToSet(batch[b][g])
       /\ batch[b][g] # <<>> <=> sub[b][g] \in Holding

(* A subscribe call that has not polled yet keeps the types of the loops. *)
LEMMA StartsTyped ==
  ASSUME LoopTyped, NEW b \in Brokers, NEW g \in Groups,
         sub[b][g] \in {"idle", "lookup", "create"},
         NEW to \in {"lookup", "create", "poll", "rejected"},
         sub' = [sub EXCEPT ![b][g] = to],
         source' \in [Brokers -> [Groups -> Regions]], UNCHANGED <<batch, expired, settling>>
  PROVE  LoopTyped'
  <1>1. to \in LoopStates /\ to \notin Holding /\ sub[b][g] \notin Holding
    BY DEF LoopStates, Rounds, Holding
  <1>2. sub \in [Brokers -> [Groups -> LoopStates]]
    BY DEF LoopTyped
  <1>3. /\ sub' \in [Brokers -> [Groups -> LoopStates]]
        /\ \A d \in Brokers, k \in Groups :
             sub'[d][k] = IF d = b /\ k = g THEN to ELSE sub[d][k]
    BY <1>1, <1>2, EntryFact
  <1> QED
    BY <1>1, <1>3 DEF LoopTyped, settling

(* Subscribe keeps the types of the loops and changes no queue's copies. *)
LEMMA SubscribeTyped ==
  ASSUME Typed, NEW b \in Brokers, NEW g \in Groups, Subscribe(b, g)
  PROVE  /\ LoopTyped' /\ exists' \subseteq Queues
         /\ urlCache' \in [Processes -> [Groups -> Regions \cup {NoUrl}]]
         /\ UNCHANGED <<alive, stopped, queue, publishing, batch, expired, settling>>
  <1>0. /\ LoopTyped /\ exists \subseteq Queues
        /\ urlCache \in [Processes -> [Groups -> Regions \cup {NoUrl}]]
        /\ Process[b] \in Processes
    BY BrokerFact DEF Typed, TypeOK, LoopTyped, LoopStates, Rounds, Holding
  <1>1. CASE SubscribeCall(b, g)
    <2>1. /\ sub[b][g] = "idle" /\ UNCHANGED <<batch, expired, settling>>
          /\ \E to \in {"lookup", "poll"} : sub' = [sub EXCEPT ![b][g] = to]
      BY <1>1 DEF SubscribeCall, SubStep
    <2>2. source' \in [Brokers -> [Groups -> Regions]]
      <3>1. Cached(b, g) \in Regions \cup {NoUrl}
        BY <1>0 DEF Cached
      <3>2. \/ source' = source
            \/ Cached(b, g) # NoUrl /\ source' = [source EXCEPT ![b][g] = Cached(b, g)]
        BY <1>1 DEF SubscribeCall
      <3>3. source \in [Brokers -> [Groups -> Regions]]
        BY <1>0 DEF LoopTyped
      <3> QED
        BY <3>1, <3>2, <3>3
    <2>3. LoopTyped'
      BY <1>0, <2>1, <2>2, StartsTyped
    <2> QED
      BY <1>0, <1>1, <2>3 DEF SubscribeCall, service
  <1>2. ASSUME NEW ensure \in BOOLEAN, SubscribeEnsure(b, g, ensure)
        PROVE  /\ LoopTyped' /\ exists' \subseteq Queues
               /\ urlCache' \in [Processes -> [Groups -> Regions \cup {NoUrl}]]
               /\ UNCHANGED <<alive, stopped, queue, publishing, batch, expired, settling>>
    <2>1. PICK next \in {"found", "create", "missing"} :
            /\ EnsureAnswer(b, g, ensure, sub[b][g], next)
            /\ sub' = [sub EXCEPT ![b][g] =
                         [found |-> "poll", create |-> "create", missing |-> "rejected"][next]]
      BY <1>2 DEF SubscribeEnsure
    <2>2. [found |-> "poll", create |-> "create", missing |-> "rejected"][next]
            \in {"poll", "create", "rejected"}
      OBVIOUS
    <2>3. sub[b][g] \in {"lookup", "create"}
      BY <2>1 DEF EnsureAnswer
    <2>4. LoopTyped'
      BY <1>0, <1>2, <2>1, <2>2, <2>3, StartsTyped DEF SubscribeEnsure, LoopTyped
    <2> QED
      BY <1>2, <2>1, <2>4, EnsureEffect DEF SubscribeEnsure
  <1> QED
    BY <1>1, <1>2 DEF Subscribe

(* A step of one loop, with its settlements, keeps the types of all loops. *)
LEMMA RunsTyped ==
  ASSUME Typed, NEW b \in Brokers, NEW g \in Groups, Runs(b, g), Settles(b, g),
         Remembers, UNCHANGED source
  PROVE  LoopTyped'
  <1>0. LoopTyped
    BY DEF Typed, TypeOK, LoopTyped, LoopStates, Rounds, Holding
  <1>1. \A d \in Brokers, k \in Groups :
          \/ d = b /\ k = g
          \/ sub'[d][k] = sub[d][k] /\ batch'[d][k] = batch[d][k]
    BY <1>0 DEF Runs, LoopTyped
  <1>2. /\ sub' \in [Brokers -> [Groups -> LoopStates]]
        /\ batch' \in [Brokers -> [Groups -> Seq(Handles)]]
    <2>1. /\ \E to \in LoopStates : sub' = [sub EXCEPT ![b][g] = to]
          /\ \E s \in Seq(Handles) : batch' = [batch EXCEPT ![b][g] = s]
      BY DEF Runs, LoopStates
    <2>2. sub \in [Brokers -> [Groups -> LoopStates]]
      BY <1>0 DEF LoopTyped
    <2>3. batch \in [Brokers -> [Groups -> Seq(Handles)]]
      BY <1>0 DEF LoopTyped
    <2>4. sub' \in [Brokers -> [Groups -> LoopStates]]
      BY <2>1, <2>2, EntryFact
    <2>5. batch' \in [Brokers -> [Groups -> Seq(Handles)]]
      BY <2>1, <2>3, EntryFact
    <2> QED
      BY <2>4, <2>5
  <1>3. /\ settled' \subseteq Queues \X (1..MaxCopies)
        /\ deletes' \in [Brokers -> SUBSET Handles]
    <2>1. CASE UNCHANGED settling
      BY <1>0, <2>1 DEF settling, LoopTyped
    <2>2. CASE Handle(b, g) \in Handles /\ Ack(b, g) /\ Settled(b, g)
      BY <1>0, <2>2 DEF Ack, Settled, LoopTyped, Handles
    <2> QED
      BY <2>1, <2>2 DEF Settles
  <1>4. \A d \in Brokers, k \in Groups :
          /\ Len(batch'[d][k]) <= MaxMessages
          /\ batch'[d][k] # <<>> <=> sub'[d][k] \in Holding
    <2> SUFFICES ASSUME NEW d \in Brokers, NEW k \in Groups
                 PROVE  /\ Len(batch'[d][k]) <= MaxMessages
                        /\ batch'[d][k] # <<>> <=> sub'[d][k] \in Holding
      OBVIOUS
    <2>1. CASE d = b /\ k = g
      BY <2>1 DEF Runs
    <2>2. CASE sub'[d][k] = sub[d][k] /\ batch'[d][k] = batch[d][k]
      BY <1>0, <2>2 DEF LoopTyped
    <2> QED
      BY <1>1, <2>1, <2>2
  <1> QED
    BY <1>0, <1>2, <1>3, <1>4 DEF LoopTyped, Remembers

(* What the service does by itself keeps the history of the queues. *)
LEMMA ServiceEvolves ==
  ASSUME Typed, NEW q \in Queues, Service(q)
  PROVE  /\ Evolves /\ Remembers /\ exists' \subseteq Queues
         /\ UNCHANGED <<alive, stopped, urlCache, publishing, sub, source, batch, settling>>
  <1>0. exists \subseteq Queues
    BY DEF Typed, TypeOK
  <1>1. ASSUME NEW i \in 1..Len(queue[q]), DelayEnds(q, i)
        PROVE  Evolves
    BY <1>1, SetStateEvolves DEF DelayEnds
  <1>2. ASSUME NEW i \in 1..Len(queue[q]), VisibilityTimeout(q, i)
        PROVE  Evolves /\ Remembers
    <2>1. SetState(q, i, "visible") /\ UNCHANGED batch
          /\ expired' = [b \in Brokers |-> [g \in Groups |->
                           expired[b][g] \cup (InHand(q, i) \cap ToSet(batch[b][g]))]]
      BY <1>2 DEF VisibilityTimeout
    <2>2. RunsOut(q, i)
      BY <2>1 DEF RunsOut, InHand
    <2>3. \A b \in Brokers, g \in Groups : expired[b][g] \subseteq ToSet(batch[b][g])
      BY DEF Typed, TypeOK
    <2>4. Remembers
      BY <2>1, <2>3 DEF Remembers
    <2> QED
      BY <2>1, <2>2, <2>4, SetStateEvolves
  <1>3. ASSUME NEW m \in Messages, ForeignSend(q, m)
        PROVE  Evolves
    BY <1>3, StoreEvolves DEF ForeignSend
  <1>4. \/ UNCHANGED polling
        \/ \E i \in 1..Len(queue[q]) : VisibilityTimeout(q, i)
    BY DEF Service, DelayEnds, QueueDeleted, ForeignSend, OnService
  <1>5. Evolves /\ Remembers
    <2>1. UNCHANGED polling => Remembers
      BY KeptRemembers DEF polling
    <2> QED
      BY <1>1, <1>2, <1>3, <1>4, <2>1, QueueDeletedEvolves DEF Service
  <1>6. /\ exists' \subseteq exists
        /\ UNCHANGED <<alive, stopped, urlCache, publishing, sub, source, batch, settling>>
    BY DEF Service, DelayEnds, VisibilityTimeout, QueueDeleted, ForeignSend, OnService, polling
  <1> QED
    BY <1>0, <1>5, <1>6

(* The end of a process empties its loops. *)
LEMMA DeleteEffect ==
  ASSUME Typed, NEW b \in Brokers, NEW h \in deletes[b], DeleteMessage(b, h)
  PROVE  /\ LoopTyped' /\ Remembers
         /\ UNCHANGED <<stopped, urlCache, exists, publishing, source, settled>>
         /\ alive' \subseteq alive
         /\ \A d \in Brokers : deletes'[d] \subseteq deletes[d]
         /\ \A d \in Brokers, g \in Groups : ToSet(batch'[d][g]) \subseteq ToSet(batch[d][g])
         /\ UNCHANGED queue \/ SetState(h.queue, h.copy, "deleted")
  <1>0. LoopTyped
    BY DEF Typed, TypeOK, LoopTyped, LoopStates, Rounds, Holding
  <1>1. /\ deletes' = [deletes EXCEPT ![b] = @ \ {h}]
        /\ UNCHANGED <<stopped, urlCache, exists, publishing, source, settled>>
        /\ alive' \subseteq alive
        /\ UNCHANGED queue \/ SetState(h.queue, h.copy, "deleted")
    BY DEF DeleteMessage
  <1>2. \/ UNCHANGED <<sub, batch, expired>>
        \/ /\ Forgotten
           /\ sub' = [d \in Brokers |-> IF Process[d] = Process[b]
                        THEN [g \in Groups |-> "ended"] ELSE sub[d]]
           /\ batch' = [d \in Brokers |-> IF Process[d] = Process[b]
                          THEN [g \in Groups |-> <<>>] ELSE batch[d]]
    BY DEF DeleteMessage
  <1>3. \A d \in Brokers, g \in Groups :
          \/ sub'[d][g] = sub[d][g] /\ batch'[d][g] = batch[d][g]
          \/ sub'[d][g] = "ended" /\ batch'[d][g] = <<>>
    BY <1>2
  <1>4. /\ sub' \in [Brokers -> [Groups -> LoopStates]]
        /\ batch' \in [Brokers -> [Groups -> Seq(Handles)]]
    <2>1. "ended" \in LoopStates /\ <<>> \in Seq(Handles)
      BY EmptySeq DEF LoopStates, Rounds
    <2>2. /\ sub \in [Brokers -> [Groups -> LoopStates]]
          /\ [g \in Groups |-> "ended"] \in [Groups -> LoopStates]
      BY <1>0, <2>1 DEF LoopTyped
    <2>3. /\ batch \in [Brokers -> [Groups -> Seq(Handles)]]
          /\ [g \in Groups |-> <<>>] \in [Groups -> Seq(Handles)]
      BY <1>0, <2>1 DEF LoopTyped
    <2>4. sub' \in [Brokers -> [Groups -> LoopStates]]
      BY <1>2, <2>2
    <2>5. batch' \in [Brokers -> [Groups -> Seq(Handles)]]
      BY <1>2, <2>3
    <2> QED
      BY <2>4, <2>5
  <1>5. Len(<<>>) <= MaxMessages
    BY EmptySeq, Bounds
  <1>6. \A d \in Brokers, g \in Groups :
          /\ Len(batch'[d][g]) <= MaxMessages
          /\ batch'[d][g] # <<>> <=> sub'[d][g] \in Holding
    BY <1>0, <1>3, <1>5 DEF LoopTyped, Holding
  <1>7. /\ deletes' \in [Brokers -> SUBSET Handles]
        /\ \A d \in Brokers : deletes'[d] \subseteq deletes[d]
    BY <1>0, <1>1 DEF LoopTyped
  <1>8. \A d \in Brokers, g \in Groups : ToSet(batch'[d][g]) \subseteq ToSet(batch[d][g])
    BY <1>3 DEF ToSet
  <1>9. Remembers
    BY <1>2, KeptRemembers, ForgottenRemembers
  <1>10. LoopTyped'
    BY <1>0, <1>1, <1>4, <1>6, <1>7, <1>9 DEF LoopTyped, Remembers
  <1> QED
    BY <1>1, <1>7, <1>8, <1>9, <1>10

(* A delete that arrives deletes the copy its receipt handle names. *)
LEMMA DeleteEvolves ==
  ASSUME Typed, NEW b \in Brokers, NEW h \in deletes[b], DeleteMessage(b, h)
  PROVE  Evolves
  <1>1. h \in Handles
    BY DEF Typed, TypeOK
  <1>2. CASE UNCHANGED queue
    BY <1>2, SameEvolves
  <1>3. CASE SetState(h.queue, h.copy, "deleted")
    <2>1. h.queue \in Queues
      BY <1>1 DEF Handles
    <2>2. CASE h.copy \in 1..Len(queue[h.queue])
      BY <1>3, <2>1, <2>2, SetStateEvolves
    <2>3. CASE h.copy \notin 1..Len(queue[h.queue])
      <3>1. DOMAIN queue[h.queue] = 1..Len(queue[h.queue]) /\ queue[h.queue] \in Seq(Copies)
        BY <2>1, CopyFact
      <3>2. UNCHANGED queue
        BY <1>3, <2>1, <2>3, <3>1 DEF SetState, Typed, TypeOK
      <3> QED
        BY <3>2, SameEvolves
    <2> QED
      BY <2>2, <2>3
  <1> QED
    BY <1>2, <1>3, DeleteEffect

(* All that can happen to the queues. *)
LEMMA StepEvolves ==
  ASSUME Typed, [Next]_vars
  PROVE  Evolves
  <1>1. ASSUME NEW b \in Brokers, NEW g \in Groups, Loop(b, g)
        PROVE  Evolves
    <2>1. CASE UNCHANGED queue
      BY <2>1, SameEvolves
    <2>2. ASSUME NEW S, Took(b, g, S) \/ HandOut(<<source[b][g], g>>, S)
          PROVE  Evolves
      <3>1. <<source[b][g], g>> \in Queues
        BY LoopFact DEF Queues
      <3> QED
        BY <2>2, <3>1, HandsOutEvolves DEF Took
    <2> QED
      BY <1>1, <2>1, <2>2, LoopEffect
  <1>2. ASSUME NEW b \in Brokers, Close(b)
        PROVE  Evolves
    BY <1>2, SameEvolves DEF Close, service
  <1>3. ASSUME NEW b \in Brokers, NEW g \in Groups, Subscribe(b, g)
        PROVE  Evolves
    BY <1>3, SubscribeTyped, SameEvolves
  <1>4. CASE UNCHANGED vars
    BY <1>4, SameEvolves DEF vars, service
  <1> QED
    BY <1>1, <1>2, <1>3, <1>4, PublishTyped, ServiceEvolves, DeleteEvolves DEF Next

OthersTyped ==
  /\ alive \subseteq Processes /\ stopped \subseteq Brokers /\ exists \subseteq Queues
  /\ urlCache \in [Processes -> [Groups -> Regions \cup {NoUrl}]]
  /\ PubTyped /\ LoopTyped

(* Every step keeps the types. *)
LEMMA StepTyped ==
  ASSUME Typed, [Next]_vars
  PROVE  Typed'
  <1>1. Evolves
    BY StepEvolves
  <1>2. OthersTyped
    BY DEF Typed, TypeOK, PubTyped, SendStates, LoopTyped, LoopStates, Rounds,
       Holding, OthersTyped
  <1>3. OthersTyped'
    <2> USE <1>2 DEF OthersTyped, publishing, polling, service
    <2>1. ASSUME UNCHANGED publishing
          PROVE  PubTyped'
      BY <2>1 DEF PubTyped
    <2>2. ASSUME UNCHANGED <<polling, settling>>
          PROVE  LoopTyped'
      BY <2>2 DEF LoopTyped, settling
    <2>3. ASSUME NEW b \in Brokers, Close(b)
          PROVE  OthersTyped'
      BY <2>1, <2>2, <2>3 DEF Close
    <2>4. ASSUME NEW b \in Brokers, NEW m \in Messages, Publish(b, m)
          PROVE  OthersTyped'
      BY <2>2, <2>4, PublishTyped
    <2>5. ASSUME NEW b \in Brokers, NEW g \in Groups, Subscribe(b, g)
          PROVE  OthersTyped'
      BY <2>1, <2>5, SubscribeTyped
    <2>6. ASSUME NEW b \in Brokers, NEW g \in Groups, Loop(b, g)
          PROVE  OthersTyped'
      BY <2>1, <2>6, LoopEffect, RunsTyped
    <2>7. ASSUME NEW b \in Brokers, NEW h \in deletes[b], DeleteMessage(b, h)
          PROVE  OthersTyped'
      BY <2>1, <2>7, DeleteEffect
    <2>8. ASSUME NEW q \in Queues, Service(q)
          PROVE  OthersTyped'
      <3>1. LoopTyped'
        BY <2>8, ServiceEvolves DEF LoopTyped, Remembers, settling
      <3> QED
        BY <2>1, <2>8, <3>1, ServiceEvolves
    <2>9. CASE UNCHANGED vars
      BY <2>1, <2>2, <2>9 DEF vars
    <2> QED
      BY <2>3, <2>4, <2>5, <2>6, <2>7, <2>8, <2>9 DEF Next
  <1> QED
    BY <1>1, <1>3 DEF Typed, TypeOK, PubTyped, SendStates, LoopTyped, LoopStates, Rounds, Holding, Evolves,
       OthersTyped

(* Every variable keeps its type; a batch is there exactly while a loop handles it and
   is never longer than maxMessages (aws_sqs/src/index.ts:152-195). *)
THEOREM TypeCorrect == Spec => []TypeOK
  <1>1. Spec => []Typed
    BY InitTyped, StepTyped, PTL DEF Spec
  <1> QED
    BY <1>1, PTL DEF Typed

-----------------------------------------------------------------------------
(* DeletedByAckOrReturn: a DeleteMessage is under way only for a copy that a handler
   has settled so. *)
Acked ==
  /\ DeletedByAckOrReturn
  /\ \A b \in Brokers : \A h \in deletes[b] : <<h.queue, h.copy>> \in settled

NewDeletesSettled ==
  /\ settled \subseteq settled'
  /\ \A b \in Brokers : \A h \in deletes'[b] :
       h \in deletes[b] \/ <<h.queue, h.copy>> \in settled'

(* What is settled only grows, and a new delete was asked for by an ack or a return. *)
LEMMA AckedGrows ==
  ASSUME Typed, [Next]_vars
  PROVE  NewDeletesSettled
  <1>0. deletes \in [Brokers -> SUBSET Handles]
    BY DEF Typed, TypeOK
  <1>1. ASSUME UNCHANGED settling
        PROVE  NewDeletesSettled
    BY <1>1 DEF settling, NewDeletesSettled
  <1>2. ASSUME NEW b \in Brokers, NEW g \in Groups, Loop(b, g)
        PROVE  NewDeletesSettled
    <2>1. Settles(b, g)
      BY <1>2, LoopEffect
    <2>2. CASE Ack(b, g) /\ Settled(b, g)
      BY <1>0, <2>2 DEF Ack, Settled, NewDeletesSettled
    <2> QED
      BY <1>1, <2>1, <2>2 DEF Settles
  <1>3. ASSUME NEW b \in Brokers, NEW h \in deletes[b], DeleteMessage(b, h)
        PROVE  NewDeletesSettled
    BY <1>3, DeleteEffect DEF NewDeletesSettled
  <1>4. ASSUME NEW b \in Brokers, Close(b)
        PROVE  NewDeletesSettled
    BY <1>1, <1>4 DEF Close
  <1>5. CASE UNCHANGED vars
    BY <1>1, <1>5 DEF vars
  <1> QED
    BY <1>1, <1>2, <1>3, <1>4, <1>5, PublishTyped, SubscribeTyped, ServiceEvolves DEF Next

(* Every step leaves deletes and deleted copies on the word of a handler. *)
LEMMA StepAcked ==
  ASSUME Typed, Acked, [Next]_vars
  PROVE  Acked'
  <1>1. Evolves /\ Typed' /\ NewDeletesSettled
    BY StepEvolves, StepTyped, AckedGrows
  <1>2. \A b \in Brokers :
          /\ \A h \in deletes[b] : <<h.queue, h.copy>> \in settled'
          /\ \A h \in deletes'[b] : <<h.queue, h.copy>> \in settled'
    BY <1>1 DEF Acked, NewDeletesSettled
  <1>3. ASSUME NEW q \in Queues, NEW i \in 1..Len(queue'[q]), queue'[q][i].state = "deleted"
        PROVE  <<q, i>> \in settled'
    <2>1. CASE i \in 1..Len(queue[q]) /\ queue[q][i].state = "deleted"
      <3>1. i \in DOMAIN queue[q]
        BY <2>1, CopyFact
      <3> QED
        BY <1>1, <2>1, <3>1 DEF Acked, DeletedByAckOrReturn, NewDeletesSettled
    <2>2. ASSUME NEW b \in Brokers, NEW h \in deletes[b], h.queue = q, h.copy = i
          PROVE  <<q, i>> \in settled'
      BY <1>2, <2>2
    <2>3. \/ i \in 1..Len(queue[q]) /\ queue[q][i].state = "deleted"
          \/ \E b \in Brokers : \E h \in deletes[b] : h.queue = q /\ h.copy = i
      BY <1>1, <1>3 DEF Evolves
    <2> QED
      BY <2>1, <2>2, <2>3
  <1>4. \A q \in Queues : DOMAIN queue'[q] = 1..Len(queue'[q])
    BY <1>1, LenProperties DEF Evolves
  <1> QED
    BY <1>2, <1>3, <1>4 DEF Acked, DeletedByAckOrReturn

(* A copy leaves its queue only after a handler has acked it or has returned: an
   exception, an unparsable body, a failed request, a timeout or a close deletes
   nothing. That a return deletes what the handler has nacked is part of the
   statement, not excluded by it (aws_sqs/src/index.ts:162-187). *)
THEOREM DeletedOnlyOnHandlersWord == Spec => []DeletedByAckOrReturn
  <1>1. Init => Typed /\ Acked
    BY InitTyped DEF Init, Acked, DeletedByAckOrReturn
  <1>2. Typed /\ Acked /\ [Next]_vars => (Typed /\ Acked)'
    BY StepTyped, StepAcked
  <1>3. Acked => DeletedByAckOrReturn
    BY DEF Acked
  <1> QED
    BY <1>1, <1>2, <1>3, PTL DEF Spec

-----------------------------------------------------------------------------
(* ResolvedReachesAll: a part of publish that has ended well has left a copy in the
   queue it was sent to, and publish resolves with all its parts. *)
IsIn(m, q) == \E i \in 1..Len(queue[q]) : queue[q][i].msg = m

Target(b, m, g) == <<target[b][m][g], g>>

Reaching ==
  /\ \A b \in Brokers, m \in Messages, g \in Groups :
       send[b][m][g] = "sent" => IsIn(m, Target(b, m, g))
  /\ \A b \in Brokers, m \in Messages :
       pub[b][m] = "resolved" => \A g \in Groups : send[b][m][g] = "sent"

(* The queue a publish writes to is one of the queues. *)
LEMMA TargetFact ==
  ASSUME Typed, NEW b \in Brokers, NEW m \in Messages, NEW g \in Groups
  PROVE  Target(b, m, g) \in Queues
  BY DEF Typed, TypeOK, Target, Queues

(* A message that has a copy in a queue keeps one while the queue evolves. *)
LEMMA IsInKept ==
  ASSUME Typed, Evolves, NEW m, NEW q \in Queues, IsIn(m, q)
  PROVE  IsIn(m, q)'
  <1>1. PICK i \in 1..Len(queue[q]) : queue[q][i].msg = m
    BY DEF IsIn
  <1>2. queue'[q][i].msg = m /\ Len(queue[q]) <= Len(queue'[q])
    BY <1>1 DEF Evolves
  <1>3. Len(queue[q]) \in Nat /\ Len(queue'[q]) \in Nat
    <2>1. queue'[q] \in Seq(Copies)
      BY DEF Evolves
    <2> QED
      BY <2>1, CopyFact, LenProperties
  <1>4. i \in 1..Len(queue'[q])
    BY <1>2, <1>3
  <1> QED
    BY <1>2, <1>4 DEF IsIn

(* A step in which no part of publish ends well, and no publish resolves. *)
LEMMA ReachingKept ==
  ASSUME Typed, Reaching, Evolves,
         \A b \in Brokers, m \in Messages :
           /\ pub'[b][m] = "resolved" => pub[b][m] = "resolved"
           /\ \A g \in Groups :
                \/ send'[b][m][g] = send[b][m][g] /\ target'[b][m][g] = target[b][m][g]
                \/ send'[b][m][g] # "sent" /\ pub'[b][m] # "resolved"
  PROVE  Reaching'
  <1>1. ASSUME NEW b \in Brokers, NEW m \in Messages, NEW g \in Groups,
               send'[b][m][g] = "sent"
        PROVE  IsIn(m, Target(b, m, g))'
    <2>1. send[b][m][g] = "sent" /\ target'[b][m][g] = target[b][m][g]
      BY <1>1
    <2>2. IsIn(m, Target(b, m, g)) /\ Target(b, m, g) \in Queues
      BY <2>1, TargetFact DEF Reaching
    <2>3. Target(b, m, g)' = Target(b, m, g)
      BY <2>1 DEF Target
    <2>4. \A q \in Queues : IsIn(m, q) => IsIn(m, q)'
      BY IsInKept
    <2> QED
      BY <2>2, <2>3, <2>4 DEF IsIn
  <1>2. \A b \in Brokers, m \in Messages :
          pub'[b][m] = "resolved" => \A g \in Groups : send'[b][m][g] = "sent"
    BY DEF Reaching
  <1> QED
    BY <1>1, <1>2 DEF Reaching

(* A publish call adds a group to its list only once it has stored the *)
(* message there.                                                      *)
LEMMA PublishReaching ==
  ASSUME Typed, Reaching, NEW b \in Brokers, NEW m \in Messages, Publish(b, m)
  PROVE  Reaching'
  <1>0. Evolves /\ PubTyped
    BY PublishTyped DEF Typed, TypeOK, PubTyped, SendStates
  <1>1. CASE PublishCall(b, m)
    <2>1. \A d \in Brokers, l \in Messages :
            \/ pub'[d][l] = pub[d][l] /\ send'[d][l] = send[d][l] /\ target'[d][l] = target[d][l]
            \/ /\ pub'[d][l] = "pending"
               /\ \A g \in Groups : send'[d][l][g] \in {"lookup", "sending"}
      BY <1>0, <1>1 DEF PublishCall, PubTyped
    <2> QED
      BY <1>0, <2>1, ReachingKept
  <1>2. CASE PublishDone(b, m)
    <2>1. UNCHANGED <<send, target, queue>>
      BY <1>2 DEF PublishDone, service
    <2>2. \A d \in Brokers, l \in Messages : pub'[d][l] = "resolved" =>
            pub[d][l] = "resolved" \/ \A g \in Groups : send[d][l][g] = "sent"
      BY <1>0, <1>2 DEF PublishDone, PubTyped
    <2> QED
      BY <2>1, <2>2 DEF Reaching, IsIn, Target
  <1>3. ASSUME NEW g \in Groups, PublishEnsure(b, m, g)
        PROVE  Reaching'
    <2>1. PICK next \in {"found", "create", "missing"} :
            /\ EnsureAnswer(b, g, TRUE, send[b][m][g], next)
            /\ send' = [send EXCEPT ![b][m][g] =
                     [found |-> "sending", create |-> "create", missing |-> "failed"][next]]
      BY <1>3 DEF PublishEnsure
    <2>2. [found |-> "sending", create |-> "create", missing |-> "failed"][next] # "sent"
      OBVIOUS
    <2>3. send[b][m][g] # "sent"
      BY <2>1 DEF EnsureAnswer
    <2>4. UNCHANGED <<pub, target>>
      BY <1>3 DEF PublishEnsure
    <2>5. \A d \in Brokers, l \in Messages, k \in Groups :
            IF d = b /\ l = m /\ k = g THEN send'[d][l][k] # "sent"
                                       ELSE send'[d][l][k] = send[d][l][k]
      BY <1>0, <2>1, <2>2 DEF PubTyped
    <2>6. pub[b][m] # "resolved"
      BY <2>3 DEF Reaching
    <2> QED
      BY <1>0, <2>4, <2>5, <2>6, ReachingKept
  <1>4. ASSUME NEW g \in Groups, NEW prio \in Prios, SendMessage(b, m, g, prio)
        PROVE  Reaching'
    <2>1. PICK result \in {"sent", "failed"} :
            /\ result = "sent" => queue' # queue
            /\ send' = [send EXCEPT ![b][m][g] = result]
      BY <1>4 DEF SendMessage
    <2>2. UNCHANGED <<pub, target>> /\ send[b][m][g] = "sending"
      BY <1>4 DEF SendMessage
    <2>3. \A d \in Brokers, l \in Messages, k \in Groups :
            IF d = b /\ l = m /\ k = g THEN send'[d][l][k] = result
                                       ELSE send'[d][l][k] = send[d][l][k]
      BY <1>0, <2>1 DEF PubTyped
    <2>4. pub[b][m] # "resolved"
      BY <2>2 DEF Reaching
    <2>5. CASE result = "failed"
      BY <1>0, <2>2, <2>3, <2>4, <2>5, ReachingKept
    <2>6. CASE result = "sent"
      <3>1. Target(b, m, g) \in Queues
        BY TargetFact
      <3>2. Store(Target(b, m, g), m, prio)
        BY <1>4, <2>1, <2>6 DEF SendMessage, Target
      <3>3. IsIn(m, Target(b, m, g))'
        <4>1. /\ Len(queue'[Target(b, m, g)]) = Len(queue[Target(b, m, g)]) + 1
              /\ queue'[Target(b, m, g)][Len(queue[Target(b, m, g)]) + 1].msg = m
          BY <3>1, <3>2, StoreEvolves
        <4>2. Len(queue[Target(b, m, g)]) \in Nat
          BY <3>1, CopyFact
        <4>3. Len(queue[Target(b, m, g)]) + 1 \in 1..Len(queue'[Target(b, m, g)])
          BY <4>1, <4>2
        <4>4. \E i \in 1..Len(queue'[Target(b, m, g)]) : queue'[Target(b, m, g)][i].msg = m
          BY <4>1, <4>3
        <4>5. Target(b, m, g)' = Target(b, m, g)
          BY <2>2 DEF Target
        <4> QED
          BY <4>4, <4>5 DEF IsIn
      <3>4. ASSUME NEW d \in Brokers, NEW l \in Messages, NEW k \in Groups,
                   send'[d][l][k] = "sent"
            PROVE  IsIn(l, Target(d, l, k))'
        <4>1. CASE d = b /\ l = m /\ k = g
          BY <3>3, <4>1
        <4>2. CASE ~(d = b /\ l = m /\ k = g)
          <5>1. send[d][l][k] = "sent"
            BY <2>3, <3>4, <4>2
          <5>2. IsIn(l, Target(d, l, k)) /\ Target(d, l, k) \in Queues
            BY <5>1, TargetFact DEF Reaching
          <5>3. Target(d, l, k)' = Target(d, l, k)
            BY <2>2 DEF Target
          <5> QED
            BY <1>0, <5>2, <5>3, IsInKept DEF IsIn
        <4> QED
          BY <4>1, <4>2
      <3>5. \A d \in Brokers, l \in Messages :
              pub'[d][l] = "resolved" => \A k \in Groups : send'[d][l][k] = "sent"
        BY <2>2, <2>3, <2>4 DEF Reaching
      <3> QED
        BY <3>4, <3>5 DEF Reaching
    <2> QED
      BY <2>5, <2>6
  <1> QED
    BY <1>1, <1>2, <1>3, <1>4 DEF Publish

(* Every step keeps what a publish call has reached. *)
LEMMA StepReaching ==
  ASSUME Typed, Reaching, [Next]_vars
  PROVE  Reaching'
  <1>0. Evolves
    BY StepEvolves
  <1>1. ASSUME UNCHANGED publishing
        PROVE  Reaching'
    BY <1>0, <1>1, ReachingKept DEF publishing
  <1>2. ASSUME NEW b \in Brokers, Close(b)
        PROVE  Reaching'
    BY <1>1, <1>2 DEF Close
  <1>3. ASSUME NEW b \in Brokers, NEW m \in Messages, Publish(b, m)
        PROVE  Reaching'
    BY <1>3, PublishReaching
  <1>4. CASE UNCHANGED vars
    BY <1>1, <1>4 DEF vars
  <1> QED
    BY <1>1, <1>2, <1>3, <1>4, SubscribeTyped, LoopEffect, DeleteEffect, ServiceEvolves DEF Next

(* When publish resolves, each group's queue has a copy of the message, whatever
   failed, raced or came from the cache before, and also when the call is a retry
   (aws_sqs/src/index.ts:41-74, 112-133). *)
THEOREM ReachesAll == Spec => []ResolvedReachesAll
  <1>1. Init => Typed /\ Reaching
    BY InitTyped DEF Init, Reaching
  <1>2. Typed /\ Reaching /\ [Next]_vars => (Typed /\ Reaching)'
    BY StepTyped, StepReaching
  <1>3. Typed /\ Reaching => ResolvedReachesAll
    <2> SUFFICES ASSUME Typed, Reaching, NEW b \in Brokers, NEW m \in Messages,
                        pub[b][m] = "resolved", NEW g \in Groups
                 PROVE  \E i \in 1..MaxCopies : /\ i <= Len(queue[Target(b, m, g)])
                                                /\ queue[Target(b, m, g)][i].msg = m
      BY DEF ResolvedReachesAll, Target
    <2>1. PICK i \in 1..Len(queue[Target(b, m, g)]) : queue[Target(b, m, g)][i].msg = m
      BY DEF Reaching, IsIn
    <2>2. /\ Len(queue[Target(b, m, g)]) \in Nat /\ Len(queue[Target(b, m, g)]) <= MaxCopies
          /\ MaxCopies \in Nat
      BY TargetFact, CopyFact, Bounds DEF Typed
    <2>3. i \in 1..MaxCopies /\ i <= Len(queue[Target(b, m, g)])
      BY <2>2
    <2> QED
      BY <2>1, <2>3
  <1> QED
    BY <1>1, <1>2, <1>3, PTL DEF Spec

-----------------------------------------------------------------------------
(* OneLoopPerCopy: what a loop has in hand is invisible to the others until its
   visibility timeout runs out, of which the loop's expired takes note. *)
Invisible ==
  \A b \in Brokers, g \in Groups : \A h \in ToSet(batch[b][g]) :
    /\ h.queue \in Queues /\ h.copy \in 1..Len(queue[h.queue])
    /\ h \in expired[b][g] \/ queue[h.queue][h.copy].state \notin {"visible", "delayed"}

OneLoop == OneLoopPerCopy /\ Invisible

(* A step in which no loop takes anything. *)
LEMMA OneLoopKept ==
  ASSUME Typed, OneLoop, Evolves, Remembers,
         \A b \in Brokers, g \in Groups : ToSet(batch'[b][g]) \subseteq ToSet(batch[b][g])
  PROVE  OneLoop'
  <1>1. OneLoopPerCopy'
    BY DEF OneLoop, OneLoopPerCopy, Remembers
  <1>2. ASSUME NEW b \in Brokers, NEW g \in Groups, NEW h \in ToSet(batch'[b][g])
        PROVE  /\ h.queue \in Queues /\ h.copy \in 1..Len(queue'[h.queue])
               /\ \/ h \in expired'[b][g]
                  \/ queue'[h.queue][h.copy].state \notin {"visible", "delayed"}
    <2>1. /\ h \in ToSet(batch[b][g])
          /\ h.queue \in Queues /\ h.copy \in 1..Len(queue[h.queue])
          /\ \/ h \in expired[b][g]
             \/ queue[h.queue][h.copy].state \notin {"visible", "delayed"}
      BY DEF OneLoop, Invisible
    <2>2. h \in expired[b][g] => h \in expired'[b][g]
      BY <1>2 DEF Remembers
    <2>3. Len(queue[h.queue]) \in Nat /\ Len(queue'[h.queue]) \in Nat
      <3>1. queue'[h.queue] \in Seq(Copies)
        BY <2>1 DEF Evolves
      <3> QED
        BY <2>1, <3>1, CopyFact, LenProperties
    <2>4. h.copy \in 1..Len(queue'[h.queue])
      BY <2>1, <2>3 DEF Evolves
    <2>5. RunsOut(h.queue, h.copy) => h \in expired'[b][g]
      BY <2>1 DEF RunsOut
    <2>6. \/ h \in expired'[b][g]
          \/ queue'[h.queue][h.copy].state \notin {"visible", "delayed"}
      BY <2>1, <2>2, <2>5 DEF Evolves
    <2> QED
      BY <2>1, <2>4, <2>6
  <1> QED
    BY <1>1, <1>2 DEF OneLoop, Invisible

(* A step of a loop takes no copy that another loop has in hand, unless its timeout
   has run out there. *)
LEMMA LoopOneLoop ==
  ASSUME Typed, OneLoop, NEW b \in Brokers, NEW g \in Groups, Loop(b, g)
  PROVE  OneLoop'
  <1>0. [Next]_vars
    BY DEF Next
  <1>1. Evolves /\ Runs(b, g) /\ Remembers
    BY <1>0, StepEvolves, LoopEffect
  <1>2. \A d \in Brokers, k \in Groups : ~(d = b /\ k = g) => batch'[d][k] = batch[d][k]
    BY <1>1, LoopFact DEF Runs
  <1>3. CASE ToSet(batch'[b][g]) \subseteq ToSet(batch[b][g])
    BY <1>1, <1>2, <1>3, OneLoopKept
  <1>4. ASSUME NEW S, Took(b, g, S)
        PROVE  OneLoop'
    <2> DEFINE q == <<source[b][g], g>>
    <2>1. q \in Queues
      BY LoopFact DEF Queues
    <2>2. HandOut(q, S) /\ \A h \in ToSet(batch'[b][g]) : h.queue = q /\ h.copy \in S
      BY <1>4 DEF Took
    <2>3. /\ \A i \in S : queue'[q][i].state = "inflight"
          /\ \A r \in Queues : \A i \in 1..Len(queue[r]) :
               r # q \/ i \notin S => queue'[r][i] = queue[r][i]
      BY <2>1, <2>2, HandsOutEvolves
    <2>4. \A i \in S : i \in 1..Len(queue[q]) /\ queue[q][i].state = "visible"
      BY <2>2 DEF HandOut, Receivable
    <2>5. \A r \in Queues : \A i \in 1..Len(queue[r]) : i \in 1..Len(queue'[r])
      <3>1. \A r \in Queues : Len(queue[r]) \in Nat /\ Len(queue'[r]) \in Nat
        <4>1. \A r \in Queues : queue'[r] \in Seq(Copies)
          BY <1>1 DEF Evolves
        <4> QED
          BY <4>1, CopyFact, LenProperties
      <3>2. \A r \in Queues : Len(queue[r]) <= Len(queue'[r])
        BY <1>1 DEF Evolves
      <3> QED
        BY <3>1, <3>2
    <2>6. ASSUME NEW d \in Brokers, NEW k \in Groups, ~(d = b /\ k = g),
                 NEW h \in ToSet(batch'[d][k])
          PROVE  /\ h.queue \in Queues /\ h.copy \in 1..Len(queue[h.queue])
                 /\ \/ h \in expired'[d][k]
                    \/ /\ queue[h.queue][h.copy].state \notin {"visible", "delayed"}
                       /\ ~(h.queue = q /\ h.copy \in S)
      <3>1. h \in ToSet(batch[d][k])
        BY <1>2, <2>6
      <3>2. h \in expired[d][k] => h \in expired'[d][k]
        BY <1>1, <2>6 DEF Remembers
      <3> QED
        BY <2>4, <3>1, <3>2 DEF OneLoop, Invisible
    <2> HIDE DEF q
    <2>7. Invisible'
      <3> SUFFICES ASSUME NEW d \in Brokers, NEW k \in Groups, NEW h \in ToSet(batch'[d][k])
                   PROVE  /\ h.queue \in Queues /\ h.copy \in 1..Len(queue'[h.queue])
                          /\ \/ h \in expired'[d][k]
                             \/ queue'[h.queue][h.copy].state \notin {"visible", "delayed"}
        BY DEF Invisible
      <3>1. CASE d = b /\ k = g
        BY <2>1, <2>2, <2>3, <2>4, <2>5, <3>1
      <3>2. CASE ~(d = b /\ k = g)
        BY <2>3, <2>5, <2>6, <3>2
      <3> QED
        BY <3>1, <3>2
    <2>8. OneLoopPerCopy'
      <3> SUFFICES ASSUME NEW d \in Brokers, NEW e \in Brokers, NEW k \in Groups, NEW l \in Groups,
                          NEW h \in ToSet(batch'[d][k]), NEW j \in ToSet(batch'[e][l]),
                          h.queue = j.queue, h.copy = j.copy, <<d, k>> # <<e, l>>
                   PROVE  h \in expired'[d][k] \/ j \in expired'[e][l]
        BY DEF OneLoopPerCopy
      <3>1. CASE d = b /\ k = g
        <4>1. ~(e = b /\ l = g)
          BY <3>1
        <4> QED
          BY <2>2, <2>6, <3>1, <4>1
      <3>2. CASE e = b /\ l = g
        <4>1. ~(d = b /\ k = g)
          BY <3>2
        <4> QED
          BY <2>2, <2>6, <3>2, <4>1
      <3>3. CASE ~(d = b /\ k = g) /\ ~(e = b /\ l = g)
        <4>1. h \in ToSet(batch[d][k]) /\ j \in ToSet(batch[e][l])
          BY <1>2, <3>3
        <4>2. h \in expired[d][k] \/ j \in expired[e][l]
          BY <4>1 DEF OneLoop, OneLoopPerCopy
        <4> QED
          BY <1>1, <4>2 DEF Remembers
      <3> QED
        BY <3>1, <3>2, <3>3
    <2> QED
      BY <2>7, <2>8 DEF OneLoop
  <1> QED
    BY <1>3, <1>4, LoopEffect

(* Every step keeps a copy with one loop, or takes note of the timeout. *)
LEMMA StepOneLoop ==
  ASSUME Typed, OneLoop, [Next]_vars
  PROVE  OneLoop'
  <1>0. Evolves
    BY StepEvolves
  <1>1. ASSUME UNCHANGED <<batch, expired>>
        PROVE  OneLoop'
    BY <1>0, <1>1, OneLoopKept, KeptRemembers
  <1>2. ASSUME NEW b \in Brokers, Close(b)
        PROVE  OneLoop'
    BY <1>1, <1>2 DEF Close, polling
  <1>3. ASSUME NEW b \in Brokers, NEW h \in deletes[b], DeleteMessage(b, h)
        PROVE  OneLoop'
    BY <1>0, <1>3, DeleteEffect, OneLoopKept
  <1>4. ASSUME NEW b \in Brokers, NEW m \in Messages, Publish(b, m)
        PROVE  OneLoop'
    BY <1>1, <1>4, PublishTyped DEF polling
  <1>5. ASSUME NEW q \in Queues, Service(q)
        PROVE  OneLoop'
    BY <1>0, <1>5, ServiceEvolves, OneLoopKept
  <1>6. CASE UNCHANGED vars
    BY <1>1, <1>6 DEF vars, polling
  <1> QED
    BY <1>1, <1>2, <1>3, <1>4, <1>5, <1>6, SubscribeTyped, LoopOneLoop DEF Next

(* Two poll loops, in whichever processes and regions they run, have the same copy in
   hand only when its visibility timeout has run out in the hand of one of them: under
   the handler, or while the copy waited for its turn in the batch of up to maxMessages
   that the loop handles one after the other (aws_sqs/src/index.ts:152-192). *)
THEOREM OneLoopEach == Spec => []OneLoopPerCopy
  <1>1. Init => Typed /\ OneLoop
    BY InitTyped DEF Init, OneLoop, OneLoopPerCopy, Invisible, ToSet
  <1>2. Typed /\ OneLoop /\ [Next]_vars => (Typed /\ OneLoop)'
    BY StepTyped, StepOneLoop
  <1>3. OneLoop => OneLoopPerCopy
    BY DEF OneLoop
  <1> QED
    BY <1>1, <1>2, <1>3, PTL DEF Spec
=============================================================================
