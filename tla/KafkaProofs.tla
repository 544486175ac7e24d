---------------------------- MODULE KafkaProofs ----------------------------
(***************************************************************************)
(* What Kafka.tla's model of the Kafka adapter guarantees for every number *)
(* of processes, groups, partitions and messages, every handler, both      *)
(* values of CommitDelta and every environment.                            *)
(***************************************************************************)
EXTENDS Kafka, FiniteSetTheorems, SequenceTheorems, TLAPS

(* One entry of a table is replaced. *)
LEMMA EntryFact ==
  ASSUME NEW I, NEW J, NEW V, NEW f \in [I -> [J -> V]], NEW i \in I, NEW j \in J, NEW v \in V
  PROVE  /\ [f EXCEPT ![i][j] = v] \in [I -> [J -> V]]
         /\ \A x \in I, y \in J :
              [f EXCEPT ![i][j] = v][x][y] = IF x = i /\ y = j THEN v ELSE f[x][y]
  OBVIOUS

(* An element is appended to the sequence of c. *)
LEMMA AppendFact ==
  ASSUME NEW I, NEW S, NEW f \in [I -> Seq(S)], NEW c \in I, NEW e \in S
  PROVE  LET h == [f EXCEPT ![c] = Append(@, e)]
         IN  /\ h \in [I -> Seq(S)]
             /\ \A d \in I :
                  /\ Len(f[d]) \in Nat /\ Len(h[d]) \in Nat
                  /\ Len(h[d]) = IF d = c THEN Len(f[d]) + 1 ELSE Len(f[d])
                  /\ \A i \in 1..Len(f[d]) : h[d][i] = f[d][i]
                  /\ d # c => h[d] = f[d]
             /\ h[c][Len(f[c]) + 1] = e
  <1> DEFINE h == [f EXCEPT ![c] = Append(@, e)]
  <1>1. /\ Append(f[c], e) \in Seq(S) /\ Len(Append(f[c], e)) = Len(f[c]) + 1
        /\ \A i \in 1..Len(f[c]) : Append(f[c], e)[i] = f[c][i]
        /\ Append(f[c], e)[Len(f[c]) + 1] = e
    BY AppendProperties
  <1>2. \A d \in I : Len(f[d]) \in Nat
    BY LenProperties
  <1>3. h \in [I -> Seq(S)] /\ \A d \in I : h[d] = IF d = c THEN Append(f[c], e) ELSE f[d]
    BY <1>1
  <1> HIDE DEF h
  <1>4. \A d \in I : Len(h[d]) \in Nat
    BY <1>3, LenProperties
  <1>5. /\ h \in [I -> Seq(S)]
        /\ \A d \in I :
             /\ Len(f[d]) \in Nat /\ Len(h[d]) \in Nat
             /\ Len(h[d]) = IF d = c THEN Len(f[d]) + 1 ELSE Len(f[d])
             /\ \A i \in 1..Len(f[d]) : h[d][i] = f[d][i]
             /\ d # c => h[d] = f[d]
        /\ h[c][Len(f[c]) + 1] = e
    BY <1>1, <1>2, <1>3, <1>4
  <1> QED
    BY <1>5 DEF h

-----------------------------------------------------------------------------
(* The invariant: the types, and where offsets come from. *)

ProcessStates == {"new", "connected", "flushing", "flushed", "disconnected", "dead"}

ProducingTyped ==
  /\ topic \in BOOLEAN /\ log \in [Partitions -> Seq(Messages)]
  /\ process \in [Clients -> ProcessStates] /\ late \subseteq Messages
  /\ pub \in [Clients -> [Messages -> {"idle", "ensuring", "producing",
                                       "resolved", "rejected"}]]
  /\ outbox \in [Clients -> SUBSET (Messages \X Prios)]

GroupsTyped ==
  /\ consumer \in [Clients -> {"idle", "ensuring", "connecting", "joined", "gone"}]
  /\ group \in [Clients -> Groups] /\ stable \subseteq Groups
  /\ owner \in [Groups -> [Partitions -> Clients \cup {NoClient}]]
  /\ position \in [Groups -> [Partitions -> Nat]]
  /\ \A g \in Groups, p \in Partitions : position[g][p] <= Len(log[p])

HandlersTyped ==
  /\ deliveries \in [Clients -> Seq(Offsets)]
  /\ running \in [Clients -> SUBSET Nat]
  /\ called \in [Clients -> [{"ack", "nack"} -> SUBSET Nat]]
  /\ commits \in [Clients -> Seq(Offsets)]
  /\ \A c \in Clients :
       /\ running[c] \subseteq 1..Len(deliveries[c])
       /\ \A call \in {"ack", "nack"} : called[c][call] \subseteq 1..Len(deliveries[c])

CommittedTyped == committed \in [Groups -> [Partitions -> Nat \cup {NoOffset}]]

(* What has been delivered stands in the log. *)
Delivered ==
  \A c \in Clients : \A t \in 1..Len(deliveries[c]) :
    deliveries[c][t][2] < Len(log[deliveries[c][t][1]])

(* A commit under way is the offset of a message whose ack was called. *)
AckedBy(c, o) == \E t \in called[c]["ack"] : deliveries[c][t] = o

UnderWay == \A c \in Clients : \A i \in 1..Len(commits[c]) : AckedBy(c, commits[c][i])

Inv ==
  /\ ProducingTyped /\ GroupsTyped /\ HandlersTyped /\ CommittedTyped
  /\ Delivered /\ UnderWay /\ CommitComesFromAck

(* The inductive invariant holds in the initial state. *)
LEMMA InitInv == Init => Inv
  <1> SUFFICES ASSUME Init PROVE Inv
    OBVIOUS
  <1> USE DEF Init
  <1>1. ProducingTyped
    BY EmptySeq DEF ProducingTyped, ProcessStates
  <1>2. GroupsTyped
    BY DEF GroupsTyped
  <1>3. HandlersTyped
    BY EmptySeq DEF HandlersTyped
  <1>4. CommittedTyped /\ CommitComesFromAck
    BY DEF CommittedTyped, CommitComesFromAck
  <1>5. Delivered /\ UnderWay
    BY DEF Delivered, UnderWay
  <1> QED
    BY <1>1, <1>2, <1>3, <1>4, <1>5 DEF Inv

(* The inductive invariant contains the types the runs check. *)
LEMMA InvType == Inv => TypeOK
  <1> SUFFICES ASSUME Inv, NEW g \in Groups, NEW p \in Partitions, committed[g][p] # NoOffset
               PROVE  committed[g][p] \in 0..Len(log[p])
    BY DEF Inv, ProcessStates, ProducingTyped, GroupsTyped, HandlersTyped, CommittedTyped, TypeOK
  <1>1. PICK o \in 0..(Len(log[p]) - 1) : committed[g][p] = o + CommitDelta
    BY DEF Inv, CommitComesFromAck
  <1>2. Len(log[p]) \in Nat
    BY LenProperties DEF Inv, ProducingTyped
  <1>3. CommitDelta \in {0, 1}
    BY KafkaAssumption
  <1> QED
    BY <1>1, <1>2, <1>3

-----------------------------------------------------------------------------
(* Producers and the log, which only grows. *)

Grows ==
  /\ log' \in [Partitions -> Seq(Messages)]
  /\ \A p \in Partitions :
       /\ Len(log[p]) \in Nat /\ Len(log'[p]) \in Nat /\ Len(log[p]) <= Len(log'[p])
       /\ \A i \in 1..Len(log[p]) : log'[p][i] = log[p][i]

(* An offset inside a log stays inside a log that grows. *)
LEMMA Longer ==
  ASSUME Grows, NEW p \in Partitions, NEW n \in Nat
  PROVE  /\ n <= Len(log[p]) => n <= Len(log'[p])
         /\ n < Len(log[p]) => n < Len(log'[p])
  <1>1. Len(log[p]) \in Nat /\ Len(log'[p]) \in Nat /\ Len(log[p]) <= Len(log'[p])
    BY DEF Grows
  <1>2. ASSUME NEW a \in Nat, NEW b \in Nat, a <= b
        PROVE  (n <= a => n <= b) /\ (n < a => n < b)
    BY <1>2
  <1> QED
    BY <1>1, <1>2

(* A log that does not change grows in the sense of Grows. *)
LEMMA SameGrows == ProducingTyped /\ UNCHANGED log => Grows
  BY LenProperties DEF ProducingTyped, Grows

(* A write adds one message at the end of one partition's log. *)
LEMMA WriteGrows ==
  ASSUME ProducingTyped, NEW p \in Partitions, NEW m \in Messages, Write(p, m)
  PROVE  /\ Grows
         /\ \A q \in Partitions : q # p => log'[q] = log[q]
         /\ Len(log[p]) < MaxLog /\ Len(log'[p]) = Len(log[p]) + 1
         /\ log'[p][Len(log[p]) + 1] = m
  <1>1. log \in [Partitions -> Seq(Messages)] /\ log' = [log EXCEPT ![p] = Append(@, m)]
    BY DEF ProducingTyped, Write
  <1>2. Len(log[p]) < MaxLog
    BY DEF Write
  <1>3. /\ log' \in [Partitions -> Seq(Messages)]
        /\ \A q \in Partitions :
             /\ Len(log[q]) \in Nat /\ Len(log'[q]) \in Nat
             /\ Len(log'[q]) = IF q = p THEN Len(log[q]) + 1 ELSE Len(log[q])
             /\ \A i \in 1..Len(log[q]) : log'[q][i] = log[q][i]
             /\ q # p => log'[q] = log[q]
        /\ log'[p][Len(log[p]) + 1] = m
    BY <1>1, AppendFact
  <1>4. \A q \in Partitions : Len(log[q]) <= Len(log'[q])
    BY <1>3
  <1> QED
    BY <1>2, <1>3, <1>4 DEF Grows

(* A step of a publish call moves that call alone, to a stage it has. *)
LEMMA PubStepTyped ==
  ASSUME ProducingTyped, NEW c \in Clients, NEW m \in Messages, NEW from,
         NEW to \in {"ensuring", "producing", "resolved", "rejected"}, PubStep(c, m, from, to)
  PROVE  /\ pub' \in [Clients -> [Messages -> {"idle", "ensuring", "producing",
                                               "resolved", "rejected"}]]
         /\ pub[c][m] = from
         /\ \A d \in Clients, l \in Messages :
              pub'[d][l] = IF d = c /\ l = m THEN to ELSE pub[d][l]
  BY EntryFact DEF ProducingTyped, PubStep

(* The producer's call fills its local queue, keeps the types and writes *)
(* nothing.                                                              *)
LEMMA ProduceTyped ==
  ASSUME ProducingTyped, NEW c \in Clients, NEW m \in Messages, NEW prio \in Prios,
         Produce(c, m, prio)
  PROVE  ProducingTyped' /\ Grows
  <1>1. /\ pub' \in [Clients -> [Messages -> {"idle", "ensuring", "producing",
                                              "resolved", "rejected"}]]
    BY PubStepTyped DEF Produce
  <1>2. outbox' \in [Clients -> SUBSET (Messages \X Prios)] /\ late' \subseteq Messages
    BY DEF Produce, ProducingTyped
  <1>3. UNCHANGED <<topic, log, process>>
    BY DEF Produce
  <1> QED
    BY <1>1, <1>2, <1>3, SameGrows DEF ProducingTyped

(* A request sent again keeps the types and at most extends the log. *)
LEMMA TransmitTyped ==
  ASSUME ProducingTyped, NEW c \in Clients, NEW m \in Messages, NEW prio \in Prios,
         Transmit(c, m, prio)
  PROVE  ProducingTyped' /\ Grows
  <1>1. outbox' \in [Clients -> SUBSET (Messages \X Prios)]
    BY DEF Transmit, ProducingTyped
  <1>2. UNCHANGED <<topic, process, pub, late>>
    BY DEF Transmit
  <1>3. Grows
    BY SameGrows, WriteGrows DEF Transmit
  <1> QED
    BY <1>1, <1>2, <1>3 DEF ProducingTyped, Grows

(* A publish keeps its types and touches no group, offset or handler. *)
LEMMA PublishTyped ==
  ASSUME ProducingTyped, NEW c \in Clients, NEW m \in Messages, Publish(c, m)
  PROVE  ProducingTyped' /\ Grows /\ UNCHANGED <<groups, committed, handlers, commits>>
  <1>1. ASSUME NEW ensure \in BOOLEAN, PublishCall(c, m, ensure)
        PROVE  ProducingTyped' /\ Grows
    <2>1. (IF ensure THEN "ensuring" ELSE "producing") \in
             {"ensuring", "producing", "resolved", "rejected"}
      OBVIOUS
    <2>2. pub' \in [Clients -> [Messages -> {"idle", "ensuring", "producing",
                                              "resolved", "rejected"}]]
      BY <1>1, <2>1, PubStepTyped DEF PublishCall
    <2>3. UNCHANGED <<topic, log, process, late, outbox>>
      BY <1>1 DEF PublishCall
    <2> QED
      BY <2>2, <2>3, SameGrows DEF ProducingTyped
  <1>2. ASSUME PublishEnsure(c, m)
        PROVE  ProducingTyped' /\ Grows
    <2>1. pub' \in [Clients -> [Messages -> {"idle", "ensuring", "producing",
                                              "resolved", "rejected"}]]
      BY <1>2, PubStepTyped DEF PublishEnsure
    <2>2. topic' \in BOOLEAN /\ UNCHANGED <<log, process, late, outbox>>
      BY <1>2 DEF PublishEnsure, ProducingTyped
    <2> QED
      BY <2>1, <2>2, SameGrows DEF ProducingTyped
  <1>3. UNCHANGED <<groups, committed, handlers, commits>>
    BY DEF Publish, PublishCall, PublishEnsure, Produce, Transmit
  <1> QED
    BY <1>1, <1>2, <1>3, ProduceTyped, TransmitTyped DEF Publish

(* Every step keeps the producers' part, and the log grows. *)
LEMMA StepGrows ==
  ASSUME ProducingTyped, [Next]_vars
  PROVE  ProducingTyped' /\ Grows
  <1>1. ASSUME UNCHANGED producing
        PROVE  ProducingTyped' /\ Grows
    BY <1>1, SameGrows DEF producing, ProducingTyped
  <1>2. ASSUME NEW c \in Clients, Connect(c) \/ Close(c) \/ Flushed(c) \/ Disconnect(c)
        PROVE  ProducingTyped' /\ Grows
    <2>1. UNCHANGED <<topic, log, pub, late>>
      BY <1>2 DEF Connect, Close, Flushed, Disconnect, ProcessStep
    <2>2. /\ process' \in [Clients -> ProcessStates]
          /\ outbox' \in [Clients -> SUBSET (Messages \X Prios)]
      BY <1>2 DEF Connect, Close, Flushed, Disconnect, ProcessStep, ProducingTyped, ProcessStates
    <2> QED
      BY <2>1, <2>2, SameGrows DEF ProducingTyped
  <1>3. ASSUME NEW c \in Clients, ProcessEnds(c)
        PROVE  ProducingTyped' /\ Grows
    <2>1. UNCHANGED <<topic, log, pub, late>>
      BY <1>3 DEF ProcessEnds
    <2>2. /\ process' \in [Clients -> ProcessStates]
          /\ outbox' \in [Clients -> SUBSET (Messages \X Prios)]
      BY <1>3 DEF ProcessEnds, ProducingTyped, ProcessStates
    <2> QED
      BY <2>1, <2>2, SameGrows DEF ProducingTyped
  <1>4. ASSUME NEW c \in Clients, Subscribe(c)
        PROVE  ProducingTyped' /\ Grows
    <2>1. topic' \in BOOLEAN /\ UNCHANGED <<log, process, pub, late, outbox>>
      BY <1>4 DEF Subscribe, SubscribeCall, SubscribeEnsure, Ready, producing, ProducingTyped
    <2> QED
      BY <2>1, SameGrows DEF ProducingTyped
  <1>5. ASSUME NEW m \in Messages, NEW p \in Partitions, ForeignPublish(m, p)
        PROVE  ProducingTyped' /\ Grows
    <2>1. UNCHANGED <<topic, process, pub, late, outbox>> /\ Grows
      BY <1>5, WriteGrows DEF ForeignPublish
    <2> QED
      BY <2>1 DEF ProducingTyped, Grows
  <1>6. ASSUME NEW c \in Clients, NEW p \in Partitions, Data(c, p)
        PROVE  ProducingTyped' /\ Grows
    BY <1>1, <1>6 DEF Data
  <1>7. ASSUME NEW c \in Clients, NEW t \in running[c], Handler(c, t)
        PROVE  ProducingTyped' /\ Grows
    BY <1>1, <1>7 DEF Handler, HandlerCall, HandlerReturn, HandlerThrow, HandlerEnds
  <1>8. ASSUME NEW c \in Clients, CommitArrives(c)
        PROVE  ProducingTyped' /\ Grows
    BY <1>1, <1>8 DEF CommitArrives
  <1>9. ASSUME NEW g \in Groups, Rebalance(g)
        PROVE  ProducingTyped' /\ Grows
    BY <1>1, <1>9 DEF Rebalance
  <1>10. CASE UNCHANGED vars
    BY <1>1, <1>10 DEF vars
  <1> QED
    BY <1>1, <1>2, <1>3, <1>4, <1>5, <1>6, <1>7, <1>8, <1>9, <1>10, PublishTyped
    DEF Next, Crash, ParseFailure

-----------------------------------------------------------------------------
(* Consumer groups. *)

(* A step that leaves the groups alone keeps their types over a growing *)
(* log.                                                                 *)
LEMMA SameGroups ==
  ASSUME GroupsTyped, Grows, UNCHANGED groups
  PROVE  GroupsTyped'
  <1>1. \A g \in Groups, p \in Partitions : position[g][p] <= Len(log'[p])
    BY Longer DEF GroupsTyped
  <1> QED
    BY <1>1 DEF GroupsTyped, groups

(* Members come and go; partitions and positions stay. *)
LEMMA MembersGroups ==
  ASSUME GroupsTyped, Grows, UNCHANGED <<group, owner, position>>, stable' \subseteq Groups,
         consumer' \in [Clients -> {"idle", "ensuring", "connecting", "joined", "gone"}]
  PROVE  GroupsTyped'
  <1>1. \A g \in Groups, p \in Partitions : position[g][p] <= Len(log'[p])
    BY Longer DEF GroupsTyped
  <1> QED
    BY <1>1 DEF GroupsTyped

(* The end of a process keeps the types of the groups. *)
LEMMA ProcessEndsGroups ==
  ASSUME GroupsTyped, Grows, NEW c \in Clients, ProcessEnds(c)
  PROVE  GroupsTyped'
  <1>1. UNCHANGED <<group, owner, position>>
    BY DEF ProcessEnds
  <1>2. stable' \subseteq Groups
    BY DEF ProcessEnds, GroupsTyped
  <1>3. consumer' \in [Clients -> {"idle", "ensuring", "connecting", "joined", "gone"}]
    BY DEF ProcessEnds, GroupsTyped
  <1> QED
    BY <1>1, <1>2, <1>3, MembersGroups

(* A subscribe call changes no group, owner, position or commit. *)
LEMMA SubscribeGroups ==
  ASSUME GroupsTyped, Grows, NEW c \in Clients, Subscribe(c)
  PROVE  /\ GroupsTyped'
         /\ UNCHANGED <<group, owner, position, committed, handlers, commits>>
  <1>1. UNCHANGED <<group, owner, position, committed, handlers, commits>>
    BY DEF Subscribe, SubscribeCall, SubscribeEnsure, Ready
  <1>2. stable' \subseteq Groups
    BY DEF Subscribe, SubscribeCall, SubscribeEnsure, Ready, GroupsTyped
  <1>3. consumer' \in [Clients -> {"idle", "ensuring", "connecting", "joined", "gone"}]
    BY DEF Subscribe, SubscribeCall, SubscribeEnsure, Ready, GroupsTyped
  <1> QED
    BY <1>1, <1>2, <1>3, MembersGroups

(* A rebalance starts each partition at an offset inside its log. *)
LEMMA RebalanceGroups ==
  ASSUME ProducingTyped, GroupsTyped, CommittedTyped, CommitComesFromAck, Grows,
         NEW g \in Groups, Rebalance(g)
  PROVE  GroupsTyped'
  <1>1. \A p \in Partitions : StartAt(g, p) \in Nat /\ StartAt(g, p) <= Len(log[p])
    <2> SUFFICES ASSUME NEW p \in Partitions
                 PROVE  StartAt(g, p) \in Nat /\ StartAt(g, p) <= Len(log[p])
      OBVIOUS
    <2>1. Len(log[p]) \in Nat
      BY DEF Grows
    <2>2. CASE committed[g][p] = NoOffset
      BY <2>1, <2>2 DEF StartAt
    <2>3. CASE committed[g][p] # NoOffset
      <3>1. PICK o \in 0..(Len(log[p]) - 1) : committed[g][p] = o + CommitDelta
        BY <2>3 DEF CommitComesFromAck
      <3>2. CommitDelta \in {0, 1}
        BY KafkaAssumption
      <3> QED
        BY <2>1, <2>3, <3>1, <3>2 DEF StartAt
    <2> QED
      BY <2>2, <2>3
  <1>2. UNCHANGED <<consumer, group>> /\ stable' = stable \cup {g}
    BY DEF Rebalance
  <1>3. PICK assignment \in [Partitions -> Members(g)] :
          owner' = [owner EXCEPT ![g] = assignment]
    BY DEF Rebalance
  <1>4. assignment \in [Partitions -> Clients \cup {NoClient}]
    BY DEF Members
  <1>5. owner' \in [Groups -> [Partitions -> Clients \cup {NoClient}]]
    BY <1>3, <1>4 DEF GroupsTyped
  <1>6. position' = [position EXCEPT ![g] = [p \in Partitions |-> StartAt(g, p)]]
    BY DEF Rebalance
  <1>7. [p \in Partitions |-> StartAt(g, p)] \in [Partitions -> Nat]
    BY <1>1
  <1>8. position' \in [Groups -> [Partitions -> Nat]]
    BY <1>6, <1>7 DEF GroupsTyped
  <1>9. \A h \in Groups, p \in Partitions :
          position'[h][p] = IF h = g THEN StartAt(g, p) ELSE position[h][p]
    BY <1>6 DEF GroupsTyped
  <1>10. \A h \in Groups, p \in Partitions : position'[h][p] <= Len(log'[p])
    <2>1. \A h \in Groups, p \in Partitions : position'[h][p] <= Len(log[p])
      BY <1>1, <1>9 DEF GroupsTyped
    <2> QED
      BY <1>8, <2>1, Longer
  <1> QED
    BY <1>2, <1>5, <1>8, <1>10 DEF GroupsTyped

(* A data event moves the position over a message that is in the log. *)
LEMMA DataGroups ==
  ASSUME ProducingTyped, GroupsTyped, Grows, NEW c \in Clients, NEW p \in Partitions, Data(c, p)
  PROVE  GroupsTyped' /\ position[group[c]][p] \in Nat /\ position[group[c]][p] < Len(log[p])
  <1> DEFINE g == group[c]
             n == position[g][p]
  <1>1. g \in Groups /\ n \in Nat /\ n < Len(log[p])
    BY DEF Data, Fetchable, GroupsTyped
  <1>2. position' = [position EXCEPT ![g][p] = n + 1]
    BY DEF Data
  <1>3. UNCHANGED <<consumer, group, stable, owner>>
    BY DEF Data
  <1>4. n + 1 \in Nat /\ n + 1 <= Len(log[p])
    BY <1>1 DEF Grows
  <1>5. position \in [Groups -> [Partitions -> Nat]]
    BY DEF GroupsTyped
  <1> HIDE DEF n, g
  <1>6. /\ position' \in [Groups -> [Partitions -> Nat]]
        /\ \A h \in Groups, q \in Partitions :
             position'[h][q] = IF h = g /\ q = p THEN n + 1 ELSE position[h][q]
    <2>1. \E to \in Nat : to = n + 1 /\ position' = [position EXCEPT ![g][p] = to]
      BY <1>2, <1>4
    <2> QED
      BY <1>1, <1>5, <2>1, EntryFact
  <1>7. \A h \in Groups, q \in Partitions : position'[h][q] <= Len(log[q])
    BY <1>4, <1>6 DEF GroupsTyped
  <1>8. \A h \in Groups, q \in Partitions : position'[h][q] <= Len(log'[q])
    BY <1>6, <1>7, Longer
  <1>9. GroupsTyped'
    BY <1>3, <1>6, <1>8 DEF GroupsTyped
  <1> QED
    BY <1>1, <1>9 DEF n, g

(* Every step keeps the types of the groups and no consumer changes its *)
(* group.                                                               *)
LEMMA StepGroups ==
  ASSUME Inv, Grows, [Next]_vars
  PROVE  GroupsTyped' /\ UNCHANGED group
  <1> USE DEF Inv
  <1>1. ASSUME UNCHANGED groups
        PROVE  GroupsTyped' /\ UNCHANGED group
    BY <1>1, SameGroups DEF groups
  <1>2. ASSUME NEW c \in Clients, Connect(c) \/ Close(c) \/ Flushed(c) \/ Disconnect(c)
        PROVE  GroupsTyped' /\ UNCHANGED group
    BY <1>1, <1>2 DEF Connect, Close, Flushed, Disconnect, ProcessStep
  <1>3. ASSUME NEW c \in Clients, NEW m \in Messages, Publish(c, m)
        PROVE  GroupsTyped' /\ UNCHANGED group
    BY <1>1, <1>3, PublishTyped
  <1>4. ASSUME NEW m \in Messages, NEW p \in Partitions, ForeignPublish(m, p)
        PROVE  GroupsTyped' /\ UNCHANGED group
    BY <1>1, <1>4 DEF ForeignPublish
  <1>5. ASSUME NEW c \in Clients, NEW t \in running[c], Handler(c, t)
        PROVE  GroupsTyped' /\ UNCHANGED group
    BY <1>1, <1>5 DEF Handler, HandlerCall, HandlerReturn, HandlerThrow, HandlerEnds
  <1>6. ASSUME NEW c \in Clients, CommitArrives(c)
        PROVE  GroupsTyped' /\ UNCHANGED group
    BY <1>1, <1>6 DEF CommitArrives
  <1>7. ASSUME NEW c \in Clients, ProcessEnds(c)
        PROVE  GroupsTyped' /\ UNCHANGED group
    BY <1>7, ProcessEndsGroups DEF ProcessEnds
  <1>8. ASSUME NEW c \in Clients, Subscribe(c)
        PROVE  GroupsTyped' /\ UNCHANGED group
    BY <1>8, SubscribeGroups
  <1>9. ASSUME NEW c \in Clients, NEW p \in Partitions, Data(c, p)
        PROVE  GroupsTyped' /\ UNCHANGED group
    BY <1>9, DataGroups DEF Data
  <1>10. ASSUME NEW g \in Groups, Rebalance(g)
        PROVE  GroupsTyped' /\ UNCHANGED group
    BY <1>10, RebalanceGroups DEF Rebalance
  <1>11. CASE UNCHANGED vars
    BY <1>1, <1>11 DEF vars
  <1> QED
    BY <1>2, <1>3, <1>4, <1>5, <1>6, <1>7, <1>8, <1>9, <1>10, <1>11
    DEF Next, Crash, ParseFailure

-----------------------------------------------------------------------------
(* Deliveries, handlers and commits. *)

(* What has been delivered and what has been called stays so. *)
Handled ==
  \A c \in Clients :
    /\ Len(deliveries[c]) \in Nat /\ Len(deliveries'[c]) \in Nat
    /\ Len(deliveries[c]) <= Len(deliveries'[c])
    /\ \A t \in 1..Len(deliveries[c]) : deliveries'[c][t] = deliveries[c][t]
    /\ called[c]["ack"] \subseteq called'[c]["ack"]

(* What a handler acknowledged stays acknowledged. *)
LEMMA AckedByKept ==
  ASSUME HandlersTyped, Handled, NEW c \in Clients, NEW o, AckedBy(c, o)
  PROVE  AckedBy(c, o)'
  BY DEF HandlersTyped, Handled, AckedBy

(* The goal of the lemmas below: the handlers' part of the invariant, after a step. *)
Handles == HandlersTyped' /\ Handled /\ Delivered' /\ UnderWay'

(* The deliveries stay offsets of the log while the log grows. *)
LEMMA DeliveredKept ==
  ASSUME HandlersTyped, Delivered, Grows, UNCHANGED deliveries
  PROVE  Delivered'
  <1> SUFFICES ASSUME NEW c \in Clients, NEW t \in 1..Len(deliveries[c])
               PROVE  deliveries[c][t][2] < Len(log'[deliveries[c][t][1]])
    BY DEF Delivered
  <1>1. deliveries[c][t] \in Offsets
    BY ElementOfSeq DEF HandlersTyped
  <1>2. /\ deliveries[c][t][1] \in Partitions /\ deliveries[c][t][2] \in Nat
        /\ deliveries[c][t][2] < Len(log[deliveries[c][t][1]])
    BY <1>1 DEF Delivered, Offsets
  <1> QED
    BY <1>2, Longer

(* A step that leaves handlers and commits alone keeps them in order over a *)
(* growing log.                                                             *)
LEMMA SameHandles ==
  ASSUME HandlersTyped, Delivered, UnderWay, Grows, UNCHANGED <<handlers, commits>>
  PROVE  Handles
  <1>1. UNCHANGED <<deliveries, running, called, commits>>
    BY DEF handlers
  <1>2. HandlersTyped'
    BY <1>1 DEF HandlersTyped
  <1>3. Handled
    BY <1>1, LenProperties DEF HandlersTyped, Handled
  <1>4. UnderWay'
    BY <1>1 DEF UnderWay, AckedBy
  <1> QED
    BY <1>1, <1>2, <1>3, <1>4, DeliveredKept DEF Handles

(* A handler settles its message, or ends, or both. *)
LEMMA SettleHandles ==
  ASSUME HandlersTyped, Delivered, UnderWay, Grows, UNCHANGED deliveries,
         NEW c \in Clients, NEW t \in running[c],
         running' \in [Clients -> SUBSET Nat],
         \A d \in Clients : running'[d] \subseteq running[d],
         Ack(c, t) \/ Nack(c, t)
  PROVE  Handles
  <1>1. t \in 1..Len(deliveries[c]) /\ t \in Nat /\ deliveries[c][t] \in Offsets
    BY ElementOfSeq DEF HandlersTyped
  <1>2. PICK call \in {"ack", "nack"} :
          /\ called' = [called EXCEPT ![c][call] = @ \cup {t}]
          /\ call = "ack" => commits' = [commits EXCEPT ![c] = Append(@, deliveries[c][t])]
          /\ call = "nack" => UNCHANGED commits
    BY DEF Ack, Nack
  <1>3. called[c][call] \cup {t} \in SUBSET Nat
    BY <1>1 DEF HandlersTyped
  <1>4. called \in [Clients -> [{"ack", "nack"} -> SUBSET Nat]]
    BY DEF HandlersTyped
  <1>5. /\ called' \in [Clients -> [{"ack", "nack"} -> SUBSET Nat]]
        /\ \A d \in Clients, x \in {"ack", "nack"} :
             called'[d][x] = IF d = c /\ x = call THEN called[c][call] \cup {t} ELSE called[d][x]
    <2>1. \E to \in SUBSET Nat : to = called[c][call] \cup {t} /\ called' = [called EXCEPT ![c][call] = to]
      BY <1>2, <1>3
    <2> QED
      BY <1>4, <2>1, EntryFact
  <1>6. commits' \in [Clients -> Seq(Offsets)]
    <2>1. commits \in [Clients -> Seq(Offsets)]
      BY DEF HandlersTyped
    <2>2. CASE call = "ack"
      <3>1. Append(commits[c], deliveries[c][t]) \in Seq(Offsets)
        BY <1>1, <2>1, AppendProperties
      <3> QED
        BY <1>2, <2>1, <2>2, <3>1
    <2>3. CASE call = "nack"
      BY <1>2, <2>1, <2>3
    <2> QED
      BY <2>2, <2>3
  <1>7. \A d \in Clients :
          /\ running'[d] \subseteq 1..Len(deliveries[d])
          /\ \A x \in {"ack", "nack"} : called'[d][x] \subseteq 1..Len(deliveries[d])
    BY <1>1, <1>5 DEF HandlersTyped
  <1>8. HandlersTyped'
    BY <1>5, <1>6, <1>7 DEF HandlersTyped
  <1>9. \A d \in Clients : Len(deliveries[d]) \in Nat
    BY LenProperties DEF HandlersTyped
  <1>10. Handled
    BY <1>5, <1>9 DEF Handled
  <1>11. UnderWay'
    <2>1. ASSUME NEW d \in Clients, NEW i \in 1..Len(commits[d])
          PROVE  AckedBy(d, commits[d][i])'
      <3>1. AckedBy(d, commits[d][i])
        BY DEF UnderWay
      <3>2. PICK u \in called[d]["ack"] : deliveries[d][u] = commits[d][i]
        BY <3>1 DEF AckedBy
      <3>3. u \in called'[d]["ack"]
        BY <1>5, <3>2
      <3>4. commits'[d][i] = commits[d][i]
        <4>1. commits \in [Clients -> Seq(Offsets)]
          BY DEF HandlersTyped
        <4>2. CASE call = "ack"
          BY <1>1, <1>2, <4>1, <4>2, AppendFact
        <4>3. CASE call = "nack"
          BY <1>2, <4>3
        <4> QED
          BY <4>2, <4>3
      <3> QED
        BY <3>2, <3>3, <3>4 DEF AckedBy
    <2>2. CASE call = "nack"
      BY <1>2, <2>1, <2>2 DEF UnderWay
    <2>3. CASE call = "ack"
      <3>1. commits \in [Clients -> Seq(Offsets)]
        BY DEF HandlersTyped
      <3>2. /\ \A d \in Clients :
                 /\ Len(commits[d]) \in Nat
                 /\ Len(commits'[d]) = IF d = c THEN Len(commits[d]) + 1 ELSE Len(commits[d])
            /\ commits'[c][Len(commits[c]) + 1] = deliveries[c][t]
        BY <1>1, <1>2, <2>3, <3>1, AppendFact
      <3>3. t \in called'[c]["ack"]
        BY <1>5, <2>3
      <3>4. ASSUME NEW d \in Clients, NEW i \in 1..Len(commits'[d])
            PROVE  AckedBy(d, commits[d][i])'
        <4>1. CASE i \in 1..Len(commits[d])
          BY <2>1, <4>1
        <4>2. CASE i \notin 1..Len(commits[d])
          <5>1. d = c /\ i = Len(commits[c]) + 1
            BY <3>2, <4>2
          <5> QED
            BY <3>2, <3>3, <5>1 DEF AckedBy
        <4> QED
          BY <4>1, <4>2
      <3> QED
        BY <3>4 DEF UnderWay
    <2> QED
      BY <2>2, <2>3
  <1> QED
    BY <1>8, <1>10, <1>11, DeliveredKept DEF Handles

(* The handler's ack, nack, return and throw keep deliveries, acks and *)
(* commits in order.                                                   *)
LEMMA HandlerHandles ==
  ASSUME HandlersTyped, Delivered, UnderWay, Grows,
         NEW c \in Clients, NEW t \in running[c], Handler(c, t)
  PROVE  Handles
  <1>1. Ack(c, t) \/ Nack(c, t)
    BY DEF Handler, HandlerCall, HandlerReturn, HandlerThrow
  <1>2. UNCHANGED deliveries
    BY DEF Handler, HandlerCall, HandlerReturn, HandlerThrow, HandlerEnds
  <1>3. running' = running \/ running' = [running EXCEPT ![c] = @ \ {t}]
    BY DEF Handler, HandlerCall, HandlerReturn, HandlerThrow, HandlerEnds
  <1>4. running \in [Clients -> SUBSET Nat]
    BY DEF HandlersTyped
  <1>5. running' \in [Clients -> SUBSET Nat] /\ \A d \in Clients : running'[d] \subseteq running[d]
    BY <1>3, <1>4
  <1> QED
    BY <1>1, <1>2, <1>5, SettleHandles

(* A data event keeps deliveries, acks and commits in order. *)
LEMMA DataHandles ==
  ASSUME ProducingTyped, GroupsTyped, HandlersTyped, Delivered, UnderWay, Grows,
         NEW c \in Clients, NEW p \in Partitions, Data(c, p)
  PROVE  Handles
  <1> DEFINE o == <<p, position[group[c]][p]>>
             n == Len(deliveries[c])
  <1>1. o \in Offsets /\ o[2] < Len(log[o[1]]) /\ o[1] \in Partitions /\ o[2] \in Nat
    BY DataGroups DEF Offsets
  <1>2. /\ deliveries' = [deliveries EXCEPT ![c] = Append(@, o)]
        /\ running' = [running EXCEPT ![c] = @ \cup {n + 1}]
        /\ UNCHANGED <<called, commits>>
    BY DEF Data
  <1> HIDE DEF o
  <1>3. deliveries \in [Clients -> Seq(Offsets)] /\ running \in [Clients -> SUBSET Nat]
    BY DEF HandlersTyped
  <1>4. /\ deliveries' \in [Clients -> Seq(Offsets)]
        /\ \A d \in Clients :
             /\ Len(deliveries[d]) \in Nat /\ Len(deliveries'[d]) \in Nat
             /\ Len(deliveries'[d]) = IF d = c THEN Len(deliveries[d]) + 1 ELSE Len(deliveries[d])
             /\ \A i \in 1..Len(deliveries[d]) : deliveries'[d][i] = deliveries[d][i]
        /\ deliveries'[c][n + 1] = o
    BY <1>1, <1>2, <1>3, AppendFact
  <1>5. \A d \in Clients : 1..Len(deliveries[d]) \subseteq 1..Len(deliveries'[d])
    BY <1>4
  <1>6. n + 1 \in Nat /\ n + 1 \in 1..Len(deliveries'[c])
    BY <1>4
  <1>7. running' \in [Clients -> SUBSET Nat]
    BY <1>2, <1>3, <1>6
  <1>8. \A d \in Clients : running'[d] \subseteq 1..Len(deliveries'[d])
    <2>1. \A d \in Clients : running[d] \subseteq 1..Len(deliveries'[d])
      BY <1>5 DEF HandlersTyped
    <2>2. \A d \in Clients : running'[d] = IF d = c THEN running[d] \cup {n + 1} ELSE running[d]
      BY <1>2, <1>3
    <2> QED
      BY <1>6, <2>1, <2>2
  <1>9. \A d \in Clients, x \in {"ack", "nack"} : called'[d][x] \subseteq 1..Len(deliveries'[d])
    BY <1>2, <1>5 DEF HandlersTyped
  <1>10. HandlersTyped'
    BY <1>2, <1>4, <1>7, <1>8, <1>9 DEF HandlersTyped
  <1>11. Handled
    BY <1>2, <1>4 DEF Handled
  <1>12. UnderWay'
    <2> SUFFICES ASSUME NEW d \in Clients, NEW i \in 1..Len(commits[d])
                 PROVE  AckedBy(d, commits[d][i])'
      BY <1>2 DEF UnderWay
    <2>1. AckedBy(d, commits[d][i])
      BY DEF UnderWay
    <2>2. PICK u \in called[d]["ack"] : deliveries[d][u] = commits[d][i]
      BY <2>1 DEF AckedBy
    <2>3. u \in called'[d]["ack"] /\ deliveries'[d][u] = commits'[d][i]
      BY <1>2, <1>4, <2>2 DEF HandlersTyped
    <2> QED
      BY <1>2, <2>3 DEF AckedBy
  <1>13. Delivered'
    <2> SUFFICES ASSUME NEW d \in Clients, NEW t \in 1..Len(deliveries'[d])
                 PROVE  deliveries'[d][t][2] < Len(log'[deliveries'[d][t][1]])
      BY DEF Delivered
    <2>1. CASE t \in 1..Len(deliveries[d])
      <3>1. deliveries'[d][t] = deliveries[d][t] /\ deliveries[d][t] \in Offsets
        BY <1>3, <1>4, <2>1, ElementOfSeq
      <3>2. /\ deliveries[d][t][1] \in Partitions /\ deliveries[d][t][2] \in Nat
            /\ deliveries[d][t][2] < Len(log[deliveries[d][t][1]])
        BY <2>1, <3>1 DEF Delivered, Offsets
      <3> QED
        BY <3>1, <3>2, Longer
    <2>2. CASE t \notin 1..Len(deliveries[d])
      <3>1. d = c /\ t = n + 1
        BY <1>4, <2>2
      <3>2. deliveries'[d][t] = o
        BY <1>4, <3>1
      <3> QED
        BY <1>1, <3>2, Longer
    <2> QED
      BY <2>1, <2>2
  <1> QED
    BY <1>10, <1>11, <1>12, <1>13 DEF Handles

(* The end of a process keeps deliveries, acks and commits in order. *)
LEMMA ProcessEndsHandles ==
  ASSUME HandlersTyped, Delivered, UnderWay, Grows, NEW c \in Clients, ProcessEnds(c)
  PROVE  Handles
  <1>1. /\ running' = [running EXCEPT ![c] = {}] /\ commits' = [commits EXCEPT ![c] = <<>>]
        /\ UNCHANGED <<deliveries, called>>
    BY DEF ProcessEnds
  <1>2. running' \in [Clients -> SUBSET Nat] /\ \A d \in Clients : running'[d] \subseteq running[d]
    BY <1>1 DEF HandlersTyped
  <1>3. /\ commits' \in [Clients -> Seq(Offsets)]
        /\ \A d \in Clients : commits'[d] = IF d = c THEN <<>> ELSE commits[d]
    BY <1>1, EmptySeq DEF HandlersTyped
  <1>4. HandlersTyped'
    BY <1>1, <1>2, <1>3 DEF HandlersTyped
  <1>5. Handled
    BY <1>1, LenProperties DEF HandlersTyped, Handled
  <1>6. UnderWay'
    <2>1. \A d \in Clients : \A i \in 1..Len(commits'[d]) :
            commits'[d] = commits[d] /\ i \in 1..Len(commits[d])
      BY <1>3
    <2> QED
      BY <1>1, <2>1 DEF UnderWay, AckedBy
  <1> QED
    BY <1>1, <1>4, <1>5, <1>6, DeliveredKept DEF Handles

(* A commit that arrives keeps deliveries, acks and commits in order. *)
LEMMA CommitArrivesHandles ==
  ASSUME HandlersTyped, Delivered, UnderWay, Grows, NEW c \in Clients, CommitArrives(c)
  PROVE  Handles
  <1>1. UNCHANGED <<deliveries, running, called>> /\ commits[c] # <<>>
        /\ commits' = [commits EXCEPT ![c] = Tail(@)]
    BY DEF CommitArrives, handlers
  <1>2. commits \in [Clients -> Seq(Offsets)]
    BY DEF HandlersTyped
  <1>3. /\ Tail(commits[c]) \in Seq(Offsets) /\ Len(Tail(commits[c])) = Len(commits[c]) - 1
        /\ \A i \in 1..Len(Tail(commits[c])) : Tail(commits[c])[i] = commits[c][i + 1]
        /\ Len(commits[c]) \in Nat
    BY <1>1, <1>2, HeadTailProperties, LenProperties
  <1>4. /\ commits' \in [Clients -> Seq(Offsets)]
        /\ \A d \in Clients : commits'[d] = IF d = c THEN Tail(commits[c]) ELSE commits[d]
    BY <1>1, <1>2, <1>3
  <1>5. HandlersTyped'
    BY <1>1, <1>4 DEF HandlersTyped
  <1>6. Handled
    BY <1>1, LenProperties DEF HandlersTyped, Handled
  <1>7. UnderWay'
    <2>1. ASSUME NEW d \in Clients, NEW i \in 1..Len(commits'[d])
          PROVE  \E j \in 1..Len(commits[d]) : commits'[d][i] = commits[d][j]
      <3>1. CASE d = c
        <4>1. i \in 1..Len(Tail(commits[c])) /\ commits'[c] = Tail(commits[c])
          BY <1>4, <3>1
        <4>2. i + 1 \in 1..Len(commits[c]) /\ commits'[c][i] = commits[c][i + 1]
          BY <1>3, <4>1
        <4> QED
          BY <3>1, <4>2
      <3>2. CASE d # c
        BY <1>4, <3>2
      <3> QED
        BY <3>1, <3>2
    <2>2. ASSUME NEW d \in Clients, NEW i \in 1..Len(commits'[d])
          PROVE  AckedBy(d, commits[d][i])'
      <3>1. PICK j \in 1..Len(commits[d]) : commits'[d][i] = commits[d][j]
        BY <2>1
      <3>2. AckedBy(d, commits[d][j])
        BY DEF UnderWay
      <3> QED
        BY <1>1, <3>1, <3>2 DEF AckedBy
    <2> QED
      BY <2>2 DEF UnderWay
  <1> QED
    BY <1>1, <1>5, <1>6, <1>7, DeliveredKept DEF Handles

(* Every step keeps deliveries, acks and commits under way in order. *)
LEMMA StepHandles ==
  ASSUME Inv, Grows, [Next]_vars
  PROVE  Handles
  <1> USE DEF Inv
  <1>1. ASSUME UNCHANGED <<handlers, commits>>
        PROVE  Handles
    BY <1>1, SameHandles
  <1>2. ASSUME NEW c \in Clients, Connect(c) \/ Close(c) \/ Flushed(c) \/ Disconnect(c)
        PROVE  Handles
    BY <1>1, <1>2 DEF Connect, Close, Flushed, Disconnect, ProcessStep
  <1>3. ASSUME NEW c \in Clients, NEW m \in Messages, Publish(c, m)
        PROVE  Handles
    BY <1>1, <1>3, PublishTyped
  <1>4. ASSUME NEW m \in Messages, NEW p \in Partitions, ForeignPublish(m, p)
        PROVE  Handles
    BY <1>1, <1>4 DEF ForeignPublish
  <1>5. ASSUME NEW c \in Clients, Subscribe(c)
        PROVE  Handles
    BY <1>1, <1>5, SubscribeGroups
  <1>6. ASSUME NEW g \in Groups, Rebalance(g)
        PROVE  Handles
    BY <1>1, <1>6 DEF Rebalance
  <1>7. CASE UNCHANGED vars
    BY <1>1, <1>7 DEF vars
  <1> QED
    BY <1>2, <1>3, <1>4, <1>5, <1>6, <1>7, HandlerHandles, DataHandles, ProcessEndsHandles,
       CommitArrivesHandles
    DEF Next, Crash, ParseFailure

-----------------------------------------------------------------------------
(* Committed offsets: they change when a commit arrives, and only then. *)
LEMMA CommittedSteps ==
  ASSUME Inv, [Next]_vars
  PROVE  \/ UNCHANGED committed
         \/ \E c \in Clients :
              /\ Head(commits[c]) \in Offsets /\ AckedBy(c, Head(commits[c]))
              /\ committed' = [committed EXCEPT
                   ![group[c]][Head(commits[c])[1]] = Head(commits[c])[2] + CommitDelta]
  <1>1. ASSUME NEW c \in Clients, CommitArrives(c)
        PROVE  \/ UNCHANGED committed
               \/ /\ Head(commits[c]) \in Offsets /\ AckedBy(c, Head(commits[c]))
                  /\ committed' = [committed EXCEPT
                       ![group[c]][Head(commits[c])[1]] = Head(commits[c])[2] + CommitDelta]
    <2>1. commits[c] \in Seq(Offsets) /\ commits[c] # <<>>
      BY <1>1 DEF Inv, HandlersTyped, CommitArrives
    <2>2. Head(commits[c]) = commits[c][1] /\ 1 \in 1..Len(commits[c]) /\ Head(commits[c]) \in Offsets
      BY <2>1, HeadTailProperties, EmptySeq, LenProperties
    <2>3. AckedBy(c, Head(commits[c]))
      BY <2>2 DEF Inv, UnderWay
    <2> QED
      BY <1>1, <2>2, <2>3 DEF CommitArrives
  <1>2. ASSUME NEW c \in Clients, NEW m \in Messages, Publish(c, m)
        PROVE  UNCHANGED committed
    BY <1>2, PublishTyped DEF Inv
  <1>3. ASSUME NEW c \in Clients, Subscribe(c)
        PROVE  UNCHANGED committed
    BY <1>3 DEF Subscribe, SubscribeCall, SubscribeEnsure, Ready
  <1>4. ASSUME NEW c \in Clients,
               Connect(c) \/ Close(c) \/ Flushed(c) \/ Disconnect(c) \/ ProcessEnds(c)
        PROVE  UNCHANGED committed
    BY <1>4 DEF Connect, Close, Flushed, Disconnect, ProcessStep, ProcessEnds
  <1>5. ASSUME NEW c \in Clients, NEW p \in Partitions, Data(c, p)
        PROVE  UNCHANGED committed
    BY <1>5 DEF Data
  <1>6. ASSUME NEW c \in Clients, NEW t \in running[c], Handler(c, t)
        PROVE  UNCHANGED committed
    BY <1>6 DEF Handler, HandlerCall, HandlerReturn, HandlerThrow, HandlerEnds
  <1>7. ASSUME NEW g \in Groups, Rebalance(g)
        PROVE  UNCHANGED committed
    BY <1>7 DEF Rebalance
  <1>8. ASSUME NEW m \in Messages, NEW p \in Partitions, ForeignPublish(m, p)
        PROVE  UNCHANGED committed
    BY <1>8 DEF ForeignPublish
  <1>9. CASE UNCHANGED vars
    BY <1>9 DEF vars
  <1> QED
    BY <1>1, <1>2, <1>3, <1>4, <1>5, <1>6, <1>7, <1>8, <1>9 DEF Next, Crash, ParseFailure

(* Every step leaves a committed offset one that an ack asked for. *)
LEMMA StepCommitted ==
  ASSUME Inv, Grows, Handles, UNCHANGED group, [Next]_vars
  PROVE  CommittedTyped' /\ CommitComesFromAck'
  <1>0. CommitDelta \in Nat /\ committed \in [Groups -> [Partitions -> Nat \cup {NoOffset}]]
    BY KafkaAssumption DEF Inv, CommittedTyped
  <1>1. ASSUME NEW c \in Clients, NEW o, AckedBy(c, o)
        PROVE  Acked(group[c], o)'
    <2>1. AckedBy(c, o)'
      BY <1>1, AckedByKept DEF Inv, Handles
    <2> QED
      BY <2>1 DEF Acked, AckedBy
  <1>2. ASSUME NEW g \in Groups, NEW p \in Partitions, committed[g][p] # NoOffset
        PROVE  \E o \in 0..(Len(log'[p]) - 1) :
                 committed[g][p] = o + CommitDelta /\ Acked(g, <<p, o>>)'
    <2>1. PICK o \in 0..(Len(log[p]) - 1) : committed[g][p] = o + CommitDelta /\ Acked(g, <<p, o>>)
      BY <1>2 DEF Inv, CommitComesFromAck
    <2>2. PICK c \in Clients : group[c] = g /\ AckedBy(c, <<p, o>>)
      BY <2>1 DEF Acked, AckedBy
    <2>3. Acked(g, <<p, o>>)'
      BY <1>1, <2>2
    <2>4. o \in 0..(Len(log'[p]) - 1)
      BY DEF Grows
    <2> QED
      BY <2>1, <2>3, <2>4
  <1>3. CASE UNCHANGED committed
    BY <1>0, <1>2, <1>3 DEF CommittedTyped, CommitComesFromAck
  <1>4. ASSUME NEW c \in Clients, Head(commits[c]) \in Offsets, AckedBy(c, Head(commits[c])),
               committed' = [committed EXCEPT
                 ![group[c]][Head(commits[c])[1]] = Head(commits[c])[2] + CommitDelta]
        PROVE  CommittedTyped' /\ CommitComesFromAck'
    <2>1. PICK p \in Partitions, n \in Nat : Head(commits[c]) = <<p, n>>
      BY <1>4 DEF Offsets
    <2>2. group[c] \in Groups /\ n + CommitDelta \in Nat \cup {NoOffset}
      BY <1>0 DEF Inv, GroupsTyped
    <2>3. \E to \in Nat \cup {NoOffset} :
            to = n + CommitDelta /\ committed' = [committed EXCEPT ![group[c]][p] = to]
      <3>1. committed' = [committed EXCEPT ![group[c]][p] = n + CommitDelta]
        <4>1. Head(commits[c])[1] = p /\ Head(commits[c])[2] = n
          BY <2>1
        <4> QED
          BY <1>4, <4>1
      <3> QED
        BY <2>2, <3>1
    <2>4. /\ committed' \in [Groups -> [Partitions -> Nat \cup {NoOffset}]]
          /\ \A g \in Groups, q \in Partitions :
               committed'[g][q] = IF g = group[c] /\ q = p THEN n + CommitDelta ELSE committed[g][q]
      BY <1>0, <2>2, <2>3, EntryFact
    <2>5. Acked(group[c], <<p, n>>)'
      BY <1>1, <1>4, <2>1
    <2>6. n < Len(log'[p])
      <3>1. PICK t \in called[c]["ack"] : deliveries[c][t] = <<p, n>>
        BY <1>4, <2>1 DEF AckedBy
      <3>2. t \in 1..Len(deliveries[c])
        BY DEF Inv, HandlersTyped
      <3>3. n < Len(log[p])
        BY <3>1, <3>2 DEF Inv, Delivered
      <3> QED
        BY <3>3, Longer
    <2>7. n \in 0..(Len(log'[p]) - 1)
      BY <2>6 DEF Grows
    <2> QED
      BY <1>2, <2>4, <2>5, <2>7 DEF CommittedTyped, CommitComesFromAck
  <1> QED
    BY <1>3, <1>4, CommittedSteps

(* Every step keeps the inductive invariant. *)
LEMMA StepInv == Inv /\ [Next]_vars => Inv'
  <1> SUFFICES ASSUME Inv, [Next]_vars PROVE Inv'
    OBVIOUS
  <1>1. ProducingTyped' /\ Grows
    BY StepGrows DEF Inv
  <1>2. GroupsTyped' /\ UNCHANGED group
    BY <1>1, StepGroups
  <1>3. Handles
    BY <1>1, StepHandles
  <1>4. CommittedTyped' /\ CommitComesFromAck'
    BY <1>1, <1>2, <1>3, StepCommitted
  <1> QED
    BY <1>1, <1>2, <1>3, <1>4 DEF Inv, Handles

(* Producers, consumers, groups and commits have their types; no offset, delivered,
   committed or to be read, is beyond the end of its partition
   (kafka/src/index.ts:132-204). *)
THEOREM TypeCorrect == Spec => []TypeOK
  <1> QED
    BY InitInv, StepInv, InvType, PTL DEF Spec

(* The offset a group resumes at is that of a message whose ack was called in the
   group, whichever members crash, join and leave, and in whatever order handlers
   end and commits arrive (kafka/src/index.ts:189-203). *)
THEOREM CommitsAreAcks == Spec => []CommitComesFromAck
  <1>1. Inv => CommitComesFromAck
    BY DEF Inv
  <1> QED
    BY <1>1, InitInv, StepInv, PTL DEF Spec

-----------------------------------------------------------------------------
(* StoredOnce: where a message of a publish that has resolved is. *)

Calm == {"unensured", "network"} \cap Environment = {} /\ Prios \subseteq Partitions

Waits(c, m) == {o \in outbox[c] : o[1] = m}

Stands(m) == {o \in Partitions \X (1..MaxLog) : o[2] <= Len(log[o[1]]) /\ log[o[1]][o[2]] = m}

InOnePlace(c, m) ==
  \/ Stands(m) = {} /\ \E x : Waits(c, m) = {x}
  \/ Waits(c, m) = {} /\ \E x : Stands(m) = {x}
  \/ Waits(c, m) = {} /\ Stands(m) = {} /\ m \in late /\ process[c] = "disconnected"

(* After the flush the local queue holds late messages only, after the disconnect
   none. *)
Queued(c) ==
  /\ outbox[c] # {} => topic
  /\ process[c] = "disconnected" => outbox[c] = {}
  /\ process[c] = "flushed" => \A m \in Messages : Waits(c, m) # {} => m \in late

Storing ==
  /\ \A c \in Clients : Queued(c)
  /\ \A c \in Clients, m \in Messages :
       /\ pub[c][m] = "producing" => topic
       /\ pub[c][m] # "idle" => m \notin Malformed /\ \A d \in Clients : pub[d][m] # "idle" => c = d
       /\ pub[c][m] # "resolved" => Waits(c, m) = {}
       /\ pub[c][m] = "resolved" /\ process[c] # "dead" => InOnePlace(c, m)
  /\ \A m \in Messages \ Malformed : (\A c \in Clients : pub[c][m] # "resolved") => Stands(m) = {}

(* A message whose requests and log entries are unchanged is still in one *)
(* place.                                                                 *)
LEMMA InOnePlaceKept ==
  ASSUME NEW c, NEW m, Waits(c, m)' = Waits(c, m), Stands(m)' = Stands(m),
         late \subseteq late', process[c] = "disconnected" => process'[c] = "disconnected"
  PROVE  InOnePlace(c, m) => InOnePlace(c, m)'
  BY DEF InOnePlace

(* In the initial state no message is in a request or in a log. *)
LEMMA InitStoring == Init => Storing
  <1> SUFFICES ASSUME Init PROVE Storing
    OBVIOUS
  <1>1. \A m \in Messages : Stands(m) = {}
    BY DEF Init, Stands
  <1> QED
    BY <1>1 DEF Init, Storing, Queued, Waits

(* A write adds one entry for its message and none for the others. *)
LEMMA StandsWritten ==
  ASSUME ProducingTyped, NEW p \in Partitions, NEW m \in Messages, Write(p, m)
  PROVE  /\ \A l \in Messages : l # m => Stands(l)' = Stands(l)
         /\ Stands(m) = {} => \E x : Stands(m)' = {x}
  <1>1. /\ \A q \in Partitions :
             /\ Len(log[q]) \in Nat /\ \A i \in 1..Len(log[q]) : log'[q][i] = log[q][i]
             /\ q # p => log'[q] = log[q]
        /\ Len(log[p]) < MaxLog /\ Len(log'[p]) = Len(log[p]) + 1
        /\ log'[p][Len(log[p]) + 1] = m
    BY WriteGrows DEF Grows
  <1> DEFINE n == Len(log[p])
  <1>2. MaxLog \in Nat
    BY KafkaAssumption
  <1>3. n \in Nat /\ n + 1 \in 1..MaxLog
    BY <1>1, <1>2
  <1>4. ASSUME NEW q \in Partitions, NEW i \in 1..MaxLog, NEW l \in Messages
        PROVE  (i <= Len(log'[q]) /\ log'[q][i] = l) <=>
                 \/ i <= Len(log[q]) /\ log[q][i] = l
                 \/ q = p /\ i = n + 1 /\ l = m
    <2>1. CASE q # p
      BY <1>1, <2>1
    <2>2. CASE q = p /\ i = n + 1
      BY <1>1, <2>2
    <2>3. CASE q = p /\ i # n + 1
      <3>1. i \in Nat /\ 1 <= i
        BY <1>2
      <3>2. i <= Len(log'[p]) <=> i <= n
        BY <1>1, <1>3, <2>3, <3>1
      <3> QED
        BY <1>1, <2>3, <3>1, <3>2
    <2> QED
      BY <2>1, <2>2, <2>3
  <1> HIDE DEF n
  <1>5. \A l \in Messages : l # m => Stands(l)' = Stands(l)
    BY <1>4 DEF Stands
  <1>6. Stands(m)' = Stands(m) \cup {<<p, n + 1>>}
    <2>1. \A o \in Partitions \X (1..MaxLog) :
            o \in Stands(m)' <=> o \in Stands(m) \/ o = <<p, n + 1>>
      BY <1>4 DEF Stands
    <2> QED
      BY <1>3, <2>1 DEF Stands
  <1> QED
    BY <1>5, <1>6

(* A step that leaves the log, the queues and the calls alone. *)
LEMMA StoringKept ==
  ASSUME Storing, topic => topic', UNCHANGED <<log, pub, late, outbox>>,
         \A c \in Clients :
           \/ process'[c] = process[c]
           \/ /\ process[c] \notin {"disconnected", "dead"}
              /\ \/ process'[c] \in {"connected", "flushing"}
                 \/ process'[c] = "flushed" /\ outbox[c] = {}
  PROVE  Storing'
  <1>1. \A c \in Clients, m \in Messages : Waits(c, m)' = Waits(c, m) /\ Stands(m)' = Stands(m)
    BY DEF Waits, Stands
  <1>2. \A c \in Clients, m \in Messages : InOnePlace(c, m) => InOnePlace(c, m)'
    BY <1>1, InOnePlaceKept
  <1>3. /\ \A c \in Clients : Queued(c)'
        /\ \A c \in Clients, m \in Messages : pub'[c][m] = "producing" => topic'
    <2>1. ASSUME NEW c \in Clients
          PROVE  Queued(c)'
      <3>1. Queued(c) /\ \A m \in Messages : outbox[c] = {} => Waits(c, m) = {}
        BY DEF Storing, Waits
      <3> QED
        BY <1>1, <3>1 DEF Queued
    <2> QED
      BY <2>1 DEF Storing
  <1>4. \A c \in Clients, m \in Messages :
          pub'[c][m] # "idle" => m \notin Malformed /\ \A d \in Clients : pub'[d][m] # "idle" => c = d
    BY DEF Storing
  <1>5. \A c \in Clients, m \in Messages :
          /\ pub'[c][m] # "resolved" => Waits(c, m)' = {}
          /\ pub'[c][m] = "resolved" /\ process'[c] # "dead" => InOnePlace(c, m)'
    <2>1. \A c \in Clients : process'[c] # "dead" => process[c] # "dead"
      OBVIOUS
    <2> QED
      BY <1>1, <1>2, <2>1 DEF Storing
  <1>6. \A m \in Messages \ Malformed :
          (\A c \in Clients : pub'[c][m] # "resolved") => Stands(m)' = {}
    <2>1. \A m \in Messages : Stands(m)' = Stands(m)
      BY DEF Stands
    <2> QED
      BY <2>1 DEF Storing
  <1> QED
    BY <1>3, <1>4, <1>5, <1>6 DEF Storing

(* The end of a process leaves each resolved message of a live client in *)
(* one place.                                                            *)
LEMMA ProcessEndsStoring ==
  ASSUME ProducingTyped, Storing, NEW c \in Clients, ProcessEnds(c)
  PROVE  Storing'
  <1>1. /\ UNCHANGED <<topic, log, pub, late>>
        /\ process' = [process EXCEPT ![c] = "dead"] /\ outbox' = [outbox EXCEPT ![c] = {}]
    BY DEF ProcessEnds
  <1>2. \A d \in Clients :
          /\ process'[d] = IF d = c THEN "dead" ELSE process[d]
          /\ outbox'[d] = IF d = c THEN {} ELSE outbox[d]
    BY <1>1 DEF ProducingTyped
  <1>3. \A d \in Clients, m \in Messages :
          /\ Waits(d, m) = {} => Waits(d, m)' = {}
          /\ d # c => Waits(d, m)' = Waits(d, m)
    BY <1>2 DEF Waits
  <1>4. \A m \in Messages : Stands(m)' = Stands(m)
    BY <1>1 DEF Stands
  <1>5. \A d \in Clients : Queued(d)'
    BY <1>1, <1>2, <1>3 DEF Storing, Queued
  <1>6. \A d \in Clients, m \in Messages :
          pub[d][m] = "resolved" /\ process'[d] # "dead" => InOnePlace(d, m)'
    <2>1. \A d \in Clients, m \in Messages : d # c => (InOnePlace(d, m) => InOnePlace(d, m)')
      BY <1>1, <1>2, <1>3, <1>4, InOnePlaceKept
    <2> QED
      BY <1>2, <2>1 DEF Storing
  <1>7. \A d \in Clients, m \in Messages : pub[d][m] # "resolved" => Waits(d, m)' = {}
    BY <1>3 DEF Storing
  <1> QED
    BY <1>1, <1>4, <1>5, <1>6, <1>7 DEF Storing

(* The disconnect takes nothing that was produced before the flush had ended. *)
LEMMA DisconnectStoring ==
  ASSUME ProducingTyped, Storing, NEW c \in Clients, Disconnect(c)
  PROVE  Storing'
  <1>1. /\ UNCHANGED <<topic, log, pub, late>> /\ process[c] = "flushed"
        /\ process' = [process EXCEPT ![c] = "disconnected"]
        /\ outbox' = [outbox EXCEPT ![c] = {}]
    BY DEF Disconnect, ProcessStep
  <1>2. \A d \in Clients :
          /\ process'[d] = IF d = c THEN "disconnected" ELSE process[d]
          /\ outbox'[d] = IF d = c THEN {} ELSE outbox[d]
    BY <1>1 DEF ProducingTyped
  <1>3. \A d \in Clients, m \in Messages :
          Waits(d, m)' = IF d = c THEN {} ELSE Waits(d, m)
    BY <1>2 DEF Waits
  <1>4. \A m \in Messages : Stands(m)' = Stands(m)
    BY <1>1 DEF Stands
  <1>5. \A d \in Clients : Queued(d)'
    BY <1>1, <1>2, <1>3 DEF Storing, Queued
  <1>6. ASSUME NEW d \in Clients, NEW m \in Messages, pub[d][m] = "resolved",
               process'[d] # "dead"
        PROVE  InOnePlace(d, m)'
    <2>1. InOnePlace(d, m) /\ Queued(d)
      BY <1>1, <1>2, <1>6 DEF Storing
    <2>2. CASE d # c
      BY <1>1, <1>2, <1>3, <1>4, <2>1, <2>2, InOnePlaceKept
    <2>3. CASE d = c
      <3>1. CASE Waits(c, m) # {}
        BY <1>1, <1>2, <1>3, <1>4, <2>1, <2>3, <3>1 DEF InOnePlace, Queued
      <3>2. CASE Waits(c, m) = {}
        BY <1>1, <1>2, <1>3, <1>4, <2>1, <2>3, <3>2 DEF InOnePlace
      <3> QED
        BY <3>1, <3>2
    <2> QED
      BY <2>2, <2>3
  <1>7. \A d \in Clients, m \in Messages : pub[d][m] # "resolved" => Waits(d, m)' = {}
    BY <1>3 DEF Storing
  <1> QED
    BY <1>1, <1>4, <1>5, <1>6, <1>7 DEF Storing

(* A call gets on and does not resolve. *)
LEMMA UnresolvedStoring ==
  ASSUME ProducingTyped, Storing, NEW c \in Clients, NEW m \in Messages, m \notin Malformed,
         UNCHANGED <<log, process, late, outbox>>, topic => topic', topic' \in BOOLEAN,
         NEW from \in {"idle", "ensuring", "producing"},
         NEW to \in {"ensuring", "producing", "rejected"}, PubStep(c, m, from, to),
         from = "idle" => \A d \in Clients : pub[d][m] = "idle",
         to = "producing" => topic'
  PROVE  Storing'
  <1>1. /\ pub[c][m] = from
        /\ \A d \in Clients, l \in Messages :
             pub'[d][l] = IF d = c /\ l = m THEN to ELSE pub[d][l]
    BY PubStepTyped
  <1>2. \A d \in Clients, l \in Messages :
          Waits(d, l)' = Waits(d, l) /\ Stands(l)' = Stands(l)
    BY DEF Waits, Stands
  <1>3. \A d \in Clients, l \in Messages : pub'[d][l] = "resolved" <=> pub[d][l] = "resolved"
    BY <1>1
  <1>4. \A d \in Clients, l \in Messages :
          /\ pub'[d][l] = "producing" => topic'
          /\ pub'[d][l] # "resolved" => Waits(d, l)' = {}
          /\ pub'[d][l] = "resolved" /\ process'[d] # "dead" => InOnePlace(d, l)'
    <2>1. \A d \in Clients, l \in Messages : pub'[d][l] = "producing" => topic'
      BY <1>1 DEF Storing
    <2>2. \A d \in Clients, l \in Messages : InOnePlace(d, l) => InOnePlace(d, l)'
      BY <1>2, InOnePlaceKept
    <2> QED
      BY <1>2, <1>3, <2>1, <2>2 DEF Storing
  <1>5. \A d \in Clients, e \in Clients, l \in Messages :
          pub'[d][l] # "idle" => l \notin Malformed /\ (pub'[e][l] # "idle" => d = e)
    <2>1. \A d \in Clients : pub[d][m] # "idle" => d = c
      BY <1>1 DEF Storing
    <2> QED
      BY <1>1, <2>1 DEF Storing
  <1>6. \A d \in Clients : Queued(d)'
    BY <1>2 DEF Storing, Queued
  <1> QED
    BY <1>2, <1>3, <1>4, <1>5, <1>6 DEF Storing

(* A message the producer takes is in one place: its local queue. *)
LEMMA ProduceStoring ==
  ASSUME ProducingTyped, Storing, NEW c \in Clients, NEW m \in Messages, NEW prio \in Prios,
         Produce(c, m, prio)
  PROVE  Storing'
  <1>1. UNCHANGED <<topic, log, process>>
    BY DEF Produce
  <1>2. CASE PubStep(c, m, "producing", "rejected") /\ UNCHANGED <<late, outbox>>
    <2>1. pub[c][m] = "producing" /\ m \notin Malformed
      BY <1>2 DEF PubStep, Storing
    <2> QED
      BY <1>1, <1>2, <2>1, UnresolvedStoring DEF ProducingTyped
  <1>3. CASE /\ PubStep(c, m, "producing", "resolved") /\ Connected(c)
             /\ late' = IF process[c] = "flushed" THEN late \cup {m} ELSE late
             /\ outbox' = [outbox EXCEPT ![c] = @ \cup {<<m, prio>>}]
    <2>1. /\ pub[c][m] = "producing"
          /\ \A d \in Clients, l \in Messages :
               pub'[d][l] = IF d = c /\ l = m THEN "resolved" ELSE pub[d][l]
      BY <1>3, PubStepTyped
    <2>2. \A d \in Clients : outbox'[d] = IF d = c THEN outbox[d] \cup {<<m, prio>>} ELSE outbox[d]
      BY <1>3 DEF ProducingTyped
    <2>3. \A d \in Clients, l \in Messages :
            Waits(d, l)' = IF d = c /\ l = m THEN Waits(d, l) \cup {<<m, prio>>} ELSE Waits(d, l)
      <3>1. ASSUME NEW d \in Clients, NEW l \in Messages
            PROVE  \A o : o \in Waits(d, l)' <=>
                     o \in Waits(d, l) \/ (d = c /\ l = m /\ o = <<m, prio>>)
        <4>1. <<m, prio>>[1] = m
          OBVIOUS
        <4>2. CASE d = c
          BY <2>2, <4>1, <4>2 DEF Waits
        <4>3. CASE d # c
          BY <2>2, <4>3 DEF Waits
        <4> QED
          BY <4>2, <4>3
      <3> QED
        BY <3>1
    <2>4. \A l \in Messages : Stands(l)' = Stands(l)
      BY <1>1 DEF Stands
    <2>5. topic /\ Waits(c, m) = {} /\ m \notin Malformed
          /\ \A d \in Clients : pub[d][m] # "idle" => d = c
      BY <2>1 DEF Storing
    <2>6. Stands(m) = {}
      BY <2>1, <2>5 DEF Storing
    <2>7. InOnePlace(c, m)'
      BY <2>3, <2>4, <2>5, <2>6 DEF InOnePlace
    <2>8. \A d \in Clients, l \in Messages :
            /\ pub'[d][l] # "resolved" => Waits(d, l)' = {}
            /\ pub'[d][l] = "resolved" /\ process'[d] # "dead" => InOnePlace(d, l)'
      <3>1. \A d \in Clients, l \in Messages : ~(d = c /\ l = m) =>
              Waits(d, l)' = Waits(d, l) /\ pub'[d][l] = pub[d][l]
        BY <2>1, <2>3
      <3>2. \A d \in Clients, l \in Messages : ~(d = c /\ l = m) =>
              /\ pub'[d][l] # "resolved" => Waits(d, l)' = {}
              /\ pub'[d][l] = "resolved" /\ process'[d] # "dead" => InOnePlace(d, l)'
        <4>1. \A d \in Clients, l \in Messages : ~(d = c /\ l = m) =>
                (InOnePlace(d, l) => InOnePlace(d, l)')
          BY <1>1, <1>3, <2>4, <3>1, InOnePlaceKept
        <4> QED
          BY <1>1, <3>1, <4>1 DEF Storing
      <3> QED
        BY <2>1, <2>7, <3>2
    <2>9. \A d \in Clients, e \in Clients, l \in Messages :
            pub'[d][l] # "idle" => l \notin Malformed /\ (pub'[e][l] # "idle" => d = e)
      BY <2>1, <2>5 DEF Storing
    <2>10. \A l \in Messages \ Malformed :
             (\A d \in Clients : pub'[d][l] # "resolved") => Stands(l)' = {}
      BY <2>1, <2>4 DEF Storing
    <2>11. \A d \in Clients, l \in Messages : pub'[d][l] = "producing" => topic'
      BY <1>1, <2>5
    <2>12. ASSUME NEW d \in Clients
           PROVE  Queued(d)'
      <3>1. Queued(d) /\ (d = c => process[d] # "disconnected")
        BY <1>3 DEF Storing, Connected
      <3>2. process[d] = "flushed" => \A l \in Messages : Waits(d, l)' # {} => l \in late'
        BY <1>3, <2>3, <3>1 DEF Queued
      <3> QED
        BY <1>1, <2>2, <2>5, <3>1, <3>2 DEF Queued
    <2> QED
      BY <1>1, <2>5, <2>8, <2>9, <2>10, <2>11, <2>12 DEF Storing
  <1> QED
    BY <1>2, <1>3 DEF Produce

(* In a calm environment a request that is sent moves its message from the *)
(* local queue to the log.                                                 *)
LEMMA TransmitStoring ==
  ASSUME Calm, ProducingTyped, Storing, NEW c \in Clients, NEW m \in Messages,
         NEW prio \in Prios, Transmit(c, m, prio)
  PROVE  Storing'
  <1>1. <<m, prio>> \in outbox[c] /\ UNCHANGED <<topic, process, pub, late>>
    BY DEF Transmit
  <1>2. topic /\ prio \in Partitions
    BY <1>1 DEF Storing, Queued, Calm
  <1>3. Write(prio, m) /\ outbox' = [outbox EXCEPT ![c] = @ \ {<<m, prio>>}]
    BY <1>2 DEF Transmit, Calm
  <1>4. /\ \A l \in Messages : l # m => Stands(l)' = Stands(l)
        /\ Stands(m) = {} => \E x : Stands(m)' = {x}
    BY <1>2, <1>3, StandsWritten
  <1>5. \A d \in Clients : outbox'[d] = IF d = c THEN outbox[d] \ {<<m, prio>>} ELSE outbox[d]
    BY <1>3 DEF ProducingTyped
  <1>6. \A d \in Clients, l \in Messages :
          Waits(d, l)' = IF d = c /\ l = m THEN Waits(d, l) \ {<<m, prio>>} ELSE Waits(d, l)
    <2>1. ASSUME NEW d \in Clients, NEW l \in Messages
          PROVE  \A o : o \in Waits(d, l)' <=>
                   o \in Waits(d, l) /\ ~(d = c /\ l = m /\ o = <<m, prio>>)
      <3>1. <<m, prio>>[1] = m
        OBVIOUS
      <3>2. CASE d = c
        BY <1>5, <3>1, <3>2 DEF Waits
      <3>3. CASE d # c
        BY <1>5, <3>3 DEF Waits
      <3> QED
        BY <3>2, <3>3
    <2> QED
      BY <2>1
  <1>7. <<m, prio>> \in Waits(c, m)
    BY <1>1 DEF Waits
  <1>8. pub[c][m] = "resolved" /\ \A d \in Clients : pub[d][m] # "idle" => d = c
    BY <1>7 DEF Storing
  <1>9. process[c] # "dead" => InOnePlace(c, m)'
    <2>1. process[c] # "dead" => Stands(m) = {} /\ \E x : Waits(c, m) = {x}
      BY <1>7, <1>8 DEF Storing, InOnePlace
    <2>2. process[c] # "dead" => Waits(c, m)' = {}
      BY <1>6, <1>7, <2>1
    <2> QED
      BY <1>4, <2>1, <2>2 DEF InOnePlace
  <1>10. \A d \in Clients, l \in Messages :
          /\ pub[d][l] # "resolved" => Waits(d, l)' = {}
          /\ pub[d][l] = "resolved" /\ process[d] # "dead" => InOnePlace(d, l)'
    <2>1. \A d \in Clients, l \in Messages : l # m =>
            Waits(d, l)' = Waits(d, l) /\ Stands(l)' = Stands(l)
      BY <1>4, <1>6
    <2>2. \A d \in Clients, l \in Messages : l # m =>
            /\ pub[d][l] # "resolved" => Waits(d, l)' = {}
            /\ pub[d][l] = "resolved" /\ process[d] # "dead" => InOnePlace(d, l)'
      <3>1. \A d \in Clients, l \in Messages : l # m => (InOnePlace(d, l) => InOnePlace(d, l)')
        BY <1>1, <2>1, InOnePlaceKept
      <3> QED
        BY <2>1, <3>1 DEF Storing
    <2>3. \A d \in Clients : d # c => pub[d][m] = "idle" /\ Waits(d, m)' = {}
      BY <1>6, <1>8 DEF Storing
    <2> QED
      BY <1>8, <1>9, <2>2, <2>3
  <1>11. \A l \in Messages \ Malformed : (\A d \in Clients : pub[d][l] # "resolved") => Stands(l)' = {}
    BY <1>4, <1>8 DEF Storing
  <1>12. \A d \in Clients : Queued(d)'
    <2>1. \A d \in Clients, l \in Messages : Waits(d, l)' \subseteq Waits(d, l)
      BY <1>6
    <2> QED
      BY <1>1, <1>2, <1>5, <2>1 DEF Storing, Queued
  <1> QED
    BY <1>1, <1>10, <1>11, <1>12 DEF Storing

(* In a calm environment every step of a publish leaves its message in at *)
(* most one place.                                                        *)
LEMMA PublishStoring ==
  ASSUME Calm, ProducingTyped, Storing, NEW c \in Clients, NEW m \in Messages, Publish(c, m)
  PROVE  Storing'
  <1>1. ASSUME NEW ensure \in BOOLEAN, PublishCall(c, m, ensure)
        PROVE  Storing'
    <2>1. /\ m \notin Malformed /\ \A d \in Clients : pub[d][m] = "idle"
          /\ PubStep(c, m, "idle", "ensuring") /\ UNCHANGED <<topic, log, process, late, outbox>>
      BY <1>1 DEF PublishCall, Calm
    <2> QED
      BY <2>1, UnresolvedStoring DEF ProducingTyped
  <1>2. ASSUME PublishEnsure(c, m)
        PROVE  Storing'
    <2>1. PICK to \in {"producing", "rejected"} :
            /\ PubStep(c, m, "ensuring", to) /\ topic' \in BOOLEAN
            /\ to = "producing" => topic'
            /\ topic => topic'
      <3>1. topic' \in BOOLEAN /\ (topic => topic')
        <4>1. topic \in BOOLEAN /\ (topic' = TRUE \/ topic' = topic)
          BY <1>2 DEF PublishEnsure, ProducingTyped
        <4> QED
          BY <4>1
      <3>2. \/ PubStep(c, m, "ensuring", "producing") /\ topic'
            \/ PubStep(c, m, "ensuring", "rejected")
        BY <1>2 DEF PublishEnsure
      <3> QED
        BY <3>1, <3>2
    <2>2. UNCHANGED <<log, process, late, outbox>>
      BY <1>2 DEF PublishEnsure
    <2>3. m \notin Malformed
      BY <2>1 DEF PubStep, Storing
    <2> QED
      BY <2>1, <2>2, <2>3, UnresolvedStoring
  <1> QED
    BY <1>1, <1>2, ProduceStoring, TransmitStoring DEF Publish

(* In a calm environment every step leaves each resolved message of a live *)
(* client in one place.                                                    *)
LEMMA StepStoring ==
  ASSUME Calm, ProducingTyped, Storing, [Next]_vars
  PROVE  Storing'
  <1>1. ASSUME UNCHANGED producing
        PROVE  Storing'
    BY <1>1, StoringKept DEF producing
  <1>2. ASSUME NEW c \in Clients, Connect(c) \/ Close(c) \/ Flushed(c)
        PROVE  Storing'
    <2>1. /\ UNCHANGED <<topic, log, pub, late, outbox>>
          /\ process[c] \notin {"disconnected", "dead"}
          /\ \/ process'[c] \in {"connected", "flushing"}
             \/ process'[c] = "flushed" /\ outbox[c] = {}
          /\ \A d \in Clients : d # c => process'[d] = process[d]
      BY <1>2 DEF Connect, Close, Flushed, ProcessStep, ProducingTyped, Calm
    <2> QED
      BY <2>1, StoringKept
  <1>3. ASSUME NEW c \in Clients, Disconnect(c)
        PROVE  Storing'
    BY <1>3, DisconnectStoring
  <1>4. ASSUME NEW c \in Clients, Subscribe(c)
        PROVE  Storing'
    <2>1. UNCHANGED <<log, process, pub, late, outbox>> /\ (topic => topic')
      BY <1>4 DEF Subscribe, SubscribeCall, SubscribeEnsure, Ready, producing
    <2> QED
      BY <2>1, StoringKept
  <1>5. ASSUME NEW m \in Messages, NEW p \in Partitions, ForeignPublish(m, p)
        PROVE  Storing'
    <2>1. UNCHANGED <<topic, process, pub, late, outbox>> /\ m \in Malformed /\ Write(p, m)
      BY <1>5 DEF ForeignPublish
    <2>2. \A l \in Messages \ Malformed : Stands(l)' = Stands(l)
      BY <2>1, StandsWritten
    <2>3. \A d \in Clients, l \in Messages : Waits(d, l)' = Waits(d, l)
      BY <2>1 DEF Waits
    <2>4. \A d \in Clients, l \in Messages :
            pub[d][l] = "resolved" /\ process[d] # "dead" => InOnePlace(d, l)'
      <3>1. \A d \in Clients, l \in Messages \ Malformed : InOnePlace(d, l) => InOnePlace(d, l)'
        BY <2>1, <2>2, <2>3, InOnePlaceKept
      <3> QED
        BY <3>1 DEF Storing
    <2>5. \A d \in Clients : Queued(d)'
      BY <2>1, <2>3 DEF Storing, Queued
    <2> QED
      BY <2>1, <2>2, <2>3, <2>4, <2>5 DEF Storing
  <1>6. ASSUME NEW c \in Clients, NEW p \in Partitions, Data(c, p)
        PROVE  Storing'
    BY <1>1, <1>6 DEF Data
  <1>7. ASSUME NEW c \in Clients, NEW t \in running[c], Handler(c, t)
        PROVE  Storing'
    BY <1>1, <1>7 DEF Handler, HandlerCall, HandlerReturn, HandlerThrow, HandlerEnds
  <1>8. ASSUME NEW c \in Clients, CommitArrives(c)
        PROVE  Storing'
    BY <1>1, <1>8 DEF CommitArrives
  <1>9. ASSUME NEW g \in Groups, Rebalance(g)
        PROVE  Storing'
    BY <1>1, <1>9 DEF Rebalance
  <1>10. CASE UNCHANGED vars
    BY <1>1, <1>10 DEF vars
  <1> QED
    BY <1>2, <1>3, <1>4, <1>5, <1>6, <1>7, <1>8, <1>9, <1>10, PublishStoring, ProcessEndsStoring
    DEF Next, Crash, ParseFailure

(* With topics that are ensured, priorities that are partitions and a network that
   holds, a message whose publish has resolved is in one place, the local queue or
   the log, until its process ends: close doubles nothing, and of what it flushes it
   loses nothing; only a message produced between the end of its flush and its
   disconnect may be in no place (kafka/src/index.ts:139-155, 208-214). *)
THEOREM StoresOnce ==
  ASSUME {"unensured", "network"} \cap Environment = {}, Prios \subseteq Partitions
  PROVE  Spec => []StoredOnce
  <1>0. Calm
    BY DEF Calm
  <1>1. Init => ProducingTyped /\ Storing
    BY InitInv, InitStoring DEF Inv
  <1>2. ProducingTyped /\ Storing /\ [Next]_vars => (ProducingTyped /\ Storing)'
    BY <1>0, StepGrows, StepStoring
  <1>3. Storing => StoredOnce
    <2> SUFFICES ASSUME Storing, NEW c \in Clients, NEW m \in Messages,
                        pub[c][m] = "resolved", process[c] # "dead"
                 PROVE  LET places == Cardinality(Waits(c, m)) + Cardinality(Stands(m)) IN
                        \/ places = 1
                        \/ places = 0 /\ m \in late /\ process[c] = "disconnected"
      BY DEF StoredOnce, Waits, Stands
    <2>1. InOnePlace(c, m)
      BY DEF Storing
    <2>2. Cardinality({}) = 0 /\ \A x : Cardinality({x}) = 1
      BY FS_EmptySet, FS_Singleton
    <2>3. ASSUME NEW S, NEW T, S = {}, \E x : T = {x}
          PROVE  Cardinality(S) = 0 /\ Cardinality(T) = 1
      BY <2>2, <2>3
    <2>4. CASE Stands(m) = {} /\ \E x : Waits(c, m) = {x}
      <3>1. Cardinality(Stands(m)) = 0 /\ Cardinality(Waits(c, m)) = 1
        BY <2>3, <2>4
      <3> QED
        BY <3>1
    <2>5. CASE Waits(c, m) = {} /\ \E x : Stands(m) = {x}
      <3>1. Cardinality(Stands(m)) = 1 /\ Cardinality(Waits(c, m)) = 0
        BY <2>3, <2>5
      <3> QED
        BY <3>1
    <2>6. CASE /\ Waits(c, m) = {} /\ Stands(m) = {}
               /\ m \in late /\ process[c] = "disconnected"
      <3>1. Cardinality(Waits(c, m)) = 0 /\ Cardinality(Stands(m)) = 0
        BY <2>2, <2>6
      <3> QED
        BY <2>6, <3>1
    <2> QED
      BY <2>1, <2>4, <2>5, <2>6 DEF InOnePlace
  <1> QED
    BY <1>1, <1>2, <1>3, PTL DEF Spec
=============================================================================
