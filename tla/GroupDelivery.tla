--------------------------- MODULE GroupDelivery ---------------------------
(***************************************************************************)
(* What OmniQueue's Broker interface promises about one topic, whatever    *)
(* the provider behind it (packages/core/src/index.ts): publish hands a    *)
(* copy of the message to every group that has joined the topic; inside a  *)
(* group one consumer holds the copy at a time; the copy leaves the group  *)
(* only on the word of the consumer that holds it (ack, or nack without    *)
(* requeue), and until then it goes back to the group whenever the         *)
(* consumer gives it up (nack with requeue, or the consumer's end).        *)
(***************************************************************************)

CONSTANTS
  Consumers,   \* the consumers that may subscribe
  Groups,      \* consumer groups
  Messages     \* messages, each published at most once

VARIABLES
  joined,      \* groups that receive a copy of what is published from now on
  stage,       \* stage[g][m]: where the copy of m for group g stands
  held         \* held[g][m]: the consumers holding that copy

vars == <<joined, stage, held>>

Stages == {"absent", "pending", "acked", "discarded"}

TypeOK ==
  /\ joined \subseteq Groups
  /\ stage \in [Groups -> [Messages -> Stages]]
  /\ held \in [Groups -> [Messages -> SUBSET Consumers]]

Init ==
  /\ joined = {}
  /\ stage = [g \in Groups |-> [m \in Messages |-> "absent"]]
  /\ held = [g \in Groups |-> [m \in Messages |-> {}]]

(* subscribe(topic, handler, groupId): the group joins the topic. *)
Join(g) ==
  /\ joined' = joined \cup {g}
  /\ UNCHANGED <<stage, held>>

(* publish(topic, msg): every group that has joined receives a copy. *)
Publish(m) ==
  /\ \A g \in Groups : stage[g][m] = "absent"
  /\ stage' = [g \in Groups |->
                 [stage[g] EXCEPT ![m] = IF g \in joined THEN "pending" ELSE @]]
  /\ UNCHANGED <<joined, held>>

(* One consumer of the group takes the copy. *)
Deliver(c, g, m) ==
  /\ stage[g][m] = "pending" /\ held[g][m] = {}
  /\ held' = [held EXCEPT ![g][m] = {c}]
  /\ UNCHANGED <<joined, stage>>

(* BrokerMessage.ack and nack(false): the holder settles the copy for good. *)
Settle(c, g, m, how) ==
  /\ c \in held[g][m]
  /\ stage' = [stage EXCEPT ![g][m] = how]
  /\ held' = [held EXCEPT ![g][m] = {}]
  /\ UNCHANGED joined

(* BrokerMessage.nack(true), or the holder's end: it gives the copies up. *)
GiveUp(c, copies) ==
  /\ \A p \in copies : c \in held[p[1]][p[2]]
  /\ held' = [g \in Groups |-> [m \in Messages |->
                IF <<g, m>> \in copies THEN {} ELSE held[g][m]]]
  /\ UNCHANGED <<joined, stage>>

Next ==
  \/ \E g \in Groups : Join(g)
  \/ \E m \in Messages : Publish(m)
  \/ \E c \in Consumers, g \in Groups, m \in Messages :
        \/ Deliver(c, g, m)
        \/ \E how \in {"acked", "discarded"} : Settle(c, g, m, how)
  \/ \E c \in Consumers, copies \in SUBSET (Groups \X Messages) : GiveUp(c, copies)

Spec == Init /\ [][Next]_vars
=============================================================================
