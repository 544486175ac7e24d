------------------------------- MODULE MCSqs -------------------------------
(* Instances of Sqs for TLC. *)
EXTENDS Sqs

CONSTANTS b1, b2, p1, p2, r1, g1, g2, m1, m2

(* Two brokers of one process, or of a process each; one region. *)
SameProcess == [b \in Brokers |-> p1]
OwnProcess == [b \in Brokers |-> IF b = b1 THEN p1 ELSE p2]
SameRegion == [b \in Brokers |-> r1]

(* Everything a handler that settles at most once may do; a handler that does
   nothing but return, or throw. *)
AnyOutcome == {"none", "ack", "nack"} \X {"return", "throw"}
ReturnOutcome == {<<"none", "return">>}

AllSubscribe == Brokers \X Groups
(* All compete for the first group; nobody consumes the others. *)
FirstGroup == Brokers \X {g1}
=============================================================================
