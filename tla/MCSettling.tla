----------------------------- MODULE MCSettling -----------------------------
(* Instances of Settling for TLC. *)
EXTENDS Settling

CONSTANTS c1, c2, m1, m2

(* What a handler that settles at most once may do, except that one that throws
   has acked or done nothing. *)
SomeOutcomes == (Calls \X {"return"}) \cup ({"none", "ack"} \X {"throw"})

(* A handler that calls nack(true). *)
NackOutcomes == {"requeue"} \X {"return", "throw"}
=============================================================================
