------------------------------ MODULE MCKafka ------------------------------
(* Instances of Kafka for TLC. *)
EXTENDS Kafka

CONSTANTS c1, c2, g1, g2, m1, m2, m3

(* Everything a handler that settles at most once may do. *)
AnyOutcome == {"none", "ack", "nack"} \X {"return", "throw"}

(* A handler that settles with ack or throws. *)
AckOrThrow == {<<"ack", "return">>, <<"none", "throw">>}
=============================================================================
