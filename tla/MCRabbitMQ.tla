----------------------------- MODULE MCRabbitMQ -----------------------------
(* Instances of RabbitMQ for TLC. *)
EXTENDS RabbitMQ

CONSTANTS c1, c2, g1, g2, m1, m2

(* Everything a handler that calls at most one of ack and nack may do. *)
AnyOutcome == Calls \X {"return", "throw"}

(* Handlers that come to a decision, and may throw after it. *)
DecidedOutcomes == {"ack", "discard"} \X {"return", "throw"}
=============================================================================
