----------------------------- MODULE MCProvision -----------------------------
(* Instances of Provision for TLC. *)
EXTENDS Provision

CONSTANTS b1, b2, m1, m2, m3, g1, g2, o1, o2

(* One broker publishes two messages and subscribes, another subscribes for the
   same group. Service Bus does not tell the second message from the first; with
   ZeroMQ the other broker publishes too, and cannot have the port. *)
SomeCalls ==
  LET Some == {<<b1, m1>>, <<b1, m2>>, <<b1, g1>>, <<b2, g1>>} IN
  [a \in Adapters |-> CASE a = "servicebus" -> Some \ {<<b1, m2>>}
                        [] a = "zeromq" -> Some \cup {<<b2, m3>>}
                        [] OTHER -> Some]

TwoGroups == <<g1, g2>>

OwnOptions == [b \in Brokers |-> IF b = b1 THEN o1 ELSE o2]
=============================================================================
