------------------------------ MODULE MCSnsSqs ------------------------------
(* Instances of SnsSqs for TLC. *)
EXTENDS SnsSqs

CONSTANTS b1, b2, t1, t2, g1, n1, m1, e1

(* The topics are called a.b and a-b, say, and share a queue. *)
Similar == [t \in Topics |-> [g \in Groups |-> n1]]

OfFirst == [m \in Messages |-> t1]

OneCall == {<<b1, t1, g1>>}
TwoProcesses == {<<b1, t1, g1>>, <<b2, t2, g1>>}

(* A handler that acks and returns, and one that throws. *)
SomeOutcomes == {<<"ack", "return">>, <<"none", "throw">>}
=============================================================================
