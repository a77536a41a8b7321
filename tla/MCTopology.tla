----------------------------- MODULE MCTopology -----------------------------
(* Instances of Topology for TLC: timeouts in half milliseconds. *)
EXTENDS Topology

CONSTANTS x1, q1, q2

Durable == [durable |-> TRUE, timeout |-> 4]
Passing == [durable |-> FALSE, timeout |-> 4]

TwoSpecs     == {Durable, Passing}
OnlyDurable  == {Durable}

NoNames    == [n \in {} |-> Durable]
OneQueue   == [n \in {x1, q1} |-> Durable]
NoBindings == {}
OneBinding == {<<x1, q1>>}

Failing  == [crashes |-> 1, failures |-> 1, deletes |-> 1]
Deleting == [crashes |-> 0, failures |-> 0, deletes |-> 2]
=============================================================================
