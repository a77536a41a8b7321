----------------------------- MODULE MCConsumers -----------------------------
(* Instance of Consumers for TLC. *)
EXTENDS Consumers

Once == [e \in Env |-> 1]
=============================================================================
