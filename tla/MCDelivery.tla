----------------------------- MODULE MCDelivery -----------------------------
(* Instances of Delivery for TLC. *)
EXTENDS Delivery, TLC

Never == [e \in Env |-> 0]

BoundClients == [Never EXCEPT !.client = 3, !.purge = 1]
BoundPush    == [Never EXCEPT !.crash = 1, !.stop = 1, !.fault = 1, !.purge = 1]

IdSymmetry == Permutations(Ids)
=============================================================================
