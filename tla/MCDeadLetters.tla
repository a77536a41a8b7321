---------------------------- MODULE MCDeadLetters ----------------------------
(* Instance of DeadLetters for TLC: a fan-out whose second queue rejects   *)
(* one of the two payloads, and a publication that names its own schema.   *)
EXTENDS DeadLetters, TLC

CONSTANTS q1, q2, good, bad, s1

TwoRoutes == [p \in Pubs |-> <<q1, q2>>]
Named     == [x \in Pubs \cup Queues |-> IF x = q2 THEN s1 ELSE NoSchema]
Satisfied == {<<s1, good>>}

Limits == [crash |-> 1, fault |-> 1, expiry |-> 1, delete |-> 2, delivery |-> 2]

CallerSymmetry == Permutations(Callers)
=============================================================================
