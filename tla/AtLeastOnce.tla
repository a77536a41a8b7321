---------------------------- MODULE AtLeastOnce -----------------------------
(***************************************************************************)
(* What the broker promises about the messages of one queue, with every    *)
(* operation atomic and no consumer, worker, lease or crash in sight: a    *)
(* message waits, is handed out as often as needed, and leaves the queue   *)
(* for good only once somebody confirmed it, once a dead-letter record     *)
(* exists for it, or because the queue was purged.  Delivery implements    *)
(* this specification.                                                     *)
(***************************************************************************)
EXTENDS Naturals, MessageState

CONSTANT Ids

VARIABLES state, attempts, confirmed, recorded

avars == <<state, attempts, confirmed, recorded>>

(* "NONE": not published yet; "PURGED": deleted from the store.            *)
Stored == States \cup {"NONE", "PURGED"}

Waiting(m) == state[m] \in {"QUEUED", "RETRYING"}

AInit ==
    /\ state = [m \in Ids |-> "NONE"]
    /\ attempts = [m \in Ids |-> 0]
    /\ confirmed = {}
    /\ recorded = {}

Move(m, from, to) ==
    /\ state[m] = from
    /\ state' = [state EXCEPT ![m] = to]
    /\ UNCHANGED <<attempts, confirmed, recorded>>

Enqueue(m) == Move(m, "NONE", "QUEUED")

HandOut(S) ==
    /\ \A m \in S : Waiting(m)
    /\ state' = [m \in Ids |-> IF m \in S THEN "PROCESSING" ELSE state[m]]
    /\ attempts' = [m \in Ids |-> attempts[m] + IF m \in S THEN 1 ELSE 0]
    /\ UNCHANGED <<confirmed, recorded>>

Confirm(m) ==
    /\ confirmed' = confirmed \cup {m}
    /\ UNCHANGED <<state, attempts, recorded>>

Record(m) ==
    /\ recorded' = recorded \cup {m}
    /\ UNCHANGED <<state, attempts, confirmed>>

TakeBack(m) ==
    \/ Move(m, "PROCESSING", "QUEUED")
    \/ Move(m, "PROCESSING", "RETRYING")

Complete(m) == m \in confirmed /\ Move(m, "PROCESSING", "ACKNOWLEDGED")

Park(m) == m \in recorded /\ Move(m, "PROCESSING", "DEAD_LETTERED")

Discard ==
    /\ state' = [m \in Ids |->
                    IF Waiting(m) \/ state[m] = "PROCESSING"
                    THEN "PURGED" ELSE state[m]]
    /\ UNCHANGED <<attempts, confirmed, recorded>>

ANext ==
    \/ \E m \in Ids :
          \/ Enqueue(m) \/ Confirm(m) \/ Record(m)
          \/ TakeBack(m) \/ Complete(m) \/ Park(m)
    \/ \E S \in SUBSET Ids : HandOut(S)
    \/ Discard

ASpec == AInit /\ [][ANext]_avars
=============================================================================
