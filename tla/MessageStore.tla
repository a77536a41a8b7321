---------------------------- MODULE MessageStore ----------------------------
(***************************************************************************)
(* storage.MessageStore: what the engine relies on for the messages of one *)
(* queue, whichever store is configured.  Every operation is atomic.  The  *)
(* two stores find the messages to claim in different ways, MemoryStore    *)
(* through an index it compacts and SqliteStore by an ordered query; both  *)
(* are shown to implement this module.                                     *)
(*                                                                         *)
(* A message is named by its insertion rank (the position it was appended  *)
(* at, the seq column).  Leases and attempts are left to Delivery.         *)
(***************************************************************************)
EXTENDS Naturals, FiniteSets, MessageState

CONSTANTS
    Last,       \* how many messages are ever appended
    Limit,      \* ClaimRequest.Limit
    Backoffs,   \* the delays a retry may be scheduled with
    MaxClock    \* how far time passes

ASSUME StoreAssumption ==
    /\ Last \in Nat /\ MaxClock \in Nat
    /\ Limit \in Nat \ {0}
    /\ Backoffs \subseteq Nat

Ids == 1 .. Last

VARIABLES
    state,  \* message -> lifecycle state, "NONE" before and "GONE" after its time
    avail,  \* message -> AvailableAt
    clock,  \* the time now
    known   \* is the queue itself in the store (durable and declared)?

rows  == <<state, avail>>
svars == <<rows, clock, known>>

Init ==
    /\ state = [m \in Ids |-> "NONE"]
    /\ avail = [m \in Ids |-> 0]
    /\ clock = 0 /\ known = FALSE

Live(m) == ~Terminal(state[m])

Claimable ==
    {m \in Ids : state[m] \in {"QUEUED", "RETRYING"} /\ avail[m] <= clock}

Tick ==
    /\ clock < MaxClock /\ clock' = clock + 1
    /\ UNCHANGED <<rows, known>>

SaveQueue == known' = TRUE /\ UNCHANGED <<rows, clock>>

(* Append asks for no queue: it may even have been deleted meanwhile. *)
AppendRow(m) ==
    /\ state[m] = "NONE" /\ \A n \in 1 .. (m - 1) : state[n] # "NONE"
    /\ state' = [state EXCEPT ![m] = "QUEUED"]
    /\ avail' = [avail EXCEPT ![m] = clock]
    /\ UNCHANGED <<clock, known>>

Take(S) ==
    /\ state' = [m \in Ids |-> IF m \in S THEN "PROCESSING" ELSE state[m]]
    /\ UNCHANGED <<avail, clock, known>>

(* As many messages as there are and the limit allows, in no order.        *)
Claim(S) ==
    /\ S \subseteq Claimable /\ Cardinality(S) <= Limit
    /\ S = Claimable \/ Cardinality(S) = Limit
    /\ Take(S)

(* Acknowledge, ScheduleRetry and Release, of a leased message; otherwise  *)
(* they fail and change nothing.                                           *)
Return(m, next, at) ==
    /\ state[m] = "PROCESSING"
    /\ state' = [state EXCEPT ![m] = next]
    /\ avail' = [avail EXCEPT ![m] = at]
    /\ UNCHANGED <<clock, known>>

Acknowledge(m) == Return(m, "ACKNOWLEDGED", avail[m])
ScheduleRetry(m) == \E b \in Backoffs : Return(m, "RETRYING", clock + b)
Release(m) == Return(m, "QUEUED", clock)

MarkDeadLettered(m) ==
    LET from == IF state[m] = "PROCESSING" THEN "FAILED" ELSE state[m]
    IN  /\ CanTransitionTo(from, "DEAD_LETTERED")
        /\ state' = [state EXCEPT ![m] = "DEAD_LETTERED"]
        /\ UNCHANGED <<avail, clock, known>>

Remove(S) == state' = [m \in Ids |-> IF m \in S THEN "GONE" ELSE state[m]]

(* The queue was known when Purge looked, not necessarily any more. *)
Purge ==
    /\ Remove({m \in Ids : Live(m)})
    /\ UNCHANGED <<avail, clock, known>>

(* Live messages go; a settled one may stay to be looked up.               *)
DeleteQueue(S) ==
    /\ known /\ known' = FALSE
    /\ \A m \in Ids : Live(m) => m \in S
    /\ \A m \in S : Valid(state[m])
    /\ Remove(S)
    /\ UNCHANGED <<avail, clock>>

SNext ==
    \/ Tick \/ SaveQueue \/ Purge
    \/ \E S \in SUBSET Ids : Claim(S) \/ DeleteQueue(S)
    \/ \E m \in Ids : \/ AppendRow(m) \/ Acknowledge(m) \/ ScheduleRetry(m)
                      \/ Release(m) \/ MarkDeadLettered(m)

StoreSpec == Init /\ [][SNext]_svars
-----------------------------------------------------------------------------
(* Properties of the order in which messages are claimed. *)

Claimed(m) == state[m] # "PROCESSING" /\ state'[m] = "PROCESSING"

(* A claim never passes over a message that was appended earlier and is    *)
(* available (memory/store.go Claim scans the index from its head).        *)
InsertionOrder ==
    [][\A m, n \in Claimable : n < m /\ Claimed(m) => Claimed(n)]_rows

(* A claim never passes over a message that has been available for longer  *)
(* (sqlite/claim.go: ORDER BY available_at): a retry goes behind what came *)
(* during its backoff.                                                     *)
AvailabilityOrder ==
    [][\A m, n \in Claimable : avail[n] < avail[m] /\ Claimed(m) => Claimed(n)]_rows
=============================================================================
