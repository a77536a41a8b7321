---------------------------- MODULE SqliteStore -----------------------------
(***************************************************************************)
(* The SQLite store (storage/sqlite): one table of messages, no index of   *)
(* its own, every operation one transaction or statement.  Purge is the    *)
(* exception: it asks for the queue in one statement and deletes in the    *)
(* next.                                                                   *)
(***************************************************************************)
EXTENDS MessageStore

VARIABLE purging    \* has Purge found the queue and not deleted yet?

qvars == <<svars, purging>>

QInit == Init /\ purging = FALSE

(* ORDER BY available_at, seq *)
Before(m, n) == avail[m] < avail[n] \/ (avail[m] = avail[n] /\ m < n)

Rank(m) == Cardinality({n \in Claimable : Before(n, m)})

(* Mutant: ORDER BY seq *)
QClaimBySeq ==
    /\ Take({m \in Claimable : Cardinality({n \in Claimable : n < m}) < Limit})
    /\ UNCHANGED purging

(* Mutant: one row too many. *)
QClaimOneMore ==
    /\ Take({m \in Claimable : Rank(m) <= Limit})
    /\ UNCHANGED purging

(* Claim: ... LIMIT ? *)
QClaim ==
    /\ Take({m \in Claimable : Rank(m) < Limit})
    /\ UNCHANGED purging

QAppend(m) == AppendRow(m) /\ UNCHANGED purging

QAcknowledge(m) == Acknowledge(m) /\ UNCHANGED purging
QScheduleRetry(m) == ScheduleRetry(m) /\ UNCHANGED purging
QRelease(m) == Release(m) /\ UNCHANGED purging
QMarkDeadLettered(m) == MarkDeadLettered(m) /\ UNCHANGED purging

PurgeLookup == known /\ purging' = TRUE /\ UNCHANGED svars

(* DELETE ... WHERE state NOT IN (ACKNOWLEDGED, DEAD_LETTERED) *)
PurgeDelete ==
    /\ purging /\ purging' = FALSE
    /\ Remove({m \in Ids : Valid(state[m]) /\
                           state[m] \notin {"ACKNOWLEDGED", "DEAD_LETTERED"}})
    /\ UNCHANGED <<avail, clock, known>>

QSaveQueue == SaveQueue /\ UNCHANGED purging

(* DeleteQueue deletes the settled messages too. *)
QDeleteQueue ==
    /\ known /\ known' = FALSE
    /\ Remove({m \in Ids : Valid(state[m])})
    /\ UNCHANGED <<avail, clock, purging>>

QTick == Tick /\ UNCHANGED purging

QNext ==
    \/ QTick \/ QSaveQueue \/ QClaim \/ PurgeLookup \/ PurgeDelete \/ QDeleteQueue
    \/ \E m \in Ids : \/ QAppend(m) \/ QAcknowledge(m) \/ QScheduleRetry(m)
                      \/ QRelease(m) \/ QMarkDeadLettered(m)

QSpec == QInit /\ [][QNext]_qvars
=============================================================================
