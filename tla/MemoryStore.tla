---------------------------- MODULE MemoryStore -----------------------------
(***************************************************************************)
(* The in-memory store (storage/memory/store.go): the messages of a queue, *)
(* the index `order` that Claim, Purge, Depth and DeleteQueue walk, and    *)
(* the counter `settled` that decides when the index is compacted.         *)
(***************************************************************************)
EXTENDS MessageStore, Sequences

CONSTANT Threshold  \* compactionThreshold

ASSUME ThresholdAssumption == Threshold \in Nat \ {0}

VARIABLES order, settled, closed

mvars == <<svars, order, settled, closed>>

Elements(index) == {index[i] : i \in DOMAIN index}

(* The k-th of some positions. *)
Nth(P, k) == CHOOSE i \in P : Cardinality({j \in P : j <= i}) = k

(* The entries of the index that are in S, in the order of the index: what *)
(* a loop over the index appends to a new slice.                           *)
Select(index, S) ==
    LET found == {i \in DOMAIN index : index[i] \in S}
    IN  [k \in 1 .. Cardinality(found) |-> index[Nth(found, k)]]

(* isSettledLocked: the record is missing or terminal. *)
Settled(m) == Terminal(state[m])

(* How many settled entries the index starts with. *)
HeadLength(index) ==
    CHOOSE h \in 0 .. Len(index) :
        /\ \A i \in 1 .. h : Settled(index[i])
        /\ h < Len(index) => ~Settled(index[h + 1])

(* Mutant: the entry the head scan stopped at is cut off as well. *)
CompactedTooFar ==
    LET head == HeadLength(order)
    IN  [order |-> SubSeq(order, head + 2, Len(order)),
         settled |-> IF settled > head THEN settled - head ELSE 0]

(* Mutant: only the head is ever cut off. *)
CompactedHeadOnly ==
    LET head == HeadLength(order)
    IN  [order |-> SubSeq(order, head + 1, Len(order)),
         settled |-> IF settled > head THEN settled - head ELSE 0]

(* compactLocked: the settled head is cut off; the rest is rewritten only  *)
(* when the counter says that settled entries are many.                    *)
Compacted ==
    LET head  == HeadLength(order)
        rest  == SubSeq(order, head + 1, Len(order))
        count == IF settled > head THEN settled - head ELSE 0
    IN  IF count < Threshold \/ count * 2 < Len(rest)
        THEN [order |-> rest, settled |-> count]
        ELSE [order |-> Select(rest, {m \in Ids : ~Settled(m)}), settled |-> 0]

MInit == Init /\ order = <<>> /\ settled = 0 /\ closed = FALSE

Index == <<order, settled, closed>>

MTick == Tick /\ UNCHANGED Index

MSaveQueue == ~closed /\ SaveQueue /\ UNCHANGED Index

Close == closed' = TRUE /\ UNCHANGED <<svars, order, settled>>

MAppend(m) ==
    /\ ~closed /\ AppendRow(m)
    /\ order' = order \o <<m>>
    /\ UNCHANGED <<settled, closed>>

(* Mutant: the scan starts at the tail. *)
MClaimNewest ==
    LET found == {i \in DOMAIN order : order[i] \in Claimable}
        batch == {order[i] : i \in {j \in found : Cardinality({k \in found : k > j}) < Limit}}
    IN  ~closed /\ Take(batch) /\ UNCHANGED Index

(* Mutant: the limit is compared too late. *)
MClaimOneMore ==
    LET found == Select(Compacted.order, Claimable)
        batch == SubSeq(found, 1, IF Len(found) <= Limit THEN Len(found) ELSE Limit + 1)
    IN  /\ ~closed
        /\ Take(Elements(batch))
        /\ order' = Compacted.order /\ settled' = Compacted.settled
        /\ UNCHANGED closed

(* Claim: the index is compacted, then scanned from its head. *)
MClaim ==
    LET found == Select(Compacted.order, Claimable)
        batch == SubSeq(found, 1, IF Len(found) < Limit THEN Len(found) ELSE Limit)
    IN  /\ ~closed
        /\ Take(Elements(batch))
        /\ order' = Compacted.order /\ settled' = Compacted.settled
        /\ UNCHANGED closed

MAcknowledge(m) ==
    /\ Acknowledge(m)
    /\ settled' = settled + 1
    /\ UNCHANGED <<order, closed>>

MScheduleRetry(m) == ScheduleRetry(m) /\ UNCHANGED Index

MRelease(m) == Release(m) /\ UNCHANGED Index

MMarkDeadLettered(m) ==
    /\ MarkDeadLettered(m)
    /\ settled' = settled + 1
    /\ UNCHANGED <<order, closed>>

(* Purge walks the index; the entries it keeps are settled ones. *)
MPurge ==
    LET remaining == Select(order, {m \in Ids : Valid(state[m]) /\ Terminal(state[m])})
    IN  /\ known
        /\ Remove(Elements(order) \ Elements(remaining))
        /\ order' = remaining /\ settled' = Len(remaining)
        /\ UNCHANGED <<avail, clock, known, closed>>

(* DeleteQueue deletes what the index still lists. *)
MDeleteQueue ==
    /\ known /\ known' = FALSE
    /\ Remove(Elements(order))
    /\ order' = <<>> /\ settled' = 0
    /\ UNCHANGED <<avail, clock, closed>>

MNext ==
    \/ MTick \/ MSaveQueue \/ Close \/ MClaim \/ MPurge \/ MDeleteQueue
    \/ \E m \in Ids : \/ MAppend(m) \/ MAcknowledge(m) \/ MScheduleRetry(m)
                      \/ MRelease(m) \/ MMarkDeadLettered(m)

MSpec == MInit /\ [][MNext]_mvars

Depth == Cardinality({i \in DOMAIN order : Live(order[i])})
-----------------------------------------------------------------------------
(* Properties. *)

(* The index is exact, through every way a message settles, is purged or   *)
(* is compacted away: it lists messages in the order of insertion, every   *)
(* live one once, so that Depth counts them all, and the counter is the    *)
(* number of its settled entries, so that the capacity len(index)-settled  *)
(* which compactLocked allocates is never negative.                        *)
IndexExact ==
    /\ order \in Seq(Ids)
    /\ settled = Cardinality({i \in DOMAIN order : Settled(order[i])})
    /\ \A i, j \in DOMAIN order : i < j => order[i] < order[j]
    /\ \A m \in Ids : Live(m) => m \in Elements(order)
    /\ Depth = Cardinality({m \in Ids : Live(m)})

(* Claims keep the index in proportion: a claim leaves fewer than          *)
(* Threshold settled entries, or fewer than there are live ones.           *)
IndexBounded ==
    [][MClaim => \/ Len(order') - Depth' < Threshold
                 \/ Len(order') - Depth' < Depth']_mvars
=============================================================================
