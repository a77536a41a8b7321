--------------------------- MODULE DeadLetterPages ---------------------------
(***************************************************************************)
(* The list of dead letters, page by page, as both stores compute it and   *)
(* as a client of GET /dead-letters walks it while letters keep arriving.  *)
(* A letter is [id, at, queue]; the letters are given in the order they    *)
(* were saved. Times may be out of this order (each worker reads the clock *)
(* before it saves) and so may identifiers (random within a millisecond).  *)
(***************************************************************************)
EXTENDS Naturals, Sequences, SequencesExt

CONSTANTS
    AnyQueue,          \* the filter without a queue, ""
    DefaultPageSize, MaxPageSize

Matches(letter, queue) == queue = AnyQueue \/ letter.queue = queue

\* DeadLetterFilter.Normalise; intQuery turns a negative number into 0 before.
Normalise(limit) ==
    IF limit <= 0 \/ limit > MaxPageSize THEN DefaultPageSize ELSE limit

\* Mutant: one letter too many is skipped.
MemoryStepSkipsOne(queue, limit, offset, page, letter) ==
    CASE ~Matches(letter, queue)  -> page
      [] Matches(letter, queue) /\ page.skipped <= offset ->
                                     [page EXCEPT !.skipped = @ + 1]
      [] Matches(letter, queue) /\ page.skipped > offset /\ Len(page.found) >= limit ->
                                     page
      [] OTHER                    -> [page EXCEPT !.found = Append(@, letter)]

\* One turn of the loop of memory.DeadLetters.
MemoryStep(queue, limit, offset, page, letter) ==
    CASE ~Matches(letter, queue)  -> page
      [] Matches(letter, queue) /\ page.skipped < offset ->
                                     [page EXCEPT !.skipped = @ + 1]
      [] Matches(letter, queue) /\ page.skipped >= offset /\ Len(page.found) >= limit ->
                                     page
      [] OTHER                    -> [page EXCEPT !.found = Append(@, letter)]

\* memory.DeadLetters: from the last saved to the first.
MemoryPage(letters, queue, limit, offset) ==
    FoldLeft(LAMBDA page, letter : MemoryStep(queue, Normalise(limit), offset, page, letter),
             [skipped |-> 0, found |-> <<>>], Reverse(letters)).found

\* ORDER BY dead_lettered_at DESC, id DESC
Before(a, b) == a.at > b.at \/ (a.at = b.at /\ a.id > b.id)

\* sqlite.DeadLetters: the rows of the queue in this order, LIMIT and OFFSET.
SqlitePage(letters, queue, limit, offset) ==
    LET rows == SortSeq(SelectSeq(letters, LAMBDA letter : Matches(letter, queue)), Before)
    IN SubSeq(rows, offset + 1,
              IF offset + Normalise(limit) < Len(rows)
              THEN offset + Normalise(limit) ELSE Len(rows))

CountDeadLetters(letters, queue) ==
    Len(SelectSeq(letters, LAMBDA letter : Matches(letter, queue)))

\* The letters a client sees that asks for page after page, starting with the
\* first `begin` letters saved and one more saved between two requests if
\* growing, until a page is not full (external: a client of the API).
Walk(store, letters, queue, limit, begin, growing) ==
    LET size == Normalise(limit)
        Now(k) == SubSeq(letters, 1,
                    IF growing /\ begin + k < Len(letters) THEN begin + k
                    ELSE IF growing THEN Len(letters) ELSE begin)
        seen[k \in 0..(Len(letters) + 1)] ==
            LET page == IF store = "memory" THEN MemoryPage(Now(k), queue, limit, k * size)
                        ELSE SqlitePage(Now(k), queue, limit, k * size)
            IN ToSet(page) \cup
               IF Len(page) < size \/ k > Len(letters) THEN {} ELSE seen[k + 1]
    IN seen[0]

-----------------------------------------------------------------------------
\* A walk sees every letter that was there when it began, in both stores,
\* although new letters move the others to later offsets.
WalkComplete(letters, queue, limit, begin, growing) ==
    LET there == {letters[i] : i \in {j \in 1..begin : Matches(letters[j], queue)}}
    IN \A store \in {"memory", "sqlite"} :
           there \subseteq Walk(store, letters, queue, limit, begin, growing)

\* The stores agree: pages of the same size that never exceed the limit, and
\* the same letters in the same order where letters were saved in the order of
\* their times and identifiers.
PagesAgree(letters, queue, limit, offset) ==
    LET memory == MemoryPage(letters, queue, limit, offset)
        sqlite == SqlitePage(letters, queue, limit, offset)
        inOrder == \A i, j \in DOMAIN letters : i < j =>
                      \/ letters[i].at < letters[j].at
                      \/ letters[i].at = letters[j].at /\ letters[i].id < letters[j].id
    IN /\ Len(memory) = Len(sqlite)
       /\ Len(memory) <= Normalise(limit)
       /\ Len(memory) <= CountDeadLetters(letters, queue)
       /\ inOrder => memory = sqlite

=============================================================================
