---------------------------- MODULE StoreProofs ----------------------------
(***************************************************************************)
(* Both stores implement storage.MessageStore and claim in the order they  *)
(* promise, and the index of the memory store is exact: for any number of  *)
(* messages, any claim limit, any backoff and any compaction threshold.    *)
(***************************************************************************)
EXTENDS SqliteStore, MemoryStore, FiniteSetTheorems, NaturalsInduction, SequenceTheorems,
        WellFoundedInduction, TLAPS

TableOK ==
    /\ state \in [Ids -> States \cup {"NONE", "GONE"}]
    /\ avail \in [Ids -> Nat]
    /\ clock \in Nat

(* The states a message can be settled in are those without a transition;  *)
(* a record that is not there yet, or not any more, counts as settled.     *)
LiveStates == {"CREATED", "QUEUED", "PROCESSING", "FAILED", "RETRYING"}

LEMMA TerminalIs ==
  \A s \in States \cup {"NONE", "GONE"} :
     (Valid(s) <=> s \in States) /\ (Terminal(s) <=> s \notin LiveStates)
<1>1. DOMAIN Transitions = States
  BY DEF Transitions, States
<1>2. /\ Transitions["ACKNOWLEDGED"] = {} /\ Transitions["DEAD_LETTERED"] = {}
      /\ Transitions["CREATED"] # {} /\ Transitions["QUEUED"] # {}
      /\ Transitions["PROCESSING"] # {} /\ Transitions["FAILED"] # {}
      /\ Transitions["RETRYING"] # {}
  BY DEF Transitions
<1>3. \A s \in States : Transitions[s] = {} <=> s \notin LiveStates
  BY <1>2 DEF States, LiveStates
<1> QED
  BY <1>1, <1>3 DEF Terminal, Valid, LiveStates, States

(* Every operation of the store leaves a table behind. *)
LEMMA TableKept == TableOK /\ [SNext]_svars => TableOK'
<1> SUFFICES ASSUME TableOK, [SNext]_svars PROVE TableOK'
  OBVIOUS
<1> USE DEF TableOK
<1>1. CASE UNCHANGED svars
  BY <1>1 DEF svars, rows
<1>2. CASE Tick \/ SaveQueue
  BY <1>2 DEF Tick, SaveQueue, rows
<1>3. ASSUME NEW S \in SUBSET Ids, Claim(S) PROVE TableOK'
  BY <1>3 DEF Claim, Take, States
<1>4. ASSUME Purge \/ \E S \in SUBSET Ids : DeleteQueue(S) PROVE TableOK'
  BY <1>4 DEF Purge, DeleteQueue, Remove
<1>5. ASSUME NEW m \in Ids, AppendRow(m) PROVE TableOK'
  BY <1>5 DEF AppendRow, States
<1>6. ASSUME NEW m \in Ids, NEW next \in States, NEW at \in Nat, Return(m, next, at)
      PROVE  TableOK'
  BY <1>6 DEF Return
<1>7. ASSUME NEW m \in Ids, Acknowledge(m) \/ ScheduleRetry(m) \/ Release(m)
      PROVE  TableOK'
  BY <1>6, <1>7, StoreAssumption DEF Acknowledge, ScheduleRetry, Release, States
<1>8. ASSUME NEW m \in Ids, MarkDeadLettered(m)
      PROVE  TableOK'
  BY <1>8 DEF MarkDeadLettered, States
<1> QED
  BY <1>1, <1>2, <1>3, <1>4, <1>5, <1>7, <1>8 DEF SNext

(* Every set of numbers that is not empty has a least element. *)
LEMMA Least ==
  ASSUME NEW T \in SUBSET Nat, T # {}
  PROVE  \E x \in T : \A y \in T : x <= y
<1> DEFINE R == OpToRel(<, Nat)
<1>1. IsWellFoundedOn(R, Nat)
  BY NatLessThanWellFounded, Zenon
<1>2. \A x, y \in Nat : y < x => <<y, x>> \in R
  BY DEF OpToRel
<1> HIDE DEF R
<1>3. \E x \in T : \A y \in T : ~(<<y, x>> \in R)
  BY <1>1, WFMin, Zenon
<1>4. PICK x \in T : \A y \in T : ~(<<y, x>> \in R)
  BY <1>3
<1>5. \A y \in T : ~(y < x)
  BY <1>2, <1>4, Zenon
<1>6. \A y \in T : x <= y
  BY <1>5
<1> QED
  BY <1>6

-----------------------------------------------------------------------------
(* The SQLite store. *)

(* There are finitely many messages. *)
LEMMA ClaimableFinite ==
  ASSUME NEW S \in SUBSET Claimable
  PROVE  IsFiniteSet(S) /\ Cardinality(S) \in Nat
<1>1. IsFiniteSet(Ids)
  BY FS_Interval, StoreAssumption DEF Ids
<1> QED
  BY <1>1, FS_Subset, FS_CardinalityType DEF Claimable

(* What the query puts first has a lower rank. *)
LEMMA BeforeRanksLower ==
  ASSUME TableOK, NEW m \in Claimable, NEW n \in Claimable, Before(n, m)
  PROVE  Rank(n) \in Nat /\ Rank(m) \in Nat /\ Rank(n) < Rank(m)
<1> DEFINE A == {k \in Claimable : Before(k, n)}
           B == {k \in Claimable : Before(k, m)}
<1>1. /\ avail[m] \in Nat /\ avail[n] \in Nat /\ m \in Nat /\ n \in Nat
      /\ \A k \in Claimable : avail[k] \in Nat /\ k \in Nat
  BY StoreAssumption DEF TableOK, Claimable, Ids
<1>2. A \cup {n} \in SUBSET B /\ n \notin A
  <2>1. ~Before(n, n)
    BY <1>1 DEF Before
  <2>2. ASSUME NEW k \in Claimable, Before(k, n) PROVE Before(k, m)
    <3>1. avail[k] \in Nat /\ k \in Nat
      BY <1>1
    <3> QED
      BY <1>1, <2>2, <3>1 DEF Before
  <2> QED
    BY <2>1, <2>2
<1>3. /\ IsFiniteSet(A) /\ Cardinality(A) \in Nat
      /\ IsFiniteSet(B) /\ Cardinality(B) \in Nat
  BY ClaimableFinite
<1> HIDE DEF A, B
<1>4. Cardinality(A \cup {n}) = Cardinality(A) + 1
  BY <1>2, <1>3, FS_AddElement, Zenon
<1>5. Cardinality(A \cup {n}) <= Cardinality(B)
  BY <1>2, <1>3, FS_Subset
<1> USE DEF A, B
<1> QED
  BY <1>3, <1>4, <1>5 DEF Rank

(* SELECT ... ORDER BY available_at, seq LIMIT ? finds as many messages as *)
(* there are and the limit allows.                                         *)
LEMMA LimitIsReached ==
  ASSUME TableOK, NEW S, S = {m \in Claimable : Rank(m) < Limit}
  PROVE  /\ Cardinality(S) <= Limit
         /\ S = Claimable \/ Cardinality(S) = Limit
<1>1. /\ \A m \in Claimable : Rank(m) \in Nat /\ avail[m] \in Nat /\ m \in Nat
      /\ Limit \in Nat \ {0}
  <2>1. \A m \in Claimable : {n \in Claimable : Before(n, m)} \in SUBSET Claimable
    OBVIOUS
  <2> QED
    BY <2>1, ClaimableFinite, StoreAssumption DEF Rank, TableOK, Claimable, Ids
<1>2. IsFiniteSet(S) /\ Cardinality(S) \in Nat
  BY ClaimableFinite
<1>3. Cardinality(S) <= Limit
  <2>1. PICK f : f = [m \in S |-> Rank(m)]
    BY Zenon
  <2>2. \A m, n \in S : m # n => Before(m, n) \/ Before(n, m)
    BY <1>1 DEF Before
  <2>3. \A m, n \in S : m # n => Rank(m) # Rank(n)
    BY <1>1, <2>2, BeforeRanksLower
  <2>4. f \in [S -> 0..(Limit - 1)] /\ \A m, n \in S : f[m] = f[n] => m = n
    BY <1>1, <2>1, <2>3
  <2>5. f \in Injection(S, 0..(Limit - 1))
    BY <2>4 DEF Injection, IsInjective
  <2>6. IsFiniteSet(0..(Limit - 1)) /\ Cardinality(0..(Limit - 1)) = Limit
    BY <1>1, FS_Interval
  <2> QED
    BY <2>5, <2>6, FS_Injection
<1>4. ASSUME S # Claimable PROVE Limit <= Cardinality(S)
  <2> DEFINE T == {Rank(m) : m \in Claimable \ S}
  <2>1. T \in SUBSET Nat /\ T # {}
    BY <1>1, <1>4
  <2>2. PICK m \in Claimable \ S : \A n \in Claimable \ S : Rank(m) <= Rank(n)
    <3>1. PICK r \in T : \A t \in T : r <= t
      BY <2>1, Least, Zenon
    <3> QED
      BY <3>1
  <2> DEFINE A == {k \in Claimable : Before(k, m)}
  <2>3. \A k \in A : Rank(k) < Rank(m)
    BY BeforeRanksLower
  <2>4. A \in SUBSET S
    BY <1>1, <2>2, <2>3
  <2>5. Rank(m) <= Cardinality(S)
    BY <1>2, <2>4, FS_Subset, Zenon DEF Rank
  <2> QED
    BY <1>1, <1>2, <2>2, <2>5
<1> QED
  BY <1>1, <1>2, <1>3, <1>4

(* Every statement of the SQLite store is an operation of MessageStore, or *)
(* changes no message (PurgeLookup).                                       *)
LEMMA StatementIs == TableOK /\ [QNext]_qvars => [SNext]_svars
<1> SUFFICES ASSUME TableOK, [QNext]_qvars PROVE SNext \/ UNCHANGED svars
  OBVIOUS
<1>1. CASE UNCHANGED qvars
  BY <1>1 DEF qvars
<1>2. CASE QTick \/ QSaveQueue \/ PurgeLookup
  BY <1>2 DEF QTick, QSaveQueue, PurgeLookup, SNext
<1>3. CASE QClaim
  <2>1. PICK S : S = {m \in Claimable : Rank(m) < Limit} /\ Take(S)
    BY <1>3 DEF QClaim
  <2>2. S \in SUBSET Claimable /\ S \in SUBSET Ids
    BY <2>1 DEF Claimable
  <2>3. Cardinality(S) <= Limit /\ (S = Claimable \/ Cardinality(S) = Limit)
    BY <2>1, LimitIsReached
  <2> QED
    BY <2>1, <2>2, <2>3 DEF SNext, Claim
<1>4. CASE PurgeDelete
  <2>1. {m \in Ids : Valid(state[m]) /\ state[m] \notin {"ACKNOWLEDGED", "DEAD_LETTERED"}}
          = {m \in Ids : Live(m)}
    BY TerminalIs DEF TableOK, Live, LiveStates, States
  <2> QED
    BY <1>4, <2>1 DEF PurgeDelete, Purge, SNext
<1>5. CASE QDeleteQueue
  <2>1. PICK S : S = {m \in Ids : Valid(state[m])} /\ Remove(S)
    BY <1>5 DEF QDeleteQueue
  <2>2. S \in SUBSET Ids /\ \A m \in Ids : Live(m) => m \in S
    BY <2>1, TerminalIs DEF TableOK, Live, LiveStates, States
  <2>3. DeleteQueue(S)
    BY <1>5, <2>1, <2>2 DEF QDeleteQueue, DeleteQueue
  <2> QED
    BY <2>2, <2>3 DEF SNext
<1>6. ASSUME NEW m \in Ids,
             \/ QAppend(m) \/ QAcknowledge(m) \/ QScheduleRetry(m) \/ QRelease(m)
             \/ QMarkDeadLettered(m)
      PROVE  SNext
  BY <1>6 DEF QAppend, QAcknowledge, QScheduleRetry, QRelease, QMarkDeadLettered, SNext
<1> QED
  BY <1>1, <1>2, <1>3, <1>4, <1>5, <1>6 DEF QNext

(* The SQLite store implements storage.MessageStore: the ordered query     *)
(* with its LIMIT is a claim of MessageStore, and Purge, although it looks *)
(* for the queue and deletes in two statements, is one.                    *)
THEOREM SqliteImplements == QSpec => StoreSpec
<1>1. QInit => Init /\ TableOK
  BY DEF QInit, Init, TableOK
<1> QED
  BY <1>1, StatementIs, TableKept, PTL DEF QSpec, StoreSpec
(* Only Claim hands a message out. *)
LEMMA OnlyClaims ==
  ASSUME TableOK, QNext, NEW m \in Ids, Claimed(m)
  PROVE  QClaim
<1> USE DEF TableOK, Claimed
<1>1. ~(QTick \/ QSaveQueue \/ PurgeLookup)
  BY DEF QTick, Tick, QSaveQueue, SaveQueue, PurgeLookup, svars, rows
<1>2. ~(PurgeDelete \/ QDeleteQueue)
  BY DEF PurgeDelete, QDeleteQueue, Remove
<1>3. ASSUME NEW n \in Ids, NEW next \in States \ {"PROCESSING"},
             state' = [state EXCEPT ![n] = next]
      PROVE  FALSE
  BY <1>3
<1>4. ASSUME NEW n \in Ids
      PROVE  ~(\/ QAppend(n) \/ QAcknowledge(n) \/ QScheduleRetry(n) \/ QRelease(n)
               \/ QMarkDeadLettered(n))
  BY <1>3 DEF QAppend, AppendRow, QAcknowledge, Acknowledge, QScheduleRetry, ScheduleRetry,
     QRelease, Release, Return, QMarkDeadLettered, MarkDeadLettered, States
<1> QED
  BY <1>1, <1>2, <1>4 DEF QNext

(* No claim passes over a message that has been available for longer, so a *)
(* retry goes behind the messages that became available during its backoff.*)
THEOREM ClaimsByAvailability == QSpec => AvailabilityOrder
<1>1. QInit => TableOK
  BY DEF QInit, Init, TableOK
<1>2. TableOK /\ [QNext]_qvars =>
        [\A m, n \in Claimable : avail[n] < avail[m] /\ Claimed(m) => Claimed(n)]_rows
  <2> SUFFICES ASSUME TableOK, [QNext]_qvars, NEW m \in Claimable, NEW n \in Claimable,
                      avail[n] < avail[m], Claimed(m)
               PROVE  Claimed(n)
    OBVIOUS
  <2>1. m \in Ids /\ n \in Ids /\ state[n] # "PROCESSING"
    BY DEF Claimable
  <2>2. CASE UNCHANGED qvars
    BY <2>2 DEF qvars, svars, rows, Claimed
  <2>3. CASE QNext
    <3>1. QClaim
      BY <2>1, <2>3, OnlyClaims
    <3>2. Rank(m) < Limit
      BY <2>1, <3>1 DEF QClaim, Take, Claimed
    <3>3. Rank(n) < Limit
      BY <3>2, BeforeRanksLower, StoreAssumption DEF Before
    <3> QED
      BY <2>1, <3>1, <3>3 DEF QClaim, Take, Claimed
  <2> QED
    BY <2>2, <2>3
<1> QED
  BY <1>1, <1>2, StatementIs, TableKept, PTL DEF QSpec, AvailabilityOrder
-----------------------------------------------------------------------------
(* The index of the memory store lists messages in the order of insertion. *)
Increasing(s) == \A i, j \in DOMAIN s : i < j => s[i] < s[j]

Indices == {s \in Seq(Ids) : Increasing(s)}

(* The k-th position is one of them, and every position is some k-th. *)
LEMMA NthIs ==
  ASSUME NEW P \in SUBSET Nat, IsFiniteSet(P)
  PROVE  /\ Cardinality(P) \in Nat
         /\ \A k \in 1..Cardinality(P) : Nth(P, k) \in P
         /\ \A k, l \in 1..Cardinality(P) : k < l => Nth(P, k) < Nth(P, l)
         /\ \A i \in P : \E k \in 1..Cardinality(P) : Nth(P, k) = i
<1>1. PICK n : n = Cardinality(P) /\ n \in Nat
  BY FS_CardinalityType
<1>2. PICK upto : upto = [i \in P |-> Cardinality({j \in P : j <= i})]
  BY Zenon
<1>3. ASSUME NEW i \in P PROVE upto[i] \in 1..n
  <2>0. PICK A : A = {j \in P : j <= i}
    BY Zenon
  <2>1. A \in SUBSET P /\ {i} \in SUBSET A
    BY <2>0
  <2>2. IsFiniteSet(A) /\ Cardinality(A) <= n /\ Cardinality(A) \in Nat
    BY <1>1, <2>1, FS_Subset, FS_CardinalityType, Zenon
  <2>3. Cardinality({i}) <= Cardinality(A) /\ Cardinality({i}) = 1
    BY <2>1, <2>2, FS_Subset, FS_Singleton
  <2> QED
    BY <1>1, <1>2, <2>0, <2>2, <2>3
<1>4. ASSUME NEW i \in P, NEW j \in P, i < j PROVE upto[i] < upto[j]
  <2>0. PICK A, B : A = {k \in P : k <= i} /\ B = {k \in P : k <= j}
    BY Zenon
  <2>1. A \in SUBSET P /\ B \in SUBSET P /\ A \cup {j} \in SUBSET B /\ j \notin A
    <3>1. i \in Nat /\ j \in Nat /\ \A k \in P : k \in Nat
      OBVIOUS
    <3>2. \A k \in P : k <= i => k <= j
      BY <1>4, <3>1
    <3>3. j <= j /\ ~(j <= i)
      BY <1>4, <3>1
    <3> QED
      BY <2>0, <3>2, <3>3, Zenon
  <2>2. /\ IsFiniteSet(A) /\ Cardinality(A) \in Nat
        /\ IsFiniteSet(B) /\ Cardinality(B) \in Nat
    BY <2>1, FS_Subset, FS_CardinalityType, Zenon
  <2>3. Cardinality(A \cup {j}) = Cardinality(A) + 1
    BY <2>1, <2>2, FS_AddElement, Zenon
  <2>4. Cardinality(A \cup {j}) <= Cardinality(B)
    BY <2>1, <2>2, FS_Subset, Zenon
  <2> QED
    BY <1>2, <2>0, <2>2, <2>3, <2>4
<1>5. \A i, j \in P : upto[i] = upto[j] => i = j
  <2>1. \A i, j \in P : i # j => i < j \/ j < i
    OBVIOUS
  <2> QED
    BY <1>3, <1>4, <2>1
<1>6. upto \in Injection(P, 1..n)
  <2>1. upto \in [P -> 1..n]
    BY <1>2, <1>3
  <2> QED
    BY <1>5, <2>1 DEF Injection, IsInjective
<1>7. IsFiniteSet(1..n) /\ Cardinality(1..n) = n
  BY <1>1, FS_Interval
<1>8. upto \in Surjection(P, 1..n)
  BY <1>1, <1>6, <1>7, FS_Injection
<1>9. ASSUME NEW k \in 1..n PROVE Nth(P, k) \in P /\ upto[Nth(P, k)] = k
  <2>1. \E i \in P : Cardinality({j \in P : j <= i}) = k
    BY <1>2, <1>8 DEF Surjection
  <2>2. Nth(P, k) \in P /\ Cardinality({j \in P : j <= Nth(P, k)}) = k
    BY <2>1, Zenon DEF Nth
  <2> QED
    BY <1>2, <2>2
<1>10. \A k, l \in 1..n : k < l => Nth(P, k) < Nth(P, l)
  <2> SUFFICES ASSUME NEW k \in 1..n, NEW l \in 1..n, k < l, ~(Nth(P, k) < Nth(P, l))
               PROVE  FALSE
    OBVIOUS
  <2>1. Nth(P, k) = Nth(P, l) \/ Nth(P, l) < Nth(P, k)
    <3>1. Nth(P, k) \in Nat /\ Nth(P, l) \in Nat
      BY <1>9, Zenon
    <3> QED
      BY <3>1
  <2>2. k = l \/ l < k
    BY <1>4, <1>9, <2>1, Zenon
  <2> QED
    BY <1>1, <2>2
<1>11. \A i \in P : \E k \in 1..n : Nth(P, k) = i
  BY <1>3, <1>5, <1>9, Zenon
<1> QED
  BY <1>1, <1>9, <1>10, <1>11

(* What an index is, position by position. *)
LEMMA IndexIs ==
  ASSUME NEW s \in Indices
  PROVE  /\ Len(s) \in Nat /\ DOMAIN s = 1..Len(s)
         /\ \A i \in DOMAIN s : i \in Nat /\ s[i] \in Ids /\ s[i] \in Nat
         /\ \A i, j \in DOMAIN s : (i < j <=> s[i] < s[j]) /\ (s[i] = s[j] <=> i = j)
<1>1. /\ Len(s) \in Nat /\ DOMAIN s = 1..Len(s) /\ \A i \in DOMAIN s : s[i] \in Ids
      /\ Increasing(s)
  BY DEF Indices
<1>2. \A m \in Ids : m \in Nat
  BY StoreAssumption DEF Ids
<1>3. ASSUME NEW i \in DOMAIN s, NEW j \in DOMAIN s
      PROVE  (i < j <=> s[i] < s[j]) /\ (s[i] = s[j] <=> i = j)
  <2>1. i \in Nat /\ j \in Nat /\ s[i] \in Nat /\ s[j] \in Nat
    BY <1>1, <1>2
  <2>2. (i < j => s[i] < s[j]) /\ (j < i => s[j] < s[i])
    BY <1>1 DEF Increasing
  <2> QED
    BY <2>1, <2>2
<1> QED
  BY <1>1, <1>2, <1>3

(* The entries of an index that are in a set are as many as the positions  *)
(* they are at.                                                            *)
LEMMA CountIs ==
  ASSUME NEW s \in Indices, NEW S
  PROVE  /\ IsFiniteSet({i \in DOMAIN s : s[i] \in S})
         /\ IsFiniteSet(Elements(s) \cap S)
         /\ Cardinality({i \in DOMAIN s : s[i] \in S}) \in Nat
         /\ Cardinality({i \in DOMAIN s : s[i] \in S}) = Cardinality(Elements(s) \cap S)
<1>1. PICK P, E : P = {i \in DOMAIN s : s[i] \in S} /\ E = Elements(s) \cap S
  BY Zenon
<1>2. PICK n \in Nat : n = Len(s) /\ P \in SUBSET (1..n)
  BY <1>1, IndexIs
<1>3. IsFiniteSet(P) /\ Cardinality(P) \in Nat
  <2>1. IsFiniteSet(1..n)
    BY FS_Interval
  <2> QED
    BY <1>2, <2>1, FS_Subset, FS_CardinalityType, Zenon
<1>4. PICK f : f = [i \in P |-> s[i]]
  BY Zenon
<1>5. f \in [P -> E]
  BY <1>1, <1>4 DEF Elements
<1>6. \A i, j \in P : f[i] = f[j] => i = j
  BY <1>1, <1>4, IndexIs
<1>7. \A m \in E : \E i \in P : f[i] = m
  BY <1>1, <1>4 DEF Elements
<1>8. f \in Injection(P, E) /\ f \in Surjection(P, E)
  BY <1>5, <1>6, <1>7 DEF Injection, IsInjective, Surjection
<1>9. IsFiniteSet(E) /\ Cardinality(E) = Cardinality(P)
  BY <1>3, <1>8, FS_Surjection
<1> QED
  BY <1>1, <1>3, <1>9

(* An index has as many entries as positions. *)
LEMMA SizeIs ==
  ASSUME NEW s \in Indices
  PROVE  IsFiniteSet(Elements(s)) /\ Cardinality(Elements(s)) = Len(s)
<1>1. PICK n \in Nat : n = Len(s) /\ {i \in DOMAIN s : s[i] \in Elements(s)} = 1..n
  BY IndexIs DEF Elements
<1>2. Cardinality(1..n) = n
  BY FS_Interval
<1>3. Elements(s) \cap Elements(s) = Elements(s)
  OBVIOUS
<1> QED
  BY <1>1, <1>2, <1>3, CountIs, Zenon

(* A loop that appends what it keeps leaves an index of just that. *)
LEMMA SelectIs ==
  ASSUME NEW s \in Indices, NEW S
  PROVE  Select(s, S) \in Indices /\ Elements(Select(s, S)) = Elements(s) \cap S
<1>1. PICK P : P = {i \in DOMAIN s : s[i] \in S}
  BY Zenon
<1>2. P \in SUBSET Nat /\ IsFiniteSet(P)
  <2>1. IsFiniteSet(P)
    BY <1>1, CountIs, Zenon
  <2>2. P \in SUBSET Nat
    BY <1>1, IndexIs
  <2> QED
    BY <2>1, <2>2
<1>3. PICK n : n = Cardinality(P)
  OBVIOUS
<1>4. /\ n \in Nat /\ \A k \in 1..n : Nth(P, k) \in P
      /\ \A k, l \in 1..n : k < l => Nth(P, k) < Nth(P, l)
      /\ \A i \in P : \E k \in 1..n : Nth(P, k) = i
  BY <1>2, <1>3, NthIs
<1>5. PICK t : t = [k \in 1..n |-> s[Nth(P, k)]]
  BY Zenon
<1>6. t = Select(s, S)
  BY <1>1, <1>3, <1>5 DEF Select
<1>7. DOMAIN t = 1..n /\ \A k \in 1..n : t[k] = s[Nth(P, k)]
  BY <1>5
<1>8. \A k \in 1..n : Nth(P, k) \in DOMAIN s /\ s[Nth(P, k)] \in Ids
  BY <1>1, <1>4, IndexIs
<1>9. t \in [1..n -> Ids]
  BY <1>5, <1>8
<1>10. t \in Seq(Ids)
  BY <1>4, <1>9
<1>11. Increasing(t)
  BY <1>4, <1>7, <1>8, IndexIs DEF Increasing
<1>12. Elements(t) = Elements(s) \cap S
  <2>1. \A k \in 1..n : t[k] \in Elements(s) \cap S
    BY <1>1, <1>4, <1>7, <1>8, Zenon DEF Elements
  <2>2. \A i \in DOMAIN s : s[i] \in S => \E k \in 1..n : t[k] = s[i]
    BY <1>1, <1>4, <1>7
  <2> QED
    BY <1>7, <2>1, <2>2 DEF Elements
<1> QED
  BY <1>6, <1>10, <1>11, <1>12 DEF Indices

(* A part of an index is an index. *)
LEMMA PartIs ==
  ASSUME NEW s \in Indices, NEW a \in Nat \ {0}, NEW n \in Nat, a <= n + 1, n <= Len(s)
  PROVE  /\ SubSeq(s, a, n) \in Indices /\ Len(SubSeq(s, a, n)) = n + 1 - a
         /\ Elements(SubSeq(s, a, n)) = {s[i] : i \in a..n}
<1>1. /\ Len(s) \in Nat /\ DOMAIN s = 1..Len(s) /\ s \in Seq(Ids)
      /\ \A i, j \in DOMAIN s : i < j => s[i] < s[j]
  BY IndexIs DEF Indices
<1>2. PICK t : t = SubSeq(s, a, n)
  BY Zenon
<1>3. PICK l \in Nat : l = n + 1 - a
  OBVIOUS
<1>4. t \in Seq(Ids) /\ Len(t) = l /\ \A i \in 1..l : t[i] = s[i + a - 1]
  BY <1>1, <1>2, <1>3
<1>5. DOMAIN t = 1..l
  BY <1>4
<1>6. \A i \in 1..l : i \in Nat /\ i + a - 1 \in a..n /\ i + a - 1 \in DOMAIN s
  BY <1>1, <1>3
<1>7. \A i, j \in 1..l : i < j => i + a - 1 < j + a - 1
  BY <1>6
<1>8. Increasing(t)
  BY <1>1, <1>4, <1>5, <1>6, <1>7, Zenon DEF Increasing
<1>9. Elements(t) = {s[i] : i \in a..n}
  <2>1. \A i \in a..n : i - a + 1 \in 1..l /\ (i - a + 1) + a - 1 = i
    BY <1>3
  <2>2. \A i \in a..n : \E j \in 1..l : t[j] = s[i]
    BY <1>4, <2>1, Zenon
  <2>3. \A j \in 1..l : \E i \in a..n : t[j] = s[i]
    BY <1>4, <1>6, Zenon
  <2>4. \A e : e \in Elements(t) <=> \E j \in 1..l : t[j] = e
    BY <1>5 DEF Elements
  <2>5. \A e : e \in Elements(t) <=> e \in {s[i] : i \in a..n}
    BY <2>2, <2>3, <2>4, Zenon
  <2> QED
    BY <2>5
<1> QED
  BY <1>2, <1>3, <1>4, <1>8, <1>9 DEF Indices

(* Append adds a message that is newer than all others. *)
LEMMA AddIs ==
  ASSUME NEW s \in Indices, NEW m \in Ids, \A e \in Elements(s) : e < m
  PROVE  s \o <<m>> \in Indices /\ Elements(s \o <<m>>) = Elements(s) \cup {m}
<1>1. /\ Len(s) \in Nat /\ DOMAIN s = 1..Len(s) /\ s \in Seq(Ids)
      /\ \A i, j \in DOMAIN s : i < j => s[i] < s[j]
  BY IndexIs DEF Indices
<1>2. PICK t : t = s \o <<m>>
  BY Zenon
<1>3. /\ t \in Seq(Ids) /\ DOMAIN t = 1..(Len(s) + 1)
      /\ t[Len(s) + 1] = m /\ \A i \in 1..Len(s) : t[i] = s[i]
  BY <1>1, <1>2
<1>4. \A i \in 1..Len(s) : t[i] < m
  BY <1>1, <1>3 DEF Elements
<1>5. \A i, j \in DOMAIN t : i < j => i \in 1..Len(s) /\ (j \in 1..Len(s) \/ j = Len(s) + 1)
  BY <1>1, <1>3
<1>6. Increasing(t)
  BY <1>1, <1>3, <1>4, <1>5 DEF Increasing
<1>7. Elements(t) = Elements(s) \cup {m}
  BY <1>1, <1>3 DEF Elements
<1> QED
  BY <1>2, <1>3, <1>6, <1>7 DEF Indices
-----------------------------------------------------------------------------
SettledIds == {m \in Ids : Settled(m)}

(* The index of the memory store lists every live message, and only        *)
(* messages the store has.                                                 *)
Exact ==
    /\ order \in Indices
    /\ settled = Cardinality(Elements(order) \cap SettledIds)
    /\ \A m \in Elements(order) : Valid(state[m])
    /\ \A m \in Ids : Live(m) => m \in Elements(order)

(* Messages are appended in turn, so that a new one goes to the end. *)
InTurn ==
    \A m \in Ids : state[m] # "NONE" => \A n \in 1..(m - 1) : state[n] # "NONE"

MInv == TableOK /\ Exact /\ InTurn

(* The scan of compactLocked stops at the first entry that is not settled. *)
LEMMA HeadIs ==
  ASSUME order \in Indices
  PROVE  LET h == HeadLength(order)
         IN  h \in 0..Len(order) /\ \A i \in 1..h : Settled(order[i])
<1>1. PICK n \in Nat : n = Len(order)
  BY IndexIs
<1> DEFINE T == {h \in 0..n : h < n => ~Settled(order[h + 1])}
<1>2. T \in SUBSET Nat /\ n \in T
  OBVIOUS
<1>3. PICK h \in T : \A g \in T : h <= g
  BY <1>2, Least, Zenon
<1>4. ASSUME NEW i \in 1..h PROVE Settled(order[i])
  <2>1. i - 1 \in 0..n /\ i - 1 < n /\ ~(h <= i - 1) /\ (i - 1) + 1 = i
    BY <1>3
  <2> QED
    BY <1>3, <2>1
<1>5. /\ h \in 0..Len(order) /\ \A i \in 1..h : Settled(order[i])
      /\ h < Len(order) => ~Settled(order[h + 1])
  BY <1>1, <1>3, <1>4
<1> QED
  BY <1>5, Zenon DEF HeadLength

(* Compaction keeps the index exact and in proportion. *)
LEMMA CompactedIs ==
  ASSUME MInv
  PROVE  LET c == Compacted
         IN  /\ c.order \in Indices /\ Elements(c.order) \subseteq Elements(order)
             /\ \A m \in Elements(order) : Live(m) => m \in Elements(c.order)
             /\ c.settled = Cardinality(Elements(c.order) \cap SettledIds)
             /\ c.settled < Threshold \/ c.settled * 2 < Len(c.order)
<1>1. order \in Indices /\ settled = Cardinality(Elements(order) \cap SettledIds)
  BY DEF MInv, Exact
<1>2. PICK n \in Nat : n = Len(order)
  BY <1>1, IndexIs
<1>3. PICK h \in 0..n : h = HeadLength(order) /\ \A i \in 1..h : Settled(order[i])
  BY <1>1, <1>2, HeadIs
<1>4. PICK head, rest : head = SubSeq(order, 1, h) /\ rest = SubSeq(order, h + 1, n)
  BY Zenon
<1>5. /\ head \in Indices /\ Len(head) = h /\ Elements(head) = {order[i] : i \in 1..h}
      /\ rest \in Indices /\ Len(rest) = n - h /\ Elements(rest) = {order[i] : i \in (h + 1)..n}
  <2>1. h \in Nat /\ h <= n /\ n <= Len(order) /\ 1 <= h + 1 /\ h + 1 \in Nat \ {0}
        /\ h <= Len(order) /\ h + 1 - 1 = h /\ n + 1 - (h + 1) = n - h /\ h + 1 <= n + 1
    BY <1>2
  <2>2. /\ head \in Indices /\ Len(head) = h + 1 - 1
        /\ Elements(head) = {order[i] : i \in 1..h}
    BY <1>1, <1>4, <2>1, PartIs
  <2>3. /\ rest \in Indices /\ Len(rest) = n + 1 - (h + 1)
        /\ Elements(rest) = {order[i] : i \in (h + 1)..n}
    BY <1>1, <1>4, <2>1, PartIs
  <2> QED
    BY <2>1, <2>2, <2>3
<1>6. DOMAIN order = 1..n /\ \A i, j \in DOMAIN order : order[i] = order[j] <=> i = j
  BY <1>1, <1>2, IndexIs
<1>7. Elements(order) = Elements(head) \cup Elements(rest) /\ Elements(head) \cap Elements(rest) = {}
  <2>1. \A i \in 1..n : i \in 1..h \/ i \in (h + 1)..n
    OBVIOUS
  <2>2. \A i \in 1..h, j \in (h + 1)..n : i \in 1..n /\ j \in 1..n /\ i # j
    OBVIOUS
  <2>3. /\ \A e : e \in Elements(order) <=> \E i \in 1..n : order[i] = e
        /\ \A e : e \in Elements(head) <=> \E i \in 1..h : order[i] = e
        /\ \A e : e \in Elements(rest) <=> \E i \in (h + 1)..n : order[i] = e
    <3>1. \A e : e \in Elements(order) <=> \E i \in 1..n : order[i] = e
      BY <1>6, Zenon DEF Elements
    <3>2. \A e : e \in Elements(head) <=> \E i \in 1..h : order[i] = e
      BY <1>5, Zenon
    <3>3. \A e : e \in Elements(rest) <=> \E i \in (h + 1)..n : order[i] = e
      BY <1>5, Zenon
    <3> QED
      BY <3>1, <3>2, <3>3, Zenon
  <2>4. \A i \in 1..h : i \in 1..n
    OBVIOUS
  <2>5. \A i \in (h + 1)..n : i \in 1..n
    OBVIOUS
  <2>6. Elements(order) = Elements(head) \cup Elements(rest)
    BY <2>1, <2>3, <2>4, <2>5
  <2>7. Elements(head) \cap Elements(rest) = {}
    BY <1>6, <2>2, <2>3
  <2> QED
    BY <2>6, <2>7
<1>8. Elements(head) \subseteq SettledIds
  <2>1. \A i \in 1..h : Settled(order[i]) /\ order[i] \in Ids
    BY <1>1, <1>3, <1>6, IndexIs
  <2> QED
    BY <1>5, <2>1 DEF SettledIds
<1>9. PICK A, B : A = Elements(head) /\ B = Elements(rest) \cap SettledIds
  BY Zenon
<1>10. Elements(order) \cap SettledIds = A \cup B /\ A \cap B = {}
  BY <1>7, <1>8, <1>9
<1>11. /\ IsFiniteSet(A) /\ Cardinality(A) = h
       /\ IsFiniteSet(B) /\ Cardinality(B) \in Nat
  BY <1>5, <1>9, SizeIs, CountIs, Zenon
<1>12. settled = h + Cardinality(B)
  <2>1. Cardinality(A \cup B) = Cardinality(A) + Cardinality(B) - Cardinality(A \cap B)
    BY <1>11, FS_Union
  <2>2. Cardinality(A \cap B) = 0
    BY <1>10, FS_EmptySet
  <2> QED
    BY <1>1, <1>10, <1>11, <2>1, <2>2
<1>13. PICK count \in Nat : /\ count = Cardinality(B)
                            /\ count = IF settled > h THEN settled - h ELSE 0
  BY <1>11, <1>12
<1>14. \A m \in Elements(order) : Live(m) => m \in Elements(rest)
  BY <1>7, <1>8 DEF SettledIds, Settled, Live
<1>15. PICK keep : keep = {m \in Ids : ~Settled(m)}
  BY Zenon
<1>16. Compacted = IF count < Threshold \/ count * 2 < Len(rest)
                   THEN [order |-> rest, settled |-> count]
                   ELSE [order |-> Select(rest, keep), settled |-> 0]
  BY <1>2, <1>3, <1>4, <1>13, <1>15 DEF Compacted
<1>17. CASE count < Threshold \/ count * 2 < Len(rest)
  <2>1. Compacted.order = rest /\ Compacted.settled = count
    BY <1>16, <1>17
  <2> QED
    BY <1>5, <1>7, <1>9, <1>13, <1>14, <1>17, <2>1, Zenon
<1>18. CASE ~(count < Threshold \/ count * 2 < Len(rest))
  <2>1. PICK t : t = Select(rest, keep)
    OBVIOUS
  <2>2. t \in Indices /\ Elements(t) = Elements(rest) \cap keep
    BY <1>5, <2>1, SelectIs
  <2>3. Compacted.order = t /\ Compacted.settled = 0
    BY <1>16, <1>18, <2>1
  <2>4. Elements(t) \cap SettledIds = {}
    BY <1>15, <2>2 DEF SettledIds
  <2>5. 0 = Cardinality(Elements(t) \cap SettledIds) /\ 0 < Threshold
    BY <2>4, FS_EmptySet, ThresholdAssumption
  <2>6. \A m \in Elements(order) : Live(m) => m \in Elements(t)
    BY <1>1, <1>14, <1>15, <2>2, IndexIs DEF Live, Settled, Elements
  <2> QED
    BY <1>7, <2>2, <2>3, <2>5, <2>6, Zenon
<1> QED
  BY <1>17, <1>18

(* What the two words for the end of a message's time mean. *)
LEMMA SettledIs ==
  /\ TableOK => \A m \in Ids : /\ Live(m) <=> state[m] \in LiveStates
                               /\ Settled(m) <=> state[m] \notin LiveStates
                               /\ Valid(state[m]) <=> state[m] \in States
  /\ TableOK' => \A m \in Ids : /\ Live(m)' <=> state'[m] \in LiveStates
                                /\ Settled(m)' <=> state'[m] \notin LiveStates
                                /\ Valid(state'[m]) <=> state'[m] \in States
  BY TerminalIs DEF TableOK, Live, Settled

(* The entries of an index are messages. *)
LEMMA EntriesAreIds ==
  ASSUME NEW s \in Indices PROVE Elements(s) \subseteq Ids
  BY IndexIs DEF Elements

(* What Claim hands out: the first claimable entries of the compacted      *)
(* index, as many as there are and the limit allows.                       *)
LEMMA BatchIs ==
  ASSUME MInv, MClaim
  PROVE  \E S \in SUBSET Ids :
           /\ Claim(S)
           /\ \A m \in S, n \in Claimable : n < m => n \in S
<1>1. PICK c : c = Compacted.order
  OBVIOUS
<1>2. /\ c \in Indices /\ \A m \in Elements(order) : Live(m) => m \in Elements(c)
  BY <1>1, CompactedIs
<1>3. PICK found : found = Select(c, Claimable)
  OBVIOUS
<1>4. found \in Indices /\ Elements(found) = Elements(c) \cap Claimable
  BY <1>2, <1>3, SelectIs
<1>5. Claimable \subseteq Elements(c)
  <2>1. \A m \in Claimable : m \in Ids /\ Live(m)
    BY SettledIs DEF Claimable, MInv, Exact, LiveStates
  <2> QED
    BY <1>2, <2>1 DEF MInv, Exact
<1>6. Elements(found) = Claimable
  BY <1>4, <1>5
<1>7. PICK l \in Nat : l = Len(found)
  BY <1>4, IndexIs
<1>8. PICK n \in Nat : n = IF l < Limit THEN l ELSE Limit
  BY <1>7, StoreAssumption
<1>9. PICK batch : batch = SubSeq(found, 1, n)
  BY Zenon
<1>10. Take(Elements(batch))
  BY <1>1, <1>3, <1>7, <1>8, <1>9 DEF MClaim
<1>11. /\ batch \in Indices /\ Len(batch) = n
       /\ Elements(batch) = {found[i] : i \in 1..n}
  <2>1. 1 \in Nat \ {0} /\ 1 <= n + 1 /\ n <= Len(found) /\ n + 1 - 1 = n
    BY <1>7, <1>8, StoreAssumption
  <2>2. /\ batch \in Indices /\ Len(batch) = n + 1 - 1
        /\ Elements(batch) = {found[i] : i \in 1..n}
    BY <1>4, <1>9, <2>1, PartIs
  <2> QED
    BY <2>1, <2>2
<1>12. /\ DOMAIN found = 1..l
       /\ \A i, j \in DOMAIN found : i < j <=> found[i] < found[j]
       /\ \A i \in 1..n : i \in 1..l
       /\ n <= Limit /\ (n = l \/ n = Limit)
  BY <1>4, <1>7, <1>8, IndexIs, StoreAssumption
<1>13. Elements(batch) \subseteq Claimable
  BY <1>6, <1>11, <1>12, Zenon DEF Elements
<1>14. Cardinality(Elements(batch)) = n
  BY <1>11, SizeIs
<1>15. n = l => Elements(batch) = Claimable
  BY <1>6, <1>11, <1>12, Zenon DEF Elements
<1>16. ASSUME NEW m \in Elements(batch), NEW k \in Claimable, k < m
       PROVE  k \in Elements(batch)
  <2>1. PICK i \in 1..n : m = found[i]
    BY <1>11
  <2>2. PICK j \in 1..l : k = found[j]
    BY <1>6, <1>12 DEF Elements
  <2>3. j < i
    BY <1>12, <1>16, <2>1, <2>2
  <2>4. j \in 1..n
    BY <2>3
  <2> QED
    BY <1>11, <2>2, <2>4
<1>17. PICK S : S = Elements(batch)
  OBVIOUS
<1>18. Claim(S)
  BY <1>10, <1>12, <1>13, <1>14, <1>15, <1>17 DEF Claim
<1>19. S \in SUBSET Ids
  BY <1>13, <1>17 DEF Claimable
<1> QED
  BY <1>16, <1>17, <1>18, <1>19

(* What Purge keeps: the settled entries. *)
LEMMA PurgedIs ==
  ASSUME MInv, MPurge
  PROVE  /\ order' \in Indices /\ Elements(order') = Elements(order) \cap SettledIds
         /\ settled' = Len(order')
         /\ Remove({m \in Ids : Live(m)})
<1>1. PICK keep : keep = {m \in Ids : Valid(state[m]) /\ Terminal(state[m])}
  BY Zenon
<1>2. /\ order' = Select(order, keep) /\ settled' = Len(order')
      /\ Remove(Elements(order) \ Elements(order'))
  BY <1>1 DEF MPurge
<1>3. order \in Indices
  BY DEF MInv, Exact
<1>4. order' \in Indices /\ Elements(order') = Elements(order) \cap keep
  BY <1>2, <1>3, SelectIs
<1>5. Elements(order) \cap keep = Elements(order) \cap SettledIds
  BY <1>1 DEF MInv, Exact, SettledIds, Settled
<1>6. Elements(order) \ Elements(order') = {m \in Ids : Live(m)}
  BY <1>3, <1>4, <1>5, EntriesAreIds DEF MInv, Exact, SettledIds, Settled, Live
<1> QED
  BY <1>2, <1>4, <1>5, <1>6, Zenon

(* Every operation of the memory store is one of MessageStore. *)
LEMMA OperationIs == MInv /\ [MNext]_mvars => [SNext]_svars
<1> SUFFICES ASSUME MInv, [MNext]_mvars PROVE SNext \/ UNCHANGED svars
  OBVIOUS
<1>1. CASE UNCHANGED mvars
  BY <1>1 DEF mvars
<1>2. CASE MTick \/ MSaveQueue \/ Close
  BY <1>2 DEF MTick, MSaveQueue, Close, SNext
<1>3. CASE MClaim
  BY <1>3, BatchIs DEF SNext
<1>4. CASE MPurge
  BY <1>4, PurgedIs DEF MPurge, Purge, SNext
<1>5. CASE MDeleteQueue
  <2>1. PICK S : S = Elements(order)
    OBVIOUS
  <2>2. S \in SUBSET Ids
    BY <2>1, EntriesAreIds DEF MInv, Exact
  <2>3. DeleteQueue(S)
    BY <1>5, <2>1 DEF MInv, Exact, MDeleteQueue, DeleteQueue
  <2> QED
    BY <2>2, <2>3 DEF SNext
<1>6. ASSUME NEW m \in Ids,
             \/ MAppend(m) \/ MAcknowledge(m) \/ MScheduleRetry(m) \/ MRelease(m)
             \/ MMarkDeadLettered(m)
      PROVE  SNext
  BY <1>6 DEF MAppend, MAcknowledge, MScheduleRetry, MRelease, MMarkDeadLettered, SNext
<1> QED
  BY <1>1, <1>2, <1>3, <1>4, <1>5, <1>6 DEF MNext

(* Messages are appended in turn, by every operation of the store. *)
LEMMA AppendedInTurn ==
  ASSUME TableOK, [SNext]_svars, InTurn
  PROVE  InTurn'
<1> USE DEF InTurn
<1>0. \A m \in Ids : \A n \in 1..(m - 1) : n \in Ids
  BY StoreAssumption DEF Ids
<1>1. ASSUME \A m \in Ids : state'[m] = "NONE" <=> state[m] = "NONE"
      PROVE  InTurn'
  BY <1>0, <1>1
<1>2. ASSUME NEW k \in Ids, AppendRow(k)
      PROVE  InTurn'
  BY <1>0, <1>2 DEF AppendRow, TableOK
<1>3. CASE UNCHANGED svars
  BY <1>1, <1>3 DEF svars, rows
<1>4. CASE Tick \/ SaveQueue
  BY <1>1, <1>4 DEF Tick, SaveQueue, rows
<1>5. ASSUME NEW S \in SUBSET Ids, Claim(S)
      PROVE  \A m \in Ids : state'[m] = "NONE" <=> state[m] = "NONE"
  BY <1>5 DEF Claim, Claimable, Take
<1>6. ASSUME NEW S \in SUBSET Ids, DeleteQueue(S)
      PROVE  \A m \in Ids : state'[m] = "NONE" <=> state[m] = "NONE"
  BY <1>6, TerminalIs DEF DeleteQueue, Remove, TableOK, States
<1>7. ASSUME Purge
      PROVE  \A m \in Ids : state'[m] = "NONE" <=> state[m] = "NONE"
  BY <1>7, SettledIs DEF Purge, Remove, LiveStates
<1>8. ASSUME NEW m \in Ids,
             Acknowledge(m) \/ ScheduleRetry(m) \/ Release(m) \/ MarkDeadLettered(m)
      PROVE  \A n \in Ids : state'[n] = "NONE" <=> state[n] = "NONE"
  <2>1. state[m] # "NONE"
    BY <1>8, TerminalIs DEF Acknowledge, ScheduleRetry, Release, MarkDeadLettered, Return,
       CanTransitionTo, TableOK, States
  <2>2. \E next \in States : state' = [state EXCEPT ![m] = next]
    BY <1>8 DEF Acknowledge, ScheduleRetry, Release, MarkDeadLettered, Return, States
  <2> QED
    BY <2>1, <2>2 DEF TableOK, States
<1> QED
  BY <1>1, <1>2, <1>3, <1>4, <1>5, <1>6, <1>7, <1>8 DEF SNext

(* No message settles: the index may only be compacted. *)
LEMMA NoneSettles ==
  ASSUME MInv, TableOK', order' \in Indices, Elements(order') \subseteq Elements(order),
         \A m \in Elements(order) : Live(m) => m \in Elements(order'),
         settled' = Cardinality(Elements(order') \cap SettledIds),
         \A m \in Ids : /\ state'[m] \in LiveStates <=> state[m] \in LiveStates
                        /\ state[m] \in States => state'[m] \in States
  PROVE  Exact'
<1>1. \A m \in Ids : Settled(m)' <=> Settled(m)
  BY SettledIs DEF MInv, Exact
<1>2. SettledIds' = SettledIds
  BY <1>1 DEF SettledIds
<1>3. \A m \in Ids : Live(m)' <=> Live(m)
  BY SettledIs DEF MInv, Exact
<1>4. \A m \in Ids : Valid(state[m]) => Valid(state'[m])
  BY SettledIs DEF MInv, Exact
<1>5. Elements(order) \subseteq Ids
  BY EntriesAreIds DEF MInv, Exact
<1> QED
  BY <1>2, <1>3, <1>4, <1>5 DEF MInv, Exact

(* One message settles, and is counted. *)
LEMMA OneSettles ==
  ASSUME MInv, TableOK', NEW m \in Ids, state[m] \in LiveStates,
         NEW next \in {"ACKNOWLEDGED", "DEAD_LETTERED"},
         state' = [state EXCEPT ![m] = next], settled' = settled + 1, order' = order
  PROVE  Exact'
<1>1. /\ state \in [Ids -> States \cup {"NONE", "GONE"}] /\ order \in Indices
      /\ Elements(order) \subseteq Ids
      /\ next \in States /\ next \notin LiveStates
  BY EntriesAreIds DEF MInv, Exact, TableOK, States, LiveStates
<1>2. m \in Elements(order) /\ m \notin SettledIds
  BY SettledIs DEF MInv, Exact, SettledIds
<1>3. \A n \in Ids : state'[n] = IF n = m THEN next ELSE state[n]
  BY <1>1
<1>4. SettledIds' = SettledIds \cup {m}
  <2>1. \A n \in Ids : Settled(n)' <=> Settled(n) \/ n = m
    BY <1>1, <1>3, SettledIs DEF MInv, Exact
  <2> QED
    BY <2>1 DEF SettledIds
<1>5. PICK A : A = Elements(order) \cap SettledIds
  BY Zenon
<1>6. Elements(order') \cap SettledIds' = A \cup {m} /\ m \notin A
  BY <1>2, <1>4, <1>5
<1>7. IsFiniteSet(A) /\ settled = Cardinality(A)
  BY <1>1, <1>5, CountIs, Zenon DEF MInv, Exact
<1>8. settled' = Cardinality(A \cup {m})
  BY <1>6, <1>7, FS_AddElement, Zenon
<1>9. \A n \in Elements(order') : Valid(state'[n])
  BY <1>1, <1>3, SettledIs DEF MInv, Exact
<1>10. \A n \in Ids : Live(n)' => n \in Elements(order')
  BY <1>1, <1>3, SettledIs DEF MInv, Exact
<1> QED
  BY <1>1, <1>6, <1>8, <1>9, <1>10 DEF Exact

(* A message is appended behind all the others. *)
LEMMA OneAppended ==
  ASSUME MInv, TableOK', NEW m \in Ids, MAppend(m)
  PROVE  Exact'
<1>1. /\ state \in [Ids -> States \cup {"NONE", "GONE"}] /\ order \in Indices
      /\ Elements(order) \subseteq Ids
  BY EntriesAreIds DEF MInv, Exact, TableOK
<1>2. /\ state[m] = "NONE" /\ state' = [state EXCEPT ![m] = "QUEUED"]
      /\ order' = order \o <<m>> /\ settled' = settled
  BY DEF MAppend, AppendRow
<1>3. \A n \in Elements(order) : state[n] \in States /\ n # m /\ n \in Ids
  BY <1>1, <1>2, SettledIs DEF MInv, Exact, States
<1>4. \A n \in Elements(order) : n < m
  <2> SUFFICES ASSUME NEW n \in Elements(order), ~(n < m) PROVE FALSE
    OBVIOUS
  <2>1. n \in Ids /\ n # m /\ state[n] # "NONE"
    BY <1>3 DEF States
  <2>2. m \in 1..(n - 1)
    BY <2>1, StoreAssumption DEF Ids
  <2> QED
    BY <1>2, <2>1, <2>2 DEF MInv, InTurn
<1>5. order' \in Indices /\ Elements(order') = Elements(order) \cup {m}
  BY <1>1, <1>2, <1>4, AddIs
<1>6. \A n \in Ids : state'[n] = IF n = m THEN "QUEUED" ELSE state[n]
  BY <1>1, <1>2
<1>7. Elements(order') \cap SettledIds' = Elements(order) \cap SettledIds
  <2>1. \A n \in Elements(order) : Settled(n)' <=> Settled(n)
    BY <1>3, <1>6, SettledIs DEF MInv, Exact
  <2>2. ~Settled(m)'
    BY <1>6, SettledIs DEF LiveStates
  <2> QED
    BY <1>3, <1>5, <2>1, <2>2 DEF SettledIds
<1>8. \A n \in Elements(order') : Valid(state'[n])
  BY <1>3, <1>5, <1>6, SettledIs DEF States
<1>9. \A n \in Ids : Live(n)' => n \in Elements(order')
  BY <1>5, <1>6, SettledIs DEF MInv, Exact
<1> QED
  BY <1>2, <1>5, <1>7, <1>8, <1>9, Zenon DEF MInv, Exact

(* Purge and DeleteQueue leave no live message. *)
LEMMA LiveRemoved ==
  ASSUME MInv, TableOK', MPurge \/ MDeleteQueue
  PROVE  Exact'
<1>1. \A m \in Ids : Live(m)' => FALSE
  <2>1. PICK S : Remove(S) /\ \A m \in Ids : Live(m) => m \in S
    BY PurgedIs DEF MInv, Exact, MDeleteQueue
  <2>2. \A m \in Ids : state'[m] = IF m \in S THEN "GONE" ELSE state[m]
    BY <2>1 DEF Remove
  <2> QED
    BY <2>1, <2>2, SettledIs DEF MInv, Exact, LiveStates
<1>2. CASE MPurge
  <2>1. /\ order' \in Indices /\ Elements(order') = Elements(order) \cap SettledIds
        /\ settled' = Len(order') /\ Remove({m \in Ids : Live(m)})
    BY <1>2, PurgedIs
  <2>2. \A m \in SettledIds : m \in Ids /\ state'[m] = state[m]
    BY <2>1 DEF Remove, SettledIds, Settled, Live
  <2>3. \A m \in Elements(order') : Valid(state'[m])
    BY <2>1, <2>2 DEF MInv, Exact
  <2>4. Elements(order') \cap SettledIds' = Elements(order')
    BY <2>1, <2>2 DEF SettledIds, Settled
  <2>5. settled' = Cardinality(Elements(order') \cap SettledIds')
    BY <2>1, <2>4, SizeIs, Zenon
  <2> QED
    BY <1>1, <2>1, <2>3, <2>5 DEF Exact
<1>3. CASE MDeleteQueue
  <2>1. order' = <<>> /\ settled' = 0
    BY <1>3 DEF MDeleteQueue
  <2>2. order' \in Indices /\ Elements(order') = {}
    BY <2>1 DEF Indices, Increasing, Elements
  <2>3. Elements(order') \cap SettledIds' = {}
    BY <2>2
  <2>4. settled' = Cardinality(Elements(order') \cap SettledIds')
    BY <2>1, <2>3, FS_EmptySet
  <2> QED
    BY <1>1, <2>2, <2>4 DEF Exact
<1> QED
  BY <1>2, <1>3

(* Every operation keeps the index. *)
LEMMA MInvKept == MInv /\ [MNext]_mvars => MInv'
<1> SUFFICES ASSUME MInv, [MNext]_mvars PROVE MInv'
  OBVIOUS
<1>1. TableOK' /\ InTurn'
  BY OperationIs, TableKept, AppendedInTurn DEF MInv
<1> SUFFICES Exact'
  BY <1>1 DEF MInv
<1>2. /\ TableOK /\ order \in Indices
      /\ settled = Cardinality(Elements(order) \cap SettledIds)
      /\ state \in [Ids -> States \cup {"NONE", "GONE"}]
  BY DEF MInv, Exact, TableOK
<1>3. ASSUME UNCHANGED <<state, order, settled>> PROVE Exact'
  BY <1>1, <1>2, <1>3, NoneSettles
<1>4. CASE \/ UNCHANGED mvars \/ MTick \/ MSaveQueue \/ Close
  BY <1>3, <1>4 DEF mvars, svars, rows, Index, MTick, Tick, MSaveQueue, SaveQueue, Close
<1>5. CASE MClaim
  <2>1. PICK S \in SUBSET Ids : Claim(S)
    BY <1>5, BatchIs
  <2>2. \A m \in Ids : /\ state'[m] \in LiveStates <=> state[m] \in LiveStates
                       /\ state[m] \in States => state'[m] \in States
    BY <2>1 DEF Claim, Claimable, Take, LiveStates, States
  <2>3. order' = Compacted.order /\ settled' = Compacted.settled
    BY <1>5 DEF MClaim
  <2> QED
    BY <1>1, <2>2, <2>3, CompactedIs, NoneSettles
<1>6. CASE MPurge \/ MDeleteQueue
  BY <1>1, <1>6, LiveRemoved
<1>7. ASSUME NEW m \in Ids, MAppend(m) PROVE Exact'
  BY <1>1, <1>7, OneAppended
<1>8. ASSUME NEW m \in Ids, MScheduleRetry(m) \/ MRelease(m) PROVE Exact'
  <2>1. /\ state[m] = "PROCESSING" /\ UNCHANGED <<order, settled>>
        /\ state' = [state EXCEPT ![m] = "RETRYING"] \/ state' = [state EXCEPT ![m] = "QUEUED"]
    BY <1>8 DEF MScheduleRetry, ScheduleRetry, MRelease, Release, Return, Index
  <2>2. \A n \in Ids : /\ state'[n] \in LiveStates <=> state[n] \in LiveStates
                       /\ state[n] \in States => state'[n] \in States
    BY <1>2, <2>1 DEF LiveStates, States
  <2> QED
    BY <1>1, <1>2, <2>1, <2>2, NoneSettles
<1>9. ASSUME NEW m \in Ids, MAcknowledge(m) \/ MMarkDeadLettered(m) PROVE Exact'
  <2>1. /\ settled' = settled + 1 /\ order' = order
        /\ \/ state' = [state EXCEPT ![m] = "ACKNOWLEDGED"]
           \/ state' = [state EXCEPT ![m] = "DEAD_LETTERED"]
    BY <1>9 DEF MAcknowledge, Acknowledge, MMarkDeadLettered, MarkDeadLettered, Return
  <2>2. CASE MAcknowledge(m)
    <3>1. state[m] \in LiveStates
      BY <2>2 DEF MAcknowledge, Acknowledge, Return, LiveStates
    <3> QED
      BY <1>1, <2>1, <3>1, OneSettles
  <2>3. CASE MMarkDeadLettered(m)
    <3>1. PICK from : /\ from = IF state[m] = "PROCESSING" THEN "FAILED" ELSE state[m]
                      /\ Valid(from) /\ "DEAD_LETTERED" \in Transitions[from]
      BY <2>3 DEF MMarkDeadLettered, MarkDeadLettered, CanTransitionTo
    <3>2. from \in States \cup {"NONE", "GONE"}
      BY <1>2, <3>1 DEF States
    <3>3. ~Terminal(from)
      BY <3>1 DEF Terminal
    <3>4. state[m] \in LiveStates
      BY <3>1, <3>2, <3>3, TerminalIs DEF LiveStates
    <3> QED
      BY <1>1, <2>1, <3>4, OneSettles
  <2> QED
    BY <1>9, <2>2, <2>3
<1> QED
  BY <1>4, <1>5, <1>6, <1>7, <1>8, <1>9 DEF MNext

LEMMA MInvAlways == MSpec => []MInv
<1>1. MInit => MInv
  <2> SUFFICES ASSUME MInit PROVE MInv
    OBVIOUS
  <2>1. TableOK /\ order = <<>> /\ settled = 0 /\ \A m \in Ids : state[m] = "NONE"
    BY DEF MInit, Init, TableOK
  <2>2. order \in Indices /\ Elements(order) = {}
    BY <2>1 DEF Indices, Increasing, Elements
  <2>3. Elements(order) \cap SettledIds = {}
    BY <2>2
  <2>4. settled = Cardinality(Elements(order) \cap SettledIds)
    BY <2>1, <2>3, FS_EmptySet, Zenon
  <2>5. \A m \in Ids : ~Live(m)
    BY <2>1, SettledIs DEF LiveStates
  <2> QED
    BY <2>1, <2>2, <2>4, <2>5 DEF MInv, Exact, InTurn
<1> QED
  BY <1>1, MInvKept, PTL DEF MSpec

(* The memory store implements storage.MessageStore: a claim that scans a  *)
(* compacted index finds what a claim of MessageStore may find, and Purge  *)
(* and DeleteQueue, which only walk the index, reach every live message.   *)
THEOREM MemoryImplements == MSpec => StoreSpec
<1>1. MInit => Init
  BY DEF MInit
<1> QED
  BY <1>1, OperationIs, MInvAlways, PTL DEF MSpec, StoreSpec

(* An index is settled entries and live ones, and Depth counts these. *)
LEMMA DepthIs ==
  MInv => /\ settled \in Nat /\ Depth \in Nat /\ Len(order) = settled + Depth
          /\ settled = Cardinality({i \in DOMAIN order : Settled(order[i])})
          /\ Depth = Cardinality({m \in Ids : Live(m)})
<1> SUFFICES ASSUME MInv
             PROVE  /\ settled \in Nat /\ Depth \in Nat /\ Len(order) = settled + Depth
                    /\ settled = Cardinality({i \in DOMAIN order : Settled(order[i])})
                    /\ Depth = Cardinality({m \in Ids : Live(m)})
  OBVIOUS
<1>1. order \in Indices /\ Elements(order) \subseteq Ids
  BY EntriesAreIds DEF MInv, Exact
<1>2. PICK L : L = {m \in Ids : Live(m)}
  BY Zenon
<1>3. L \subseteq Elements(order)
  BY <1>2 DEF MInv, Exact
<1>4. \A i \in DOMAIN order : order[i] \in Ids
  BY <1>1, IndexIs
<1>5. {i \in DOMAIN order : Settled(order[i])} = {i \in DOMAIN order : order[i] \in SettledIds}
  BY <1>4 DEF SettledIds
<1>6. {i \in DOMAIN order : Live(order[i])} = {i \in DOMAIN order : order[i] \in L}
  BY <1>2, <1>4
<1>7. Elements(order) \cap L = L
  BY <1>3
<1>8. /\ Cardinality({i \in DOMAIN order : order[i] \in L}) \in Nat
      /\ Cardinality({i \in DOMAIN order : order[i] \in L}) = Cardinality(Elements(order) \cap L)
      /\ IsFiniteSet(Elements(order) \cap L)
  BY <1>1, CountIs
<1>9. Depth \in Nat /\ Depth = Cardinality(L) /\ IsFiniteSet(L)
  BY <1>6, <1>7, <1>8 DEF Depth
<1>10. PICK S : S = Elements(order) \cap SettledIds
  BY Zenon
<1>11. /\ Cardinality({i \in DOMAIN order : order[i] \in SettledIds}) \in Nat
       /\ Cardinality({i \in DOMAIN order : order[i] \in SettledIds}) = Cardinality(S)
       /\ IsFiniteSet(S) /\ settled = Cardinality(S)
  BY <1>1, <1>10, CountIs, Zenon DEF MInv, Exact
<1>12. S \cup L = Elements(order) /\ S \cap L = {}
  BY <1>1, <1>2, <1>3, <1>10 DEF SettledIds, Settled, Live
<1>13. Cardinality(S \cup L) = Cardinality(S) + Cardinality(L) - Cardinality(S \cap L)
  BY <1>9, <1>11, FS_Union
<1>14. Cardinality(S \cap L) = 0
  BY <1>12, FS_EmptySet
<1>15. Cardinality(S \cup L) = Len(order)
  BY <1>1, <1>12, SizeIs, Zenon
<1>16. settled \in Nat /\ settled = Cardinality({i \in DOMAIN order : Settled(order[i])})
  BY <1>5, <1>11
<1>17. Len(order) = settled + Depth
  BY <1>9, <1>11, <1>13, <1>14, <1>15, <1>16
<1> QED
  BY <1>2, <1>9, <1>16, <1>17

(* The index is exact, through every way a message settles, is purged or   *)
(* is compacted away (memory/store.go compactLocked): no live message is   *)
(* lost from it, Depth counts them all, and the counter is the number of   *)
(* settled entries.                                                        *)
THEOREM IndexStaysExact == MSpec => []IndexExact
<1>1. MInv => IndexExact
  <2> SUFFICES ASSUME MInv PROVE IndexExact
    OBVIOUS
  <2>1. order \in Indices /\ \A m \in Ids : Live(m) => m \in Elements(order)
    BY DEF MInv, Exact
  <2>2. order \in Seq(Ids) /\ \A i, j \in DOMAIN order : i < j => order[i] < order[j]
    BY <2>1 DEF Indices, Increasing
  <2> QED
    BY <2>1, <2>2, DepthIs, Zenon DEF IndexExact
<1> QED
  BY <1>1, MInvAlways, PTL

(* A claim leaves fewer than Threshold settled entries in the index, or    *)
(* fewer than there are live ones, however many messages settled since the *)
(* last one (compactLocked, which Claim calls first).                      *)
THEOREM IndexInProportion == MSpec => IndexBounded
<1> DEFINE Counted == settled \in Nat /\ Depth \in Nat /\ Len(order) = settled + Depth
<1>1. MInv => Counted
  BY DepthIs
<1>2. MInv /\ Counted' =>
        [MClaim => \/ Len(order') - Depth' < Threshold
                   \/ Len(order') - Depth' < Depth']_mvars
  <2> SUFFICES ASSUME MInv, Counted', MClaim
               PROVE  \/ Len(order') - Depth' < Threshold
                      \/ Len(order') - Depth' < Depth'
    BY Zenon
  <2>1. settled' < Threshold \/ settled' * 2 < Len(order')
    BY CompactedIs DEF MClaim
  <2>2. PICK s \in Nat, d \in Nat : s = settled' /\ d = Depth' /\ Len(order') = s + d
    BY Zenon
  <2>3. s < Threshold \/ s * 2 < s + d
    BY <2>1, <2>2, Zenon
  <2>4. s < Threshold \/ s < d
    BY <2>3, ThresholdAssumption
  <2>5. (s + d) - d = s
    OBVIOUS
  <2> QED
    BY <2>2, <2>4, <2>5, Zenon
<1> QED
  BY <1>1, <1>2, MInvAlways, PTL DEF IndexBounded

(* Only Claim hands a message out. *)
LEMMA OnlyMClaims ==
  ASSUME MInv, MNext, NEW m \in Ids, Claimed(m)
  PROVE  MClaim
<1>0. TableOK
  BY DEF MInv
<1> USE DEF TableOK, Claimed
<1>1. ~(MTick \/ MSaveQueue \/ Close)
  BY DEF MTick, Tick, MSaveQueue, SaveQueue, Close, svars, rows
<1>2. ~(MPurge \/ MDeleteQueue)
  BY Zenon DEF MPurge, MDeleteQueue, Remove
<1>3. ASSUME NEW n \in Ids, NEW next \in States \ {"PROCESSING"},
             state' = [state EXCEPT ![n] = next]
      PROVE  FALSE
  BY <1>0, <1>3
<1>4. ASSUME NEW n \in Ids
      PROVE  ~(\/ MAppend(n) \/ MAcknowledge(n) \/ MScheduleRetry(n) \/ MRelease(n)
               \/ MMarkDeadLettered(n))
  BY <1>3 DEF MAppend, AppendRow, MAcknowledge, Acknowledge, MScheduleRetry, ScheduleRetry,
     MRelease, Release, Return, MMarkDeadLettered, MarkDeadLettered, States
<1> QED
  BY <1>1, <1>2, <1>4 DEF MNext

(* A claim of the memory store never passes over a message that was        *)
(* appended earlier and is available (Claim scans the index from its       *)
(* head): a retry goes before what came during its backoff.                *)
THEOREM ClaimsByInsertion == MSpec => InsertionOrder
<1>1. MInv /\ [MNext]_mvars =>
        [\A m, n \in Claimable : n < m /\ Claimed(m) => Claimed(n)]_rows
  <2> SUFFICES ASSUME MInv, [MNext]_mvars, NEW m \in Claimable, NEW n \in Claimable,
                      n < m, Claimed(m)
               PROVE  Claimed(n)
    OBVIOUS
  <2>1. m \in Ids /\ n \in Ids /\ state[n] # "PROCESSING"
    BY DEF Claimable
  <2>2. CASE UNCHANGED mvars
    BY <2>2 DEF mvars, svars, rows, Claimed
  <2>3. CASE MNext
    <3>1. MClaim
      BY <2>1, <2>3, OnlyMClaims
    <3>2. PICK S \in SUBSET Ids :
            /\ Claim(S)
            /\ \A k \in S, l \in Claimable : l < k => l \in S
      BY <3>1, BatchIs
    <3>3. \A k \in Ids : state'[k] = IF k \in S THEN "PROCESSING" ELSE state[k]
      BY <3>2 DEF Claim, Take
    <3>4. m \in S
      BY <2>1, <3>3 DEF Claimed
    <3>5. n \in S
      BY <3>2, <3>4
    <3> QED
      BY <2>1, <3>3, <3>5 DEF Claimed
  <2> QED
    BY <2>2, <2>3
<1> QED
  BY <1>1, MInvAlways, PTL DEF MSpec, InsertionOrder
=============================================================================
