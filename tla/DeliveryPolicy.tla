--------------------------- MODULE DeliveryPolicy ---------------------------
(***************************************************************************)
(* The retry policy of the delivery engine: it ends (AttemptsBounded), and *)
(* with handlers that finish before their lease ends it is exact.          *)
(***************************************************************************)
EXTENDS DeliveryProofs, FiniteSetTheorems

(***************************************************************************)
(* The retry policy ends: AttemptsBounded for every value of the constants.*)
(*                                                                         *)
(* The argument is an account.  Each claim of a message but the current    *)
(* one was followed by a return to the queue, and each return is entered   *)
(* under one heading: the attempt whose failure scheduled a retry, the     *)
(* attempt whose expiry was reclaimed, or a requeue outside the policy.    *)
(* An attempt number is entered at most once under each heading, because   *)
(* the delivery that holds it is the only one with that number (Unique)    *)
(* and is over once entered (Fresh), and it is below MaxAttempts.          *)
(***************************************************************************)

Below == 1 .. (MaxAttempts - 1)

Waits(m) == state[m] \in {"NONE", "QUEUED", "RETRYING"}

Returns(m) == Cardinality(retried[m]) + Cardinality(reclaimed[m]) + freed[m]

Account ==
    \A m \in Ids :
        /\ retried[m] \subseteq Below /\ reclaimed[m] \subseteq Below
        /\ \A a \in retried[m] \cup reclaimed[m] : a <= attempts[m]
        /\ Leased(m) => attempts[m] > 0 /\ attempts[m] \notin reclaimed[m]
        /\ attempts[m] <= Returns(m) + IF Waits(m) THEN 0 ELSE 1

FreshCall(d) ==
    /\ d.attempt <= attempts[d.id]
    /\ d.by \in Consumers => /\ d.pc \in Steps \ {"release", "requeue"}
                             /\ d.attempt > 0 /\ d.attempt \notin retried[d.id]
    /\ d.by \in Clients => d.pc \in {"ack", "requeue", "retry", "dead", "mark"}
    /\ d.by = Reclaimer => /\ d.pc \in {"release", "dead", "mark"}
                           /\ d.attempt > 0 /\ d.attempt \notin reclaimed[d.id]
    /\ d.pc \in {"retry", "release"} => d.attempt < MaxAttempts

Fresh == \A d \in calls : FreshCall(d)

Same(d, e) ==
    /\ d.id = e.id
    /\ \/ d.by \in Consumers /\ e.by \in Consumers /\ d.attempt = e.attempt
       \/ d.by = Reclaimer /\ e.by = Reclaimer

Unique == \A d, e \in calls : Same(d, e) => d = e

AttemptsInv == Account /\ Fresh /\ Unique

counters == <<attempts, retried, reclaimed, freed>>

-----------------------------------------------------------------------------
(* A heading of the account has at most MaxAttempts - 1 entries, and a new *)
(* entry counts one more.                                                  *)
LEMMA Tally ==
  ASSUME NEW R \in SUBSET Below
  PROVE  /\ Cardinality(R) \in Nat
         /\ Cardinality(R) <= MaxAttempts - 1
         /\ \A x : x \notin R => Cardinality(R \cup {x}) = Cardinality(R) + 1
<1>1. IsFiniteSet(Below) /\ Cardinality(Below) = MaxAttempts - 1
  BY ConstantsAssumption, FS_Interval DEF Below
<1>2. IsFiniteSet(R) /\ Cardinality(R) <= MaxAttempts - 1
  BY <1>1, FS_Subset, Zenon
<1> QED
  BY <1>2, FS_CardinalityType, FS_AddElement, Zenon

(* The account bounds the attempts. *)
LEMMA AccountBounds == TypeOK /\ Account => AttemptsBounded
<1> SUFFICES ASSUME TypeOK, Account, NEW m \in Ids
             PROVE  attempts[m] <= 2 * MaxAttempts - 1 + freed[m]
  BY Zenon DEF AttemptsBounded
<1>1. retried[m] \in SUBSET Below /\ reclaimed[m] \in SUBSET Below
  BY Zenon DEF Account
<1>2. attempts[m] <= Returns(m) + 1
  <2>1. Returns(m) \in Nat
    BY <1>1, Tally DEF Returns, TypeOK
  <2> QED
    BY <2>1 DEF Account, TypeOK, StoreOK
<1>3. /\ Cardinality(retried[m]) \in Nat /\ Cardinality(retried[m]) <= MaxAttempts - 1
      /\ Cardinality(reclaimed[m]) \in Nat /\ Cardinality(reclaimed[m]) <= MaxAttempts - 1
  BY <1>1, Tally, Zenon
<1> QED
  BY <1>2, <1>3, ConstantsAssumption DEF Returns, TypeOK, StoreOK

(* Calls that return leave the others fresh and unique. *)
LEMMA CallsReturn ==
  ASSUME Fresh, Unique, UNCHANGED counters, calls' \subseteq calls
  PROVE  Fresh' /\ Unique'
  BY Zenon DEF Fresh, FreshCall, Unique, counters, Same

(* A call that goes on with its own attempt stays fresh and unique. *)
LEMMA CallsGoto ==
  ASSUME TypeOK, Fresh, Unique, UNCHANGED counters, NEW d \in calls, NEW pc \in Steps,
         Goto(d, pc), FreshCall([d EXCEPT !.pc = pc])
  PROVE  Fresh' /\ Unique'
<1> DEFINE e == [d EXCEPT !.pc = pc]
<1>1. e.by = d.by /\ e.id = d.id /\ e.attempt = d.attempt
  BY Zenon DEF TypeOK, Call
<1>2. FreshCall(e)
  BY Zenon
<1>3. calls' = (calls \ {d}) \cup {e}
  BY Zenon DEF Goto
<1> HIDE DEF e
<1>4. Fresh'
  BY <1>2, <1>3, Zenon DEF Fresh, FreshCall, counters
<1>5. Unique'
  BY <1>1, <1>3 DEF Unique, Same
<1> QED
  BY <1>4, <1>5, Zenon

(* A step that returns no message to the queue keeps the account. *)
LEMMA AccountKept ==
  ASSUME TypeOK, Account, UNCHANGED counters,
         \A m \in Ids : /\ Waits(m)' => Waits(m)
                        /\ Leased(m)' => Leased(m)
  PROVE  Account'
<1> SUFFICES ASSUME NEW m \in Ids
             PROVE  /\ retried'[m] \subseteq Below /\ reclaimed'[m] \subseteq Below
                    /\ \A a \in retried'[m] \cup reclaimed'[m] : a <= attempts'[m]
                    /\ Leased(m)' => attempts'[m] > 0 /\ attempts'[m] \notin reclaimed'[m]
                    /\ attempts'[m] <= Returns(m)' + IF Waits(m)' THEN 0 ELSE 1
  BY Zenon DEF Account
<1>1. Returns(m)' = Returns(m)
  BY Zenon DEF Returns, counters
<1>2. Returns(m) \in Nat
  BY Tally DEF Account, Returns, TypeOK
<1> QED
  BY <1>1, <1>2 DEF Account, counters, TypeOK, StoreOK

(* A leased message goes back to the queue and the return is entered. *)
LEMMA AccountEntered ==
  ASSUME TypeOK, Account, NEW m \in Ids, Leased(m),
         NEW next \in {"QUEUED", "RETRYING"}, FromLeased(m, next),
         \/ /\ freed' = [freed EXCEPT ![m] = @ + 1]
            /\ UNCHANGED <<retried, reclaimed>>
         \/ \E a \in Below \ retried[m] :
               /\ a <= attempts[m]
               /\ retried' = [retried EXCEPT ![m] = @ \cup {a}]
               /\ UNCHANGED <<reclaimed, freed>>
         \/ \E a \in Below \ reclaimed[m] :
               /\ a <= attempts[m]
               /\ reclaimed' = [reclaimed EXCEPT ![m] = @ \cup {a}]
               /\ UNCHANGED <<retried, freed>>
  PROVE  Account'
<1>1. \A n \in Ids : retried[n] \in SUBSET Below /\ reclaimed[n] \in SUBSET Below
  BY Zenon DEF Account
<1>2. \A n \in Ids : Returns(n) \in Nat
  BY <1>1, Tally DEF Returns, TypeOK
<1>3. Returns(m)' = Returns(m) + 1
  <2>1. /\ Cardinality(retried[m]) \in Nat /\ Cardinality(reclaimed[m]) \in Nat
        /\ freed[m] \in Nat
    BY <1>1, Tally, Zenon DEF TypeOK
  <2>2. CASE freed' = [freed EXCEPT ![m] = @ + 1] /\ UNCHANGED <<retried, reclaimed>>
    BY <2>1, <2>2 DEF Returns, TypeOK
  <2>3. ASSUME NEW a \in Below \ retried[m], UNCHANGED <<reclaimed, freed>>,
               retried' = [retried EXCEPT ![m] = @ \cup {a}]
        PROVE  Returns(m)' = Returns(m) + 1
    <3>1. Cardinality(retried'[m]) = Cardinality(retried[m]) + 1
      BY <1>1, <2>3, Tally, Zenon DEF TypeOK
    <3> QED
      BY <2>1, <2>3, <3>1 DEF Returns
  <2>4. ASSUME NEW a \in Below \ reclaimed[m], UNCHANGED <<retried, freed>>,
               reclaimed' = [reclaimed EXCEPT ![m] = @ \cup {a}]
        PROVE  Returns(m)' = Returns(m) + 1
    <3>1. Cardinality(reclaimed'[m]) = Cardinality(reclaimed[m]) + 1
      BY <1>1, <2>4, Tally, Zenon DEF TypeOK
    <3> QED
      BY <2>1, <2>4, <3>1 DEF Returns
  <2> QED
    BY <2>2, <2>3, <2>4, Zenon
<1>4. \A n \in Ids \ {m} : /\ retried'[n] = retried[n] /\ reclaimed'[n] = reclaimed[n]
                           /\ freed'[n] = freed[n] /\ state'[n] = state[n]
  BY Zenon DEF FromLeased, TypeOK, StoreOK
<1>5. \A n \in Ids \ {m} : Returns(n)' = Returns(n)
  BY <1>4, Zenon DEF Returns
<1>6. /\ retried'[m] \subseteq Below /\ reclaimed'[m] \subseteq Below
      /\ \A a \in retried'[m] \cup reclaimed'[m] : a <= attempts[m]
  BY DEF Account, TypeOK
<1>7. attempts' = attempts /\ state'[m] = next
  BY Zenon DEF FromLeased, TypeOK, StoreOK
<1>8. attempts[m] <= Returns(m)'
  BY <1>2, <1>3, Zenon DEF Account, Waits, Leased, TypeOK, StoreOK
<1>9. ASSUME NEW n \in Ids
      PROVE  /\ retried'[n] \subseteq Below /\ reclaimed'[n] \subseteq Below
             /\ \A a \in retried'[n] \cup reclaimed'[n] : a <= attempts'[n]
             /\ Leased(n)' => attempts'[n] > 0 /\ attempts'[n] \notin reclaimed'[n]
             /\ attempts'[n] <= Returns(n)' + IF Waits(n)' THEN 0 ELSE 1
  <2>1. CASE n = m
    BY <2>1, <1>6, <1>7, <1>8, <1>2, <1>3 DEF Waits, Leased, TypeOK, StoreOK
  <2>2. CASE n # m
    BY <2>2, <1>4, <1>5, <1>7, Zenon DEF Account, Waits, Leased
  <2> QED
    BY <2>1, <2>2, Zenon
<1> QED
  BY <1>9, Zenon DEF Account

(* On a message without a lease the three operations change nothing. *)
LEMMA AccountRefused ==
  ASSUME TypeOK, Account, NEW m \in Ids, ~Leased(m), NEW next, FromLeased(m, next),
         UNCHANGED <<retried, reclaimed, freed>>
  PROVE  Account'
<1>1. state' = state /\ UNCHANGED counters
  BY Zenon DEF FromLeased, TypeOK, StoreOK, counters
<1> QED
  BY <1>1, AccountKept, Zenon DEF Waits, Leased

(* Taking back without a say of the retry policy: releaseUndispatched, and *)
(* Nack with requeue.                                                      *)
LEMMA FreedStep ==
  ASSUME TypeOK, AttemptsInv, NEW d \in calls, ReleaseUndispatched(d) \/ RequeueNacked(d)
  PROVE  AttemptsInv'
<1> USE DEF AttemptsInv
<1> d.id \in Ids
  BY Zenon DEF TypeOK, Call
<1> /\ FromLeased(d.id, "QUEUED") /\ Return(d)
    /\ freed' = [freed EXCEPT ![d.id] = @ + IF Leased(d.id) THEN 1 ELSE 0]
    /\ UNCHANGED <<retried, reclaimed>>
  BY Zenon DEF ReleaseUndispatched, RequeueNacked
<1>1. Fresh' /\ Unique'
  BY Zenon DEF FromLeased, Return, Fresh, FreshCall, Unique, Same
<1>2. Account'
  <2>1. CASE Leased(d.id)
    <3>1. freed' = [freed EXCEPT ![d.id] = @ + 1]
      BY <2>1, Zenon
    <3> QED
      BY <2>1, <3>1, AccountEntered, Zenon
  <2>2. CASE ~Leased(d.id)
    <3>1. freed' = freed
      BY <2>2 DEF TypeOK
    <3> QED
      BY <2>2, <3>1, AccountRefused, Zenon
  <2> QED
    BY <2>1, <2>2, Zenon
<1> QED
  BY <1>1, <1>2, Zenon

(* A retry is entered under the attempt of the delivery that failed. *)
LEMMA RetryStep ==
  ASSUME TypeOK, AttemptsInv, NEW d \in calls, ScheduleRetry(d)
  PROVE  AttemptsInv'
<1> USE DEF AttemptsInv
<1> /\ d \in Call /\ d.id \in Ids /\ d.attempt \in Nat
    /\ d.by \in Consumers \cup Clients \cup {Reclaimer}
  BY Zenon DEF TypeOK, Call
<1>1. /\ FreshCall(d) /\ d.attempt < MaxAttempts /\ d.attempt <= attempts[d.id]
      /\ d.by \in Consumers \/ d.by \in Clients
      /\ FromLeased(d.id, "RETRYING") /\ Return(d)
  BY Zenon DEF Fresh, FreshCall, ScheduleRetry
<1>2. CASE ~Leased(d.id)
  <2>1. UNCHANGED <<retried, reclaimed, freed>>
    BY <1>2 DEF ScheduleRetry, TypeOK
  <2>2. Account'
    BY <1>1, <1>2, <2>1, AccountRefused, Zenon
  <2> QED
    BY <1>1, <2>1, <2>2, CallsReturn, Zenon DEF counters, Return, FromLeased
<1>3. CASE Leased(d.id) /\ d.by \in Consumers
  <2>1. /\ retried' = [retried EXCEPT ![d.id] = @ \cup {d.attempt}]
        /\ UNCHANGED <<reclaimed, freed>>
    BY <1>3, ActorsAssumption DEF ScheduleRetry, TypeOK
  <2>2. d.attempt \in Below \ retried[d.id]
    BY <1>1, <1>3, ConstantsAssumption DEF FreshCall, Below
  <2>3. Account'
    BY <1>1, <1>3, <2>1, <2>2, AccountEntered, Zenon
  <2>4. Unique'
    BY <1>1, Zenon DEF Return, Unique, Same
  <2>5. ASSUME NEW e \in calls \ {d}
        PROVE  FreshCall(e)'
    <3>1. e.by \in Consumers /\ e.id = d.id => e.attempt # d.attempt
      BY <1>3, Zenon DEF Unique, Same
    <3>2. e.id \in Ids
      BY Zenon DEF TypeOK, Call
    <3> QED
      BY <1>1, <2>1, <3>1, <3>2, Zenon DEF Fresh, FreshCall, FromLeased, TypeOK
  <2> QED
    BY <1>1, <2>3, <2>4, <2>5, Zenon DEF Return, Fresh
<1>4. CASE Leased(d.id) /\ d.by \in Clients
  <2>1. freed' = [freed EXCEPT ![d.id] = @ + 1] /\ UNCHANGED <<retried, reclaimed>>
    BY <1>4, ActorsAssumption, Zenon DEF ScheduleRetry, TypeOK
  <2>2. Account'
    BY <1>1, <1>4, <2>1, AccountEntered, Zenon
  <2> QED
    BY <1>1, <2>1, <2>2, Zenon DEF FromLeased, Return, Fresh, FreshCall, Unique, Same
<1> QED
  BY <1>1, <1>2, <1>3, <1>4, Zenon

(* An expiry is entered under the attempt of the reclaim loop's snapshot. *)
LEMMA ReclaimedStep ==
  ASSUME TypeOK, AttemptsInv, NEW d \in calls, RequeueExpired(d)
  PROVE  AttemptsInv'
<1> USE DEF AttemptsInv
<1> /\ d \in Call /\ d.id \in Ids /\ d.attempt \in Nat
    /\ d.by \in Consumers \cup Clients \cup {Reclaimer}
  BY Zenon DEF TypeOK, Call
<1>1. /\ FreshCall(d) /\ d.attempt < MaxAttempts /\ d.attempt <= attempts[d.id]
      /\ d.by = Reclaimer /\ d.attempt > 0 /\ d.attempt \notin reclaimed[d.id]
      /\ FromLeased(d.id, "QUEUED") /\ Return(d)
  BY Zenon DEF Fresh, FreshCall, RequeueExpired
<1>2. CASE ~Leased(d.id)
  <2>1. UNCHANGED <<retried, reclaimed, freed>>
    BY <1>2, Zenon DEF RequeueExpired, TypeOK
  <2>2. Account'
    BY <1>1, <1>2, <2>1, AccountRefused, Zenon
  <2> QED
    BY <1>1, <2>1, <2>2, CallsReturn, Zenon DEF counters, Return, FromLeased
<1>3. CASE Leased(d.id)
  <2>1. /\ reclaimed' = [reclaimed EXCEPT ![d.id] = @ \cup {d.attempt}]
        /\ UNCHANGED <<retried, freed>>
    BY <1>3, Zenon DEF RequeueExpired
  <2>2. d.attempt \in Below \ reclaimed[d.id]
    BY <1>1, ConstantsAssumption DEF Below
  <2>3. Account'
    BY <1>1, <1>3, <2>1, <2>2, AccountEntered, Zenon
  <2>4. Unique'
    BY <1>1, Zenon DEF Return, Unique, Same
  <2>5. ASSUME NEW e \in calls \ {d}
        PROVE  FreshCall(e)'
    <3>1. e.by = Reclaimer => e.id # d.id
      BY <1>1, Zenon DEF Unique, Same
    <3>2. e.id \in Ids
      BY Zenon DEF TypeOK, Call
    <3> QED
      BY <1>1, <2>1, <3>1, <3>2, Zenon DEF Fresh, FreshCall, FromLeased, TypeOK
  <2> QED
    BY <1>1, <2>3, <2>4, <2>5, Zenon DEF Return, Fresh
<1> QED
  BY <1>2, <1>3, Zenon

(* Acknowledging, saving a dead letter and marking return no message. *)
LEMMA SettleStep ==
  ASSUME TypeOK, AttemptsInv, NEW d \in calls,
         Acknowledge(d) \/ SaveDeadLetter(d) \/ MarkDeadLettered(d)
  PROVE  AttemptsInv'
<1> USE DEF AttemptsInv
<1> d \in Call /\ d.id \in Ids
  BY Zenon DEF TypeOK, Call
<1>1. UNCHANGED counters
  BY Zenon DEF Acknowledge, SaveDeadLetter, MarkDeadLettered, FromLeased, MarkStored, store,
     history, counters
<1>2. \A m \in Ids : (Waits(m)' => Waits(m)) /\ (Leased(m)' => Leased(m))
  BY DEF Acknowledge, SaveDeadLetter, MarkDeadLettered, FromLeased, MarkStored, store,
     Waits, Leased, TypeOK, StoreOK
<1>3. Account'
  BY <1>1, <1>2, AccountKept, Zenon
<1>4. CASE SaveDeadLetter(d)
  <2>1. FreshCall([d EXCEPT !.pc = "mark"])
    BY Zenon DEF Fresh, FreshCall, Call, Steps
  <2> QED
    BY <1>1, <1>3, <1>4, <2>1, CallsGoto, Zenon DEF SaveDeadLetter, Steps
<1>5. CASE ~SaveDeadLetter(d)
  BY <1>1, <1>3, <1>5, CallsReturn, Zenon DEF Acknowledge, MarkDeadLettered, Return
<1> QED
  BY <1>4, <1>5, Zenon

(* A worker's steps on the way to its store call. *)
LEMMA WorkerStep ==
  ASSUME TypeOK, AttemptsInv, NEW d \in calls,
         \/ Submit(d) \/ StartHandler(d) \/ HandlerSucceeds(d)
         \/ \E permanent \in BOOLEAN : HandlerFails(d, permanent)
  PROVE  AttemptsInv'
<1> USE DEF AttemptsInv
<1> d \in Call /\ d.id \in Ids /\ FreshCall(d)
  BY Zenon DEF TypeOK, Call, Fresh
<1>1. UNCHANGED counters /\ state' = state
  BY Zenon DEF Submit, StartHandler, HandlerSucceeds, HandlerFails, store, history, counters
<1>2. Account'
  BY <1>1, AccountKept, Zenon DEF Waits, Leased
<1>3. d.by \in Consumers
  BY Zenon DEF Submit, StartHandler, HandlerSucceeds, HandlerFails, FreshCall, Call
<1>4. PICK pc \in {"buffered", "running", "ack", "retry", "dead"} :
          Goto(d, pc) /\ (pc = "retry" => d.attempt < MaxAttempts)
  BY Zenon DEF Submit, StartHandler, HandlerSucceeds, HandlerFails, AfterFailure, ShouldRetry
<1>5. FreshCall([d EXCEPT !.pc = pc])
  BY <1>3, <1>4, ActorsAssumption, Zenon DEF FreshCall, Call, Steps
<1> QED
  BY <1>1, <1>2, <1>4, <1>5, CallsGoto, Zenon DEF Steps

(* A claim starts the next attempt, which is entered nowhere yet. *)
LEMMA ClaimAccount ==
  ASSUME TypeOK, Account, NEW S \in SUBSET Ids, NEW limit, Claim(S, limit),
         UNCHANGED <<retried, reclaimed, freed>>
  PROVE  Account'
<1> SUFFICES ASSUME NEW m \in Ids
             PROVE  /\ retried'[m] \subseteq Below /\ reclaimed'[m] \subseteq Below
                    /\ \A a \in retried'[m] \cup reclaimed'[m] : a <= attempts'[m]
                    /\ Leased(m)' => attempts'[m] > 0 /\ attempts'[m] \notin reclaimed'[m]
                    /\ attempts'[m] <= Returns(m)' + IF Waits(m)' THEN 0 ELSE 1
  BY Zenon DEF Account
<1>1. Returns(m)' = Returns(m) /\ Returns(m) \in Nat
  BY Tally DEF Account, Returns, TypeOK
<1>2. attempts[m] \in Nat /\ retried[m] \in SUBSET Nat /\ reclaimed[m] \in SUBSET Nat
  BY Zenon DEF TypeOK, StoreOK
<1>3. CASE m \in S
  <2>1. /\ attempts'[m] = attempts[m] + 1 /\ state'[m] = "PROCESSING"
        /\ Waits(m)
    BY <1>3, Zenon DEF Claim, Claimable, Waits
  <2> QED
    BY <1>1, <1>2, <2>1 DEF Account, Waits, Leased
<1>4. CASE m \notin S
  <2>1. attempts'[m] = attempts[m] /\ state'[m] = state[m]
    BY <1>2, <1>4 DEF Claim
  <2> QED
    BY <1>1, <2>1, Zenon DEF Account, Waits, Leased
<1> QED
  BY <1>3, <1>4, Zenon

(* A claimed batch, an HTTP pull, and the snapshot of the reclaim loop. *)
LEMMA QueueStep ==
  ASSUME TypeOK, AttemptsInv, NEW S \in SUBSET Ids,
         \/ \E c \in Consumers : ClaimBatch(c, S)
         \/ Reclaim(S)
         \/ Pull(S)
  PROVE  AttemptsInv'
<1> USE DEF AttemptsInv
<1>0. ASSUME NEW d \in calls
      PROVE  /\ d.id \in Ids /\ d.attempt \in Nat /\ attempts[d.id] \in Nat
             /\ d.by \in Consumers \cup Clients \cup {Reclaimer} /\ d.pc \in Steps
             /\ FreshCall(d)
  BY Zenon DEF TypeOK, StoreOK, Call, Fresh
<1>1. ASSUME NEW limit, Claim(S, limit), UNCHANGED <<retried, reclaimed>>
      PROVE  \A d \in calls : FreshCall(d)'
  <2>1. \A m \in Ids : attempts[m] <= attempts'[m] /\ attempts'[m] \in Nat
    BY <1>1 DEF Claim, TypeOK, StoreOK
  <2> QED
    BY <1>0, <1>1, <2>1 DEF FreshCall
<1>2. ASSUME NEW c \in Consumers, ClaimBatch(c, S)
      PROVE  AttemptsInv'
  <2> DEFINE new(m) == [by |-> c, id |-> m, attempt |-> attempts[m] + 1,
                        pc |-> "held", lapsed |-> FALSE]
  <2>1. calls' = calls \cup {new(m) : m \in S}
    BY <1>2, Zenon DEF ClaimBatch
  <2>2. Claim(S, Prefetch) /\ UNCHANGED <<retried, reclaimed, freed>>
    BY <1>2, Zenon DEF ClaimBatch, history
  <2>3. ASSUME NEW m \in S, NEW e, e = new(m)
        PROVE  FreshCall(e)'
    <3>1. attempts'[m] = attempts[m] + 1 /\ attempts[m] \in Nat
      BY <2>2, Zenon DEF Claim, TypeOK, StoreOK
    <3>2. attempts[m] + 1 \notin retried[m]
      BY <3>1 DEF Account, TypeOK
    <3> QED
      BY <2>2, <2>3, <3>1, <3>2, ActorsAssumption DEF FreshCall, Steps
  <2>4. ASSUME NEW m \in S, NEW d \in calls
        PROVE  ~Same(new(m), d) /\ ~Same(d, new(m))
    BY <1>0, ActorsAssumption DEF FreshCall, Same
  <2>5. ASSUME NEW m \in S, NEW n \in S, Same(new(m), new(n))
        PROVE  new(m) = new(n)
    BY <2>5, Zenon DEF Same
  <2>6. Account'
    BY <2>2, ClaimAccount, Zenon
  <2> HIDE DEF new
  <2>7. Fresh'
    BY <1>1, <2>1, <2>2, <2>3, Zenon DEF Fresh
  <2>8. Unique'
    BY <2>1, <2>4, <2>5 DEF Unique, Same
  <2> QED
    BY <2>6, <2>7, <2>8, Zenon
<1>3. CASE Pull(S)
  <2>1. Claim(S, PullLimit) /\ UNCHANGED <<retried, reclaimed, freed, calls>>
    BY <1>3, Zenon DEF Pull, history
  <2> QED
    BY <1>1, <2>1, ClaimAccount, Zenon DEF Fresh, Unique, Same
<1>4. CASE Reclaim(S)
  <2> DEFINE new(m) == [by |-> Reclaimer, id |-> m, attempt |-> attempts[m], lapsed |-> TRUE,
                        pc |-> IF ShouldRetry(attempts[m]) THEN "release" ELSE "dead"]
  <2>1. calls' = calls \cup {new(m) : m \in S}
    BY <1>4, Zenon DEF Reclaim
  <2>2. UNCHANGED counters /\ state' = state
    BY <1>4, Zenon DEF Reclaim, store, history, counters
  <2>3. ASSUME NEW m \in S
        PROVE  FreshCall(new(m))
    <3>1. Leased(m)
      BY <1>4, Zenon DEF Reclaim, Expired
    <3> QED
      BY <3>1, ActorsAssumption DEF Account, FreshCall, ShouldRetry, TypeOK, StoreOK
  <2>4. ASSUME NEW m \in S, NEW d \in calls
        PROVE  ~Same(new(m), d) /\ ~Same(d, new(m))
    BY <1>4, ActorsAssumption, Zenon DEF Reclaim, CallsOf, Same
  <2>5. ASSUME NEW m \in S, NEW n \in S, Same(new(m), new(n))
        PROVE  new(m) = new(n)
    BY <2>5, Zenon DEF Same
  <2>6. Account'
    BY <2>2, AccountKept, Zenon DEF Waits, Leased
  <2> HIDE DEF new
  <2>7. Fresh'
    BY <2>1, <2>2, <2>3, Zenon DEF Fresh, FreshCall, counters
  <2>8. Unique'
    BY <2>1, <2>4, <2>5 DEF Unique, Same
  <2> QED
    BY <2>6, <2>7, <2>8, Zenon
<1> QED
  BY <1>2, <1>3, <1>4, Zenon

(* A client's Ack or Nack reads the message's current attempt. *)
LEMMA RequestStep ==
  ASSUME TypeOK, AttemptsInv, NEW k \in Clients, NEW m \in Ids,
         Ack(k, m) \/ \E requeue \in BOOLEAN : Nack(k, m, requeue)
  PROVE  AttemptsInv'
<1> USE DEF AttemptsInv
<1>1. PICK pc \in {"ack", "requeue", "retry", "dead"} :
          Request(k, m, pc) /\ (pc = "retry" => attempts[m] < MaxAttempts)
  BY Zenon DEF Ack, Nack, AfterFailure, ShouldRetry
<1> DEFINE new == [by |-> k, id |-> m, attempt |-> attempts[m], pc |-> pc, lapsed |-> FALSE]
<1>2. calls' = calls \cup {new} /\ UNCHANGED counters /\ state' = state
  BY <1>1, Zenon DEF Request, store, counters
<1>3. FreshCall(new) /\ \A d : ~Same(new, d) /\ ~Same(d, new)
  BY <1>1, ActorsAssumption DEF FreshCall, Same, TypeOK, StoreOK
<1>4. Account'
  BY <1>2, AccountKept, Zenon DEF Waits, Leased
<1> HIDE DEF new
<1> QED
  BY <1>2, <1>3, <1>4 DEF Fresh, FreshCall, Unique, Same, counters

(* The remaining steps neither claim a message nor return one. *)
LEMMA QuietStep ==
  ASSUME TypeOK, AttemptsInv,
         \/ \E m \in Ids : Publish(m) \/ BackoffElapses(m) \/ LeaseLapses(m)
         \/ \E c \in Consumers : Subscribe(c) \/ Stop(c)
         \/ \E d \in calls : StoreFails(d)
         \/ Purge
         \/ Crash
  PROVE  AttemptsInv'
<1> USE DEF AttemptsInv
<1>1. UNCHANGED counters
  BY Zenon DEF Publish, BackoffElapses, LeaseLapses, Subscribe, Stop, StoreFails, Purge, Crash,
     store, history, counters
<1>2. \A m \in Ids : (Waits(m)' => Waits(m)) /\ (Leased(m)' => Leased(m))
  BY Zenon DEF Publish, BackoffElapses, LeaseLapses, Subscribe, Stop, StoreFails, Purge, Crash,
     store, Waits, Leased, TypeOK, StoreOK, Terminal, Valid, Transitions
<1>3. Account'
  BY <1>1, <1>2, AccountKept, Zenon
<1>4. CASE calls' \subseteq calls
  BY <1>1, <1>3, <1>4, CallsReturn, Zenon
<1>5. ASSUME NEW m \in Ids, LeaseLapses(m)
      PROVE  AttemptsInv'
  <2> DEFINE aged(d) == IF d.id = m /\ Current(d) THEN [d EXCEPT !.lapsed = TRUE] ELSE d
  <2>1. \A e \in calls' : \E d \in calls :
           /\ e.by = d.by /\ e.id = d.id /\ e.attempt = d.attempt /\ e.pc = d.pc
           /\ e = aged(d)
    BY <1>5, Zenon DEF LeaseLapses, TypeOK, Call
  <2> HIDE DEF aged
  <2>2. ASSUME NEW e \in calls'
        PROVE  FreshCall(e)'
    <3>1. PICK d \in calls :
             e.by = d.by /\ e.id = d.id /\ e.attempt = d.attempt /\ e.pc = d.pc
      BY <2>1, Zenon
    <3>2. FreshCall(d)
      BY Zenon DEF Fresh
    <3> QED
      BY <1>1, <3>1, <3>2, Zenon DEF FreshCall, counters
  <2>3. Unique'
    BY <2>1 DEF Unique, Same
  <2> QED
    BY <1>3, <2>2, <2>3, Zenon DEF Fresh
<1>6. ASSUME NEW c \in Consumers, Stop(c)
      PROVE  AttemptsInv'
  <2>1. \A e \in calls' : \E d \in calls :
           /\ e.by = d.by /\ e.id = d.id /\ e.attempt = d.attempt
           /\ e.pc = d.pc \/ (e.pc = "cancelled" /\ d.by \in Consumers)
           /\ e = IF d.by = c /\ d.pc = "held" THEN [d EXCEPT !.pc = "cancelled"] ELSE d
    BY <1>6 DEF Stop, TypeOK, Call
  <2>2. ASSUME NEW e \in calls'
        PROVE  FreshCall(e)'
    <3>1. PICK d \in calls :
             /\ e.by = d.by /\ e.id = d.id /\ e.attempt = d.attempt
             /\ e.pc = d.pc \/ (e.pc = "cancelled" /\ d.by \in Consumers)
      BY <2>1, Zenon
    <3>2. FreshCall(d)
      BY Zenon DEF Fresh
    <3> QED
      BY <1>1, <3>1, <3>2, ActorsAssumption, Zenon DEF FreshCall, Steps, counters
  <2>3. Unique'
    BY <2>1 DEF Unique, Same
  <2> QED
    BY <1>3, <2>2, <2>3, Zenon DEF Fresh
<1> QED
  BY <1>4, <1>5, <1>6, Zenon DEF Publish, BackoffElapses, Subscribe, StoreFails, Return, Purge, Crash

(* The account of an empty broker is empty. *)
LEMMA AttemptsInit == Init => AttemptsInv
<1> SUFFICES ASSUME Init PROVE AttemptsInv
  BY Zenon
<1>1. \A m \in Ids : Returns(m) = 0
  BY FS_EmptySet DEF Init, Returns
<1> QED
  BY <1>1 DEF Init, AttemptsInv, Account, Fresh, Unique, Leased, Waits

(* AttemptsInv is inductive, given TypeOK. *)
LEMMA AttemptsStep == TypeOK /\ AttemptsInv /\ [Next]_vars => AttemptsInv'
<1> SUFFICES ASSUME TypeOK, AttemptsInv, [Next]_vars PROVE AttemptsInv'
  BY Zenon
<1>1. CASE UNCHANGED vars
  BY <1>1, Zenon DEF vars, store, history, AttemptsInv, Account, Fresh, FreshCall, Unique, Same,
     Returns, Waits, Leased
<1>2. CASE Next
  BY <1>2, QuietStep, QueueStep, RequestStep, WorkerStep, FreedStep, RetryStep,
     ReclaimedStep, SettleStep, Zenon DEF Next, ConsumerStep, StoreStep
<1> QED
  BY <1>1, <1>2, Zenon

(* Handler failures and lease expiries claim a message at most             *)
(* 2 * MaxAttempts - 1 times, and every further claim is paid for by a     *)
(* requeue outside the retry policy - for every MaxAttempts, any number of *)
(* consumers and workers, and handlers that may outlive their leases.      *)
THEOREM PolicyEnds == Spec => []AttemptsBounded
<1>1. Spec => []AttemptsInv
  BY TypeCorrect, AttemptsInit, AttemptsStep, PTL DEF Spec
<1>2. TypeOK /\ AttemptsInv => AttemptsBounded
  BY AccountBounds, Zenon DEF AttemptsInv
<1> QED
  BY <1>1, <1>2, TypeCorrect, PTL
-----------------------------------------------------------------------------
(***************************************************************************)
(* Handlers that finish before their lease ends, without HTTP clients: a   *)
(* message is in one pair of hands at a time (OneHolder), the retry policy *)
(* is exact (PolicyExact), and what happens twice has its crash or failed  *)
(* store call (DuplicatesExplained).                                       *)
(*                                                                         *)
(* The invariant behind the three: a message has one call at most,         *)
(* deliveries and reclaims together, and the call works on the latest      *)
(* claim.  A lease that runs out has no delivery any more, so what the     *)
(* reclaim loop does from its snapshot is still true when it does it.      *)
(***************************************************************************)

Timely == ~OutliveLease /\ Clients = {}

Excuses == Used("crash") + Used("fault")

Successes(m) == {x \in succeeded : x[1] = m}

(* Confirmed and recorded at most as often as there are excuses. *)
Single(m) == Cardinality(Successes(m)) <= Excuses /\ dead[m] <= Excuses

CallTimely(d) ==
    /\ d.attempt = attempts[d.id]
    /\ Leased(d.id) \/ state[d.id] = "PURGED"
    /\ IF d.by = Reclaimer
       THEN /\ d.pc \in {"release", "dead", "mark"}
            /\ d.id \in lapsed \/ state[d.id] = "PURGED"
       ELSE d.pc # "release" /\ d.id \notin lapsed
    /\ d.pc # "requeue"
    /\ d.pc \in {"retry", "release"} => d.attempt < MaxAttempts
    /\ d.pc # "ack" => Cardinality(Successes(d.id)) <= Excuses
    /\ d.pc # "mark" => dead[d.id] <= Excuses

MessageTimely(m) ==
    /\ attempts[m] <= MaxAttempts + freed[m]
    /\ Waits(m) => attempts[m] < MaxAttempts + freed[m]
    /\ Cardinality(Successes(m)) <= 1 + Excuses /\ dead[m] <= 1 + Excuses
    /\ Waits(m) \/ Leased(m) => Single(m) \/ \E d \in calls : d.id = m
    /\ state[m] = "ACKNOWLEDGED" => dead[m] <= Excuses

Lone == \A d, e \in calls : d.id = e.id => d = e

TimelyInv ==
    /\ IsFiniteSet(succeeded) /\ Lone
    /\ \A d \in calls : CallTimely(d)
    /\ \A m \in Ids : MessageTimely(m)

(* What a step leaves alone of a message. *)
Frame(n) ==
    /\ state'[n] = state[n] /\ attempts'[n] = attempts[n]
    /\ freed'[n] = freed[n] /\ dead'[n] = dead[n]
    /\ n \in lapsed' <=> n \in lapsed
    /\ Successes(n)' = Successes(n)
-----------------------------------------------------------------------------
(* The excuses are counted, and so are the confirmations of a message. *)
LEMMA ExcusesType ==
  (TypeOK => Excuses \in Int) /\ (TypeOK' => Excuses' \in Int)
  BY ConstantsAssumption DEF TypeOK, Excuses, Used, Env

(* A crash or a failed store call is one excuse more. *)
LEMMA ExcusesGrow ==
  ASSUME TypeOK, NEW event \in Env, Spend(event)
  PROVE  Excuses' = Excuses + IF event \in {"crash", "fault"} THEN 1 ELSE 0
  BY ConstantsAssumption DEF TypeOK, Excuses, Used, Env, Spend

(* Nothing else is. *)
LEMMA ExcusesStay == UNCHANGED left => Excuses' = Excuses
  BY Zenon DEF Excuses, Used

(* The confirmations of a message are finitely many. *)
LEMMA SuccessesCounted ==
  ASSUME IsFiniteSet(succeeded), NEW m
  PROVE  Cardinality(Successes(m)) \in Nat /\ IsFiniteSet(Successes(m))
  BY FS_Subset, FS_CardinalityType, Zenon DEF Successes

(* An action that changes one call and its message leaves the other calls  *)
(* and messages as they were.                                              *)
LEMMA OneCall ==
  ASSUME TypeOK, TypeOK', TimelyInv, NEW d \in calls, NEW e, e.id = d.id,
         calls' = calls \ {d} \/ (calls' = (calls \ {d}) \cup {e} /\ CallTimely(e)'),
         \A n \in Ids \ {d.id} : Frame(n),
         Excuses' >= Excuses, IsFiniteSet(succeeded'), MessageTimely(d.id)'
  PROVE  TimelyInv'
<1> USE DEF TimelyInv
<1>1. Excuses \in Int /\ Excuses' \in Int
  BY ExcusesType, Zenon
<1>2. \A n \in Ids : Cardinality(Successes(n)) \in Nat
  BY SuccessesCounted, Zenon
<1>3. \A c \in calls : c.id \in Ids
  BY Zenon DEF TypeOK, Call
<1>4. Lone'
  BY Zenon DEF Lone
<1>5. ASSUME NEW c \in calls \ {d} PROVE CallTimely(c)'
  <2>1. c.id \in Ids \ {d.id} /\ CallTimely(c) /\ Frame(c.id)
    BY <1>3, Zenon DEF Lone
  <2>2. Cardinality(Successes(c.id))' = Cardinality(Successes(c.id))
    BY <2>1, Zenon DEF Frame
  <2>3. dead[c.id] \in Nat /\ dead'[c.id] = dead[c.id]
    BY <2>1, Zenon DEF Frame, TypeOK
  <2> QED
    BY <1>1, <1>2, <2>1, <2>2, <2>3 DEF CallTimely, Frame, Leased
<1>6. ASSUME NEW n \in Ids \ {d.id} PROVE MessageTimely(n)'
  <2>1. Frame(n) /\ MessageTimely(n)
    BY Zenon
  <2>2. Cardinality(Successes(n))' = Cardinality(Successes(n))
    BY <2>1, Zenon DEF Frame
  <2>3. dead[n] \in Nat /\ dead'[n] = dead[n]
    BY <2>1, Zenon DEF Frame, TypeOK
  <2>4. (\E c \in calls : c.id = n) => \E c \in calls' : c.id = n
    BY Zenon
  <2>5. Single(n) => Single(n)'
    BY <1>1, <1>2, <2>2, <2>3 DEF Single
  <2> QED
    BY <1>1, <1>2, <2>1, <2>2, <2>3, <2>4, <2>5 DEF MessageTimely, Frame, Leased, Waits
<1> QED
  BY <1>4, <1>5, <1>6, Zenon

(* Steps of a delivery that touch neither the store nor the dead letters:  *)
(* pool.Submit, a worker that starts, a handler that returns an error.     *)
LEMMA GotoTimely ==
  ASSUME TypeOK, TypeOK', TimelyInv, NEW d \in calls,
         d.pc \in {"held", "cancelled", "buffered", "running"},
         NEW pc \in {"buffered", "running", "retry", "dead"},
         pc = "retry" => d.attempt < MaxAttempts,
         Goto(d, pc), UNCHANGED <<store, dead, left, history>>
  PROVE  TimelyInv'
<1> DEFINE e == [d EXCEPT !.pc = pc]
<1>1. /\ d.id \in Ids /\ e.id = d.id /\ e.pc = pc /\ e.by = d.by
      /\ e.attempt = d.attempt
  BY Zenon DEF TypeOK, Call
<1>2. UNCHANGED <<state, attempts, lapsed, dead, succeeded, freed>> /\ Excuses' = Excuses
  BY ExcusesStay, Zenon DEF store, history
<1>3. CallTimely(d) /\ MessageTimely(d.id)
  BY <1>1, Zenon DEF TimelyInv
<1>4. Cardinality(Successes(d.id))' = Cardinality(Successes(d.id))
  BY <1>2, Zenon DEF Successes
<1>5. e \in calls' /\ calls' = (calls \ {d}) \cup {e}
  BY Zenon DEF Goto
<1> HIDE DEF e
<1>6. CallTimely(e)'
  BY <1>1, <1>2, <1>3, <1>4, Zenon DEF CallTimely, Leased
<1>7. MessageTimely(d.id)'
  BY <1>1, <1>2, <1>3, <1>4, <1>5, Zenon DEF MessageTimely, Waits, Leased, Single
<1>8. \A n \in Ids \ {d.id} : Frame(n)
  BY <1>2, Zenon DEF Frame, Successes
<1>9. Excuses' >= Excuses /\ IsFiniteSet(succeeded')
  BY <1>2, ExcusesType DEF TimelyInv
<1> QED
  BY <1>1, <1>5, <1>6, <1>7, <1>8, <1>9, OneCall, Zenon

(* A handler that returns nil confirms its delivery: one confirmation more *)
(* of a message that had no more than the excuses.                         *)
LEMMA SucceedsTimely ==
  ASSUME TypeOK, TypeOK', TimelyInv, NEW d \in calls, HandlerSucceeds(d)
  PROVE  TimelyInv'
<1> DEFINE e == [d EXCEPT !.pc = "ack"]
<1>1. /\ d.id \in Ids /\ e.id = d.id /\ e.pc = "ack" /\ e.by = d.by
      /\ e.attempt = d.attempt
  BY Zenon DEF TypeOK, Call
<1>2. /\ UNCHANGED <<state, attempts, lapsed, dead, freed>> /\ Excuses' = Excuses
      /\ d.pc = "running" /\ succeeded' = succeeded \cup {<<d.id, d.attempt>>}
  BY ExcusesStay, Zenon DEF HandlerSucceeds, store
<1>3. CallTimely(d) /\ MessageTimely(d.id)
  BY <1>1, Zenon DEF TimelyInv
<1>4. /\ Cardinality(Successes(d.id)) \in Nat /\ Cardinality(Successes(d.id))' \in Nat
      /\ Cardinality(Successes(d.id))' <= Cardinality(Successes(d.id)) + 1
      /\ IsFiniteSet(succeeded')
  <2>1. Successes(d.id)' = Successes(d.id) \cup {<<d.id, d.attempt>>}
    BY <1>2 DEF Successes
  <2>2. IsFiniteSet(Successes(d.id)) /\ Cardinality(Successes(d.id)) \in Nat
    BY SuccessesCounted, Zenon DEF TimelyInv
  <2>3. Cardinality(Successes(d.id) \cup {<<d.id, d.attempt>>}) \in
              {Cardinality(Successes(d.id)), Cardinality(Successes(d.id)) + 1}
    BY <2>2, FS_AddElement, Zenon
  <2>4. IsFiniteSet(succeeded \cup {<<d.id, d.attempt>>})
    BY FS_AddElement, Zenon DEF TimelyInv
  <2> QED
    BY <1>2, <2>1, <2>2, <2>3, <2>4
<1>5. e \in calls' /\ calls' = (calls \ {d}) \cup {e}
  BY Zenon DEF HandlerSucceeds, Goto
<1>6. Excuses \in Int
  BY ExcusesType, Zenon
<1> HIDE DEF e
<1>7. CallTimely(e)'
  BY <1>1, <1>2, <1>3, Zenon DEF CallTimely, Leased
<1>8. MessageTimely(d.id)'
  BY <1>1, <1>2, <1>3, <1>4, <1>5, <1>6 DEF MessageTimely, CallTimely, Waits, Leased
<1>9. \A n \in Ids \ {d.id} : Frame(n)
  BY <1>2 DEF Frame, Successes
<1>10. Excuses' >= Excuses
  BY <1>2, <1>6
<1> QED
  BY <1>1, <1>4, <1>5, <1>7, <1>8, <1>9, <1>10, OneCall, Zenon

(* SaveDeadLetter writes one record more for a message that had no more    *)
(* than the excuses.                                                       *)
LEMMA SaveTimely ==
  ASSUME TypeOK, TypeOK', TimelyInv, NEW d \in calls, SaveDeadLetter(d)
  PROVE  TimelyInv'
<1> DEFINE e == [d EXCEPT !.pc = "mark"]
<1>1. /\ d.id \in Ids /\ e.id = d.id /\ e.pc = "mark" /\ e.by = d.by
      /\ e.attempt = d.attempt
  BY Zenon DEF TypeOK, Call
<1>2. /\ UNCHANGED <<state, attempts, lapsed, succeeded, freed>> /\ Excuses' = Excuses
      /\ d.pc = "dead" /\ dead' = [dead EXCEPT ![d.id] = @ + 1]
  BY ExcusesStay, Zenon DEF SaveDeadLetter, store, history
<1>3. CallTimely(d) /\ MessageTimely(d.id)
  BY <1>1, Zenon DEF TimelyInv
<1>4. Cardinality(Successes(d.id))' = Cardinality(Successes(d.id))
  BY <1>2, Zenon DEF Successes
<1>5. e \in calls' /\ calls' = (calls \ {d}) \cup {e}
  BY Zenon DEF SaveDeadLetter, Goto
<1>6. Excuses \in Int /\ dead[d.id] \in Nat /\ dead'[d.id] = dead[d.id] + 1
  BY <1>1, <1>2, ExcusesType, Zenon DEF TypeOK
<1> HIDE DEF e
<1>7. CallTimely(e)'
  BY <1>1, <1>2, <1>3, <1>4, Zenon DEF CallTimely, Leased
<1>8. MessageTimely(d.id)'
  BY <1>1, <1>2, <1>3, <1>4, <1>5, <1>6 DEF MessageTimely, CallTimely, Waits, Leased
<1>9. \A n \in Ids \ {d.id} : Frame(n)
  BY <1>1, <1>2, Zenon DEF Frame, Successes, TypeOK
<1> QED
  BY <1>1, <1>2, <1>5, <1>6, <1>7, <1>8, <1>9, OneCall DEF TimelyInv

(* The store calls that end a lease: a message that goes back to the queue *)
(* has claims left under the policy, and one that leaves it for good was   *)
(* not dead-lettered on the way.                                           *)
LEMMA FromLeasedTimely ==
  ASSUME TypeOK, TypeOK', TimelyInv, NEW d \in calls,
         NEW next \in {"QUEUED", "RETRYING", "ACKNOWLEDGED"},
         FromLeased(d.id, next), Return(d), UNCHANGED <<dead, left, succeeded>>,
         NEW k \in Nat, freed' = [freed EXCEPT ![d.id] = @ + k],
         d.pc # "mark",
         next # "ACKNOWLEDGED" =>
            d.pc # "ack" /\ (Leased(d.id) => attempts[d.id] < MaxAttempts + freed[d.id] + k)
  PROVE  TimelyInv'
<1>1. d.id \in Ids /\ d.attempt \in Nat
  BY Zenon DEF TypeOK, Call
<1>2. /\ attempts' = attempts /\ Excuses' = Excuses /\ Excuses \in Int
      /\ lapsed' = lapsed \ {d.id}
      /\ state'[d.id] = (IF Leased(d.id) THEN next ELSE state[d.id])
      /\ \A n \in Ids \ {d.id} : state'[n] = state[n]
  BY <1>1, ExcusesStay, ExcusesType, Zenon DEF FromLeased, TypeOK, StoreOK
<1>3. /\ freed[d.id] \in Nat /\ freed'[d.id] = freed[d.id] + k /\ dead[d.id] \in Nat
      /\ \A n \in Ids \ {d.id} : freed'[n] = freed[n]
      /\ attempts[d.id] \in Nat
  BY <1>1, Zenon DEF TypeOK, StoreOK
<1>4. CallTimely(d) /\ MessageTimely(d.id)
  BY <1>1, Zenon DEF TimelyInv
<1>5. Cardinality(Successes(d.id))' = Cardinality(Successes(d.id))
  BY Zenon DEF Successes
<1>6. Cardinality(Successes(d.id)) \in Nat
  BY SuccessesCounted, Zenon DEF TimelyInv
<1>7. MessageTimely(d.id)'
  <2>1. (attempts[d.id] <= MaxAttempts + freed[d.id])'
    BY <1>2, <1>3, <1>4, ConstantsAssumption DEF MessageTimely
  <2>2. (Waits(d.id) => attempts[d.id] < MaxAttempts + freed[d.id])'
    BY <1>2, <1>3, <1>4, ConstantsAssumption DEF MessageTimely, CallTimely, Waits
  <2>3. (Cardinality(Successes(d.id)) <= 1 + Excuses /\ dead[d.id] <= 1 + Excuses)'
    BY <1>2, <1>4, <1>5, Zenon DEF MessageTimely
  <2>4. (Waits(d.id) \/ Leased(d.id) => Single(d.id))'
    BY <1>2, <1>4, <1>5, Zenon DEF CallTimely, Waits, Leased, Single
  <2>5. (state[d.id] = "ACKNOWLEDGED" => dead[d.id] <= Excuses)'
    BY <1>2, <1>4, Zenon DEF CallTimely
  <2> QED
    BY <2>1, <2>2, <2>3, <2>4, <2>5, Zenon DEF MessageTimely
<1>8. \A n \in Ids \ {d.id} : Frame(n)
  BY <1>2, <1>3, Zenon DEF Frame, Successes
<1>9. Excuses' >= Excuses /\ IsFiniteSet(succeeded')
  BY <1>2 DEF TimelyInv
<1> QED
  BY <1>7, <1>8, <1>9, OneCall, Zenon DEF Return

(* A delivery's own steps. *)
LEMMA ConsumerStepTimely ==
  ASSUME TypeOK, TypeOK', TimelyInv, NEW d \in calls, ConsumerStep(d)
  PROVE  TimelyInv'
<1>1. d.id \in Ids /\ d.attempt \in Nat /\ CallTimely(d) /\ MessageTimely(d.id)
  BY Zenon DEF TypeOK, Call, TimelyInv
<1>2. CASE Submit(d)
  BY <1>2, GotoTimely, Zenon DEF Submit
<1>3. CASE StartHandler(d)
  BY <1>3, GotoTimely, Zenon DEF StartHandler
<1>4. ASSUME NEW permanent \in BOOLEAN, HandlerFails(d, permanent)
      PROVE  TimelyInv'
  BY <1>4, GotoTimely, Zenon DEF HandlerFails, AfterFailure, ShouldRetry
<1>5. CASE HandlerSucceeds(d)
  BY <1>5, SucceedsTimely, Zenon
<1>6. CASE ReleaseUndispatched(d)
  <2>1. PICK k \in Nat : k = IF Leased(d.id) THEN 1 ELSE 0
    BY Zenon
  <2>2. /\ d.pc = "cancelled" /\ FromLeased(d.id, "QUEUED") /\ Return(d)
        /\ UNCHANGED <<dead, left, succeeded>>
        /\ freed' = [freed EXCEPT ![d.id] = @ + k]
    BY <1>6, <2>1, Zenon DEF ReleaseUndispatched
  <2>3. Leased(d.id) => attempts[d.id] < MaxAttempts + freed[d.id] + k
    BY <1>1, <2>1, ConstantsAssumption DEF MessageTimely, TypeOK, StoreOK
  <2> QED
    BY <2>2, <2>3, FromLeasedTimely, Zenon
<1> QED
  BY <1>2, <1>3, <1>4, <1>5, <1>6, Zenon DEF ConsumerStep

(* MarkDeadLettered moves a leased message out of the queue for good. *)
LEMMA MarkTimely ==
  ASSUME TypeOK, TypeOK', TimelyInv, NEW d \in calls, MarkDeadLettered(d)
  PROVE  TimelyInv'
<1>1. d.id \in Ids /\ CallTimely(d) /\ MessageTimely(d.id)
  BY Zenon DEF TypeOK, Call, TimelyInv
<1>2. /\ UNCHANGED <<attempts, dead, left, succeeded, freed>> /\ Return(d)
      /\ Excuses' = Excuses /\ lapsed' = lapsed \ {d.id}
      /\ \A n \in Ids \ {d.id} : state'[n] = state[n]
  BY <1>1, ExcusesStay, Zenon DEF MarkDeadLettered, MarkStored, history, TypeOK, StoreOK
<1>3. state'[d.id] \in {"DEAD_LETTERED", "PURGED"}
  BY <1>1, Zenon DEF MarkDeadLettered, MarkStored, TypeOK, StoreOK, CallTimely, Leased,
     CanTransitionTo, Valid, Transitions, States
<1>4. Cardinality(Successes(d.id))' = Cardinality(Successes(d.id))
  BY <1>2, Zenon DEF Successes
<1>5. MessageTimely(d.id)'
  BY <1>1, <1>2, <1>3, <1>4, Zenon DEF MessageTimely, Waits, Leased
<1>6. \A n \in Ids \ {d.id} : Frame(n)
  BY <1>2, Zenon DEF Frame, Successes
<1>7. Excuses' >= Excuses /\ IsFiniteSet(succeeded')
  BY <1>2, ExcusesType DEF TimelyInv
<1> QED
  BY <1>2, <1>5, <1>6, <1>7, OneCall, Zenon DEF Return

(* The store call of a delivery or of the reclaim loop. *)
LEMMA StoreStepTimely ==
  ASSUME Timely, TypeOK, TypeOK', TimelyInv, NEW d \in calls, StoreStep(d)
  PROVE  TimelyInv'
<1>1. /\ d.id \in Ids /\ d.attempt \in Nat /\ CallTimely(d) /\ freed \in [Ids -> Nat]
      /\ freed = [freed EXCEPT ![d.id] = @ + 0]
  BY DEF TypeOK, Call, TimelyInv
<1>2. d.attempt < MaxAttempts => attempts[d.id] < MaxAttempts + freed[d.id] + 0
  BY <1>1, ConstantsAssumption DEF CallTimely, TypeOK, StoreOK
<1>3. CASE Acknowledge(d)
  BY <1>1, <1>3, FromLeasedTimely, Zenon DEF Acknowledge, history
<1>4. CASE ScheduleRetry(d)
  <2>1. /\ FromLeased(d.id, "RETRYING") /\ Return(d) /\ UNCHANGED <<dead, left, succeeded>>
        /\ freed' = [freed EXCEPT ![d.id] = @ + 0] /\ d.pc = "retry"
    BY <1>4, Zenon DEF ScheduleRetry, Timely
  <2> QED
    BY <1>1, <1>2, <2>1, FromLeasedTimely, Zenon DEF CallTimely
<1>5. CASE SaveDeadLetter(d)
  BY <1>5, SaveTimely, Zenon
<1>6. CASE MarkDeadLettered(d)
  BY <1>6, MarkTimely, Zenon
<1>7. CASE RequeueExpired(d)
  <2>1. /\ FromLeased(d.id, "QUEUED") /\ Return(d) /\ UNCHANGED <<dead, left, succeeded>>
        /\ freed' = [freed EXCEPT ![d.id] = @ + 0] /\ d.pc = "release"
    BY <1>1, <1>7, Zenon DEF RequeueExpired
  <2> QED
    BY <1>1, <1>2, <2>1, FromLeasedTimely, Zenon DEF CallTimely
<1>8. ~RequeueNacked(d)
  BY <1>1, Zenon DEF CallTimely, RequeueNacked
<1> QED
  BY <1>3, <1>4, <1>5, <1>6, <1>7, <1>8, Zenon DEF StoreStep

(* A failed store call is an excuse of its own: the message it leaves      *)
(* behind may be confirmed or recorded once more.                          *)
LEMMA StoreFailsTimely ==
  ASSUME TypeOK, TypeOK', TimelyInv, NEW d \in calls, StoreFails(d)
  PROVE  TimelyInv'
<1>1. d.id \in Ids /\ MessageTimely(d.id)
  BY Zenon DEF TypeOK, Call, TimelyInv
<1>2. /\ UNCHANGED <<state, attempts, lapsed, dead, succeeded, freed>> /\ Return(d)
      /\ Excuses' = Excuses + 1 /\ Excuses \in Int
  BY ExcusesGrow, ExcusesType, Zenon DEF StoreFails, store, history, Env
<1>3. Cardinality(Successes(d.id))' = Cardinality(Successes(d.id))
  BY <1>2, Zenon DEF Successes
<1>4. Cardinality(Successes(d.id)) \in Nat /\ dead[d.id] \in Nat
  BY <1>1, SuccessesCounted, Zenon DEF TimelyInv, TypeOK
<1>5. MessageTimely(d.id)'
  BY <1>1, <1>2, <1>3, <1>4 DEF MessageTimely, Waits, Leased, Single
<1>6. \A n \in Ids \ {d.id} : Frame(n)
  BY <1>2, Zenon DEF Frame, Successes
<1>7. Excuses' >= Excuses /\ IsFiniteSet(succeeded')
  BY <1>2 DEF TimelyInv
<1> QED
  BY <1>2, <1>5, <1>6, <1>7, OneCall, Zenon DEF Return

(* So is a crash, for every message that had a call. *)
LEMMA CrashTimely ==
  ASSUME TypeOK, TimelyInv, Crash
  PROVE  TimelyInv'
<1>1. /\ UNCHANGED <<state, attempts, lapsed, dead, succeeded, freed>> /\ calls' = {}
      /\ Excuses' = Excuses + 1 /\ Excuses \in Int
  BY ExcusesGrow, ExcusesType, Zenon DEF Crash, store, history, Env
<1>2. ASSUME NEW m \in Ids PROVE MessageTimely(m)'
  <2>1. Cardinality(Successes(m))' = Cardinality(Successes(m))
    BY <1>1, Zenon DEF Successes
  <2>2. Cardinality(Successes(m)) \in Nat /\ dead[m] \in Nat
    BY SuccessesCounted, Zenon DEF TimelyInv, TypeOK
  <2>3. MessageTimely(m)
    BY Zenon DEF TimelyInv
  <2> QED
    BY <1>1, <2>1, <2>2, <2>3 DEF MessageTimely, Waits, Leased, Single
<1> QED
  BY <1>1, <1>2, Zenon DEF TimelyInv, Lone

(* New calls are for messages that had none: those keep to the excuses.    *)
LEMMA NewCalls ==
  ASSUME TypeOK, TimelyInv, NEW S \in SUBSET Ids, NEW new,
         \A m \in S : ~\E d \in calls : d.id = m,
         \A m \in S : (Waits(m) \/ Leased(m)) /\ new[m].id = m,
         calls' = calls \cup {new[m] : m \in S},
         UNCHANGED <<dead, left, succeeded, freed>>,
         \A n \in Ids \ S : Frame(n),
         \A m \in S : /\ Leased(m)' /\ attempts'[m] <= MaxAttempts + freed[m]
                      /\ Single(m)' => CallTimely(new[m])'
  PROVE  TimelyInv'
<1>1. Excuses' = Excuses /\ Excuses \in Int
  BY ExcusesStay, ExcusesType, Zenon
<1>2. \A n \in Ids : /\ Cardinality(Successes(n))' = Cardinality(Successes(n))
                     /\ MessageTimely(n)
  BY Zenon DEF Successes, TimelyInv
<1>3. \A m \in S : Single(m)'
  BY <1>1, <1>2, Zenon DEF MessageTimely, Single
<1>4. Lone'
  BY DEF Lone, TimelyInv
<1>5. ASSUME NEW c \in calls PROVE CallTimely(c)'
  <2>1. c.id \in Ids \ S /\ CallTimely(c)
    BY Zenon DEF TypeOK, Call, TimelyInv
  <2> QED
    BY <1>1, <1>2, <2>1, Zenon DEF CallTimely, Frame, Leased
<1>6. ASSUME NEW m \in S PROVE MessageTimely(m)'
  BY <1>1, <1>2, <1>3, Zenon DEF MessageTimely, Leased, Waits
<1>7. ASSUME NEW n \in Ids \ S PROVE MessageTimely(n)'
  <2>1. (\E c \in calls : c.id = n) => \E c \in calls' : c.id = n
    BY Zenon
  <2>2. Single(n)' = Single(n)
    BY <1>1, <1>2, Zenon DEF Single
  <2> QED
    BY <1>1, <1>2, <2>1, <2>2, Zenon DEF MessageTimely, Frame, Leased, Waits
<1> QED
  BY <1>3, <1>4, <1>5, <1>6, <1>7, Zenon DEF TimelyInv

(* A batch is claimed: nobody works on a waiting message. *)
LEMMA ClaimTimely ==
  ASSUME TypeOK, TimelyInv, NEW S \in SUBSET Ids, NEW c \in Consumers, ClaimBatch(c, S)
  PROVE  TimelyInv'
<1>0. PICK new : new = [m \in S |-> [by |-> c, id |-> m, attempt |-> attempts[m] + 1,
                                    pc |-> "held", lapsed |-> FALSE]]
  BY Zenon
<1>1. \A m \in S : Waits(m)
  BY Zenon DEF ClaimBatch, Claim, Claimable, Waits
<1>2. \A m \in S : ~\E d \in calls : d.id = m
  BY <1>1, Zenon DEF TimelyInv, CallTimely, Waits, Leased
<1>3. /\ UNCHANGED <<dead, left, succeeded, freed>>
      /\ calls' = calls \cup {new[m] : m \in S}
      /\ lapsed' = lapsed \ S
      /\ \A m \in Ids : /\ state'[m] = IF m \in S THEN "PROCESSING" ELSE state[m]
                        /\ attempts'[m] = attempts[m] + IF m \in S THEN 1 ELSE 0
  BY <1>0, Zenon DEF ClaimBatch, Claim, history
<1>4. \A m \in Ids : attempts[m] \in Nat /\ freed[m] \in Nat
  BY Zenon DEF TypeOK, StoreOK
<1>5. \A n \in Ids \ S : Frame(n)
  BY <1>3, <1>4 DEF Frame, Successes
<1>6. ASSUME NEW m \in S
      PROVE  /\ Leased(m)' /\ attempts'[m] <= MaxAttempts + freed[m]
             /\ Single(m)' => CallTimely(new[m])'
  <2>1. m \in Ids /\ state'[m] = "PROCESSING" /\ attempts'[m] = attempts[m] + 1 /\ m \notin lapsed'
    BY <1>3, <1>4, Zenon
  <2>2. attempts[m] < MaxAttempts + freed[m]
    BY <1>1, <2>1, Zenon DEF TimelyInv, MessageTimely
  <2>3. Leased(m)' /\ attempts'[m] <= MaxAttempts + freed[m]
    BY <1>4, <2>1, <2>2, ConstantsAssumption DEF Leased
  <2>4. /\ new[m].by = c /\ new[m].id = m /\ new[m].attempt = attempts[m] + 1
        /\ new[m].pc = "held" /\ c # Reclaimer
    BY <1>0, ActorsAssumption, Zenon
  <2> QED
    BY <2>1, <2>3, <2>4, Zenon DEF CallTimely, Single
<1>7. \A m \in S : new[m].id = m
  BY <1>0, Zenon
<1> QED
  BY <1>1, <1>2, <1>3, <1>5, <1>6, <1>7, NewCalls, Zenon

(* Expired leases are collected: their delivery is over, and the reclaim   *)
(* loop has no other snapshot.                                             *)
LEMMA ReclaimTimely ==
  ASSUME TypeOK, TimelyInv, NEW S \in SUBSET Ids, Reclaim(S)
  PROVE  TimelyInv'
<1>0. PICK new : new = [m \in S |->
         [by |-> Reclaimer, id |-> m, attempt |-> attempts[m], lapsed |-> TRUE,
          pc |-> IF ShouldRetry(attempts[m]) THEN "release" ELSE "dead"]]
  BY Zenon
<1>1. \A m \in S : Leased(m) /\ m \in lapsed
  BY Zenon DEF Reclaim, Expired
<1>2. \A m \in S : ~\E d \in calls : d.id = m
  BY <1>1, Zenon DEF TimelyInv, CallTimely, Reclaim, CallsOf
<1>3. /\ UNCHANGED <<state, attempts, lapsed, dead, left, succeeded, freed>>
      /\ calls' = calls \cup {new[m] : m \in S}
  BY <1>0, Zenon DEF Reclaim, store, history
<1>4. \A n \in Ids \ S : Frame(n)
  BY <1>3, Zenon DEF Frame, Successes
<1>5. ASSUME NEW m \in S
      PROVE  /\ Leased(m)' /\ attempts'[m] <= MaxAttempts + freed[m]
             /\ Single(m)' => CallTimely(new[m])'
  BY <1>0, <1>1, <1>3, Zenon DEF Leased, TimelyInv, MessageTimely, CallTimely, Single, ShouldRetry
<1>6. \A m \in S : new[m].id = m
  BY <1>0, Zenon
<1> QED
  BY <1>1, <1>2, <1>3, <1>4, <1>5, <1>6, NewCalls, Zenon

(* Publish, and the passing of time: a lease that runs out has no delivery *)
(* in progress.                                                            *)
LEMMA MessageStepTimely ==
  ASSUME Timely, TypeOK, TimelyInv, NEW m \in Ids,
         Publish(m) \/ BackoffElapses(m) \/ LeaseLapses(m)
  PROVE  TimelyInv'
<1>1. /\ UNCHANGED <<attempts, dead, succeeded, freed, left>> /\ Excuses' = Excuses
      /\ \A n \in Ids : Cardinality(Successes(n))' = Cardinality(Successes(n))
  BY ExcusesStay, Zenon DEF Publish, BackoffElapses, LeaseLapses, history, Successes
<1>2. ASSUME calls' = calls, \A d \in calls : CallTimely(d)',
             \A n \in Ids : (Waits(n)' <=> Waits(n)) /\ (Leased(n)' <=> Leased(n)),
             \A n \in Ids : state'[n] = "ACKNOWLEDGED" => state[n] = "ACKNOWLEDGED"
      PROVE  TimelyInv'
  BY <1>1, <1>2, Zenon DEF TimelyInv, Lone, MessageTimely, Single
<1>3. CASE Publish(m)
  <2>1. /\ calls' = calls /\ lapsed' = lapsed /\ Waits(m) /\ Waits(m)'
        /\ \A n \in Ids \ {m} : state'[n] = state[n]
    BY <1>3, Zenon DEF Publish, Waits, TypeOK, StoreOK
  <2>2. \A d \in calls : d.id \in Ids \ {m} /\ CallTimely(d)
    BY <2>1, Zenon DEF TypeOK, Call, TimelyInv, CallTimely, Waits, Leased
  <2>3. \A d \in calls : CallTimely(d)'
    BY <1>1, <2>1, <2>2, Zenon DEF CallTimely, Leased
  <2> QED
    BY <1>2, <2>1, <2>3, Zenon DEF Waits, Leased
<1>4. CASE BackoffElapses(m)
  <2>1. calls' = calls /\ lapsed' = lapsed /\ state' = state
    BY <1>4, Zenon DEF BackoffElapses
  <2>2. \A d \in calls : CallTimely(d)'
    BY <1>1, <2>1, Zenon DEF TimelyInv, CallTimely, Leased, TypeOK, Call
  <2> QED
    BY <1>2, <2>1, <2>2, Zenon DEF Waits, Leased
<1>5. CASE LeaseLapses(m)
  <2>1. \A d \in calls : d.id # m
    BY <1>5, Zenon DEF LeaseLapses, Timely, TimelyInv, CallTimely, Current, TypeOK, Call, Leased
  <2>2. calls' = calls /\ lapsed' = lapsed \cup {m} /\ state' = state
    BY <1>5, <2>1, Zenon DEF LeaseLapses
  <2>3. \A d \in calls : CallTimely(d)'
    BY <1>1, <2>1, <2>2, Zenon DEF TimelyInv, CallTimely, Leased, TypeOK, Call
  <2> QED
    BY <1>2, <2>2, <2>3, Zenon DEF Waits, Leased
<1> QED
  BY <1>3, <1>4, <1>5, Zenon

(* Subscribe, Stop and Purge take no message into a second pair of hands. *)
LEMMA ControlTimely ==
  ASSUME TypeOK, TimelyInv,
         (\E c \in Consumers : Subscribe(c) \/ Stop(c)) \/ Purge
  PROVE  TimelyInv'
<1>1. /\ UNCHANGED <<attempts, dead, succeeded, freed>> /\ Excuses' = Excuses
      /\ \A n \in Ids : Cardinality(Successes(n))' = Cardinality(Successes(n))
  <2>1. UNCHANGED <<attempts, dead, succeeded, freed>>
    BY Zenon DEF Subscribe, Stop, Purge, store, history
  <2>2. UNCHANGED left \/ Spend("stop") \/ Spend("purge")
    BY Zenon DEF Subscribe, Stop, Purge
  <2>3. Excuses' = Excuses
    BY <2>2, ExcusesStay, ExcusesGrow, ExcusesType DEF Env
  <2> QED
    BY <2>1, <2>3, Zenon DEF Successes
<1>2. ASSUME NEW c \in Consumers, Subscribe(c)
      PROVE  TimelyInv'
  <2>1. calls' = calls /\ lapsed' = lapsed /\ state' = state
    BY <1>2, Zenon DEF Subscribe, store
  <2> QED
    BY <1>1, <2>1 DEF TimelyInv, Lone, CallTimely, MessageTimely, Single, Waits, Leased,
       TypeOK, Call
<1>3. ASSUME NEW c \in Consumers, Stop(c)
      PROVE  TimelyInv'
  <2>1. lapsed' = lapsed /\ state' = state
    BY <1>3, Zenon DEF Stop, store
  <2>2. PICK to : to = [d \in calls |-> IF d.by = c /\ d.pc = "held"
                                        THEN [d EXCEPT !.pc = "cancelled"] ELSE d]
    BY Zenon
  <2>3. calls' = {to[d] : d \in calls}
    BY <1>3, <2>2, Zenon DEF Stop
  <2>4. \A d \in calls :
           /\ d.id \in Ids /\ to[d].id = d.id /\ to[d].by = d.by /\ to[d].attempt = d.attempt
           /\ (to[d].pc = d.pc) \/ (d.pc = "held" /\ to[d].pc = "cancelled")
    BY <2>2, Zenon DEF TypeOK, Call
  <2>5. ASSUME NEW d \in calls PROVE CallTimely(to[d])'
    <3>1. CallTimely(d) /\ (d.by # Reclaimer \/ to[d].pc = d.pc)
      BY <2>4, Zenon DEF TimelyInv, CallTimely
    <3> QED
      BY <1>1, <2>1, <2>4, <3>1 DEF TimelyInv, CallTimely, Leased
  <2>6. Lone'
    BY <2>3, <2>4 DEF Lone, TimelyInv
  <2>7. ASSUME NEW m \in Ids PROVE MessageTimely(m)'
    <3>1. (\E d \in calls : d.id = m) => \E d \in calls' : d.id = m
      BY <2>3, <2>4
    <3> QED
      BY <1>1, <2>1, <3>1, Zenon DEF TimelyInv, MessageTimely, Waits, Leased, Single
  <2> QED
    BY <1>1, <2>3, <2>5, <2>6, <2>7, Zenon DEF TimelyInv
<1>4. CASE Purge
  <2>1. /\ calls' = calls /\ lapsed' = {}
        /\ \A m \in Ids : \/ state'[m] = "PURGED"
                          \/ /\ state'[m] = state[m] /\ ~Leased(m)
                             /\ Waits(m) => state[m] = "NONE"
    <3>1. calls' = calls /\ lapsed' = {}
      BY <1>4, Zenon DEF Purge
    <3>2. ASSUME NEW m \in Ids
          PROVE  state'[m] = "PURGED" \/ (state'[m] = state[m] /\ Terminal(state[m]))
      BY <1>4, Zenon DEF Purge
    <3>3. \A s : Terminal(s) => s \notin {"QUEUED", "PROCESSING", "RETRYING"}
      BY DEF Terminal, Valid, Transitions
    <3> QED
      BY <3>1, <3>2, <3>3, Zenon DEF Leased, Waits
  <2>2. \A d \in calls : CallTimely(d)'
    BY <1>1, <2>1, Zenon DEF TimelyInv, CallTimely, Leased, TypeOK, Call
  <2>3. \A m \in Ids : MessageTimely(m)'
    BY <1>1, <2>1, Zenon DEF TimelyInv, MessageTimely, Waits, Leased, Single
  <2> QED
    BY <1>1, <2>1, <2>2, <2>3, Zenon DEF TimelyInv, Lone
<1> QED
  BY <1>2, <1>3, <1>4, Zenon
-----------------------------------------------------------------------------
(* Initially nothing was claimed. *)
LEMMA TimelyInit == Init => TimelyInv
<1> SUFFICES ASSUME Init PROVE TimelyInv
  BY Zenon
<1>1. succeeded = {} /\ calls = {} /\ Excuses = 0
  BY ConstantsAssumption DEF Init, Excuses, Used, Env
<1>2. \A m \in Ids : /\ Cardinality(Successes(m)) = 0 /\ attempts[m] = 0 /\ freed[m] = 0 /\ dead[m] = 0
                     /\ state[m] = "NONE"
  BY <1>1, FS_EmptySet, Zenon DEF Successes, Init
<1>3. IsFiniteSet(succeeded)
  BY <1>1, FS_EmptySet, Zenon
<1> QED
  BY <1>1, <1>2, <1>3, ConstantsAssumption DEF TimelyInv, Lone, MessageTimely, Single

(* Every step of the engine keeps the hands off each other's messages. *)
LEMMA TimelyStep ==
  ASSUME Timely, TypeOK, TypeOK', TimelyInv, [Next]_vars
  PROVE  TimelyInv'
<1>1. CASE UNCHANGED vars
  <2>1. UNCHANGED <<state, attempts, lapsed, dead, calls, left, succeeded, freed>>
    BY <1>1, Zenon DEF vars, store, history
  <2>2. Excuses' = Excuses /\ \A n : Successes(n)' = Successes(n)
    BY <2>1, ExcusesStay, Zenon DEF Successes
  <2> QED
    BY <2>1, <2>2, Zenon DEF TimelyInv, Lone, CallTimely, MessageTimely, Single, Waits, Leased
<1>2. CASE Next
  BY <1>2, MessageStepTimely, ControlTimely, ClaimTimely, ReclaimTimely, CrashTimely,
     ConsumerStepTimely, StoreStepTimely, StoreFailsTimely, Zenon DEF Next, Timely, Pull
<1> QED
  BY <1>1, <1>2, Zenon

(* The invariant of timely handlers. *)
LEMMA TimelyAlways == ASSUME Timely PROVE Spec => []TimelyInv
<1>1. TypeOK /\ TypeOK' /\ TimelyInv /\ [Next]_vars => TimelyInv'
  BY TimelyStep, Zenon
<1> QED
  BY <1>1, TimelyInit, TypeCorrect, PTL DEF Spec

(* With handlers that finish before their lease ends, a message is in one  *)
(* consumer's hands at a time, under its latest claim: no interleaving of  *)
(* claims, retries, reclaims, stops and crashes lets a second one start    *)
(* (dispatcher.go process, maintenance.go reclaim).                        *)
THEOREM OneHolderHolds == ASSUME Timely PROVE Spec => []OneHolder
<1>1. TypeOK /\ TimelyInv => OneHolder
  BY Zenon DEF OneHolder, Deliveries, Current, TimelyInv, Lone, CallTimely
<1> QED
  BY <1>1, TimelyAlways, TypeCorrect, PTL

(* ... and the retry policy is exact: failures, expired leases and crashes *)
(* together never claim a message more than MaxAttempts times              *)
(* (policy.go ShouldRetry), but for the requeues outside the policy.       *)
THEOREM PolicyHolds == ASSUME Timely PROVE Spec => []PolicyExact
<1>1. TimelyInv => PolicyExact
  BY Zenon DEF PolicyExact, TimelyInv, MessageTimely
<1> QED
  BY <1>1, TimelyAlways, PTL

(* ... and a message is confirmed or recorded a second time only across a  *)
(* crash or a failed store call (dispatcher.go acknowledge, deadletter.go). *)
THEOREM DuplicatesHold == ASSUME Timely PROVE Spec => []DuplicatesExplained
<1>1. TypeOK /\ NeverDropped /\ TimelyInv => DuplicatesExplained
  <2> SUFFICES ASSUME TypeOK, NeverDropped, TimelyInv, NEW m \in Ids
               PROVE  /\ Cardinality(Successes(m)) <= 1 + Excuses
                      /\ \/ state[m] \in {"DEAD_LETTERED", "PURGED"}
                         \/ \E d \in calls : d.id = m /\ d.pc = "mark"
                         \/ dead[m] <= Excuses
                      /\ dead[m] <= 1 + Excuses
    <3>1. ASSUME NEW e \in Int, NEW k \in Nat, NEW b \in BOOLEAN, k <= 1 + e, b \/ k <= e
          PROVE  k <= e + IF b THEN 1 ELSE 0
      BY <3>1
    <3>2. TypeOK => Excuses \in Int /\ \A m \in Ids : dead[m] \in Nat
      BY ExcusesType, Zenon DEF TypeOK
    <3> QED
      BY <3>1, <3>2, Zenon DEF DuplicatesExplained, Successes, Excuses
  <2>1. MessageTimely(m)
    BY Zenon DEF TimelyInv
  <2>2. state[m] \in {"DEAD_LETTERED", "PURGED", "ACKNOWLEDGED"} \/ Waits(m) \/ Leased(m)
    BY Zenon DEF TypeOK, StoreOK, Stored, States, NeverDropped, Waits, Leased
  <2>3. ASSUME NEW d \in calls, d.id = m, d.pc # "mark" PROVE dead[m] <= Excuses
    BY <2>3, Zenon DEF TimelyInv, CallTimely
  <2> QED
    BY <2>1, <2>2, <2>3, Zenon DEF MessageTimely, Single
<1> QED
  BY <1>1, TimelyAlways, TypeCorrect, NothingDropped, PTL
=============================================================================
