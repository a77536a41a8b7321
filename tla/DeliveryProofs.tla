--------------------------- MODULE DeliveryProofs ---------------------------
(***************************************************************************)
(* Proofs about Delivery, for any number of messages, consumers, clients,  *)
(* crashes and failed store calls: its types, that no message is ever      *)
(* dropped, and that the broker implements AtLeastOnce.                    *)
(*                                                                         *)
(* NeverDropped is not inductive: a call that is about to acknowledge or   *)
(* to mark a message must already carry the evidence for it.  Evidence     *)
(* says so, and the pair is inductive.                                     *)
(***************************************************************************)
EXTENDS Delivery, TLAPS

(* The empty broker (New over a fresh store) is well typed. *)
LEMMA InitType == Init => TypeOK
  BY ConstantsAssumption DEF Init, TypeOK, StoreOK, Stored, States, Call, Env

(* A call that goes on to another step, or outlives its lease, is a call. *)
LEMMA CallsType ==
  ASSUME NEW d \in Call, NEW pc \in Steps
  PROVE  [d EXCEPT !.pc = pc] \in Call /\ [d EXCEPT !.lapsed = TRUE] \in Call
  BY Zenon DEF Call

(* An event of the environment uses up one of its bounded occurrences. *)
LEMMA SpendType ==
  ASSUME TypeOK, NEW event \in Env, Spend(event)
  PROVE  left' \in [Env -> Nat]
  BY DEF TypeOK, Spend, Env

(* The store operators keep the shape of the store: Claim, *)
LEMMA ClaimType ==
  ASSUME StoreOK, NEW S \in SUBSET Ids, NEW limit, Claim(S, limit)
  PROVE  StoreOK'
  BY DEF StoreOK, Claim, Claimable, Leased, Stored, States

(* ... Acknowledge, ScheduleRetry and Release of the store, *)
LEMMA FromLeasedType ==
  ASSUME StoreOK, NEW m \in Ids, NEW next \in {"QUEUED", "RETRYING", "ACKNOWLEDGED"},
         FromLeased(m, next)
  PROVE  StoreOK'
  BY Zenon DEF StoreOK, FromLeased, Leased, Stored, States

(* ... and MarkDeadLettered. *)
LEMMA MarkStoredType ==
  ASSUME StoreOK, NEW m \in Ids, MarkStored(m)
  PROVE  StoreOK'
  BY DEF StoreOK, MarkStored, Leased, Stored, States, CanTransitionTo, Valid, Transitions

(* Steps that leave the store alone leave its shape alone. *)
LEMMA StoreUnchanged == StoreOK /\ UNCHANGED store => StoreOK'
  BY Zenon DEF StoreOK, store, Leased

(* Going on with a call keeps the calls well typed. *)
LEMMA GotoType ==
  ASSUME calls \subseteq Call, NEW d \in calls, NEW pc \in Steps, Goto(d, pc)
  PROVE  calls' \subseteq Call
  BY CallsType, Zenon DEF Goto

(* Returning from a call. *)
LEMMA ReturnType ==
  ASSUME calls \subseteq Call, NEW d, Return(d)
  PROVE  calls' \subseteq Call
  BY Zenon DEF Return

(* The dispatch loop's hand-off, the worker and the handler (dispatcher.go, *)
(* pool.go).                                                               *)
LEMMA ConsumerStepType ==
  ASSUME TypeOK, NEW d \in calls, ConsumerStep(d)
  PROVE  TypeOK'
<1> USE StoreUnchanged DEF TypeOK
<1> d \in Call /\ d.id \in Ids /\ d.attempt \in Nat
  BY Zenon DEF TypeOK, Call
<1>1. CASE Submit(d)
  BY <1>1, GotoType, Zenon DEF Submit, history, Steps
<1>2. CASE ReleaseUndispatched(d)
  BY <1>2, FromLeasedType, ReturnType DEF ReleaseUndispatched
<1>3. CASE StartHandler(d)
  BY <1>3, GotoType, Zenon DEF StartHandler, history, Steps
<1>4. CASE HandlerSucceeds(d)
  BY <1>4, GotoType DEF HandlerSucceeds, Steps
<1>5. ASSUME NEW permanent \in BOOLEAN, HandlerFails(d, permanent)
      PROVE  TypeOK'
  BY <1>5, GotoType, Zenon DEF HandlerFails, AfterFailure, history, Steps
<1> QED
  BY <1>1, <1>2, <1>3, <1>4, <1>5, Zenon DEF ConsumerStep

(* The store calls that complete a delivery, a client's request or a       *)
(* reclaimed message.                                                      *)
LEMMA StoreStepType ==
  ASSUME TypeOK, NEW d \in calls, StoreStep(d)
  PROVE  TypeOK'
<1> USE StoreUnchanged DEF TypeOK
<1> d \in Call /\ d.id \in Ids /\ d.attempt \in Nat
  BY Zenon DEF TypeOK, Call
<1>1. CASE Acknowledge(d)
  BY <1>1, FromLeasedType, ReturnType, Zenon DEF Acknowledge, history
<1>2. CASE ScheduleRetry(d)
  BY <1>2, FromLeasedType, ReturnType DEF ScheduleRetry
<1>3. CASE SaveDeadLetter(d)
  BY <1>3, GotoType DEF SaveDeadLetter, history, Steps
<1>4. CASE MarkDeadLettered(d)
  BY <1>4, MarkStoredType, ReturnType, Zenon DEF MarkDeadLettered, history
<1>5. CASE RequeueExpired(d)
  BY <1>5, FromLeasedType, ReturnType, Zenon DEF RequeueExpired
<1>6. CASE RequeueNacked(d)
  BY <1>6, FromLeasedType, ReturnType DEF RequeueNacked
<1> QED
  BY <1>1, <1>2, <1>3, <1>4, <1>5, <1>6, Zenon DEF StoreStep

(* claimBatch, Pull, and the snapshot of reclaim. *)
LEMMA QueueStepType ==
  ASSUME TypeOK, NEW S \in SUBSET Ids,
         \/ \E c \in Consumers : ClaimBatch(c, S)
         \/ Reclaim(S)
         \/ Pull(S)
  PROVE  TypeOK'
<1> USE StoreUnchanged DEF TypeOK
<1>1. ASSUME NEW c \in Consumers, ClaimBatch(c, S)
      PROVE  TypeOK'
  <2>1. StoreOK'
    BY <1>1, ClaimType, Zenon DEF ClaimBatch
  <2>2. ASSUME NEW m \in S
        PROVE  [by |-> c, id |-> m, attempt |-> attempts[m] + 1,
                pc |-> "held", lapsed |-> FALSE] \in Call
    BY DEF Call, Steps, StoreOK
  <2> QED
    BY <1>1, <2>1, <2>2, Zenon DEF ClaimBatch, history
<1>2. CASE Reclaim(S)
  <2>1. ASSUME NEW m \in S
        PROVE  [by |-> Reclaimer, id |-> m, attempt |-> attempts[m], lapsed |-> TRUE,
                pc |-> IF ShouldRetry(attempts[m]) THEN "release" ELSE "dead"] \in Call
    BY Zenon DEF Call, Steps, StoreOK
  <2> QED
    BY <1>2, <2>1, Zenon DEF Reclaim, history
<1>3. CASE Pull(S)
  BY <1>3, ClaimType, SpendType, Zenon DEF Pull, history, Env
<1> QED
  BY <1>1, <1>2, <1>3, Zenon

(* The reads that start Ack and Nack. *)
LEMMA RequestType ==
  ASSUME TypeOK, NEW k \in Clients, NEW m \in Ids,
         Ack(k, m) \/ \E requeue \in BOOLEAN : Nack(k, m, requeue)
  PROVE  TypeOK'
<1> USE StoreUnchanged DEF TypeOK
<1>1. ASSUME NEW pc \in Steps, Request(k, m, pc), succeeded' \subseteq Ids \X Nat
      PROVE  TypeOK'
  <2>1. [by |-> k, id |-> m, attempt |-> attempts[m], pc |-> pc, lapsed |-> FALSE] \in Call
    BY Zenon DEF Call, StoreOK
  <2> QED
    BY <1>1, <2>1, SpendType, Zenon DEF Request, Env
<1>2. CASE Ack(k, m)
  BY <1>2, <1>1 DEF Ack, Steps, StoreOK
<1>3. ASSUME NEW requeue \in BOOLEAN, Nack(k, m, requeue)
      PROVE  TypeOK'
  BY <1>3, <1>1, Zenon DEF Nack, Steps, AfterFailure
<1> QED
  BY <1>2, <1>3, Zenon

(* Publish, and the passing of time. *)
LEMMA MessageStepType ==
  ASSUME TypeOK, NEW m \in Ids, Publish(m) \/ BackoffElapses(m) \/ LeaseLapses(m)
  PROVE  TypeOK'
<1> USE DEF TypeOK
<1>1. CASE Publish(m)
  BY <1>1, Zenon DEF Publish, history, StoreOK, Leased, Stored, States
<1>2. CASE BackoffElapses(m)
  BY <1>2, Zenon DEF BackoffElapses, history, StoreOK, Leased
<1>3. CASE LeaseLapses(m)
  <2>1. StoreOK'
    BY <1>3, Zenon DEF LeaseLapses, StoreOK, Leased
  <2>2. calls' \subseteq Call
    BY <1>3, CallsType, Zenon DEF LeaseLapses, Steps
  <2> QED
    BY <1>3, <2>1, <2>2, Zenon DEF LeaseLapses, history
<1> QED
  BY <1>1, <1>2, <1>3, Zenon

(* Subscribing, stopping, failed store calls, Purge and crashes. *)
LEMMA EnvironmentType ==
  ASSUME TypeOK,
         \/ \E c \in Consumers : Subscribe(c) \/ Stop(c)
         \/ \E d \in calls : StoreFails(d)
         \/ Purge
         \/ Crash
  PROVE  TypeOK'
<1> USE StoreUnchanged, SpendType DEF TypeOK, Env
<1>1. ASSUME NEW c \in Consumers, Subscribe(c)
      PROVE  TypeOK'
  BY <1>1, Zenon DEF Subscribe, history
<1>2. ASSUME NEW c \in Consumers, Stop(c)
      PROVE  TypeOK'
  <2>1. calls' \subseteq Call
    BY <1>2, CallsType, Zenon DEF Stop, Steps
  <2> QED
    BY <1>2, <2>1, Zenon DEF Stop, history
<1>3. ASSUME NEW d \in calls, StoreFails(d)
      PROVE  TypeOK'
  BY <1>3, ReturnType, Zenon DEF StoreFails, history
<1>4. CASE Purge
  <2>1. StoreOK'
    BY <1>4, Zenon DEF Purge, StoreOK, Stored, Leased
  <2> QED
    BY <1>4, <2>1, Zenon DEF Purge, history
<1>5. CASE Crash
  BY <1>5, Zenon DEF Crash, history
<1> QED
  BY <1>1, <1>2, <1>3, <1>4, <1>5, Zenon

(* Every reachable state is well typed, and the store keeps its shape: a   *)
(* lease only on a PROCESSING message, a backoff only on a RETRYING one.   *)
THEOREM TypeCorrect == Spec => []TypeOK
<1>1. TypeOK /\ [Next]_vars => TypeOK'
  <2> SUFFICES ASSUME TypeOK, [Next]_vars PROVE TypeOK'
    BY Zenon
  <2>1. CASE UNCHANGED vars
    BY <2>1, StoreUnchanged, Zenon DEF TypeOK, vars, history
  <2>2. CASE Next
    BY <2>2, MessageStepType, EnvironmentType, QueueStepType, RequestType,
       ConsumerStepType, StoreStepType, Zenon DEF Next
  <2> QED
    BY <2>1, <2>2, Zenon
<1> QED
  BY <1>1, InitType, PTL DEF Spec
-----------------------------------------------------------------------------

Evidence ==
    \A d \in calls : /\ d.pc = "ack" => d.id \in Confirmed
                     /\ d.pc = "mark" => dead[d.id] > 0

SafeInv == NeverDropped /\ Evidence

(* A confirmation and a dead-letter record are never taken back. *)
LEMMA Kept ==
  ASSUME succeeded \subseteq succeeded'
  PROVE  Confirmed \subseteq Confirmed'
  BY Zenon DEF Confirmed

(* A delivery that confirms a message puts it in Confirmed. *)
LEMMA Counted ==
  ASSUME NEW m, NEW a, succeeded' = succeeded \cup {<<m, a>>}
  PROVE  m \in Confirmed' /\ Confirmed \subseteq Confirmed'
<1>1. <<m, a>> \in succeeded' /\ <<m, a>>[1] = m
  BY Zenon
<1> QED
  BY <1>1, Kept, Zenon DEF Confirmed

(* A worker's step moves no message out of the queue, and reaches "ack"    *)
(* only through a handler that returned nil.                               *)
LEMMA ConsumerStepSafe ==
  ASSUME TypeOK, SafeInv, NEW d \in calls, ConsumerStep(d)
  PROVE  SafeInv'
<1> USE DEF SafeInv
<1> d \in Call /\ d.id \in Ids /\ d.attempt \in Nat
  BY Zenon DEF TypeOK, Call
<1>1. ASSUME NEW pc \in {"buffered", "running", "retry", "dead"}, Goto(d, pc),
             UNCHANGED <<store, dead, history>>
      PROVE  SafeInv'
  BY <1>1, Zenon DEF Goto, store, history, NeverDropped, Evidence, Confirmed, TypeOK, Call
<1>2. CASE Submit(d)
  BY <1>2, <1>1, Zenon DEF Submit
<1>3. CASE StartHandler(d)
  BY <1>3, <1>1, Zenon DEF StartHandler
<1>4. ASSUME NEW permanent \in BOOLEAN, HandlerFails(d, permanent)
      PROVE  SafeInv'
  BY <1>4, <1>1, Zenon DEF HandlerFails, AfterFailure
<1>5. CASE HandlerSucceeds(d)
  <2>1. d.id \in Confirmed' /\ Confirmed \subseteq Confirmed'
    BY <1>5, Counted, Zenon DEF HandlerSucceeds
  <2> QED
    BY <1>5, <2>1, Zenon DEF HandlerSucceeds, Goto, store, NeverDropped, Evidence, TypeOK, Call
<1>6. CASE ReleaseUndispatched(d)
  <2>1. Confirmed' = Confirmed
    BY <1>6, Zenon DEF ReleaseUndispatched, Confirmed
  <2> QED
    BY <1>6, <2>1, Zenon DEF ReleaseUndispatched, FromLeased, Return, NeverDropped, Evidence,
       TypeOK, StoreOK
<1> QED
  BY <1>2, <1>3, <1>4, <1>5, <1>6, Zenon DEF ConsumerStep

(* A store call settles a message only with the evidence it carries. *)
LEMMA StoreStepSafe ==
  ASSUME TypeOK, SafeInv, NEW d \in calls, StoreStep(d)
  PROVE  SafeInv'
<1> USE DEF SafeInv, NeverDropped, Evidence, TypeOK, StoreOK
<1> d \in Call /\ d.id \in Ids /\ d.attempt \in Nat
  BY Zenon DEF Call
<1>1. CASE SaveDeadLetter(d)
  <2>1. Confirmed' = Confirmed
    BY <1>1, Zenon DEF SaveDeadLetter, history, Confirmed
  <2>2. /\ dead'[d.id] > 0
        /\ \A m \in Ids : dead[m] > 0 => dead'[m] > 0
    BY <1>1 DEF SaveDeadLetter
  <2> QED
    BY <1>1, <2>1, <2>2, Zenon DEF SaveDeadLetter, Goto, store, Call
<1>2. CASE ~SaveDeadLetter(d)
  <2>1. Confirmed' = Confirmed /\ dead' = dead /\ Return(d)
    BY <1>2, Zenon DEF StoreStep, Acknowledge, ScheduleRetry, MarkDeadLettered,
       RequeueExpired, RequeueNacked, history, Confirmed
  <2>2. Evidence'
    BY <2>1, Zenon DEF Return
  <2>3. CASE Acknowledge(d)
    BY <2>1, <2>2, <2>3, Zenon DEF Acknowledge, FromLeased
  <2>4. CASE MarkDeadLettered(d)
    BY <2>1, <2>2, <2>4, Zenon DEF MarkDeadLettered, MarkStored
  <2>5. ASSUME NEW next \in {"QUEUED", "RETRYING"}, FromLeased(d.id, next)
        PROVE  SafeInv'
    BY <2>1, <2>2, <2>5, Zenon DEF FromLeased
  <2> QED
    BY <1>2, <2>3, <2>4, <2>5, Zenon DEF StoreStep, ScheduleRetry, RequeueExpired, RequeueNacked
<1> QED
  BY <1>1, <1>2, Zenon

(* Claiming a batch, pulling one, and taking a snapshot of expired leases  *)
(* start calls that have settled nothing yet.                              *)
LEMMA QueueStepSafe ==
  ASSUME TypeOK, SafeInv, NEW S \in SUBSET Ids,
         \/ \E c \in Consumers : ClaimBatch(c, S)
         \/ Reclaim(S)
         \/ Pull(S)
  PROVE  SafeInv'
<1> USE DEF SafeInv, NeverDropped, Evidence, TypeOK, StoreOK
<1>1. Confirmed' = Confirmed /\ dead' = dead
  BY Zenon DEF ClaimBatch, Reclaim, Pull, history, Confirmed
<1>2. NeverDropped'
  BY <1>1, Zenon DEF ClaimBatch, Reclaim, Pull, Claim, store
<1>3. \A d \in calls' : d \in calls \/ d.pc \in {"held", "release", "dead"}
  BY DEF ClaimBatch, Reclaim, Pull
<1> QED
  BY <1>1, <1>2, <1>3, Zenon

(* A client's Ack is its confirmation; a Nack settles nothing by itself. *)
LEMMA RequestSafe ==
  ASSUME TypeOK, SafeInv, NEW k \in Clients, NEW m \in Ids,
         Ack(k, m) \/ \E requeue \in BOOLEAN : Nack(k, m, requeue)
  PROVE  SafeInv'
<1> USE DEF SafeInv, NeverDropped, Evidence, TypeOK, StoreOK, Request
<1>1. CASE Ack(k, m)
  <2>1. m \in Confirmed' /\ Confirmed \subseteq Confirmed'
    BY <1>1, Counted, Zenon DEF Ack
  <2> QED
    BY <1>1, <2>1 DEF Ack, store
<1>2. ASSUME NEW requeue \in BOOLEAN, Nack(k, m, requeue)
      PROVE  SafeInv'
  <2>1. Confirmed' = Confirmed
    BY <1>2, Zenon DEF Nack, Confirmed
  <2> QED
    BY <1>2, <2>1 DEF Nack, AfterFailure, store
<1> QED
  BY <1>1, <1>2, Zenon

(* Publishing and the passing of time. *)
LEMMA MessageStepSafe ==
  ASSUME TypeOK, SafeInv, NEW m \in Ids, Publish(m) \/ BackoffElapses(m) \/ LeaseLapses(m)
  PROVE  SafeInv'
<1> USE DEF SafeInv, NeverDropped, Evidence, TypeOK, StoreOK
<1>1. Confirmed' = Confirmed /\ dead' = dead
  BY Zenon DEF Publish, BackoffElapses, LeaseLapses, history, Confirmed
<1>2. NeverDropped'
  BY <1>1, Zenon DEF Publish, BackoffElapses, LeaseLapses
<1>3. \A d \in calls' : \E e \in calls : d.id = e.id /\ d.pc = e.pc
  BY DEF Publish, BackoffElapses, LeaseLapses, Call
<1> QED
  BY <1>1, <1>2, <1>3

(* Stops, purges, failed store calls and crashes give up calls, never      *)
(* evidence.                                                               *)
LEMMA EnvironmentSafe ==
  ASSUME TypeOK, SafeInv,
         \/ \E c \in Consumers : Subscribe(c) \/ Stop(c)
         \/ \E d \in calls : StoreFails(d)
         \/ Purge
         \/ Crash
  PROVE  SafeInv'
<1> USE DEF SafeInv, NeverDropped, Evidence, TypeOK, StoreOK
<1>1. Confirmed' = Confirmed /\ dead' = dead
  BY Zenon DEF Subscribe, Stop, StoreFails, Purge, Crash, history, Confirmed
<1>2. NeverDropped'
  BY <1>1, Zenon DEF Subscribe, Stop, StoreFails, Purge, Crash, store
<1>3. \A d \in calls' : d \in calls \/ d.pc = "cancelled"
  BY DEF Subscribe, Stop, StoreFails, Purge, Crash, Return, Call
<1> QED
  BY <1>1, <1>2, <1>3, Zenon

(* SafeInv is inductive, given TypeOK. *)
LEMMA SafeStep == TypeOK /\ SafeInv /\ [Next]_vars => SafeInv'
<1> SUFFICES ASSUME TypeOK, SafeInv, [Next]_vars PROVE SafeInv'
  BY Zenon
<1>1. CASE UNCHANGED vars
  BY <1>1, Zenon DEF vars, store, history, SafeInv, NeverDropped, Evidence, Confirmed
<1>2. CASE Next
  BY <1>2, MessageStepSafe, EnvironmentSafe, QueueStepSafe, RequestSafe,
     ConsumerStepSafe, StoreStepSafe, Zenon DEF Next
<1> QED
  BY <1>1, <1>2, Zenon

(* Nothing is published yet: there is nothing to drop. *)
LEMMA SafeInit == Init => SafeInv
  BY Zenon DEF Init, SafeInv, NeverDropped, Evidence

(* No message is ever dropped, for any number of messages, consumers,      *)
(* clients, crashes and failed store calls: whatever leaves the queue was  *)
(* confirmed or has a dead-letter record.                                  *)
THEOREM NothingDropped == Spec => []NeverDropped
<1>1. Spec => []SafeInv
  BY TypeCorrect, SafeInit, SafeStep, PTL DEF Spec
<1>2. SafeInv => NeverDropped
  BY Zenon DEF SafeInv
<1> QED
  BY <1>1, <1>2, PTL

-----------------------------------------------------------------------------
(* Refinement: every step is a step of AtLeastOnce or leaves it unchanged. *)

(* A store call takes a message back, completes it, parks it, or finds it  *)
(* in a state it may not touch and changes nothing.                        *)
LEMMA StoreStepRefines ==
  ASSUME TypeOK, SafeInv, NEW d \in calls,
         StoreStep(d) \/ ReleaseUndispatched(d)
  PROVE  [Queue!ANext]_Queue!avars
<1> USE DEF Queue!avars, Queue!ANext
<1> d \in Call /\ d.id \in Ids
  BY Zenon DEF TypeOK, Call
<1>1. CASE SaveDeadLetter(d)
  <2>1. {m \in Ids : dead'[m] > 0} = {m \in Ids : dead[m] > 0} \cup {d.id}
    BY <1>1 DEF SaveDeadLetter, TypeOK
  <2>2. Confirmed' = Confirmed
    BY <1>1, Zenon DEF SaveDeadLetter, history, Confirmed
  <2>3. Queue!Record(d.id)
    BY <1>1, <2>1, <2>2, Zenon DEF Queue!Record, SaveDeadLetter, store
  <2> QED
    BY <2>3, Zenon
<1>2. ASSUME NEW next \in {"QUEUED", "RETRYING", "ACKNOWLEDGED"}, FromLeased(d.id, next),
             UNCHANGED <<dead, succeeded>>,
             next = "ACKNOWLEDGED" => d.id \in Confirmed
      PROVE  [Queue!ANext]_Queue!avars
  <2>1. Confirmed' = Confirmed
    BY <1>2, Zenon DEF Confirmed
  <2>2. CASE Leased(d.id)
    <3>1. Queue!Move(d.id, "PROCESSING", next)
      BY <1>2, <2>1, <2>2, Zenon DEF Queue!Move, FromLeased, Leased
    <3> QED
      BY <1>2, <3>1, Zenon DEF Queue!TakeBack, Queue!Complete
  <2>3. CASE ~Leased(d.id)
    BY <1>2, <2>1, <2>3, Zenon DEF FromLeased, TypeOK, StoreOK
  <2> QED
    BY <2>2, <2>3, Zenon
<1>3. CASE MarkDeadLettered(d)
  <2>1. Confirmed' = Confirmed
    BY <1>3, Zenon DEF MarkDeadLettered, history, Confirmed
  <2>2. CASE Leased(d.id)
    <3>1. Queue!Move(d.id, "PROCESSING", "DEAD_LETTERED")
      BY <1>3, <2>1, <2>2, Zenon DEF Queue!Move, MarkDeadLettered, MarkStored, Leased,
         CanTransitionTo, Valid, Transitions
    <3> QED
      BY <1>3, <3>1, Zenon DEF Queue!Park, SafeInv, Evidence, MarkDeadLettered
  <2>3. CASE ~Leased(d.id)
    <3>1. state[d.id] # "FAILED"
      BY Zenon DEF SafeInv, NeverDropped
    <3>2. ~CanTransitionTo(state[d.id], "DEAD_LETTERED")
      BY <2>3, <3>1 DEF CanTransitionTo, Valid, Transitions, Leased
    <3>3. UNCHANGED <<state, attempts, dead>>
      BY <1>3, <2>3, <3>2, Zenon DEF MarkDeadLettered, MarkStored, TypeOK, StoreOK
    <3> QED
      BY <2>1, <3>3, Zenon
  <2> QED
    BY <2>2, <2>3, Zenon
<1>4. CASE Acknowledge(d)
  BY <1>4, <1>2, Zenon DEF Acknowledge, SafeInv, Evidence, history
<1>5. CASE ScheduleRetry(d)
  BY <1>5, <1>2, Zenon DEF ScheduleRetry
<1>6. CASE RequeueExpired(d)
  BY <1>6, <1>2, Zenon DEF RequeueExpired
<1>7. CASE RequeueNacked(d)
  BY <1>7, <1>2, Zenon DEF RequeueNacked
<1>8. CASE ReleaseUndispatched(d)
  BY <1>8, <1>2, Zenon DEF ReleaseUndispatched
<1> QED
  BY <1>1, <1>3, <1>4, <1>5, <1>6, <1>7, <1>8, Zenon DEF StoreStep

(* Handing out, confirming, enqueuing and discarding. *)
LEMMA OtherStepRefines ==
  ASSUME TypeOK, SafeInv, Next,
         ~\E d \in calls : StoreStep(d) \/ ReleaseUndispatched(d)
  PROVE  [Queue!ANext]_Queue!avars
<1> USE DEF Queue!avars, Queue!ANext
<1>1. CASE UNCHANGED <<state, attempts, dead, succeeded>>
  BY <1>1, Zenon DEF Confirmed
<1>2. ASSUME NEW m \in Ids, Publish(m)
      PROVE  Queue!Enqueue(m)
  BY <1>2, Zenon DEF Publish, history, Confirmed, Queue!Enqueue, Queue!Move
<1>3. ASSUME NEW S \in SUBSET Ids, NEW limit, Claim(S, limit), UNCHANGED <<dead, succeeded>>
      PROVE  Queue!HandOut(S)
  BY <1>3, Zenon DEF Claim, Claimable, Confirmed, Queue!HandOut, Queue!Waiting
<1>4. ASSUME NEW m \in Ids, NEW a, succeeded' = succeeded \cup {<<m, a>>},
             UNCHANGED <<store, dead>>
      PROVE  Queue!Confirm(m)
  <2>1. \A x \in succeeded' : x \in succeeded \/ x[1] = m
    BY <1>4
  <2>2. Confirmed' \subseteq Confirmed \cup {m}
    BY <2>1, Zenon DEF Confirmed
  <2>3. Confirmed' = Confirmed \cup {m}
    BY <1>4, <2>2, Counted, Zenon
  <2> QED
    BY <1>4, <2>3, Zenon DEF store, Queue!Confirm
<1>5. CASE Purge
  <2>1. \A m \in Ids : Terminal(state[m]) <=> ~(Queue!Waiting(m) \/ state[m] = "PROCESSING")
    <3>1. \A m \in Ids : state[m] \in Stored \ {"CREATED", "FAILED"}
      BY Zenon DEF TypeOK, StoreOK, SafeInv, NeverDropped
    <3>2. \A s \in Stored \ {"CREATED", "FAILED"} :
            Terminal(s) <=> s \notin {"QUEUED", "RETRYING", "PROCESSING"}
      BY DEF Terminal, Valid, Transitions, Stored, States
    <3> QED
      BY <3>1, <3>2, Zenon DEF Queue!Waiting
  <2>2. Queue!Discard
    BY <1>5, <2>1, Zenon DEF Purge, history, Confirmed, Queue!Discard
  <2> QED
    BY <2>2, Zenon
<1>6. ASSUME NEW d \in calls, HandlerSucceeds(d)
      PROVE  Queue!Confirm(d.id) /\ d.id \in Ids
  BY <1>6, <1>4, Zenon DEF HandlerSucceeds, TypeOK, Call
<1>7. ASSUME NEW k \in Clients, NEW m \in Ids, Ack(k, m)
      PROVE  Queue!Confirm(m)
  BY <1>7, <1>4, Zenon DEF Ack, Request
<1>8. ASSUME NEW S \in SUBSET Ids, Pull(S) \/ \E c \in Consumers : ClaimBatch(c, S)
      PROVE  Queue!HandOut(S)
  BY <1>8, <1>3, Zenon DEF Pull, ClaimBatch, history
<1> QED
  BY <1>1, <1>2, <1>5, <1>6, <1>7, <1>8, Zenon
     DEF Next, ConsumerStep, BackoffElapses, LeaseLapses, Subscribe, Stop, Reclaim, Nack,
         Request, Submit, StartHandler, HandlerFails, StoreFails, Crash, store, history

(* The broker implements the atomic at-least-once queue. *)
THEOREM ImplementsQueue == Spec => QueueSpec
<1>1. Init => Queue!AInit
  BY DEF Init, Queue!AInit, Confirmed
<1>2. TypeOK /\ SafeInv /\ [Next]_vars => [Queue!ANext]_Queue!avars
  <2> SUFFICES ASSUME TypeOK, SafeInv, [Next]_vars PROVE [Queue!ANext]_Queue!avars
    BY Zenon
  <2>1. CASE UNCHANGED vars
    BY <2>1, Zenon DEF vars, store, history, Queue!avars, Confirmed
  <2>2. CASE Next
    BY <2>2, StoreStepRefines, OtherStepRefines, Zenon
  <2> QED
    BY <2>1, <2>2, Zenon
<1>3. Spec => []SafeInv
  BY TypeCorrect, SafeInit, SafeStep, PTL DEF Spec
<1> QED
  BY <1>1, <1>2, <1>3, TypeCorrect, PTL DEF Spec, QueueSpec, Queue!ASpec
=============================================================================
