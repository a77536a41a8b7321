------------------------------ MODULE Delivery ------------------------------
(***************************************************************************)
(* The delivery engine (internal/engine) over one queue of a durable       *)
(* store.  The store changes in atomic steps (a mutex in the memory store, *)
(* a transaction in SQLite); everything between two store calls is         *)
(* interleaved: the dispatch loops, the workers of their pools, the HTTP   *)
(* clients, the lease-reclaim loop, and crashes.                           *)
(*                                                                         *)
(* An engine call in progress is a record in `calls`: who runs it, the     *)
(* message and the attempt number it was started with (a snapshot, never   *)
(* read again from the store) and, in `pc`, the step it does next:         *)
(*                                                                         *)
(*   held       claimed by the dispatch loop, blocked in pool.Submit       *)
(*   cancelled  the same, after the consumer's context was cancelled       *)
(*   buffered   in the pool's task channel                                 *)
(*   running    the handler runs in a worker                               *)
(*   ack, retry, dead, mark, release, requeue   the store call that is     *)
(*              about to be made                                           *)
(***************************************************************************)
EXTENDS Naturals, FiniteSets, MessageState

CONSTANTS
    Ids,            \* message identifiers (message.New never repeats one)
    Consumers,      \* Subscribe() instances of in-process consumers
    Clients,        \* HTTP clients that pull, ack and nack
    Reclaimer,      \* the lease-reclaim goroutine
    MaxAttempts,    \* retry.Policy.MaxAttempts
    Prefetch,       \* ConsumerSpec.Prefetch: claim limit and channel capacity
    Concurrency,    \* ConsumerSpec.Concurrency: workers of a pool
    PullLimit,      \* PullRequest.Limit
    ReclaimBatch,   \* reclaimBatchSize
    OutliveLease,   \* may a delivery still be in progress when its lease ends?
    Bound           \* how often each event of Env may happen

Env == {"crash", "fault", "client", "stop", "purge"}

ASSUME ConstantsAssumption ==
    /\ MaxAttempts \in Nat \ {0}
    /\ Prefetch \in Nat \ {0}
    /\ Concurrency \in Nat \ {0}
    /\ PullLimit \in Nat \ {0}
    /\ ReclaimBatch \in Nat \ {0}
    /\ OutliveLease \in BOOLEAN
    /\ Bound \in [Env -> Nat]

ASSUME ActorsAssumption ==
    /\ Consumers \cap Clients = {}
    /\ Reclaimer \notin Consumers \cup Clients

VARIABLES
    state,      \* message -> lifecycle state, "NONE" or "PURGED"
    attempts,   \* message -> Attempts column: how often it was claimed
    due,        \* RETRYING messages whose AvailableAt has passed
    lapsed,     \* PROCESSING messages whose lease has run out
    dead,       \* message -> number of dead-letter records saved for it
    active,     \* consumers whose dispatch loop runs
    calls,      \* engine calls in progress
    left,       \* how many events of each kind of Env may still happen
    succeeded,  \* history: deliveries <<m, a>> confirmed by a handler or client
    retried,    \* history: message -> attempts whose failure scheduled a retry
    reclaimed,  \* history: message -> attempts whose expiry requeued it
    freed       \* history: message -> requeues outside the retry policy

store   == <<state, attempts, due, lapsed>>
history == <<succeeded, retried, reclaimed, freed>>
vars    == <<store, dead, active, calls, left, history>>

Stored == States \cup {"NONE", "PURGED"}
Steps  == {"held", "cancelled", "buffered", "running",
           "ack", "retry", "dead", "mark", "release", "requeue"}
Call   == [by : Consumers \cup Clients \cup {Reclaimer}, id : Ids,
           attempt : Nat, pc : Steps, lapsed : BOOLEAN]

-----------------------------------------------------------------------------
(* The store: what each operation of storage.Store does to a message.      *)

Leased(m) == state[m] = "PROCESSING"

Claimable ==
    {m \in Ids : state[m] = "QUEUED" \/ (state[m] = "RETRYING" /\ m \in due)}

(* Claim.  The memory store claims in insertion order and SQLite by        *)
(* availability, and both with a clock read before the lock is taken: any  *)
(* non-empty set of claimable messages within the limit may be returned.   *)
Claim(S, limit) ==
    /\ S \subseteq Claimable /\ S # {} /\ Cardinality(S) <= limit
    /\ state' = [m \in Ids |-> IF m \in S THEN "PROCESSING" ELSE state[m]]
    /\ attempts' = [m \in Ids |-> attempts[m] + IF m \in S THEN 1 ELSE 0]
    /\ due' = due \ S
    /\ lapsed' = lapsed \ S

(* Mutant: the lease column is not cleared. *)
FromLeasedKeepingLease(m, next) ==
    /\ state' = [state EXCEPT ![m] = IF Leased(m) THEN next ELSE @]
    /\ UNCHANGED <<attempts, due, lapsed>>

(* The operations that need a lease: Acknowledge, ScheduleRetry, Release.  *)
(* The lease is cleared; on any other state the store returns an error and *)
(* changes nothing.  Neither the owner nor the expiry is compared.         *)
FromLeased(m, next) ==
    /\ state' = [state EXCEPT ![m] = IF Leased(m) THEN next ELSE @]
    /\ lapsed' = lapsed \ {m}
    /\ UNCHANGED <<attempts, due>>

(* Mutant: the current state is not consulted. *)
MarkStoredAlways(m) ==
    /\ state' = [state EXCEPT ![m] = IF Valid(@) THEN "DEAD_LETTERED" ELSE @]
    /\ lapsed' = lapsed \ {m}
    /\ UNCHANGED <<attempts, due>>

(* Mutant: PROCESSING is not first moved to FAILED, so the table refuses. *)
MarkStoredDirectly(m) ==
    /\ state' = [state EXCEPT ![m] = IF CanTransitionTo(@, "DEAD_LETTERED")
                                     THEN "DEAD_LETTERED" ELSE @]
    /\ UNCHANGED <<attempts, due, lapsed>>

(* MarkDeadLettered looks at the transition table only.                    *)
MarkStored(m) ==
    LET from == IF Leased(m) THEN "FAILED" ELSE state[m]
    IN  /\ state' = [state EXCEPT ![m] =
                        IF CanTransitionTo(from, "DEAD_LETTERED")
                        THEN "DEAD_LETTERED" ELSE @]
        /\ lapsed' = lapsed \ {m}
        /\ UNCHANGED <<attempts, due>>

(* Mutant: one attempt too many. *)
ShouldRetryOnceMore(attempt) == attempt <= MaxAttempts

(* Policy.ShouldRetry. *)
ShouldRetry(attempt) == attempt < MaxAttempts

-----------------------------------------------------------------------------
(* Calls in progress. *)

CallsOf(p) == {d \in calls : d.by = p}
CallsAt(p, pcs) == {d \in CallsOf(p) : d.pc \in pcs}

Deliveries == {d \in calls : d.by \in Consumers}

Goto(d, pc) == calls' = (calls \ {d}) \cup {[d EXCEPT !.pc = pc]}
Return(d) == calls' = calls \ {d}

Spend(event) ==
    /\ left[event] > 0
    /\ left' = [left EXCEPT ![event] = @ - 1]

(* The reclaim loop handles its snapshot one message at a time. *)
InTurn(d) == d.by = Reclaimer => CallsAt(Reclaimer, {"mark"}) \subseteq {d}

AfterFailure(attempt) == IF ShouldRetry(attempt) THEN "retry" ELSE "dead"

Init ==
    /\ state = [m \in Ids |-> "NONE"]
    /\ attempts = [m \in Ids |-> 0]
    /\ due = {} /\ lapsed = {}
    /\ dead = [m \in Ids |-> 0]
    /\ active = {} /\ calls = {}
    /\ left = Bound
    /\ succeeded = {}
    /\ retried = [m \in Ids |-> {}]
    /\ reclaimed = [m \in Ids |-> {}]
    /\ freed = [m \in Ids |-> 0]

-----------------------------------------------------------------------------
(* In-process consumers: dispatch loop, worker pool, completion. *)

(* Publish, for a publication routed to this queue: the message is stored  *)
(* as QUEUED and available at once.                                        *)
Publish(m) ==
    /\ state[m] = "NONE"
    /\ state' = [state EXCEPT ![m] = "QUEUED"]
    /\ UNCHANGED <<attempts, due, lapsed, dead, active, calls, left, history>>

(* Subscribe.  A consumer that was stopped is another instance once its    *)
(* pool has drained.                                                       *)
Subscribe(c) ==
    /\ c \notin active /\ CallsOf(c) = {}
    /\ active' = active \cup {c}
    /\ UNCHANGED <<store, dead, calls, left, history>>

(* One round of the dispatch loop: it claims a batch only when the batch   *)
(* before has been handed to the pool.                                     *)
ClaimBatch(c, S) ==
    /\ c \in active /\ CallsAt(c, {"held"}) = {}
    /\ Claim(S, Prefetch)
    /\ calls' = calls \cup {[by |-> c, id |-> m, attempt |-> attempts[m] + 1,
                             pc |-> "held", lapsed |-> FALSE] : m \in S}
    /\ UNCHANGED <<dead, active, left, history>>

(* pool.Submit: blocks while the task channel is full.  Once the context   *)
(* is cancelled its select may still choose the channel.                   *)
Submit(d) ==
    /\ d.pc \in {"held", "cancelled"}
    /\ Cardinality(CallsAt(d.by, {"buffered"})) < Prefetch
    /\ Goto(d, "buffered")
    /\ UNCHANGED <<store, dead, active, left, history>>

(* Stop (Unsubscribe, Shutdown): the dispatch loop's context is cancelled; *)
(* the tasks already submitted are drained by the workers.                 *)
Stop(c) ==
    /\ c \in active /\ Spend("stop")
    /\ active' = active \ {c}
    /\ calls' = {IF d.by = c /\ d.pc = "held"
                  THEN [d EXCEPT !.pc = "cancelled"] ELSE d : d \in calls}
    /\ UNCHANGED <<store, dead, history>>

(* releaseUndispatched: Submit saw the cancelled context. *)
ReleaseUndispatched(d) ==
    /\ d.pc = "cancelled"
    /\ FromLeased(d.id, "QUEUED")
    /\ freed' = [freed EXCEPT ![d.id] = @ + IF Leased(d.id) THEN 1 ELSE 0]
    /\ Return(d)
    /\ UNCHANGED <<dead, active, left, succeeded, retried, reclaimed>>

Working(c) == CallsAt(c, {"running", "ack", "retry", "dead", "mark"})

(* A worker takes the task and starts the handler; the lease is not looked *)
(* at again.                                                               *)
StartHandler(d) ==
    /\ d.pc = "buffered"
    /\ Cardinality(Working(d.by)) < Concurrency
    /\ Goto(d, "running")
    /\ UNCHANGED <<store, dead, active, left, history>>

(* process: the handler returned nil, an error, or a permanent error. *)
HandlerSucceeds(d) ==
    /\ d.pc = "running"
    /\ Goto(d, "ack")
    /\ succeeded' = succeeded \cup {<<d.id, d.attempt>>}
    /\ UNCHANGED <<store, dead, active, left, retried, reclaimed, freed>>

HandlerFails(d, permanent) ==
    /\ d.pc = "running"
    /\ Goto(d, IF permanent THEN "dead" ELSE AfterFailure(d.attempt))
    /\ UNCHANGED <<store, dead, active, left, history>>

(* acknowledge, and the second half of Ack. *)
Acknowledge(d) ==
    /\ d.pc = "ack"
    /\ FromLeased(d.id, "ACKNOWLEDGED")
    /\ Return(d)
    /\ UNCHANGED <<dead, active, left, history>>

(* fail, retryable: the retry is scheduled under the attempt number of the *)
(* delivery, whatever the message's own counter is by now.                 *)
ScheduleRetry(d) ==
    /\ d.pc = "retry"
    /\ FromLeased(d.id, "RETRYING")
    /\ retried' = [retried EXCEPT ![d.id] =
                      IF Leased(d.id) /\ d.by \in Consumers
                      THEN @ \cup {d.attempt} ELSE @]
    /\ freed' = [freed EXCEPT ![d.id] =
                      @ + IF Leased(d.id) /\ d.by \in Clients THEN 1 ELSE 0]
    /\ Return(d)
    /\ UNCHANGED <<dead, active, left, succeeded, reclaimed>>

(* deadLetter: the record is saved first, the message is marked second. *)
SaveDeadLetter(d) ==
    /\ d.pc = "dead" /\ InTurn(d)
    /\ dead' = [dead EXCEPT ![d.id] = @ + 1]
    /\ Goto(d, "mark")
    /\ UNCHANGED <<store, active, left, history>>

MarkDeadLettered(d) ==
    /\ d.pc = "mark"
    /\ MarkStored(d.id)
    /\ Return(d)
    /\ UNCHANGED <<dead, active, left, history>>

-----------------------------------------------------------------------------
(* The reclaim loop. *)

(* Mutant: the expiry time is not compared. *)
ExpiredAnyLease == {m \in Ids : Leased(m)}

(* Mutant: exhausted messages are left to their consumer. *)
ExpiredRetryable == {m \in lapsed : Leased(m) /\ ShouldRetry(attempts[m])}

(* ExpiredLeases. *)
Expired == {m \in lapsed : Leased(m)}

(* A snapshot of expired messages with their attempts is taken.  The loop  *)
(* decides for each from the snapshot and acts on it later.                *)
Reclaim(S) ==
    /\ CallsOf(Reclaimer) = {}
    /\ S \subseteq Expired /\ S # {}
    /\ IF Cardinality(Expired) <= ReclaimBatch
       THEN S = Expired ELSE Cardinality(S) = ReclaimBatch
    /\ calls' = calls \cup
         {[by |-> Reclaimer, id |-> m, attempt |-> attempts[m], lapsed |-> TRUE,
           pc |-> IF ShouldRetry(attempts[m]) THEN "release" ELSE "dead"] : m \in S}
    /\ UNCHANGED <<store, dead, active, left, history>>

RequeueExpired(d) ==
    /\ d.pc = "release" /\ InTurn(d)
    /\ FromLeased(d.id, "QUEUED")
    /\ reclaimed' = [reclaimed EXCEPT ![d.id] =
                        IF Leased(d.id) THEN @ \cup {d.attempt} ELSE @]
    /\ Return(d)
    /\ UNCHANGED <<dead, active, left, succeeded, retried, freed>>

-----------------------------------------------------------------------------
(* HTTP clients.  They may ack or nack any message they know the id of, at *)
(* any time and more than once.                                            *)

Pull(S) ==
    /\ Clients # {} /\ Spend("client")
    /\ Claim(S, PullLimit)
    /\ UNCHANGED <<dead, active, calls, history>>

(* The first half of Ack and of Nack: the message is read from the store,  *)
(* an unknown one is refused.                                              *)
Request(k, m, pc) ==
    /\ CallsOf(k) = {} /\ Spend("client")
    /\ state[m] \notin {"NONE", "PURGED"}
    /\ calls' = calls \cup {[by |-> k, id |-> m, attempt |-> attempts[m],
                             pc |-> pc, lapsed |-> FALSE]}
    /\ UNCHANGED <<store, dead, active, retried, reclaimed, freed>>

Ack(k, m) ==
    /\ Request(k, m, "ack")
    /\ succeeded' = succeeded \cup {<<m, attempts[m]>>}

Nack(k, m, requeue) ==
    /\ Request(k, m, IF requeue THEN "requeue" ELSE AfterFailure(attempts[m]))
    /\ UNCHANGED succeeded

(* Mutant: the message's state is not checked. *)
RequeueNackedAny(d) ==
    /\ d.pc = "requeue"
    /\ state' = [state EXCEPT ![d.id] = "QUEUED"]
    /\ lapsed' = lapsed \ {d.id}
    /\ due' = due \ {d.id}
    /\ Return(d)
    /\ UNCHANGED <<attempts, dead, active, left, history>>

(* The second half of Nack with requeue: the retry policy has no say. *)
RequeueNacked(d) ==
    /\ d.pc = "requeue"
    /\ FromLeased(d.id, "QUEUED")
    /\ freed' = [freed EXCEPT ![d.id] = @ + IF Leased(d.id) THEN 1 ELSE 0]
    /\ Return(d)
    /\ UNCHANGED <<dead, active, left, succeeded, retried, reclaimed>>

(* Purge deletes every message that is not terminal, leased ones included. *)
Purge ==
    /\ Spend("purge")
    /\ state' = [m \in Ids |-> IF Terminal(state[m]) THEN state[m] ELSE "PURGED"]
    /\ due' = {} /\ lapsed' = {}
    /\ UNCHANGED <<attempts, dead, active, calls, history>>

-----------------------------------------------------------------------------
(* The environment: time, failing store calls, crashes. *)

BackoffElapses(m) ==
    /\ state[m] = "RETRYING" /\ m \notin due
    /\ due' = due \cup {m}
    /\ UNCHANGED <<state, attempts, lapsed, dead, active, calls, left, history>>

Current(d) == d.by \in Consumers /\ d.attempt = attempts[d.id]

LeaseLapses(m) ==
    /\ Leased(m) /\ m \notin lapsed
    /\ OutliveLease \/ ~\E d \in calls : d.id = m /\ Current(d)
    /\ lapsed' = lapsed \cup {m}
    /\ calls' = {IF d.id = m /\ Current(d)
                 THEN [d EXCEPT !.lapsed = TRUE] ELSE d : d \in calls}
    /\ UNCHANGED <<state, attempts, due, dead, active, left, history>>

(* Mutant: an error of SaveDeadLetter is logged and the message is marked *)
(* all the same.                                                           *)
StoreFailsUnnoticed(d) ==
    /\ d.pc = "dead" /\ InTurn(d) /\ Spend("fault")
    /\ Goto(d, "mark")
    /\ UNCHANGED <<store, dead, active, history>>

(* A store call returns an error: it is logged and the call is over.  A    *)
(* deadLetter that fails in its second half leaves its record behind.      *)
StoreFails(d) ==
    /\ d.pc \in {"cancelled", "ack", "retry", "dead", "mark", "release", "requeue"}
    /\ InTurn(d) /\ Spend("fault")
    /\ Return(d)
    /\ UNCHANGED <<store, dead, active, history>>

(* The process dies and is started again: the store is all that is left.   *)
Crash ==
    /\ Spend("crash")
    /\ calls' = {} /\ active' = {}
    /\ UNCHANGED <<store, dead, history>>

-----------------------------------------------------------------------------
ConsumerStep(d) ==
    \/ Submit(d) \/ ReleaseUndispatched(d) \/ StartHandler(d)
    \/ HandlerSucceeds(d) \/ \E permanent \in BOOLEAN : HandlerFails(d, permanent)

StoreStep(d) ==
    \/ Acknowledge(d) \/ ScheduleRetry(d) \/ SaveDeadLetter(d)
    \/ MarkDeadLettered(d) \/ RequeueExpired(d) \/ RequeueNacked(d)

Next ==
    \/ \E m \in Ids : Publish(m) \/ BackoffElapses(m) \/ LeaseLapses(m)
    \/ \E c \in Consumers : Subscribe(c) \/ Stop(c)
    \/ \E S \in SUBSET Ids : \/ \E c \in Consumers : ClaimBatch(c, S)
                             \/ Reclaim(S)
                             \/ Pull(S)
    \/ \E k \in Clients, m \in Ids :
          Ack(k, m) \/ \E requeue \in BOOLEAN : Nack(k, m, requeue)
    \/ \E d \in calls : ConsumerStep(d) \/ StoreStep(d) \/ StoreFails(d)
    \/ Purge
    \/ Crash

Spec == Init /\ [][Next]_vars

(* The schedulers that keep running: the dispatch loops (their idle timer  *)
(* polls every 250 ms), the workers and handlers (a handler's context ends *)
(* after ProcessingTimeout), the reclaim ticker, and time itself.          *)
Fairness ==
    /\ \A m \in Ids : WF_vars(BackoffElapses(m)) /\ WF_vars(LeaseLapses(m))
    /\ \A c \in Consumers : WF_vars(\E S \in SUBSET Ids : ClaimBatch(c, S))
    /\ WF_vars(\E S \in SUBSET Ids : Reclaim(S))
    /\ WF_vars(\E d \in calls : ConsumerStep(d) \/ StoreStep(d))

LiveSpec == Spec /\ Fairness
-----------------------------------------------------------------------------
(* Properties. *)

StoreOK ==
    /\ state \in [Ids -> Stored]
    /\ attempts \in [Ids -> Nat]
    /\ due \subseteq {m \in Ids : state[m] = "RETRYING"}
    /\ lapsed \subseteq {m \in Ids : Leased(m)}

(* The values the variables may take; in the store a lease is set only     *)
(* while the message is PROCESSING and a backoff only while RETRYING.      *)
TypeOK ==
    /\ StoreOK
    /\ dead \in [Ids -> Nat]
    /\ active \subseteq Consumers
    /\ calls \subseteq Call
    /\ left \in [Env -> Nat]
    /\ succeeded \subseteq Ids \X Nat
    /\ retried \in [Ids -> SUBSET Nat]
    /\ reclaimed \in [Ids -> SUBSET Nat]
    /\ freed \in [Ids -> Nat]

Confirmed == {x[1] : x \in succeeded}

(* A message is never dropped (deadletter.go: the record is saved before   *)
(* the message is marked): an acknowledged message was confirmed by a      *)
(* handler or a client, a dead-lettered one has a dead-letter record, and  *)
(* FAILED is never left in the store, so every other published message is  *)
(* waiting or leased.                                                      *)
NeverDropped ==
    \A m \in Ids :
        /\ state[m] = "ACKNOWLEDGED" => m \in Confirmed
        /\ state[m] = "DEAD_LETTERED" => dead[m] > 0
        /\ state[m] \notin {"CREATED", "FAILED"}

(* The retry policy ends (policy.go ShouldRetry): handler failures and     *)
(* lease expiries alone claim a message at most 2 * MaxAttempts - 1 times, *)
(* for each attempt below the limit may return the message twice, once by  *)
(* its own failure and once by the reclaim loop; every further claim is    *)
(* paid for by a requeue outside the policy.                               *)
AttemptsBounded ==
    \A m \in Ids : attempts[m] <= 2 * MaxAttempts - 1 + freed[m]

(* With handlers that finish before their lease ends, a message is in one  *)
(* consumer's hands at a time: a delivery in progress is the only one of   *)
(* its message, under its latest claim (architecture.md, "While the lease  *)
(* holds, no other consumer can claim the message").                       *)
OneHolder ==
    \A d \in Deliveries :
        /\ Leased(d.id) \/ state[d.id] = "PURGED"
        /\ Current(d)
        /\ \A e \in Deliveries : e.id = d.id => e = d

Used(event) == Bound[event] - left[event]

(* ... the retry policy is exact: it never claims a message more than      *)
(* MaxAttempts times.                                                      *)
PolicyExact == \A m \in Ids : attempts[m] <= MaxAttempts + freed[m]

(* ... and nothing happens twice but across a crash or a failed store      *)
(* call: a handler succeeds once for a message, and one more time at most  *)
(* for each that came between its return and Acknowledge; a dead-lettered  *)
(* message has one record, and one more at most for each that came between *)
(* SaveDeadLetter and MarkDeadLettered.                                    *)
DuplicatesExplained ==
    \A m \in Ids :
        LET settling == \/ state[m] \in {"DEAD_LETTERED", "PURGED"}
                        \/ \E d \in calls : d.id = m /\ d.pc = "mark"
            excuses  == Used("crash") + Used("fault")
        IN  /\ Cardinality({x \in succeeded : x[1] = m}) <= 1 + excuses
            /\ dead[m] <= excuses + IF settling THEN 1 ELSE 0

(* Every published message is settled in the end, as long as a consumer    *)
(* stays subscribed: no interleaving of dispatch, failure, expiry, reclaim *)
(* and crash leaves it waiting or leased for ever.                         *)
EventuallySettled ==
    <>[](active # {}) =>
        \A m \in Ids : state[m] = "QUEUED" ~>
                          state[m] \in {"ACKNOWLEDGED", "DEAD_LETTERED", "PURGED"}

(* architecture.md on the visibility lease: "While the lease holds, no     *)
(* other consumer can claim the message" - two consumers never work on the *)
(* same message under leases that have not run out.                        *)
LeaseExclusive ==
    \A d, e \in Deliveries :
        d.id = e.id /\ ~d.lapsed /\ ~e.lapsed => d.by = e.by

(* The broker implements the atomic at-least-once queue. *)
Queue == INSTANCE AtLeastOnce WITH
            confirmed <- Confirmed,
            recorded  <- {m \in Ids : dead[m] > 0}

QueueSpec == Queue!ASpec
=============================================================================
