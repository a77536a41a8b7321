----------------------------- MODULE DeadLetters -----------------------------
(***************************************************************************)
(* Publishing with validation, the dead-letter store and the message       *)
(* history: POST /messages, POST /dead-letter/{id}/retry and DELETE        *)
(* /dead-letter/{id}, between the deliveries that fail and the reclaim     *)
(* loop that write dead letters.  A request and a delivery make several    *)
(* store calls, each a step of its own; any of them may fail, and the      *)
(* process may be killed between two of them.                              *)
(***************************************************************************)
EXTENDS Naturals, Sequences, FiniteSets, FiniteSetsExt

CONSTANTS
    Queues,
    Pubs,           \* publications
    Routes,         \* publication -> the queues its bindings name, each once, in order
    Schemas,        \* the schemas the registry holds
    NoSchema,
    SchemaOf,       \* publication or queue -> the schema it names, or NoSchema
    Conforming,     \* <<schema, publication>>: the payload satisfies the schema
    Callers,        \* HTTP requests, each sent once
    MaxAttempts,    \* of the retry policy
    Bound,          \* how often a run may see each of Env
    Budget          \* and how many of them and requests in all

Env == {"crash", "fault", "expiry", "delete", "delivery"}

ASSUME DeadLettersAssumption ==
    /\ Routes \in [Pubs -> Seq(Queues)] /\ \A p \in Pubs : IsInjective(Routes[p])
    /\ Callers \cap {"worker", "reclaimer"} = {}
    /\ NoSchema \notin Schemas
    /\ Conforming \subseteq Schemas \X Pubs
    /\ MaxAttempts \in Nat \ {0}
    /\ Bound \in [Env -> Nat] /\ Budget \in Nat

VARIABLES
    declared,   \* the registered queues
    msgs,       \* the table messages: [queue, pub, by, state, attempts, replayOf, live],
                \*   the number of a row being its id; a deleted row is not live
    letters,    \* the table dead_letters, likewise
    events,     \* message id -> its rows of message_history, in order
    calls,      \* requests, deliveries and the reclaim loop between two store calls
    replies,    \* request -> how it was answered
    failed,     \* history: message id -> how often a delivery of it failed
    overtaken,  \* history: messages delivered again before history had caught up
    spent       \* how much of Bound is used

tables == <<msgs, letters, events>>
ghosts == <<failed, overtaken>>
vars   == <<declared, tables, calls, replies, ghosts, spent>>

Idle == [status |-> 0, op |-> "none", on |-> 0]

Init ==
    /\ declared = Queues
    /\ msgs = <<>> /\ letters = <<>> /\ events = <<>>
    /\ calls = {} /\ replies = [c \in Callers |-> Idle]
    /\ failed = <<>> /\ overtaken = {}
    /\ spent = [e \in Env |-> 0]

Waiting(a) == \E c \in calls : c.by = a

WithinBudget ==
    MapThenSumSet(LAMBDA e : spent[e], Env)
      + Cardinality({a \in Callers : replies[a] # Idle \/ Waiting(a)}) < Budget

Spend(e) ==
    /\ spent[e] < Bound[e] /\ WithinBudget
    /\ spent' = [spent EXCEPT ![e] = @ + 1]

(* A store call succeeds, or returns an error and changes nothing. *)
Works == UNCHANGED spent
Fails == Spend("fault")
-----------------------------------------------------------------------------
(* Calls in progress. *)

Call(by, op, on, pc) ==
    [by |-> by, op |-> op, on |-> on, pc |-> pc, queues |-> <<>>, due |-> <<>>,
     status |-> 0, attempt |-> 0, kind |-> "", at |-> 0, first |-> 0]

Event(m, to, at) == [msg |-> m, to |-> to, at |-> at]

Over(c) == c.pc = "end" /\ c.due = <<>>

Answer(c) == [status |-> c.status, op |-> c.op, on |-> c.on]

(* The call c goes on as d; a request that is over is answered. *)
Continue(c, d) ==
    /\ calls' = (calls \ {c}) \cup (IF Over(d) THEN {} ELSE {d})
    /\ replies' = IF Over(d) /\ d.by \in Callers
                  THEN [replies EXCEPT ![d.by] = Answer(d)] ELSE replies

At(c, pc) == c \in calls /\ c.pc = pc /\ c.due = <<>>

End(c)          == [c EXCEPT !.pc = "end"]
Ends(c, status) == [c EXCEPT !.pc = "end", !.status = status]

MayStart(a) == replies[a] = Idle /\ ~Waiting(a) /\ WithinBudget

(* classify: the HTTP status of what an engine call returns. *)
StatusOf == [unroutable |-> 422, rejected |-> 422, missing |-> 404, failed |-> 500]

(* A request that is answered after at most one store call. *)
Reply(a, op, on, status) ==
    replies' = [replies EXCEPT ![a] = [status |-> status, op |-> op, on |-> on]]

(* The elements of s that are in S, in their order.                        *)
Kept(s, S) ==
    LET kept[i \in 0 .. Len(s)] ==
          IF i = 0 THEN <<>>
          ELSE IF s[i] \in S THEN Append(kept[i - 1], s[i]) ELSE kept[i - 1]
    IN  kept[Len(s)]

(* AppendHistory of each event, but for those of one message. *)
AppendHistory(due, lost) ==
    events' = [m \in DOMAIN events |->
                 events[m] \o Kept(due, {e \in Range(due) : e.msg = m /\ e.msg # lost})]

(* recordHistory, after the state changes: one row for each message of the *)
(* call.  An error is only logged and the row is missing.                  *)
RecordHistory(c) ==
    /\ c \in calls /\ c.due # <<>>
    /\ \/ Works /\ AppendHistory(c.due, 0)
       \/ Fails /\ \E i \in DOMAIN c.due : AppendHistory(c.due, c.due[i].msg)
    /\ Continue(c, [c EXCEPT !.due = <<>>])
    /\ UNCHANGED <<declared, msgs, letters, ghosts>>
-----------------------------------------------------------------------------
(* Publishing. *)

(* Publish: the publication's schema, else the one of the queue. *)
SchemaFor(p, q) == IF SchemaOf[p] # NoSchema THEN SchemaOf[p] ELSE SchemaOf[q]

(* validate: no schema, or a registered one that the payload satisfies. *)
Validates(p, q) ==
    LET s == SchemaFor(p, q)
    IN  s = NoSchema \/ (s \in Schemas /\ <<s, p>> \in Conforming)

(* Route keeps the registered queues. *)
Routed(p) == Kept(Routes[p], declared)

(* Mutant: only the first queue is validated. *)
RejectingFirst(p) == {i \in DOMAIN Routed(p) : i = 1 /\ ~Validates(p, Routed(p)[i])}

Rejecting(p) == {i \in DOMAIN Routed(p) : ~Validates(p, Routed(p)[i])}

Letter(m, q, p, attempts, kind, first) ==
    [msg |-> m, queue |-> q, pub |-> p, attempts |-> attempts, kind |-> kind,
     first |-> first, replayedAs |-> 0, count |-> 0, live |-> TRUE]

(* SaveDeadLetter of the store. *)
Save(letter) == letters' = Append(letters, letter)

Unroutable(a, p) ==
    /\ MayStart(a) /\ Routed(p) = <<>>
    /\ Reply(a, "publish", p, StatusOf.unroutable)
    /\ UNCHANGED <<declared, tables, calls, ghosts, spent>>

(* Mutant: the queues before the rejecting one have their message. *)
RejectHalfway(a, p) ==
    /\ MayStart(a) /\ Rejecting(p) # {} /\ Works
    /\ LET q == Routed(p)[Min(Rejecting(p))]
           before == SubSeq(Routed(p), 1, Min(Rejecting(p)) - 1)
       IN  /\ Save(Letter(0, q, p, 0, "validation", 0))
           /\ msgs' = msgs \o [i \in DOMAIN before |->
                 [queue |-> before[i], pub |-> p, by |-> a, state |-> "QUEUED",
                  attempts |-> 0, replayOf |-> 0, live |-> TRUE]]
           /\ events' = events \o [i \in DOMAIN before |-> <<>>]
           /\ failed' = failed \o [i \in DOMAIN before |-> 0]
    /\ Reply(a, "publish", p, StatusOf.rejected)
    /\ UNCHANGED <<declared, calls, overtaken>>

(* The first queue whose schema rejects the payload ends the publication:  *)
(* one record for that queue (parkRejected), nothing enqueued anywhere.    *)
Reject(a, p) ==
    /\ MayStart(a) /\ Rejecting(p) # {}
    /\ \/ /\ Works
          /\ Save(Letter(0, Routed(p)[Min(Rejecting(p))], p, 0, "validation", 0))
       \/ Fails /\ UNCHANGED letters
    /\ Reply(a, "publish", p, StatusOf.rejected)
    /\ UNCHANGED <<declared, msgs, events, calls, ghosts>>

Row(q, p, by, replayOf) ==
    [queue |-> q, pub |-> p, by |-> by, state |-> "QUEUED", attempts |-> 0,
     replayOf |-> replayOf, live |-> TRUE]

Publish(a, p) ==
    /\ MayStart(a) /\ Routed(p) # <<>> /\ Rejecting(p) = {}
    /\ calls' = calls \cup
         {[Call(a, "publish", p, "append") EXCEPT !.queues = Routed(p)]}
    /\ UNCHANGED <<declared, tables, replies, ghosts, spent>>

(* Append: all the rows in one transaction. *)
AppendRows(rows) ==
    /\ msgs' = msgs \o rows
    /\ events' = events \o [i \in DOMAIN rows |-> <<>>]
    /\ failed' = failed \o [i \in DOMAIN rows |-> 0]

Queued(rows) == [i \in DOMAIN rows |-> Event(Len(msgs) + i, "QUEUED", 0)]

AppendPublished(c) ==
    LET rows == [i \in DOMAIN c.queues |-> Row(c.queues[i], c.on, c.by, 0)] IN
    /\ At(c, "append") /\ c.op = "publish"
    /\ \/ /\ Works /\ AppendRows(rows)
          /\ Continue(c, [Ends(c, 202) EXCEPT !.due = Queued(rows)])
       \/ Fails /\ Continue(c, Ends(c, StatusOf.failed)) /\ UNCHANGED <<msgs, events, failed>>
    /\ UNCHANGED <<declared, letters, overtaken>>
-----------------------------------------------------------------------------
(* Replaying and discarding dead letters. *)

(* ReplayDeadLetter, up to Append: the record and its queue must exist. *)
Replay(a, d) ==
    /\ MayStart(a)
    /\ IF letters[d].live /\ letters[d].queue \in declared
       THEN calls' = calls \cup {Call(a, "replay", d, "append")} /\ UNCHANGED replies
       ELSE Reply(a, "replay", d, StatusOf.missing) /\ UNCHANGED calls
    /\ UNCHANGED <<declared, tables, ghosts, spent>>

(* A new message with the record's payload, not validated again. *)
AppendReplay(c) ==
    LET rows == <<Row(letters[c.on].queue, letters[c.on].pub, c.by, c.on)>> IN
    /\ At(c, "append") /\ c.op = "replay"
    /\ \/ /\ Works /\ AppendRows(rows)
          /\ Continue(c, [c EXCEPT !.pc = "replayed", !.at = Len(msgs) + 1,
                                   !.due = Queued(rows)])
       \/ Fails /\ Continue(c, Ends(c, StatusOf.failed)) /\ UNCHANGED <<msgs, events, failed>>
    /\ UNCHANGED <<declared, letters, overtaken>>

(* Mutant: the count is set, not incremented. *)
MarkReplayedOnce(c) ==
    /\ At(c, "replayed") /\ Works
    /\ letters' = IF ~letters[c.on].live THEN letters ELSE
         [letters EXCEPT ![c.on].replayedAs = c.at, ![c.on].count = 1]
    /\ Continue(c, Ends(c, 202))
    /\ UNCHANGED <<declared, msgs, events, ghosts>>

(* Mutant: a replayed record is dropped. *)
MarkReplayedDrops(c) ==
    /\ At(c, "replayed") /\ Works
    /\ letters' = [letters EXCEPT ![c.on].live = FALSE]
    /\ Continue(c, Ends(c, 202))
    /\ UNCHANGED <<declared, msgs, events, ghosts>>

(* MarkDeadLetterReplayed of the store. *)
MarkDeadLetterReplayed(d, m) ==
    letters' = IF ~letters[d].live THEN letters
               ELSE [letters EXCEPT ![d].replayedAs = m, ![d].count = @ + 1]

(* What MarkDeadLetterReplayed returns is only logged. *)
MarkReplayed(c) ==
    /\ At(c, "replayed")
    /\ \/ Works /\ MarkDeadLetterReplayed(c.on, c.at)
       \/ Fails /\ UNCHANGED letters
    /\ Continue(c, Ends(c, 202))
    /\ UNCHANGED <<declared, msgs, events, ghosts>>

(* DeleteDeadLetter of the store. *)
DeleteDeadLetter(d) == letters' = [letters EXCEPT ![d].live = FALSE]

Discard(a, d) ==
    /\ MayStart(a)
    /\ \/ /\ Works
          /\ DeleteDeadLetter(d)
          /\ Reply(a, "discard", d, IF letters[d].live THEN 204 ELSE StatusOf.missing)
       \/ Fails /\ Reply(a, "discard", d, StatusOf.failed) /\ UNCHANGED letters
    /\ UNCHANGED <<declared, msgs, events, calls, ghosts>>

(* DeleteQueue, here of a queue that was unbound before: its messages go,  *)
(* its dead letters and the history of its messages stay.                  *)
DeleteQueue(q) ==
    /\ q \in declared /\ Spend("delete")
    /\ declared' = declared \ {q}
    /\ msgs' = [m \in DOMAIN msgs |-> IF msgs[m].queue # q THEN msgs[m]
                                      ELSE [msgs[m] EXCEPT !.live = FALSE]]
    /\ UNCHANGED <<letters, events, calls, replies, ghosts>>
-----------------------------------------------------------------------------
(* Deliveries and the reclaim loop. *)

Leased(m) == msgs[m].live /\ msgs[m].state = "PROCESSING"

Become(m, s) == msgs' = [msgs EXCEPT ![m].state = s]

(* Claim and handOff, whose first store call is the history event. *)
Claim(m) ==
    /\ msgs[m].live /\ msgs[m].state \in {"QUEUED", "RETRYING"}
    /\ Spend("delivery")
    /\ msgs' = [msgs EXCEPT ![m].state = "PROCESSING", ![m].attempts = @ + 1]
    /\ calls' = calls \cup
         {[Call("worker", "delivery", m, "handle") EXCEPT
             !.attempt = msgs[m].attempts + 1, !.due = <<Event(m, "PROCESSING", 0)>>]}
    /\ overtaken' = IF \E c \in calls : \E i \in DOMAIN c.due : c.due[i].msg = m
                    THEN overtaken \cup {m} ELSE overtaken
    /\ UNCHANGED <<declared, letters, events, replies, failed>>

ShouldRetry(attempts) == attempts < MaxAttempts

(* The handler returned an error: fail, up to its first store call.  The   *)
(* instant of a failure is its place among the failures of the message.    *)
HandlerFails(c, kind) ==
    /\ At(c, "handle")
    /\ failed' = [failed EXCEPT ![c.on] = @ + 1]
    /\ Continue(c, [c EXCEPT
         !.pc = IF kind # "permanent" /\ ShouldRetry(c.attempt) THEN "retry" ELSE "first",
         !.kind = kind, !.at = failed[c.on] + 1])
    /\ UNCHANGED <<declared, tables, overtaken, spent>>

(* Mutant: the event is recorded whatever the store call returned. *)
SettleAndTell(c, pc, s) ==
    /\ At(c, pc) /\ Works
    /\ msgs' = IF Leased(c.on) THEN [msgs EXCEPT ![c.on].state = s] ELSE msgs
    /\ Continue(c, [End(c) EXCEPT !.due = <<Event(c.on, s, c.at)>>])
    /\ UNCHANGED <<declared, letters, events, ghosts>>

(* One store call settles the delivery if the message is leased, whoever   *)
(* leases it; its history event follows.                                   *)
Settle(c, pc, s) ==
    /\ At(c, pc)
    /\ \/ /\ Works /\ Leased(c.on) /\ Become(c.on, s)
          /\ Continue(c, [End(c) EXCEPT !.due = <<Event(c.on, s, c.at)>>])
       \/ Works /\ ~Leased(c.on) /\ Continue(c, End(c)) /\ UNCHANGED msgs
       \/ Fails /\ Continue(c, End(c)) /\ UNCHANGED msgs
    /\ UNCHANGED <<declared, letters, events, ghosts>>

Acknowledge(c)      == Settle(c, "handle", "ACKNOWLEDGED")
ScheduleRetry(c)    == Settle(c, "retry", "RETRYING")
Release(c)          == Settle(c, "release", "QUEUED")
MarkDeadLettered(c) == Settle(c, "mark", "DEAD_LETTERED")

FirstFailureAt(m, fallback) ==
    LET failures == {i \in DOMAIN events[m] : events[m][i].to \in {"RETRYING", "FAILED"}}
    IN  IF failures = {} THEN fallback ELSE events[m][Min(failures)].at

(* deadLetter: History, SaveDeadLetter, MarkDeadLettered. *)
ReadHistory(c) ==
    /\ At(c, "first")
    /\ \/ Works /\ Continue(c, [c EXCEPT !.pc = "save", !.first = FirstFailureAt(c.on, c.at)])
       \/ Fails /\ Continue(c, [c EXCEPT !.pc = "save", !.first = c.at])
    /\ UNCHANGED <<declared, tables, ghosts>>

SaveDeadLetter(c) ==
    /\ At(c, "save")
    /\ \/ /\ Works
          /\ Save(Letter(c.on, msgs[c.on].queue, msgs[c.on].pub, c.attempt, c.kind, c.first))
          /\ Continue(c, [c EXCEPT !.pc = "mark"])
       \/ Fails /\ Continue(c, End(c)) /\ UNCHANGED letters
    /\ UNCHANGED <<declared, msgs, events, ghosts>>

(* The reclaim loop takes an expired lease: back to the queue, or a dead   *)
(* letter if the attempts are used up.  It handles one message at a time.  *)
Reclaim(m) ==
    /\ Leased(m) /\ Spend("expiry")
    /\ ~Waiting("reclaimer")
    /\ LET c == [Call("reclaimer", "reclaim", m, "release") EXCEPT
                   !.attempt = msgs[m].attempts, !.kind = "lease_expired"]
       IN  IF ShouldRetry(msgs[m].attempts)
           THEN calls' = calls \cup {c} /\ UNCHANGED failed
           ELSE /\ failed' = [failed EXCEPT ![m] = @ + 1]
                /\ calls' = calls \cup {[c EXCEPT !.pc = "first", !.at = failed[m] + 1]}
    /\ UNCHANGED <<declared, tables, replies, overtaken>>

(* The process is killed and started again: the tables stay. *)
Crash ==
    /\ Spend("crash")
    /\ calls' = {}
    /\ replies' = [a \in Callers |->
         IF Waiting(a) THEN [Idle EXCEPT !.op = "lost"] ELSE replies[a]]
    /\ UNCHANGED <<declared, tables, ghosts>>

Next ==
    \/ \E a \in Callers :
          \/ \E p \in Pubs : Unroutable(a, p) \/ Reject(a, p) \/ Publish(a, p)
          \/ \E d \in DOMAIN letters : Replay(a, d) \/ Discard(a, d)
    \/ \E m \in DOMAIN msgs : Claim(m) \/ Reclaim(m)
    \/ \E c \in calls :
          \/ RecordHistory(c) \/ AppendPublished(c) \/ AppendReplay(c) \/ MarkReplayed(c)
          \/ \E kind \in {"handler", "permanent"} : HandlerFails(c, kind)
          \/ Acknowledge(c) \/ ScheduleRetry(c) \/ Release(c) \/ MarkDeadLettered(c)
          \/ ReadHistory(c) \/ SaveDeadLetter(c)
    \/ \E q \in Queues : DeleteQueue(q)
    \/ Crash

Spec == Init /\ [][Next]_vars
-----------------------------------------------------------------------------
(* Properties. *)

Quiet == spent.fault + spent.crash = 0

SentBy(a) == {m \in DOMAIN msgs : msgs[m].by = a}

Fills(a, p) ==
    LET filled == {msgs[m].queue : m \in SentBy(a)}
    IN  /\ Range(Routed(p)) \subseteq filled /\ filled \subseteq Range(Routes[p])
        /\ Cardinality(filled) = Cardinality(SentBy(a))

(* The HTTP answers are true, whatever fails or runs meanwhile: a 202      *)
(* publication has one message in every queue it was routed to and a 202   *)
(* replay exactly one, an error answer left no message at all, and one     *)
(* DELETE of a dead letter at most is answered 204.  A fan-out is all or   *)
(* nothing even for a publisher that gets no answer.                       *)
AnswersTrue ==
    /\ \A a \in Callers : LET r == replies[a] IN
         /\ r.status \in {404, 422, 500} => SentBy(a) = {}
         /\ r.status = 202 => IF r.op = "publish" THEN Fills(a, r.on)
                              ELSE Cardinality(SentBy(a)) = 1
         /\ r.status = 204 => /\ ~letters[r.on].live
                              /\ \A b \in Callers : replies[b] = r => b = a
    /\ \A m \in DOMAIN msgs : msgs[m].replayOf = 0 => Fills(msgs[m].by, msgs[m].pub)

Rejections(p) ==
    {a \in Callers : replies[a] = [status |-> 422, op |-> "publish", on |-> p]
                     /\ \E i \in DOMAIN Routes[p] : ~Validates(p, Routes[p][i])}

(* Every rejected publication is parked once: as many validation records   *)
(* with its payload as it was rejected, unless saving one failed; none is  *)
(* for a queue that would have taken the payload.  Messages are validated  *)
(* before they are written (schema-evolution.md): only a replay, which is  *)
(* not validated again, brings a rejected payload into the store, and then *)
(* the payload and the queue of its record.                                *)
RejectedKept ==
    /\ \A p \in Pubs :
         LET parked == {d \in DOMAIN letters : letters[d].kind = "validation"
                                               /\ letters[d].pub = p}
         IN  /\ Cardinality(parked) <= Cardinality(Rejections(p))
             /\ Quiet /\ declared = Queues =>
                  Cardinality(parked) = Cardinality(Rejections(p))
    /\ \A d \in DOMAIN letters : letters[d].kind = "validation" =>
         ~Validates(letters[d].pub, letters[d].queue)
    /\ \A m \in DOMAIN msgs : LET d == msgs[m].replayOf IN
         /\ ~Validates(msgs[m].pub, msgs[m].queue) => d # 0
         /\ d # 0 => msgs[m].pub = letters[d].pub /\ msgs[m].queue = letters[d].queue

(* A dead letter knows its replays: it counts no replay that is not in the *)
(* store, names one of them, and counts all of them except those whose     *)
(* mark is still to come, failed or was cut off by a crash; so asking      *)
(* again after a lost answer may replay a message twice, and shows.        *)
ReplaysCounted ==
    \A d \in DOMAIN letters :
      LET replays == {m \in DOMAIN msgs : msgs[m].replayOf = d}
          pending == {c \in calls : c.op = "replay" /\ c.on = d /\ c.pc = "replayed"}
          known   == letters[d].count
      IN  /\ known + Cardinality(pending) <= Cardinality(replays)
          /\ known > 0 => letters[d].replayedAs \in replays
          /\ Quiet /\ letters[d].live =>
               known + Cardinality(pending) = Cardinality(replays)

Recorded(m, s) == {i \in DOMAIN events[m] : events[m][i].to = s}
Due(m, s)      == {c \in calls : \E i \in DOMAIN c.due : c.due[i].msg = m /\ c.due[i].to = s}

(* The history tells no lies and, unless a write was lost, misses nothing  *)
(* for good: as many deliveries as the attempts of the message, and an     *)
(* end of the message exactly when it came to that end.  So the time       *)
(* first_failed_at of a dead letter, which is read from the history, is    *)
(* the first failure of the message, if no event was written after the     *)
(* next delivery began and no lease expired under a running handler.       *)
HistoryHonest ==
    /\ \A m \in DOMAIN msgs :
         LET told(s) == Cardinality(Recorded(m, s)) + Cardinality(Due(m, s)) IN
         /\ told("PROCESSING") <= msgs[m].attempts
         /\ Quiet => told("PROCESSING") = msgs[m].attempts
         /\ \A s \in {"ACKNOWLEDGED", "DEAD_LETTERED"} :
              /\ told(s) <= IF msgs[m].state = s THEN 1 ELSE 0
              /\ Quiet /\ msgs[m].state = s => told(s) = 1
    /\ \A d \in DOMAIN letters :
         Quiet /\ spent.expiry = 0 /\ letters[d].msg \notin overtaken /\ letters[d].msg # 0
           => letters[d].first = 1

(* A dead letter is an audit trail: replaying, failing again and deleting  *)
(* the queue leave the record as it was saved, its replay count only grows *)
(* one by one, and a discarded record does not come back.                  *)
LettersKept ==
    [][\A d \in DOMAIN letters :
         LET old == letters[d] new == letters'[d] IN
         /\ new = [old EXCEPT !.live = new.live, !.count = new.count,
                              !.replayedAs = new.replayedAs]
         /\ new.count \in {old.count, old.count + 1}
         /\ new.live # old.live => old.live /\ \E a \in Callers :
              replies'[a] # replies[a] /\ replies'[a].status = 204]_vars
=============================================================================
