------------------------------ MODULE Topology ------------------------------
(***************************************************************************)
(* Exchanges, queues and bindings: the registry in memory                  *)
(* (internal/broker), the tables of the store, and the engine calls that   *)
(* change first the one under its lock and then the other.  Callers run    *)
(* concurrently, a store call may fail, and the process may be killed and  *)
(* booted again.  Publications are routed by the registry and appended to  *)
(* the store in the same two steps.                                        *)
(***************************************************************************)
EXTENDS Naturals, FiniteSets, Sequences, Functions

CONSTANTS
    Exchanges, Queues,
    Specs,          \* what may be declared: [durable |-> BOOLEAN, timeout |-> Nat]; the
                    \*   kind of an exchange takes the place of the timeout
    Resolution,     \* units of a timeout in a millisecond
    Config,         \* the configuration file: some names -> Specs
    ConfigBindings, \* and the bindings it declares
    Callers,        \* concurrent requests
    Pubs,           \* publications
    Exclusive,      \* TRUE: no two requests change the same queue or exchange at once
    Bound           \* how often a run may see [crashes, failures, deletes]

Names    == Exchanges \cup Queues
Bindings == Exchanges \X Queues
Absent   == [durable |-> FALSE, timeout |-> 0]

ASSUME TopologyAssumption ==
    /\ Exchanges \cap Queues = {} /\ Names \cap Bindings = {}
    /\ Specs \subseteq [durable : BOOLEAN, timeout : Nat \ {0}]
    /\ Resolution \in Nat \ {0}
    /\ DOMAIN Config \subseteq Names
    /\ \A n \in DOMAIN Config : Config[n] \in Specs
    /\ ConfigBindings \subseteq Bindings
    /\ Exclusive \in BOOLEAN
    /\ Bound \in [crashes : Nat, failures : Nat, deletes : Nat]

VARIABLES
    registry,   \* name -> its spec, or Absent
    bindings,   \* exchange -> the queues bound to it, in the order of the slice
    stored,     \* the tables exchanges and queues
    storedB,    \* the table bindings
    rows,       \* the table messages: <<publication, queue>>
    calls,      \* requests between their registry step and their store step
    phase,      \* "down", "booting", "up" or "failed"
    todo,       \* what booting has still to declare
    sent,       \* publications that were used
    promise,    \* history: name -> {spec or Absent}, binding -> {TRUE or FALSE}: what
                \*   the last successful answer said, {} if a request came after it
    accepted,   \* history: messages whose publisher was answered
    excused,    \* history: messages whose queue was deleted after they were routed
    spent       \* how much of Bound is used

memory  == <<registry, bindings>>
tables  == <<stored, storedB, rows>>
boot    == <<phase, todo>>
answers == <<promise, accepted, excused, sent>>
vars    == <<memory, tables, calls, boot, answers, spent>>

InRegistry == {b \in Bindings : \E i \in DOMAIN bindings[b[1]] : bindings[b[1]][i] = b[2]}

Init ==
    /\ registry = [n \in Names |-> Absent] /\ bindings = [x \in Exchanges |-> <<>>]
    /\ stored = registry /\ storedB = {} /\ rows = {}
    /\ calls = {} /\ phase = "down" /\ todo = {}
    /\ sent = {} /\ accepted = {} /\ excused = {}
    /\ promise = [k \in Names \cup Bindings |-> IF k \in Names THEN {Absent} ELSE {FALSE}]
    /\ spent = [crashes |-> 0, failures |-> 0, deletes |-> 0]

(* Mutant: the durable flag is not written. *)
SavedTransient(s) == [s EXCEPT !.durable = FALSE]

(* SaveQueue keeps the visibility timeout in whole milliseconds. *)
Saved(s) == [s EXCEPT !.timeout = (@ \div Resolution) * Resolution]

Spend(what) == spent[what] < Bound[what] /\ spent' = [spent EXCEPT ![what] = @ + 1]
-----------------------------------------------------------------------------
(* The registry step of a request. *)

(* What a request about a queue, an exchange or a binding changes; the     *)
(* bindings of an exchange are one slice.                                  *)
Area(k) == IF k \in Bindings THEN k[1] ELSE k

MayStart(a, k) ==
    /\ phase = "up"
    /\ \A c \in calls : c.by # a
    /\ Exclusive => \A c \in calls : c.op # "Append" => Area(c.on) # Area(k)

Call(a, op, k, arg) == [by |-> a, op |-> op, on |-> k, arg |-> arg, slot |-> 0]

Begin(c, said) ==
    /\ calls' = calls \cup {c}
    /\ promise' = [promise EXCEPT ![c.on] = @ \cap {said}]

(* DeclareExchange and DeclareQueue of the registry: the name is free or   *)
(* carries the same spec.                                                  *)
Accepts(n, s) == registry[n] \in {Absent, s}

(* Mutant: only what is new to the registry is saved. *)
DeclareSavingNew(a, n, s) ==
    /\ MayStart(a, n) /\ Accepts(n, s)
    /\ registry' = [registry EXCEPT ![n] = s]
    /\ IF s.durable /\ registry[n] = Absent
       THEN Begin(Call(a, "Save", n, s), s)
       ELSE promise' = [promise EXCEPT ![n] = {s}] /\ UNCHANGED calls
    /\ UNCHANGED <<bindings, tables, boot, accepted, excused, sent, spent>>

Declare(a, n, s) ==
    /\ MayStart(a, n) /\ Accepts(n, s)
    /\ registry' = [registry EXCEPT ![n] = s]
    /\ IF s.durable
       THEN Begin(Call(a, "Save", n, s), s)
       ELSE promise' = [promise EXCEPT ![n] = {s}] /\ UNCHANGED calls
    /\ UNCHANGED <<bindings, tables, boot, accepted, excused, sent, spent>>

(* A request that found its binding in the registry holds a pointer into   *)
(* the slice and reads it after the lock is released: what the slot holds  *)
(* by then may be another binding, moved there by an Unbind.               *)
Reread(cs, x, list) ==
    {IF c.slot # 0 /\ c.slot \in DOMAIN list /\ c.on[1] = x
     THEN [c EXCEPT !.arg = @ \cup {<<x, list[c.slot]>>}] ELSE c : c \in cs}

Bind(a, b) ==
    LET x == b[1]
        found == {i \in DOMAIN bindings[x] : bindings[x][i] = b[2]}
    IN  /\ MayStart(a, b)
        /\ registry[b[1]] # Absent /\ registry[b[2]] # Absent
        /\ promise' = [promise EXCEPT ![b] = @ \cap {TRUE}]
        /\ \/ /\ found = {}
              /\ bindings' = [bindings EXCEPT ![x] = Append(@, b[2])]
              /\ calls' = Reread(calls, x, bindings'[x])
                            \cup {Call(a, "SaveBinding", b, {b})}
           \/ \E i \in found :
              /\ calls' = calls \cup {[Call(a, "SaveBinding", b, {b}) EXCEPT !.slot = i]}
              /\ UNCHANGED bindings
        /\ UNCHANGED <<registry, tables, boot, accepted, excused, sent, spent>>

(* append(existing[:i], existing[i+1:]...) *)
Cut(s, i) == SubSeq(s, 1, i - 1) \o SubSeq(s, i + 1, Len(s))

Unbind(a, b) ==
    /\ MayStart(a, b)
    /\ promise' = [promise EXCEPT ![b] = @ \cap {FALSE}]
    /\ \E i \in DOMAIN bindings[b[1]] :
          /\ bindings[b[1]][i] = b[2]
          /\ bindings' = [bindings EXCEPT ![b[1]] = Cut(@, i)]
    /\ calls' = Reread(calls, b[1], bindings'[b[1]])
                  \cup {Call(a, "DeleteBinding", b, {})}
    /\ UNCHANGED <<registry, tables, boot, accepted, excused, sent, spent>>

(* Mutant: bindings are not asked for. *)
UnreferencedAlways(q) == TRUE

Unreferenced(q) == \A b \in InRegistry : b[2] # q

(* The messages that are in a queue or on their way to it. *)
Addressed(q) ==
    {m \in rows : m[2] = q} \cup
    {<<c.on, q>> : c \in {d \in calls : d.op = "Append" /\ q \in d.arg}}

DeleteQueue(a, q) ==
    /\ MayStart(a, q) /\ registry[q] # Absent /\ Unreferenced(q)
    /\ Spend("deletes")
    /\ registry' = [registry EXCEPT ![q] = Absent]
    /\ Begin(Call(a, "DeleteQueue", q, {}), Absent)
    /\ excused' = excused \cup Addressed(q)
    /\ UNCHANGED <<bindings, tables, boot, accepted, sent>>

(* route: the registered queues of the bindings that match. *)
Routed(matching) == {q \in Queues : registry[q] # Absent /\ \E b \in matching : b[2] = q}

(* Publish of a valid payload, up to Append.  Which bindings match is a    *)
(* matter of the routing key: any of them may.                             *)
Publish(a, p, x) ==
    /\ phase = "up" /\ \A c \in calls : c.by # a
    /\ p \notin sent /\ registry[x] # Absent
    /\ \E matching \in SUBSET {b \in InRegistry : b[1] = x} :
         /\ Routed(matching) # {}
         /\ calls' = calls \cup {Call(a, "Append", p, Routed(matching))}
    /\ sent' = sent \cup {p}
    /\ UNCHANGED <<memory, tables, boot, promise, accepted, excused, spent>>
-----------------------------------------------------------------------------
(* The store step, after which the request is answered. *)

Return(c, said) ==
    /\ c \in calls /\ calls' = calls \ {c}
    /\ promise' = [promise EXCEPT ![c.on] = {said}]
    /\ UNCHANGED <<memory, boot, accepted, excused, sent, spent>>

(* SaveExchange, SaveQueue: inserted, or updated if the name is there. *)
Save(c) ==
    /\ c.op = "Save" /\ Return(c, c.arg)
    /\ stored' = [stored EXCEPT ![c.on] = IF c.on \in Queues THEN Saved(c.arg) ELSE c.arg]
    /\ UNCHANGED <<storedB, rows>>

SaveBinding(c) ==
    /\ c.op = "SaveBinding" /\ Return(c, TRUE)
    /\ \E b \in c.arg : storedB' = storedB \cup {b}
    /\ UNCHANGED <<stored, rows>>

DeleteBinding(c) ==
    /\ c.op = "DeleteBinding" /\ Return(c, FALSE)
    /\ storedB' = storedB \ {c.on}
    /\ UNCHANGED <<stored, rows>>

(* Mutant: DELETE FROM messages without its WHERE. *)
DeleteStoredAll(c) ==
    /\ c.op = "DeleteQueue" /\ Return(c, Absent)
    /\ stored' = [stored EXCEPT ![c.on] = Absent]
    /\ rows' = IF stored[c.on] = Absent THEN rows ELSE {}
    /\ UNCHANGED storedB

(* The messages go with the row of the queue; a queue without one, being   *)
(* not durable, keeps its messages in the store.                           *)
DeleteStored(c) ==
    /\ c.op = "DeleteQueue" /\ Return(c, Absent)
    /\ stored' = [stored EXCEPT ![c.on] = Absent]
    /\ rows' = IF stored[c.on] = Absent THEN rows ELSE {m \in rows : m[2] # c.on}
    /\ UNCHANGED storedB

(* Append: one transaction for all the queues. *)
AppendMessages(c) ==
    /\ c \in calls /\ c.op = "Append" /\ calls' = calls \ {c}
    /\ rows' = rows \cup ({c.on} \X c.arg)
    /\ accepted' = accepted \cup ({c.on} \X c.arg)
    /\ UNCHANGED <<memory, stored, storedB, boot, promise, excused, sent, spent>>

(* The store call fails: the caller is told, the registry stays changed.   *)
StoreFails(c) ==
    /\ c \in calls /\ calls' = calls \ {c}
    /\ Spend("failures")
    /\ UNCHANGED <<memory, tables, boot, answers>>
-----------------------------------------------------------------------------
(* The process is killed and started again. *)

Crash ==
    /\ phase \in {"up", "booting"} /\ phase' = "down"
    /\ Spend("crashes")
    /\ registry' = [n \in Names |-> Absent] /\ bindings' = [x \in Exchanges |-> <<>>]
    /\ calls' = {} /\ todo' = {}
    /\ promise' = [k \in DOMAIN promise |->
                     IF k \in Bindings THEN promise[k]
                     ELSE {s \in promise[k] : s.durable \/ s = Absent}]
    /\ UNCHANGED <<tables, accepted, excused, sent>>

(* ORDER BY queue: any fixed order will do. *)
Listed(S) == CHOOSE s \in [1..Cardinality(S) -> S] : IsInjective(s)

(* Restore *)
Restart ==
    /\ phase = "down" /\ phase' = "booting"
    /\ registry' = stored
    /\ bindings' = [x \in Exchanges |-> Listed({q \in Queues : <<x, q>> \in storedB})]
    /\ todo' = DOMAIN Config \cup ConfigBindings
    /\ UNCHANGED <<tables, calls, answers, spent>>

(* declareTopology: exchanges and queues, then bindings; nobody else runs  *)
(* yet, so the two steps of a declaration are one.                         *)
BootDeclare(n) ==
    /\ phase = "booting" /\ n \in todo
    /\ IF Accepts(n, Config[n])
       THEN /\ registry' = [registry EXCEPT ![n] = Config[n]]
            /\ stored' = IF ~Config[n].durable THEN stored ELSE
                 [stored EXCEPT ![n] = IF n \in Queues THEN Saved(Config[n]) ELSE Config[n]]
            /\ promise' = [promise EXCEPT ![n] = {Config[n]}]
            /\ todo' = todo \ {n} /\ UNCHANGED phase
       ELSE phase' = "failed" /\ UNCHANGED <<registry, stored, promise, todo>>
    /\ UNCHANGED <<bindings, storedB, rows, calls, accepted, excused, sent, spent>>

BootBind(b) ==
    /\ phase = "booting" /\ b \in todo /\ todo \cap Names = {}
    /\ IF registry[b[1]] # Absent /\ registry[b[2]] # Absent
       THEN /\ bindings' = IF b \in InRegistry THEN bindings
                           ELSE [bindings EXCEPT ![b[1]] = Append(@, b[2])]
            /\ storedB' = storedB \cup {b}
            /\ promise' = [promise EXCEPT ![b] = {TRUE}]
            /\ todo' = todo \ {b} /\ UNCHANGED phase
       ELSE phase' = "failed" /\ UNCHANGED <<bindings, storedB, promise, todo>>
    /\ UNCHANGED <<registry, stored, rows, calls, accepted, excused, sent, spent>>

Booted ==
    /\ phase = "booting" /\ todo = {} /\ phase' = "up"
    /\ UNCHANGED <<memory, tables, calls, todo, answers, spent>>

(* A store call of the boot fails and so does the boot. *)
BootFails ==
    /\ phase = "booting" /\ phase' = "down" /\ todo' = {}
    /\ Spend("failures")
    /\ registry' = [n \in Names |-> Absent] /\ bindings' = [x \in Exchanges |-> <<>>]
    /\ UNCHANGED <<tables, calls, answers>>

Next ==
    \/ \E a \in Callers :
          \/ \E n \in Names, s \in Specs : Declare(a, n, s)
          \/ \E b \in Bindings : Bind(a, b) \/ Unbind(a, b)
          \/ \E q \in Queues : DeleteQueue(a, q)
          \/ \E p \in Pubs, x \in Exchanges : Publish(a, p, x)
    \/ \E c \in calls : \/ Save(c) \/ SaveBinding(c) \/ DeleteBinding(c)
                        \/ DeleteStored(c) \/ AppendMessages(c) \/ StoreFails(c)
    \/ \E n \in Names : BootDeclare(n)
    \/ \E b \in Bindings : BootBind(b)
    \/ Crash \/ Restart \/ Booted \/ BootFails

Spec == Init /\ [][Next]_vars
-----------------------------------------------------------------------------
(* Properties. *)

(* What a successful answer said stays true, in memory and in the store,   *)
(* through crashes, failed store calls and boots, until the next request   *)
(* about the same name: a declared durable queue or exchange and a binding *)
(* are restored as declared, a deleted queue and a removed binding do not  *)
(* come back.  Holds of requests about the same name that do not overlap.  *)
PromisesKept ==
    /\ \A n \in Names : \A s \in promise[n] :
         /\ phase = "up" => registry[n] = s
         /\ s.durable \/ s = Absent => stored[n] = s
    /\ \A b \in Bindings : \A s \in promise[b] :
         /\ phase = "up" => (b \in InRegistry) = s
         /\ (b \in storedB) = s

(* An accepted message stays in the store unless its queue is deleted by a *)
(* request that began after the message was routed, and only accepted      *)
(* messages are there.                                                     *)
AcceptedKept == accepted \ excused \subseteq rows /\ rows \subseteq accepted

(* The registry never routes into the void: while no restart brought back  *)
(* a binding alone, every bound queue and exchange is registered, whatever *)
(* declarations, deletions and bindings run at the same time.              *)
BoundQueuesExist ==
    spent.crashes + spent.failures = 0 =>
      \A b \in InRegistry : registry[b[1]] # Absent /\ registry[b[2]] # Absent

(* architecture.md: declaring the topology from configuration is           *)
(* "idempotent - re-declaring the same spec succeeds": a boot fails only   *)
(* after somebody deleted a queue.                                         *)
BootsAgain == phase = "failed" => spent.deletes > 0

(* architecture.md: the tables hold "Durable topology, restored into the   *)
(* registry on boot": when no request is under way, every registered       *)
(* durable queue and exchange is in the store as it is registered.         *)
DurableStored ==
    phase = "up" /\ calls = {} =>
      \A n \in Names : registry[n].durable => stored[n] = registry[n]
=============================================================================
