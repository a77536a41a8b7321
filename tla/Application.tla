----------------------------- MODULE Application -----------------------------
(***************************************************************************)
(* The life of a brokerd process: cmd/brokerd loads the configuration,     *)
(* app.Build opens the store (and, for SQLite, migrates the file), loads   *)
(* the schemas, builds the engine, restores and declares the topology;     *)
(* Application.Run serves until SIGTERM and Application.Shutdown stops the *)
(* HTTP server, the engine and the store, in this order and within one     *)
(* grace period. Every step of the boot can fail, the process can be       *)
(* killed between any two steps, and two processes can be alive on one     *)
(* file: the one that is draining and the one that replaces it.            *)
(*                                                                         *)
(* The file is the part that outlives the process: the migration table,    *)
(* the rows in it and the tables the migrations made. A transaction's      *)
(* changes are its own until Commit; SQLite gives the file one writer.     *)
(***************************************************************************)
EXTENDS Naturals, FiniteSets, Sequences

CONSTANTS
    Procs,        \* brokerd processes started on the file
    Statements,   \* Statements[v]: number of statements of migration v
    Nobody,       \* no process holds SQLite's write lock
    MaxFaults,    \* bound on failed steps and kills
    MaxStarts     \* bound on starts

ASSUME StatementsAssumption == Statements \in Seq(Nat \ {0})
ASSUME NobodyAssumption == Nobody \notin Procs

VARIABLES
    table,      \* schema_migrations exists
    applied,    \* its rows: the versions recorded
    made,       \* the statements that took effect, <<version, index>>
    writer,     \* the process inside SQLite's write lock
    stage,      \* where each process is
    driver,     \* storage.driver of its configuration
    handle,     \* its store is open
    known,      \* the versions appliedMigrations returned
    next,       \* the migration the loop of migrate has reached
    tx,         \* the statements its open transaction has run
    signalled,  \* SIGTERM arrived: the context of Build and Run is done
    listening,  \* its HTTP server accepts requests
    request,    \* an HTTP request is being served
    work,       \* the engine is at work: a reclaim pass or a delivery
    grace,      \* the shutdown context has not expired
    failedAt,   \* the step the process returned an error from
    faults, starts

disk == <<table, applied, made>>
lock == <<writer, next, tx>>
boot == <<driver, handle, known>>
serving == <<listening, request, work>>
ending == <<signalled, grace, failedAt>>
bounds == <<faults, starts>>
vars == <<disk, lock, stage, boot, serving, ending, bounds>>

Versions == 1..Len(Statements)
Parts(v) == {<<v, i>> : i \in 1..Statements[v]}

\* Stages in which the store of the process is open.
Opened == {"ping", "table", "applied", "migrate", "begun", "recorded",
           "schemas", "engine", "restore", "declare", "run",
           "serving", "server", "drain", "close"}
BootStages == {"load", "open"} \cup (Opened \ {"serving", "server", "drain", "close"})
Stages == {"down", "exited"} \cup BootStages \cup Opened

Init ==
    /\ table = FALSE /\ applied = {} /\ made = {}
    /\ writer = Nobody
    /\ stage = [p \in Procs |-> "down"]
    /\ driver = [p \in Procs |-> "none"]
    /\ handle = [p \in Procs |-> FALSE]
    /\ known = [p \in Procs |-> {}]
    /\ next = [p \in Procs |-> 1]
    /\ tx = [p \in Procs |-> {}]
    /\ signalled = [p \in Procs |-> FALSE]
    /\ listening = [p \in Procs |-> FALSE]
    /\ request = [p \in Procs |-> FALSE]
    /\ work = [p \in Procs |-> FALSE]
    /\ grace = [p \in Procs |-> TRUE]
    /\ failedAt = [p \in Procs |-> "none"]
    /\ faults = 0 /\ starts = 0

Goto(p, s) == stage' = [stage EXCEPT ![p] = s]

\* A step of the boot that changes nothing but where the process is.
Step(p, from, to) ==
    /\ stage[p] = from
    /\ Goto(p, to)
    /\ UNCHANGED <<disk, lock, boot, serving, ending, bounds>>

Unlocked(p) == IF writer = p THEN Nobody ELSE writer

-----------------------------------------------------------------------------
\* The boot: main.run, app.Build, app.openStore, sqlite.Open

Start(p) ==
    /\ stage[p] = "down"
    /\ starts < MaxStarts
    /\ Goto(p, "load")
    /\ starts' = starts + 1
    /\ UNCHANGED <<disk, lock, boot, serving, ending, faults>>

\* config.Load: the driver is one Validate accepts, so openStore knows it,
\* and logging.New accepts the level and the format.
Load(p) ==
    /\ stage[p] = "load"
    /\ \E d \in {"memory", "sqlite"} : driver' = [driver EXCEPT ![p] = d]
    /\ Goto(p, "open")
    /\ UNCHANGED <<disk, lock, handle, known, serving, ending, bounds>>

\* memory.New has nothing to prepare; sql.Open opens no connection yet.
OpenStore(p) ==
    /\ stage[p] = "open"
    /\ handle' = [handle EXCEPT ![p] = TRUE]
    /\ Goto(p, IF driver[p] = "memory" THEN "schemas" ELSE "ping")
    /\ UNCHANGED <<disk, lock, driver, known, serving, ending, bounds>>

Ping(p) == Step(p, "ping", "table")

CreateMigrationTable(p) ==
    /\ stage[p] = "table"
    /\ table \/ writer = Nobody
    /\ table' = TRUE
    /\ Goto(p, "applied")
    /\ UNCHANGED <<applied, made, lock, boot, serving, ending, bounds>>

AppliedMigrations(p) ==
    /\ stage[p] = "applied"
    /\ known' = [known EXCEPT ![p] = applied]
    /\ next' = [next EXCEPT ![p] = 1]
    /\ Goto(p, "migrate")
    /\ UNCHANGED <<disk, writer, tx, driver, handle, serving, ending, bounds>>

\* if _, done := applied[step.version]; done { continue }
SkipMigration(p) ==
    /\ stage[p] = "migrate"
    /\ next[p] \in Versions
    /\ next[p] \in known[p]
    /\ next' = [next EXCEPT ![p] = @ + 1]
    /\ UNCHANGED <<disk, writer, tx, stage, boot, serving, ending, bounds>>

\* BeginTx takes no lock: the first statement that writes does.
BeginMigration(p) ==
    /\ stage[p] = "migrate"
    /\ next[p] \in Versions
    /\ next[p] \notin known[p]
    /\ tx' = [tx EXCEPT ![p] = {}]
    /\ Goto(p, "begun")
    /\ UNCHANGED <<disk, writer, next, boot, serving, ending, bounds>>

\* Mutant: the statements run outside the transaction.
ExecDirectly(p) ==
    /\ stage[p] = "begun"
    /\ Cardinality(tx[p]) < Statements[next[p]]
    /\ writer \in {Nobody, p}
    /\ LET part == <<next[p], Cardinality(tx[p]) + 1>>
       IN /\ tx' = [tx EXCEPT ![p] = @ \cup {part}]
          /\ made' = made \cup {part}
    /\ UNCHANGED <<table, applied, writer, next, stage, boot, serving, ending, bounds>>

\* CREATE ... IF NOT EXISTS, in the order of the migration; it writes, and so
\* needs the lock, only where the table or index is not there.
ExecStatement(p) ==
    /\ stage[p] = "begun"
    /\ Cardinality(tx[p]) < Statements[next[p]]
    /\ LET part == <<next[p], Cardinality(tx[p]) + 1>>
       IN /\ tx' = [tx EXCEPT ![p] = @ \cup {part}]
          /\ IF part \in made
             THEN UNCHANGED writer
             ELSE writer \in {Nobody, p} /\ writer' = p
    /\ UNCHANGED <<disk, next, stage, boot, serving, ending, bounds>>

\* INSERT INTO schema_migrations: the version is the primary key.
RecordMigration(p) ==
    /\ stage[p] = "begun"
    /\ tx[p] = Parts(next[p])
    /\ writer \in {Nobody, p}
    /\ next[p] \notin applied
    /\ writer' = p
    /\ Goto(p, "recorded")
    /\ UNCHANGED <<disk, next, tx, boot, serving, ending, bounds>>

CommitMigration(p) ==
    /\ stage[p] = "recorded"
    /\ made' = made \cup tx[p]
    /\ applied' = applied \cup {next[p]}
    /\ writer' = Nobody
    /\ next' = [next EXCEPT ![p] = @ + 1]
    /\ tx' = [tx EXCEPT ![p] = {}]
    /\ Goto(p, "migrate")
    /\ UNCHANGED <<table, boot, serving, ending, bounds>>

Migrated(p) == next[p] \notin Versions /\ Step(p, "migrate", "schemas")
LoadSchemas(p) == Step(p, "schemas", "engine")
NewEngine(p) == Step(p, "engine", "restore")
Restore(p) == Step(p, "restore", "declare")
DeclareTopology(p) == Step(p, "declare", "run")

\* Mutant: an error leaves the store open.
AbandonOpen(p) ==
    /\ writer' = Unlocked(p)
    /\ tx' = [tx EXCEPT ![p] = {}]
    /\ failedAt' = [failedAt EXCEPT ![p] = stage[p]]
    /\ Goto(p, "exited")
    /\ UNCHANGED <<disk, next, boot, serving, signalled, grace>>

\* What an error does to the process: the transaction is rolled back by the
\* deferred Rollback, an opened store is closed by Open or by Build, and the
\* process exits with the error.
Abandon(p) ==
    /\ writer' = Unlocked(p)
    /\ tx' = [tx EXCEPT ![p] = {}]
    /\ handle' = [handle EXCEPT ![p] = FALSE]
    /\ failedAt' = [failedAt EXCEPT ![p] = stage[p]]
    /\ Goto(p, "exited")
    /\ UNCHANGED <<disk, next, driver, known, serving, signalled, grace>>

\* I/O, a full disk, a busy lock or a context a signal cancelled: every step
\* of the boot but the pure ones (logging.New, engine.New) can return an error.
BootFails(p) ==
    /\ stage[p] \in BootStages \ {"engine", "run"}
    /\ faults < MaxFaults
    /\ Abandon(p)
    /\ faults' = faults + 1
    /\ UNCHANGED starts

\* The other process recorded the version after this one read the table.
RecordConflicts(p) ==
    /\ stage[p] = "begun"
    /\ tx[p] = Parts(next[p])
    /\ next[p] \in applied
    /\ Abandon(p)
    /\ UNCHANGED bounds

-----------------------------------------------------------------------------
\* Application.Run and Application.Shutdown

\* Engine.Start, then ListenAndServe on a goroutine of its own.
Run(p) ==
    /\ stage[p] = "run"
    /\ listening' = [listening EXCEPT ![p] = TRUE]
    /\ Goto(p, "serving")
    /\ UNCHANGED <<disk, lock, boot, request, work, ending, bounds>>

\* ListenAndServe returns an error: Run returns it without Shutdown, and the
\* store and the engine are left to the exit of the process.
ListenFails(p) ==
    /\ stage[p] = "serving"
    /\ faults < MaxFaults
    /\ faults' = faults + 1
    /\ listening' = [listening EXCEPT ![p] = FALSE]
    /\ failedAt' = [failedAt EXCEPT ![p] = "listen"]
    /\ Goto(p, "exited")
    /\ UNCHANGED <<disk, lock, boot, request, work, signalled, grace, starts>>

Signal(p) ==
    /\ stage[p] \notin {"down", "load", "exited"}
    /\ ~signalled[p]
    /\ signalled' = [signalled EXCEPT ![p] = TRUE]
    /\ UNCHANGED <<disk, lock, stage, boot, serving, grace, failedAt, bounds>>

Accept(p) ==
    /\ listening[p] /\ ~request[p]
    /\ request' = [request EXCEPT ![p] = TRUE]
    /\ UNCHANGED <<disk, lock, stage, boot, listening, work, ending, bounds>>

Respond(p) ==
    /\ request[p]
    /\ request' = [request EXCEPT ![p] = FALSE]
    /\ UNCHANGED <<disk, lock, stage, boot, listening, work, ending, bounds>>

\* The loops of the engine run on Run's context; one that passed its check
\* before the signal, and a task already buffered, still start afterwards.
Handle(p) ==
    /\ stage[p] \in {"serving", "server", "drain"} /\ ~work[p]
    /\ work' = [work EXCEPT ![p] = TRUE]
    /\ UNCHANGED <<disk, lock, stage, boot, listening, request, ending, bounds>>

Handled(p) ==
    /\ work[p]
    /\ work' = [work EXCEPT ![p] = FALSE]
    /\ UNCHANGED <<disk, lock, stage, boot, listening, request, ending, bounds>>

\* <-ctx.Done(): Shutdown makes the grace context and calls server.Shutdown,
\* which closes the listeners at once.
BeginShutdown(p) ==
    /\ stage[p] = "serving" /\ signalled[p]
    /\ listening' = [listening EXCEPT ![p] = FALSE]
    /\ Goto(p, "server")
    /\ UNCHANGED <<disk, lock, boot, request, work, ending, bounds>>

GraceEnds(p) ==
    /\ stage[p] \in {"server", "drain", "close"}
    /\ grace[p]
    /\ grace' = [grace EXCEPT ![p] = FALSE]
    /\ UNCHANGED <<disk, lock, stage, boot, serving, signalled, failedAt, bounds>>

\* Mutants: the server does not wait for its requests, or waits without the
\* context of the grace period.
ServerDownAtOnce(p) == Step(p, "server", "drain")
ServerDownWaits(p) == ~request[p] /\ Step(p, "server", "drain")

\* server.Shutdown returns when no connection is active, or with the error of
\* the context; the shutdown goes on either way.
ServerDown(p) == (~request[p] \/ ~grace[p]) /\ Step(p, "server", "drain")

\* Engine.Shutdown, likewise.
EngineDown(p) == (~work[p] \/ ~grace[p]) /\ Step(p, "drain", "close")

CloseStore(p) ==
    /\ stage[p] = "close"
    /\ handle' = [handle EXCEPT ![p] = FALSE]
    /\ Goto(p, "exited")
    /\ UNCHANGED <<disk, lock, driver, known, serving, ending, bounds>>

\* The end of a process: its memory goes, its transaction is rolled back.
Reset(p) ==
    /\ writer' = Unlocked(p)
    /\ tx' = [tx EXCEPT ![p] = {}]
    /\ next' = [next EXCEPT ![p] = 1]
    /\ handle' = [handle EXCEPT ![p] = FALSE]
    /\ driver' = [driver EXCEPT ![p] = "none"]
    /\ known' = [known EXCEPT ![p] = {}]
    /\ listening' = [listening EXCEPT ![p] = FALSE]
    /\ request' = [request EXCEPT ![p] = FALSE]
    /\ work' = [work EXCEPT ![p] = FALSE]
    /\ signalled' = [signalled EXCEPT ![p] = FALSE]
    /\ grace' = [grace EXCEPT ![p] = TRUE]
    /\ Goto(p, "down")
    /\ UNCHANGED disk

\* os.Exit: what was still running ends with the process.
Exit(p) ==
    /\ stage[p] = "exited"
    /\ Reset(p)
    /\ failedAt' = [failedAt EXCEPT ![p] = "none"]
    /\ UNCHANGED bounds

Kill(p) ==
    /\ stage[p] \notin {"down", "exited"}
    /\ faults < MaxFaults
    /\ faults' = faults + 1
    /\ Reset(p)
    /\ UNCHANGED <<failedAt, starts>>

-----------------------------------------------------------------------------
Boot(p) ==
    \/ Load(p) \/ OpenStore(p) \/ Ping(p) \/ CreateMigrationTable(p)
    \/ AppliedMigrations(p) \/ SkipMigration(p) \/ BeginMigration(p)
    \/ ExecStatement(p) \/ RecordMigration(p) \/ RecordConflicts(p)
    \/ CommitMigration(p) \/ Migrated(p) \/ LoadSchemas(p) \/ NewEngine(p)
    \/ Restore(p) \/ DeclareTopology(p) \/ Run(p)

Shutdown(p) ==
    \/ BeginShutdown(p) \/ GraceEnds(p) \/ ServerDown(p) \/ EngineDown(p)
    \/ CloseStore(p) \/ Exit(p)

Traffic(p) == Accept(p) \/ Respond(p) \/ Handle(p) \/ Handled(p)

Environment(p) ==
    \/ Start(p) \/ Signal(p) \/ BootFails(p) \/ ListenFails(p) \/ Kill(p)

Next ==
    \E p \in Procs : Boot(p) \/ Shutdown(p) \/ Traffic(p) \/ Environment(p)

Spec == Init /\ [][Next]_vars

\* main runs on: a boot step and a shutdown step that can be taken is taken,
\* and the timer of the grace period fires. Requests and deliveries need not end.
Fairness ==
    \A p \in Procs : WF_vars(Boot(p)) /\ WF_vars(Shutdown(p))

LiveSpec == Spec /\ Fairness

-----------------------------------------------------------------------------
\* Type invariant; the driver a process booted with is one openStore knows.
TypeOK ==
    /\ table \in BOOLEAN
    /\ applied \subseteq Versions
    /\ made \subseteq Versions \X Nat
    /\ writer \in Procs \cup {Nobody}
    /\ stage \in [Procs -> Stages]
    /\ driver \in [Procs -> {"none", "memory", "sqlite"}]
    /\ handle \in [Procs -> BOOLEAN]
    /\ known \in [Procs -> SUBSET Versions]
    /\ next \in [Procs -> 1..(Len(Statements) + 1)]
    /\ tx \in [Procs -> SUBSET (Versions \X Nat)]
    /\ signalled \in [Procs -> BOOLEAN]
    /\ listening \in [Procs -> BOOLEAN]
    /\ request \in [Procs -> BOOLEAN]
    /\ work \in [Procs -> BOOLEAN]
    /\ grace \in [Procs -> BOOLEAN]
    /\ failedAt \in [Procs -> Stages \cup {"none", "listen"}]
    /\ faults \in Nat
    /\ starts \in Nat

\* Whatever failed or was killed, and whoever else was migrating, the file
\* holds the first k migrations, each whole: all of its statements and its row
\* (applyMigration runs them in one transaction).
SchemaWhole ==
    \E k \in 0..Len(Statements) :
        applied = 1..k /\ made = UNION {Parts(v) : v \in applied}

\* A process that got past openStore with a file has every migration in it,
\* also when another process applied some of them.
ServesMigrated ==
    \A p \in Procs :
        driver[p] = "sqlite"
        /\ stage[p] \in {"schemas", "engine", "restore", "declare", "run",
                          "serving", "server", "drain", "close"}
        => applied = Versions

\* The schema a process finds is whole and, once it serves, complete.
SchemaReady == SchemaWhole /\ ServesMigrated

\* "each step can fail the boot cleanly" (docs/architecture.md): a process
\* that returned from main left no store open and no transaction holding the
\* file's lock; the one exception is a listener that cannot be opened, for
\* Run then returns without Shutdown.
CleanExit ==
    \A p \in Procs :
        /\ stage[p] \in {"down", "exited"} => writer # p
        /\ stage[p] = "exited" => ~handle[p] \/ failedAt[p] = "listen"
        /\ stage[p] = "down" => ~handle[p]

\* The store outlives its users: while the grace period lasts, a request or a
\* delivery in progress has an open store (Shutdown's order: server, engine,
\* store).
StoreOutlives ==
    \A p \in Procs :
        (request[p] \/ work[p]) /\ ~handle[p] => ~grace[p]

\* A migration is recorded once, after all the earlier ones, and nothing a
\* migration made is ever unmade.
MigratesInOrder ==
    [][/\ made \subseteq made'
       /\ applied' # applied =>
            \E v \in Versions \ applied :
                applied' = applied \cup {v} /\ applied = 1..(v - 1)]_vars

\* A boot comes to an end (the process serves, exits or is killed), so two
\* processes migrating one file do not wait for each other; and a process that
\* was told to stop ends, whether or not its requests and deliveries do.
ProcessGoesOn ==
    \A p \in Procs :
        /\ stage[p] = "load" ~> stage[p] \in {"serving", "exited", "down"}
        /\ signalled[p] ~> stage[p] \in {"exited", "down"}

=============================================================================
