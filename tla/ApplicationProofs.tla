-------------------------- MODULE ApplicationProofs --------------------------
(***************************************************************************)
(* The safety properties of Application for any number of processes, any   *)
(* migrations and any number of failures, kills and starts; and, at the    *)
(* end, what the configuration that starts a process promises of its boot. *)
(***************************************************************************)
EXTENDS Application, Configuration, FiniteSetTheorems, TLAPS

\* With the types: the statements a transaction has run are finitely many, so
\* that they have a number, and a migration under way is one of the list.
Typed ==
    /\ TypeOK
    /\ \A p \in Procs :
        /\ IsFiniteSet(tx[p])
        /\ stage[p] \in {"begun", "recorded"} => next[p] \in Versions

\* The number of migrations.
LEMMA LenType == Len(Statements) \in Nat
BY StatementsAssumption

\* Types are right at first, and stay so.
LEMMA TypedInit == Init => Typed
<1> SUFFICES ASSUME Init PROVE Typed
  BY Zenon
<1>1. 1 \in 1..(Len(Statements) + 1)
  BY LenType
<1>2. TypeOK
  BY <1>1, Zenon DEF Init, TypeOK, Stages
<1>3. \A p \in Procs : IsFiniteSet(tx[p]) /\ stage[p] = "down"
  BY FS_EmptySet, Zenon DEF Init
<1> QED
  BY <1>2, <1>3, Zenon DEF Typed

LEMMA TypedStep ==
    ASSUME Typed, NEW p \in Procs,
           Boot(p) \/ Shutdown(p) \/ Traffic(p) \/ Environment(p)
    PROVE  Typed'
<1> USE LenType DEF Typed, TypeOK, Goto, disk, lock, boot, serving, ending, bounds
<1>1. CASE Load(p)
  BY <1>1, FS_EmptySet DEF Load, BootStages, Stages, Opened, Versions
<1>2. CASE OpenStore(p)
  BY <1>2, FS_EmptySet, Zenon DEF OpenStore, Stages, Opened, Versions
<1>3. CASE Ping(p)
  BY <1>3, FS_EmptySet, Zenon DEF Ping, Step, Stages, Opened, Versions
<1>4. CASE CreateMigrationTable(p)
  BY <1>4, FS_EmptySet, Zenon DEF CreateMigrationTable, Stages, Opened, Versions
<1>5. CASE AppliedMigrations(p)
  BY <1>5, FS_EmptySet DEF AppliedMigrations, Stages, Opened, Versions
<1>6. CASE SkipMigration(p)
  BY <1>6, FS_EmptySet DEF SkipMigration, Stages, Opened, Versions
<1>7. CASE BeginMigration(p)
  BY <1>7, FS_EmptySet DEF BeginMigration, Stages, Opened, Versions
<1>8. CASE ExecStatement(p)
  <2>1. Cardinality(tx[p]) + 1 \in Nat
    BY FS_CardinalityType
  <2>2. next[p] \in Versions
    BY <1>8, Zenon DEF ExecStatement, Versions
  <2> DEFINE part == <<next[p], Cardinality(tx[p]) + 1>>
  <2>3. part \in Versions \X Nat
    BY <2>1, <2>2, Zenon
  <2>4. IsFiniteSet(tx[p] \cup {part})
    BY FS_AddElement, Zenon
  <2> QED
    BY <1>8, <2>3, <2>4 DEF ExecStatement
<1>9. CASE RecordMigration(p)
  BY <1>9, FS_EmptySet, Zenon DEF RecordMigration, Stages, Opened, Versions
<1>10. CASE RecordConflicts(p)
  BY <1>10, FS_EmptySet, Zenon DEF RecordConflicts, Abandon, Unlocked, Stages, Opened, Versions
<1>11. CASE CommitMigration(p)
  <2>1. next[p] \in Versions
    BY <1>11, Zenon DEF CommitMigration
  <2>2. applied' \subseteq Versions /\ made' \subseteq Versions \X Nat
    BY <1>11, <2>1, Zenon DEF CommitMigration
  <2>3. next' \in [Procs -> 1..(Len(Statements) + 1)]
    BY <1>11, <2>1 DEF CommitMigration, Versions
  <2>4. tx' \in [Procs -> SUBSET (Versions \X Nat)] /\ stage' \in [Procs -> Stages]
    BY <1>11, Zenon DEF CommitMigration, Stages, Opened
  <2>5. \A q \in Procs :
          /\ IsFiniteSet(tx'[q])
          /\ stage'[q] \in {"begun", "recorded"} => next'[q] \in Versions
    BY <1>11, FS_EmptySet, Zenon DEF CommitMigration
  <2> QED
    BY <1>11, <2>2, <2>3, <2>4, <2>5, Zenon DEF CommitMigration
<1>12. CASE Migrated(p)
  BY <1>12, FS_EmptySet DEF Migrated, Step, Stages, Opened, Versions
<1>13. CASE LoadSchemas(p)
  BY <1>13, FS_EmptySet, Zenon DEF LoadSchemas, Step, Stages, Opened, Versions
<1>14. CASE NewEngine(p)
  BY <1>14, FS_EmptySet, Zenon DEF NewEngine, Step, Stages, Opened, Versions
<1>15. CASE Restore(p)
  BY <1>15, FS_EmptySet DEF Restore, Step, Stages, Opened, Versions
<1>16. CASE DeclareTopology(p)
  BY <1>16, FS_EmptySet, Zenon DEF DeclareTopology, Step, Stages, Opened, Versions
<1>17. CASE Run(p)
  BY <1>17, FS_EmptySet, Zenon DEF Run, Stages, Opened, Versions
<1>18. CASE BeginShutdown(p)
  BY <1>18, FS_EmptySet DEF BeginShutdown, Stages, Opened, Versions
<1>19. CASE GraceEnds(p)
  BY <1>19, FS_EmptySet, Zenon DEF GraceEnds, Stages, Opened, Versions
<1>20. CASE ServerDown(p)
  BY <1>20, FS_EmptySet, Zenon DEF ServerDown, Step, Stages, Opened, Versions
<1>21. CASE EngineDown(p)
  BY <1>21, FS_EmptySet, Zenon DEF EngineDown, Step, Stages, Opened, Versions
<1>22. CASE CloseStore(p)
  BY <1>22, FS_EmptySet, Zenon DEF CloseStore, Stages, Opened, Versions
<1>23. CASE Exit(p)
  BY <1>23, FS_EmptySet DEF Exit, Reset, Unlocked, Stages, Opened, Versions
<1>24. CASE Accept(p)
  BY <1>24, FS_EmptySet, Zenon DEF Accept, Stages, Opened, Versions
<1>25. CASE Respond(p)
  BY <1>25, FS_EmptySet, Zenon DEF Respond, Stages, Opened, Versions
<1>26. CASE Handle(p)
  BY <1>26, FS_EmptySet, Zenon DEF Handle, Stages, Opened, Versions
<1>27. CASE Handled(p)
  BY <1>27, FS_EmptySet, Zenon DEF Handled, Stages, Opened, Versions
<1>28. CASE Start(p)
  BY <1>28, FS_EmptySet DEF Start, BootStages, Stages, Opened, Versions
<1>29. CASE Signal(p)
  BY <1>29, FS_EmptySet, Zenon DEF Signal, Stages, Opened, Versions
<1>30. CASE BootFails(p)
  BY <1>30, FS_EmptySet DEF BootFails, Abandon, Unlocked, BootStages, Stages, Opened, Versions
<1>31. CASE ListenFails(p)
  BY <1>31, FS_EmptySet DEF ListenFails, Stages, Opened, Versions
<1>32. CASE Kill(p)
  BY <1>32, FS_EmptySet DEF Kill, Reset, Unlocked, Stages, Opened, Versions
<1> QED
  BY <1>1, <1>2, <1>3, <1>4, <1>5, <1>6, <1>7, <1>8, <1>9, <1>10, <1>11, <1>12,
     <1>13, <1>14, <1>15, <1>16, <1>17, <1>18, <1>19, <1>20, <1>21, <1>22, <1>23,
     <1>24, <1>25, <1>26, <1>27, <1>28, <1>29, <1>30, <1>31, <1>32, ZenonT(30)
  DEF Boot, Shutdown, Traffic, Environment

-----------------------------------------------------------------------------
Late == {"schemas", "engine", "restore", "declare", "run",
         "serving", "server", "drain", "close"}

\* Where a process stands with the migrations: all before the one it has
\* reached are applied, and so are those it read as applied; only the process
\* that recorded one and has not committed it is about to change the table,
\* it holds the lock and no other process has applied it.
Migrating(p) ==
    /\ stage[p] \in {"migrate", "begun", "recorded"} =>
          1..(next[p] - 1) \subseteq applied /\ known[p] \subseteq applied
    /\ stage[p] = "recorded" =>
          writer = p /\ next[p] \notin applied /\ tx[p] = Parts(next[p])
    /\ writer = p => stage[p] \in {"begun", "recorded"}
    /\ stage[p] \in Late /\ driver[p] = "sqlite" => applied = Versions

SchemaInv == SchemaWhole /\ \A p \in Procs : Migrating(p)

\* A new file holds no migration, and nobody is migrating it.
LEMMA SchemaInit == Init => SchemaInv
<1> SUFFICES ASSUME Init PROVE SchemaInv
  BY Zenon
<1>1. applied = 1..0 /\ made = UNION {Parts(v) : v \in applied}
  BY DEF Init
<1>2. SchemaWhole
  BY <1>1, LenType DEF SchemaWhole
<1>3. \A p \in Procs : Migrating(p)
  BY NobodyAssumption, Zenon DEF Init, Migrating, Late
<1> QED
  BY <1>2, <1>3, Zenon DEF SchemaInv

\* A commit by the process that holds the lock adds the next migration.
LEMMA CommitStep ==
    ASSUME Typed, SchemaInv, NEW p \in Procs, CommitMigration(p)
    PROVE  /\ SchemaInv'
           /\ next[p] \in Versions \ applied
           /\ applied' = applied \cup {next[p]} /\ applied = 1..(next[p] - 1)
<1> USE LenType
<1>1. PICK k \in 0..Len(Statements) :
        applied = 1..k /\ made = UNION {Parts(v) : v \in applied}
  BY Zenon DEF SchemaInv, SchemaWhole
<1>2. /\ next[p] \in Versions \ applied
      /\ 1..(next[p] - 1) \subseteq applied
      /\ writer = p /\ tx[p] = Parts(next[p])
  BY Zenon DEF CommitMigration, SchemaInv, Migrating, Typed
<1>3. next[p] = k + 1
  <2>1. next[p] \in Nat /\ next[p] > k
    BY <1>1, <1>2 DEF Versions
  <2>2. next[p] - 1 \in 1..(next[p] - 1) \/ next[p] = 1
    BY <1>2 DEF Versions
  <2>3. next[p] - 1 <= k
    BY <1>1, <1>2, <2>2
  <2> QED
    BY <2>1, <2>3
<1>4. applied' = 1..(k + 1) /\ k + 1 \in 0..Len(Statements)
  BY <1>1, <1>2, <1>3 DEF CommitMigration, Versions
<1>5. made' = UNION {Parts(v) : v \in applied'}
  <2>1. applied' = applied \cup {next[p]} /\ made' = made \cup Parts(next[p])
    BY <1>2, Zenon DEF CommitMigration
  <2> QED
    BY <1>1, <2>1, Zenon
<1>6. SchemaWhole'
  BY <1>4, <1>5, Zenon DEF SchemaWhole
<1>7. ASSUME NEW q \in Procs PROVE Migrating(q)'
  <2>1. Migrating(q) /\ Migrating(p)
    BY Zenon DEF SchemaInv
  <2>2. applied' = applied \cup {next[p]} /\ applied \subseteq Versions
    BY Zenon DEF CommitMigration, Typed, TypeOK
  <2>3. CASE q = p
    BY <1>2, <2>1, <2>2, <2>3, NobodyAssumption
    DEF CommitMigration, Migrating, Late, Typed, TypeOK, Goto, boot, Versions
  <2>4. CASE q # p
    BY <1>2, <2>1, <2>2, <2>4, NobodyAssumption, Zenon
    DEF CommitMigration, Migrating, Late, Typed, TypeOK, Goto, boot
  <2> QED
    BY <2>3, <2>4, Zenon
<1>8. applied' = applied \cup {next[p]} /\ applied = 1..(next[p] - 1)
  BY <1>1, <1>3 DEF CommitMigration
<1> QED
  BY <1>2, <1>6, <1>7, <1>8, Zenon DEF SchemaInv

\* Every other step leaves the table and the migrations in it alone, and
\* nobody but the committing process leaves what Migrating says.
LEMMA SchemaStep ==
    ASSUME Typed, SchemaInv, NEW p \in Procs,
           Boot(p) \/ Shutdown(p) \/ Traffic(p) \/ Environment(p)
    PROVE  SchemaInv' /\ ((applied' = applied /\ made' = made) \/ CommitMigration(p))
<1> USE LenType, NobodyAssumption DEF Goto, disk, lock, boot, serving, ending, bounds
<1>0. SUFFICES ASSUME ~CommitMigration(p)
               PROVE  applied' = applied /\ made' = made /\ \A q \in Procs : Migrating(q)'
  BY CommitStep, Zenon DEF SchemaInv, SchemaWhole
<1> USE DEF Typed, TypeOK, SchemaInv, Migrating, Late
<1>1. CASE Load(p)
  BY <1>1 DEF Load, BootStages
<1>2. CASE OpenStore(p)
  BY <1>2 DEF OpenStore
<1>3. CASE Ping(p)
  BY <1>3, Zenon DEF Ping, Step
<1>4. CASE CreateMigrationTable(p)
  BY <1>4, Zenon DEF CreateMigrationTable
<1>5. CASE AppliedMigrations(p)
  BY <1>5 DEF AppliedMigrations, Versions
<1>6. CASE SkipMigration(p)
  BY <1>6 DEF SkipMigration, Versions
<1>7. CASE BeginMigration(p)
  BY <1>7, Zenon DEF BeginMigration
<1>8. CASE ExecStatement(p)
  BY <1>8 DEF ExecStatement
<1>9. CASE RecordMigration(p)
  BY <1>9 DEF RecordMigration
<1>10. CASE RecordConflicts(p)
  BY <1>10 DEF RecordConflicts, Abandon, Unlocked
<1>11. CASE Migrated(p)
  <2>0. next[p] \in 1..(Len(Statements) + 1) /\ next[p] \notin 1..Len(Statements)
    BY <1>11, Zenon DEF Migrated, Versions
  <2>1. next[p] = Len(Statements) + 1
    BY ONLY <2>0, LenType
  <2>2. 1..Len(Statements) \subseteq applied
    BY <1>11, <2>1 DEF Migrated, Step
  <2>3. applied = Versions
    BY <2>2, Zenon DEF Versions
  <2> QED
    BY <1>11, <2>3, Zenon DEF Migrated, Step
<1>12. CASE LoadSchemas(p)
  BY <1>12 DEF LoadSchemas, Step
<1>13. CASE NewEngine(p)
  BY <1>13 DEF NewEngine, Step
<1>14. CASE Restore(p)
  BY <1>14, Zenon DEF Restore, Step
<1>15. CASE DeclareTopology(p)
  BY <1>15 DEF DeclareTopology, Step
<1>16. CASE Run(p)
  BY <1>16 DEF Run
<1>17. CASE BeginShutdown(p)
  BY <1>17 DEF BeginShutdown
<1>18. CASE GraceEnds(p)
  BY <1>18, Zenon DEF GraceEnds
<1>19. CASE ServerDown(p)
  BY <1>19, Zenon DEF ServerDown, Step
<1>20. CASE EngineDown(p)
  BY <1>20 DEF EngineDown, Step
<1>21. CASE CloseStore(p)
  BY <1>21, Zenon DEF CloseStore
<1>22. CASE Exit(p)
  BY <1>22 DEF Exit, Reset, Unlocked
<1>23. CASE Accept(p)
  BY <1>23, Zenon DEF Accept
<1>24. CASE Respond(p)
  BY <1>24, Zenon DEF Respond
<1>25. CASE Handle(p)
  BY <1>25, Zenon DEF Handle
<1>26. CASE Handled(p)
  BY <1>26, Zenon DEF Handled
<1>27. CASE Start(p)
  BY <1>27, Zenon DEF Start, BootStages
<1>28. CASE Signal(p)
  BY <1>28, Zenon DEF Signal
<1>29. CASE BootFails(p)
  BY <1>29 DEF BootFails, Abandon, Unlocked, BootStages
<1>30. CASE ListenFails(p)
  BY <1>30, Zenon DEF ListenFails
<1>31. CASE Kill(p)
  BY <1>31 DEF Kill, Reset, Unlocked
<1> QED
  BY <1>0, <1>1, <1>2, <1>3, <1>4, <1>5, <1>6, <1>7, <1>8, <1>9, <1>10, <1>11, <1>12,
     <1>13, <1>14, <1>15, <1>16, <1>17, <1>18, <1>19, <1>20, <1>21, <1>22, <1>23,
     <1>24, <1>25, <1>26, <1>27, <1>28, <1>29, <1>30, <1>31, ZenonT(30)
  DEF Boot, Shutdown, Traffic, Environment

-----------------------------------------------------------------------------
\* Who uses the store, and until when: the shutdown passes a stage with a
\* request or a delivery still running only when the grace period is over.
Living(p) ==
    /\ stage[p] \in Opened => handle[p]
    /\ stage[p] \in {"down", "load", "open"} => ~handle[p]
    /\ stage[p] # "exited" => failedAt[p] = "none"
    /\ stage[p] = "exited" => (handle[p] <=> failedAt[p] = "listen")
    /\ listening[p] => stage[p] = "serving"
    /\ request[p] \/ work[p] => stage[p] \in {"serving", "server", "drain", "close", "exited"}
    /\ request[p] /\ stage[p] \in {"drain", "close"} => ~grace[p]
    /\ work[p] /\ stage[p] = "close" => ~grace[p]
    /\ stage[p] = "exited" /\ ~handle[p] /\ (request[p] \/ work[p]) => ~grace[p]

\* Every step preserves it.
LEMMA LivingStep ==
    ASSUME Typed, \A q \in Procs : Living(q), NEW p \in Procs,
           Boot(p) \/ Shutdown(p) \/ Traffic(p) \/ Environment(p)
    PROVE  \A q \in Procs : Living(q)'
<1> USE DEF Typed, TypeOK, Living, Goto, disk, lock, boot, serving, ending, bounds, Opened
<1>1. CASE Load(p)
  BY <1>1 DEF Load, BootStages
<1>2. CASE OpenStore(p)
  BY <1>2 DEF OpenStore
<1>3. CASE Ping(p)
  BY <1>3 DEF Ping, Step
<1>4. CASE CreateMigrationTable(p)
  BY <1>4 DEF CreateMigrationTable
<1>5. CASE AppliedMigrations(p)
  BY <1>5 DEF AppliedMigrations
<1>6. CASE SkipMigration(p)
  BY <1>6, Zenon DEF SkipMigration
<1>7. CASE BeginMigration(p)
  BY <1>7 DEF BeginMigration
<1>8. CASE ExecStatement(p)
  BY <1>8, Zenon DEF ExecStatement
<1>9. CASE RecordMigration(p)
  BY <1>9 DEF RecordMigration
<1>10. CASE RecordConflicts(p)
  BY <1>10 DEF RecordConflicts, Abandon, Unlocked
<1>11. CASE CommitMigration(p)
  BY <1>11 DEF CommitMigration
<1>12. CASE Migrated(p)
  BY <1>12 DEF Migrated, Step
<1>13. CASE LoadSchemas(p)
  BY <1>13 DEF LoadSchemas, Step
<1>14. CASE NewEngine(p)
  BY <1>14 DEF NewEngine, Step
<1>15. CASE Restore(p)
  BY <1>15 DEF Restore, Step
<1>16. CASE DeclareTopology(p)
  BY <1>16 DEF DeclareTopology, Step
<1>17. CASE Run(p)
  BY <1>17 DEF Run
<1>18. CASE BeginShutdown(p)
  BY <1>18 DEF BeginShutdown
<1>19. CASE GraceEnds(p)
  BY <1>19 DEF GraceEnds
<1>20. CASE ServerDown(p)
  BY <1>20 DEF ServerDown, Step
<1>21. CASE EngineDown(p)
  BY <1>21 DEF EngineDown, Step
<1>22. CASE CloseStore(p)
  BY <1>22 DEF CloseStore
<1>23. CASE Exit(p)
  BY <1>23 DEF Exit, Reset, Unlocked
<1>24. CASE Accept(p)
  BY <1>24 DEF Accept
<1>25. CASE Respond(p)
  BY <1>25 DEF Respond
<1>26. CASE Handle(p)
  BY <1>26 DEF Handle
<1>27. CASE Handled(p)
  BY <1>27 DEF Handled
<1>28. CASE Start(p)
  BY <1>28 DEF Start, BootStages
<1>29. CASE Signal(p)
  BY <1>29, Zenon DEF Signal
<1>30. CASE BootFails(p)
  BY <1>30 DEF BootFails, Abandon, Unlocked, BootStages
<1>31. CASE ListenFails(p)
  BY <1>31 DEF ListenFails
<1>32. CASE Kill(p)
  BY <1>32 DEF Kill, Reset, Unlocked
<1> QED
  BY <1>1, <1>2, <1>3, <1>4, <1>5, <1>6, <1>7, <1>8, <1>9, <1>10, <1>11, <1>12,
     <1>13, <1>14, <1>15, <1>16, <1>17, <1>18, <1>19, <1>20, <1>21, <1>22, <1>23,
     <1>24, <1>25, <1>26, <1>27, <1>28, <1>29, <1>30, <1>31, <1>32, ZenonT(30)
  DEF Boot, Shutdown, Traffic, Environment

-----------------------------------------------------------------------------
Inv == Typed /\ SchemaInv /\ \A p \in Procs : Living(p)

\* Inv is inductive, and only a commit changes the file's migrations.
THEOREM Inductive ==
    /\ Init => Inv
    /\ Inv /\ [Next]_vars => Inv'
    /\ Inv /\ [Next]_vars =>
          \/ applied' = applied /\ made' = made
          \/ \E p \in Procs : CommitMigration(p)
<1>1. Init => Inv
  <2>1. Init => \A p \in Procs : Living(p)
    BY DEF Init, Living, Opened
  <2> QED
    BY <2>1, TypedInit, SchemaInit, Zenon DEF Inv
<1>2. ASSUME Inv, Next
      PROVE  Inv' /\ ((applied' = applied /\ made' = made) \/ \E p \in Procs : CommitMigration(p))
  <2>1. PICK p \in Procs : Boot(p) \/ Shutdown(p) \/ Traffic(p) \/ Environment(p)
    BY <1>2, Zenon DEF Next
  <2> QED
    BY <1>2, <2>1, TypedStep, SchemaStep, LivingStep, Zenon DEF Inv
<1>3. ASSUME Inv, UNCHANGED vars
      PROVE  Inv' /\ applied' = applied /\ made' = made
  BY <1>3, Zenon DEF vars, disk, lock, boot, serving, ending, bounds, Inv, Typed, TypeOK,
       SchemaInv, SchemaWhole, Migrating, Living
<1> QED
  BY <1>1, <1>2, <1>3, Zenon

\* The invariant says what the runs check.
LEMMA InvImplies ==
    Inv => TypeOK /\ SchemaWhole /\ ServesMigrated /\ CleanExit /\ StoreOutlives
<1> SUFFICES ASSUME Inv
             PROVE  TypeOK /\ SchemaWhole /\ ServesMigrated /\ CleanExit /\ StoreOutlives
  BY Zenon
<1>1. TypeOK /\ SchemaWhole
  BY Zenon DEF Inv, Typed, SchemaInv
<1>2. ServesMigrated
  BY Zenon DEF Inv, SchemaInv, Migrating, ServesMigrated, Late
<1>3. CleanExit
  BY Zenon DEF Inv, SchemaInv, Migrating, Living, CleanExit
<1>4. StoreOutlives
  BY Zenon DEF Inv, Living, StoreOutlives, Opened
<1> QED
  BY <1>1, <1>2, <1>3, <1>4, Zenon

\* The file always holds the first migrations, each whole, and a process that
\* is past openStore has them all: whatever is killed or fails in between, and
\* however many processes boot on the file at once (migrate, applyMigration).
THEOREM SchemaAlwaysWhole == Spec => []SchemaReady
<1>1. Spec => []Inv
  BY Inductive, PTL DEF Spec
<1>2. Inv => SchemaReady
  BY InvImplies, Zenon DEF SchemaReady
<1> QED
  BY <1>1, <1>2, PTL

\* A process that returned from main holds neither store nor lock, unless its
\* listener failed (Build closes the store on every error).
THEOREM ExitsAreClean == Spec => []CleanExit
<1>1. Spec => []Inv
  BY Inductive, PTL DEF Spec
<1>2. Inv => CleanExit
  BY InvImplies, Zenon
<1> QED
  BY <1>1, <1>2, PTL

\* Within the grace period no request and no delivery finds the store closed
\* (the order of Application.Shutdown).
THEOREM StoreAlwaysOutlives == Spec => []StoreOutlives
<1>1. Spec => []Inv
  BY Inductive, PTL DEF Spec
<1>2. Inv => StoreOutlives
  BY InvImplies, Zenon
<1> QED
  BY <1>1, <1>2, PTL

\* Migrations are recorded in order, one at a time, and stay.
THEOREM AlwaysMigratesInOrder == Spec => MigratesInOrder
<1>1. Spec => []Inv
  BY Inductive, PTL DEF Spec
<1>2. Inv /\ [Next]_vars =>
        [/\ made \subseteq made'
         /\ applied' # applied =>
              \E v \in Versions \ applied :
                  applied' = applied \cup {v} /\ applied = 1..(v - 1)]_vars
  <2>1. ASSUME Inv, NEW p \in Procs, CommitMigration(p)
        PROVE  /\ made \subseteq made'
               /\ \E v \in Versions \ applied :
                    applied' = applied \cup {v} /\ applied = 1..(v - 1)
    BY <2>1, CommitStep, Zenon DEF Inv, CommitMigration
  <2> QED
    BY <2>1, Inductive, Zenon
<1> QED
  BY <1>1, <1>2, PTL DEF Spec, MigratesInOrder
-----------------------------------------------------------------------------
(* What config.Load lets through boots, for every configuration. *)

\* WithDefaults applied twice is WithDefaults applied once: config.RetryPolicy
\* and engine.New both apply it, and the second application changes nothing.
THEOREM DefaultsOnce ==
    ASSUME NEW p \in Policies
    PROVE  WithDefaults(WithDefaults(p)) = WithDefaults(p)
<1> DEFINE w == WithDefaults(p)
<1>1. /\ OrElse(w.maxAttempts, DefaultPolicy.maxAttempts) = w.maxAttempts
      /\ OrElse(w.initial, DefaultPolicy.initial) = w.initial
      /\ OrElse(w.max, DefaultPolicy.max) = w.max
      /\ OrElse(w.multiplier, DefaultPolicy.multiplier) = w.multiplier
  BY PolicyAssumption, Zenon DEF WithDefaults, OrElse, Policies, Validate
<1>2. (IF w.jitter < 0 THEN 0 ELSE w.jitter) = w.jitter
  BY PolicyAssumption, Zenon DEF WithDefaults, Policies
<1>3. w = [maxAttempts |-> w.maxAttempts, initial |-> w.initial, max |-> w.max,
           multiplier |-> w.multiplier, jitter |-> w.jitter]
  BY Zenon DEF WithDefaults
<1> QED
  BY <1>1, <1>2, <1>3, ZenonT(30) DEF WithDefaults

\* Config.RetryPolicy returns a policy.
LEMMA ConfiguredPolicyType ==
    ASSUME NEW c \in Configurations
    PROVE  [c.retry EXCEPT !.initial = OrDefault(@, DefaultPolicy.initial),
                           !.max = OrDefault(@, DefaultPolicy.max)] \in Policies
<1>1. c.retry \in Policies /\ DefaultPolicy \in Policies
  BY PolicyAssumption, Zenon DEF Configurations
<1>2. /\ OrDefault(c.retry.initial, DefaultPolicy.initial) \in Int
      /\ OrDefault(c.retry.max, DefaultPolicy.max) \in Int
  BY <1>1, Zenon DEF OrDefault, Policies
<1> QED
  BY <1>1, <1>2, Zenon DEF Policies

\* A configuration that Config.Validate accepts is accepted by logging.New, by
\* openStore and by engine.New, and the engine runs with the policy that was
\* validated (AcceptedBoots), whatever the numbers in it.
THEOREM AcceptedConfigurationsBoot ==
    \A c \in Configurations : AcceptedBoots(c)
<1> SUFFICES ASSUME NEW c \in Configurations, Accepts(c)
             PROVE  /\ LoggerAccepts(c) /\ StoreAccepts(c) /\ EngineAccepts(c)
                    /\ WithDefaults(ConfiguredPolicy(c)) = ConfiguredPolicy(c)
  BY Zenon DEF AcceptedBoots
<1>1. LoggerAccepts(c) /\ StoreAccepts(c)
  BY Zenon DEF Accepts, LoggerAccepts, StoreAccepts
<1>2. WithDefaults(ConfiguredPolicy(c)) = ConfiguredPolicy(c)
  BY ConfiguredPolicyType, DefaultsOnce, Zenon DEF ConfiguredPolicy
<1>3. EngineAccepts(c)
  BY <1>2, Zenon DEF Accepts, EngineAccepts
<1> QED
  BY <1>1, <1>2, <1>3, Zenon
=============================================================================
