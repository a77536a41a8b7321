---------------------------- MODULE Configuration ----------------------------
(***************************************************************************)
(* internal/config: what Load accepts, against what the rest of the boot   *)
(* makes of it (logging.New, app.openStore, engine.New). A string is what  *)
(* the code tells apart of it: a format is its trimmed, lower-case word    *)
(* and whether it was padded; an empty string is the word "".              *)
(***************************************************************************)
EXTENDS RetryPolicy

Configurations ==
    [address : BOOLEAN, dsn : BOOLEAN, driver : STRING, engineAttempts : Int,
     retry : Policies, format : [word : STRING, padded : BOOLEAN], level : STRING]

OrDefault(value, fallback) == IF value = 0 THEN fallback ELSE value

\* Config.RetryPolicy
ConfiguredPolicy(c) ==
    WithDefaults([c.retry EXCEPT !.initial = OrDefault(@, DefaultPolicy.initial),
                                 !.max = OrDefault(@, DefaultPolicy.max)])

ParseLevel(level) == level \in {"", "debug", "info", "warn", "warning", "error"}

\* Mutant: the jitter check of the document, without the policy's own checks.
AcceptsUnvalidated(c) ==
    /\ c.address
    /\ c.driver \in {"sqlite", "memory"}
    /\ c.driver = "sqlite" => c.dsn
    /\ c.engineAttempts >= 1
    /\ c.retry.jitter >= 0 /\ c.retry.jitter <= Unit
    /\ c.format.word \in {"json", "text"} /\ ~c.format.padded
    /\ ParseLevel(c.level)

\* Config.Validate; the fields applyEnvironment may have replaced are checked
\* after the replacement.
Accepts(c) ==
    /\ c.address
    /\ c.driver \in {"sqlite", "memory"}
    /\ c.driver = "sqlite" => c.dsn
    /\ c.engineAttempts >= 1
    /\ c.retry.jitter >= 0 /\ c.retry.jitter <= Unit
    /\ Validate(ConfiguredPolicy(c))
    /\ c.format.word \in {"json", "text"} /\ ~c.format.padded
    /\ ParseLevel(c.level)

LoggerAccepts(c) == ParseLevel(c.level) /\ c.format.word \in {"", "json", "text"}

StoreAccepts(c) == c.driver \in {"memory", "sqlite"}

\* engine.New applies the defaults once more before it validates.
EngineAccepts(c) == Validate(WithDefaults(ConfiguredPolicy(c)))

-----------------------------------------------------------------------------
\* A configuration that Load lets through fails neither logging.New nor the
\* choice of the store nor engine.New, and the engine runs with the very
\* policy that was validated: what can still fail the boot is I/O.
AcceptedBoots(c) ==
    Accepts(c) =>
        /\ LoggerAccepts(c) /\ StoreAccepts(c) /\ EngineAccepts(c)
        /\ WithDefaults(ConfiguredPolicy(c)) = ConfiguredPolicy(c)

=============================================================================
