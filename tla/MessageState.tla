---------------------------- MODULE MessageState ----------------------------
(***************************************************************************)
(* The message lifecycle table of internal/message/state.go.  Message.     *)
(* Transition consults it before every state change, in both stores.       *)
(***************************************************************************)

States == {"CREATED", "QUEUED", "PROCESSING", "ACKNOWLEDGED", "FAILED",
           "RETRYING", "DEAD_LETTERED"}

Transitions ==
    [CREATED       |-> {"QUEUED", "FAILED"},
     QUEUED        |-> {"PROCESSING"},
     PROCESSING    |-> {"ACKNOWLEDGED", "FAILED", "QUEUED"},
     FAILED        |-> {"RETRYING", "DEAD_LETTERED"},
     RETRYING      |-> {"QUEUED"},
     ACKNOWLEDGED  |-> {},
     DEAD_LETTERED |-> {}]

Valid(s) == s \in DOMAIN Transitions

CanTransitionTo(s, next) == Valid(s) /\ next \in Transitions[s]

(* An unknown state has no transitions either. *)
Terminal(s) == Valid(s) => Transitions[s] = {}
=============================================================================
