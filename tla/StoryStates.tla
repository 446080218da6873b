---------------------------- MODULE StoryStates ----------------------------
(***************************************************************************)
(* The ten states of a story and the table of legal moves between them     *)
(* (types/story.py StoryState, orchestrator/state_machine.py).  Only       *)
(* operators: StateMachine.tla turns them into a component of its own and  *)
(* Orchestrator.tla drives them from the life of a story.                  *)
(***************************************************************************)

StoryState == { "RECEIVED", "ANALYZING", "PLANNING", "CODING", "REVIEWING",
                "TESTING", "DEPLOYING", "VERIFYING", "DONE", "FAILED" }

Terminal == { "DONE", "FAILED" }

\* StateMachine._valid_transitions.
ValidTransitions ==
  [ RECEIVED  |-> {"ANALYZING"},
    ANALYZING |-> {"PLANNING", "FAILED"},
    PLANNING  |-> {"CODING", "FAILED"},
    CODING    |-> {"REVIEWING", "FAILED"},
    REVIEWING |-> {"CODING", "TESTING", "FAILED"},
    TESTING   |-> {"CODING", "REVIEWING", "DEPLOYING", "FAILED"},
    DEPLOYING |-> {"VERIFYING", "CODING", "FAILED"},
    VERIFYING |-> {"CODING", "DONE", "FAILED"},
    DONE      |-> {},
    FAILED    |-> {} ]

\* is_valid_transition: transition() raises ValueError when it is FALSE.
IsValidTransition(from, to) == to \in ValidTransitions[from]

\* can_rollback_to: three moves back to CODING, and FAILED from anywhere.
CanRollbackTo(from, to) ==
  \/ to = "FAILED"
  \/ from \in {"TESTING", "REVIEWING", "VERIFYING"} /\ to = "CODING"
=============================================================================
