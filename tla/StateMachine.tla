---------------------------- MODULE StateMachine ----------------------------
(***************************************************************************)
(* orchestrator/state_machine.py.  One StateMachine is shared by every     *)
(* story of the orchestrator.  transition() works on a Story OBJECT: it    *)
(* checks and assigns that object's state, but files the record of the     *)
(* move under the story's ID.  Two objects can carry one id (a component   *)
(* that returns a copied Story makes a second one), so the object and the  *)
(* id are kept apart here: IdOf says which id an object carries.           *)
(*                                                                         *)
(* A call whose guard fails raises ValueError before anything is assigned, *)
(* so it is a stuttering step.  Callbacks run after the record is filed,   *)
(* their exceptions are swallowed, and they are left out.                  *)
(***************************************************************************)
EXTENDS StoryStates, Naturals, Sequences, SequencesExt

CONSTANTS Objects,       \* Story objects
          Ids,           \* story ids
          IdOf,          \* the id each object carries
          MaxMoves       \* bound on the records filed under one id

ASSUME IdOfAssumption == IdOf \in [Objects -> Ids]
ASSUME MaxMovesAssumption == MaxMoves \in Nat

VARIABLES state,         \* state[o]: story.state of object o
          history        \* history[i]: _transition_history of id i

machineVars == <<state, history>>

Move(from, to) == [from |-> from, to |-> to]
Moves == [from : StoryState, to : StoryState]

MachineTypeOK == /\ state \in [Objects -> StoryState]
                 /\ history \in [Ids -> Seq(Moves)]

MachineInit == /\ state = [o \in Objects |-> "RECEIVED"]
               /\ history = [i \in Ids |-> <<>>]

\* Mutant of Transition: the old state is read too late.
Transition_LateFrom(o, to) ==
  /\ Len(history[IdOf[o]]) < MaxMoves
  /\ IsValidTransition(state[o], to)
  /\ state' = [state EXCEPT ![o] = to]
  /\ history' = [history EXCEPT ![IdOf[o]] = Append(@, Move(to, to))]

Transition(o, to) ==
  /\ Len(history[IdOf[o]]) < MaxMoves
  /\ IsValidTransition(state[o], to)
  /\ state' = [state EXCEPT ![o] = to]
  /\ history' = [history EXCEPT ![IdOf[o]] = Append(@, Move(state[o], to))]

\* rollback(): its own check first, then the same transition().
Rollback(o, to) == CanRollbackTo(state[o], to) /\ Transition(o, to)

MachineNext == \E o \in Objects, to \in StoryState : Transition(o, to) \/ Rollback(o, to)

MachineSpec == MachineInit /\ [][MachineNext]_machineVars
-----------------------------------------------------------------------------
AloneOnItsId(o) == \A p \in Objects : IdOf[p] = IdOf[o] => p = o

StateAfter(h) == IF h = <<>> THEN "RECEIVED" ELSE Last(h).to

IsPath(h) == \A k \in 1..(Len(h) - 1) : h[k].to = h[k + 1].from

\* The record of a story whose id no other object carries is one unbroken
\* path from RECEIVED to the state the story is in now: get_history, which
\* the orchestrator exposes through get_state_history, can be trusted.
HistoryExplainsState ==
  \A o \in Objects : AloneOnItsId(o) =>
    /\ IsPath(history[IdOf[o]])
    /\ StateAfter(history[IdOf[o]]) = state[o]

=============================================================================
