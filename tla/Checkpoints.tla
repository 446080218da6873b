---------------------------- MODULE Checkpoints ----------------------------
(***************************************************************************)
(* orchestrator/checkpoint.py: CheckpointManager, one file per story,      *)
(* written beside its place and renamed into it, so that a save that stops *)
(* short leaves the file as it was.                                        *)
(*                                                                         *)
(* Of a checkpoint the story, whether its state is final, the number of    *)
(* the save and whether max_age_hours have passed since are kept.          *)
(***************************************************************************)
EXTENDS Integers

CONSTANTS SavedStories, PathOf,  \* _get_checkpoint_path, "/" and "\" made "_"
          MaxSaves               \* bound on the saves

ASSUME CheckpointAssumption == MaxSaves \in Nat

Paths == {PathOf[s] : s \in SavedStories}

VARIABLES onDisk,   \* the checkpoint file at each path, NoFile when there is none
          saves,    \* saves so far
          latest    \* history: each story's last save, 0 once it is deleted, or ended and old

checkpointVars == <<onDisk, saves, latest>>

NoFile == [story |-> "none", final |-> TRUE, n |-> 0, old |-> FALSE]
Checkpoint == [story : SavedStories, final : BOOLEAN, n : 1..MaxSaves, old : BOOLEAN]

CheckpointTypeOK == /\ onDisk \in [Paths -> Checkpoint \cup {NoFile}]
                    /\ saves \in 0..MaxSaves /\ latest \in [SavedStories -> 0..MaxSaves]

CheckpointInit == /\ onDisk = [p \in Paths |-> NoFile]
                  /\ saves = 0 /\ latest = [s \in SavedStories |-> 0]

Save(s, final) ==
  /\ saves < MaxSaves /\ saves' = saves + 1
  /\ onDisk' = [onDisk EXCEPT ![PathOf[s]] =
                  [story |-> s, final |-> final, n |-> saves + 1, old |-> FALSE]]
  /\ latest' = [latest EXCEPT ![s] = saves + 1]

\* Mutant of SaveStops: the file is written in place.
SaveStops_InPlace(s) ==
  /\ saves < MaxSaves /\ saves' = saves + 1
  /\ onDisk' = [onDisk EXCEPT ![PathOf[s]] = [story |-> s, final |-> FALSE, n |-> 0, old |-> FALSE]]
  /\ UNCHANGED latest

\* The write or the rename fails, or the process dies before the rename.
SaveStops(s) == saves < MaxSaves /\ saves' = saves + 1 /\ UNCHANGED <<onDisk, latest>>

Delete(s) == /\ onDisk' = [onDisk EXCEPT ![PathOf[s]] = NoFile]
             /\ latest' = [latest EXCEPT ![s] = 0]
             /\ UNCHANGED saves

\* max_age_hours pass.
Hours == /\ onDisk' = [p \in Paths |-> IF onDisk[p] = NoFile THEN NoFile
                                       ELSE [onDisk[p] EXCEPT !.old = TRUE]]
         /\ UNCHANGED <<saves, latest>>

\* What cleanup_completed deletes.
Stale(c) == c.old /\ c.final

\* cleanup_completed; a file it cannot read or delete stays.
Cleanup == \E P \in SUBSET {p \in Paths : Stale(onDisk[p])} :
             /\ onDisk' = [p \in Paths |-> IF p \in P THEN NoFile ELSE onDisk[p]]
             /\ latest' = [s \in SavedStories |->
                             IF \E p \in P : /\ onDisk[p].n = latest[s]
                                          /\ onDisk[p].final
                             THEN 0 ELSE latest[s]]
             /\ UNCHANGED saves

CheckpointNext == \/ \E s \in SavedStories : \/ \E final \in BOOLEAN : Save(s, final)
                                             \/ SaveStops(s) \/ Delete(s)
                  \/ Hours \/ Cleanup

CheckpointSpec == CheckpointInit /\ [][CheckpointNext]_checkpointVars
-----------------------------------------------------------------------------
Alone(s) == \A t \in SavedStories \ {s} : PathOf[t] # PathOf[s]

\* load_checkpoint returns what the story saved last, whatever saves of any
\* story stopped short and however often old ones were cleaned up, until it is
\* deleted, or has ended and is old: for a story whose id makes a path of its
\* own.  So recover_incomplete never misses a story that can be resumed.
LoadsLatest == \A s \in SavedStories : Alone(s) => onDisk[PathOf[s]].n = latest[s]
=============================================================================
