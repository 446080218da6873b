---------------------------- MODULE MCPersistence ----------------------------
(* What outlives the process: the write-ahead log, the checkpoints, the      *)
(* schema of the administration database, the backups, the memory and what   *)
(* was learned from failures.  They share no state, so a behaviour exercises *)
(* one of them and leaves the others as they start.                          *)
EXTENDS WriteAheadLog, Checkpoints, Migrations, Backup, Memory, Learning, TLC

CONSTANTS w1, w2, w3, f1, f2, m1, m2, m3, err

VARIABLE part

vars == <<part, logVars, checkpointVars, migrationVars, backupVars, memoryVars, learningVars>>

MCLogStories == {w1, w2}
MCStories == {w1, w2, w3}
\* The ids w2 and w3 differ in a slash only.
MCPathOf == (w1 :> "p1") @@ (w2 :> "p2") @@ (w3 :> "p2")
MCVersions == {1, 2, 4}
MCFiles == {f1, f2}
MCContents == {m1, m2, m3}
\* m2 is similar to both others, which are not similar to each other.
MCSimilar == {p \in MCContents \X MCContents : p[1] = p[2] \/ m2 \in {p[1], p[2]}}
MCContentsOf == [t \in Tiers |-> IF t = "episodic" THEN MCContents ELSE {m1}]
MCErrorPrints == {err}

Init == /\ part \in {"log", "checkpoints", "migrations", "backup", "memory", "learning"}
        /\ LogInit /\ CheckpointInit /\ MigrationInit /\ BackupInit
        /\ MemoryInit /\ LearningInit

\* Every part but p keeps its state.
Only(p) == /\ part = p /\ UNCHANGED part
           /\ p # "log" => UNCHANGED logVars
           /\ p # "checkpoints" => UNCHANGED checkpointVars
           /\ p # "migrations" => UNCHANGED migrationVars
           /\ p # "backup" => UNCHANGED backupVars
           /\ p # "memory" => UNCHANGED memoryVars
           /\ p # "learning" => UNCHANGED learningVars

Next == \/ Only("log") /\ LogNext
        \/ Only("checkpoints") /\ CheckpointNext
        \/ Only("migrations") /\ MigrationNext
        \/ Only("backup") /\ BackupNext
        \/ Only("memory") /\ MemoryNext
        \/ Only("learning") /\ LearningNext

Spec == Init /\ [][Next]_vars
=============================================================================
