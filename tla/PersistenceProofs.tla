-------------------------- MODULE PersistenceProofs --------------------------
(***************************************************************************)
(* What outlives the process, for any stories, files, versions and bounds: *)
(* the checkpoints, the backups, the migrations, the learnings and the     *)
(* write-ahead log, each with its inductive invariant.                     *)
(***************************************************************************)
EXTENDS WriteAheadLog, Checkpoints, Migrations, Backup, Learning, FiniteSetTheorems, TLAPS

(***************************************************************************)
(* Checkpoints.  LoadsLatest is inductive once it is known whose file is   *)
(* where, and that the number of a save names its story: cleanup_completed *)
(* goes by file, and must not touch the last save of another story.        *)
(***************************************************************************)
Saved(s, k, c, p) ==    \* story s, its last save k, and the file c at path p
  k # 0 /\ c.n = k => c.story = s /\ PathOf[s] = p

CheckpointInv ==
  /\ CheckpointTypeOK
  /\ \A p \in Paths : onDisk[p].n <= saves
  /\ \A s \in SavedStories : latest[s] <= saves
  /\ \A s \in SavedStories, p \in Paths : Saved(s, latest[s], onDisk[p], p)
  /\ LoadsLatest

LEMMA CheckpointTypes ==
  ASSUME CheckpointInv
  PROVE  /\ onDisk \in [Paths -> Checkpoint \cup {NoFile}]
         /\ latest \in [SavedStories -> 0..MaxSaves] /\ saves \in 0..MaxSaves /\ saves \in Nat
         /\ \A s \in SavedStories : PathOf[s] \in Paths
         /\ \A p \in Paths : onDisk[p].n \in Nat
         /\ \A s \in SavedStories : latest[s] \in Nat
<1>1. /\ onDisk \in [Paths -> Checkpoint \cup {NoFile}]
      /\ latest \in [SavedStories -> 0..MaxSaves] /\ saves \in 0..MaxSaves
  BY DEF CheckpointInv, CheckpointTypeOK
<1>2. \A s \in SavedStories : PathOf[s] \in Paths
  BY DEF Paths
<1>3. ASSUME NEW p \in Paths PROVE onDisk[p].n \in Nat
  <2>1. onDisk[p] \in Checkpoint \/ onDisk[p] = NoFile
    BY <1>1
  <2> QED
    BY <2>1, CheckpointAssumption DEF Checkpoint, NoFile
<1> QED
  BY <1>1, <1>2, <1>3, CheckpointAssumption

LEMMA SaveKeeps ==
  ASSUME CheckpointInv, NEW s \in SavedStories, NEW final \in BOOLEAN, Save(s, final)
  PROVE  CheckpointInv'
<1> DEFINE c == [story |-> s, final |-> final, n |-> saves + 1, old |-> FALSE]
<1>1. /\ saves' = saves + 1 /\ saves' \in 0..MaxSaves /\ saves + 1 \in 1..MaxSaves
      /\ saves + 1 \in 0..MaxSaves
  BY CheckpointTypes, CheckpointAssumption DEF Save
<1>2. c \in Checkpoint /\ c.n = saves + 1 /\ c.story = s
  BY <1>1 DEF Checkpoint
<1>3. onDisk' = [onDisk EXCEPT ![PathOf[s]] = c] /\ latest' = [latest EXCEPT ![s] = saves + 1]
  BY DEF Save
<1> HIDE DEF c
<1>4. /\ onDisk' \in [Paths -> Checkpoint \cup {NoFile}] /\ latest' \in [SavedStories -> 0..MaxSaves]
      /\ onDisk'[PathOf[s]] = c /\ latest'[s] = saves + 1
      /\ \A p \in Paths \ {PathOf[s]} : onDisk'[p] = onDisk[p]
      /\ \A t \in SavedStories \ {s} : latest'[t] = latest[t]
  BY <1>1, <1>2, <1>3, CheckpointTypes
<1>5. \A p \in Paths : onDisk'[p].n <= saves'
  <2> SUFFICES ASSUME NEW p \in Paths PROVE onDisk'[p].n <= saves + 1
    BY <1>1
  <2>1. CASE p = PathOf[s]
    BY <2>1, <1>2, <1>4, CheckpointTypes
  <2>2. CASE p # PathOf[s]
    BY <2>2, <1>4, CheckpointTypes DEF CheckpointInv
  <2> QED
    BY <2>1, <2>2
<1>6. \A t \in SavedStories : latest'[t] <= saves'
  BY <1>1, <1>4, CheckpointTypes DEF CheckpointInv
<1>7. ASSUME NEW t \in SavedStories, NEW p \in Paths
      PROVE  Saved(t, latest'[t], onDisk'[p], p)
  <2>1. \A q \in Paths : onDisk[q].n # saves + 1
    BY CheckpointTypes DEF CheckpointInv
  <2>2. latest[t] # saves + 1
    BY CheckpointTypes DEF CheckpointInv
  <2> QED
    BY <1>2, <1>4, <2>1, <2>2 DEF CheckpointInv, Saved
<1>8. LoadsLatest'
  <2> SUFFICES ASSUME NEW t \in SavedStories, Alone(t) PROVE onDisk'[PathOf[t]].n = latest'[t]
    BY DEF LoadsLatest, Alone
  <2>1. CASE t = s
    BY <2>1, <1>2, <1>4
  <2>2. CASE t # s
    BY <2>2, <1>4, CheckpointTypes DEF Alone, CheckpointInv, LoadsLatest
  <2> QED
    BY <2>1, <2>2
<1> QED
  BY <1>1, <1>4, <1>5, <1>6, <1>7, <1>8 DEF CheckpointInv, CheckpointTypeOK

LEMMA DeleteKeeps ==
  ASSUME CheckpointInv, NEW s \in SavedStories, Delete(s)
  PROVE  CheckpointInv'
<1>1. /\ saves' = saves /\ onDisk' \in [Paths -> Checkpoint \cup {NoFile}]
      /\ latest' \in [SavedStories -> 0..MaxSaves]
      /\ onDisk'[PathOf[s]] = NoFile /\ latest'[s] = 0
      /\ \A p \in Paths \ {PathOf[s]} : onDisk'[p] = onDisk[p]
      /\ \A t \in SavedStories \ {s} : latest'[t] = latest[t]
  BY CheckpointTypes, CheckpointAssumption DEF Delete
<1>2. NoFile.n = 0
  BY DEF NoFile
<1>3. \A p \in Paths : onDisk'[p].n <= saves'
  BY <1>1, <1>2, CheckpointTypes DEF CheckpointInv
<1>4. \A t \in SavedStories : latest'[t] <= saves'
  BY <1>1, CheckpointTypes DEF CheckpointInv
<1>5. \A t \in SavedStories, p \in Paths : Saved(t, latest'[t], onDisk'[p], p)
  BY <1>1, <1>2 DEF CheckpointInv, Saved
<1>6. LoadsLatest'
  <2> SUFFICES ASSUME NEW t \in SavedStories, Alone(t) PROVE onDisk'[PathOf[t]].n = latest'[t]
    BY DEF LoadsLatest, Alone
  <2>1. CASE t = s
    BY <2>1, <1>1, <1>2
  <2>2. CASE t # s
    BY <2>2, <1>1, CheckpointTypes DEF Alone, CheckpointInv, LoadsLatest
  <2> QED
    BY <2>1, <2>2
<1> QED
  BY <1>1, <1>3, <1>4, <1>5, <1>6 DEF CheckpointInv, CheckpointTypeOK

LEMMA HoursKeep ==
  ASSUME CheckpointInv, Hours
  PROVE  CheckpointInv'
<1>1. ASSUME NEW p \in Paths
      PROVE  /\ onDisk'[p] \in Checkpoint \cup {NoFile}
             /\ onDisk'[p].n = onDisk[p].n /\ onDisk'[p].story = onDisk[p].story
  <2>1. onDisk[p] \in Checkpoint \cup {NoFile}
    BY CheckpointTypes
  <2>2. CASE onDisk[p] = NoFile
    BY <2>2 DEF Hours
  <2>3. CASE onDisk[p] # NoFile
    <3>1. onDisk'[p] = [onDisk[p] EXCEPT !.old = TRUE] /\ onDisk[p] \in Checkpoint
      BY <2>1, <2>3 DEF Hours
    <3> QED
      BY <3>1 DEF Checkpoint
  <2> QED
    BY <2>2, <2>3
<1>2. /\ onDisk' \in [Paths -> Checkpoint \cup {NoFile}] /\ saves' = saves /\ latest' = latest
  BY <1>1 DEF Hours
<1>3. CheckpointTypeOK'
  BY <1>2, CheckpointTypes DEF CheckpointTypeOK
<1>4. \A s \in SavedStories, p \in Paths : Saved(s, latest'[s], onDisk'[p], p)
  BY <1>1, <1>2 DEF CheckpointInv, Saved
<1>5. LoadsLatest'
  BY <1>1, <1>2, CheckpointTypes DEF CheckpointInv, LoadsLatest, Alone
<1> QED
  BY <1>1, <1>2, <1>3, <1>4, <1>5 DEF CheckpointInv

LEMMA CleanupKeeps ==
  ASSUME CheckpointInv, Cleanup
  PROVE  CheckpointInv'
<1>1. PICK P \in SUBSET {p \in Paths : Stale(onDisk[p])} :
        /\ onDisk' = [p \in Paths |-> IF p \in P THEN NoFile ELSE onDisk[p]]
        /\ latest' = [s \in SavedStories |->
                        IF \E p \in P : /\ onDisk[p].n = latest[s]
                                        /\ onDisk[p].final
                        THEN 0 ELSE latest[s]]
        /\ UNCHANGED saves
  BY DEF Cleanup
<1>2. /\ onDisk' \in [Paths -> Checkpoint \cup {NoFile}] /\ latest' \in [SavedStories -> 0..MaxSaves]
      /\ saves' = saves /\ P \subseteq Paths
      /\ \A p \in Paths : onDisk'[p] = IF p \in P THEN NoFile ELSE onDisk[p]
  BY <1>1, CheckpointTypes, CheckpointAssumption
<1>3. ASSUME NEW s \in SavedStories
      PROVE  /\ latest'[s] = 0 \/ latest'[s] = latest[s]
             /\ (\E p \in P : onDisk[p].n = latest[s] /\ onDisk[p].final) => latest'[s] = 0
             /\ ~(\E p \in P : onDisk[p].n = latest[s] /\ onDisk[p].final) => latest'[s] = latest[s]
  BY <1>1
<1>4. NoFile.n = 0 /\ \A p \in P : onDisk[p].final
  BY <1>1 DEF NoFile, Stale
<1>5. \A p \in Paths : onDisk'[p].n <= saves'
  BY <1>2, <1>4, CheckpointTypes DEF CheckpointInv
<1>6. \A s \in SavedStories : latest'[s] <= saves'
  BY <1>2, <1>3, CheckpointTypes DEF CheckpointInv
<1>7. \A s \in SavedStories, p \in Paths : Saved(s, latest'[s], onDisk'[p], p)
  BY <1>2, <1>3, <1>4 DEF CheckpointInv, Saved
<1>8. LoadsLatest'
  <2> SUFFICES ASSUME NEW s \in SavedStories, Alone(s) PROVE onDisk'[PathOf[s]].n = latest'[s]
    BY DEF LoadsLatest, Alone
  <2>1. onDisk[PathOf[s]].n = latest[s] /\ PathOf[s] \in Paths
    BY CheckpointTypes DEF CheckpointInv, LoadsLatest
  <2>2. CASE PathOf[s] \in P
    BY <2>1, <2>2, <1>2, <1>3, <1>4
  <2>3. CASE PathOf[s] \notin P
    <3>1. \A p \in P : latest[s] # 0 => onDisk[p].n # latest[s]
      BY <2>3, <1>2 DEF CheckpointInv, Saved
    <3> QED
      BY <2>1, <2>3, <3>1, <1>2, <1>3
  <2> QED
    BY <2>2, <2>3
<1> QED
  BY <1>2, <1>5, <1>6, <1>7, <1>8, CheckpointTypes DEF CheckpointInv, CheckpointTypeOK

\* CheckpointManager.load_checkpoint: the last save of a story whose id makes
\* a path of its own is the one that is found.
THEOREM LastSaveIsLoaded == CheckpointSpec => []LoadsLatest
<1>1. CheckpointInit => CheckpointInv
  <2> SUFFICES ASSUME CheckpointInit PROVE CheckpointInv
    OBVIOUS
  <2>1. \A s \in SavedStories : PathOf[s] \in Paths
    BY DEF Paths
  <2>2. /\ onDisk = [p \in Paths |-> NoFile] /\ NoFile.n = 0 /\ 0 \in 0..MaxSaves
        /\ saves = 0 /\ latest = [s \in SavedStories |-> 0]
    BY CheckpointAssumption DEF CheckpointInit, NoFile
  <2> QED
    BY <2>1, <2>2 DEF CheckpointInv, CheckpointTypeOK, LoadsLatest, Saved
<1>2. CheckpointInv /\ [CheckpointNext]_checkpointVars => CheckpointInv'
  <2> SUFFICES ASSUME CheckpointInv, [CheckpointNext]_checkpointVars PROVE CheckpointInv'
    OBVIOUS
  <2>1. ASSUME NEW s \in SavedStories, SaveStops(s) PROVE CheckpointInv'
    <3>1. /\ onDisk' = onDisk /\ latest' = latest /\ saves <= saves'
          /\ saves' \in 0..MaxSaves /\ saves' \in Nat
      BY <2>1, CheckpointTypes, CheckpointAssumption DEF SaveStops
    <3>2. /\ \A p \in Paths : onDisk[p].n <= saves'
          /\ \A t \in SavedStories : latest[t] <= saves'
      BY <3>1, CheckpointTypes DEF CheckpointInv
    <3> QED
      BY <3>1, <3>2 DEF CheckpointInv, CheckpointTypeOK, LoadsLatest, Alone
  <2>2. CASE UNCHANGED checkpointVars
    BY <2>2 DEF checkpointVars, CheckpointInv, CheckpointTypeOK, LoadsLatest, Alone
  <2> QED
    BY <2>1, <2>2, SaveKeeps, DeleteKeeps, HoursKeep, CleanupKeeps DEF CheckpointNext
<1>3. CheckpointInv => LoadsLatest
  BY DEF CheckpointInv
<1> QED
  BY <1>1, <1>2, <1>3, PTL DEF CheckpointSpec

(***************************************************************************)
(* Backups.  What is being copied into a directory is in its temporary     *)
(* file either in part, or as the file held it since the second of the     *)
(* directory's name, which is not still to come; and what a file holds now *)
(* is among what it has held in this second.                               *)
(***************************************************************************)
Works == [does : {"nothing", "backup", "restore"}, of : Seconds, left : SUBSET StateFiles,
          file : {{}} \cup {{f} : f \in StateFiles}, copy : Nat \cup {Half}, some : BOOLEAN]

BackupTypes ==
  /\ project \in [StateFiles -> Nat]
  /\ stored \in [Seconds -> [StateFiles -> Nat]]
  /\ work \in Works
  /\ second \in Seconds /\ changes \in Nat
  /\ held \in [Seconds -> [StateFiles -> SUBSET Nat]]

NowHeld == \A f \in StateFiles : project[f] \in held[second][f]

BackupsHeld ==
  \A t \in Seconds, f \in StateFiles : stored[t][f] # 0 => HeldSince(t, f, stored[t][f])

CopyHeld ==
  work.does = "backup" =>
    /\ work.of <= second
    /\ work.copy # Half => \A f \in work.file : HeldSince(work.of, f, work.copy)

BackupInv == BackupTypes /\ NowHeld /\ BackupsHeld /\ CopyHeld

LEMMA SecondsAreNat == Seconds \subseteq Nat /\ 1 \in Seconds
  BY BackupAssumption DEF Seconds

\* What was held stays held while time passes and more is held.
LEMMA HeldStays ==
  ASSUME BackupTypes, second' \in {second, second + 1},
         \A u \in Seconds, f \in StateFiles : u <= second => held[u][f] \subseteq held'[u][f],
         NEW t \in Seconds, NEW f \in StateFiles, NEW v, HeldSince(t, f, v)
  PROVE  HeldSince(t, f, v)'
<1>1. PICK u \in t..second : v \in held[u][f]
  BY DEF HeldSince
<1>2. u \in Seconds /\ u <= second /\ u \in t..second'
  BY SecondsAreNat, BackupAssumption DEF Seconds, BackupTypes
<1> QED
  BY <1>1, <1>2 DEF HeldSince

\* A step that writes no backup keeps what backups and copies hold.
LEMMA WritesNoBackup ==
  ASSUME BackupInv, second' \in {second, second + 1}, UNCHANGED <<stored, work>>,
         \A u \in Seconds, f \in StateFiles : u <= second => held[u][f] \subseteq held'[u][f]
  PROVE  BackupsHeld' /\ CopyHeld'
<1>1. work.of \in Seconds /\ work.file \subseteq StateFiles /\ second \in Nat /\ work.of \in Nat
  BY SecondsAreNat DEF BackupInv, BackupTypes, Works
<1>2. work.does = "backup" => work.of <= second'
  BY <1>1 DEF BackupInv, CopyHeld
<1>3. BackupsHeld'
  BY HeldStays DEF BackupInv, BackupsHeld
<1>4. CopyHeld'
  BY <1>1, <1>2, HeldStays DEF BackupInv, CopyHeld
<1> QED
  BY <1>3, <1>4

LEMMA HoldsTypes ==
  ASSUME BackupInv, NEW f \in StateFiles, NEW v \in Nat, Holds(f, v)
  PROVE  /\ project' \in [StateFiles -> Nat] /\ held' \in [Seconds -> [StateFiles -> SUBSET Nat]]
         /\ \A u \in Seconds, g \in StateFiles : held[u][g] \subseteq held'[u][g]
         /\ \A g \in StateFiles : project'[g] \in held'[second][g]
<1>1. /\ project' = [project EXCEPT ![f] = v]
      /\ held' = [held EXCEPT ![second][f] = @ \cup {v}]
  BY DEF Holds
<1>2. /\ project' \in [StateFiles -> Nat] /\ project'[f] = v
      /\ \A g \in StateFiles \ {f} : project'[g] = project[g]
  BY <1>1 DEF BackupInv, BackupTypes
<1>3. /\ held' \in [Seconds -> [StateFiles -> SUBSET Nat]] /\ v \in held'[second][f]
      /\ \A u \in Seconds, g \in StateFiles : held[u][g] \subseteq held'[u][g]
  BY <1>1 DEF BackupInv, BackupTypes
<1> QED
  BY <1>2, <1>3 DEF BackupInv, BackupTypes, NowHeld

LEMMA ChangeKeeps ==
  ASSUME BackupInv, NEW f \in StateFiles, Change(f)
  PROVE  BackupInv'
<1>1. changes + 1 \in Nat /\ Holds(f, changes + 1)
  BY DEF Change, BackupInv, BackupTypes
<1>2. /\ changes' = changes + 1
      /\ UNCHANGED <<stored, work, second>>
  BY DEF Change
<1>3. BackupTypes' /\ NowHeld'
  BY <1>1, <1>2, HoldsTypes DEF BackupInv, BackupTypes, NowHeld
<1>4. \A u \in Seconds, g \in StateFiles : held[u][g] \subseteq held'[u][g]
  BY <1>1, HoldsTypes
<1>5. BackupsHeld' /\ CopyHeld'
  BY <1>2, <1>4, WritesNoBackup
<1> QED
  BY <1>3, <1>5 DEF BackupInv

LEMMA SecondKeeps ==
  ASSUME BackupInv, Second
  PROVE  BackupInv'
<1>1. /\ second' = second + 1 /\ second' \in Seconds /\ second \in Nat
      /\ held' = [held EXCEPT ![second'] = [f \in StateFiles |-> {project[f]}]]
      /\ UNCHANGED <<project, stored, work, changes>>
  BY BackupAssumption DEF Second, BackupInv, BackupTypes, Seconds
<1>2. /\ held' \in [Seconds -> [StateFiles -> SUBSET Nat]]
      /\ \A f \in StateFiles : project[f] \in held'[second'][f]
      /\ \A t \in Seconds : t # second' => held'[t] = held[t]
  BY <1>1 DEF BackupInv, BackupTypes
<1>3. \A u \in Seconds, f \in StateFiles : u <= second => held[u][f] \subseteq held'[u][f]
  BY <1>1, <1>2, SecondsAreNat
<1>4. BackupsHeld' /\ CopyHeld'
  BY <1>1, <1>3, WritesNoBackup
<1> QED
  BY <1>1, <1>2, <1>4 DEF BackupInv, BackupTypes, NowHeld

\* The steps that neither write a file nor begin to hold what is copied.
LEMMA QuietKeeps ==
  ASSUME BackupInv, UNCHANGED <<project, second, changes, held>>,
         stored' \in [Seconds -> [StateFiles -> Nat]],
         \A t \in Seconds, f \in StateFiles : stored'[t][f] \in {0, stored[t][f]},
         work' \in Works, work'.does = "backup" => work'.of <= second,
         work'.copy = Half \/ work' = work
  PROVE  BackupInv'
<1>1. BackupTypes' /\ NowHeld'
  BY DEF BackupInv, BackupTypes, NowHeld
<1>2. BackupsHeld'
  BY DEF BackupInv, BackupsHeld, HeldSince
<1>3. CopyHeld'
  BY DEF BackupInv, CopyHeld, HeldSince
<1> QED
  BY <1>1, <1>2, <1>3 DEF BackupInv

LEMMA IdleIsWork ==
  Idle \in Works /\ Idle.does = "nothing" /\ Idle.copy = Half
BY SecondsAreNat DEF Idle, Works

LEMMA StartBackupKeeps ==
  ASSUME BackupInv, StartBackup
  PROVE  BackupInv'
<1>1. work' \in Works /\ work'.of = second /\ work'.copy = Half
  BY SecondsAreNat DEF StartBackup, Starts, Works, Idle, BackupInv, BackupTypes
<1>2. second \in Nat
  BY SecondsAreNat DEF BackupInv, BackupTypes
<1>3. work'.of <= second
  BY <1>1, <1>2
<1> QED
  BY <1>1, <1>3, QuietKeeps DEF StartBackup, BackupInv, BackupTypes

LEMMA StartRestoreKeeps ==
  ASSUME BackupInv, NEW t \in Seconds, StartRestore(t)
  PROVE  BackupInv'
<1> DEFINE there == {f \in StateFiles : stored[t][f] # 0}
<1>a. Starts("restore", t, there) /\ there \subseteq StateFiles
  BY DEF StartRestore
<1> HIDE DEF there
<1>1. work' \in Works /\ work'.does = "restore" /\ work'.copy = Half
  BY <1>a, SecondsAreNat DEF Starts, Works, Idle
<1>2. UNCHANGED <<project, stored, second, changes, held>>
  BY DEF StartRestore
<1>3. /\ stored' \in [Seconds -> [StateFiles -> Nat]]
      /\ \A u \in Seconds, f \in StateFiles : stored'[u][f] \in {0, stored[u][f]}
  BY <1>2 DEF BackupInv, BackupTypes
<1>4. work'.does = "backup" => work'.of <= second
  BY <1>1
<1> QED
  BY <1>1, <1>2, <1>3, <1>4, QuietKeeps

LEMMA OpenKeeps ==
  ASSUME BackupInv, NEW f \in StateFiles, Open(f)
  PROVE  BackupInv'
<1>1. work' \in Works /\ work'.does = work.does /\ work'.of = work.of /\ work'.copy = Half
  BY DEF Open, Works, BackupInv, BackupTypes
<1> QED
  BY <1>1, QuietKeeps DEF Open, BackupInv, BackupTypes, CopyHeld

LEMMA PassKeeps ==
  ASSUME BackupInv, NEW f \in StateFiles, Pass(f)
  PROVE  BackupInv'
<1>0. BackupTypes /\ CopyHeld
  BY DEF BackupInv
<1>1. /\ work' \in Works /\ work'.does = work.does /\ work'.of = work.of
      /\ work'.copy = Half \/ (work'.copy = work.copy /\ work'.file = work.file)
  BY <1>0 DEF Pass, Works, BackupTypes
<1>2. UNCHANGED <<project, stored, second, changes, held>>
  BY DEF Pass
<1>3. BackupTypes' /\ NowHeld' /\ BackupsHeld'
  BY <1>1, <1>2 DEF BackupInv, BackupTypes, NowHeld, BackupsHeld, HeldSince
<1>4. CopyHeld'
  BY <1>0, <1>1, <1>2 DEF CopyHeld, HeldSince
<1> QED
  BY <1>3, <1>4 DEF BackupInv

\* What is read of a file is what it holds in this second.
LEMMA CopiedKeeps ==
  ASSUME BackupInv, NEW f \in StateFiles, Copied(f)
  PROVE  BackupInv'
<1>0. BackupTypes /\ NowHeld /\ CopyHeld /\ second \in Nat /\ work.of \in Nat /\ work.of \in Seconds
  BY SecondsAreNat DEF BackupInv, BackupTypes, Works
<1>1. Source(f) \in Nat
  BY <1>0 DEF Source, BackupTypes, Works
<1>2. /\ work' \in Works /\ work'.does = work.does /\ work'.of = work.of
      /\ work'.copy = Source(f) /\ work'.file = work.file
  BY <1>0, <1>1 DEF Copied, Works, BackupTypes
<1>3. UNCHANGED <<project, stored, second, changes, held>>
  BY DEF Copied
<1>4. BackupTypes' /\ NowHeld' /\ BackupsHeld'
  BY <1>2, <1>3 DEF BackupInv, BackupTypes, NowHeld, BackupsHeld, HeldSince
<1>5. ASSUME work.does = "backup", NEW g \in work.file
      PROVE  HeldSince(work.of, g, Source(f))
  <2>1. g = f
    BY <1>0, <1>5 DEF Copied, BackupTypes, Works
  <2>2. Source(f) \in held[second][f] /\ second \in work.of..second
    BY <1>0, <1>5 DEF Source, NowHeld, CopyHeld
  <2> QED
    BY <2>1, <2>2 DEF HeldSince
<1>6. CopyHeld'
  BY <1>0, <1>2, <1>3, <1>5 DEF CopyHeld, HeldSince
<1> QED
  BY <1>4, <1>6 DEF BackupInv

LEMMA RenameKeeps ==
  ASSUME BackupInv, NEW f \in StateFiles, Rename(f)
  PROVE  BackupInv'
<1>0. BackupTypes /\ CopyHeld /\ BackupsHeld /\ work.of \in Seconds /\ f \in work.file
      /\ work.copy # Half /\ work.copy \in Nat
  BY DEF Rename, BackupInv, BackupTypes, Works
<1>1. /\ work' \in Works /\ work'.does = work.does /\ work'.of = work.of /\ work'.copy = Half
      /\ second' = second /\ changes' = changes
  BY <1>0 DEF Rename, Works, BackupTypes
<1>2. CASE work.does = "backup"
  <2>1. /\ stored' = [stored EXCEPT ![work.of][f] = work.copy]
        /\ project' = project /\ held' = held
    BY <1>2 DEF Rename
  <2>2. stored' \in [Seconds -> [StateFiles -> Nat]]
    BY <1>0, <2>1 DEF BackupTypes
  <2>3. ASSUME NEW t \in Seconds, NEW g \in StateFiles, stored'[t][g] # 0
        PROVE  HeldSince(t, g, stored'[t][g])
    <3>1. CASE t = work.of /\ g = f
      <4>1. stored'[t][g] = work.copy
        BY <1>0, <2>1, <3>1 DEF BackupTypes
      <4> QED
        BY <1>0, <1>2, <3>1, <4>1 DEF CopyHeld
    <3>2. CASE ~(t = work.of /\ g = f)
      <4>1. stored'[t][g] = stored[t][g]
        BY <1>0, <2>1, <3>2 DEF BackupTypes
      <4> QED
        BY <1>0, <2>3, <4>1 DEF BackupsHeld
    <3> QED
      BY <3>1, <3>2
  <2>4. BackupsHeld'
    BY <1>1, <2>1, <2>3 DEF BackupsHeld, HeldSince
  <2> QED
    BY <1>0, <1>1, <2>1, <2>2, <2>4 DEF BackupInv, BackupTypes, NowHeld, CopyHeld
<1>3. CASE work.does # "backup"
  <2>1. Holds(f, work.copy) /\ stored' = stored
    BY <1>3 DEF Rename
  <2>2. /\ BackupTypes' /\ NowHeld'
        /\ \A u \in Seconds, g \in StateFiles : held[u][g] \subseteq held'[u][g]
    BY <1>0, <1>1, <2>1, HoldsTypes DEF BackupTypes, NowHeld
  <2>3. BackupsHeld'
    BY <1>0, <1>1, <2>1, <2>2, HeldStays DEF BackupsHeld
  <2> QED
    BY <1>1, <1>3, <2>2, <2>3 DEF BackupInv, CopyHeld
<1> QED
  BY <1>2, <1>3

LEMMA StopKeeps ==
  ASSUME BackupInv, End \/ Die
  PROVE  BackupInv'
<1>1. work' = Idle /\ UNCHANGED <<project, stored, second, changes, held>>
  BY DEF End, Die
<1> QED
  BY <1>1, IdleIsWork, QuietKeeps DEF BackupInv, BackupTypes

LEMMA CleanupOfBackupsKeeps ==
  ASSUME BackupInv, CleanupOldBackups
  PROVE  BackupInv'
<1>1. PICK gone \in [Old -> SUBSET StateFiles] :
        stored' = [t \in Seconds |-> IF t \in Old
                                     THEN [f \in StateFiles |-> IF f \in gone[t] THEN stored[t][f] ELSE 0]
                                     ELSE stored[t]]
  BY DEF CleanupOldBackups
<1>2. UNCHANGED <<project, work, second, changes, held>>
  BY DEF CleanupOldBackups
<1>3. /\ stored' \in [Seconds -> [StateFiles -> Nat]]
      /\ \A t \in Seconds, f \in StateFiles : stored'[t][f] \in {0, stored[t][f]}
  BY <1>1 DEF BackupInv, BackupTypes
<1> QED
  BY <1>2, <1>3, QuietKeeps DEF BackupInv, BackupTypes, CopyHeld

\* BackupManager: what a backup holds is whole, and no older than its name;
\* and what a restore brings back is whole.
THEOREM CopiesStayWhole == BackupSpec => []CopiesAreWhole
<1>1. BackupInit => BackupInv
  BY SecondsAreNat, IdleIsWork DEF BackupInit, BackupInv, BackupTypes, NowHeld, BackupsHeld, CopyHeld, Empty
<1>2. BackupInv /\ [BackupNext]_backupVars => BackupInv'
  <2> SUFFICES ASSUME BackupInv, [BackupNext]_backupVars PROVE BackupInv'
    OBVIOUS
  <2>1. CASE UNCHANGED backupVars
    BY <2>1 DEF backupVars, BackupInv, BackupTypes, NowHeld, BackupsHeld, CopyHeld, HeldSince
  <2> QED
    BY <2>1, ChangeKeeps, SecondKeeps, StartBackupKeeps, StartRestoreKeeps, OpenKeeps, CopiedKeeps,
       RenameKeeps, PassKeeps, StopKeeps, CleanupOfBackupsKeeps DEF BackupNext
<1>3. BackupInv => CopiesAreWhole
  BY DEF BackupInv, BackupTypes, BackupsHeld, CopiesAreWhole, Half
<1> QED
  BY <1>1, <1>2, <1>3, PTL DEF BackupSpec

(***************************************************************************)
(* Migrations.  A run that completes puts the versions it touches in step; *)
(* one that stops may leave the one it stops at.                           *)
(***************************************************************************)
MigrationInv == MigrationTypeOK /\ OneOutOfStep

\* A set that grows by no more than n elements.
LEMMA GrowsBy ==
  ASSUME NEW A, IsFiniteSet(A), NEW odd, IsFiniteSet(odd), NEW n \in Nat, Cardinality(odd) <= n,
         NEW B, B \subseteq A \cup odd
  PROVE  /\ IsFiniteSet(B) /\ Cardinality(A) \in Nat /\ Cardinality(B) \in Nat
         /\ Cardinality(B) <= Cardinality(A) + n
<1>1. Cardinality(A) \in Nat /\ Cardinality(odd) \in Nat
  BY FS_CardinalityType
<1>2. /\ IsFiniteSet(A \cup odd)
      /\ Cardinality(A \cup odd) = Cardinality(A) + Cardinality(odd) - Cardinality(A \cap odd)
  BY FS_Union
<1>3. Cardinality(A \cap odd) \in Nat
  BY FS_Intersection, FS_CardinalityType
<1>4. IsFiniteSet(B) /\ Cardinality(B) <= Cardinality(A \cup odd)
  BY <1>2, FS_Subset
<1>5. Cardinality(B) \in Nat /\ Cardinality(A \cup odd) \in Nat
  BY <1>2, <1>4, FS_CardinalityType
<1> QED
  BY <1>1, <1>2, <1>3, <1>4, <1>5

LEMMA SmallSets ==
  /\ IsFiniteSet({}) /\ Cardinality({}) = 0
  /\ \A x : IsFiniteSet({x}) /\ Cardinality({x}) = 1
  BY FS_EmptySet, FS_Singleton, Zenon

\* A version is in step again, or is as it was, or is the one allowed.
LEMMA OneMore ==
  ASSUME MigrationInv, NEW odd, NEW n \in Nat, Cardinality(odd) <= n,
         IsFiniteSet(odd), OutOfStep' \subseteq OutOfStep \cup odd, stops' = stops + n
  PROVE  OneOutOfStep'
<1>1. IsFiniteSet(OutOfStep)
  BY MigrationAssumption, FS_Subset DEF OutOfStep
<1>2. /\ Cardinality(OutOfStep) \in Nat /\ Cardinality(OutOfStep') \in Nat
      /\ Cardinality(OutOfStep') <= Cardinality(OutOfStep) + n
  BY <1>1, GrowsBy
<1>3. Cardinality(OutOfStep) <= stops /\ stops \in Nat
  BY MigrationAssumption DEF MigrationInv, MigrationTypeOK, OneOutOfStep
<1>4. Cardinality(OutOfStep') <= stops + n
  BY <1>2, <1>3
<1> QED
  BY <1>4 DEF OneOutOfStep

LEMMA MigrateKeeps ==
  ASSUME MigrationInv, Migrate
  PROVE  MigrationInv'
<1>1. MigrationTypeOK'
  BY DEF Migrate, MigrationInv, MigrationTypeOK, Pending
<1>2. OutOfStep' \subseteq OutOfStep \cup {}
  BY DEF OutOfStep, Migrate, MigrationInv, MigrationTypeOK, Pending
<1>3. stops' = stops + 0 /\ 0 \in Nat
  BY MigrationAssumption DEF Migrate, MigrationInv, MigrationTypeOK
<1>4. Cardinality({}) <= 0 /\ IsFiniteSet({})
  BY SmallSets
<1> QED
  BY <1>1, <1>2, <1>3, <1>4, OneMore DEF MigrationInv

LEMMA MigrateStopsKeeps ==
  ASSUME MigrationInv, MigrateStops
  PROVE  MigrationInv'
<1>1. PICK v \in Pending :
        \E k \in 0..Statements :
          /\ effect' = [u \in Versions |-> IF u \in Pending /\ u < v THEN Script
                                           ELSE IF u = v THEN effect[u] \cup 1..k ELSE effect[u]]
          /\ recorded' = recorded \cup {u \in Pending : u < v}
  BY DEF MigrateStops
<1>2. PICK k \in 0..Statements :
        /\ effect' = [u \in Versions |-> IF u \in Pending /\ u < v THEN Script
                                         ELSE IF u = v THEN effect[u] \cup 1..k ELSE effect[u]]
        /\ recorded' = recorded \cup {u \in Pending : u < v}
  BY <1>1
<1>3. v \in Versions /\ Pending \subseteq Versions /\ 1..k \subseteq Script /\ stops' = stops + 1
      /\ stops' \in 0..MaxStops
  <2>1. v \in Versions /\ Pending \subseteq Versions
    BY DEF MigrationInv, MigrationTypeOK, Pending
  <2>2. 1..k \subseteq Script
    BY MigrationAssumption DEF Script
  <2>3. stops' = stops + 1 /\ stops' \in 0..MaxStops
    BY MigrationAssumption DEF MigrateStops, MigrationInv, MigrationTypeOK
  <2> QED
    BY <2>1, <2>2, <2>3
<1>4. MigrationTypeOK'
  BY <1>2, <1>3 DEF MigrateStops, MigrationInv, MigrationTypeOK
<1>5. OutOfStep' \subseteq OutOfStep \cup {v}
  BY <1>2, <1>3 DEF OutOfStep, MigrationInv, MigrationTypeOK
<1>6. Cardinality({v}) <= 1 /\ IsFiniteSet({v})
  <2>1. Cardinality({v}) = 1 /\ IsFiniteSet({v})
    BY SmallSets, Zenon
  <2> QED
    BY <2>1
<1> QED
  BY <1>3, <1>4, <1>5, <1>6, OneMore DEF MigrationInv

LEMMA RollBackKeeps ==
  ASSUME MigrationInv, NEW target, RollBack(target)
  PROVE  MigrationInv'
<1>1. MigrationTypeOK'
  BY DEF RollBack, MigrationInv, MigrationTypeOK
<1>2. OutOfStep' \subseteq OutOfStep \cup {}
  BY DEF OutOfStep, RollBack, MigrationInv, MigrationTypeOK
<1>3. stops' = stops + 0 /\ 0 \in Nat
  BY MigrationAssumption DEF RollBack, MigrationInv, MigrationTypeOK
<1>4. Cardinality({}) <= 0 /\ IsFiniteSet({})
  BY SmallSets
<1> QED
  BY <1>1, <1>2, <1>3, <1>4, OneMore DEF MigrationInv

LEMMA RollBackStopsKeeps ==
  ASSUME MigrationInv, NEW target, RollBackStops(target)
  PROVE  MigrationInv'
<1>1. PICK v \in Above(target) :
        \E k \in 0..Statements :
          /\ effect' = [u \in Versions |-> IF u \in Above(v) THEN {}
                                           ELSE IF u = v THEN effect[u] \ 1..k ELSE effect[u]]
          /\ recorded' = recorded \ Above(v)
  BY DEF RollBackStops
<1>2. PICK k \in 0..Statements :
        /\ effect' = [u \in Versions |-> IF u \in Above(v) THEN {}
                                         ELSE IF u = v THEN effect[u] \ 1..k ELSE effect[u]]
        /\ recorded' = recorded \ Above(v)
  BY <1>1
<1>3. v \in Versions /\ stops' = stops + 1 /\ stops' \in 0..MaxStops
  BY MigrationAssumption DEF RollBackStops, MigrationInv, MigrationTypeOK, Above
<1>4. MigrationTypeOK'
  BY <1>2, <1>3 DEF RollBackStops, MigrationInv, MigrationTypeOK
<1>5. OutOfStep' \subseteq OutOfStep \cup {v}
  BY <1>2, <1>3 DEF OutOfStep, MigrationInv, MigrationTypeOK
<1>6. Cardinality({v}) <= 1 /\ IsFiniteSet({v})
  <2>1. Cardinality({v}) = 1 /\ IsFiniteSet({v})
    BY SmallSets, Zenon
  <2> QED
    BY <2>1
<1> QED
  BY <1>3, <1>4, <1>5, <1>6, OneMore DEF MigrationInv

\* MigrationManager: record and schema agree of all but as many versions as
\* runs stopped.
THEOREM RecordsAreInStep == MigrationSpec => []OneOutOfStep
<1>1. MigrationInit => MigrationInv
  <2> SUFFICES ASSUME MigrationInit PROVE MigrationInv
    OBVIOUS
  <2>1. OutOfStep = {}
    BY DEF OutOfStep, MigrationInit
  <2>2. OneOutOfStep
    BY <2>1, FS_EmptySet DEF OneOutOfStep, MigrationInit
  <2> QED
    BY <2>2, MigrationAssumption DEF MigrationInit, MigrationInv, MigrationTypeOK
<1>2. MigrationInv /\ [MigrationNext]_migrationVars => MigrationInv'
  <2> SUFFICES ASSUME MigrationInv, [MigrationNext]_migrationVars PROVE MigrationInv'
    OBVIOUS
  <2>1. CASE (\E v \in Versions : Register(v)) \/ Restart \/ UNCHANGED migrationVars
    BY <2>1 DEF Register, Restart, migrationVars, MigrationInv, MigrationTypeOK, OneOutOfStep, OutOfStep
  <2> QED
    BY <2>1, MigrateKeeps, MigrateStopsKeeps, RollBackKeeps, RollBackStopsKeeps DEF MigrationNext
<1>3. MigrationInv => OneOutOfStep
  BY DEF MigrationInv
<1> QED
  BY <1>1, <1>2, <1>3, PTL DEF MigrationSpec

(***************************************************************************)
(* Learnings.  Until a save stops short the rules on disk are covered both *)
(* by the post-mortems on disk and by those in memory; after the first     *)
(* that does, a file of post-mortems that can be read still covers them.   *)
(***************************************************************************)
LearningInv ==
  /\ LearningTypeOK
  /\ shortSaves = 0 => /\ Torn \notin postMortemFile /\ Torn \notin heuristicFile
                       /\ heuristicFile \subseteq postMortemFile
                       /\ heuristicFile \subseteq postMortems
  /\ shortSaves <= 1 => /\ heuristics \subseteq postMortems
                        /\ Torn \in postMortemFile \/ heuristicFile \ {Torn} \subseteq postMortemFile

\* load: the rules of any number of restarts have their post-mortems, if at
\* most one save stopped short.
THEOREM RulesKeepTheirSource == LearningSpec => []RulesHaveTheirSource
<1>1. LearningInit => LearningInv
  BY LearningAssumption DEF LearningInit, LearningInv, LearningTypeOK, Torn
<1>2. LearningInv /\ [LearningNext]_learningVars => LearningInv'
  <2> SUFFICES ASSUME LearningInv, [LearningNext]_learningVars PROVE LearningInv'
    OBVIOUS
  <2> USE LearningAssumption DEF LearningInv, LearningTypeOK, Torn
  <2>1. ASSUME NEW trigger \in BOOLEAN, Analyze(trigger) PROVE LearningInv'
    <3>1. failures + 1 \in 1..MaxFailures /\ failures' \in 0..MaxFailures
      BY <2>1 DEF Analyze
    <3> QED
      BY <2>1, <3>1 DEF Analyze
  <2>2. CASE SaveLearnings
    BY <2>2 DEF SaveLearnings
  <2>3. CASE SaveShort
    <3>1. shortSaves' = shortSaves + 1 /\ shortSaves' \in 0..MaxShortSaves /\ shortSaves \in Nat
      BY <2>3 DEF SaveShort
    <3>2. (shortSaves' <= 1 => shortSaves = 0 /\ shortSaves <= 1) /\ shortSaves' # 0
      BY <3>1
    <3>3. LearningTypeOK'
      <4>1. 1..MaxFailures \subseteq 0..MaxFailures /\ {0} \subseteq 0..MaxFailures
        OBVIOUS
      <4>2. postMortemFile' \subseteq 0..MaxFailures /\ heuristicFile' \subseteq 0..MaxFailures
        BY <2>3, <4>1 DEF SaveShort
      <4> QED
        BY <2>3, <3>1, <4>2 DEF SaveShort
    <3>4. shortSaves = 0 => /\ heuristics \subseteq postMortems
                            /\ 0 \in postMortemFile' \/ heuristicFile' \ {0} \subseteq postMortemFile'
      <4>1. CASE postMortemFile' = {0}
        BY <3>2, <4>1
      <4>2. CASE postMortemFile' = postMortems /\ heuristicFile' = heuristicFile
        BY <3>2, <4>2
      <4>3. CASE heuristicFile' = {0}
        BY <3>2, <4>3
      <4> QED
        BY <2>3, <4>1, <4>2, <4>3 DEF SaveShort
    <3>5. heuristics' = heuristics /\ postMortems' = postMortems
      BY <2>3 DEF SaveShort
    <3> HIDE DEF LearningTypeOK
    <3> QED
      BY <3>2, <3>3, <3>4, <3>5
  <2>4. CASE ReadLearnings
    <3>1. lives' \in 0..MaxLives
      BY <2>4 DEF ReadLearnings
    <3>2. LearningTypeOK'
      <4>1. (0..MaxFailures) \ {0} \subseteq 1..MaxFailures
        OBVIOUS
      <4>2. postMortems' \subseteq 1..MaxFailures /\ heuristics' \subseteq 1..MaxFailures
        BY <2>4, <4>1 DEF ReadLearnings
      <4> QED
        BY <2>4, <3>1, <4>2 DEF ReadLearnings
    <3>3. (0 \in postMortemFile \/ heuristicFile \ {0} \subseteq postMortemFile)
            => heuristics' \subseteq postMortems'
      <4>1. CASE 0 \in postMortemFile
        BY <2>4, <4>1 DEF ReadLearnings
      <4>2. CASE 0 \notin postMortemFile
        <5>1. heuristics' = heuristicFile \ {0} /\ postMortems' = postMortemFile \ {0}
          BY <2>4, <4>2 DEF ReadLearnings
        <5> QED
          BY <4>2, <5>1
      <4> QED
        BY <4>1, <4>2
    <3>4. shortSaves' = 0 => heuristicFile' \subseteq postMortems'
      BY <2>4 DEF ReadLearnings
    <3>5. shortSaves' = shortSaves /\ postMortemFile' = postMortemFile /\ heuristicFile' = heuristicFile
      BY <2>4 DEF ReadLearnings
    <3> HIDE DEF LearningTypeOK
    <3> QED
      BY <3>2, <3>3, <3>4, <3>5
  <2>5. CASE UNCHANGED learningVars
    BY <2>5 DEF learningVars
  <2> QED
    BY <2>1, <2>2, <2>3, <2>4, <2>5 DEF LearningNext
<1>3. LearningInv => RulesHaveTheirSource
  BY DEF LearningInv, RulesHaveTheirSource
<1> QED
  BY <1>1, <1>2, <1>3, PTL DEF LearningSpec

(***************************************************************************)
(* The write-ahead log.  While no rewrite was cut short, a line without a  *)
(* newline is one more entry that may yet be lost, so it counts with the   *)
(* missing ones.  While no write at all stopped short, the file holds what *)
(* was acknowledged of the stories not checkpointed, and of each other one *)
(* everything or nothing; the end of a story is its last entry.            *)
(***************************************************************************)
AtRisk == IF unended # 0 THEN 1 ELSE 0

Sure ==     \* while no rewrite was cut short
  /\ unended \notin DOMAIN acked
  /\ Cardinality(Missing) + AtRisk <= tears

Whole ==    \* while no write stopped short
  /\ unended = 0
  /\ \A k \in DOMAIN file : k \in DOMAIN acked /\ file[k] = acked[k]
  /\ \A k \in DOMAIN acked : acked[k].story \in dropped \/ k \in DOMAIN file
  /\ \A j, k \in DOMAIN acked : (acked[j].story = acked[k].story /\ j \in DOMAIN file) => k \in DOMAIN file

LogInv ==
  /\ LogTypeOK
  /\ \A k \in DOMAIN file \cup DOMAIN acked : k < next
  /\ checkpointed \subseteq dropped
  /\ \A s \in dropped : Finished(s)
  /\ \A j, k \in DOMAIN acked : (acked[j].story = acked[k].story /\ acked[k].final) => j <= k
  /\ ~cut => Sure
  /\ (~cut /\ tears = 0) => Whole

LEMMA LogTypes ==
  ASSUME LogInv
  PROVE  /\ DOMAIN file \subseteq Numbers /\ file \in [DOMAIN file -> Entry \cup {Garbage}]
         /\ DOMAIN acked \subseteq Numbers /\ acked \in [DOMAIN acked -> Entry]
         /\ next \in Nat /\ tears \in Nat /\ tears \in 0..MaxTears /\ cut \in BOOLEAN
         /\ next \notin DOMAIN file /\ next \notin DOMAIN acked /\ next # 0 /\ 0 \notin DOMAIN file
         /\ unended # next /\ unended \in Nat
         /\ Numbers \subseteq Nat /\ IsFiniteSet(Missing) /\ Cardinality(Missing) \in Nat
<1>1. /\ DOMAIN file \subseteq Numbers /\ file \in [DOMAIN file -> Entry \cup {Garbage}]
      /\ DOMAIN acked \subseteq Numbers /\ acked \in [DOMAIN acked -> Entry]
      /\ next \in 1..(MaxEntries + 1) /\ tears \in 0..MaxTears /\ cut \in BOOLEAN
      /\ unended \in {0} \cup DOMAIN file
  BY DEF LogInv, LogTypeOK
<1>2. Numbers \subseteq Nat /\ next \in Nat /\ next # 0 /\ tears \in Nat /\ 0 \notin Numbers
  BY <1>1, LogAssumption DEF Numbers
<1>3. next \notin DOMAIN file /\ next \notin DOMAIN acked
  BY <1>2 DEF LogInv
<1>4. IsFiniteSet(Numbers)
  BY FS_Interval, LogAssumption DEF Numbers
<1>5. IsFiniteSet(Missing)
  BY <1>1, <1>4, FS_Subset DEF Missing
<1>6. Cardinality(Missing) \in Nat
  BY <1>5, FS_CardinalityType
<1> QED
  BY <1>1, <1>2, <1>3, <1>5, <1>6

\* The arithmetic of a step: one entry more at most is missing or at risk for
\* each write that stops short.
LEMMA Sums ==
  ASSUME NEW a \in Nat, NEW b \in Nat, NEW c \in Nat, NEW d \in Nat, NEW n \in Nat, NEW m \in Nat,
         NEW t \in Nat, b <= a + n, n + d <= c + m, a + c <= t
  PROVE  b + d <= t + m
  OBVIOUS

LEMMA SureStays ==
  ASSUME LogInv, ~cut, NEW odd, NEW n \in Nat, IsFiniteSet(odd), Cardinality(odd) <= n,
         Missing' \subseteq Missing \cup odd,
         unended' \notin DOMAIN acked', NEW m \in Nat, tears' = tears + m,
         n + AtRisk' <= AtRisk + m
  PROVE  Sure'
<1>1. /\ Cardinality(Missing) \in Nat /\ Cardinality(Missing') \in Nat
      /\ Cardinality(Missing') <= Cardinality(Missing) + n
  BY LogTypes, GrowsBy
<1>2. AtRisk \in Nat /\ AtRisk' \in Nat /\ tears \in Nat
  BY LogTypes DEF AtRisk
<1>3. Cardinality(Missing) + AtRisk <= tears
  BY DEF LogInv, Sure
<1>4. Cardinality(Missing') + AtRisk' <= tears'
  BY <1>1, <1>2, <1>3, Sums
<1> QED
  BY <1>4 DEF Sure

\* What writing e does to the file: it goes onto the unended line, or after it.
LEMMA WrittenIs ==
  ASSUME LogInv, next <= MaxEntries, NEW e \in Entry \cup {Garbage}, file' = Written(e)
  PROVE  /\ DOMAIN file' \subseteq Numbers /\ file' \in [DOMAIN file' -> Entry \cup {Garbage}]
         /\ unended # 0 => /\ unended \in DOMAIN file /\ DOMAIN file' = DOMAIN file
                           /\ \A k \in DOMAIN file \ {unended} : file'[k] = file[k]
         /\ unended = 0 => /\ DOMAIN file' = DOMAIN file \cup {next} /\ file'[next] = e
                           /\ \A k \in DOMAIN file : file'[k] = file[k]
<1>1. next \in Numbers
  BY LogTypes, LogAssumption DEF LogInv, LogTypeOK, Numbers
<1>2. CASE unended # 0
  <2>1. file' = [file EXCEPT ![unended] = Garbage] /\ unended \in DOMAIN file
    BY <1>2 DEF Written, LogInv, LogTypeOK
  <2> QED
    BY <1>2, <2>1, LogTypes
<1>3. CASE unended = 0
  <2>1. file' = [k \in DOMAIN file \cup {next} |-> IF k = next THEN e ELSE file[k]]
    BY <1>3 DEF Written, Line
  <2> QED
    BY <1>1, <1>3, <2>1, LogTypes
<1> QED
  BY <1>2, <1>3

LEMMA AppendKeeps ==
  ASSUME LogInv, NEW s \in LogStories, NEW final \in BOOLEAN, LogAppend(s, final)
  PROVE  LogInv'
<1> DEFINE e == [story |-> s, final |-> final]
<1>1. e \in Entry /\ e.story = s /\ e.final = final
  BY DEF Entry
<1>2. /\ file' = Written(e) /\ acked' = Line(acked, e) /\ next <= MaxEntries /\ ~Finished(s)
      /\ unended' = 0 /\ next' = next + 1 /\ checkpointed' = checkpointed /\ dropped' = dropped
      /\ tears' = tears /\ cut' = cut
  BY DEF LogAppend, MayLog
<1> HIDE DEF e
<1>3. next \in Numbers /\ next' \in 1..(MaxEntries + 1)
  BY <1>2, LogTypes, LogAssumption DEF LogInv, LogTypeOK, Numbers
<1>4. /\ DOMAIN acked' = DOMAIN acked \cup {next} /\ acked'[next] = e
      /\ \A k \in DOMAIN acked : acked'[k] = acked[k]
      /\ acked' \in [DOMAIN acked' -> Entry]
  BY <1>1, <1>2, LogTypes DEF Line
<1>5. /\ DOMAIN file' \subseteq Numbers /\ file' \in [DOMAIN file' -> Entry \cup {Garbage}]
      /\ DOMAIN file' \subseteq DOMAIN file \cup {next}
  BY <1>1, <1>2, WrittenIs
<1>6. LogTypeOK'
  BY <1>2, <1>3, <1>4, <1>5, LogTypes DEF LogInv, LogTypeOK
<1>7. \A k \in DOMAIN file' \cup DOMAIN acked' : k < next'
  <2> SUFFICES ASSUME NEW k \in DOMAIN file \cup DOMAIN acked \cup {next} PROVE k < next + 1
    BY <1>2, <1>4, <1>5
  <2>1. k \in Nat /\ next \in Nat /\ (k < next \/ k = next)
    BY LogTypes DEF LogInv
  <2> QED
    BY <2>1
<1>8. ASSUME NEW u \in dropped' PROVE Finished(u)'
  <2>1. PICK k \in DOMAIN acked : acked[k].story = u /\ acked[k].final
    BY <1>2, <1>8 DEF LogInv, Finished, Own
  <2>2. k \in DOMAIN acked' /\ acked'[k] = acked[k]
    BY <1>4
  <2> QED
    BY <2>1, <2>2 DEF Finished, Own
<1>9. ASSUME NEW j \in DOMAIN acked', NEW k \in DOMAIN acked',
             acked'[j].story = acked'[k].story, acked'[k].final
      PROVE  j <= k
  <2>1. CASE k = next
    <3>1. next \in Nat /\ j \in Nat /\ (j < next \/ j = next)
      BY <1>4, LogTypes DEF LogInv
    <3> QED
      BY <2>1, <3>1
  <2>2. CASE k # next /\ j = next
    <3>1. k \in DOMAIN acked /\ acked[k].story = s /\ acked[k].final
      BY <1>1, <1>4, <1>9, <2>2
    <3> QED
      BY <1>2, <3>1 DEF Finished, Own
  <2>3. CASE k # next /\ j # next
    BY <1>4, <1>9, <2>3 DEF LogInv
  <2> QED
    BY <2>1, <2>2, <2>3
<1>10. ASSUME ~cut PROVE Sure'
  <2>1. unended' \notin DOMAIN acked' /\ tears' = tears + 0 /\ AtRisk' = 0
    BY <1>2, <1>3, <1>4, LogTypes, LogAssumption DEF Numbers, AtRisk
  <2>2. CASE unended = 0
    <3>1. Missing' \subseteq Missing \cup {}
      BY <1>1, <1>2, <1>4, <2>2, WrittenIs DEF Missing
    <3>2. AtRisk = 0 /\ Cardinality({}) <= 0 /\ IsFiniteSet({})
      BY <2>2, SmallSets DEF AtRisk
    <3> QED
      BY <1>10, <2>1, <3>1, <3>2, SureStays
  <2>3. CASE unended # 0
    <3>1. unended \notin DOMAIN acked
      BY <1>10 DEF LogInv, Sure
    <3>2. Missing' \subseteq Missing \cup {next}
      BY <1>1, <1>2, <1>4, <2>3, <3>1, WrittenIs DEF Missing
    <3>3. Cardinality({next}) = 1 /\ IsFiniteSet({next})
      BY SmallSets, Zenon
    <3>4. AtRisk = 1 /\ Cardinality({next}) <= 1 /\ 1 \in Nat /\ 0 \in Nat
      BY <2>3, <3>3 DEF AtRisk
    <3> QED
      BY <1>10, <2>1, <3>2, <3>3, <3>4, SureStays
  <2> QED
    BY <2>2, <2>3
<1>11. ASSUME ~cut, tears = 0 PROVE Whole'
  <2>1. Whole
    BY <1>11 DEF LogInv
  <2>2. /\ DOMAIN file' = DOMAIN file \cup {next} /\ file'[next] = e
        /\ \A k \in DOMAIN file : file'[k] = file[k]
    BY <1>1, <1>2, <2>1, WrittenIs DEF Whole
  <2>3. \A k \in DOMAIN file' : k \in DOMAIN acked' /\ file'[k] = acked'[k]
    BY <1>4, <2>1, <2>2 DEF Whole
  <2>4. \A k \in DOMAIN acked' : acked'[k].story \in dropped' \/ k \in DOMAIN file'
    BY <1>2, <1>4, <2>1, <2>2 DEF Whole
  <2>5. ASSUME NEW j \in DOMAIN acked', NEW k \in DOMAIN acked',
               acked'[j].story = acked'[k].story, j \in DOMAIN file'
        PROVE  k \in DOMAIN file'
    <3>1. CASE k = next
      BY <2>2, <3>1
    <3>2. CASE k # next /\ j = next
      <4>1. acked[k].story = s /\ s \notin dropped
        BY <1>1, <1>2, <1>4, <2>5, <3>2 DEF LogInv
      <4> QED
        BY <1>4, <2>1, <2>2, <3>2, <4>1 DEF Whole
    <3>3. CASE k # next /\ j # next
      BY <1>4, <2>1, <2>2, <2>5, <3>3 DEF Whole
    <3> QED
      BY <3>1, <3>2, <3>3
  <2> QED
    BY <1>2, <2>3, <2>4, <2>5 DEF Whole
<1>12. checkpointed' \subseteq dropped'
  BY <1>2 DEF LogInv
<1> QED
  BY <1>2, <1>6, <1>7, <1>8, <1>9, <1>10, <1>11, <1>12 DEF LogInv

LEMMA TearKeeps ==
  ASSUME LogInv, NEW s \in LogStories, NEW final \in BOOLEAN, NEW restart \in BOOLEAN,
         AppendTears(s, final, restart)
  PROVE  LogInv'
<1>1. /\ next <= MaxEntries /\ tears' = tears + 1 /\ next' = next + 1 /\ tears < MaxTears
      /\ checkpointed' \subseteq checkpointed /\ acked' = acked /\ dropped' = dropped /\ cut' = cut
  BY DEF AppendTears, MayLog
<1>2. \/ file' = file /\ unended' = unended
      \/ /\ \E e \in Entry \cup {Garbage} : file' = Written(e)
         /\ unended' = IF unended # 0 THEN unended ELSE next
  BY DEF AppendTears, Entry
<1>3. /\ DOMAIN file' \subseteq Numbers /\ file' \in [DOMAIN file' -> Entry \cup {Garbage}]
      /\ DOMAIN file' \subseteq DOMAIN file \cup {next}
      /\ unended' \in {0} \cup DOMAIN file'
      /\ \A k \in DOMAIN file \ {unended} : k \in DOMAIN file' /\ file'[k] = file[k]
      /\ unended = 0 => unended' \in {0, next} /\ \A k \in DOMAIN file : k \in DOMAIN file' /\ file'[k] = file[k]
      /\ unended # 0 => unended' = unended
  BY <1>1, <1>2, WrittenIs DEF LogInv, LogTypeOK
<1>4. next' \in 1..(MaxEntries + 1) /\ tears' \in 0..MaxTears /\ tears' # 0 /\ next' \in Nat
  BY <1>1, LogTypes, LogAssumption DEF LogInv, LogTypeOK
<1>5. LogTypeOK'
  BY <1>1, <1>3, <1>4 DEF LogInv, LogTypeOK
<1>6. \A k \in DOMAIN file' \cup DOMAIN acked' : k < next'
  <2> SUFFICES ASSUME NEW k \in DOMAIN file \cup DOMAIN acked \cup {next} PROVE k < next + 1
    BY <1>1, <1>3
  <2>1. k \in Nat /\ next \in Nat /\ (k < next \/ k = next)
    BY LogTypes DEF LogInv
  <2> QED
    BY <2>1
<1>7. ASSUME ~cut PROVE Sure'
  <2>1. unended \notin DOMAIN acked
    BY <1>7 DEF LogInv, Sure
  <2>2. unended' \notin DOMAIN acked'
    BY <1>1, <1>3, <2>1, LogTypes
  <2>3. Missing' \subseteq Missing \cup {}
    BY <1>1, <1>3, <2>1 DEF Missing
  <2>4. Cardinality({}) <= 0 /\ IsFiniteSet({}) /\ 0 \in Nat /\ 1 \in Nat
    BY SmallSets
  <2>5. 0 + AtRisk' <= AtRisk + 1
    BY <1>3 DEF AtRisk
  <2> QED
    BY <1>1, <1>7, <2>2, <2>3, <2>4, <2>5, SureStays
<1> QED
  BY <1>1, <1>4, <1>5, <1>6, <1>7 DEF LogInv, Finished, Own

LEMMA TruncateKeeps ==
  ASSUME LogInv, Truncate
  PROVE  LogInv'
<1>1. /\ file' = [k \in Kept |-> file[k]] /\ unended' = 0 /\ checkpointed' = checkpointed
      /\ next' = next /\ acked' = acked /\ dropped' = dropped /\ tears' = tears /\ cut' = cut
  BY DEF Truncate
<1>2. /\ DOMAIN file' = Kept /\ Kept \subseteq DOMAIN file
      /\ \A k \in Kept : file'[k] = file[k] /\ file[k].story \notin checkpointed
      /\ \A k \in DOMAIN file \ Kept : file[k].story \in checkpointed
  BY <1>1 DEF Kept
<1>3. file' \in [DOMAIN file' -> Entry \cup {Garbage}]
  BY <1>1, <1>2, LogTypes
<1>4. LogTypeOK'
  BY <1>1, <1>2, <1>3 DEF LogInv, LogTypeOK
<1>5. ASSUME ~cut PROVE Sure'
  <2>1. unended' \notin DOMAIN acked' /\ tears' = tears + 0 /\ AtRisk' = 0
    BY <1>1, LogTypes, LogAssumption DEF Numbers, AtRisk
  <2>2. Missing' \subseteq Missing \cup {}
    BY <1>1, <1>2 DEF Missing, LogInv
  <2>3. Cardinality({}) <= 0 /\ IsFiniteSet({}) /\ 0 \in Nat
    BY SmallSets
  <2>4. 0 + AtRisk' <= AtRisk + 0
    BY <2>1 DEF AtRisk
  <2> QED
    BY <1>5, <2>1, <2>2, <2>3, <2>4, SureStays
<1>6. ASSUME ~cut, tears = 0 PROVE Whole'
  <2>1. Whole
    BY <1>6 DEF LogInv
  <2>2. \A k \in DOMAIN acked' : acked'[k].story \in dropped' \/ k \in DOMAIN file'
    BY <1>1, <1>2, <2>1 DEF Whole, LogInv
  <2>3. ASSUME NEW j \in DOMAIN acked', NEW k \in DOMAIN acked',
               acked'[j].story = acked'[k].story, j \in DOMAIN file'
        PROVE  k \in DOMAIN file'
    BY <1>1, <1>2, <2>1, <2>3 DEF Whole
  <2> QED
    BY <1>1, <1>2, <2>1, <2>2, <2>3 DEF Whole
<1> QED
  BY <1>1, <1>2, <1>4, <1>5, <1>6 DEF LogInv, Finished, Own

LEMMA TruncateTearsKeeps ==
  ASSUME LogInv, NEW restart \in BOOLEAN, TruncateTears(restart)
  PROVE  LogInv'
<1>1. /\ cut' = TRUE /\ checkpointed' \subseteq checkpointed
      /\ next' = next /\ acked' = acked /\ dropped' = dropped /\ tears' = tears
  BY DEF TruncateTears
<1>2. /\ DOMAIN file' \subseteq DOMAIN file /\ file' \in [DOMAIN file' -> Entry \cup {Garbage}]
      /\ unended' \in {0} \cup DOMAIN file'
  <2>1. CASE file' = NoLines /\ unended' = 0
    BY <2>1 DEF NoLines
  <2>2. ASSUME NEW k \in Kept, NEW line \in {Garbage, file[k]},
               file' = [j \in {i \in Kept : i <= k} |-> IF j = k THEN line ELSE file[j]],
               unended' \in {0, k}
        PROVE  /\ DOMAIN file' \subseteq DOMAIN file /\ file' \in [DOMAIN file' -> Entry \cup {Garbage}]
               /\ unended' \in {0} \cup DOMAIN file'
    <3>1. Kept \subseteq DOMAIN file /\ k \in Nat
      BY LogTypes DEF Kept
    <3>2. DOMAIN file' = {i \in Kept : i <= k} /\ k \in DOMAIN file'
      BY <2>2, <3>1
    <3> QED
      BY <2>2, <3>1, <3>2, LogTypes
  <2> QED
    BY <2>1, <2>2 DEF TruncateTears
<1>3. LogTypeOK'
  BY <1>1, <1>2 DEF LogInv, LogTypeOK
<1> QED
  BY <1>1, <1>2, <1>3 DEF LogInv, Finished, Own

LEMMA CheckpointedKeeps ==
  ASSUME LogInv, NEW s \in LogStories, LogCheckpoint(s)
  PROVE  LogInv'
<1>1. /\ checkpointed' = checkpointed \cup {s} /\ dropped' = dropped \cup {s} /\ Finished(s)
      /\ file' = file /\ unended' = unended /\ next' = next /\ acked' = acked /\ tears' = tears /\ cut' = cut
  BY DEF LogCheckpoint
<1>2. LogTypeOK'
  BY <1>1 DEF LogInv, LogTypeOK
<1>3. ASSUME ~cut PROVE Sure'
  <2>1. Missing' \subseteq Missing \cup {} /\ AtRisk' = AtRisk
    BY <1>1 DEF Missing, AtRisk
  <2>2. Cardinality({}) <= 0 /\ IsFiniteSet({}) /\ 0 \in Nat
    BY SmallSets
  <2>3. 0 + AtRisk' <= AtRisk + 0 /\ tears' = tears + 0
    BY <1>1, <2>1, LogTypes DEF AtRisk
  <2>4. unended' \notin DOMAIN acked'
    BY <1>1, <1>3 DEF LogInv, Sure
  <2> QED
    BY <1>3, <2>1, <2>2, <2>3, <2>4, SureStays
<1>4. ASSUME ~cut, tears = 0 PROVE Whole'
  BY <1>1, <1>4 DEF LogInv, Whole
<1> QED
  BY <1>1, <1>2, <1>3, <1>4 DEF LogInv, Finished, Own

LEMMA LogStarts == LogInit => LogInv
<1> SUFFICES ASSUME LogInit PROVE LogInv
  OBVIOUS
<1>1. /\ file = NoLines /\ acked = NoLines /\ DOMAIN NoLines = {}
      /\ NoLines \in [{} -> Entry \cup {Garbage}] /\ NoLines \in [{} -> Entry]
  BY DEF LogInit, NoLines
<1>2. Missing = {} /\ AtRisk = 0
  BY <1>1 DEF LogInit, Missing, AtRisk
<1>3. Cardinality(Missing) = 0
  BY <1>2, SmallSets, Zenon
<1>4. LogTypeOK
  <2>1. next \in 1..(MaxEntries + 1) /\ tears \in 0..MaxTears
    BY LogAssumption DEF LogInit
  <2>2. DOMAIN file = {} /\ DOMAIN acked = {}
    BY <1>1
  <2> QED
    BY <1>1, <2>1, <2>2 DEF LogInit, LogTypeOK
<1>5. Sure
  BY <1>1, <1>2, <1>3 DEF LogInit, Sure
<1>6. Whole
  BY <1>1 DEF LogInit, Whole
<1> QED
  BY <1>1, <1>4, <1>5, <1>6 DEF LogInit, LogInv

LEMMA LogSteps == LogInv /\ [LogNext]_logVars => LogInv'
<1> SUFFICES ASSUME LogInv, [LogNext]_logVars PROVE LogInv'
  OBVIOUS
<1>1. CASE UNCHANGED logVars
  BY <1>1 DEF logVars, LogInv, LogTypeOK, Sure, Whole, Missing, AtRisk, Finished, Own
<1> QED
  BY <1>1, AppendKeeps, TearKeeps, TruncateKeeps, TruncateTearsKeeps, CheckpointedKeeps DEF LogNext

\* append and truncate: one acknowledged entry is lost at most for each write
\* that stops short, unless a rewrite does.
THEOREM LossesAreBounded == LogSpec => []LossIsBounded
<1>1. LogInv => LossIsBounded
  <2> SUFFICES ASSUME LogInv, ~cut PROVE Cardinality(Missing) <= tears
    BY LogTypes DEF LossIsBounded
  <2>1. Cardinality(Missing) + AtRisk <= tears
    BY DEF LogInv, Sure
  <2> QED
    BY <2>1, LogTypes DEF AtRisk
<1> QED
  BY <1>1, LogStarts, LogSteps, PTL DEF LogSpec

\* recover: what was acknowledged of the stories not ended, no more and no less.
THEOREM AckedIsRecovered == LogSpec => []RecoversWhatWasAcked
<1>1. LogInv => RecoversWhatWasAcked
  <2> SUFFICES ASSUME LogInv, ~cut, tears = 0, NEW s \in LogStories
               PROVE  /\ Recovered(s) = IF Finished(s) THEN {} ELSE Own(acked, s)
                      /\ \A k \in Recovered(s) : file[k] = acked[k]
    BY DEF RecoversWhatWasAcked
  <2>1. Whole
    BY DEF LogInv
  <2>2. \A k \in Own(file, s) : k \in Own(acked, s) /\ file[k] = acked[k]
    BY <2>1 DEF Whole, Own
  <2>3. CASE ~Finished(s)
    <3>1. s \notin dropped
      BY <2>3 DEF LogInv
    <3>2. Own(acked, s) \subseteq Own(file, s)
      BY <2>1, <3>1 DEF Whole, Own
    <3>3. ~Ended(file, s)
      BY <2>2, <2>3 DEF Ended, Finished
    <3> QED
      BY <2>2, <2>3, <3>2, <3>3 DEF Recovered
  <2>4. CASE Finished(s)
    <3>1. PICK k \in Own(acked, s) : acked[k].final
      BY <2>4 DEF Finished
    <3>2. CASE Own(file, s) = {}
      BY <2>4, <3>2 DEF Recovered
    <3>3. CASE Own(file, s) # {}
      <4>1. PICK j \in Own(file, s) : TRUE
        BY <3>3
      <4>2. k \in Own(file, s)
        <5>1. /\ j \in DOMAIN acked /\ k \in DOMAIN acked /\ j \in DOMAIN file
              /\ acked[j].story = acked[k].story /\ acked[k].story = s
          BY <2>2, <3>1, <4>1 DEF Own
        <5>2. k \in DOMAIN file
          BY <2>1, <5>1 DEF Whole
        <5>3. file[k].story = s
          BY <2>1, <5>1, <5>2 DEF Whole
        <5> QED
          BY <5>2, <5>3 DEF Own
      <4>3. file[k].final
        BY <2>2, <3>1, <4>2
      <4>4. \A i \in Own(file, s) : i <= k
        BY <2>2, <3>1 DEF LogInv, Own
      <4>5. Ended(file, s)
        BY <4>2, <4>3, <4>4 DEF Ended
      <4> QED
        BY <2>4, <4>5 DEF Recovered
    <3> QED
      BY <3>2, <3>3
  <2> QED
    BY <2>3, <2>4
<1> QED
  BY <1>1, LogStarts, LogSteps, PTL DEF LogSpec
=============================================================================
