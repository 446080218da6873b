------------------------------- MODULE Backup -------------------------------
(***************************************************************************)
(* backup/__init__.py: BackupManager copies the state files into a         *)
(* directory named after the second, and back.                             *)
(*                                                                         *)
(* Files are copied one after the other in no fixed order, each into a     *)
(* temporary file that is then renamed.  The second may pass and the files *)
(* may be changed, by another process of the project, between any two      *)
(* steps; a file that cannot be copied is logged and passed over, and a    *)
(* crash passes over the rest.  Of what a file holds only the number of    *)
(* the change is kept.  A temporary file that is left behind matters only  *)
(* in that it keeps its directory: it has another name than every state    *)
(* file, also once it is restored.                                         *)
(***************************************************************************)
EXTENDS Integers, FiniteSets

CONSTANTS StateFiles,
          MaxBackups,    \* max_count of cleanup_old_backups
          MaxSeconds,    \* bound on the clock
          MaxChanges     \* bound on the changes of state files

ASSUME BackupAssumption == /\ MaxBackups \in Nat \ {0} /\ MaxSeconds \in Nat \ {0}
                           /\ MaxChanges \in Nat

VARIABLES project,    \* [StateFiles -> Nat]: the change each file holds, 0 when there is none
          dirs,       \* the seconds whose directory exists, be it empty
          stored,     \* [Seconds -> [StateFiles -> Nat]]: what the backup of a second holds
          work,       \* the backup or the restore under way
          second,     \* the clock, to the second
          changes,    \* changes of state files so far
          held        \* history: what each file has held in each second

backupVars == <<project, dirs, stored, work, second, changes, held>>

Seconds == 1..MaxSeconds
Empty == [f \in StateFiles |-> 0]

\* A file of which only a part has been written.
Half == -1

\* left: the files still to be copied; file: at most one, which is being
\* copied; copy: what its temporary file holds; some: a file was copied.
Idle == [does |-> "nothing", of |-> 1, left |-> {}, file |-> {}, copy |-> Half, some |-> FALSE]
Starts(d, t, S) == work = Idle /\ work' = [Idle EXCEPT !.does = d, !.of = t, !.left = S]

BackupInit == /\ project = Empty /\ dirs = {} /\ stored = [t \in Seconds |-> Empty]
              /\ work = Idle /\ second = 1 /\ changes = 0
              /\ held = [t \in Seconds |-> [f \in StateFiles |-> IF t = 1 THEN {0} ELSE {}]]

\* The file f of the project holds v from now on.
Holds(f, v) == /\ project' = [project EXCEPT ![f] = v]
               /\ held' = [held EXCEPT ![second][f] = @ \cup {v}]

Change(f) == /\ changes < MaxChanges /\ changes' = changes + 1 /\ Holds(f, changes + 1)
             /\ UNCHANGED <<dirs, stored, work, second>>

Second == /\ second < MaxSeconds /\ second' = second + 1
          /\ held' = [held EXCEPT ![second + 1] = [f \in StateFiles |-> {project[f]}]]
          /\ UNCHANGED <<project, dirs, stored, work, changes>>

\* create_backup reads the clock and makes the directory.  A second backup
\* in the same second goes into the same one.
StartBackup == /\ Starts("backup", second, StateFiles) /\ dirs' = dirs \cup {second}
               /\ UNCHANGED <<project, stored, second, changes, held>>

\* restore_backup goes through what the directory holds.
StartRestore(t) == /\ t \in dirs /\ Starts("restore", t, {f \in StateFiles : stored[t][f] # 0})
                   /\ UNCHANGED <<project, dirs, stored, second, changes, held>>

Source(f) == IF work.does = "backup" THEN project[f] ELSE stored[work.of][f]

\* Mutant of Open: the copy goes straight to the name it is to have.
Open_InPlace(f) ==
  /\ f \in work.left /\ work.file = {} /\ Source(f) # 0
  /\ work' = [work EXCEPT !.left = @ \ {f}, !.file = {f}, !.copy = Half]
  /\ IF work.does = "backup"
     THEN stored' = [stored EXCEPT ![work.of][f] = Half] /\ UNCHANGED project
     ELSE project' = [project EXCEPT ![f] = Half] /\ UNCHANGED stored
  /\ UNCHANGED <<dirs, second, changes, held>>

\* copy2 opens the temporary file and writes it.
Open(f) ==
  /\ f \in work.left /\ work.file = {} /\ Source(f) # 0
  /\ work' = [work EXCEPT !.left = @ \ {f}, !.file = {f}, !.copy = Half]
  /\ UNCHANGED <<project, dirs, stored, second, changes, held>>

Copied(f) == /\ f \in work.file /\ work.copy = Half
             /\ work' = [work EXCEPT !.copy = Source(f)]
             /\ UNCHANGED <<project, dirs, stored, second, changes, held>>

\* The temporary file takes the place of the file.
Rename(f) == /\ f \in work.file /\ work.copy # Half
             /\ work' = [work EXCEPT !.file = {}, !.copy = Half, !.some = TRUE]
             /\ IF work.does = "backup"
                THEN stored' = [stored EXCEPT ![work.of][f] = work.copy] /\ UNCHANGED <<project, held>>
                ELSE Holds(f, work.copy) /\ UNCHANGED stored
             /\ UNCHANGED <<dirs, second, changes>>

\* A file that does not exist, or that cannot be copied.
Pass(f) == /\ \/ f \in work.left /\ work.file = {} /\ work' = [work EXCEPT !.left = @ \ {f}]
              \/ f \in work.file /\ work' = [work EXCEPT !.file = {}, !.copy = Half]
           /\ UNCHANGED <<project, dirs, stored, second, changes, held>>

\* A backup that copied nothing removes its directory, where that is empty
\* and can be removed.
End == /\ work # Idle /\ work.left = {} /\ work.file = {} /\ work' = Idle
       /\ \/ UNCHANGED dirs
          \/ /\ work.does = "backup" /\ ~work.some /\ stored[work.of] = Empty
             /\ dirs' = dirs \ {work.of}
       /\ UNCHANGED <<project, stored, second, changes, held>>

\* A crash, or an error while a temporary file is removed.
Die == /\ work # Idle /\ work' = Idle
       /\ UNCHANGED <<project, dirs, stored, second, changes, held>>

\* cleanup_old_backups: all but the newest; list_backups sorts them.
Old == {t \in dirs : Cardinality({u \in dirs : u > t}) >= MaxBackups}

\* What is in a directory goes before the directory; what cannot be removed
\* is passed over.
CleanupOldBackups ==
  /\ work = Idle
  /\ \E left \in [Old -> SUBSET StateFiles], gone \in SUBSET Old :
       /\ \A t \in gone : left[t] = {}
       /\ dirs' = dirs \ gone
       /\ stored' = [t \in Seconds |-> IF t \in Old
                                       THEN [f \in StateFiles |-> IF f \in left[t] THEN stored[t][f] ELSE 0]
                                       ELSE stored[t]]
  /\ UNCHANGED <<project, work, second, changes, held>>

BackupNext == \/ \E f \in StateFiles : Change(f) \/ Open(f) \/ Copied(f) \/ Rename(f) \/ Pass(f)
              \/ Second \/ StartBackup \/ (\E t \in Seconds : StartRestore(t))
              \/ End \/ Die \/ CleanupOldBackups

BackupSpec == BackupInit /\ [][BackupNext]_backupVars
-----------------------------------------------------------------------------
\* The file f held v in the second t or later.
HeldSince(t, f, v) == \E u \in t..second : v \in held[u][f]

\* What a backup holds of a file is what the file held, all of it, in the
\* second of the backup's name or later, and what a restore brings back is
\* whole: however copies fail or die half way, backups of one second
\* overwrite one another, and files are changed meanwhile.  That the files
\* of one backup are of one moment is not said, and not so.
CopiesAreWhole ==
  \A f \in StateFiles :
    /\ project[f] # Half
    /\ \A t \in Seconds : stored[t][f] # 0 => HeldSince(t, f, stored[t][f])

=============================================================================
