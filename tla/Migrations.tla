----------------------------- MODULE Migrations -----------------------------
(***************************************************************************)
(* config/migrations.py: MigrationManager on one SQLite file, which        *)
(* outlives the process; what is registered does not.                      *)
(*                                                                         *)
(* A script is Statements statements, and effect[v] holds those of version *)
(* v's up script that are in effect; statement k of a down script undoes   *)
(* statement k of the up script.  executescript first commits what is      *)
(* pending and then runs its statements one by one, each committed as it   *)
(* is done; the record written after a script waits for the next commit.   *)
(* So a run that stops, by an exception or with the process, leaves the    *)
(* scripts before one version done and recorded, some statements of that   *)
(* one done, and its record as it was.                                     *)
(***************************************************************************)
EXTENDS Integers, FiniteSets

CONSTANTS Versions, Statements,
          MaxStops     \* bound on the runs that stop

ASSUME MigrationAssumption == /\ Versions \subseteq Nat \ {0} /\ IsFiniteSet(Versions)
                              /\ Statements \in Nat \ {0} /\ MaxStops \in Nat

VARIABLES registered,  \* _migrations
          recorded,    \* the rows of the table _migrations
          effect,
          stops        \* history: how many runs stopped

migrationVars == <<registered, recorded, effect, stops>>

Script == 1..Statements

MigrationTypeOK == /\ registered \subseteq Versions /\ recorded \subseteq Versions
                   /\ effect \in [Versions -> SUBSET Script]
                   /\ stops \in 0..MaxStops

MigrationInit == /\ registered = {} /\ recorded = {} /\ stops = 0
                 /\ effect = [v \in Versions |-> {}]

\* get_current_version
Current == CHOOSE v \in recorded \cup {0} : \A u \in recorded : u <= v

\* get_pending: those above the latest, in order of their versions.
Pending == {v \in registered : v > Current}

Register(v) == /\ v \notin registered
               /\ registered' = registered \cup {v}
               /\ UNCHANGED <<recorded, effect, stops>>

Restart == registered # {} /\ registered' = {} /\ UNCHANGED <<recorded, effect, stops>>

Migrate == /\ Pending # {}
           /\ recorded' = recorded \cup Pending
           /\ effect' = [v \in Versions |-> IF v \in Pending THEN Script ELSE effect[v]]
           /\ UNCHANGED <<registered, stops>>

\* migrate stops at version v, k statements of its script done.
MigrateStops ==
  /\ stops < MaxStops
  /\ \E v \in Pending, k \in 0..Statements :
       /\ effect' = [u \in Versions |-> IF u \in Pending /\ u < v THEN Script
                                        ELSE IF u = v THEN effect[u] \cup 1..k ELSE effect[u]]
       /\ recorded' = recorded \cup {u \in Pending : u < v}
  /\ stops' = stops + 1 /\ UNCHANGED registered

\* Everything registered above the target is rolled back, applied or not.
Above(target) == {v \in registered : v > target}

\* Mutant of RollBack: the records go, the last script is not run.
RollBack_KeepLowest(target) ==
  /\ target < Current /\ Above(target) # {}
  /\ recorded' = recorded \ Above(target)
  /\ effect' = [v \in Versions |-> IF v \in Above(target + 1) THEN {} ELSE effect[v]]
  /\ UNCHANGED <<registered, stops>>

RollBack(target) ==
  /\ target < Current /\ Above(target) # {}
  /\ recorded' = recorded \ Above(target)
  /\ effect' = [v \in Versions |-> IF v \in Above(target) THEN {} ELSE effect[v]]
  /\ UNCHANGED <<registered, stops>>

\* rollback, from the highest version down, stops at v.
RollBackStops(target) ==
  /\ target < Current /\ stops < MaxStops
  /\ \E v \in Above(target), k \in 0..Statements :
       /\ effect' = [u \in Versions |-> IF u \in Above(v) THEN {}
                                        ELSE IF u = v THEN effect[u] \ 1..k ELSE effect[u]]
       /\ recorded' = recorded \ Above(v)
  /\ stops' = stops + 1 /\ UNCHANGED registered

MigrationNext == \/ \E v \in Versions : Register(v)
                 \/ Restart \/ Migrate \/ MigrateStops
                 \/ \E t \in Versions \cup {0} : RollBack(t) \/ RollBackStops(t)

MigrationSpec == MigrationInit /\ [][MigrationNext]_migrationVars
-----------------------------------------------------------------------------
\* The versions whose record and schema disagree.
OutOfStep == {v \in Versions : effect[v] # IF v \in recorded THEN Script ELSE {}}

\* Each run that stops leaves one version out of step at most, and a run that
\* completes leaves none more, whatever was registered when: the record can
\* be trusted of all the others.
OneOutOfStep == Cardinality(OutOfStep) <= stops
=============================================================================
