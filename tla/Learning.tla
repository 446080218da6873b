------------------------------ MODULE Learning ------------------------------
(***************************************************************************)
(* learning/__init__.py: post-mortems of failures, the rules drawn from    *)
(* them, and the two files both are kept in.                               *)
(*                                                                         *)
(* A post-mortem is its number; a rule is the number of the post-mortem it *)
(* was drawn from.  Texts and their classification are left out, and so is *)
(* the entry in Memory that goes with each post-mortem.                    *)
(***************************************************************************)
EXTENDS Integers

CONSTANTS MaxFailures,   \* bound on the failures analysed
          MaxShortSaves, \* bound on the saves that stop short
          MaxLives       \* bound on the restarts

ASSUME LearningAssumption == MaxFailures \in Nat /\ MaxShortSaves \in Nat /\ MaxLives \in Nat

VARIABLES postMortems, heuristics,           \* in memory
          postMortemFile, heuristicFile,     \* what each file holds, {Torn} if it does not parse
          failures, shortSaves, lives

learningVars == <<postMortems, heuristics, postMortemFile, heuristicFile, failures, shortSaves, lives>>

Torn == 0

LearningInit == /\ postMortems = {} /\ heuristics = {} /\ postMortemFile = {} /\ heuristicFile = {}
                /\ failures = 0 /\ shortSaves = 0 /\ lives = 0

\* analyze_gate_failure and analyze_reviewer_rejection; a rule is drawn if
\* the text shows a trigger.
Analyze(trigger) ==
  /\ failures < MaxFailures /\ failures' = failures + 1
  /\ postMortems' = postMortems \cup {failures + 1}
  /\ heuristics' = IF trigger THEN heuristics \cup {failures + 1} ELSE heuristics
  /\ UNCHANGED <<postMortemFile, heuristicFile, shortSaves, lives>>

SaveLearnings == /\ postMortemFile' = postMortems /\ heuristicFile' = heuristics
                 /\ UNCHANGED <<postMortems, heuristics, failures, shortSaves, lives>>

\* Mutant of SaveShort: the rules are written first.
SaveShort_RulesFirst ==
  /\ shortSaves < MaxShortSaves /\ shortSaves' = shortSaves + 1
  /\ \/ heuristicFile' = {Torn} /\ UNCHANGED postMortemFile
     \/ heuristicFile' = heuristics /\ postMortemFile' \in {postMortemFile, {Torn}}
  /\ UNCHANGED <<postMortems, heuristics, failures, lives>>

\* A save that dies or raises: in the first file, or after it, or in the second.
SaveShort ==
  /\ shortSaves < MaxShortSaves /\ shortSaves' = shortSaves + 1
  /\ \/ postMortemFile' = {Torn} /\ UNCHANGED heuristicFile
     \/ postMortemFile' = postMortems /\ heuristicFile' \in {heuristicFile, {Torn}}
  /\ UNCHANGED <<postMortems, heuristics, failures, lives>>

\* The process ends, and another begins with load, which goes no further than
\* the first file it cannot parse.
ReadLearnings ==
  /\ lives < MaxLives /\ lives' = lives + 1
  /\ postMortems' = postMortemFile \ {Torn}
  /\ heuristics' = IF Torn \in postMortemFile THEN {} ELSE heuristicFile \ {Torn}
  /\ UNCHANGED <<postMortemFile, heuristicFile, failures, shortSaves>>

LearningNext == (\E trigger \in BOOLEAN : Analyze(trigger)) \/ SaveLearnings \/ SaveShort \/ ReadLearnings

LearningSpec == LearningInit /\ [][LearningNext]_learningVars
-----------------------------------------------------------------------------
LearningTypeOK ==
  /\ postMortems \subseteq 1..MaxFailures /\ heuristics \subseteq 1..MaxFailures
  /\ postMortemFile \subseteq 0..MaxFailures /\ heuristicFile \subseteq 0..MaxFailures
  /\ failures \in 0..MaxFailures /\ shortSaves \in 0..MaxShortSaves /\ lives \in 0..MaxLives

\* A rule has the post-mortem it was drawn from, by whose class it is chosen,
\* over any number of restarts: the two files are written one after the
\* other, and one save that stops short does not part them.  Two can.
RulesHaveTheirSource == shortSaves <= 1 => heuristics \subseteq postMortems
=============================================================================
