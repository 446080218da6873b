---------------------------- MODULE QualityGates ----------------------------
(***************************************************************************)
(* The quality gate engine of quality/__init__.py: one evaluation of a     *)
(* policy, its gates run side by side or one after the other, and the      *)
(* action it recommends.                                                   *)
(*                                                                         *)
(* What the external programs of the gates would answer is chosen before   *)
(* they run.  Messages, durations and the first findings that are kept for *)
(* show are left out; of a text that is parsed there is what the parser    *)
(* makes of it.                                                            *)
(***************************************************************************)
EXTENDS Integers, Sequences, SequencesExt, FiniteSets

CONSTANTS Projects,    \* what a project consists of: sets of "py", "ts", "integration", ...
          Policies,    \* the policies it may be evaluated against
          Answers      \* what a program may answer, records as below

VARIABLES project, policy, answers,
          running,     \* gates that have been started and have not answered
          results,     \* [outcome, enforcement] of the gates that have
          decided      \* whether evaluate has returned

qualityVars == <<project, policy, answers, running, results, decided>>

\* The types of gates in the order every template lists them.
GateTypes == <<"lint", "type_check", "unit_test", "integration_test", "e2e_test", "sast",
               "dependency_audit", "secret_detection", "coverage_delta", "performance_budget",
               "migration_safety">>
AllGates == Range(GateTypes)

ASSUME QualityAssumption == \A p \in Policies : DOMAIN p.gates \subseteq AllGates

Levels(optional, warning) ==
  [g \in AllGates |-> IF g \in optional THEN "optional" ELSE IF g \in warning THEN "warning" ELSE "required"]
\* _default_policy and from_template.  A policy holds its gates with their
\* enforcement, the findings that are tolerated, and the mode.
DefaultPolicy  == [gates |-> Levels({"e2e_test", "performance_budget", "migration_safety"}, {}),
                   max_findings |-> 0, fail_fast |-> FALSE, parallel |-> TRUE]
StrictPolicy   == [DefaultPolicy EXCEPT !.gates = Levels({}, {}), !.fail_fast = TRUE]
StandardPolicy == [DefaultPolicy EXCEPT !.gates =
                      Levels({"performance_budget", "migration_safety"}, {"e2e_test"})]
MinimalPolicy  == [DefaultPolicy EXCEPT !.gates =
                      [g \in {"lint", "unit_test", "secret_detection"} |-> "required"]]

\* An answer is [raises, exit, findings, grave, enough]: the exit status and
\* what is to be found in the output; enough is for the coverage.  A program
\* that is not there, or runs into the timeout of its gate, raises.
Raises(a) == a.raises
\* What the parsers make of it.  Problems, coverage and secrets are found.
Problems(a) == a.findings
Covered(a) == a.enough
Secrets(a) == a.findings
\* semgrep is not asked for JSON, and what is not JSON holds no findings.
Vulnerable(a) == 0
\* pip-audit's severities go to a record that is only filled once it is not
\* empty; those of npm are read.
PipCritical(a) == 0
NpmCritical(a) == a.grave

\* A finding count is held against the limit only if the program failed.
ByFindings(a) == IF a.exit = 0 THEN "passed"
                 ELSE IF Problems(a) <= policy.max_findings THEN "warning" ELSE "failed"
ByExit(a) == IF a.exit = 0 THEN "passed" ELSE "failed"

\* The gates that start no program: nothing to look at, or not implemented.
\* "*.{js,ts,tsx,jsx}" is no pattern of glob's, so scripts are never found.
Skips(g) == \/ g \in {"lint", "unit_test"} /\ "py" \notin project
            \/ g = "type_check" /\ project \cap {"py", "ts"} = {}
            \/ g = "integration_test" /\ project \cap {"integration", "package"} = {}
            \/ g = "e2e_test" /\ project \cap {"e2e", "package"} = {}
            \/ g = "dependency_audit" /\ project \cap {"py", "requirements", "package"} = {}
            \/ g \in {"coverage_delta", "performance_budget"}
            \/ g = "migration_safety" /\ "migrations" \notin project

Run_lint(a) == ByFindings(a)
Run_type_check(a) == ByFindings(a)
Run_unit_test(a) == IF a.exit = 0 /\ Covered(a) THEN "passed" ELSE "failed"
Run_integration_test(a) == ByExit(a)
Run_e2e_test(a) == ByExit(a)
\* These three never look at the exit status.
Run_sast(a) == IF Vulnerable(a) = 0 THEN "passed"
               ELSE IF Vulnerable(a) <= policy.max_findings THEN "warning" ELSE "failed"
Run_dependency_audit(a) ==
  LET critical == IF project \cap {"py", "requirements"} # {} THEN PipCritical(a) ELSE NpmCritical(a)
  IN IF critical = 0 THEN "passed" ELSE "failed"
Run_secret_detection(a) == IF Secrets(a) = 0 THEN "passed" ELSE "failed"
\* Migrations are read, no program is run: a finding is one without a way back.
Run_migration_safety(a) == IF a.findings = 0 THEN "passed" ELSE "failed"

\* evaluate_single.
Outcome(g, a) ==
  CASE Skips(g) -> "skipped"
    [] Raises(a) /\ ~Skips(g) -> "error"
    [] OTHER -> CASE g = "lint" -> Run_lint(a)
                  [] g = "type_check" -> Run_type_check(a)
                  [] g = "unit_test" -> Run_unit_test(a)
                  [] g = "integration_test" -> Run_integration_test(a)
                  [] g = "e2e_test" -> Run_e2e_test(a)
                  [] g = "sast" -> Run_sast(a)
                  [] g = "dependency_audit" -> Run_dependency_audit(a)
                  [] g = "secret_detection" -> Run_secret_detection(a)
                  [] g = "migration_safety" -> Run_migration_safety(a)
\* The detection of secrets calls its result required, unless it raised.
Result(g, a) ==
  LET o == Outcome(g, a)
  IN [outcome |-> o, enforcement |-> IF g = "secret_detection" /\ o # "error" THEN "required"
                                     ELSE policy.gates[g]]
-----------------------------------------------------------------------------
\* The gates of the policy that are to be run.
Tasks == {g \in DOMAIN policy.gates : policy.gates[g] # "disabled"}
Concurrent == policy.parallel /\ Cardinality(Tasks) > 1

QualityInit == /\ project \in Projects /\ policy \in Policies
               /\ answers \in [DOMAIN policy.gates -> Answers]
               /\ running = (IF Concurrent THEN Tasks ELSE {})
               /\ results = <<>> /\ decided = FALSE

Done == DOMAIN results
Record(g) == results' = [h \in Done \cup {g} |-> IF h = g THEN Result(g, answers[g]) ELSE results[h]]

\* gather: the gates answer in any order.
Concludes(g) == /\ g \in running /\ running' = running \ {g} /\ Record(g)
               /\ UNCHANGED <<project, policy, answers, decided>>

\* Mutant of StopsFast: whatever did not pass stops the rest.
StopsFast_Any == /\ policy.fail_fast
                 /\ \E g \in Done : results[g].outcome \in {"failed", "error"}
\* A failed gate that the policy requires stops the rest.
StopsFast == /\ policy.fail_fast
             /\ \E g \in Done : policy.gates[g] = "required" /\ results[g].outcome = "failed"

\* One after the other, in the order of the policy.
Remaining == Tasks \ Done
Position(g) == CHOOSE i \in DOMAIN GateTypes : GateTypes[i] = g
InTurn == /\ ~Concurrent /\ ~decided /\ ~StopsFast
          /\ \E g \in Remaining : /\ \A h \in Remaining : Position(g) <= Position(h)
                                 /\ Record(g)
          /\ UNCHANGED <<project, policy, answers, running, decided>>

Over == IF Concurrent THEN running = {} ELSE StopsFast \/ Remaining = {}
Recommend == /\ ~decided /\ Over /\ decided' = TRUE
          /\ UNCHANGED <<project, policy, answers, running, results>>

RequiredOnes == {g \in Done : results[g].enforcement = "required"}
all_required_passed == \A g \in RequiredOnes : results[g].outcome \in {"passed", "skipped", "warning"}
has_warnings == \E g \in Done : results[g].outcome = "warning"
recommended_action == IF \E g \in RequiredOnes : results[g].outcome = "failed" THEN "block"
                      ELSE IF has_warnings THEN "review" ELSE "merge"

QualityNext == \/ (\E g \in running : Concludes(g)) \/ InTurn \/ Recommend

QualitySpec == QualityInit /\ [][QualityNext]_qualityVars
-----------------------------------------------------------------------------
\* Side by side, one after the other or stopped at the first failure, an
\* evaluation blocks exactly when a gate that counts as required fails or
\* would have, and calls the required ones passed exactly when none of them
\* fails or breaks down: stopping early hides nothing.
EveryModeDecidesAlike ==
  decided =>
    LET count == {g \in Tasks : Result(g, answers[g]).enforcement = "required"}
        outcomes == {Result(g, answers[g]).outcome : g \in count}
    IN /\ recommended_action = "block" <=> "failed" \in outcomes
       /\ all_required_passed <=> outcomes \cap {"failed", "error"} = {}

=============================================================================
