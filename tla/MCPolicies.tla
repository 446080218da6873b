----------------------------- MODULE MCPolicies -----------------------------
(* The state machine, the retry policy, the convergence detector, the       *)
(* approval gates, the circuit breakers of the language-model providers,    *)
(* the rate limiter of the API, the indexes of the codebase, the graph of   *)
(* the project, the planner, the quality gates and the security scanner,    *)
(* each driven through every order of its own calls.  They share no state   *)
(* (Orchestrator.tla and ModelRouter.tla compose the first five), so a      *)
(* behaviour exercises one of them and leaves the others as they start.     *)
EXTENDS StateMachine, RetryPolicy, Iterations, ApprovalGates, CircuitBreaker,
        RateLimiter, CodebaseIndex, Planner, QualityGates, SecurityScan,
        KnowledgeGraph

CONSTANTS a, c1, c2, i, j, k1, k2, s1, s2, p1, p2, f1, f2, f3, t1, t2, g1, g2, shared,
          MaxStreak   \* bound on the outcomes of one kind recorded in a row

VARIABLE part      \* which of them this behaviour exercises

vars == <<part, machineVars, retryVars, errors, gateVars, circuitVars, limiterVars, indexVars,
          plannerVars, qualityVars, scanVars, knowledgeVars>>

\* c1 and c2 are a story and a copy of it: one id.  a is alone on its id.
MCObjects == {a, c1, c2}
MCIds == {i, j}
MCIdOf == (a :> i) @@ (c1 :> j) @@ (c2 :> j)
MCKeys == {k1, k2}
MCFingerprints == {"f", "g"}
MCProviders == {p1, p2}
MCStories == {s1, s2}
MCSourceFiles == {f1, f2, f3}
MCGates == {"pre_code", "pre_deploy", "budget_exceeded"}
MCEnabledGates == {"pre_code", "pre_deploy"}
MCThreads == {t1, t2}
MCSources == {g1, g2}
MCSharedProviders == {shared}

\* Policies cut down to three gates each, and what the programs may answer.
Cut(p, G) == [p EXCEPT !.gates = [g \in G |-> p.gates[g]]]
InTurnOf(p) == [p EXCEPT !.parallel = FALSE]
MCPolicySet ==
  {MinimalPolicy, InTurnOf(MinimalPolicy), Cut(StrictPolicy, {"lint", "unit_test", "sast"}),
   InTurnOf(Cut(StrictPolicy, {"lint", "e2e_test", "secret_detection"})),
   InTurnOf(Cut(StrictPolicy, {"type_check", "integration_test", "dependency_audit"})),
   Cut(StandardPolicy, {"e2e_test", "performance_budget", "migration_safety"}),
   Cut(DefaultPolicy, {"coverage_delta", "dependency_audit", "e2e_test"}),
   [InTurnOf(Cut(StrictPolicy, {"lint", "unit_test", "secret_detection"})) EXCEPT
      !.gates["secret_detection"] = "optional", !.gates["lint"] = "disabled", !.max_findings = 1]}
Fine == [raises |-> FALSE, exit |-> 0, findings |-> 0, grave |-> 0, enough |-> TRUE]
MCAnswers == {Fine, [Fine EXCEPT !.exit = 1]} \cup {[Fine EXCEPT !.raises = r, !.enough = FALSE] : r \in BOOLEAN}
             \cup {[Fine EXCEPT !.exit = 1, !.findings = n, !.grave = n - 1] : n \in 1..2}
MCProjects == {{}, {"py"}, {"ts", "package"}, {"py", "integration", "e2e", "migrations"}}

\* A file to scan: where it lies, what it is, and what each scanner finds in it.
ScanFile(inside, listed, readable, python, secrets, byBandit, bySemgrep) ==
  [inside |-> inside, exists |-> TRUE, listed |-> listed, readable |-> readable, python |-> python,
   secrets |-> secrets, bandit |-> byBandit, semgrep |-> bySemgrep]
SemgrepResult(severity, extra) == [severity |-> severity, extra |-> extra]
Secret(rule, strong) == [rule |-> rule, strong |-> strong]
MCTargets ==
  {ScanFile(TRUE, TRUE, TRUE, TRUE, {}, {"high"}, {SemgrepResult("none", "error")}),
   ScanFile(TRUE, TRUE, TRUE, FALSE, {Secret("jwt_token", FALSE)}, {}, {}),
   ScanFile(TRUE, FALSE, FALSE, FALSE, {Secret("aws_access_key", TRUE)}, {},
            {SemgrepResult("low", "high"), SemgrepResult("none", "h")}),
   ScanFile(TRUE, TRUE, TRUE, TRUE, {Secret("hardcoded_password", FALSE), Secret("high_entropy_base64", TRUE)},
            {"", "low"}, {}),
   [ScanFile(TRUE, TRUE, TRUE, FALSE, {Secret("github_token", TRUE)}, {}, {}) EXCEPT !.exists = FALSE],
   ScanFile(FALSE, TRUE, TRUE, FALSE, {Secret("private_key", TRUE)}, {}, {})}

\* What a language model may answer to the planner: orders, circles, tasks
\* that wait for themselves, for one twice or for one that is not there, none.
MCReplies ==
  {<<PlanTask("a", x, 500), PlanTask("b", y, 2000), PlanTask("c", z, 2000)>> :
     x \in {<<>>, <<"b">>, <<"c", "b">>, <<"b", "b">>}, y \in {<<>>, <<"b">>, <<"c">>},
     z \in {<<>>, <<"a", "b">>}}
  \cup {<<>>, <<PlanTask("a", <<>>, 500), PlanTask("a", <<>>, 2000)>>, <<PlanTask("a", <<"x">>, 2000)>>}
MCStoryKinds == {[kind |-> "bugfix", complexity |-> 6, criteria |-> 1],
                 [kind |-> "feature", complexity |-> 4, criteria |-> 2]}

Init == /\ part \in {"machine", "retry", "convergence", "gates", "circuit", "limiter", "index",
                 "planner", "quality", "scan", "knowledge"}
        /\ MachineInit /\ RetryInit /\ GatesInit /\ BreakerInit /\ LimiterInit
        /\ IterationsInit /\ PlannerInit /\ ScanInit /\ KnowledgeInit
        /\ IF part = "index" THEN TRUE ELSE disk = <<>>
        /\ IndexInit
        /\ IF part = "quality" THEN TRUE ELSE /\ project = {} /\ policy = MinimalPolicy
                                             /\ answers = [g \in DOMAIN MinimalPolicy.gates |-> Fine]
        /\ QualityInit

\* Every part but p keeps its state.
Only(p) == /\ part = p /\ UNCHANGED part
           /\ p # "machine" => UNCHANGED machineVars
           /\ p # "retry" => UNCHANGED retryVars
           /\ p # "convergence" => UNCHANGED errors
           /\ p # "gates" => UNCHANGED gateVars
           /\ p # "circuit" => UNCHANGED circuitVars
           /\ p # "limiter" => UNCHANGED limiterVars
           /\ p # "index" => UNCHANGED indexVars
           /\ p # "planner" => UNCHANGED plannerVars
           /\ p # "quality" => UNCHANGED qualityVars
           /\ p # "scan" => UNCHANGED scanVars
           /\ p # "knowledge" => UNCHANGED knowledgeVars

Next == \/ Only("machine") /\ MachineNext
        \/ Only("retry") /\ RetryNext
        \/ Only("convergence") /\ Iterate
        \/ Only("gates") /\ GatesNext
        \/ Only("circuit") /\ BreakerNext /\ \A p \in Providers : streak'[p] \in -MaxStreak..MaxStreak
        \/ Only("limiter") /\ LimiterNext
        \/ Only("index") /\ IndexNext
        \/ Only("planner") /\ PlannerNext
        \/ Only("quality") /\ QualityNext
        \/ Only("scan") /\ ScanNext
        \/ Only("knowledge") /\ KnowledgeNext

Spec == Init /\ [][Next]_vars
=============================================================================
