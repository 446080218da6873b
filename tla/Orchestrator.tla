---------------------------- MODULE Orchestrator ----------------------------
(***************************************************************************)
(* orchestrator/__init__.py: process_story takes a submitted story through *)
(* analysis, planning, the coding loop (generate, review, test, scan,      *)
(* quality gates), deployment behind the pre_deploy gate, and verification.*)
(*                                                                         *)
(* Every story is one coroutine.  It gives up the event loop at the awaits *)
(* of its components, so an action is the code from one await, or from the *)
(* entry of a stage, to the next; pc says where the coroutine stands.  The *)
(* gate manager is shared with the people who approve and reject.          *)
(*                                                                         *)
(* Each stage does `story = await component(story)`: from then on it works *)
(* on what the component RETURNED.  The name is local to the stage, so if  *)
(* a component returns a copy, the moves the stage makes after the await   *)
(* go to the copy while process_story keeps reading the first object.      *)
(* wiring says, for each component, whether it is absent, updates the      *)
(* story in place and returns it (as every adapter of adapters.py does),   *)
(* or returns a copy (as the Protocol classes permit).                     *)
(*                                                                         *)
(* Left out: callbacks (their exceptions are swallowed), the evidence      *)
(* bundle, context enrichment (both non-fatal, no state), times, messages. *)
(***************************************************************************)
EXTENDS StoryStates, ConvergenceDetector, Functions

CONSTANTS Stories,           \* story ids
          Wirings,           \* the wirings a run starts from
          GeneratorErrors,   \* error contexts a generator files on iterations
          MaxIterations,     \* config.safety.max_iterations_per_story
          MaxRetries,        \* config.safety.max_retries_per_stage
          RetryThreshold,    \* the retry policy's circuit_breaker_threshold
          GateEnabled        \* config.safety.approval_gates["pre_deploy"]

Components == { "analyzer", "planner", "generator", "reviewer", "test_generator",
                "test_runner", "security_scanner", "quality_gate_engine",
                "deployer", "verifier" }
Kinds == {"absent", "inplace", "copy"}

ASSUME OrchestratorAssumption ==
  /\ Wirings \subseteq [Components -> Kinds]
  /\ GeneratorErrors \subseteq IterationError /\ GeneratorErrors # {}
  /\ MaxIterations \in Nat /\ MaxRetries \in Nat /\ RetryThreshold \in Nat \ {0}
  /\ GateEnabled \in BOOLEAN

VARIABLES wiring,     \* how the components answer, fixed when the program starts
          story,      \* the Story object process_story holds
          logged,     \* the state the last record of the story's history leads to
          pc,         \* where process_story stands
          iterNum,    \* iteration_num of the coding loop
          rebound,    \* TRUE: _run_testing works on a copy of the story
          refused,    \* history: the stages that refused the last iteration
          attempts, breaker,    \* retry_policy
          pending, decision     \* approval_gate_manager

storyVars == <<story, logged, pc, iterNum, rebound, refused>>
retryVars == <<attempts, breaker>>
gateVars  == <<pending, decision>>
vars == <<wiring, storyVars, retryVars, gateVars>>

\* The orchestrator asks the retry policy about one stage only, TESTING, so
\* a story's id is the whole key.  Backoffs are computed, never waited for.
Retry == INSTANCE RetryPolicy
           WITH RetryKeys <- Stories, RetryFingerprints <- Fingerprints,
                Threshold <- RetryThreshold, BaseBackoff <- 1,
                BackoffFactor <- 2, MaxBackoff <- 30, MaxAttempts <- MaxIterations

PreDeploy == "pre_deploy"
Gate == INSTANCE ApprovalGates
          WITH Gates <- {PreDeploy}, EnabledGates <- IF GateEnabled THEN {PreDeploy} ELSE {}

Verdicts == {"none", "good", "bad"}
Iteration == [review : Verdicts, tests : Verdicts, error : IterationError]
Story == [state : StoryState, iterations : Seq(Iteration), overBudget : BOOLEAN]
PCs == { "new", "analyze", "enter_planning", "plan", "loop", "replan", "generate",
         "enter_review", "review", "enter_testing", "generate_tests", "run_tests",
         "scan", "quality", "enter_deployment", "deploy", "enter_verification",
         "verify", "error", "returned", "raised" }

TypeOK == /\ wiring \in Wirings
          /\ story \in [Stories -> Story]
          /\ logged \in [Stories -> StoryState]
          /\ pc \in [Stories -> PCs]
          /\ iterNum \in [Stories -> Nat]
          /\ rebound \in [Stories -> BOOLEAN]
          /\ refused \in [Stories -> SUBSET {"review", "scan", "quality"}]
          /\ Retry!RetryTypeOK
          /\ Gate!GatesTypeOK

\* A new Story is RECEIVED.  Nothing ever adds to total_cost_usd, so whether
\* the budget is exceeded is settled by the submitted cost_budget_usd.
Init == /\ wiring \in Wirings
        /\ story \in [Stories -> { [state |-> "RECEIVED", iterations |-> <<>>, overBudget |-> b] :
                                     b \in BOOLEAN }]
        /\ logged = [s \in Stories |-> "RECEIVED"]
        /\ pc = [s \in Stories |-> "new"]
        /\ iterNum = [s \in Stories |-> 0]
        /\ rebound = [s \in Stories |-> FALSE]
        /\ refused = [s \in Stories |-> {}]
        /\ Retry!RetryInit
        /\ Gate!GatesInit
-----------------------------------------------------------------------------
Present(c) == wiring[c] # "absent"
Copies(c) == wiring[c] = "copy"

State(s) == story[s].state
Can(s, to) == IsValidTransition(State(s), to)

At(s, here) == pc[s] = here
Goto(s, there) == pc' = [pc EXCEPT ![s] = there]

\* state_machine.transition on the story process_story holds, or, when the
\* stage has been handed a copy, on the copy: the history is kept by id and
\* records the move either way.
Move(s, copied, to) ==
  /\ story' = IF copied THEN story ELSE [story EXCEPT ![s].state = to]
  /\ logged' = [logged EXCEPT ![s] = to]

\* The transition a stage opens with, outside its try: when it is not legal
\* the ValueError leaves the stage and is caught by process_story.
Enter(s, to, there) ==
  IF Can(s, to)
  THEN Move(s, FALSE, to) /\ Goto(s, there)
  ELSE Goto(s, "error") /\ UNCHANGED <<story, logged>>

\* Where process_story goes on after a stage it leaves with state st.
Continue(s, st, there) ==
  Goto(s, IF st = "FAILED" THEN "returned" ELSE there)

\* The except clause of a stage: its story fails.
StageFails(s, copied, there) ==
  /\ Move(s, copied, "FAILED")
  /\ Continue(s, IF copied THEN State(s) ELSE "FAILED", there)

\* After a stage of the coding loop: fail, go round again, or go on.
NextStage(s, st, there) ==
  /\ Goto(s, IF st = "FAILED" THEN "returned" ELSE IF st = "CODING" THEN "loop" ELSE there)
  /\ iterNum' = [iterNum EXCEPT ![s] = IF st = "CODING" THEN @ + 1 ELSE @]
-----------------------------------------------------------------------------
\* Mutant of Submit: a finished story is started again, unchecked.
Submit_Restart(s) ==
  /\ pc[s] \in {"new", "returned"}
  /\ Move(s, FALSE, "ANALYZING") /\ Goto(s, "analyze")
  /\ UNCHANGED <<wiring, iterNum, rebound, refused, retryVars, gateVars>>

\* process_story up to the await in _run_analysis.
Submit(s) ==
  /\ At(s, "new")
  /\ Enter(s, "ANALYZING", "analyze")
  /\ UNCHANGED <<wiring, iterNum, rebound, refused, retryVars, gateVars>>

\* _run_analysis from the answer of the analyzer.
Analyzed(s) ==
  /\ At(s, "analyze")
  /\ \/ /\ Move(s, Copies("analyzer"), "PLANNING")
        /\ Goto(s, "enter_planning")
     \/ /\ Present("analyzer")
        /\ StageFails(s, FALSE, "enter_planning")
  /\ UNCHANGED <<wiring, iterNum, rebound, refused, retryVars, gateVars>>

\* _run_planning, entered after analysis.
EnterPlanning(s) ==
  /\ At(s, "enter_planning")
  /\ Enter(s, "PLANNING", "plan")
  /\ UNCHANGED <<wiring, iterNum, rebound, refused, retryVars, gateVars>>

\* _run_planning from the answer of the planner.  Called by process_story it
\* is followed by the coding loop, whose counter starts here; called by the
\* loop to replan, by what follows the loop.
Planned(s) ==
  /\ pc[s] \in {"plan", "replan"}
  /\ LET after == IF At(s, "plan") THEN "loop" ELSE "enter_deployment"
     IN  \/ Move(s, Copies("planner"), "CODING") /\ Goto(s, after)
         \/ Present("planner") /\ StageFails(s, FALSE, after)
  /\ iterNum' = [iterNum EXCEPT ![s] = Len(story[s].iterations) + 1]
  /\ UNCHANGED <<wiring, rebound, refused, retryVars, gateVars>>

ErrorsOf(s) == [k \in DOMAIN story[s].iterations |-> story[s].iterations[k].error]

\* Mutant of EndLoop: nothing ends the loop on "escalate".
EndLoop_LimitOnly(s) ==
  /\ At(s, "loop")
  /\ iterNum[s] > MaxIterations
  /\ Enter(s, "FAILED", "returned")
  /\ UNCHANGED <<wiring, iterNum, rebound, refused, retryVars, gateVars>>

\* The top of the coding loop: the iteration limit, the convergence check,
\* and the start of _run_coding.
EndLoop(s) ==
  /\ At(s, "loop")
  /\ iterNum[s] > MaxIterations \/ Check(ErrorsOf(s)) = "escalate"
  /\ Enter(s, "FAILED", "returned")
  /\ UNCHANGED <<wiring, iterNum, rebound, refused, retryVars, gateVars>>

Replan(s) ==
  /\ At(s, "loop")
  /\ iterNum[s] <= MaxIterations /\ Check(ErrorsOf(s)) = "replan"
  /\ Enter(s, "PLANNING", "replan")
  /\ UNCHANGED <<wiring, iterNum, rebound, refused, retryVars, gateVars>>

\* Mutant of StartCoding: the iteration limit is not tested.
StartCoding_NoLimit(s) ==
  /\ At(s, "loop")
  /\ Check(ErrorsOf(s)) \in {"continue", "enrich_context"}
  /\ IF State(s) = "CODING"
     THEN Goto(s, "generate") /\ UNCHANGED <<story, logged>>
     ELSE Enter(s, "CODING", "generate")
  /\ UNCHANGED <<wiring, iterNum, rebound, refused, retryVars, gateVars>>

StartCoding(s) ==
  /\ At(s, "loop")
  /\ iterNum[s] <= MaxIterations
  /\ Check(ErrorsOf(s)) \in {"continue", "enrich_context"}
  /\ IF State(s) = "CODING"
     THEN Goto(s, "generate") /\ UNCHANGED <<story, logged>>
     ELSE Enter(s, "CODING", "generate")
  /\ UNCHANGED <<wiring, iterNum, rebound, refused, retryVars, gateVars>>

\* _run_coding from the answer of the generator, which files an iteration on
\* the story it returns; then the cost check, on that story.
Generated(s) ==
  /\ At(s, "generate")
  /\ \/ \E e \in GeneratorErrors :
          LET iterations == IF wiring["generator"] # "inplace" THEN story[s].iterations
                            ELSE Append(story[s].iterations,
                                        [review |-> "none", tests |-> "none", error |-> e])
              fails == story[s].overBudget
              keeps == Copies("generator") \/ ~fails
          IN  /\ story' = [story EXCEPT ![s].state = IF keeps THEN @ ELSE "FAILED",
                                        ![s].iterations = iterations]
              /\ logged' = [logged EXCEPT ![s] = IF fails THEN "FAILED" ELSE @]
              /\ Goto(s, IF keeps THEN "enter_review" ELSE "returned")
     \/ Present("generator") /\ StageFails(s, FALSE, "enter_review")
  /\ UNCHANGED <<wiring, iterNum, rebound, refused, retryVars, gateVars>>

EnterReview(s) ==
  /\ At(s, "enter_review")
  /\ Enter(s, "REVIEWING", "review")
  /\ UNCHANGED <<wiring, iterNum, rebound, refused, retryVars, gateVars>>

\* The verdict a component files on the last iteration of its story: none if
\* it is absent, if there is no iteration, or if it has nothing to judge.
VerdictsOf(s, c) == IF Present(c) /\ story[s].iterations # <<>> THEN Verdicts ELSE {"none"}

WithVerdict(s, c, field, v) ==
  IF v = "none" \/ Copies(c) THEN story[s].iterations
  ELSE [story[s].iterations EXCEPT ![Len(story[s].iterations)] = [@ EXCEPT ![field] = v]]

\* _run_review from the answer of the reviewer: a blocking review sends the
\* story back to CODING, anything else on to TESTING.
Reviewed(s) ==
  /\ At(s, "review")
  /\ \/ \E v \in VerdictsOf(s, "reviewer") :
          LET to == IF v = "bad" THEN "CODING" ELSE "TESTING"
              st == IF Copies("reviewer") THEN State(s) ELSE to
          IN  /\ story' = [story EXCEPT ![s].state = st,
                                        ![s].iterations = WithVerdict(s, "reviewer", "review", v)]
              /\ logged' = [logged EXCEPT ![s] = to]
              /\ refused' = [refused EXCEPT ![s] = IF v = "bad" THEN {"review"} ELSE {}]
              /\ NextStage(s, st, "enter_testing")
     \/ /\ Present("reviewer")
        /\ StageFails(s, FALSE, "enter_testing")
        /\ UNCHANGED <<iterNum, refused>>
  /\ UNCHANGED <<wiring, rebound, retryVars, gateVars>>

EnterTesting(s) ==
  /\ At(s, "enter_testing")
  /\ Enter(s, "TESTING", "generate_tests")
  /\ UNCHANGED <<wiring, iterNum, rebound, refused, retryVars, gateVars>>

\* _run_testing from the answer of the test generator to the next await.
TestsGenerated(s) ==
  /\ At(s, "generate_tests")
  /\ \/ /\ Goto(s, "run_tests")
        /\ rebound' = [rebound EXCEPT ![s] = Copies("test_generator")]
        /\ UNCHANGED <<story, logged>>
     \/ /\ Present("test_generator")
        /\ StageFails(s, FALSE, "scan")
        /\ UNCHANGED rebound
  /\ UNCHANGED <<wiring, iterNum, refused, retryVars, gateVars>>

\* Mutant of TestsPassed: the report is not looked at.
TestsPassed_AnyReport(s) ==
  /\ At(s, "run_tests")
  /\ \E v \in VerdictsOf(s, "test_runner") :
       story' = IF rebound[s] THEN story
                ELSE [story EXCEPT ![s].iterations = WithVerdict(s, "test_runner", "tests", v)]
  /\ Goto(s, "scan")
  /\ UNCHANGED <<wiring, logged, iterNum, rebound, refused, retryVars, gateVars>>

\* _run_testing from the answer of the test runner.  Failing tests go back
\* to CODING while the retry policy allows it; the attempt is recorded before
\* the memory store is called, and its exception (or the classifier's, which
\* is called first) fails the story.
TestsPassed(s) ==
  /\ At(s, "run_tests")
  /\ \E v \in VerdictsOf(s, "test_runner") \ {"bad"} :
       story' = IF rebound[s] THEN story
                ELSE [story EXCEPT ![s].iterations = WithVerdict(s, "test_runner", "tests", v)]
  /\ Goto(s, "scan")
  /\ UNCHANGED <<wiring, logged, iterNum, rebound, refused, retryVars, gateVars>>

TestsFailed(s) ==
  /\ At(s, "run_tests")
  /\ "bad" \in VerdictsOf(s, "test_runner")
  /\ LET copied == rebound[s] \/ Copies("test_runner")
         Settle(to) ==
           LET st == IF copied THEN State(s) ELSE to
           IN  /\ story' = [story EXCEPT ![s].state = st,
                                         ![s].iterations = IF copied THEN @ ELSE
                                            WithVerdict(s, "test_runner", "tests", "bad")]
               /\ logged' = [logged EXCEPT ![s] = to]
               /\ NextStage(s, st, "scan")
     IN  \/ /\ Retry!ShouldRetry(s)
            /\ \E fp \in Fingerprints : Retry!RecordFailure(s, fp)
            /\ Settle("CODING") \/ Settle("FAILED")
         \/ /\ ~Retry!ShouldRetry(s)
            /\ Settle("FAILED")
            /\ UNCHANGED retryVars
         \/ Settle("FAILED") /\ UNCHANGED retryVars
  /\ UNCHANGED <<wiring, rebound, refused, gateVars>>

TestsRaise(s) ==
  /\ At(s, "run_tests") /\ Present("test_runner")
  /\ StageFails(s, rebound[s], "scan")
  /\ UNCHANGED <<wiring, iterNum, rebound, refused, retryVars, gateVars>>

\* Mutant of IterationFields: the model declares the two fields.
IterationFields_WithResults ==
  { "number", "started_at", "ended_at", "stage", "changes", "test_results", "review_results",
    "deploy_results", "error_context", "model_calls", "security_scan_result", "quality_gate_result" }

\* The result of a scan or of the quality gates is assigned to a field of the
\* last iteration before it is looked at.  types/iteration.py declares neither
\* security_scan_result nor quality_gate_result, and a pydantic model refuses
\* an undeclared field, so the assignment raises; the except clause of the
\* stage logs it and the story goes on as if the result had been good.
IterationFields ==
  { "number", "started_at", "ended_at", "stage", "changes", "test_results", "review_results",
    "deploy_results", "error_context", "model_calls" }

IsHeeded(s, field) == story[s].iterations = <<>> \/ field \in IterationFields

\* A bad result that is heeded asks the retry policy, records no attempt, and
\* sends the story to CODING or FAILED; an illegal move is swallowed as well.
ActOn(s, gate, field, good, there, failed) ==
  LET to == IF Retry!ShouldRetry(s) THEN "CODING" ELSE "FAILED"
      st == IF ~good /\ IsHeeded(s, field) /\ Can(s, to) THEN to ELSE State(s)
  IN  /\ IF st = State(s) THEN UNCHANGED <<story, logged>> ELSE Move(s, FALSE, st)
      /\ refused' = [refused EXCEPT ![s] = IF good THEN @ ELSE @ \cup {gate}]
      /\ Goto(s, IF st = "CODING" THEN "loop" ELSE IF st = "FAILED" THEN failed ELSE there)
      /\ iterNum' = [iterNum EXCEPT ![s] = IF st = "CODING" THEN @ + 1 ELSE @]

\* _run_security_scan: skipped without a scanner or a changed file; a FAILED
\* story is not returned here but goes on to the quality gates.
Scanned(s) ==
  /\ At(s, "scan")
  /\ \E good \in BOOLEAN :
       /\ good \/ (Present("security_scanner") /\ story[s].iterations # <<>>)
       /\ ActOn(s, "scan", "security_scan_result", good, "quality", "quality")
  /\ UNCHANGED <<wiring, rebound, retryVars, gateVars>>

\* _run_quality_gates, and the end of the coding loop.
QualityChecked(s) ==
  /\ At(s, "quality")
  /\ \E good \in BOOLEAN :
       /\ good \/ Present("quality_gate_engine")
       /\ ActOn(s, "quality", "quality_gate_result", good, "enter_deployment", "returned")
  /\ UNCHANGED <<wiring, rebound, retryVars, gateVars>>
-----------------------------------------------------------------------------
\* Mutant of EnterDeployment: the answer of the gate is not looked at.
EnterDeployment_IgnoreGate(s) ==
  /\ At(s, "enter_deployment")
  /\ Gate!CheckGate(s, PreDeploy)
  /\ Enter(s, "DEPLOYING", "deploy")
  /\ UNCHANGED <<wiring, iterNum, rebound, refused, retryVars>>

\* Mutant of EnterDeployment: the stage waits for the decision.
EnterDeployment_Wait(s) ==
  /\ At(s, "enter_deployment")
  /\ Gate!CheckGate(s, PreDeploy)
  /\ \/ Gate!GateStatus(s, PreDeploy) = "PASS" /\ Enter(s, "DEPLOYING", "deploy")
     \/ Gate!GateStatus(s, PreDeploy) = "BLOCKED" /\ Enter(s, "FAILED", "returned")
     \/ /\ Gate!GateStatus(s, PreDeploy) = "PENDING"
        /\ UNCHANGED <<pc, story, logged>>
  /\ UNCHANGED <<wiring, iterNum, rebound, refused, retryVars>>

\* _run_deployment up to the await of the deployer.  PENDING leaves the stage
\* with the story as it is, and process_story goes on to verification.
EnterDeployment(s) ==
  /\ At(s, "enter_deployment")
  /\ Gate!CheckGate(s, PreDeploy)
  /\ \/ Gate!GateStatus(s, PreDeploy) = "PASS" /\ Enter(s, "DEPLOYING", "deploy")
     \/ Gate!GateStatus(s, PreDeploy) = "BLOCKED" /\ Enter(s, "FAILED", "returned")
     \/ /\ Gate!GateStatus(s, PreDeploy) = "PENDING"
        /\ Goto(s, "enter_verification") /\ UNCHANGED <<story, logged>>
  /\ UNCHANGED <<wiring, iterNum, rebound, refused, retryVars>>

\* _run_deployment from the answer of the deployer.  A report of failure in
\* the answer is not looked at: only an exception fails the story.
Deployed(s) ==
  /\ At(s, "deploy")
  /\ \/ Move(s, Copies("deployer"), "VERIFYING") /\ Goto(s, "enter_verification")
     \/ Present("deployer") /\ StageFails(s, FALSE, "enter_verification")
  /\ UNCHANGED <<wiring, iterNum, rebound, refused, retryVars, gateVars>>

EnterVerification(s) ==
  /\ At(s, "enter_verification")
  /\ Enter(s, "VERIFYING", "verify")
  /\ UNCHANGED <<wiring, iterNum, rebound, refused, retryVars, gateVars>>

\* _run_verification from the answer of the verifier, and the last move.
Verified(s) ==
  /\ At(s, "verify")
  /\ \/ Enter(s, "DONE", "returned")
     \/ Present("verifier") /\ StageFails(s, FALSE, "returned")
  /\ UNCHANGED <<wiring, iterNum, rebound, refused, retryVars, gateVars>>

\* Mutant of HandleError: the story is not failed.
HandleError_LogOnly(s) ==
  /\ At(s, "error")
  /\ Goto(s, "returned")
  /\ UNCHANGED <<wiring, story, logged, iterNum, rebound, refused, retryVars, gateVars>>

\* The except clause of process_story.  Its own transition is not guarded.
HandleError(s) ==
  /\ At(s, "error")
  /\ IF Can(s, "FAILED")
     THEN Move(s, FALSE, "FAILED") /\ Goto(s, "returned")
     ELSE Goto(s, "raised") /\ UNCHANGED <<story, logged>>
  /\ UNCHANGED <<wiring, iterNum, rebound, refused, retryVars, gateVars>>

Step(s) == \/ Submit(s) \/ Analyzed(s) \/ EnterPlanning(s) \/ Planned(s)
           \/ EndLoop(s) \/ Replan(s) \/ StartCoding(s) \/ Generated(s)
           \/ EnterReview(s) \/ Reviewed(s) \/ EnterTesting(s) \/ TestsGenerated(s)
           \/ TestsPassed(s) \/ TestsFailed(s) \/ TestsRaise(s)
           \/ Scanned(s) \/ QualityChecked(s)
           \/ EnterDeployment(s) \/ Deployed(s) \/ EnterVerification(s) \/ Verified(s)
           \/ HandleError(s)

\* The people who hold the gate manager decide whenever they like.
Person(s) == /\ \/ Gate!Approve(s, PreDeploy) \/ Gate!Reject(s, PreDeploy)
                \/ Gate!ClearPending(s, PreDeploy) \/ Gate!ClearAllForStory(s)
             /\ UNCHANGED <<wiring, storyVars, retryVars>>

Next == \E s \in Stories : Step(s) \/ Person(s)

\* Every await is answered: a component returns or raises.  The code sets no
\* timeout of its own around them.
Fairness == \A s \in Stories : WF_vars(Step(s))

Spec == Init /\ [][Next]_vars
FairSpec == Spec /\ Fairness
-----------------------------------------------------------------------------
\* What process_story promises ("Completed or failed story"): it never leaves
\* with an exception of its own, and the story it returns is DONE or FAILED,
\* whatever its components do and whichever of them return copies.
ReturnsFinished ==
  \A s \in Stories : /\ ~At(s, "raised")
                     /\ At(s, "returned") => State(s) \in Terminal

\* A story enters DEPLOYING only while its gate lets it pass, however
\* approvals, rejections and withdrawals interleave with its stages.
DeploysOnlyWhenCleared ==
  [][ \A s \in Stories : (State(s)' = "DEPLOYING" /\ State(s) # "DEPLOYING") =>
        Gate!GateStatus(s, PreDeploy) = "PASS" ]_vars

InDeployment == {"DEPLOYING", "VERIFYING", "DONE"}

\* With test components that update the story in place, what is deployed has
\* not failed its tests: the last iteration never holds a failing report.
DeployedCodePassedTests ==
  \A s \in Stories :
    (State(s) \in InDeployment /\ ~Copies("test_generator") /\ ~Copies("test_runner"))
      => \A k \in DOMAIN story[s].iterations :
           k = Len(story[s].iterations) => story[s].iterations[k].tests # "bad"

\* The loop is bounded by the configuration: a story is generated at most
\* MaxIterations times, each failure recorded with the retry policy belongs
\* to an iteration of its own, and no more of them are recorded than the
\* policy and its circuit breaker allow.
BoundedWork ==
  \A s \in Stories :
    /\ Len(story[s].iterations) <= MaxIterations
    /\ Len(attempts[s]) <= iterNum[s]
    /\ Len(attempts[s]) <= MaxRetries /\ Len(attempts[s]) <= RetryThreshold

\* process_story always comes to an end: no answer of a component, no refusal
\* and no undecided gate keeps the loop or a stage going for ever.
Finishes == \A s \in Stories : <>(At(s, "returned"))

\* DONE and FAILED are final, for the handler of an exception as well, which
\* makes a move of its own.
FinalIsFinal == [][\A s \in Stories : State(s) \in Terminal => State(s)' = State(s)]_vars

\* The orchestrator uses the retry policy and the gate manager only through
\* their operations: each of its steps is a step of theirs, or none.
UsesRetryPolicy == Retry!RetrySpec
UsesGateManager == Gate!GatesSpec

\* The promise of StoryService.tla: stages, loop and wiring are hidden, only
\* what becomes of a story and what its gate answers remain.
Phase == [ RECEIVED  |-> "waiting",  ANALYZING |-> "open",     PLANNING |-> "open",
           CODING    |-> "open",     REVIEWING |-> "open",     TESTING  |-> "open",
           DEPLOYING |-> "released", VERIFYING |-> "released",
           DONE      |-> "done",     FAILED    |-> "failed" ]

PhaseOf(s) == Phase[State(s)]

Service == INSTANCE StoryService
             WITH phase <- [s \in Stories |-> PhaseOf(s)],
                  gate <- [s \in Stories |-> Gate!GateStatus(s, PreDeploy)]

ImplementsService == Service!Spec

\* The lifecycle of docs/project-specification.html, RECEIVED to DONE: when
\* nothing can go wrong (no component, no gate, a budget, an iteration to
\* spend), the story that comes back is DONE.
NothingFailedMeansDone ==
  (MaxIterations > 0 /\ ~GateEnabled /\ \A c \in Components : ~Present(c)) =>
    \A s \in Stories : (At(s, "returned") /\ ~story[s].overBudget) => State(s) = "DONE"

\* A pre_deploy approval somebody is asked for is worth giving: the story
\* that waits for it has not failed meanwhile.
AwaitedStoryIsAlive ==
  \A s \in Stories : <<s, PreDeploy>> \in pending => State(s) # "FAILED"

\* Code the security scan refused is not deployed.
RefusedScanIsNotDeployed ==
  \A s \in Stories : State(s) = "DEPLOYING" => "scan" \notin refused[s]
=============================================================================
