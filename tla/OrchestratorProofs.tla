------------------------- MODULE OrchestratorProofs -------------------------
(***************************************************************************)
(* What process_story guarantees for any set of stories, any wirings and   *)
(* any limits.  The inductive invariant Inv adds to the type invariant     *)
(* what is true of a story's state wherever its coroutine may stand        *)
(* (Where): without it nothing rules out an illegal move at a stage's      *)
(* entry, or an exception that process_story cannot turn into FAILED.      *)
(* Bounded adds what each place of a coroutine has done already: how far   *)
(* its iterations and attempts have gone (Work), and whether the tests of  *)
(* its last iteration passed (Clean).                                      *)
(***************************************************************************)
EXTENDS Orchestrator, TLAPS

\* Every coroutine that is past planning has a copying analyzer, every one
\* that is past the entry of testing a copying reviewer.
Early == {"new", "analyze", "enter_planning", "error", "returned"}
Loop == {"plan", "loop", "generate", "enter_review", "review", "enter_testing"}

Where(s) ==
  /\ At(s, "new") => State(s) = "RECEIVED"
  /\ At(s, "analyze") => State(s) = "ANALYZING"
  /\ At(s, "enter_planning") => State(s) = IF Copies("analyzer") THEN "ANALYZING" ELSE "PLANNING"
  /\ At(s, "plan") => State(s) = "PLANNING"
  /\ At(s, "loop") => State(s) \in {"PLANNING", "CODING"}
  /\ pc[s] \in {"generate", "enter_review"} => State(s) = "CODING"
  /\ At(s, "review") => State(s) = "REVIEWING"
  /\ At(s, "enter_testing") => State(s) = IF Copies("reviewer") THEN "REVIEWING" ELSE "TESTING"
  /\ pc[s] \in {"generate_tests", "run_tests", "scan", "enter_deployment"} => State(s) = "TESTING"
  /\ At(s, "quality") => State(s) \in {"TESTING", "FAILED"}
  /\ At(s, "deploy") => State(s) = "DEPLOYING"
  /\ At(s, "enter_verification") =>
       State(s) \in {"TESTING", IF Copies("deployer") THEN "DEPLOYING" ELSE "VERIFYING"}
  /\ At(s, "verify") => State(s) = "VERIFYING" /\ Copies("deployer")
  /\ At(s, "error") => State(s) \in {"PLANNING", "CODING", "TESTING", "VERIFYING"}
  /\ At(s, "returned") => State(s) \in Terminal
  /\ pc[s] \notin {"raised", "replan"}
  /\ pc[s] \notin Early => Copies("analyzer")
  /\ pc[s] \notin Early \cup Loop => Copies("reviewer")

StoryOK == /\ wiring \in Wirings
           /\ story \in [Stories -> Story]
           /\ logged \in [Stories -> StoryState]
           /\ pc \in [Stories -> PCs]
           /\ iterNum \in [Stories -> Nat]
           /\ rebound \in [Stories -> BOOLEAN]
           /\ refused \in [Stories -> SUBSET {"review", "scan", "quality"}]

\* The facts proved of the two managers, for the constants they have here.
RetryFacts == INSTANCE RetryPolicyProofs
                WITH RetryKeys <- Stories, RetryFingerprints <- Fingerprints,
                     Threshold <- RetryThreshold, BaseBackoff <- 1,
                     BackoffFactor <- 2, MaxBackoff <- 30, MaxAttempts <- MaxIterations

GateFacts == INSTANCE ApprovalGatesProofs
               WITH Gates <- {PreDeploy}, EnabledGates <- IF GateEnabled THEN {PreDeploy} ELSE {}

SharedOK == RetryFacts!Inv /\ GateFacts!Inv

Inv == StoryOK /\ SharedOK /\ \A s \in Stories : Where(s)

USE OrchestratorAssumption

\* A coroutine that changes only its own story, and it to a well-typed story
\* of which Where holds, keeps the story part of the invariant.
Own(s) ==
  /\ story'[s] \in Story /\ story' = [story EXCEPT ![s] = story'[s]]
  /\ logged'[s] \in StoryState /\ logged' = [logged EXCEPT ![s] = logged'[s]]
  /\ pc'[s] \in PCs /\ pc' = [pc EXCEPT ![s] = pc'[s]]

LEMMA OwnStep ==
  ASSUME Inv, NEW s \in Stories, Own(s), UNCHANGED wiring,
         Where(s)'
  PROVE  /\ story' \in [Stories -> Story] /\ logged' \in [Stories -> StoryState]
         /\ pc' \in [Stories -> PCs]
         /\ \A t \in Stories : Where(t)'
<1>1. ASSUME NEW t \in Stories PROVE Where(t)'
  <2>1. CASE t = s
    BY <2>1
  <2>2. CASE t # s
    <3>1. story'[t] = story[t] /\ pc'[t] = pc[t]
      BY <2>2 DEF Own, Inv, StoryOK
    <3>2. Where(t)
      BY DEF Inv
    <3> QED
      BY <3>1, <3>2 DEF Where, At, State, Copies
  <2> QED
    BY <2>1, <2>2
<1> QED
  BY <1>1 DEF Own, Inv, StoryOK

\* The assumptions of the two modules hold of these constants.
LEMMA ManagerConstants == RetryFacts!RetryAssumption /\ GateFacts!GatesAssumption
  BY DEF RetryFacts!RetryAssumption, GateFacts!GatesAssumption

LEMMA InitInv == Init => Inv
<1> SUFFICES ASSUME Init PROVE Inv
  OBVIOUS
<1>1. StoryOK
  <2>1. story \in [Stories -> Story]
    <3>1. {[state |-> "RECEIVED", iterations |-> <<>>, overBudget |-> b] : b \in BOOLEAN}
             \subseteq Story
      <4>1. <<>> \in Seq(Iteration)
        OBVIOUS
      <4>2. ASSUME NEW b \in BOOLEAN
            PROVE  [state |-> "RECEIVED", iterations |-> <<>>, overBudget |-> b] \in Story
        BY <4>1 DEF Story, StoryState
      <4> QED
        BY <4>2
    <3> QED
      BY <3>1 DEF Init
  <2> QED
    BY <2>1 DEF Init, StoryOK, StoryState, PCs
<1>2. SharedOK
  <2>1. RetryFacts!RetryInit
    BY DEF Init, Retry!RetryInit, RetryFacts!RetryInit, Retry!NewBreaker, RetryFacts!NewBreaker,
           Retry!NoError, RetryFacts!NoError
  <2>2. GateFacts!GatesInit
    BY DEF Init, Gate!GatesInit, GateFacts!GatesInit, Gate!GateKeys, GateFacts!GateKeys
  <2> QED
    BY <2>1, <2>2, RetryFacts!InitInv, GateFacts!InitInv DEF SharedOK
<1>3. ASSUME NEW s \in Stories PROVE Where(s)
  BY DEF Init, Where, At, State, Copies, Early, Loop, Terminal, InDeployment
<1> QED
  BY <1>1, <1>2, <1>3 DEF Inv
-----------------------------------------------------------------------------
\* The stages that touch neither the loop counter nor the shared managers.
Untouched == UNCHANGED <<wiring, iterNum, rebound, refused, retryVars, gateVars>>

LEMMA SharedSame ==
  ASSUME Inv, UNCHANGED <<retryVars, gateVars>>
  PROVE  SharedOK'
<1>1. RetryFacts!Inv'
  <2>1. UNCHANGED RetryFacts!retryVars
    BY DEF retryVars, RetryFacts!retryVars
  <2> QED
    BY <2>1, RetryFacts!NextInv DEF Inv, SharedOK
<1>2. GateFacts!Inv'
  <2>1. UNCHANGED GateFacts!gateVars
    BY DEF gateVars, GateFacts!gateVars
  <2> QED
    BY <2>1, GateFacts!NextInv DEF Inv, SharedOK
<1> QED
  BY <1>1, <1>2 DEF SharedOK

LEMMA UntouchedInv ==
  ASSUME Inv, NEW s \in Stories, Untouched, Own(s), Where(s)'
  PROVE  Inv'
  BY SharedSame, OwnStep DEF Inv, StoryOK, Untouched

\* One transition of the table, on the story itself or past it on a copy.
LEMMA MoveOwn ==
  ASSUME Inv, NEW s \in Stories, NEW to \in StoryState, NEW copied \in BOOLEAN,
         NEW there \in PCs, Move(s, copied, to), Goto(s, there)
  PROVE  /\ Own(s) /\ pc'[s] = there
         /\ story'[s].state = IF copied THEN story[s].state ELSE to
  BY DEF Own, Move, Goto, Inv, StoryOK, Story

LEMMA EnterOwn ==
  ASSUME Inv, NEW s \in Stories, NEW to \in StoryState, NEW there \in PCs,
         Enter(s, to, there)
  PROVE  /\ Own(s)
         /\ \/ Can(s, to) /\ pc'[s] = there /\ story'[s].state = to
            \/ ~Can(s, to) /\ pc'[s] = "error" /\ story'[s].state = story[s].state
<1>1. CASE Can(s, to)
  BY <1>1, MoveOwn DEF Enter
<1>2. CASE ~Can(s, to)
  BY <1>2 DEF Enter, Own, Goto, Inv, StoryOK, PCs
<1> QED
  BY <1>1, <1>2

\* The table, row by row.
LEMMA Table ==
  ASSUME NEW to
  PROVE  /\ IsValidTransition("RECEIVED", to) <=> to = "ANALYZING"
         /\ IsValidTransition("ANALYZING", to) <=> to \in {"PLANNING", "FAILED"}
         /\ IsValidTransition("PLANNING", to) <=> to \in {"CODING", "FAILED"}
         /\ IsValidTransition("CODING", to) <=> to \in {"REVIEWING", "FAILED"}
         /\ IsValidTransition("REVIEWING", to) <=> to \in {"CODING", "TESTING", "FAILED"}
         /\ IsValidTransition("TESTING", to)
              <=> to \in {"CODING", "REVIEWING", "DEPLOYING", "FAILED"}
         /\ IsValidTransition("DEPLOYING", to) <=> to \in {"VERIFYING", "CODING", "FAILED"}
         /\ IsValidTransition("VERIFYING", to) <=> to \in {"CODING", "DONE", "FAILED"}
         /\ ~IsValidTransition("DONE", to) /\ ~IsValidTransition("FAILED", to)
  BY DEF IsValidTransition, ValidTransitions

\* The except clause of a stage that still holds process_story's own object.
LEMMA StageFailsInv ==
  ASSUME Inv, NEW s \in Stories, NEW there \in PCs, StageFails(s, FALSE, there),
         UNCHANGED <<wiring>>
  PROVE  Own(s) /\ Where(s)'
<1>1. Own(s) /\ pc'[s] = "returned" /\ story'[s].state = "FAILED"
  BY MoveOwn DEF StageFails, Continue, Goto, StoryState, PCs
<1> QED
  BY <1>1 DEF Where, At, State, Early, Terminal, InDeployment

LEMMA SubmitInv == ASSUME Inv, NEW s \in Stories, Submit(s) PROVE Inv'
<1>1. Untouched /\ Own(s)
  BY EnterOwn DEF Submit, Untouched, StoryState, PCs
<1>2. pc'[s] = "analyze" /\ story'[s].state = "ANALYZING"
  BY EnterOwn, Table DEF Submit, Can, At, State, StoryState, PCs, Inv, Where
<1>3. Where(s)'
  BY <1>2 DEF Where, At, State, Early, Loop, InDeployment
<1> QED
  BY <1>1, <1>3, UntouchedInv

LEMMA AnalyzedInv == ASSUME Inv, NEW s \in Stories, Analyzed(s) PROVE Inv'
<1>1. State(s) = "ANALYZING" /\ wiring' = wiring
  BY DEF Analyzed, Inv, Where
<1>2. CASE Move(s, Copies("analyzer"), "PLANNING") /\ Goto(s, "enter_planning")
  <2>1. /\ Own(s) /\ pc'[s] = "enter_planning"
        /\ story'[s].state = IF Copies("analyzer") THEN "ANALYZING" ELSE "PLANNING"
    BY <1>1, <1>2, MoveOwn DEF StoryState, PCs, Copies, State
  <2>2. Where(s)'
    BY <2>1, <1>1 DEF Where, At, State, Early, Loop, InDeployment, Copies
  <2> QED
    BY <2>1, <2>2, UntouchedInv DEF Analyzed, Untouched
<1>3. CASE StageFails(s, FALSE, "enter_planning")
  BY <1>1, <1>3, StageFailsInv, UntouchedInv DEF Analyzed, Untouched, PCs
<1> QED
  BY <1>2, <1>3 DEF Analyzed

LEMMA EnterPlanningInv == ASSUME Inv, NEW s \in Stories, EnterPlanning(s) PROVE Inv'
<1>1. Untouched /\ Own(s)
  BY EnterOwn DEF EnterPlanning, Untouched, StoryState, PCs
<1>2. \/ State(s) = "ANALYZING" /\ Copies("analyzer")
      \/ State(s) = "PLANNING" /\ ~Copies("analyzer")
  BY DEF EnterPlanning, Inv, Where
<1>3. \/ pc'[s] = "plan" /\ story'[s].state = "PLANNING" /\ Copies("analyzer")
      \/ pc'[s] = "error" /\ story'[s].state = "PLANNING"
  BY <1>2, EnterOwn, Table DEF EnterPlanning, Can, State, StoryState, PCs
<1>4. Where(s)'
  BY <1>1, <1>3 DEF Where, At, State, Early, Loop, InDeployment, Copies, Untouched
<1> QED
  BY <1>1, <1>4, UntouchedInv

LEMMA PlannedInv == ASSUME Inv, NEW s \in Stories, Planned(s) PROVE Inv'
<1>1. At(s, "plan") /\ State(s) = "PLANNING" /\ Copies("analyzer") /\ wiring' = wiring
  BY DEF Planned, Inv, Where, At, Early
<1>2. Own(s) /\ Where(s)'
  <2>1. CASE Move(s, Copies("planner"), "CODING") /\ Goto(s, "loop")
    <3>1. Own(s) /\ pc'[s] = "loop" /\ story'[s].state \in {"PLANNING", "CODING"}
      BY <1>1, <2>1, MoveOwn DEF StoryState, PCs, Copies, State
    <3> QED
      BY <3>1, <1>1 DEF Where, At, State, Early, Loop, InDeployment, Copies
  <2>2. CASE StageFails(s, FALSE, "loop")
    BY <1>1, <2>2, StageFailsInv DEF PCs
  <2> QED
    BY <1>1, <2>1, <2>2 DEF Planned
<1>3. iterNum' \in [Stories -> Nat]
  <2>1. Len(story[s].iterations) + 1 \in Nat
    BY DEF Inv, StoryOK, Story
  <2> QED
    BY <2>1 DEF Planned, Inv, StoryOK
<1>4. SharedOK'
  BY SharedSame DEF Planned
<1> QED
  BY <1>2, <1>3, <1>4, OwnStep DEF Planned, Inv, StoryOK

LEMMA EndLoopInv == ASSUME Inv, NEW s \in Stories, EndLoop(s) PROVE Inv'
<1>1. Untouched /\ Own(s)
  BY EnterOwn DEF EndLoop, Untouched, StoryState, PCs
<1>2. State(s) \in {"PLANNING", "CODING"}
  BY DEF EndLoop, Inv, Where
<1>3. pc'[s] = "returned" /\ story'[s].state = "FAILED"
  BY <1>2, EnterOwn, Table DEF EndLoop, Can, StoryState, PCs
<1>4. Where(s)'
  BY <1>3 DEF Where, At, State, Early, Terminal, InDeployment
<1> QED
  BY <1>1, <1>4, UntouchedInv

\* The replan of the convergence detector never begins: the move to PLANNING
\* is illegal from both states the loop can be in.
LEMMA ReplanInv == ASSUME Inv, NEW s \in Stories, Replan(s) PROVE Inv'
<1>1. Untouched /\ Own(s)
  BY EnterOwn DEF Replan, Untouched, StoryState, PCs
<1>2. State(s) \in {"PLANNING", "CODING"} /\ Copies("analyzer")
  BY DEF Replan, Inv, Where, At, Early
<1>3. pc'[s] = "error" /\ story'[s].state \in {"PLANNING", "CODING"}
  BY <1>2, EnterOwn, Table DEF Replan, Can, State, StoryState, PCs
<1>4. Where(s)'
  BY <1>1, <1>2, <1>3 DEF Where, At, State, Early, InDeployment, Copies, Untouched
<1> QED
  BY <1>1, <1>4, UntouchedInv

LEMMA StartCodingInv == ASSUME Inv, NEW s \in Stories, StartCoding(s) PROVE Inv'
<1>1. /\ Untouched /\ Copies("analyzer") /\ State(s) \in {"PLANNING", "CODING"}
  BY DEF StartCoding, Untouched, Inv, Where, At, Early
<1>2. Own(s) /\ pc'[s] = "generate" /\ story'[s].state = "CODING"
  <2>1. CASE State(s) = "CODING"
    BY <2>1 DEF StartCoding, Own, Goto, State, Inv, StoryOK, PCs
  <2>2. CASE State(s) # "CODING"
    BY <1>1, <2>2, EnterOwn, Table DEF StartCoding, Can, StoryState, PCs
  <2> QED
    BY <2>1, <2>2
<1>3. Where(s)'
  BY <1>1, <1>2 DEF Where, At, State, Early, Loop, InDeployment, Copies, Untouched
<1> QED
  BY <1>1, <1>2, <1>3, UntouchedInv

LEMMA EnterReviewInv == ASSUME Inv, NEW s \in Stories, EnterReview(s) PROVE Inv'
<1>1. Untouched /\ Own(s)
  BY EnterOwn DEF EnterReview, Untouched, StoryState, PCs
<1>2. State(s) = "CODING" /\ Copies("analyzer")
  BY DEF EnterReview, Inv, Where, At, Early
<1>3. pc'[s] = "review" /\ story'[s].state = "REVIEWING"
  BY <1>2, EnterOwn, Table DEF EnterReview, Can, StoryState, PCs
<1>4. Where(s)'
  BY <1>1, <1>2, <1>3 DEF Where, At, State, Early, Loop, InDeployment, Copies, Untouched
<1> QED
  BY <1>1, <1>4, UntouchedInv

LEMMA EnterTestingInv == ASSUME Inv, NEW s \in Stories, EnterTesting(s) PROVE Inv'
<1>1. Untouched /\ Own(s)
  BY EnterOwn DEF EnterTesting, Untouched, StoryState, PCs
<1>2. /\ Copies("analyzer")
      /\ \/ State(s) = "REVIEWING" /\ Copies("reviewer")
         \/ State(s) = "TESTING" /\ ~Copies("reviewer")
  BY DEF EnterTesting, Inv, Where, At, Early
<1>3. /\ story'[s].state = "TESTING"
      /\ \/ pc'[s] = "generate_tests" /\ Copies("reviewer")
         \/ pc'[s] = "error"
  BY <1>2, EnterOwn, Table DEF EnterTesting, Can, State, StoryState, PCs
<1>4. Where(s)'
  BY <1>1, <1>2, <1>3 DEF Where, At, State, Early, Loop, InDeployment, Copies, Untouched
<1> QED
  BY <1>1, <1>4, UntouchedInv
-----------------------------------------------------------------------------
\* The stages that file something on the last iteration.
LEMMA VerdictFiled ==
  ASSUME Inv, NEW s \in Stories, NEW c, NEW field \in {"review", "tests"},
         NEW v \in VerdictsOf(s, c)
  PROVE  WithVerdict(s, c, field, v) \in Seq(Iteration)
<1> DEFINE its == story[s].iterations
<1>1. its \in Seq(Iteration) /\ v \in Verdicts
  BY DEF Inv, StoryOK, Story, VerdictsOf, Verdicts
<1>2. CASE v = "none" \/ Copies(c)
  BY <1>1, <1>2 DEF WithVerdict
<1>3. CASE ~(v = "none" \/ Copies(c))
  <2>1. its # <<>>
    BY <1>3 DEF VerdictsOf
  <2>2. Len(its) \in DOMAIN its /\ its[Len(its)] \in Iteration
    BY <1>1, <2>1
  <2>3. [its[Len(its)] EXCEPT ![field] = v] \in Iteration
    <3>1. CASE field = "review"
      BY <1>1, <2>2, <3>1 DEF Iteration
    <3>2. CASE field = "tests"
      BY <1>1, <2>2, <3>2 DEF Iteration
    <3> QED
      BY <3>1, <3>2
  <2> QED
    BY <1>1, <1>3, <2>2, <2>3 DEF WithVerdict
<1> QED
  BY <1>2, <1>3

LEMMA NextStageIs ==
  ASSUME Inv, NEW s \in Stories, NEW st, NEW there \in PCs, NextStage(s, st, there)
  PROVE  /\ pc' = [pc EXCEPT ![s] = pc'[s]]
         /\ pc'[s] = IF st = "FAILED" THEN "returned" ELSE IF st = "CODING" THEN "loop" ELSE there
         /\ pc'[s] \in PCs
         /\ iterNum' \in [Stories -> Nat]
<1>1. iterNum' \in [Stories -> Nat]
  <2>1. iterNum[s] \in Nat /\ iterNum \in [Stories -> Nat]
    BY DEF Inv, StoryOK
  <2>2. CASE st = "CODING"
    BY <2>1, <2>2 DEF NextStage
  <2>3. CASE st # "CODING"
    BY <2>1, <2>3 DEF NextStage
  <2> QED
    BY <2>2, <2>3
<1>2. pc \in [Stories -> PCs]
  BY DEF Inv, StoryOK
<1> QED
  BY <1>1, <1>2 DEF NextStage, Goto, PCs

LEMMA StorySet ==
  ASSUME Inv, NEW s \in Stories, NEW st \in StoryState, NEW its \in Seq(Iteration),
         story' = [story EXCEPT ![s].state = st, ![s].iterations = its]
  PROVE  /\ story'[s] \in Story /\ story'[s].state = st
         /\ story' = [story EXCEPT ![s] = story'[s]]
<1>1. story[s] \in Story /\ story \in [Stories -> Story]
  BY DEF Inv, StoryOK
<1>2. story'[s] = [state |-> st, iterations |-> its, overBudget |-> story[s].overBudget]
  BY <1>1 DEF Story
<1>3. story'[s] \in Story /\ story'[s].state = st
  BY <1>1, <1>2 DEF Story
<1>4. \A t \in Stories \ {s} : story'[t] = story[t]
  BY <1>1
<1> QED
  BY <1>1, <1>3, <1>4

LEMMA GeneratedInv == ASSUME Inv, NEW s \in Stories, Generated(s) PROVE Inv'
<1>1. State(s) = "CODING" /\ Copies("analyzer") /\ wiring' = wiring /\ Untouched
  BY DEF Generated, Inv, Where, At, Early, Untouched
<1>2. CASE StageFails(s, FALSE, "enter_review")
  BY <1>1, <1>2, StageFailsInv, UntouchedInv DEF PCs
<1>3. ASSUME NEW its \in Seq(Iteration), NEW st \in {"CODING", "FAILED"},
             story' = [story EXCEPT ![s].state = st, ![s].iterations = its],
             NEW l \in StoryState, logged' = [logged EXCEPT ![s] = l],
             Goto(s, IF st = "CODING" THEN "enter_review" ELSE "returned")
      PROVE  Inv'
  <2>1. /\ Own(s) /\ story'[s].state = st
        /\ pc'[s] = IF st = "CODING" THEN "enter_review" ELSE "returned"
    BY <1>3, StorySet DEF Own, Goto, Inv, StoryOK, StoryState, PCs
  <2>2. Where(s)'
    BY <1>1, <2>1 DEF Where, At, State, Copies, Early, Loop, Terminal, InDeployment
  <2> QED
    BY <1>1, <2>1, <2>2, UntouchedInv
<1>4. ASSUME NEW e \in GeneratorErrors
      PROVE  Append(story[s].iterations, [review |-> "none", tests |-> "none", error |-> e])
               \in Seq(Iteration)
  <2>1. [review |-> "none", tests |-> "none", error |-> e] \in Iteration
    BY DEF Iteration, Verdicts
  <2> QED
    BY <2>1 DEF Inv, StoryOK, Story
<1>5. story[s].iterations \in Seq(Iteration) /\ logged[s] \in StoryState
  BY DEF Inv, StoryOK, Story
<1> QED
  <2> SUFFICES ASSUME NEW e \in GeneratorErrors,
                      NEW its \in Seq(Iteration), NEW keeps \in BOOLEAN,
                      story' = [story EXCEPT ![s].state = IF keeps THEN @ ELSE "FAILED",
                                             ![s].iterations = its],
                      NEW l \in StoryState, logged' = [logged EXCEPT ![s] = l],
                      Goto(s, IF keeps THEN "enter_review" ELSE "returned")
               PROVE  Inv'
    BY <1>2, <1>4, <1>5 DEF Generated, StoryState
  <2>1. CASE keeps
    BY <1>1, <1>3, <2>1 DEF State
  <2>2. CASE ~keeps
    BY <1>3, <2>2
  <2> QED
    BY <2>1, <2>2

LEMMA ReviewedInv == ASSUME Inv, NEW s \in Stories, Reviewed(s) PROVE Inv'
<1>1. /\ State(s) = "REVIEWING" /\ Copies("analyzer") /\ wiring' = wiring
      /\ UNCHANGED <<rebound, retryVars, gateVars>>
  BY DEF Reviewed, Inv, Where, At, Early
<1>2. CASE StageFails(s, FALSE, "enter_testing") /\ UNCHANGED <<iterNum, refused>>
  <2>1. Untouched
    BY <1>1, <1>2 DEF Untouched
  <2> QED
    BY <1>1, <1>2, <2>1, StageFailsInv, UntouchedInv DEF PCs
<1>3. ASSUME NEW v \in VerdictsOf(s, "reviewer"),
             NEW to \in {"CODING", "TESTING"}, NEW st,
             st = IF Copies("reviewer") THEN State(s) ELSE to,
             story' = [story EXCEPT ![s].state = st,
                                    ![s].iterations = WithVerdict(s, "reviewer", "review", v)],
             logged' = [logged EXCEPT ![s] = to],
             refused' = [refused EXCEPT ![s] = IF v = "bad" THEN {"review"} ELSE {}],
             NextStage(s, st, "enter_testing")
      PROVE  Inv'
  <2>1. WithVerdict(s, "reviewer", "review", v) \in Seq(Iteration)
    BY VerdictFiled
  <2>2. st \in StoryState /\ to \in StoryState
    BY <1>1, <1>3 DEF StoryState
  <2>3. /\ Own(s) /\ story'[s].state = st /\ iterNum' \in [Stories -> Nat]
        /\ pc'[s] = IF st = "FAILED" THEN "returned"
                    ELSE IF st = "CODING" THEN "loop" ELSE "enter_testing"
    <3>1. story'[s] \in Story /\ story'[s].state = st /\ story' = [story EXCEPT ![s] = story'[s]]
      BY <1>3, <2>1, <2>2, StorySet
    <3>2. logged'[s] \in StoryState /\ logged' = [logged EXCEPT ![s] = logged'[s]]
      BY <1>3, <2>2 DEF Inv, StoryOK
    <3>3. "enter_testing" \in PCs
      BY DEF PCs
    <3> QED
      BY <1>3, <3>1, <3>2, <3>3, NextStageIs DEF Own
  <2>4. Where(s)'
    BY <1>1, <1>3, <2>3 DEF Where, At, State, Copies, Early, Loop, InDeployment
  <2>5. refused' \in [Stories -> SUBSET {"review", "scan", "quality"}]
    BY <1>3 DEF Inv, StoryOK
  <2> QED
    BY <1>1, <2>3, <2>4, <2>5, OwnStep, SharedSame DEF Inv, StoryOK
<1> QED
  BY <1>2, <1>3 DEF Reviewed

LEMMA TestsGeneratedInv == ASSUME Inv, NEW s \in Stories, TestsGenerated(s) PROVE Inv'
<1>1. /\ State(s) = "TESTING" /\ Copies("analyzer") /\ Copies("reviewer") /\ wiring' = wiring
      /\ UNCHANGED <<iterNum, refused, retryVars, gateVars>>
  BY DEF TestsGenerated, Inv, Where, At, Early, Loop
<1>2. /\ Own(s) /\ Where(s)'
      /\ rebound' \in [Stories -> BOOLEAN]
  <2>1. CASE StageFails(s, FALSE, "scan") /\ UNCHANGED rebound
    BY <1>1, <2>1, StageFailsInv DEF PCs, Inv, StoryOK
  <2>2. CASE /\ Goto(s, "run_tests") /\ UNCHANGED <<story, logged>>
             /\ rebound' = [rebound EXCEPT ![s] = Copies("test_generator")]
    <3>1. Own(s) /\ pc'[s] = "run_tests"
      BY <2>2 DEF Own, Goto, Inv, StoryOK, PCs
    <3>2. Copies("test_generator") \in BOOLEAN
      BY DEF Copies
    <3>3. rebound' \in [Stories -> BOOLEAN]
      BY <2>2, <3>2 DEF Inv, StoryOK
    <3>4. Where(s)'
      BY <1>1, <2>2, <3>1 DEF Where, At, State, Copies, Early, Loop, InDeployment
    <3> QED
      BY <3>1, <3>3, <3>4
  <2> QED
    BY <2>1, <2>2 DEF TestsGenerated
<1> QED
  BY <1>1, <1>2, OwnStep, SharedSame DEF Inv, StoryOK

LEMMA TestsPassedInv == ASSUME Inv, NEW s \in Stories, TestsPassed(s) PROVE Inv'
<1>1. /\ State(s) = "TESTING" /\ Copies("analyzer") /\ Copies("reviewer")
      /\ Untouched /\ logged' = logged /\ Goto(s, "scan")
  BY DEF TestsPassed, Untouched, Inv, Where, At, Early, Loop
<1>2. /\ story'[s] \in Story /\ story'[s].state = "TESTING"
      /\ story' = [story EXCEPT ![s] = story'[s]]
  <2>1. CASE story' = story
    BY <1>1, <2>1 DEF Inv, StoryOK, State
  <2>2. ASSUME NEW v \in VerdictsOf(s, "test_runner"),
               story' = [story EXCEPT ![s].iterations = WithVerdict(s, "test_runner", "tests", v)]
        PROVE  /\ story'[s] \in Story /\ story'[s].state = "TESTING"
               /\ story' = [story EXCEPT ![s] = story'[s]]
    <3>1. WithVerdict(s, "test_runner", "tests", v) \in Seq(Iteration)
      BY VerdictFiled
    <3>2. story[s] \in Story /\ story \in [Stories -> Story]
      BY DEF Inv, StoryOK
    <3>3. story'[s] = [story[s] EXCEPT !.iterations = WithVerdict(s, "test_runner", "tests", v)]
      BY <2>2, <3>2
    <3>4. story'[s] \in Story /\ story'[s].state = story[s].state
      BY <3>1, <3>2, <3>3 DEF Story
    <3> QED
      BY <1>1, <2>2, <3>2, <3>3, <3>4 DEF State
  <2> QED
    BY <2>1, <2>2 DEF TestsPassed
<1>3. Own(s) /\ pc'[s] = "scan"
  BY <1>1, <1>2 DEF Own, Goto, Inv, StoryOK, PCs
<1>4. Where(s)'
  BY <1>1, <1>2, <1>3 DEF Where, At, State, Copies, Early, Loop, InDeployment, Untouched
<1> QED
  BY <1>1, <1>3, <1>4, UntouchedInv

LEMMA TestsRaiseInv == ASSUME Inv, NEW s \in Stories, TestsRaise(s) PROVE Inv'
<1>1. /\ State(s) = "TESTING" /\ Copies("analyzer") /\ Copies("reviewer")
      /\ Untouched /\ StageFails(s, rebound[s], "scan")
  BY DEF TestsRaise, Untouched, Inv, Where, At, Early, Loop
<1>2. CASE rebound[s]
  <2>1. /\ Own(s) /\ pc'[s] = "scan" /\ story'[s].state = "TESTING"
    BY <1>1, <1>2, MoveOwn DEF StageFails, Continue, State, StoryState, PCs
  <2>2. Where(s)'
    BY <1>1, <2>1 DEF Where, At, State, Copies, Early, Loop, InDeployment, Untouched
  <2> QED
    BY <1>1, <2>1, <2>2, UntouchedInv
<1>3. CASE rebound[s] = FALSE
  BY <1>1, <1>3, StageFailsInv, UntouchedInv DEF Untouched, PCs
<1> QED
  BY <1>2, <1>3 DEF Inv, StoryOK

\* What _run_testing does to the retry policy is the policy's own operation.
LEMMA RecordIsOwn ==
  ASSUME NEW s, NEW fp, Retry!RecordFailure(s, fp)
  PROVE  RetryFacts!RecordFailure(s, fp)
BY DEF Retry!RecordFailure, RetryFacts!RecordFailure, Retry!RecordAttempt,
       RetryFacts!RecordAttempt, Retry!AfterSuccess, RetryFacts!AfterSuccess,
       Retry!AfterFailure, RetryFacts!AfterFailure, Retry!BackoffSeconds,
       RetryFacts!BackoffSeconds, Retry!NoError, RetryFacts!NoError

LEMMA TestsFailedInv == ASSUME Inv, NEW s \in Stories, TestsFailed(s) PROVE Inv'
<1> DEFINE copied == rebound[s] \/ Copies("test_runner")
<1>1. /\ State(s) = "TESTING" /\ Copies("analyzer") /\ Copies("reviewer")
      /\ UNCHANGED <<wiring, rebound, refused, gateVars>>
      /\ "bad" \in VerdictsOf(s, "test_runner")
  BY DEF TestsFailed, Inv, Where, At, Early, Loop
<1>2. PICK to \in {"CODING", "FAILED"} :
        LET st == IF copied THEN State(s) ELSE to
        IN  /\ story' = [story EXCEPT ![s].state = st,
                                      ![s].iterations = IF copied THEN @ ELSE
                                         WithVerdict(s, "test_runner", "tests", "bad")]
            /\ logged' = [logged EXCEPT ![s] = to]
            /\ NextStage(s, st, "scan")
  BY DEF TestsFailed
<1> DEFINE st == IF copied THEN State(s) ELSE to
           its == IF copied THEN story[s].iterations
                  ELSE WithVerdict(s, "test_runner", "tests", "bad")
<1>3. st \in {"TESTING", "CODING", "FAILED"} /\ its \in Seq(Iteration)
  BY <1>1, <1>2, VerdictFiled DEF Inv, StoryOK, Story
<1>4. /\ Own(s) /\ story'[s].state = st /\ iterNum' \in [Stories -> Nat]
      /\ pc'[s] = IF st = "FAILED" THEN "returned" ELSE IF st = "CODING" THEN "loop" ELSE "scan"
  <2>1. story'[s] \in Story /\ story'[s].state = st /\ story' = [story EXCEPT ![s] = story'[s]]
    <3>1. story' = [story EXCEPT ![s].state = st, ![s].iterations = its]
      BY <1>2
    <3> QED
      BY <1>3, <3>1, StorySet DEF StoryState
  <2>2. logged'[s] \in StoryState /\ logged' = [logged EXCEPT ![s] = logged'[s]]
    BY <1>2 DEF Inv, StoryOK, StoryState
  <2>3. "scan" \in PCs
    BY DEF PCs
  <2> QED
    BY <1>2, <2>1, <2>2, <2>3, NextStageIs DEF Own
<1>5. Where(s)'
  BY <1>1, <1>3, <1>4 DEF Where, At, State, Copies, Early, Loop, Terminal, InDeployment
<1>6. SharedOK'
  <2>1. CASE UNCHANGED retryVars
    BY <1>1, <2>1, SharedSame
  <2>2. ASSUME NEW fp \in Fingerprints, Retry!RecordFailure(s, fp) PROVE SharedOK'
    <3>1. RetryFacts!RetryNext
      BY <2>2, RecordIsOwn DEF RetryFacts!RetryNext
    <3>2. RetryFacts!Inv'
      BY <3>1, RetryFacts!NextInv DEF Inv, SharedOK
    <3>3. UNCHANGED GateFacts!gateVars
      BY <1>1 DEF gateVars, GateFacts!gateVars
    <3> QED
      BY <3>2, <3>3, GateFacts!NextInv DEF Inv, SharedOK
  <2> QED
    BY <2>1, <2>2 DEF TestsFailed
<1> QED
  BY <1>1, <1>4, <1>5, <1>6, OwnStep DEF Inv, StoryOK

\* The security scan and the quality gates.
ActedOn(s, there, failed) ==
  /\ Own(s) /\ iterNum' \in [Stories -> Nat]
  /\ refused' \in [Stories -> SUBSET {"review", "scan", "quality"}]
  /\ \/ story'[s].state = State(s)
     \/ Can(s, story'[s].state) /\ story'[s].state \in {"CODING", "FAILED"}
  /\ pc'[s] = IF story'[s].state = "CODING" THEN "loop"
              ELSE IF story'[s].state = "FAILED" THEN failed ELSE there

LEMMA ActOnIs ==
  ASSUME Inv, NEW s \in Stories, NEW gate \in {"scan", "quality"}, NEW field,
         NEW good \in BOOLEAN, NEW there \in PCs, NEW failed \in PCs,
         ActOn(s, gate, field, good, there, failed)
  PROVE  ActedOn(s, there, failed)
<1> DEFINE to == IF Retry!ShouldRetry(s) THEN "CODING" ELSE "FAILED"
           st == IF ~good /\ IsHeeded(s, field) /\ Can(s, to) THEN to ELSE State(s)
           target == IF st = "CODING" THEN "loop" ELSE IF st = "FAILED" THEN failed ELSE there
<1>1. st \in StoryState /\ (st = State(s) \/ (Can(s, st) /\ st \in {"CODING", "FAILED"}))
  BY DEF Inv, StoryOK, Story, State, StoryState
<1>2. Goto(s, target) /\ target \in PCs
  BY DEF ActOn, PCs
<1>3. Own(s) /\ story'[s].state = st /\ pc'[s] = target
  <2>1. CASE st = State(s)
    <3>1. UNCHANGED <<story, logged>>
      BY <2>1 DEF ActOn
    <3> QED
      BY <1>2, <2>1, <3>1 DEF Own, Goto, State, Inv, StoryOK
  <2>2. CASE st # State(s)
    <3>1. Move(s, FALSE, st)
      BY <2>2 DEF ActOn
    <3> QED
      BY <1>1, <1>2, <3>1, MoveOwn
  <2> QED
    BY <2>1, <2>2
<1>4. iterNum' \in [Stories -> Nat]
  <2>1. iterNum[s] \in Nat /\ iterNum \in [Stories -> Nat]
    BY DEF Inv, StoryOK
  <2>2. iterNum' = [iterNum EXCEPT ![s] = IF st = "CODING" THEN @ + 1 ELSE @]
    BY DEF ActOn
  <2>3. CASE st = "CODING"
    BY <2>1, <2>2, <2>3
  <2>4. CASE st # "CODING"
    BY <2>1, <2>2, <2>4
  <2> QED
    BY <2>3, <2>4
<1>5. refused' \in [Stories -> SUBSET {"review", "scan", "quality"}]
  BY DEF ActOn, Inv, StoryOK
<1> QED
  BY <1>1, <1>3, <1>4, <1>5 DEF ActedOn

LEMMA ScannedInv == ASSUME Inv, NEW s \in Stories, Scanned(s) PROVE Inv'
<1>1. /\ State(s) = "TESTING" /\ Copies("analyzer") /\ Copies("reviewer")
      /\ UNCHANGED <<wiring, rebound, retryVars, gateVars>>
  BY DEF Scanned, Inv, Where, At, Early, Loop
<1>2. PICK good \in BOOLEAN :
        ActOn(s, "scan", "security_scan_result", good, "quality", "quality")
  BY DEF Scanned
<1>3. /\ Own(s) /\ iterNum' \in [Stories -> Nat]
      /\ refused' \in [Stories -> SUBSET {"review", "scan", "quality"}]
      /\ story'[s].state \in {"TESTING", "CODING", "FAILED"}
      /\ pc'[s] = IF story'[s].state = "CODING" THEN "loop" ELSE "quality"
  <2>1. "quality" \in PCs
    BY DEF PCs
  <2>2. ActedOn(s, "quality", "quality")
    BY <1>2, <2>1, ActOnIs
  <2> QED
    BY <1>1, <2>2 DEF ActedOn
<1>4. Where(s)'
  BY <1>1, <1>3 DEF Where, At, State, Copies, Early, Loop, InDeployment
<1> QED
  BY <1>1, <1>3, <1>4, OwnStep, SharedSame DEF Inv, StoryOK

LEMMA QualityCheckedInv == ASSUME Inv, NEW s \in Stories, QualityChecked(s) PROVE Inv'
<1>1. /\ State(s) \in {"TESTING", "FAILED"} /\ Copies("analyzer") /\ Copies("reviewer")
      /\ UNCHANGED <<wiring, rebound, retryVars, gateVars>>
  BY DEF QualityChecked, Inv, Where, At, Early, Loop
<1>2. PICK good \in BOOLEAN :
        ActOn(s, "quality", "quality_gate_result", good, "enter_deployment", "returned")
  BY DEF QualityChecked
<1>3. /\ Own(s) /\ iterNum' \in [Stories -> Nat]
      /\ refused' \in [Stories -> SUBSET {"review", "scan", "quality"}]
      /\ story'[s].state \in {"TESTING", "CODING", "FAILED"}
      /\ pc'[s] = IF story'[s].state = "CODING" THEN "loop"
                  ELSE IF story'[s].state = "FAILED" THEN "returned" ELSE "enter_deployment"
  <2>1. "returned" \in PCs /\ "enter_deployment" \in PCs
    BY DEF PCs
  <2>2. ActedOn(s, "enter_deployment", "returned")
    BY <1>2, <2>1, ActOnIs
  <2> QED
    BY <1>1, <2>2 DEF ActedOn
<1>4. Where(s)'
  BY <1>1, <1>3 DEF Where, At, State, Copies, Early, Loop, Terminal, InDeployment
<1> QED
  BY <1>1, <1>3, <1>4, OwnStep, SharedSame DEF Inv, StoryOK
-----------------------------------------------------------------------------
\* The stages after the loop, and the people at the gate.
LEMMA GateStepInv ==
  ASSUME Inv, NEW s \in Stories, UNCHANGED retryVars,
         \/ Gate!CheckGate(s, PreDeploy) \/ Gate!Approve(s, PreDeploy)
         \/ Gate!Reject(s, PreDeploy) \/ Gate!ClearPending(s, PreDeploy)
         \/ Gate!ClearAllForStory(s)
  PROVE  SharedOK'
<1>1. GateFacts!GatesNext
  <2>1. PreDeploy \in {PreDeploy}
    OBVIOUS
  <2>2. CASE Gate!CheckGate(s, PreDeploy)
    <3>1. GateFacts!CheckGate(s, PreDeploy)
      BY <2>2 DEF Gate!CheckGate, GateFacts!CheckGate, Gate!GateStatus, GateFacts!GateStatus
    <3> QED
      BY <2>1, <3>1 DEF GateFacts!GatesNext
  <2>3. CASE Gate!Approve(s, PreDeploy) \/ Gate!Reject(s, PreDeploy)
    <3>1. GateFacts!Approve(s, PreDeploy) \/ GateFacts!Reject(s, PreDeploy)
      BY <2>3 DEF Gate!Approve, GateFacts!Approve, Gate!Reject, GateFacts!Reject,
                  Gate!Decide, GateFacts!Decide
    <3> QED
      BY <2>1, <3>1 DEF GateFacts!GatesNext
  <2>4. CASE Gate!ClearPending(s, PreDeploy)
    <3>1. GateFacts!ClearPending(s, PreDeploy)
      BY <2>4 DEF Gate!ClearPending, GateFacts!ClearPending
    <3> QED
      BY <2>1, <3>1 DEF GateFacts!GatesNext
  <2>5. CASE Gate!ClearAllForStory(s)
    <3>1. GateFacts!ClearAllForStory(s)
      BY <2>5 DEF Gate!ClearAllForStory, GateFacts!ClearAllForStory, Gate!GateKeys, GateFacts!GateKeys
    <3> QED
      BY <3>1 DEF GateFacts!GatesNext
  <2> QED
    BY <2>2, <2>3, <2>4, <2>5
<1>2. GateFacts!Inv'
  BY <1>1, GateFacts!NextInv DEF Inv, SharedOK
<1>3. UNCHANGED RetryFacts!retryVars
  BY DEF retryVars, RetryFacts!retryVars
<1> QED
  BY <1>2, <1>3, RetryFacts!NextInv DEF Inv, SharedOK

LEMMA EnterDeploymentInv == ASSUME Inv, NEW s \in Stories, EnterDeployment(s) PROVE Inv'
<1>1. /\ State(s) = "TESTING" /\ Copies("analyzer") /\ Copies("reviewer")
      /\ UNCHANGED <<wiring, iterNum, rebound, refused, retryVars>>
      /\ Gate!CheckGate(s, PreDeploy)
  BY DEF EnterDeployment, Inv, Where, At, Early, Loop
<1>2. \/ Enter(s, "DEPLOYING", "deploy")
      \/ Enter(s, "FAILED", "returned")
      \/ Goto(s, "enter_verification") /\ UNCHANGED <<story, logged>>
  BY DEF EnterDeployment
<1>3. /\ Own(s)
      /\ \/ pc'[s] = "deploy" /\ story'[s].state = "DEPLOYING"
         \/ pc'[s] = "returned" /\ story'[s].state = "FAILED"
         \/ pc'[s] = "enter_verification" /\ story'[s].state = "TESTING"
  <2>1. CASE Enter(s, "DEPLOYING", "deploy")
    BY <1>1, <2>1, EnterOwn, Table DEF Can, StoryState, PCs
  <2>2. CASE Enter(s, "FAILED", "returned")
    BY <1>1, <2>2, EnterOwn, Table DEF Can, StoryState, PCs
  <2>3. CASE Goto(s, "enter_verification") /\ UNCHANGED <<story, logged>>
    BY <1>1, <2>3 DEF Own, Goto, State, Inv, StoryOK, PCs
  <2> QED
    BY <1>2, <2>1, <2>2, <2>3
<1>4. Where(s)'
  BY <1>1, <1>3 DEF Where, At, State, Copies, Early, Loop, Terminal, InDeployment
<1> QED
  BY <1>1, <1>3, <1>4, OwnStep, GateStepInv DEF Inv, StoryOK

LEMMA DeployedInv == ASSUME Inv, NEW s \in Stories, Deployed(s) PROVE Inv'
<1>1. State(s) = "DEPLOYING" /\ Copies("analyzer") /\ Copies("reviewer") /\ Untouched
  BY DEF Deployed, Untouched, Inv, Where, At, Early, Loop
<1>2. CASE StageFails(s, FALSE, "enter_verification")
  BY <1>1, <1>2, StageFailsInv, UntouchedInv DEF Untouched, PCs
<1>3. CASE Move(s, Copies("deployer"), "VERIFYING") /\ Goto(s, "enter_verification")
  <2>1. /\ Own(s) /\ pc'[s] = "enter_verification"
        /\ story'[s].state = IF Copies("deployer") THEN "DEPLOYING" ELSE "VERIFYING"
    BY <1>1, <1>3, MoveOwn DEF StoryState, PCs, Copies, State
  <2>2. Where(s)'
    BY <1>1, <2>1 DEF Where, At, State, Copies, Early, Loop, InDeployment, Untouched
  <2> QED
    BY <1>1, <2>1, <2>2, UntouchedInv
<1> QED
  BY <1>2, <1>3 DEF Deployed

LEMMA EnterVerificationInv ==
  ASSUME Inv, NEW s \in Stories, EnterVerification(s) PROVE Inv'
<1>1. Untouched /\ Own(s)
  BY EnterOwn DEF EnterVerification, Untouched, StoryState, PCs
<1>2. /\ Copies("analyzer") /\ Copies("reviewer")
      /\ \/ State(s) = "TESTING"
         \/ State(s) = "DEPLOYING" /\ Copies("deployer")
         \/ State(s) = "VERIFYING" /\ ~Copies("deployer")
  BY DEF EnterVerification, Inv, Where, At, Early, Loop
<1>3. \/ pc'[s] = "verify" /\ story'[s].state = "VERIFYING" /\ Copies("deployer")
      \/ pc'[s] = "error" /\ story'[s].state \in {"TESTING", "VERIFYING"}
  BY <1>2, EnterOwn, Table DEF EnterVerification, Can, State, StoryState, PCs
<1>4. Where(s)'
  BY <1>1, <1>2, <1>3 DEF Where, At, State, Copies, Early, Loop, InDeployment, Untouched
<1> QED
  BY <1>1, <1>4, UntouchedInv

LEMMA VerifiedInv == ASSUME Inv, NEW s \in Stories, Verified(s) PROVE Inv'
<1>1. /\ State(s) = "VERIFYING" /\ Copies("deployer") /\ Untouched
      /\ Copies("analyzer") /\ Copies("reviewer")
  BY DEF Verified, Untouched, Inv, Where, At, Early, Loop
<1>2. CASE StageFails(s, FALSE, "returned")
  BY <1>1, <1>2, StageFailsInv, UntouchedInv DEF Untouched, PCs
<1>3. CASE Enter(s, "DONE", "returned")
  <2>1. Own(s) /\ pc'[s] = "returned" /\ story'[s].state = "DONE"
    BY <1>1, <1>3, EnterOwn, Table DEF Can, StoryState, PCs
  <2>2. Where(s)'
    BY <1>1, <2>1 DEF Where, At, State, Copies, Early, Terminal, InDeployment, Untouched
  <2> QED
    BY <1>1, <2>1, <2>2, UntouchedInv
<1> QED
  BY <1>2, <1>3 DEF Verified

LEMMA HandleErrorInv == ASSUME Inv, NEW s \in Stories, HandleError(s) PROVE Inv'
<1>1. Can(s, "FAILED") /\ Untouched
  BY Table DEF HandleError, Untouched, Can, Inv, Where
<1>2. Own(s) /\ pc'[s] = "returned" /\ story'[s].state = "FAILED"
  BY <1>1, MoveOwn DEF HandleError, StoryState, PCs
<1>3. Where(s)'
  BY <1>2 DEF Where, At, State, Early, Terminal, InDeployment
<1> QED
  BY <1>1, <1>2, <1>3, UntouchedInv

LEMMA PersonInv == ASSUME Inv, NEW s \in Stories, Person(s) PROVE Inv'
<1>1. SharedOK'
  BY GateStepInv DEF Person
<1>2. UNCHANGED <<wiring, storyVars>>
  BY DEF Person
<1>3. StoryOK'
  BY <1>2 DEF storyVars, Inv, StoryOK
<1>4. \A t \in Stories : Where(t)'
  BY <1>2 DEF storyVars, Inv, Where, At, State, Copies
<1> QED
  BY <1>1, <1>3, <1>4 DEF Inv

LEMMA StutterInv == ASSUME Inv, UNCHANGED vars PROVE Inv'
<1>1. UNCHANGED <<wiring, storyVars>> /\ UNCHANGED <<retryVars, gateVars>>
  BY DEF vars
<1>2. StoryOK' /\ SharedOK'
  BY <1>1, SharedSame DEF storyVars, Inv, StoryOK
<1>3. \A t \in Stories : Where(t)'
  BY <1>1 DEF storyVars, Inv, Where, At, State, Copies
<1> QED
  BY <1>2, <1>3 DEF Inv

LEMMA NextInv == Inv /\ [Next]_vars => Inv'
<1> SUFFICES ASSUME Inv, [Next]_vars PROVE Inv'
  OBVIOUS
<1>1. ASSUME NEW s \in Stories, Step(s) PROVE Inv'
  BY <1>1, SubmitInv, AnalyzedInv, EnterPlanningInv, PlannedInv, EndLoopInv, ReplanInv,
     StartCodingInv, GeneratedInv, EnterReviewInv, ReviewedInv, EnterTestingInv,
     TestsGeneratedInv, TestsPassedInv, TestsFailedInv, TestsRaiseInv, ScannedInv,
     QualityCheckedInv, EnterDeploymentInv, DeployedInv, EnterVerificationInv, VerifiedInv,
     HandleErrorInv, Zenon DEF Step
<1> QED
  BY <1>1, PersonInv, StutterInv DEF Next

LEMMA Invariance == Spec => []Inv
  BY InitInv, NextInv, PTL DEF Spec
-----------------------------------------------------------------------------
\* Every variable keeps its kind, in every reachable state.
THEOREM TypeCorrect == Spec => []TypeOK
<1>1. Inv => TypeOK
  <2>1. SharedOK => Retry!RetryTypeOK /\ Gate!GatesTypeOK
    BY DEF SharedOK, RetryFacts!Inv, GateFacts!Inv, RetryFacts!RetryTypeOK, Retry!RetryTypeOK,
           GateFacts!GatesTypeOK, Gate!GatesTypeOK, RetryFacts!Attempt, Retry!Attempt,
           RetryFacts!Breaker, Retry!Breaker, RetryFacts!Backoffs, Retry!Backoffs,
           RetryFacts!BackoffSeconds, Retry!BackoffSeconds, RetryFacts!NoError, Retry!NoError,
           GateFacts!GateKeys, Gate!GateKeys
  <2> QED
    BY <2>1 DEF Inv, StoryOK, TypeOK
<1> QED
  BY <1>1, Invariance, PTL

\* process_story always hands back a story that is DONE or FAILED and never
\* lets an exception out, for any wiring: Table has a move to FAILED in every
\* state a stage can raise from.
THEOREM ReturnsFinishedStory == Spec => []ReturnsFinished
<1>1. Inv => ReturnsFinished
  BY DEF Inv, Where, ReturnsFinished, At
<1> QED
  BY <1>1, Invariance, PTL
-----------------------------------------------------------------------------
\* What one step may do to the stories: it touches its own story only, makes
\* a move of the table if any, never back to CODING once released, and
\* enters DEPLOYING only through an open gate.
Moved(s) ==
  /\ \A t \in Stories \ {s} : story'[t] = story[t]
  /\ story'[s].state # State(s) =>
       /\ Can(s, story'[s].state)
       /\ State(s) \in {"DEPLOYING", "VERIFYING"} => story'[s].state # "CODING"
       /\ story'[s].state = "DEPLOYING" => Gate!GateStatus(s, PreDeploy) = "PASS"

LEMMA OwnMoved ==
  ASSUME Inv, NEW s \in Stories, Own(s),
         \/ story'[s].state = State(s)
         \/ /\ Can(s, story'[s].state)
            /\ story'[s].state \notin {"CODING", "DEPLOYING"}
         \/ /\ Can(s, story'[s].state) /\ story'[s].state = "CODING"
            /\ State(s) \notin {"DEPLOYING", "VERIFYING"}
  PROVE  Moved(s)
BY DEF Moved, Own, Inv, StoryOK

LEMMA FailMoved ==
  ASSUME Inv, NEW s \in Stories, NEW there \in PCs, NEW copied \in BOOLEAN,
         StageFails(s, copied, there), Can(s, "FAILED")
  PROVE  Moved(s)
<1>1. Own(s) /\ story'[s].state = IF copied THEN State(s) ELSE "FAILED"
  <2>1. PICK target \in PCs : Goto(s, target)
    BY DEF StageFails, Continue, PCs
  <2>2. Move(s, copied, "FAILED") /\ "FAILED" \in StoryState
    BY DEF StageFails, StoryState
  <2> QED
    BY <2>1, <2>2, MoveOwn DEF State
<1> QED
  BY <1>1, OwnMoved

LEMMA EnterMoved ==
  ASSUME Inv, NEW s \in Stories, NEW there \in PCs, NEW to \in StoryState,
         Enter(s, to, there), to \notin {"CODING", "DEPLOYING"}
  PROVE  Moved(s)
BY EnterOwn, OwnMoved DEF State

LEMMA EntryMoved ==
  ASSUME Inv, NEW s \in Stories,
         \/ Submit(s) \/ EnterPlanning(s) \/ EndLoop(s) \/ Replan(s) \/ EnterReview(s)
         \/ EnterTesting(s) \/ EnterVerification(s)
  PROVE  Moved(s)
<1>1. PICK to \in StoryState, there \in PCs :
        Enter(s, to, there) /\ to \notin {"CODING", "DEPLOYING"}
  <2>1. CASE Submit(s)
    BY <2>1 DEF Submit, StoryState, PCs
  <2>2. CASE EnterPlanning(s)
    BY <2>2 DEF EnterPlanning, StoryState, PCs
  <2>3. CASE EndLoop(s)
    BY <2>3 DEF EndLoop, StoryState, PCs
  <2>4. CASE Replan(s)
    BY <2>4 DEF Replan, StoryState, PCs
  <2>5. CASE EnterReview(s)
    BY <2>5 DEF EnterReview, StoryState, PCs
  <2>6. CASE EnterTesting(s)
    BY <2>6 DEF EnterTesting, StoryState, PCs
  <2>7. CASE EnterVerification(s)
    BY <2>7 DEF EnterVerification, StoryState, PCs
  <2> QED
    BY <2>1, <2>2, <2>3, <2>4, <2>5, <2>6, <2>7
<1> QED
  BY <1>1, EnterMoved

LEMMA PlanMoved ==
  ASSUME Inv, NEW s \in Stories, Analyzed(s) \/ Planned(s) \/ StartCoding(s)
  PROVE  Moved(s)
<1>1. CASE Analyzed(s)
  <2>1. Can(s, "PLANNING") /\ Can(s, "FAILED")
    BY <1>1, Table DEF Analyzed, Can, Inv, Where
  <2>2. CASE Move(s, Copies("analyzer"), "PLANNING") /\ Goto(s, "enter_planning")
    <3>1. Own(s) /\ story'[s].state \in {State(s), "PLANNING"}
      BY <2>2, MoveOwn DEF StoryState, PCs, Copies, State
    <3> QED
      BY <2>1, <3>1, OwnMoved
  <2> QED
    BY <1>1, <2>1, <2>2, FailMoved DEF Analyzed, PCs
<1>2. CASE Planned(s)
  <2>1. State(s) = "PLANNING" /\ Can(s, "CODING") /\ Can(s, "FAILED") /\ At(s, "plan")
    BY <1>2, Table DEF Planned, Can, Inv, Where, At
  <2>2. CASE Move(s, Copies("planner"), "CODING") /\ Goto(s, "loop")
    <3>1. Own(s) /\ story'[s].state \in {State(s), "CODING"}
      BY <2>2, MoveOwn DEF StoryState, PCs, Copies, State
    <3> QED
      BY <2>1, <3>1, OwnMoved
  <2> QED
    BY <1>2, <2>1, <2>2, FailMoved DEF Planned, PCs
<1>3. CASE StartCoding(s)
  <2>1. State(s) \in {"PLANNING", "CODING"}
    BY <1>3 DEF StartCoding, Inv, Where
  <2>2. CASE Goto(s, "generate") /\ UNCHANGED <<story, logged>>
    BY <2>2 DEF Moved, State
  <2>3. CASE Enter(s, "CODING", "generate")
    BY <2>1, <2>3, EnterOwn, OwnMoved DEF State, StoryState, PCs
  <2> QED
    BY <1>3, <2>2, <2>3 DEF StartCoding
<1> QED
  BY <1>1, <1>2, <1>3

LEMMA StateSet ==
  ASSUME Inv, NEW s \in Stories, NEW st, NEW its,
         story' = [story EXCEPT ![s].state = st, ![s].iterations = its]
  PROVE  (\A t \in Stories \ {s} : story'[t] = story[t]) /\ story'[s].state = st
<1>1. story[s] \in Story /\ story \in [Stories -> Story]
  BY DEF Inv, StoryOK
<1> QED
  BY <1>1 DEF Story

LEMMA LoopMoved ==
  ASSUME Inv, NEW s \in Stories, Generated(s) \/ Reviewed(s)
  PROVE  Moved(s)
<1>1. CASE Generated(s)
  <2>1. State(s) = "CODING" /\ Can(s, "FAILED")
    <3>1. State(s) = "CODING"
      BY <1>1 DEF Generated, Inv, Where, At
    <3> QED
      BY <3>1, Table DEF Can
  <2>2. CASE StageFails(s, FALSE, "enter_review")
    BY <2>1, <2>2, FailMoved DEF PCs
  <2>3. ASSUME NEW st \in {State(s), "FAILED"}, NEW its,
               story' = [story EXCEPT ![s].state = st, ![s].iterations = its]
        PROVE  Moved(s)
    <3>1. (\A t \in Stories \ {s} : story'[t] = story[t]) /\ story'[s].state = st
      BY <2>3, StateSet
    <3>2. st = State(s) \/ Can(s, st)
      BY <2>1
    <3> QED
      BY <2>1, <3>1, <3>2 DEF Moved
  <2>4. CASE ~StageFails(s, FALSE, "enter_review")
    <3>1. PICK keeps \in BOOLEAN, its \in {story[s].iterations} \cup
              {Append(story[s].iterations, [review |-> "none", tests |-> "none", error |-> e]) :
                 e \in GeneratorErrors} :
            story' = [story EXCEPT ![s].state = IF keeps THEN @ ELSE "FAILED",
                                   ![s].iterations = its]
      BY <1>1, <2>4 DEF Generated
    <3>2. CASE keeps
      BY <2>3, <3>1, <3>2 DEF State
    <3>3. CASE ~keeps
      BY <2>3, <3>1, <3>3
    <3> QED
      BY <3>2, <3>3
  <2> QED
    BY <2>2, <2>4
<1>2. CASE Reviewed(s)
  <2>1. /\ State(s) = "REVIEWING"
        /\ Can(s, "FAILED") /\ Can(s, "CODING") /\ Can(s, "TESTING")
    BY <1>2, Table DEF Reviewed, Can, Inv, Where
  <2>2. CASE StageFails(s, FALSE, "enter_testing")
    BY <2>1, <2>2, FailMoved DEF PCs
  <2>3. ASSUME NEW st \in {State(s), "CODING", "TESTING"}, NEW its,
               story' = [story EXCEPT ![s].state = st, ![s].iterations = its]
        PROVE  Moved(s)
    <3>1. (\A t \in Stories \ {s} : story'[t] = story[t]) /\ story'[s].state = st
      BY <2>3, StateSet
    <3>2. st = State(s) \/ Can(s, st)
      BY <2>1
    <3> QED
      BY <2>1, <3>1, <3>2 DEF Moved
  <2>4. ASSUME NEW v \in VerdictsOf(s, "reviewer"),
               story' = [story EXCEPT ![s].state =
                                         IF Copies("reviewer") THEN State(s)
                                         ELSE IF v = "bad" THEN "CODING" ELSE "TESTING",
                                      ![s].iterations = WithVerdict(s, "reviewer", "review", v)]
        PROVE  Moved(s)
    BY <2>3, <2>4
  <2> QED
    BY <1>2, <2>2, <2>4 DEF Reviewed
<1> QED
  BY <1>1, <1>2

LEMMA TestsMoved ==
  ASSUME Inv, NEW s \in Stories,
         TestsGenerated(s) \/ TestsPassed(s) \/ TestsFailed(s) \/ TestsRaise(s)
  PROVE  Moved(s)
<1>1. State(s) = "TESTING" /\ Can(s, "FAILED") /\ Can(s, "CODING")
  <2>1. State(s) = "TESTING"
    BY DEF TestsGenerated, TestsPassed, TestsFailed, TestsRaise, Inv, Where, At
  <2> QED
    BY <2>1, Table DEF Can
<1>2. CASE TestsGenerated(s)
  <2>1. CASE UNCHANGED story
    BY <2>1 DEF Moved, State
  <2> QED
    BY <1>1, <1>2, <2>1, FailMoved DEF TestsGenerated, PCs
<1>3. CASE TestsPassed(s)
  <2>1. CASE UNCHANGED story
    BY <2>1 DEF Moved, State
  <2>2. ASSUME NEW its, story' = [story EXCEPT ![s].iterations = its] PROVE Moved(s)
    <3>1. story[s] \in Story /\ story \in [Stories -> Story]
      BY DEF Inv, StoryOK
    <3>2. (\A t \in Stories \ {s} : story'[t] = story[t]) /\ story'[s].state = State(s)
      BY <2>2, <3>1 DEF State, Story
    <3> QED
      BY <3>2 DEF Moved
  <2> QED
    BY <1>3, <2>1, <2>2 DEF TestsPassed
<1>4. CASE TestsFailed(s)
  <2>1. ASSUME NEW st \in {State(s), "CODING", "FAILED"}, NEW its,
               story' = [story EXCEPT ![s].state = st, ![s].iterations = its]
        PROVE  Moved(s)
    <3>1. (\A t \in Stories \ {s} : story'[t] = story[t]) /\ story'[s].state = st
      BY <2>1, StateSet
    <3>2. st = State(s) \/ Can(s, st)
      BY <1>1
    <3> QED
      BY <1>1, <3>1, <3>2 DEF Moved
  <2> DEFINE copied == rebound[s] \/ Copies("test_runner")
  <2>2. PICK to \in {"CODING", "FAILED"} :
          story' = [story EXCEPT ![s].state = IF copied THEN State(s) ELSE to,
                                 ![s].iterations = IF copied THEN @ ELSE
                                    WithVerdict(s, "test_runner", "tests", "bad")]
    BY <1>4 DEF TestsFailed
  <2>3. CASE copied
    BY <2>1, <2>2, <2>3
  <2>4. CASE ~copied
    BY <2>1, <2>2, <2>4
  <2> QED
    BY <2>3, <2>4
<1>5. CASE TestsRaise(s)
  <2>1. rebound[s] \in BOOLEAN
    BY DEF Inv, StoryOK
  <2> QED
    BY <1>1, <1>5, <2>1, FailMoved DEF TestsRaise, PCs
<1> QED
  BY <1>2, <1>3, <1>4, <1>5

LEMMA ChecksMoved ==
  ASSUME Inv, NEW s \in Stories, Scanned(s) \/ QualityChecked(s)
  PROVE  Moved(s)
<1>1. State(s) \in {"TESTING", "FAILED"}
  BY DEF Scanned, QualityChecked, Inv, Where, At
<1>2. PICK there \in PCs, failed \in PCs : ActedOn(s, there, failed)
  <2>1. {"quality", "enter_deployment", "returned"} \subseteq PCs
    BY DEF PCs
  <2>2. CASE Scanned(s)
    <3>1. PICK good \in BOOLEAN :
            ActOn(s, "scan", "security_scan_result", good, "quality", "quality")
      BY <2>2 DEF Scanned
    <3>2. ActedOn(s, "quality", "quality")
      BY <2>1, <3>1, ActOnIs
    <3> QED
      BY <2>1, <3>2
  <2>3. CASE QualityChecked(s)
    <3>1. PICK good \in BOOLEAN :
            ActOn(s, "quality", "quality_gate_result", good, "enter_deployment", "returned")
      BY <2>3 DEF QualityChecked
    <3>2. ActedOn(s, "enter_deployment", "returned")
      BY <2>1, <3>1, ActOnIs
    <3> QED
      BY <2>1, <3>2
  <2> QED
    BY <2>2, <2>3
<1> QED
  BY <1>1, <1>2, OwnMoved DEF ActedOn

LEMMA LateMoved ==
  ASSUME Inv, NEW s \in Stories,
         EnterDeployment(s) \/ Deployed(s) \/ Verified(s) \/ HandleError(s)
  PROVE  Moved(s)
<1>0. /\ {"deploy", "returned", "enter_verification"} \subseteq PCs
      /\ {"DEPLOYING", "VERIFYING", "DONE", "FAILED"} \subseteq StoryState
  BY DEF PCs, StoryState
<1>1. CASE EnterDeployment(s)
  <2>1. CASE Gate!GateStatus(s, PreDeploy) = "PASS" /\ Enter(s, "DEPLOYING", "deploy")
    <3>1. /\ Own(s)
          /\ \/ Can(s, "DEPLOYING") /\ story'[s].state = "DEPLOYING"
             \/ story'[s].state = State(s)
      BY <1>0, <2>1, EnterOwn DEF State
    <3>2. \A t \in Stories \ {s} : story'[t] = story[t]
      BY <3>1 DEF Own, Inv, StoryOK
    <3> QED
      BY <2>1, <3>1, <3>2 DEF Moved
  <2>2. CASE Enter(s, "FAILED", "returned")
    BY <1>0, <2>2, EnterMoved
  <2>3. CASE UNCHANGED story
    BY <2>3 DEF Moved, State
  <2> QED
    BY <1>1, <2>1, <2>2, <2>3 DEF EnterDeployment
<1>2. CASE Deployed(s)
  <2>1. State(s) = "DEPLOYING" /\ Can(s, "VERIFYING") /\ Can(s, "FAILED")
    BY <1>2, Table DEF Deployed, Can, Inv, Where
  <2>2. CASE Move(s, Copies("deployer"), "VERIFYING") /\ Goto(s, "enter_verification")
    <3>1. Own(s) /\ story'[s].state \in {State(s), "VERIFYING"}
      BY <1>0, <2>2, MoveOwn DEF Copies, State
    <3> QED
      BY <2>1, <3>1, OwnMoved
  <2>3. CASE StageFails(s, FALSE, "enter_verification")
    BY <1>0, <2>1, <2>3, FailMoved
  <2> QED
    BY <1>2, <2>2, <2>3 DEF Deployed
<1>3. CASE Verified(s)
  <2>1. Can(s, "FAILED")
    BY <1>3, Table DEF Verified, Can, Inv, Where
  <2> QED
    BY <1>0, <1>3, <2>1, EnterMoved, FailMoved DEF Verified
<1>4. CASE HandleError(s)
  <2>1. Can(s, "FAILED")
    BY <1>4, Table DEF HandleError, Can, Inv, Where
  <2>2. Own(s) /\ story'[s].state = "FAILED"
    BY <1>0, <1>4, <2>1, MoveOwn DEF HandleError
  <2> QED
    BY <2>1, <2>2, OwnMoved
<1> QED
  BY <1>1, <1>2, <1>3, <1>4

LEMMA StepMoved == ASSUME Inv, NEW s \in Stories, Step(s) PROVE Moved(s)
  BY EntryMoved, PlanMoved, LoopMoved, TestsMoved, ChecksMoved, LateMoved, Zenon DEF Step
-----------------------------------------------------------------------------
LEMMA FinalStep ==
  Inv /\ [Next]_vars => [\A s \in Stories : State(s) \in Terminal => State(s)' = State(s)]_vars
<1> SUFFICES ASSUME Inv, Next, NEW t \in Stories, State(t) \in Terminal
             PROVE  State(t)' = State(t)
  OBVIOUS
<1>1. ASSUME NEW s \in Stories, Step(s) PROVE State(t)' = State(t)
  <2>1. Moved(s)
    BY <1>1, StepMoved
  <2>2. CASE t = s
    BY <2>1, <2>2, Table DEF Moved, Can, State, Terminal
  <2>3. CASE t # s
    BY <2>1, <2>3 DEF Moved, State
  <2> QED
    BY <2>2, <2>3
<1>2. ASSUME NEW s \in Stories, Person(s) PROVE State(t)' = State(t)
  BY <1>2 DEF Person, storyVars, State
<1> QED
  BY <1>1, <1>2 DEF Next

\* DONE and FAILED are final for every story, whatever the other stories and
\* the people at the gate do.
THEOREM FinalStates == Spec => FinalIsFinal
  BY InitInv, NextInv, FinalStep, PTL DEF Spec, FinalIsFinal

LEMMA ReleaseStep ==
  Inv /\ [Next]_vars =>
    [ \A s \in Stories : (State(s)' = "DEPLOYING" /\ State(s) # "DEPLOYING") =>
        Gate!GateStatus(s, PreDeploy) = "PASS" ]_vars
<1> SUFFICES ASSUME Inv, Next, NEW t \in Stories,
                    State(t)' = "DEPLOYING", State(t) # "DEPLOYING"
             PROVE  Gate!GateStatus(t, PreDeploy) = "PASS"
  OBVIOUS
<1>1. ASSUME NEW s \in Stories, Step(s) PROVE Gate!GateStatus(t, PreDeploy) = "PASS"
  <2>1. Moved(s)
    BY <1>1, StepMoved
  <2>2. CASE t = s
    BY <2>1, <2>2 DEF Moved, State
  <2>3. CASE t # s
    BY <2>1, <2>3 DEF Moved, State
  <2> QED
    BY <2>2, <2>3
<1>2. ASSUME NEW s \in Stories, Person(s) PROVE FALSE
  BY <1>2 DEF Person, storyVars, State
<1> QED
  BY <1>1, <1>2 DEF Next

\* Nothing is deployed past a gate that has not been approved, however the
\* decisions interleave with the stages of any number of stories.
THEOREM DeploymentIsCleared == Spec => DeploysOnlyWhenCleared
  BY InitInv, NextInv, ReleaseStep, PTL DEF Spec, DeploysOnlyWhenCleared
-----------------------------------------------------------------------------
\* The orchestrator drives the retry policy and the gate manager through
\* their own operations only.
LEMMA StepGate ==
  ASSUME NEW s \in Stories, Step(s)
  PROVE  UNCHANGED gateVars \/ Gate!CheckGate(s, PreDeploy)
BY DEF Step, Submit, Analyzed, EnterPlanning, Planned, EndLoop, Replan, StartCoding, Generated,
       EnterReview, Reviewed, EnterTesting, TestsGenerated, TestsPassed, TestsFailed, TestsRaise,
       Scanned, QualityChecked, EnterDeployment, Deployed, EnterVerification, Verified, HandleError

LEMMA StepRetry ==
  ASSUME NEW s \in Stories, Step(s)
  PROVE  UNCHANGED retryVars \/ \E fp \in Fingerprints : Retry!RecordFailure(s, fp)
BY DEF Step, Submit, Analyzed, EnterPlanning, Planned, EndLoop, Replan, StartCoding, Generated,
       EnterReview, Reviewed, EnterTesting, TestsGenerated, TestsPassed, TestsFailed, TestsRaise,
       Scanned, QualityChecked, EnterDeployment, Deployed, EnterVerification, Verified, HandleError

\* Every behaviour of the orchestrator is a behaviour of RetryPolicy.tla.
THEOREM RetryPolicyIsUsed == Spec => UsesRetryPolicy
<1>1. Init => Retry!RetryInit
  BY DEF Init
<1>2. [Next]_vars => [Retry!RetryNext]_(Retry!retryVars)
  <2> SUFFICES ASSUME [Next]_vars PROVE Retry!RetryNext \/ UNCHANGED Retry!retryVars
    OBVIOUS
  <2>1. CASE UNCHANGED retryVars
    BY <2>1 DEF retryVars, Retry!retryVars
  <2>2. ASSUME NEW s \in Stories, Step(s) PROVE Retry!RetryNext \/ UNCHANGED Retry!retryVars
    BY <2>1, <2>2, StepRetry DEF Retry!RetryNext
  <2>3. ASSUME NEW s \in Stories, Person(s) PROVE UNCHANGED retryVars
    BY <2>3 DEF Person
  <2> QED
    BY <2>1, <2>2, <2>3 DEF Next, vars
<1> QED
  BY <1>1, <1>2, PTL DEF Spec, UsesRetryPolicy, Retry!RetrySpec

\* Every behaviour of the orchestrator and the people at the gate is a
\* behaviour of ApprovalGates.tla.
THEOREM GateManagerIsUsed == Spec => UsesGateManager
<1>1. Init => Gate!GatesInit
  BY DEF Init
<1>2. [Next]_vars => [Gate!GatesNext]_(Gate!gateVars)
  <2> SUFFICES ASSUME [Next]_vars PROVE Gate!GatesNext \/ UNCHANGED Gate!gateVars
    OBVIOUS
  <2>1. CASE UNCHANGED gateVars
    BY <2>1 DEF gateVars, Gate!gateVars
  <2>2. ASSUME NEW s \in Stories, Step(s) PROVE Gate!GatesNext \/ UNCHANGED Gate!gateVars
    BY <2>1, <2>2, StepGate DEF Gate!GatesNext
  <2>3. ASSUME NEW s \in Stories, Person(s) PROVE Gate!GatesNext
    BY <2>3 DEF Person, Gate!GatesNext
  <2> QED
    BY <2>1, <2>2, <2>3 DEF Next, vars
<1> QED
  BY <1>1, <1>2, PTL DEF Spec, UsesGateManager, Gate!GatesSpec
-----------------------------------------------------------------------------
\* The refinement of StoryService.tla.
LEMMA PhaseTable ==
  /\ Phase["RECEIVED"] = "waiting"   /\ Phase["ANALYZING"] = "open"
  /\ Phase["PLANNING"] = "open"      /\ Phase["CODING"] = "open"
  /\ Phase["REVIEWING"] = "open"     /\ Phase["TESTING"] = "open"
  /\ Phase["DEPLOYING"] = "released" /\ Phase["VERIFYING"] = "released"
  /\ Phase["DONE"] = "done"          /\ Phase["FAILED"] = "failed"
BY DEF Phase

\* What a legal move of a story is for the service, and the gate it asks.
LEMMA PhaseMove ==
  ASSUME NEW from \in StoryState, NEW to \in StoryState, IsValidTransition(from, to),
         from \in {"DEPLOYING", "VERIFYING"} => to # "CODING"
  PROVE  \/ Phase[to] = Phase[from]
         \/ Phase[from] = "waiting" /\ Phase[to] = "open"
         \/ Phase[from] = "open" /\ Phase[to] = "failed"
         \/ Phase[from] = "open" /\ Phase[to] = "released" /\ to = "DEPLOYING"
         \/ Phase[from] = "released" /\ Phase[to] = "done"
         \/ Phase[from] = "released" /\ Phase[to] = "failed"
BY Table, PhaseTable DEF StoryState

LEMMA ServiceStep ==
  ASSUME Inv, Inv', NEW s \in Stories, Step(s)
  PROVE  Service!Next \/ UNCHANGED Service!vars
<1> DEFINE ph == [t \in Stories |-> PhaseOf(t)]
           gt == [t \in Stories |-> Gate!GateStatus(t, PreDeploy)]
<1>1. gt' = gt
  BY StepGate DEF gateVars, Gate!CheckGate, Gate!GateStatus
<1>2. Moved(s) /\ State(s) \in StoryState /\ State(s)' \in StoryState
  BY StepMoved DEF Inv, StoryOK, Story, State
<1>3. ph' = [ph EXCEPT ![s] = PhaseOf(s)']
  BY <1>2 DEF Moved, PhaseOf, State
<1>4. CASE PhaseOf(s)' = PhaseOf(s)
  <2>1. ph' = ph
    BY <1>3, <1>4
  <2> QED
    BY <1>1, <2>1 DEF Service!vars
<1>5. CASE PhaseOf(s)' # PhaseOf(s)
  <2>1. /\ IsValidTransition(State(s), State(s)')
        /\ State(s) \in {"DEPLOYING", "VERIFYING"} => State(s)' # "CODING"
        /\ State(s)' = "DEPLOYING" => Gate!GateStatus(s, PreDeploy) = "PASS"
    BY <1>2, <1>5 DEF Moved, Can, PhaseOf, State
  <2>2. \/ ph[s] = "waiting" /\ PhaseOf(s)' = "open"
        \/ ph[s] = "open" /\ PhaseOf(s)' = "failed"
        \/ ph[s] = "open" /\ PhaseOf(s)' = "released" /\ gt[s] = "PASS"
        \/ ph[s] = "released" /\ PhaseOf(s)' = "done"
        \/ ph[s] = "released" /\ PhaseOf(s)' = "failed"
    BY <1>2, <1>5, <2>1, PhaseMove DEF PhaseOf
  <2> QED
    BY <1>1, <1>3, <2>2 DEF Service!Next, Service!Accept, Service!GiveUp, Service!Release,
                            Service!Complete, Service!Abort, Service!Become
<1> QED
  BY <1>4, <1>5

LEMMA ServicePerson ==
  ASSUME Inv, NEW s \in Stories, Person(s)
  PROVE  Service!Next \/ UNCHANGED Service!vars
<1> DEFINE ph == [t \in Stories |-> PhaseOf(t)]
           gt == [t \in Stories |-> Gate!GateStatus(t, PreDeploy)]
<1>1. ph' = ph
  BY DEF Person, storyVars, PhaseOf, State
<1>2. Gate!GateStatus(s, PreDeploy)' \in {"PASS", "BLOCKED", "PENDING"}
  BY DEF Gate!GateStatus
<1>3. \A t \in Stories \ {s} : decision'[<<t, PreDeploy>>] = decision[<<t, PreDeploy>>]
  BY DEF Person, Gate!Approve, Gate!Reject, Gate!Decide, Gate!ClearPending,
         Gate!ClearAllForStory, Gate!GateKeys, Inv, SharedOK, GateFacts!Inv,
         GateFacts!GatesTypeOK, GateFacts!GateKeys
<1>4. gt' = [gt EXCEPT ![s] = Gate!GateStatus(s, PreDeploy)']
  BY <1>3 DEF Gate!GateStatus
<1> QED
  BY <1>1, <1>2, <1>4 DEF Service!Next, Service!Decide, Service!Answers

\* The orchestrator implements the story service: a story is released only
\* through its gate, never worked on again after that, and given up or
\* completed once.
THEOREM ServiceIsImplemented == Spec => ImplementsService
<1>1. Init => Service!Init
  <2> SUFFICES ASSUME Init PROVE Service!Init
    OBVIOUS
  <2>1. \A t \in Stories : PhaseOf(t) = "waiting"
    BY PhaseTable DEF Init, PhaseOf, State
  <2>2. \A t \in Stories : Gate!GateStatus(t, PreDeploy) \in {"PASS", "BLOCKED", "PENDING"}
    BY DEF Gate!GateStatus
  <2> QED
    BY <2>1, <2>2 DEF Service!Init, Service!Answers
<1>2. Inv /\ Inv' /\ [Next]_vars => [Service!Next]_(Service!vars)
  <2> SUFFICES ASSUME Inv, Inv', [Next]_vars PROVE Service!Next \/ UNCHANGED Service!vars
    OBVIOUS
  <2>1. CASE UNCHANGED vars
    BY <2>1 DEF vars, storyVars, gateVars, Service!vars, PhaseOf, State, Gate!GateStatus
  <2> QED
    BY <2>1, ServiceStep, ServicePerson DEF Next
<1> QED
  BY <1>1, <1>2, Invariance, PTL DEF Spec, ImplementsService, Service!Spec
-----------------------------------------------------------------------------
(* The coding loop is bounded, and what it hands on has passed its tests.  *)
(* Both follow from what holds of the loop's counter, the iterations and   *)
(* the attempts wherever the coroutine may stand.                          *)

Before == {"new", "analyze", "enter_planning", "plan"}
Middle == {"enter_review", "review", "enter_testing", "generate_tests", "run_tests"}
After  == {"scan", "quality", "enter_deployment", "deploy", "enter_verification", "verify"}

\* Every failed attempt belongs to an iteration that is over, but for the
\* one that has just been recorded; the policy's count is that of its list.
Work(s) ==
  LET n == Len(story[s].iterations)
      a == Len(attempts[s])
      i == iterNum[s]
  IN  /\ n <= MaxIterations /\ a <= i
      /\ a = breaker[s].consecutive /\ a <= MaxRetries /\ a <= RetryThreshold
      /\ pc[s] \in Before => n = 0 /\ a = 0
      /\ pc[s] = "loop" => n < i /\ a < i /\ i <= MaxIterations + 1
      /\ pc[s] = "generate" => n < i /\ a < i /\ i <= MaxIterations
      /\ pc[s] \in Middle => n <= i /\ a < i /\ i <= MaxIterations
      /\ pc[s] \in After => n <= i /\ i <= MaxIterations

LastPassed(s) ==
  \A k \in DOMAIN story[s].iterations :
    k = Len(story[s].iterations) => story[s].iterations[k].tests # "bad"

\* A failing report is on the last iteration only of a story that has failed
\* or that is about to generate another: a generator that files iterations
\* files one each time, and without one there is no iteration to report on.
Clean(s) ==
  (~Copies("test_generator") /\ ~Copies("test_runner")) =>
    /\ wiring["generator"] # "inplace" => story[s].iterations = <<>>
    /\ pc[s] = "run_tests" => ~rebound[s]
    /\ \/ LastPassed(s) \/ State(s) = "FAILED"
       \/ State(s) \in {"PLANNING", "CODING"} /\ pc[s] \in {"loop", "generate", "error"}

Bounded == \A s \in Stories : Work(s) /\ Clean(s)

\* A step of one story leaves what the other stories have.
Alone(s) ==
  \A t \in Stories \ {s} :
    /\ story'[t] = story[t] /\ pc'[t] = pc[t] /\ iterNum'[t] = iterNum[t]
    /\ rebound'[t] = rebound[t] /\ attempts'[t] = attempts[t] /\ breaker'[t] = breaker[t]

LEMMA AloneBounded ==
  ASSUME Inv, Bounded, NEW s \in Stories, Alone(s), UNCHANGED wiring, Work(s)', Clean(s)'
  PROVE  Bounded'
<1>1. ASSUME NEW t \in Stories, t # s PROVE Work(t)' /\ Clean(t)'
  <2>1. /\ story'[t] = story[t] /\ pc'[t] = pc[t] /\ iterNum'[t] = iterNum[t]
        /\ rebound'[t] = rebound[t] /\ attempts'[t] = attempts[t] /\ breaker'[t] = breaker[t]
    BY <1>1 DEF Alone
  <2>2. Work(t) /\ Clean(t)
    BY DEF Bounded
  <2> QED
    BY <2>1, <2>2 DEF Work, Clean, LastPassed, State, Copies
<1> QED
  BY <1>1 DEF Bounded

\* What the two invariants say of the values of one story.
LEMMA StoryValues ==
  ASSUME Inv, NEW s \in Stories
  PROVE  /\ story[s] \in Story /\ story[s].iterations \in Seq(Iteration)
         /\ Len(story[s].iterations) \in Nat /\ iterNum[s] \in Nat
         /\ Len(attempts[s]) \in Nat
BY DEF Inv, StoryOK, Story, SharedOK, RetryFacts!Inv, RetryFacts!RetryTypeOK

\* A step that files nothing, counts nothing and asks the policy nothing.
Quiet(s) ==
  /\ Own(s) /\ UNCHANGED <<wiring, iterNum, retryVars>>
  /\ story'[s].iterations = story[s].iterations

LEMMA QuietBounded ==
  ASSUME Inv, Bounded, NEW s \in Stories, Quiet(s),
         \A t \in Stories \ {s} : rebound'[t] = rebound[t],
         pc'[s] = "run_tests" => (Copies("test_generator") \/ ~rebound'[s]),
         \/ pc'[s] \in {"error", "returned"}
         \/ {pc[s], pc'[s]} \subseteq Before
         \/ pc[s] = "loop" /\ pc'[s] = "generate" /\ iterNum[s] <= MaxIterations
         \/ pc[s] \in Middle /\ pc'[s] \in Middle \cup After
         \/ {pc[s], pc'[s]} \subseteq After,
         \/ story'[s].state \in {State(s), "FAILED"} /\ pc'[s] \in {pc[s], "error"}
         \/ story'[s].state = "FAILED"
         \/ story'[s].state = "CODING" /\ pc'[s] = "generate"
         \/ State(s) # "FAILED" /\ pc[s] \notin {"loop", "generate", "error"}
  PROVE  Bounded'
<1>1. Work(s) /\ Clean(s)
  BY DEF Bounded
<1>2. Alone(s)
  BY DEF Quiet, Own, Inv, StoryOK, Alone, retryVars
<1>3. Work(s)'
  BY <1>1, StoryValues DEF Work, Quiet, retryVars, Before, Middle, After
<1>4. LastPassed(s)' <=> LastPassed(s)
  BY DEF LastPassed, Quiet
<1>5. Clean(s)'
  <2> SUFFICES ASSUME ~Copies("test_generator"), ~Copies("test_runner") PROVE Clean(s)'
    BY DEF Clean, Copies, Quiet
  <2>1. /\ wiring["generator"] # "inplace" => story[s].iterations = <<>>
        /\ pc[s] = "run_tests" => ~rebound[s]
        /\ \/ LastPassed(s) \/ State(s) = "FAILED"
           \/ State(s) \in {"PLANNING", "CODING"} /\ pc[s] \in {"loop", "generate", "error"}
    BY <1>1 DEF Clean
  <2>2. pc'[s] = "run_tests" => ~rebound'[s]
    OBVIOUS
  <2>3. \/ LastPassed(s)' \/ State(s)' = "FAILED"
        \/ State(s)' \in {"PLANNING", "CODING"} /\ pc'[s] \in {"loop", "generate", "error"}
    BY <2>1, <1>4 DEF State
  <2>4. wiring'["generator"] # "inplace" => story'[s].iterations = <<>>
    BY <2>1 DEF Quiet
  <2> QED
    BY <2>2, <2>3, <2>4 DEF Clean
<1> QED
  BY <1>2, <1>3, <1>5, AloneBounded DEF Quiet

LEMMA MoveQuiet ==
  ASSUME Inv, NEW s \in Stories, NEW to, NEW copied \in BOOLEAN, Move(s, copied, to)
  PROVE  story'[s].iterations = story[s].iterations
<1>1. story[s] \in Story /\ story \in [Stories -> Story]
  BY DEF Inv, StoryOK
<1>2. CASE copied
  BY <1>2 DEF Move
<1>3. CASE ~copied
  <2>1. story'[s] = [story[s] EXCEPT !.state = to]
    BY <1>1, <1>3 DEF Move
  <2> QED
    BY <1>1, <2>1 DEF Story
<1> QED
  BY <1>2, <1>3

LEMMA EnterQuiet ==
  ASSUME Inv, NEW s \in Stories, NEW to \in StoryState, NEW there \in PCs, Enter(s, to, there),
         UNCHANGED <<wiring, iterNum, retryVars>>
  PROVE  /\ Quiet(s)
         /\ \/ pc'[s] = there /\ story'[s].state = to
            \/ pc'[s] = "error" /\ story'[s].state = State(s)
<1>1. story'[s].iterations = story[s].iterations
  <2>1. CASE Can(s, to)
    BY <2>1, MoveQuiet DEF Enter
  <2>2. CASE ~Can(s, to)
    BY <2>2 DEF Enter
  <2> QED
    BY <2>1, <2>2
<1> QED
  BY <1>1, EnterOwn DEF Quiet, State

LEMMA FailQuiet ==
  ASSUME Inv, NEW s \in Stories, NEW there \in PCs, StageFails(s, FALSE, there),
         UNCHANGED <<wiring, iterNum, retryVars>>
  PROVE  Quiet(s) /\ pc'[s] = "returned" /\ story'[s].state = "FAILED"
<1>1. Own(s) /\ pc'[s] = "returned" /\ story'[s].state = "FAILED"
  BY MoveOwn DEF StageFails, Continue, Goto, StoryState, PCs
<1>2. story'[s].iterations = story[s].iterations
  BY MoveQuiet DEF StageFails
<1> QED
  BY <1>1, <1>2 DEF Quiet

\* The steps that only move the story or fail it.
LEMMA EntryBounded ==
  ASSUME Inv, Bounded, NEW s \in Stories,
         \/ Submit(s) \/ EnterPlanning(s) \/ EndLoop(s) \/ Replan(s) \/ EnterReview(s)
         \/ EnterTesting(s) \/ EnterVerification(s)
  PROVE  Bounded'
<1>0. /\ {"ANALYZING", "PLANNING", "REVIEWING", "TESTING", "VERIFYING", "FAILED"} \subseteq StoryState
      /\ {"analyze", "plan", "returned", "replan", "review", "generate_tests", "verify"} \subseteq PCs
  BY DEF StoryState, PCs
<1> USE DEF Before, Middle, After
<1>1. CASE Submit(s)
  <2>1. Enter(s, "ANALYZING", "analyze") /\ UNCHANGED <<wiring, iterNum, retryVars, rebound>> /\ pc[s] = "new"
    BY <1>1 DEF Submit, At
  <2>2. Quiet(s) /\ State(s) = "RECEIVED" /\ pc'[s] \in {"analyze", "error"}
    BY <1>0, <2>1, EnterQuiet DEF Inv, Where, At
  <2> QED
    BY <2>1, <2>2, QuietBounded
<1>2. CASE EnterPlanning(s)
  <2>1. Enter(s, "PLANNING", "plan") /\ UNCHANGED <<wiring, iterNum, retryVars, rebound>> /\ pc[s] = "enter_planning"
    BY <1>2 DEF EnterPlanning, At
  <2>2. Quiet(s) /\ State(s) # "FAILED" /\ pc'[s] \in {"plan", "error"}
    BY <1>0, <2>1, EnterQuiet DEF Inv, Where, At
  <2> QED
    BY <2>1, <2>2, QuietBounded
<1>3. CASE EndLoop(s) \/ Replan(s)
  <2>1. /\ Enter(s, "FAILED", "returned") \/ Enter(s, "PLANNING", "replan")
        /\ UNCHANGED <<wiring, iterNum, retryVars, rebound>> /\ pc[s] = "loop"
    BY <1>3 DEF EndLoop, Replan, At
  <2>2. pc'[s] # "replan"
    BY <1>3, EndLoopInv, ReplanInv DEF Inv, Where
  <2>3. /\ Quiet(s)
        /\ \/ pc'[s] = "returned" /\ story'[s].state = "FAILED"
           \/ pc'[s] = "error" /\ story'[s].state = State(s)
    BY <1>0, <2>1, <2>2, EnterQuiet
  <2> QED
    BY <2>1, <2>3, QuietBounded
<1>4. CASE EnterReview(s)
  <2>1. Enter(s, "REVIEWING", "review") /\ UNCHANGED <<wiring, iterNum, retryVars, rebound>> /\ pc[s] = "enter_review"
    BY <1>4 DEF EnterReview, At
  <2>2. Quiet(s) /\ State(s) # "FAILED" /\ pc'[s] \in {"review", "error"}
    BY <1>0, <2>1, EnterQuiet DEF Inv, Where, At
  <2> QED
    BY <2>1, <2>2, QuietBounded
<1>5. CASE EnterTesting(s)
  <2>1. Enter(s, "TESTING", "generate_tests") /\ UNCHANGED <<wiring, iterNum, retryVars, rebound>> /\ pc[s] = "enter_testing"
    BY <1>5 DEF EnterTesting, At
  <2>2. Quiet(s) /\ State(s) # "FAILED" /\ pc'[s] \in {"generate_tests", "error"}
    BY <1>0, <2>1, EnterQuiet DEF Inv, Where, At
  <2> QED
    BY <2>1, <2>2, QuietBounded
<1>6. CASE EnterVerification(s)
  <2>1. Enter(s, "VERIFYING", "verify") /\ UNCHANGED <<wiring, iterNum, retryVars, rebound>> /\ pc[s] = "enter_verification"
    BY <1>6 DEF EnterVerification, At
  <2>2. Quiet(s) /\ State(s) # "FAILED" /\ pc'[s] \in {"verify", "error"}
    BY <1>0, <2>1, EnterQuiet DEF Inv, Where, At
  <2> QED
    BY <2>1, <2>2, QuietBounded
<1> QED
  BY <1>1, <1>2, <1>3, <1>4, <1>5, <1>6

LEMMA MovingBounded ==
  ASSUME Inv, Bounded, NEW s \in Stories,
         \/ Analyzed(s) \/ StartCoding(s) \/ TestsGenerated(s) \/ TestsRaise(s)
  PROVE  Bounded'
<1>0. /\ {"PLANNING", "CODING", "FAILED"} \subseteq StoryState
      /\ {"enter_planning", "generate", "scan", "returned"} \subseteq PCs
  BY DEF StoryState, PCs
<1> USE DEF Before, Middle, After
<1>1. CASE Analyzed(s)
  <2>1. UNCHANGED <<wiring, iterNum, retryVars, rebound>> /\ pc[s] = "analyze" /\ State(s) = "ANALYZING"
    BY <1>1 DEF Analyzed, At, Inv, Where
  <2>2. CASE Move(s, Copies("analyzer"), "PLANNING") /\ Goto(s, "enter_planning")
    <3>1. Quiet(s) /\ pc'[s] = "enter_planning"
      <4>0. Copies("analyzer") \in BOOLEAN
        BY DEF Copies
      <4>1. Own(s) /\ pc'[s] = "enter_planning"
        BY <1>0, <2>2, <4>0, MoveOwn
      <4>2. story'[s].iterations = story[s].iterations
        BY <2>2, <4>0, MoveQuiet
      <4> QED
        BY <2>1, <4>1, <4>2 DEF Quiet
    <3> QED
      BY <2>1, <3>1, QuietBounded
  <2>3. CASE StageFails(s, FALSE, "enter_planning")
    BY <1>0, <2>1, <2>3, FailQuiet, QuietBounded
  <2> QED
    BY <1>1, <2>2, <2>3 DEF Analyzed
<1>2. CASE StartCoding(s)
  <2>1. UNCHANGED <<wiring, iterNum, retryVars, rebound>> /\ pc[s] = "loop" /\ iterNum[s] <= MaxIterations
    BY <1>2 DEF StartCoding, At
  <2>2. Quiet(s) /\ story'[s].state = "CODING" /\ pc'[s] = "generate"
    <3>1. CASE State(s) = "CODING"
      BY <1>2, <2>1, <3>1 DEF StartCoding, Quiet, Own, Goto, State, Inv, StoryOK, PCs
    <3>2. CASE State(s) # "CODING"
      <4>1. State(s) = "PLANNING" /\ Enter(s, "CODING", "generate")
        BY <1>2, <3>2 DEF StartCoding, Inv, Where, At
      <4>2. Can(s, "CODING")
        BY <4>1, Table DEF Can
      <4> QED
        BY <1>0, <2>1, <4>1, <4>2, EnterOwn, EnterQuiet
    <3> QED
      BY <3>1, <3>2
  <2> QED
    BY <2>1, <2>2, QuietBounded
<1>3. CASE TestsGenerated(s)
  <2>1. UNCHANGED <<wiring, iterNum, retryVars>> /\ pc[s] = "generate_tests" /\ State(s) = "TESTING"
    BY <1>3 DEF TestsGenerated, At, Inv, Where
  <2>2. CASE /\ Goto(s, "run_tests") /\ UNCHANGED <<story, logged>>
             /\ rebound' = [rebound EXCEPT ![s] = Copies("test_generator")]
    <3>1. Quiet(s) /\ pc'[s] = "run_tests"
      BY <2>1, <2>2 DEF Quiet, Own, Goto, Inv, StoryOK, PCs
    <3>2. rebound'[s] = Copies("test_generator") /\ \A t \in Stories \ {s} : rebound'[t] = rebound[t]
      BY <2>2 DEF Inv, StoryOK
    <3> QED
      BY <2>1, <3>1, <3>2, QuietBounded
  <2>3. CASE StageFails(s, FALSE, "scan") /\ UNCHANGED rebound
    BY <1>0, <2>1, <2>3, FailQuiet, QuietBounded
  <2> QED
    BY <1>3, <2>2, <2>3 DEF TestsGenerated
<1>4. CASE TestsRaise(s)
  <2>1. /\ UNCHANGED <<wiring, iterNum, retryVars, rebound>> /\ pc[s] = "run_tests" /\ State(s) = "TESTING"
        /\ StageFails(s, rebound[s], "scan")
    BY <1>4 DEF TestsRaise, At, Inv, Where
  <2>2. CASE rebound[s]
    <3>1. Move(s, TRUE, "FAILED") /\ Goto(s, "scan")
      BY <2>1, <2>2 DEF StageFails, Continue
    <3>2. Quiet(s) /\ pc'[s] = "scan"
      <4>1. Own(s) /\ pc'[s] = "scan"
        BY <1>0, <3>1, MoveOwn DEF Copies
      <4>2. story'[s].iterations = story[s].iterations
        BY <3>1, MoveQuiet DEF Copies
      <4> QED
        BY <2>1, <4>1, <4>2 DEF Quiet
    <3> QED
      BY <2>1, <3>2, QuietBounded
  <2>3. CASE rebound[s] = FALSE
    BY <1>0, <2>1, <2>3, FailQuiet, QuietBounded
  <2> QED
    BY <2>2, <2>3 DEF Inv, StoryOK
<1> QED
  BY <1>1, <1>2, <1>3, <1>4

LEMMA LateBounded ==
  ASSUME Inv, Bounded, NEW s \in Stories,
         \/ EnterDeployment(s) \/ Deployed(s) \/ Verified(s) \/ HandleError(s)
  PROVE  Bounded'
<1>0. /\ {"DEPLOYING", "VERIFYING", "DONE", "FAILED"} \subseteq StoryState
      /\ {"deploy", "returned", "enter_verification"} \subseteq PCs
  BY DEF StoryState, PCs
<1> USE DEF Before, Middle, After
<1>1. CASE EnterDeployment(s)
  <2>1. UNCHANGED <<wiring, iterNum, retryVars, rebound>> /\ pc[s] = "enter_deployment" /\ State(s) = "TESTING"
    BY <1>1 DEF EnterDeployment, At, Inv, Where
  <2>2. ASSUME NEW to \in {"DEPLOYING", "FAILED"}, NEW there \in {"deploy", "returned"}, Enter(s, to, there)
        PROVE  Bounded'
    <3>1. Quiet(s) /\ pc'[s] \in {there, "error"}
      BY <1>0, <2>1, <2>2, EnterQuiet
    <3> QED
      BY <2>1, <3>1, QuietBounded
  <2>3. CASE Goto(s, "enter_verification") /\ UNCHANGED <<story, logged>>
    <3>1. Quiet(s) /\ pc'[s] = "enter_verification"
      BY <2>1, <2>3 DEF Quiet, Own, Goto, Inv, StoryOK, PCs
    <3> QED
      BY <2>1, <3>1, QuietBounded
  <2> QED
    BY <1>1, <2>2, <2>3 DEF EnterDeployment
<1>2. CASE Deployed(s)
  <2>1. UNCHANGED <<wiring, iterNum, retryVars, rebound>> /\ pc[s] = "deploy" /\ State(s) = "DEPLOYING"
    BY <1>2 DEF Deployed, At, Inv, Where
  <2>2. CASE Move(s, Copies("deployer"), "VERIFYING") /\ Goto(s, "enter_verification")
    <3>1. Quiet(s) /\ pc'[s] = "enter_verification"
      <4>0. Copies("deployer") \in BOOLEAN
        BY DEF Copies
      <4>1. Own(s) /\ pc'[s] = "enter_verification"
        BY <1>0, <2>2, <4>0, MoveOwn
      <4>2. story'[s].iterations = story[s].iterations
        BY <2>2, <4>0, MoveQuiet
      <4> QED
        BY <2>1, <4>1, <4>2 DEF Quiet
    <3> QED
      BY <2>1, <3>1, QuietBounded
  <2>3. CASE StageFails(s, FALSE, "enter_verification")
    BY <1>0, <2>1, <2>3, FailQuiet, QuietBounded
  <2> QED
    BY <1>2, <2>2, <2>3 DEF Deployed
<1>3. CASE Verified(s)
  <2>1. UNCHANGED <<wiring, iterNum, retryVars, rebound>> /\ pc[s] = "verify" /\ State(s) = "VERIFYING"
    BY <1>3 DEF Verified, At, Inv, Where
  <2>2. CASE Enter(s, "DONE", "returned")
    <3>1. Quiet(s) /\ pc'[s] \in {"returned", "error"}
      BY <1>0, <2>1, <2>2, EnterQuiet
    <3> QED
      BY <2>1, <3>1, QuietBounded
  <2>3. CASE StageFails(s, FALSE, "returned")
    BY <1>0, <2>1, <2>3, FailQuiet, QuietBounded
  <2> QED
    BY <1>3, <2>2, <2>3 DEF Verified
<1>4. CASE HandleError(s)
  <2>1. UNCHANGED <<wiring, iterNum, retryVars, rebound>>
    BY <1>4 DEF HandleError
  <2>2. Can(s, "FAILED")
    BY <1>4, Table DEF HandleError, Can, Inv, Where
  <2>3. Move(s, FALSE, "FAILED") /\ Goto(s, "returned")
    BY <1>4, <2>2 DEF HandleError
  <2>4. Quiet(s) /\ pc'[s] = "returned" /\ story'[s].state = "FAILED"
    BY <1>0, <2>1, <2>3, MoveOwn, MoveQuiet DEF Quiet
  <2> QED
    BY <2>1, <2>4, QuietBounded
<1> QED
  BY <1>1, <1>2, <1>3, <1>4

\* A step of story s that may count, and file something on its iterations.
LEMMA CountingAlone ==
  ASSUME Inv, NEW s \in Stories, story' = [story EXCEPT ![s] = story'[s]],
         pc' = [pc EXCEPT ![s] = pc'[s]], iterNum' = [iterNum EXCEPT ![s] = iterNum'[s]],
         UNCHANGED <<rebound, retryVars>>
  PROVE  Alone(s)
BY DEF Inv, StoryOK, Alone, retryVars

LEMMA PlannedBounded == ASSUME Inv, Bounded, NEW s \in Stories, Planned(s) PROVE Bounded'
<1>1. pc[s] = "plan" /\ UNCHANGED <<wiring, rebound, retryVars>>
  BY DEF Planned, Inv, Where, At
<1>2. Work(s) /\ Clean(s)
  BY DEF Bounded
<1>3. /\ Len(story[s].iterations) = 0 /\ Len(attempts[s]) = 0
      /\ iterNum' = [iterNum EXCEPT ![s] = 1] /\ iterNum'[s] = 1
  <2>1. Len(story[s].iterations) = 0 /\ Len(attempts[s]) = 0
    BY <1>1, <1>2 DEF Work, Before
  <2>2. iterNum' = [iterNum EXCEPT ![s] = Len(story[s].iterations) + 1] /\ iterNum \in [Stories -> Nat]
    BY DEF Planned, Inv, StoryOK
  <2> QED
    BY <2>1, <2>2
<1>4. Own(s) /\ story'[s].iterations = story[s].iterations /\ pc'[s] \in {"loop", "returned"}
  <2>1. CASE Move(s, Copies("planner"), "CODING") /\ Goto(s, "loop")
    <3>1. Copies("planner") \in BOOLEAN /\ "CODING" \in StoryState /\ "loop" \in PCs
      BY DEF Copies, StoryState, PCs
    <3>2. Own(s) /\ pc'[s] = "loop"
      BY <2>1, <3>1, MoveOwn
    <3>3. story'[s].iterations = story[s].iterations
      BY <2>1, <3>1, MoveQuiet
    <3> QED
      BY <3>2, <3>3
  <2>2. CASE StageFails(s, FALSE, "loop")
    <3>1. Own(s) /\ pc'[s] = "returned"
      BY <2>2, MoveOwn DEF StageFails, Continue, StoryState, PCs
    <3>2. story'[s].iterations = story[s].iterations
      BY <2>2, MoveQuiet DEF StageFails
    <3> QED
      BY <3>1, <3>2
  <2> QED
    BY <1>1, <2>1, <2>2 DEF Planned, At
<1>5. Alone(s)
  BY <1>1, <1>3, <1>4, CountingAlone DEF Own
<1>6. Work(s)'
  BY <1>1, <1>2, <1>3, <1>4, StoryValues DEF Work, Before, Middle, After, retryVars
<1>7. LastPassed(s)'
  BY <1>3, <1>4, StoryValues DEF LastPassed
<1>8. Clean(s)'
  <2>1. wiring'["generator"] # "inplace" => story'[s].iterations = <<>>
    BY <1>3, <1>4, StoryValues
  <2> QED
    BY <1>4, <1>7, <2>1 DEF Clean
<1> QED
  BY <1>1, <1>5, <1>6, <1>8, AloneBounded

\* What a stage files leaves the number of iterations, and all but the last.
LEMMA FiledIs ==
  ASSUME Inv, NEW s \in Stories, NEW c, NEW field \in {"review", "tests"}, NEW v \in VerdictsOf(s, c),
         NEW its, its = WithVerdict(s, c, field, v)
  PROVE  /\ its \in Seq(Iteration) /\ Len(its) = Len(story[s].iterations)
         /\ \A k \in DOMAIN its :
              its[k].tests # story[s].iterations[k].tests =>
                ~Copies(c) /\ field = "tests" /\ its[k].tests = v
<1> DEFINE old == story[s].iterations
<1>1. its \in Seq(Iteration) /\ old \in Seq(Iteration)
  BY VerdictFiled, StoryValues
<1>2. CASE v = "none" \/ Copies(c)
  BY <1>1, <1>2 DEF WithVerdict
<1>3. CASE ~(v = "none" \/ Copies(c))
  <2>1. old # <<>>
    BY <1>3 DEF VerdictsOf
  <2>2. Len(old) \in DOMAIN old /\ old[Len(old)] \in Iteration
    BY <1>1, <2>1
  <2>3. its = [old EXCEPT ![Len(old)] = [old[Len(old)] EXCEPT ![field] = v]]
    BY <1>3, <2>2 DEF WithVerdict
  <2>4. Len(its) = Len(old) /\ \A k \in DOMAIN its : k # Len(old) => its[k] = old[k]
    BY <1>1, <2>2, <2>3
  <2>5. its[Len(old)] = [old[Len(old)] EXCEPT ![field] = v]
    BY <1>1, <2>2, <2>3
  <2>6. CASE field = "review"
    <3>1. its[Len(old)].tests = old[Len(old)].tests
      BY <2>2, <2>5, <2>6 DEF Iteration
    <3> QED
      BY <1>1, <2>4, <3>1
  <2>7. CASE field = "tests"
    <3>1. its[Len(old)].tests = v
      BY <2>2, <2>5, <2>7 DEF Iteration
    <3> QED
      BY <1>1, <1>3, <2>4, <2>7, <3>1
  <2> QED
    BY <2>6, <2>7
<1> QED
  BY <1>2, <1>3

LEMMA GeneratedBounded == ASSUME Inv, Bounded, NEW s \in Stories, Generated(s) PROVE Bounded'
<1>1. pc[s] = "generate" /\ UNCHANGED <<wiring, iterNum, rebound, retryVars>> /\ State(s) = "CODING"
  BY DEF Generated, Inv, Where, At
<1>2. CASE StageFails(s, FALSE, "enter_review")
  <2>1. Quiet(s) /\ pc'[s] = "returned" /\ story'[s].state = "FAILED"
    BY <1>1, <1>2, FailQuiet DEF PCs
  <2> QED
    BY <1>1, <2>1, QuietBounded
<1>3. CASE ~StageFails(s, FALSE, "enter_review")
  <2> DEFINE old == story[s].iterations
  <2>1. PICK e \in GeneratorErrors, keeps \in BOOLEAN :
          /\ story' = [story EXCEPT ![s].state = IF keeps THEN @ ELSE "FAILED",
                                   ![s].iterations =
                                      IF wiring["generator"] # "inplace" THEN old
                                      ELSE Append(old, [review |-> "none", tests |-> "none", error |-> e])]
          /\ Goto(s, IF keeps THEN "enter_review" ELSE "returned")
    BY <1>3 DEF Generated
  <2> DEFINE new == [review |-> "none", tests |-> "none", error |-> e]
             its == IF wiring["generator"] # "inplace" THEN old ELSE Append(old, new)
  <2>2. its \in Seq(Iteration) /\ Len(its) <= Len(old) + 1
    <3>1. new \in Iteration
      BY DEF Iteration, Verdicts
    <3> QED
      BY <3>1, StoryValues
  <2>3. /\ story'[s].iterations = its /\ story' = [story EXCEPT ![s] = story'[s]]
        /\ pc'[s] = (IF keeps THEN "enter_review" ELSE "returned") /\ pc' = [pc EXCEPT ![s] = pc'[s]]
    <3>1. story[s] \in Story /\ story \in [Stories -> Story] /\ pc \in [Stories -> PCs]
      BY DEF Inv, StoryOK
    <3>2. story'[s].iterations = its
      <4> DEFINE st == IF keeps THEN story[s].state ELSE "FAILED"
      <4>1. story'[s] = [story[s] EXCEPT !.state = st, !.iterations = its]
        BY <2>1, <3>1
      <4> QED
        BY <3>1, <4>1 DEF Story
    <3>3. story' = [story EXCEPT ![s] = story'[s]]
      BY <2>1, <3>1
    <3>4. pc'[s] = (IF keeps THEN "enter_review" ELSE "returned") /\ pc' = [pc EXCEPT ![s] = pc'[s]]
      BY <2>1, <3>1 DEF Goto
    <3> QED
      BY <3>2, <3>3, <3>4
  <2>4. Work(s) /\ Clean(s)
    BY DEF Bounded
  <2>5. Work(s)'
    <3>1. Len(old) < iterNum[s] /\ Len(attempts[s]) < iterNum[s] /\ iterNum[s] <= MaxIterations
      BY <1>1, <2>4 DEF Work
    <3>2. Len(its) \in Nat /\ Len(its) <= iterNum[s] /\ Len(its) <= MaxIterations
      BY <2>2, <3>1, StoryValues
    <3> QED
      BY <1>1, <2>3, <2>4, <3>1, <3>2, StoryValues DEF Work, retryVars, Before, Middle, After
  <2>6. Clean(s)'
    <3> SUFFICES ASSUME ~Copies("test_generator"), ~Copies("test_runner") PROVE Clean(s)'
      BY <1>1 DEF Clean, Copies
    <3>1. wiring["generator"] # "inplace" => its = <<>>
      BY <2>1, <2>4 DEF Clean
    <3>2. \A k \in DOMAIN its : k = Len(its) => its[k].tests # "bad"
      <4>1. CASE wiring["generator"] # "inplace"
        BY <3>1, <4>1
      <4>2. CASE wiring["generator"] = "inplace"
        <5>1. new \in Iteration /\ new.tests # "bad"
          BY DEF Iteration, Verdicts
        <5> QED
          BY <4>2, <5>1, StoryValues
      <4> QED
        BY <4>1, <4>2
    <3>3. LastPassed(s)'
      BY <2>3, <3>2 DEF LastPassed
    <3> QED
      BY <1>1, <2>3, <3>1, <3>3 DEF Clean
  <2>7. Alone(s)
    BY <1>1, <2>3 DEF Alone, Inv, StoryOK, retryVars
  <2> QED
    BY <1>1, <2>5, <2>6, <2>7, AloneBounded
<1> QED
  BY <1>2, <1>3

\* What process_story holds after a stage that sets a state and iterations.
LEMMA FieldsSet ==
  ASSUME Inv, NEW s \in Stories, NEW st, NEW its,
         story' = [story EXCEPT ![s].state = st, ![s].iterations = its]
  PROVE  /\ story'[s].iterations = its /\ story'[s].state = st
         /\ story' = [story EXCEPT ![s] = story'[s]]
<1>1. story[s] \in Story /\ story \in [Stories -> Story]
  BY DEF Inv, StoryOK
<1>2. story'[s] = [story[s] EXCEPT !.state = st, !.iterations = its]
  BY <1>1
<1>3. story' = [story EXCEPT ![s] = story'[s]]
  BY <1>1
<1> QED
  BY <1>1, <1>2, <1>3 DEF Story

LEMMA NextStageCounts ==
  ASSUME Inv, NEW s \in Stories, NEW st, NEW there, NextStage(s, st, there)
  PROVE  /\ pc'[s] = IF st = "FAILED" THEN "returned" ELSE IF st = "CODING" THEN "loop" ELSE there
         /\ pc' = [pc EXCEPT ![s] = pc'[s]]
         /\ iterNum'[s] = IF st = "CODING" THEN iterNum[s] + 1 ELSE iterNum[s]
         /\ iterNum' = [iterNum EXCEPT ![s] = iterNum'[s]]
BY DEF NextStage, Goto, Inv, StoryOK

LEMMA ReviewedBounded == ASSUME Inv, Bounded, NEW s \in Stories, Reviewed(s) PROVE Bounded'
<1>1. pc[s] = "review" /\ UNCHANGED <<wiring, rebound, retryVars>> /\ State(s) = "REVIEWING"
  BY DEF Reviewed, Inv, Where, At
<1>2. CASE StageFails(s, FALSE, "enter_testing") /\ UNCHANGED iterNum
  <2>1. Quiet(s) /\ pc'[s] = "returned" /\ story'[s].state = "FAILED"
    BY <1>1, <1>2, FailQuiet DEF PCs
  <2> QED
    BY <1>1, <2>1, QuietBounded
<1>3. ASSUME NEW v \in VerdictsOf(s, "reviewer"), NEW st \in {"CODING", "TESTING", "REVIEWING"},
             story' = [story EXCEPT ![s].state = st,
                                    ![s].iterations = WithVerdict(s, "reviewer", "review", v)],
             NextStage(s, st, "enter_testing")
      PROVE  Bounded'
  <2> DEFINE its == WithVerdict(s, "reviewer", "review", v)
  <2>1. /\ its \in Seq(Iteration) /\ Len(its) = Len(story[s].iterations)
        /\ \A k \in DOMAIN its : its[k].tests = story[s].iterations[k].tests
    BY FiledIs
  <2>2. story'[s].iterations = its /\ story' = [story EXCEPT ![s] = story'[s]]
    BY <1>3, FieldsSet
  <2>3. /\ pc'[s] = (IF st = "CODING" THEN "loop" ELSE "enter_testing")
        /\ pc' = [pc EXCEPT ![s] = pc'[s]]
        /\ iterNum'[s] = (IF st = "CODING" THEN iterNum[s] + 1 ELSE iterNum[s])
        /\ iterNum' = [iterNum EXCEPT ![s] = iterNum'[s]]
    BY <1>3, NextStageCounts
  <2>4. Work(s) /\ Clean(s)
    BY DEF Bounded
  <2>5. Work(s)'
    BY <1>1, <2>1, <2>2, <2>3, <2>4, StoryValues DEF Work, retryVars, Before, Middle, After
  <2>6. Clean(s)'
    <3> SUFFICES ASSUME ~Copies("test_generator"), ~Copies("test_runner") PROVE Clean(s)'
      BY <1>1 DEF Clean, Copies
    <3>1. LastPassed(s) /\ (wiring["generator"] # "inplace" => story[s].iterations = <<>>)
      BY <1>1, <2>4 DEF Clean
    <3>2. LastPassed(s)'
      BY <2>1, <2>2, <3>1, StoryValues DEF LastPassed
    <3>3. wiring'["generator"] # "inplace" => story'[s].iterations = <<>>
      BY <1>1, <2>1, <2>2, <3>1, StoryValues
    <3> QED
      BY <2>3, <3>2, <3>3 DEF Clean
  <2> QED
    BY <1>1, <2>2, <2>3, <2>5, <2>6, AloneBounded, CountingAlone
<1> QED
  BY <1>1, <1>2, <1>3 DEF Reviewed

LEMMA TestsPassedBounded == ASSUME Inv, Bounded, NEW s \in Stories, TestsPassed(s) PROVE Bounded'
<1>1. /\ pc[s] = "run_tests" /\ UNCHANGED <<wiring, iterNum, rebound, retryVars>>
      /\ State(s) = "TESTING" /\ Goto(s, "scan")
  BY DEF TestsPassed, Inv, Where, At
<1>2. PICK v \in VerdictsOf(s, "test_runner") \ {"bad"} :
        story' = IF rebound[s] THEN story
                 ELSE [story EXCEPT ![s].iterations = WithVerdict(s, "test_runner", "tests", v)]
  BY DEF TestsPassed
<1> DEFINE its == IF rebound[s] THEN story[s].iterations ELSE WithVerdict(s, "test_runner", "tests", v)
<1>3. /\ its \in Seq(Iteration) /\ Len(its) = Len(story[s].iterations)
      /\ \A k \in DOMAIN its : its[k].tests \in {story[s].iterations[k].tests, v}
  BY FiledIs, StoryValues
<1>4. story'[s].iterations = its /\ story' = [story EXCEPT ![s] = story'[s]]
  <2>1. story[s] \in Story /\ story \in [Stories -> Story]
    BY DEF Inv, StoryOK
  <2>2. CASE rebound[s]
    BY <1>2, <2>1, <2>2
  <2>3. CASE ~rebound[s]
    <3>1. story'[s] = [story[s] EXCEPT !.iterations = its]
      BY <1>2, <2>1, <2>3
    <3>2. story'[s].iterations = its
      BY <2>1, <3>1 DEF Story
    <3>3. story' = [story EXCEPT ![s] = story'[s]]
      BY <1>2, <2>1, <2>3
    <3> QED
      BY <3>2, <3>3
  <2> QED
    BY <2>2, <2>3
<1>5. Work(s) /\ Clean(s)
  BY DEF Bounded
<1>6. pc'[s] = "scan" /\ pc' = [pc EXCEPT ![s] = pc'[s]]
  BY <1>1 DEF Goto, Inv, StoryOK
<1>7. Work(s)'
  BY <1>1, <1>3, <1>4, <1>5, <1>6, StoryValues DEF Work, retryVars, Before, Middle, After
<1>8. Clean(s)'
  <2> SUFFICES ASSUME ~Copies("test_generator"), ~Copies("test_runner") PROVE Clean(s)'
    BY <1>1 DEF Clean, Copies
  <2>1. LastPassed(s) /\ (wiring["generator"] # "inplace" => story[s].iterations = <<>>)
    BY <1>1, <1>5 DEF Clean
  <2>2. LastPassed(s)'
    BY <1>2, <1>3, <1>4, <2>1, StoryValues DEF LastPassed
  <2>3. wiring'["generator"] # "inplace" => story'[s].iterations = <<>>
    BY <1>1, <1>3, <1>4, <2>1, StoryValues
  <2> QED
    BY <1>6, <2>2, <2>3 DEF Clean
<1>9. Alone(s)
  BY <1>1, <1>4, <1>6 DEF Alone, Inv, StoryOK, retryVars
<1> QED
  BY <1>1, <1>7, <1>8, <1>9, AloneBounded

\* The policy counts a failure it allows: the run of failures is the list.
LEMMA FailureCounted ==
  ASSUME Inv, NEW s \in Stories, NEW fp \in Fingerprints, Retry!ShouldRetry(s),
         Retry!RecordFailure(s, fp), Len(attempts[s]) = breaker[s].consecutive
  PROVE  /\ Len(attempts'[s]) = Len(attempts[s]) + 1
         /\ Len(attempts'[s]) = breaker'[s].consecutive
         /\ Len(attempts'[s]) <= MaxRetries /\ Len(attempts'[s]) <= RetryThreshold
         /\ \A t \in Stories \ {s} : attempts'[t] = attempts[t] /\ breaker'[t] = breaker[t]
<1>1. /\ attempts \in [Stories -> Seq(RetryFacts!Attempt)]
      /\ breaker \in [Stories -> RetryFacts!Breaker]
      /\ breaker[s].broken <=> breaker[s].consecutive >= RetryThreshold
  BY DEF Inv, SharedOK, RetryFacts!Inv, RetryFacts!RetryTypeOK, RetryFacts!BreakerAgreesWithAttempts
<1>2. RetryFacts!RecordAttempt(s, FALSE, fp)
  BY RecordIsOwn DEF RetryFacts!RecordFailure
<1>3. PICK a : attempts' = [attempts EXCEPT ![s] = Append(attempts[s], a)]
  BY <1>2 DEF RetryFacts!RecordAttempt
<1>4. breaker' = [breaker EXCEPT ![s] = RetryFacts!AfterFailure(breaker[s], fp)]
  BY <1>2 DEF RetryFacts!RecordAttempt
<1>5. Len(attempts'[s]) = Len(attempts[s]) + 1
  <2>1. attempts[s] \in Seq(RetryFacts!Attempt) /\ attempts'[s] = Append(attempts[s], a)
    BY <1>1, <1>3
  <2> QED
    BY <2>1
<1>6. breaker'[s].consecutive = breaker[s].consecutive + 1
  BY <1>1, <1>4 DEF RetryFacts!AfterFailure, RetryFacts!Breaker
<1>7. Len(attempts[s]) < MaxRetries /\ breaker[s].consecutive < RetryThreshold
  BY <1>1 DEF Retry!ShouldRetry, RetryFacts!Breaker
<1>8. \A t \in Stories \ {s} : attempts'[t] = attempts[t] /\ breaker'[t] = breaker[t]
  BY <1>1, <1>3, <1>4
<1>9. Len(attempts'[s]) <= MaxRetries /\ Len(attempts'[s]) <= RetryThreshold
  <2>1. Len(attempts[s]) \in Nat
    BY StoryValues
  <2> QED
    BY <1>5, <1>7, <2>1
<1> QED
  BY <1>5, <1>6, <1>8, <1>9

LEMMA TestsFailedBounded == ASSUME Inv, Bounded, NEW s \in Stories, TestsFailed(s) PROVE Bounded'
<1> DEFINE copied == rebound[s] \/ Copies("test_runner")
           its == IF copied THEN story[s].iterations ELSE WithVerdict(s, "test_runner", "tests", "bad")
<1>1. /\ pc[s] = "run_tests" /\ UNCHANGED <<wiring, rebound>> /\ State(s) = "TESTING"
      /\ "bad" \in VerdictsOf(s, "test_runner")
  BY DEF TestsFailed, Inv, Where, At
<1>2. PICK to \in {"CODING", "FAILED"} :
        LET st == IF copied THEN State(s) ELSE to
        IN  /\ story' = [story EXCEPT ![s].state = st,
                                      ![s].iterations = IF copied THEN @ ELSE
                                         WithVerdict(s, "test_runner", "tests", "bad")]
            /\ NextStage(s, st, "scan")
  BY DEF TestsFailed
<1> DEFINE st == IF copied THEN State(s) ELSE to
<1>3. /\ story'[s].iterations = its /\ story'[s].state = st
      /\ story' = [story EXCEPT ![s] = story'[s]]
  <2>1. story' = [story EXCEPT ![s].state = st, ![s].iterations = its]
    BY <1>2
  <2> HIDE DEF st, its
  <2> QED
    BY <2>1, FieldsSet
<1>4. its \in Seq(Iteration) /\ Len(its) = Len(story[s].iterations)
  BY <1>1, FiledIs, StoryValues
<1>5. /\ pc'[s] = IF st = "FAILED" THEN "returned" ELSE IF st = "CODING" THEN "loop" ELSE "scan"
      /\ pc' = [pc EXCEPT ![s] = pc'[s]]
      /\ iterNum'[s] = IF st = "CODING" THEN iterNum[s] + 1 ELSE iterNum[s]
      /\ iterNum' = [iterNum EXCEPT ![s] = iterNum'[s]]
  BY <1>2, NextStageCounts
<1>6. Work(s) /\ Clean(s)
  BY DEF Bounded
<1>7. /\ Len(attempts'[s]) \in {Len(attempts[s]), Len(attempts[s]) + 1}
      /\ Len(attempts'[s]) = breaker'[s].consecutive
      /\ Len(attempts'[s]) <= MaxRetries /\ Len(attempts'[s]) <= RetryThreshold
      /\ \A t \in Stories \ {s} : attempts'[t] = attempts[t] /\ breaker'[t] = breaker[t]
  <2>1. /\ Len(attempts[s]) = breaker[s].consecutive
        /\ Len(attempts[s]) <= MaxRetries /\ Len(attempts[s]) <= RetryThreshold
    BY <1>6 DEF Work
  <2>2. CASE UNCHANGED retryVars
    BY <2>1, <2>2 DEF retryVars
  <2>3. ASSUME NEW fp \in Fingerprints, Retry!ShouldRetry(s), Retry!RecordFailure(s, fp)
        PROVE  /\ Len(attempts'[s]) \in {Len(attempts[s]), Len(attempts[s]) + 1}
               /\ Len(attempts'[s]) = breaker'[s].consecutive
               /\ Len(attempts'[s]) <= MaxRetries /\ Len(attempts'[s]) <= RetryThreshold
               /\ \A t \in Stories \ {s} : attempts'[t] = attempts[t] /\ breaker'[t] = breaker[t]
    BY <2>1, <2>3, FailureCounted
  <2>4. \/ UNCHANGED retryVars
        \/ Retry!ShouldRetry(s) /\ \E fp \in Fingerprints : Retry!RecordFailure(s, fp)
    BY DEF TestsFailed
  <2> QED
    BY <2>2, <2>3, <2>4
<1>8. Work(s)'
  <2>1. /\ Len(story[s].iterations) <= iterNum[s] /\ Len(attempts[s]) < iterNum[s]
        /\ iterNum[s] <= MaxIterations
    BY <1>1, <1>6 DEF Work, Middle
  <2> HIDE DEF st, its
  <2>2. /\ Len(its) \in Nat /\ Len(attempts[s]) \in Nat /\ Len(attempts'[s]) \in Nat
        /\ iterNum'[s] \in Nat /\ iterNum[s] <= iterNum'[s]
        /\ Len(its) <= iterNum'[s] /\ Len(its) <= MaxIterations /\ Len(attempts'[s]) <= iterNum'[s]
    <3>1. Len(attempts[s]) \in Nat /\ Len(story[s].iterations) \in Nat /\ iterNum[s] \in Nat
      BY StoryValues
    <3>2. iterNum'[s] \in Nat /\ iterNum[s] <= iterNum'[s]
      BY <1>5, <3>1
    <3>3. Len(its) = Len(story[s].iterations)
      BY <1>4
    <3>4. Len(attempts'[s]) = Len(attempts[s]) \/ Len(attempts'[s]) = Len(attempts[s]) + 1
      BY <1>7
    <3>5. Len(its) <= iterNum'[s] /\ Len(its) <= MaxIterations
      BY <2>1, <3>1, <3>2, <3>3
    <3>6. Len(attempts'[s]) \in Nat /\ Len(attempts'[s]) <= iterNum'[s]
      BY <2>1, <3>1, <3>2, <3>4
    <3> QED
      BY <3>1, <3>2, <3>3, <3>5, <3>6
  <2>3. CASE st = "FAILED"
    BY <1>3, <1>5, <1>7, <2>2, <2>3 DEF Work, Before, Middle, After
  <2>4. CASE st = "CODING"
    <3>1. pc'[s] = "loop" /\ iterNum'[s] = iterNum[s] + 1
      BY <1>5, <2>4
    <3>2. Len(its) < iterNum'[s] /\ Len(attempts'[s]) < iterNum'[s] /\ iterNum'[s] <= MaxIterations + 1
      <4>1. iterNum[s] \in Nat /\ Len(story[s].iterations) \in Nat
        BY StoryValues
      <4>2. Len(its) < iterNum'[s]
        BY <1>4, <2>1, <3>1, <4>1
      <4>3. Len(attempts'[s]) < iterNum'[s]
        <5>1. Len(attempts'[s]) = Len(attempts[s]) \/ Len(attempts'[s]) = Len(attempts[s]) + 1
          BY <1>7
        <5>2. Len(attempts[s]) \in Nat
          BY StoryValues
        <5>3. CASE Len(attempts'[s]) = Len(attempts[s])
          BY <2>1, <3>1, <4>1, <5>2, <5>3
        <5>4. CASE Len(attempts'[s]) = Len(attempts[s]) + 1
          BY <2>1, <3>1, <4>1, <5>2, <5>4
        <5> QED
          BY <5>1, <5>3, <5>4
      <4>4. iterNum'[s] <= MaxIterations + 1
        BY <2>1, <3>1, <4>1
      <4> QED
        BY <4>2, <4>3, <4>4
    <3> QED
      BY <1>3, <1>7, <2>2, <3>1, <3>2 DEF Work, Before, Middle, After
  <2>5. CASE st = "TESTING"
    <3>1. pc'[s] = "scan" /\ iterNum'[s] = iterNum[s]
      BY <1>5, <2>5
    <3> QED
      BY <1>3, <1>7, <2>1, <2>2, <3>1 DEF Work, Before, Middle, After
  <2> USE DEF st
  <2> QED
    BY <1>1, <2>3, <2>4, <2>5
<1>9. Clean(s)'
  <2> SUFFICES ASSUME ~Copies("test_generator"), ~Copies("test_runner") PROVE Clean(s)'
    BY <1>1 DEF Clean, Copies
  <2>1. ~rebound[s] /\ (wiring["generator"] # "inplace" => story[s].iterations = <<>>)
    BY <1>1, <1>6 DEF Clean
  <2>2. /\ \/ State(s)' = "CODING" /\ pc'[s] = "loop"
           \/ State(s)' = "FAILED" /\ pc'[s] = "returned"
    BY <1>3, <1>5, <2>1 DEF State
  <2>3. wiring'["generator"] # "inplace" => story'[s].iterations = <<>>
    BY <1>1, <1>3, <1>4, <2>1, StoryValues
  <2> QED
    BY <2>2, <2>3 DEF Clean
<1>10. Alone(s)
  BY <1>1, <1>3, <1>5, <1>7 DEF Alone, Inv, StoryOK
<1> QED
  BY <1>1, <1>8, <1>9, <1>10, AloneBounded

\* The security scan and the quality gates send a story back to the loop,
\* fail it, or leave it as it is.
LEMMA ChecksBounded ==
  ASSUME Inv, Bounded, NEW s \in Stories, Scanned(s) \/ QualityChecked(s)
  PROVE  Bounded'
<1>1. /\ pc[s] \in {"scan", "quality"} /\ UNCHANGED <<wiring, rebound, retryVars>>
      /\ State(s) \in {"TESTING", "FAILED"}
  BY DEF Scanned, QualityChecked, Inv, Where, At
<1>2. PICK gate \in {"scan", "quality"},
           field \in {"security_scan_result", "quality_gate_result"}, good \in BOOLEAN,
           there \in {"quality", "enter_deployment"}, failed \in {"quality", "returned"} :
        ActOn(s, gate, field, good, there, failed)
  <2>1. CASE Scanned(s)
    <3>1. PICK good \in BOOLEAN : ActOn(s, "scan", "security_scan_result", good, "quality", "quality")
      BY <2>1 DEF Scanned
    <3> QED
      BY <3>1
  <2>2. CASE QualityChecked(s)
    <3>1. PICK good \in BOOLEAN :
            ActOn(s, "quality", "quality_gate_result", good, "enter_deployment", "returned")
      BY <2>2 DEF QualityChecked
    <3> QED
      BY <3>1
  <2> QED
    BY <2>1, <2>2
<1> DEFINE to == IF Retry!ShouldRetry(s) THEN "CODING" ELSE "FAILED"
           st == IF ~good /\ IsHeeded(s, field) /\ Can(s, to) THEN to ELSE State(s)
<1>3. /\ iterNum'[s] = IF st = "CODING" THEN iterNum[s] + 1 ELSE iterNum[s]
      /\ iterNum' = [iterNum EXCEPT ![s] = iterNum'[s]]
  <2>1. iterNum' = [iterNum EXCEPT ![s] = IF st = "CODING" THEN @ + 1 ELSE @]
    BY <1>2 DEF ActOn
  <2>2. iterNum \in [Stories -> Nat]
    BY DEF Inv, StoryOK
  <2> QED
    BY <2>1, <2>2
<1>4. /\ pc'[s] = IF st = "CODING" THEN "loop" ELSE IF st = "FAILED" THEN failed ELSE there
      /\ pc' = [pc EXCEPT ![s] = pc'[s]]
  <2>1. Goto(s, IF st = "CODING" THEN "loop" ELSE IF st = "FAILED" THEN failed ELSE there)
    BY <1>2 DEF ActOn
  <2>2. pc \in [Stories -> PCs]
    BY DEF Inv, StoryOK
  <2> QED
    BY <2>1, <2>2 DEF Goto
<1>5. /\ story'[s].iterations = story[s].iterations /\ story'[s].state = st
      /\ story' = [story EXCEPT ![s] = story'[s]]
  <2>1. CASE st = State(s)
    <3>1. story' = story
      BY <1>2, <2>1 DEF ActOn
    <3> QED
      BY <2>1, <3>1 DEF State, Inv, StoryOK
  <2>2. CASE st # State(s)
    <3>1. Move(s, FALSE, st)
      BY <1>2, <2>2 DEF ActOn
    <3>2. story[s] \in Story /\ story \in [Stories -> Story]
      BY DEF Inv, StoryOK
    <3>3. story'[s] = [story[s] EXCEPT !.state = st] /\ story' = [story EXCEPT ![s] = story'[s]]
      BY <3>1, <3>2 DEF Move
    <3> HIDE DEF st
    <3> QED
      BY <3>2, <3>3 DEF Story
  <2> QED
    BY <2>1, <2>2
<1>6. st \in {"TESTING", "CODING", "FAILED"} /\ (State(s) = "FAILED" => st = "FAILED")
  BY <1>1, Table DEF Can
<1> HIDE DEF st
<1>7. Work(s) /\ Clean(s)
  BY DEF Bounded
<1>8. Work(s)'
  <2>1. /\ Len(story[s].iterations) <= iterNum[s] /\ Len(attempts[s]) <= iterNum[s]
        /\ iterNum[s] <= MaxIterations
    BY <1>1, <1>7 DEF Work, After
  <2>2. Len(story[s].iterations) \in Nat /\ Len(attempts[s]) \in Nat /\ iterNum[s] \in Nat
    BY StoryValues
  <2>3. CASE st = "CODING"
    <3>1. pc'[s] = "loop" /\ iterNum'[s] = iterNum[s] + 1
      BY <1>3, <1>4, <2>3
    <3> QED
      BY <1>1, <1>5, <1>7, <2>1, <2>2, <3>1 DEF Work, retryVars, Before, Middle, After
  <2>4. CASE st # "CODING"
    <3>1. pc'[s] \in After \cup {"returned"} /\ iterNum'[s] = iterNum[s]
      BY <1>2, <1>3, <1>4, <2>4 DEF After
    <3> QED
      BY <1>1, <1>5, <1>7, <2>1, <2>2, <3>1 DEF Work, retryVars, Before, Middle, After
  <2> QED
    BY <2>3, <2>4
<1>9. Clean(s)'
  <2> SUFFICES ASSUME ~Copies("test_generator"), ~Copies("test_runner") PROVE Clean(s)'
    BY <1>1 DEF Clean, Copies
  <2>1. /\ LastPassed(s) \/ State(s) = "FAILED"
        /\ wiring["generator"] # "inplace" => story[s].iterations = <<>>
    BY <1>1, <1>7 DEF Clean
  <2>2. LastPassed(s)' \/ State(s)' = "FAILED"
    BY <1>5, <1>6, <2>1 DEF LastPassed, State
  <2>3. wiring'["generator"] # "inplace" => story'[s].iterations = <<>>
    BY <1>1, <1>5, <2>1
  <2>4. pc'[s] # "run_tests"
    BY <1>2, <1>4
  <2> QED
    BY <2>2, <2>3, <2>4 DEF Clean
<1> QED
  BY <1>1, <1>3, <1>4, <1>5, <1>8, <1>9, AloneBounded, CountingAlone

LEMMA StartsBounded == Init => Bounded
<1> SUFFICES ASSUME Init, NEW s \in Stories PROVE Work(s) /\ Clean(s)
  BY DEF Bounded
<1>1. /\ story[s].iterations = <<>> /\ iterNum[s] = 0 /\ pc[s] = "new"
      /\ attempts[s] = <<>> /\ breaker[s].consecutive = 0
  BY DEF Init, Retry!RetryInit, Retry!NewBreaker
<1>2. Len(<<>>) = 0 /\ \A k \in DOMAIN <<>> : FALSE
  OBVIOUS
<1>3. Work(s)
  BY <1>1, <1>2 DEF Work, Before, Middle, After
<1>4. LastPassed(s)
  BY <1>1, <1>2 DEF LastPassed
<1> QED
  BY <1>1, <1>3, <1>4 DEF Clean

LEMMA KeepsBounded == Inv /\ Bounded /\ [Next]_vars => Bounded'
<1> SUFFICES ASSUME Inv, Bounded, [Next]_vars PROVE Bounded'
  OBVIOUS
<1>1. ASSUME NEW s \in Stories, Step(s) PROVE Bounded'
  BY <1>1, EntryBounded, MovingBounded, PlannedBounded, GeneratedBounded, ReviewedBounded,
     TestsPassedBounded, TestsFailedBounded, ChecksBounded, LateBounded, Zenon DEF Step
<1>2. CASE UNCHANGED <<wiring, storyVars, retryVars>>
  BY <1>2 DEF storyVars, retryVars, Bounded, Work, Clean, LastPassed, State, Copies
<1> QED
  BY <1>1, <1>2 DEF Next, Person, vars

LEMMA BoundedInvariance == Spec => []Bounded
  BY Invariance, StartsBounded, KeepsBounded, PTL DEF Spec

\* Whatever the components answer and however many stories run at once, no
\* story is generated more often than configured, and no more failures are
\* recorded for it than it had iterations, or than the policy allows.
THEOREM WorkIsBounded == Spec => []BoundedWork
<1>1. Bounded => BoundedWork
  BY DEF Bounded, Work, BoundedWork
<1> QED
  BY <1>1, BoundedInvariance, PTL

\* A story is not deployed on an iteration whose tests failed, for any number
\* of rounds, any retry limits and any other components.
THEOREM DeployedIsTested == Spec => []DeployedCodePassedTests
<1>1. Bounded => DeployedCodePassedTests
  BY DEF Bounded, Clean, LastPassed, DeployedCodePassedTests, InDeployment
<1> QED
  BY <1>1, BoundedInvariance, PTL
=============================================================================
