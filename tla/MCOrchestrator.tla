--------------------------- MODULE MCOrchestrator ---------------------------
(***************************************************************************)
(* Instances of the orchestrator.  The wirings a run starts from are the   *)
(* shipped one and the smallest changes of it that open the later stages.  *)
(***************************************************************************)
EXTENDS Orchestrator, TLC

CONSTANTS s1, s2

Shipped == [c \in Components |-> "inplace"]
NoComponents == [c \in Components |-> "absent"]

Copying(S) == [c \in Components |-> IF c \in S THEN "copy" ELSE "inplace"]
Without(S, w) == [c \in Components |-> IF c \in S THEN "absent" ELSE w[c]]

\* The wiring under which the loop, the deployment and DONE can be reached.
Working == Copying({"analyzer", "reviewer", "deployer"})

EarlyWirings == { Shipped, NoComponents, Copying({"analyzer"}), Copying({"analyzer", "generator"}) }

LateWirings == { Working, Copying({"analyzer", "planner", "reviewer"}),
                 Copying({"analyzer", "reviewer", "deployer", "test_generator"}),
                 Copying({"analyzer", "reviewer", "deployer", "test_runner"}),
                 Without({"generator"}, Working),
                 Without({"security_scanner", "quality_gate_engine", "test_generator"}, Working) }

AllWirings == EarlyWirings \cup LateWirings
OnlyWorking == {Working}
NoChecks == {Without({"test_generator", "test_runner", "security_scanner", "quality_gate_engine"}, Working)}
OnlyNoComponents == {NoComponents}

OneStory == {s1}
TwoStories == {s1, s2}
OneFingerprint == {"f"}
NoErrors == {NoContext}
SomeErrors == {NoContext, Unclassified, "f"}
=============================================================================
