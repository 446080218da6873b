---------------------------- MODULE StoryService ----------------------------
(***************************************************************************)
(* What the orchestrator promises about a story, with none of its stages:  *)
(* a submitted story is worked on until it is given up or released, it is  *)
(* released only while the deployment gate lets it pass, a released story  *)
(* is never worked on again, and it ends done or failed.  The gate belongs *)
(* to the people who decide: it may change at any time.                    *)
(***************************************************************************)
CONSTANT Stories

VARIABLES phase,   \* where each story is
          gate     \* what the deployment gate of each story answers

vars == <<phase, gate>>

Phases == {"waiting", "open", "released", "done", "failed"}
Answers == {"PASS", "BLOCKED", "PENDING"}

Init == /\ phase = [s \in Stories |-> "waiting"]
        /\ gate \in [Stories -> Answers]

Become(s, from, to) == phase[s] = from /\ phase' = [phase EXCEPT ![s] = to]

Accept(s)  == Become(s, "waiting", "open") /\ UNCHANGED gate
GiveUp(s)  == Become(s, "open", "failed") /\ UNCHANGED gate
Release(s) == gate[s] = "PASS" /\ Become(s, "open", "released") /\ UNCHANGED gate
Complete(s) == Become(s, "released", "done") /\ UNCHANGED gate
Abort(s)   == Become(s, "released", "failed") /\ UNCHANGED gate

Decide(s) == /\ \E a \in Answers : gate' = [gate EXCEPT ![s] = a]
             /\ UNCHANGED phase

Next == \E s \in Stories : \/ Accept(s) \/ GiveUp(s) \/ Release(s)
                           \/ Complete(s) \/ Abort(s) \/ Decide(s)

Spec == Init /\ [][Next]_vars
=============================================================================
