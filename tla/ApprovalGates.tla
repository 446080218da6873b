--------------------------- MODULE ApprovalGates ---------------------------
(***************************************************************************)
(* orchestrator/approval_gate.py, ApprovalGateManager: the gates a story   *)
(* must pass, the approvals it waits for, and the decisions people made.   *)
(* check_gate is called by the orchestrator, approve, reject and the clear *)
(* methods by whoever holds the manager, in any order: a decision may come *)
(* before the gate is ever checked, and may be replaced later.             *)
(***************************************************************************)
CONSTANTS Stories,        \* story ids
          Gates,          \* VALID_GATES: check_gate raises on any other name
          EnabledGates    \* gates set to true in safety_config.approval_gates

ASSUME GatesAssumption == EnabledGates \subseteq Gates

VARIABLES pending,     \* keys of _pending_approvals
          decision     \* _decisions: "none", "approved" or "rejected" per key

gateVars == <<pending, decision>>

GateKeys == Stories \X Gates

GatesTypeOK == /\ pending \subseteq GateKeys
               /\ decision \in [GateKeys -> {"none", "approved", "rejected"}]

GatesInit == /\ pending = {}
             /\ decision = [k \in GateKeys |-> "none"]

\* check_gate: what it answers, and the pending approval it creates the
\* first time it meets an enabled gate nobody has decided.
GateStatus(s, g) ==
  IF g \notin EnabledGates \/ decision[<<s, g>>] = "approved" THEN "PASS"
  ELSE IF decision[<<s, g>>] = "rejected" THEN "BLOCKED" ELSE "PENDING"

\* Mutant of CheckGate: asks also when decided.
CheckGate_Always(s, g) ==
  /\ pending' = pending \cup {<<s, g>>}
  /\ UNCHANGED decision

CheckGate(s, g) ==
  /\ pending' = IF GateStatus(s, g) = "PENDING" THEN pending \cup {<<s, g>>} ELSE pending
  /\ UNCHANGED decision

\* Mutant of Decide: the pending approval stays.
Decide_KeepPending(s, g, d) ==
  /\ decision' = [decision EXCEPT ![<<s, g>>] = d]
  /\ UNCHANGED pending

\* approve and reject: record the decision, drop the pending approval.  They
\* neither require one nor check that the gate exists or is enabled.
Decide(s, g, d) ==
  /\ decision' = [decision EXCEPT ![<<s, g>>] = d]
  /\ pending' = pending \ {<<s, g>>}

Approve(s, g) == Decide(s, g, "approved")
Reject(s, g) == Decide(s, g, "rejected")

\* clear_pending: the approval is withdrawn, the next check asks again.
ClearPending(s, g) ==
  /\ pending' = pending \ {<<s, g>>}
  /\ UNCHANGED decision

\* Mutant of ClearAllForStory: clears every story.
ClearAllForStory_Everyone(s) ==
  /\ pending' = {}
  /\ decision' = [k \in GateKeys |-> "none"]

\* clear_all_for_story.
ClearAllForStory(s) ==
  /\ pending' = {k \in pending : k[1] # s}
  /\ decision' = [k \in GateKeys |-> IF k[1] = s THEN "none" ELSE decision[k]]

GatesNext ==
  \/ \E s \in Stories, g \in Gates :
       CheckGate(s, g) \/ Approve(s, g) \/ Reject(s, g) \/ ClearPending(s, g)
  \/ \E s \in Stories : ClearAllForStory(s)

GatesSpec == GatesInit /\ [][GatesNext]_gateVars
-----------------------------------------------------------------------------
\* Nobody is asked for an approval that was already given or refused, nor
\* for a gate that is switched off.
PendingIsUndecided ==
  \A s \in Stories, g \in Gates :
    <<s, g>> \in pending => GateStatus(s, g) = "PENDING"

\* One story's approval never opens or shuts another story's gate, and an
\* answered gate asks again only when the whole slate of that story is clean:
\* no decision and no pending approval of it is left over.
AnswerIsOwn ==
  [][ \A s \in Stories, g \in Gates : GateStatus(s, g)' # GateStatus(s, g) =>
        /\ \A t \in Stories \ {s}, h \in Gates : GateStatus(t, h)' = GateStatus(t, h)
        /\ GateStatus(s, g)' = "PENDING" =>
             \A h \in Gates : decision'[<<s, h>>] = "none" /\ <<s, h>> \notin pending' ]_gateVars
=============================================================================
