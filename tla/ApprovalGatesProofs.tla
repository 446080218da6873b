------------------------ MODULE ApprovalGatesProofs ------------------------
(***************************************************************************)
(* PendingIsUndecided and AnswerIsOwn for any stories and gates.  The type *)
(* invariant and PendingIsUndecided together are inductive: the only       *)
(* action that adds a pending approval is CheckGate, and it does so when   *)
(* the gate answers PENDING; every action that changes a decision takes    *)
(* the pending approvals it concerns away.                                 *)
(***************************************************************************)
EXTENDS ApprovalGates, TLAPS

Inv == GatesTypeOK /\ PendingIsUndecided

USE GatesAssumption DEF GateKeys

LEMMA InitInv == GatesInit => Inv
  BY DEF GatesInit, Inv, GatesTypeOK, PendingIsUndecided

LEMMA CheckGateInv ==
  ASSUME Inv, NEW s \in Stories, NEW g \in Gates, CheckGate(s, g)
  PROVE  Inv'
  BY DEF Inv, GatesTypeOK, PendingIsUndecided, CheckGate, GateStatus

LEMMA DecideInv ==
  ASSUME Inv, NEW s \in Stories, NEW g \in Gates,
         NEW d \in {"approved", "rejected"}, Decide(s, g, d)
  PROVE  Inv'
  BY DEF Inv, GatesTypeOK, PendingIsUndecided, Decide, GateStatus

LEMMA ClearInv ==
  ASSUME Inv, NEW s \in Stories,
         ClearAllForStory(s) \/ \E g \in Gates : ClearPending(s, g)
  PROVE  Inv'
  BY DEF Inv, GatesTypeOK, PendingIsUndecided, ClearAllForStory, ClearPending, GateStatus

LEMMA NextInv == Inv /\ [GatesNext]_gateVars => Inv'
<1> SUFFICES ASSUME Inv, [GatesNext]_gateVars PROVE Inv'
  OBVIOUS
<1>1. ASSUME NEW s \in Stories, NEW g \in Gates, CheckGate(s, g) PROVE Inv'
  BY <1>1, CheckGateInv
<1>2. ASSUME NEW s \in Stories, NEW g \in Gates, Approve(s, g) \/ Reject(s, g) PROVE Inv'
  BY <1>2, DecideInv DEF Approve, Reject
<1>3. ASSUME NEW s \in Stories, NEW g \in Gates, ClearPending(s, g) PROVE Inv'
  BY <1>3, ClearInv
<1>4. ASSUME NEW s \in Stories, ClearAllForStory(s) PROVE Inv'
  BY <1>4, ClearInv
<1>5. CASE UNCHANGED gateVars
  BY <1>5 DEF gateVars, Inv, GatesTypeOK, PendingIsUndecided, GateStatus
<1> QED
  BY <1>1, <1>2, <1>3, <1>4, <1>5 DEF GatesNext

\* Every key and decision is of its kind, in every reachable state.
THEOREM GatesTypeCorrect == GatesSpec => []GatesTypeOK
<1>1. Inv => GatesTypeOK
  BY DEF Inv
<1> QED
  BY InitInv, NextInv, <1>1, PTL DEF GatesSpec

\* No approval is asked for a decided or disabled gate, for any number of
\* stories and gates and whichever gates are enabled.
THEOREM PendingUndecided == GatesSpec => []PendingIsUndecided
<1>1. Inv => PendingIsUndecided
  BY DEF Inv
<1> QED
  BY InitInv, NextInv, <1>1, PTL DEF GatesSpec
-----------------------------------------------------------------------------
\* AnswerIsOwn without its box.
OwnAnswer ==
  \A s \in Stories, g \in Gates : GateStatus(s, g)' # GateStatus(s, g) =>
    /\ \A t \in Stories \ {s}, h \in Gates : GateStatus(t, h)' = GateStatus(t, h)
    /\ GateStatus(s, g)' = "PENDING" =>
         \A h \in Gates : decision'[<<s, h>>] = "none" /\ <<s, h>> \notin pending'

LEMMA NextOwnAnswer == Inv /\ [GatesNext]_gateVars => [OwnAnswer]_gateVars
<1> SUFFICES ASSUME Inv, GatesNext PROVE OwnAnswer
  BY DEF gateVars
<1>1. ASSUME NEW s \in Stories, NEW g \in Gates, CheckGate(s, g) \/ ClearPending(s, g)
      PROVE  OwnAnswer
  BY <1>1 DEF OwnAnswer, CheckGate, ClearPending, GateStatus
<1>2. ASSUME NEW s \in Stories, NEW g \in Gates,
             NEW d \in {"approved", "rejected"}, Decide(s, g, d)
      PROVE  OwnAnswer
  BY <1>2 DEF OwnAnswer, Decide, GateStatus, Inv, GatesTypeOK
<1>3. ASSUME NEW s \in Stories, ClearAllForStory(s) PROVE OwnAnswer
  BY <1>3 DEF OwnAnswer, ClearAllForStory, GateStatus, Inv, GatesTypeOK
<1> QED
  BY <1>1, <1>2, <1>3 DEF GatesNext, Approve, Reject

\* One story's approvals never answer for another's, for any number of
\* stories and gates.
THEOREM AnswersAreOwn == GatesSpec => AnswerIsOwn
<1>1. [OwnAnswer]_gateVars <=>
      [ \A s \in Stories, g \in Gates : GateStatus(s, g)' # GateStatus(s, g) =>
          /\ \A t \in Stories \ {s}, h \in Gates : GateStatus(t, h)' = GateStatus(t, h)
          /\ GateStatus(s, g)' = "PENDING" =>
               \A h \in Gates : decision'[<<s, h>>] = "none" /\ <<s, h>> \notin pending' ]_gateVars
  BY DEF OwnAnswer
<1> QED
  BY InitInv, NextInv, NextOwnAnswer, <1>1, PTL DEF GatesSpec, AnswerIsOwn
=============================================================================
