------------------------ MODULE ConvergenceDetector ------------------------
(***************************************************************************)
(* orchestrator/convergence_detector.py.  check(story) is a pure function  *)
(* of the errors the story's iterations carry; the orchestrator calls it   *)
(* at the top of every pass of the coding loop and may fail the story on   *)
(* its answer.  An iteration's error is NoContext (error_context is None), *)
(* Unclassified (a context whose fingerprint is empty) or a fingerprint.   *)
(***************************************************************************)
EXTENDS Integers, Sequences, FiniteSets

CONSTANTS Fingerprints,     \* non-empty error fingerprints
          WindowSize,       \* window_size
          StuckThreshold    \* stuck_threshold

ASSUME ConvergenceAssumption == /\ WindowSize \in Nat \ {0}
                                /\ StuckThreshold \in Nat \ {0}

NoContext == "no_context"
Unclassified == "unclassified"
IterationError == Fingerprints \cup {NoContext, Unclassified}

\* The last WindowSize errors.
Recent(errors) ==
  IF Len(errors) <= WindowSize THEN errors
  ELSE SubSeq(errors, Len(errors) - WindowSize + 1, Len(errors))

ErrorsIn(errors, from, to) == Cardinality({k \in from..to : errors[k] # NoContext})

\* _check_oscillation: a fingerprint occurs twice.
Oscillating(r) ==
  \E j, k \in DOMAIN r : j < k /\ r[j] = r[k] /\ r[j] \in Fingerprints

\* _check_stuck: the last StuckThreshold iterations all carry an error.
Stuck(r) == /\ Len(r) >= StuckThreshold
            /\ \A k \in (Len(r) - StuckThreshold + 1)..Len(r) : r[k] # NoContext

\* Mutant of Diverging: the middle of an odd window belongs to the first half.
Diverging_MiddleFirst(r) ==
  LET mid == (Len(r) + 1) \div 2
  IN  mid < Len(r) /\ ErrorsIn(r, mid + 1, Len(r)) > ErrorsIn(r, 1, mid)

\* _check_diverging: more errors in the second half than in the first; the
\* middle of an odd window belongs to the second half.
Diverging(r) ==
  LET mid == Len(r) \div 2
  IN  mid > 0 /\ ErrorsIn(r, mid + 1, Len(r)) > ErrorsIn(r, 1, mid)

\* check(): the recommended action, in the order the code tests.
Check(errors) ==
  LET r == Recent(errors)
  IN  IF Oscillating(r) THEN "enrich_context"
      ELSE IF Stuck(r) THEN "replan"
      ELSE IF Diverging(r) THEN "escalate"
      ELSE "continue"
=============================================================================
