----------------------------- MODULE Iterations -----------------------------
(***************************************************************************)
(* The iterations of one story as the convergence detector meets them: the *)
(* coding loop asks it before each, and each then carries the error, if    *)
(* any, that the code was generated for (orchestrator/adapters.py).  What  *)
(* the rest of the loop does with an iteration is in Orchestrator.tla.     *)
(***************************************************************************)
EXTENDS ConvergenceDetector

CONSTANT MaxErrors      \* bound on the iterations

ASSUME IterationsAssumption == MaxErrors \in Nat

VARIABLE errors         \* the error of each iteration, oldest first

IterationsInit == errors = <<>>

\* GeneratorAdapter.generate, with whatever error it is given.
Iterate == \E e \in IterationError : Len(errors) < MaxErrors /\ errors' = Append(errors, e)

IterationsSpec == IterationsInit /\ [][Iterate]_errors
-----------------------------------------------------------------------------
Window == Recent(errors)
FailedAt == {k \in DOMAIN Window : Window[k] # NoContext}

\* What the detector answers to a stall, to a turn for the worse and to one
\* for the better.  When every one of the last StuckThreshold iterations
\* failed, whether the error repeats, alternates, or was never classified, it
\* asks for a new plan or more context, and neither lets the story go on nor
\* gives it up for diverging.  (What comes of a new plan is the orchestrator's
\* doing: it moves the story from CODING to PLANNING, which is no legal move,
\* and the story fails.)  When the iterations it looks at failed in their later
\* half only, it does not say "continue"; when in their earlier half only, it
\* does not say "escalate".  The middle one of an odd number is of the later.
TrendIsNoticed ==
  /\ Len(errors) >= StuckThreshold
     /\ (\A k \in (Len(errors) - StuckThreshold + 1)..Len(errors) : errors[k] # NoContext)
     => Check(errors) \in {"replan", "enrich_context"}
  /\ Len(Window) > 1 /\ FailedAt # {} /\ (\A k \in FailedAt : 2 * k > Len(Window))
     => Check(errors) # "continue"
  /\ (\A k \in FailedAt : 2 * k <= Len(Window)) => Check(errors) # "escalate"
=============================================================================
