------------------------------- MODULE Orders -------------------------------
(* Python's list.sort and the order in which a loop meets what it picks.    *)
EXTENDS Naturals, FiniteSets

\* The members of S one after the other, where before says which precedes which.
LineUp(S, before) ==
  [k \in 1..Cardinality(S) |-> CHOOSE x \in S : Cardinality({y \in S : <<y, x>> \in before}) = k - 1]
=============================================================================
