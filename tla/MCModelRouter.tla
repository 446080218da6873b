---------------------------- MODULE MCModelRouter ----------------------------
(* Two tasks and three providers.  p1 has models of the two upper tiers, p2  *)
(* too (cheaper in the middle one), p3 a low one; the chain names p2, so     *)
(* every branch of fallback is taken.                                        *)
EXTENDS ModelRouter

CONSTANTS t1, t2

MCTasks == {t1, t2}
MCProviders == {"p1", "p2", "p3"}
MCConfigs == <<"p1", "p2", "p3">>
M(p, t) == [provider |-> p, tier |-> t]
MCModels == <<M("p3", "low"), M("p2", "mid"), M("p1", "mid"), M("p1", "top"), M("p2", "top")>>
MCChain == <<"p2">>
TaskSymmetry == {[t \in MCTasks |-> t], [t \in MCTasks |-> IF t = t1 THEN t2 ELSE t1]}
=============================================================================
