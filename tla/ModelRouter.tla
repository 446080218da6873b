---------------------------- MODULE ModelRouter ----------------------------
(***************************************************************************)
(* llm/router.py: ModelRouter.complete, called concurrently by the tasks   *)
(* of several stories.  A call routes (checking the health of providers    *)
(* nobody has checked yet), asks the circuit breaker of the provider it    *)
(* selected, calls it, and on a refusal or a failure calls one other.      *)
(*                                                                         *)
(* Every await is a point where other tasks run: a health check and a call *)
(* of a provider.  Prompts and prices are left out; of a model only its    *)
(* provider, its tier and its place in the order of prices are kept.       *)
(*                                                                         *)
(* No answer reaches the caller: _calculate_cost reads prompt_tokens and   *)
(* completion_tokens of a usage that has neither (TokenUsage in            *)
(* types/llm.py), and so raises for every model that is configured, which  *)
(* every model chosen here is.  What each of the three calls makes of that *)
(* exception is in the actions Answers, DetourAnswers and RescueAnswers.   *)
(***************************************************************************)
EXTENDS CircuitBreaker, Sequences, FiniteSets, SequencesExt

CONSTANTS Tasks,           \* concurrent callers of complete()
          Configs,         \* _provider_configs: provider names, in order
          Enabled,         \* those whose config is enabled
          Initialized,     \* those _initialize_providers made a client for
          Models,          \* the configured models, cheapest first, in order among equals
          FallbackChain,   \* routing.fallback_chain: provider names, in order
          MaxCompletions   \* bound on the requests of a run

Tiers == {"top", "mid", "low"}
NoModel == [provider |-> "none", tier |-> "low"]

ASSUME RouterAssumption ==
  /\ Configs \in Seq(Providers) /\ FallbackChain \in Seq(Providers)
  /\ Initialized \subseteq Enabled /\ Enabled \subseteq Providers
  /\ Models \in Seq([provider : Providers, tier : Tiers])
  /\ "none" \notin Providers

VARIABLES health,     \* _health_cache, "unknown" where it has no entry
          requests,   \* requests made so far (bounded by MaxCompletions)
          at,         \* where each task is in complete()
          wanted,     \* the tier _select_tier chose for it
          probe,      \* position in Configs of the health check it awaits
          chosen,     \* the model it selected
          sentTo      \* history: the providers its request has been sent to

requestVars == <<at, wanted, probe, chosen, sentTo>>
routerVars == <<circuitVars, health, requests, requestVars>>

RouterInit == /\ BreakerInit
              /\ health = [p \in Providers |-> "unknown"]
              /\ requests = 0
              /\ at = [t \in Tasks |-> "idle"] /\ wanted = [t \in Tasks |-> "low"]
              /\ probe = [t \in Tasks |-> 0] /\ chosen = [t \in Tasks |-> NoModel]
              /\ sentTo = [t \in Tasks |-> <<>>]
-----------------------------------------------------------------------------
\* _find_model_in_tier: the places of the models of the tier at providers that
\* are enabled, not excluded, and not known to be unhealthy.
InTier(tier, exclude, hc) ==
  {k \in DOMAIN Models : /\ Models[k].tier = tier
                         /\ Models[k].provider \in Enabled \ exclude
                         /\ hc[Models[k].provider] # "unhealthy"}

\* The first place of a set: sequences are searched from the front.
First(places) == CHOOSE k \in places : \A j \in places : k <= j

\* Mutant of Route: only the next tier down is tried.
Route_OneDown(tier, exclude, hc) ==
  LET lower == CASE tier = "top" -> "mid" [] OTHER -> "low"
      found == IF InTier(tier, exclude, hc) # {} THEN InTier(tier, exclude, hc)
               ELSE InTier(lower, exclude, hc)
  IN  IF found = {} THEN NoModel ELSE Models[First(found)]

\* route, once the health cache is filled: the tier, then the tiers below it.
Route(tier, exclude, hc) ==
  LET In(t) == InTier(t, exclude, hc)
      found == IF tier = "top" /\ In("top") # {} THEN In("top")
               ELSE IF tier # "low" /\ In("mid") # {} THEN In("mid")
               ELSE In("low")
  IN  IF found = {} THEN NoModel ELSE Models[First(found)]

Configured(p) == \E k \in DOMAIN Models : Models[k].provider = p

\* Mutant of Fallback: the provider that failed is not excluded.
Fallback_SameAgain(failed, hc) ==
  LET chain == {k \in DOMAIN FallbackChain : Configured(FallbackChain[k])}
      rest == {k \in DOMAIN Configs : Configs[k] \in Enabled /\ Configured(Configs[k])}
  IN  IF chain # {} THEN [provider |-> FallbackChain[First(chain)], tier |-> failed.tier]
      ELSE IF failed.tier = "top" THEN Route("mid", {failed.provider}, hc)
      ELSE IF rest # {} THEN [provider |-> Configs[First(rest)], tier |-> "low"] ELSE NoModel

\* fallback: the first provider of the chain other than the failed one,
\* whatever its health or its breaker say; else, from the top tier, a new
\* route without it; else the first other enabled provider.
Fallback(failed, hc) ==
  LET Others(ps) == {k \in DOMAIN ps : ps[k] # failed.provider /\ Configured(ps[k])}
      chain == Others(FallbackChain)
      rest == {k \in Others(Configs) : Configs[k] \in Enabled}
  IN  IF chain # {} THEN [provider |-> FallbackChain[First(chain)], tier |-> failed.tier]
      ELSE IF failed.tier = "top" THEN Route("mid", {failed.provider}, hc)
      ELSE IF rest # {} THEN [provider |-> Configs[First(rest)], tier |-> "low"] ELSE NoModel
-----------------------------------------------------------------------------
\* The providers, from position i on, whose health nobody has checked.
Unchecked(i, hc) == {j \in i..Len(Configs) : Configs[j] \in Initialized /\ hc[Configs[j]] = "unknown"}

\* The task's request is over: its local variables are gone.
Return(t) == /\ at' = [at EXCEPT ![t] = "idle"] /\ wanted' = [wanted EXCEPT ![t] = "low"]
             /\ probe' = [probe EXCEPT ![t] = 0] /\ chosen' = [chosen EXCEPT ![t] = NoModel]
             /\ sentTo' = [sentTo EXCEPT ![t] = <<>>]

\* The request is sent to the provider of m, and awaits its answer at point.
Send(t, tier, m, point) ==
  /\ at' = [at EXCEPT ![t] = point] /\ wanted' = [wanted EXCEPT ![t] = tier]
  /\ probe' = [probe EXCEPT ![t] = 0] /\ chosen' = [chosen EXCEPT ![t] = m]
  /\ sentTo' = [sentTo EXCEPT ![t] = Append(@, m.provider)]

\* A second model is called if there is one with a client; otherwise the
\* request ends with an exception.
CallAnother(t, tier, failed, hc, point) ==
  LET m == Fallback(failed, hc)
  IN  IF m # NoModel /\ m.provider \in Initialized THEN Send(t, tier, m, point) ELSE Return(t)

\* complete from the end of routing to the call of a provider, with no await
\* in between.
CallSelected(t, tier, hc) ==
  LET m == Route(tier, {}, hc)
  IN  IF m = NoModel \/ m.provider \notin Initialized
      THEN Return(t) /\ UNCHANGED circuitVars
      ELSE /\ Ask(m.provider)
           /\ IF CanExecute(circuit[m.provider]) THEN Send(t, tier, m, "calling")
              ELSE CallAnother(t, tier, m, hc, "detour")

\* route checks one provider after the other, skipping those in the cache.
GoOnFrom(t, tier, i, hc) ==
  LET next == Unchecked(i, hc)
  IN  IF next = {} THEN CallSelected(t, tier, hc)
      ELSE /\ at' = [at EXCEPT ![t] = "checking"] /\ wanted' = [wanted EXCEPT ![t] = tier]
           /\ probe' = [probe EXCEPT ![t] = First(next)]
           /\ UNCHANGED <<circuitVars, chosen, sentTo>>

\* A task calls complete() with the purpose of its request, which fixes the
\* tier it wants.
Start(t, tier) ==
  /\ at[t] = "idle" /\ requests < MaxCompletions
  /\ requests' = requests + 1
  /\ UNCHANGED health
  /\ GoOnFrom(t, tier, 1, health)

\* The answer of a health check goes into the cache, over any other that has
\* come meanwhile, and the loop goes on.
HealthAnswers(t) ==
  /\ at[t] = "checking"
  /\ \E h \in {"healthy", "unhealthy"} :
       LET hc == [health EXCEPT ![Configs[probe[t]]] = h]
       IN  health' = hc /\ GoOnFrom(t, wanted[t], probe[t] + 1, hc)
  /\ UNCHANGED requests

\* The provider that was selected answers: the success is recorded, costing
\* the answer raises, and that is recorded as a failure and sends the request
\* to another provider, as if there had been no answer.
Answers(t) == /\ at[t] = "calling"
              /\ SucceedsThenFails(chosen[t].provider)
              /\ CallAnother(t, wanted[t], chosen[t], health, "rescue")
              /\ UNCHANGED <<health, requests>>

\* It raises itself.
Raises(t) == /\ at[t] = "calling"
             /\ Fails(chosen[t].provider)
             /\ CallAnother(t, wanted[t], chosen[t], health, "rescue")
             /\ UNCHANGED <<health, requests>>

\* The provider called because a breaker was open answers: its success is
\* recorded, whatever its own breaker says, before costing it raises.
DetourAnswers(t) == /\ at[t] = "detour"
                    /\ Succeeds(chosen[t].provider)
                    /\ Return(t)
                    /\ UNCHANGED <<health, requests>>

\* The one called after another leaves no record, answered or not: costing
\* its answer raises to the caller.
RescueAnswers(t) == /\ at[t] = "rescue"
                    /\ Return(t)
                    /\ UNCHANGED <<circuitVars, health, requests>>

SecondRaises(t) == /\ at[t] \in {"detour", "rescue"}
                   /\ Return(t)
                   /\ UNCHANGED <<circuitVars, health, requests>>

Proceed(t) == \/ HealthAnswers(t) \/ Answers(t) \/ Raises(t) \/ DetourAnswers(t)
              \/ RescueAnswers(t) \/ SecondRaises(t)

Time == Tick /\ UNCHANGED <<health, requests, requestVars>>

RouterNext == \/ \E t \in Tasks : Proceed(t) \/ \E tier \in Tiers : Start(t, tier)
              \/ Time

RouterSpec == RouterInit /\ [][RouterNext]_routerVars
-----------------------------------------------------------------------------
\* A request is sent to at most two providers, never twice to the same, and
\* only to one that has a client: fallback never returns to the provider that
\* just refused, failed or answered in vain, whichever branch it takes and
\* whatever the requests that share health and breakers have learnt.
SentOnceEach ==
  \A t \in Tasks : /\ Len(sentTo[t]) <= 2
                   /\ IsInjective(sentTo[t])
                   /\ \A k \in DOMAIN sentTo[t] : sentTo[t][k] \in Initialized

\* The providers that could serve a request of the tier: not known to be
\* unhealthy, with a model of that tier or, below it, a cheaper one.  A model
\* of the top tier does not count: fallback looks below the top only.
Usable(tier, hc) ==
  {p \in Providers : /\ hc[p] # "unhealthy"
                     /\ \E k \in DOMAIN Models : /\ Models[k].provider = p
                                                 /\ Models[k].tier # "top"
                                                 /\ tier = "low" => Models[k].tier = "low"}

\* A request fails without having been sent to anyone only if the breaker of
\* every provider that could serve it refuses: neither the tiers nor an open
\* breaker elsewhere nor what other requests learn of health meanwhile makes
\* the router overlook one.  (Every configured provider has a client here.)
NotGivenUpEarly ==
  [][ \A t \in Tasks, tier \in Tiers :
        (/\ Start(t, tier) \/ (HealthAnswers(t) /\ wanted[t] = tier)
         /\ at'[t] = "idle")
          => \A p \in Usable(tier, health') : ~CanExecute(circuit[p]) ]_routerVars
=============================================================================
