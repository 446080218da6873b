--------------------------- MODULE RouterProofs ---------------------------
(***************************************************************************)
(* The circuit breakers, and the router that shares them between tasks.    *)
(*                                                                         *)
(* The breakers: CountersAreRuns and MovesAreEarned for any providers and  *)
(* any settings.  CountersAreRuns is inductive with the types and one more *)
(* fact: while a breaker knows when the last failure was, its age is the   *)
(* quiet time.  All of it is said of one breaker b, its streak k and its   *)
(* quiet time q, and proved operation by operation.                        *)
(*                                                                         *)
(* The router: every step is one of the breakers or leaves them alone, so  *)
(* RouterSpec implements BreakerSpec and has what was proved of it.        *)
(* SentOnceEach needs what a task's place in complete() says of where its  *)
(* request has been (Sending), NotGivenUpEarly what route and fallback     *)
(* return when they find nothing.                                          *)
(***************************************************************************)
EXTENDS ModelRouter, SequenceTheorems, WellFoundedInduction, TLAPS

Sound(b, k, q) ==
  /\ b.failures > 0 => b.failures <= -k
  /\ b.successes > 0 => b.successes <= k
  /\ b.state = "half_open" => b.successes < HalfOpenMaxCalls
  /\ b.since # Never => q = b.since

Inv == BreakerTypeOK /\ \A p \in Providers : Sound(circuit[p], streak[p], quiet[p])

USE BreakerAssumption

LEMMA NewIsSound == NewCircuit \in Circuit /\ Sound(NewCircuit, 0, 0)
  BY DEF NewCircuit, Circuit, Sound, Never

\* Looking at a breaker.
LEMMA SeenIsSound ==
  ASSUME NEW b \in Circuit, NEW k \in Int, NEW q \in 0..RecoveryTimeout, Sound(b, k, q)
  PROVE  /\ Seen(b) \in Circuit
         /\ Sound(Seen(b), k, q)
         /\ (Seen(b).state = "half_open" /\ b.state # "half_open") => q = RecoveryTimeout
         /\ Seen(b).state = "open" => b.state = "open"
         /\ Seen(b).state = "closed" => b.state = "closed"
<1>1. CASE b.state = "open" /\ b.since = RecoveryTimeout
  <2>1. /\ Seen(b) \in Circuit /\ Seen(b).state = "half_open" /\ Seen(b).failures = 0
        /\ Seen(b).successes = 0 /\ Seen(b).since = RecoveryTimeout
    BY <1>1 DEF Seen, Circuit
  <2>2. q = RecoveryTimeout
    BY <1>1 DEF Sound, Never
  <2> QED
    BY <2>1, <2>2, <1>1 DEF Sound
<1>2. CASE ~(b.state = "open" /\ b.since = RecoveryTimeout)
  BY <1>2 DEF Seen
<1> QED
  BY <1>1, <1>2

\* Recording a success.
LEMMA SuccessIsSound ==
  ASSUME NEW b \in Circuit, NEW k \in Int, NEW q \in 0..RecoveryTimeout, Sound(b, k, q),
         NEW l \in Int, l = OneMore(k)
  PROVE  /\ Succeeded(b) \in Circuit
         /\ Sound(Succeeded(b), l, q)
         /\ Succeeded(b).state = "open" => b.state = "open"
         /\ Succeeded(b).state = "half_open" => b.state = "half_open"
         /\ (Succeeded(b).state = "closed" /\ b.state # "closed") => l >= HalfOpenMaxCalls
<1> DEFINE c == [state |-> b.state, failures |-> 0, successes |-> b.successes + 1,
                 since |-> Never]
<1>1. /\ c \in Circuit /\ c.state = b.state /\ c.failures = 0
      /\ c.successes = b.successes + 1 /\ c.since = Never
  BY DEF Circuit, Never
<1>2. Seen(c) = c
  BY <1>1 DEF Seen, Never
<1>3. c.successes <= l
  BY <1>1 DEF Sound, Circuit, OneMore
<1>4. CASE c.state = "half_open" /\ c.successes >= HalfOpenMaxCalls
  <2>1. Succeeded(b) = [c EXCEPT !.state = "closed", !.successes = 0]
    BY <1>2, <1>4 DEF Succeeded
  <2> HIDE DEF c
  <2>2. /\ Succeeded(b) \in Circuit /\ Succeeded(b).state = "closed"
        /\ Succeeded(b).failures = 0 /\ Succeeded(b).successes = 0
        /\ Succeeded(b).since = Never
    BY <2>1, <1>1 DEF Circuit
  <2>3. l >= HalfOpenMaxCalls
    BY <1>1, <1>3, <1>4 DEF Circuit
  <2> QED
    BY <2>2, <2>3 DEF Sound
<1>5. CASE ~(c.state = "half_open" /\ c.successes >= HalfOpenMaxCalls)
  <2>1. Succeeded(b) = c
    BY <1>2, <1>5 DEF Succeeded
  <2> HIDE DEF c
  <2> QED
    BY <2>1, <1>1, <1>3, <1>5 DEF Circuit, Sound, Never
<1> QED
  BY <1>4, <1>5

\* Recording a failure.
LEMMA FailureIsSound ==
  ASSUME NEW b \in Circuit, NEW k \in Int, NEW q \in 0..RecoveryTimeout, Sound(b, k, q),
         NEW l \in Int, l = IF k < 0 THEN k - 1 ELSE -1
  PROVE  /\ Failed(b) \in Circuit
         /\ Sound(Failed(b), l, 0)
         /\ Failed(b).state \in {b.state, "open"}
         /\ (Failed(b).state = "open" /\ b.state # "open") => l <= -FailureThreshold
<1> DEFINE a == Failed(b)
<1>1. /\ b.failures \in Nat /\ b.failures + 1 <= -l
  BY DEF Circuit, Sound
<1>2. /\ a \in Circuit /\ a.failures = b.failures + 1 /\ a.successes = 0 /\ a.since = 0
      /\ b.failures + 1 >= FailureThreshold => a.state = "open"
      /\ ~(b.failures + 1 >= FailureThreshold) => a.state = b.state
  <2>1. CASE b.failures + 1 >= FailureThreshold
    BY <2>1 DEF Failed, Circuit
  <2>2. CASE ~(b.failures + 1 >= FailureThreshold)
    BY <2>2 DEF Failed, Circuit
  <2> QED
    BY <2>1, <2>2
<1> HIDE DEF a
<1>3. Sound(a, l, 0)
  BY <1>1, <1>2 DEF Sound
<1>4. (a.state = "open" /\ b.state # "open") => l <= -FailureThreshold
  BY <1>1, <1>2
<1> QED
  BY <1>2, <1>3, <1>4 DEF a

\* Recording both of one call.
LEMMA BothAreSound ==
  ASSUME NEW b \in Circuit, NEW k \in Int, NEW q \in 0..RecoveryTimeout, Sound(b, k, q)
  PROVE  /\ Failed(Succeeded(b)) \in Circuit
         /\ Sound(Failed(Succeeded(b)), -1, 0)
         /\ (Failed(Succeeded(b)).state = "open" /\ b.state # "open") => -1 <= -FailureThreshold
         /\ Failed(Succeeded(b)).state = "half_open" => b.state = "half_open"
         /\ (Failed(Succeeded(b)).state = "closed" /\ b.state # "closed")
              => OneMore(k) >= HalfOpenMaxCalls
<1> DEFINE c == Succeeded(b)
<1>1. OneMore(k) \in Int /\ OneMore(k) >= 1
  BY DEF OneMore
<1>2. /\ c \in Circuit /\ Sound(c, OneMore(k), q)
      /\ c.state = "open" => b.state = "open"
      /\ c.state = "half_open" => b.state = "half_open"
      /\ (c.state = "closed" /\ b.state # "closed") => OneMore(k) >= HalfOpenMaxCalls
  BY <1>1, SuccessIsSound
<1> HIDE DEF c
<1>3. /\ Failed(c) \in Circuit /\ Sound(Failed(c), -1, 0)
      /\ Failed(c).state \in {c.state, "open"}
      /\ (Failed(c).state = "open" /\ c.state # "open") => -1 <= -FailureThreshold
  BY <1>1, <1>2, FailureIsSound
<1> QED
  BY <1>2, <1>3 DEF c

\* The passing of time.
LEMMA TimeIsSound ==
  ASSUME NEW b \in Circuit, NEW k \in Int, NEW q \in 0..RecoveryTimeout, Sound(b, k, q)
  PROVE  /\ [b EXCEPT !.since = Older(@)] \in Circuit
         /\ Older(q) \in 0..RecoveryTimeout
         /\ Sound([b EXCEPT !.since = Older(@)], k, Older(q))
         /\ [b EXCEPT !.since = Older(@)].state = b.state
<1>1. CASE b.since = Never
  BY <1>1 DEF Older, Circuit, Sound, Never
<1>2. CASE b.since # Never
  BY <1>2 DEF Older, Circuit, Sound, Never
<1> QED
  BY <1>1, <1>2
-----------------------------------------------------------------------------
\* What a step may do to the breaker of one provider.
Earned(p) ==
  /\ (StateOf(p)' = "open" /\ StateOf(p) # "open") => streak[p]' <= -FailureThreshold
  /\ (StateOf(p)' = "half_open" /\ StateOf(p) # "half_open") => quiet[p] = RecoveryTimeout
  /\ (StateOf(p)' = "closed" /\ StateOf(p) # "closed")
       => OneMore(streak[p]) >= HalfOpenMaxCalls \/ streak[p]' = 0

Kept(p) == /\ circuit[p]' \in Circuit /\ streak[p]' \in Int /\ quiet[p]' \in 0..RecoveryTimeout
           /\ Sound(circuit[p]', streak[p]', quiet[p]')
           /\ Earned(p)

LEMMA StepKeeps ==
  ASSUME Inv, BreakerNext
  PROVE  /\ circuit' = [p \in Providers |-> circuit'[p]]
         /\ streak' = [p \in Providers |-> streak'[p]]
         /\ quiet' = [p \in Providers |-> quiet'[p]]
         /\ \A p \in Providers : Kept(p)
<1>1. /\ \A p \in Providers : /\ circuit[p] \in Circuit /\ streak[p] \in Int
                              /\ quiet[p] \in 0..RecoveryTimeout
                              /\ Sound(circuit[p], streak[p], quiet[p])
      /\ circuit \in [Providers -> Circuit] /\ streak \in [Providers -> Int]
      /\ quiet \in [Providers -> 0..RecoveryTimeout]
  BY DEF Inv, BreakerTypeOK
<1>2. ASSUME NEW p \in Providers, circuit'[p] = circuit[p], streak'[p] = streak[p],
             quiet'[p] = quiet[p]
      PROVE  Kept(p)
  BY <1>1, <1>2 DEF Kept, Earned, StateOf
<1>3. ASSUME NEW p \in Providers, Ask(p)
      PROVE  /\ circuit' = [r \in Providers |-> circuit'[r]]
             /\ streak' = [r \in Providers |-> streak'[r]]
             /\ quiet' = [r \in Providers |-> quiet'[r]]
             /\ \A r \in Providers : Kept(r)
  <2>1. /\ circuit'[p] = Seen(circuit[p]) /\ streak' = streak /\ quiet' = quiet
        /\ \A r \in Providers \ {p} : circuit'[r] = circuit[r]
    BY <1>1, <1>3 DEF Ask
  <2>2. Kept(p)
    BY <1>1, <2>1, SeenIsSound DEF Kept, Earned, StateOf
  <2>3. \A r \in Providers : Kept(r)
    BY <1>2, <2>1, <2>2
  <2> QED
    BY <1>1, <1>3, <2>3 DEF Ask
<1>4. ASSUME NEW p \in Providers, Succeeds(p)
      PROVE  /\ circuit' = [r \in Providers |-> circuit'[r]]
             /\ streak' = [r \in Providers |-> streak'[r]]
             /\ quiet' = [r \in Providers |-> quiet'[r]]
             /\ \A r \in Providers : Kept(r)
  <2>1. /\ circuit'[p] = Succeeded(circuit[p]) /\ quiet' = quiet
        /\ streak'[p] = OneMore(streak[p])
        /\ \A r \in Providers \ {p} : circuit'[r] = circuit[r] /\ streak'[r] = streak[r]
    BY <1>1, <1>4 DEF Succeeds
  <2>2. streak'[p] \in Int
    BY <1>1, <2>1 DEF OneMore
  <2>3. Kept(p)
    BY <1>1, <2>1, <2>2, SuccessIsSound DEF Kept, Earned, StateOf
  <2>4. \A r \in Providers : Kept(r)
    BY <1>2, <2>1, <2>3
  <2> QED
    BY <1>1, <1>4, <2>4 DEF Succeeds
<1>5. ASSUME NEW p \in Providers, Fails(p)
      PROVE  /\ circuit' = [r \in Providers |-> circuit'[r]]
             /\ streak' = [r \in Providers |-> streak'[r]]
             /\ quiet' = [r \in Providers |-> quiet'[r]]
             /\ \A r \in Providers : Kept(r)
  <2>1. /\ circuit'[p] = Failed(circuit[p]) /\ quiet'[p] = 0
        /\ streak'[p] = IF streak[p] < 0 THEN streak[p] - 1 ELSE -1
        /\ \A r \in Providers \ {p} : /\ circuit'[r] = circuit[r] /\ streak'[r] = streak[r]
                                      /\ quiet'[r] = quiet[r]
    BY <1>1, <1>5 DEF Fails
  <2>2. streak'[p] \in Int /\ 0 \in 0..RecoveryTimeout
    BY <1>1, <2>1
  <2>3. Kept(p)
    BY <1>1, <2>1, <2>2, FailureIsSound DEF Kept, Earned, StateOf
  <2>4. \A r \in Providers : Kept(r)
    BY <1>2, <2>1, <2>3
  <2> QED
    BY <1>1, <1>5, <2>4 DEF Fails
<1>6. ASSUME NEW p \in Providers, ResetBreaker(p)
      PROVE  /\ circuit' = [r \in Providers |-> circuit'[r]]
             /\ streak' = [r \in Providers |-> streak'[r]]
             /\ quiet' = [r \in Providers |-> quiet'[r]]
             /\ \A r \in Providers : Kept(r)
  <2>1. /\ circuit'[p] = NewCircuit /\ quiet'[p] = 0 /\ streak'[p] = 0
        /\ \A r \in Providers \ {p} : /\ circuit'[r] = circuit[r] /\ streak'[r] = streak[r]
                                      /\ quiet'[r] = quiet[r]
    BY <1>1, <1>6 DEF ResetBreaker
  <2>2. 0 \in 0..RecoveryTimeout /\ NewCircuit.state = "closed"
    BY DEF NewCircuit
  <2>3. Kept(p)
    BY <2>1, <2>2, NewIsSound DEF Kept, Earned, StateOf
  <2>4. \A r \in Providers : Kept(r)
    BY <1>2, <2>1, <2>3
  <2> QED
    BY <1>1, <1>6, <2>4 DEF ResetBreaker
<1>7. ASSUME NEW p \in Providers, SucceedsThenFails(p)
      PROVE  /\ circuit' = [r \in Providers |-> circuit'[r]]
             /\ streak' = [r \in Providers |-> streak'[r]]
             /\ quiet' = [r \in Providers |-> quiet'[r]]
             /\ \A r \in Providers : Kept(r)
  <2>1. /\ circuit'[p] = Failed(Succeeded(circuit[p])) /\ quiet'[p] = 0 /\ streak'[p] = -1
        /\ \A r \in Providers \ {p} : /\ circuit'[r] = circuit[r] /\ streak'[r] = streak[r]
                                      /\ quiet'[r] = quiet[r]
    BY <1>1, <1>7 DEF SucceedsThenFails
  <2>2. 0 \in 0..RecoveryTimeout /\ -1 \in Int
    OBVIOUS
  <2>3. Kept(p)
    BY <1>1, <2>1, <2>2, BothAreSound DEF Kept, Earned, StateOf
  <2>4. \A r \in Providers : Kept(r)
    BY <1>2, <2>1, <2>3
  <2> QED
    BY <1>1, <1>7, <2>4 DEF SucceedsThenFails
<1>8. CASE Tick
  <2>1. \A p \in Providers : Kept(p)
    BY <1>1, <1>8, TimeIsSound DEF Kept, Earned, StateOf, Tick
  <2> QED
    BY <1>1, <1>8, <2>1 DEF Tick
<1> QED
  BY <1>3, <1>4, <1>5, <1>6, <1>7, <1>8 DEF BreakerNext

LEMMA InitInv == BreakerInit => Inv
<1>1. 0 \in 0..RecoveryTimeout
  OBVIOUS
<1> QED
  BY <1>1, NewIsSound DEF BreakerInit, Inv, BreakerTypeOK

LEMMA NextInv == Inv /\ [BreakerNext]_circuitVars => Inv'
<1> SUFFICES ASSUME Inv, [BreakerNext]_circuitVars PROVE Inv'
  OBVIOUS
<1>1. CASE BreakerNext
  BY <1>1, StepKeeps DEF Inv, BreakerTypeOK, Kept
<1>2. CASE UNCHANGED circuitVars
  BY <1>2 DEF Inv, BreakerTypeOK, circuitVars
<1> QED
  BY <1>1, <1>2

LEMMA NextEarned == Inv /\ BreakerNext => \A p \in Providers : Earned(p)
  BY StepKeeps DEF Kept
-----------------------------------------------------------------------------
\* The breakers, streaks and quiet times keep their types.
THEOREM TypeCorrect == BreakerSpec => []BreakerTypeOK
<1>1. Inv => BreakerTypeOK
  BY DEF Inv
<1> QED
  BY <1>1, InitInv, NextInv, PTL DEF BreakerSpec

\* record_failure and record_success count what came in a row, whatever the
\* order in which the answers of concurrent calls are recorded.
THEOREM CountersAreExact == BreakerSpec => []CountersAreRuns
<1>1. Inv => CountersAreRuns
  BY DEF Inv, CountersAreRuns, Sound, StateOf
<1> QED
  BY <1>1, InitInv, NextInv, PTL DEF BreakerSpec

\* No breaker opens, half-opens or closes but for the reason it should.
THEOREM MovesAreAllEarned == BreakerSpec => MovesAreEarned
<1>1. Inv /\ [BreakerNext]_circuitVars =>
        [\A p \in Providers :
        /\ (StateOf(p)' = "open" /\ StateOf(p) # "open") => streak[p]' <= -FailureThreshold
        /\ (StateOf(p)' = "half_open" /\ StateOf(p) # "half_open") => quiet[p] = RecoveryTimeout
        /\ (StateOf(p)' = "closed" /\ StateOf(p) # "closed")
             => OneMore(streak[p]) >= HalfOpenMaxCalls \/ streak[p]' = 0]_circuitVars
  BY NextEarned DEF Earned
<1> QED
  BY <1>1, InitInv, NextInv, PTL DEF BreakerSpec, MovesAreEarned
-----------------------------------------------------------------------------
Model == [provider : Providers, tier : Tiers]
Point == {"idle", "checking", "calling", "detour", "rescue"}
Health == {"unknown", "healthy", "unhealthy"}

\* Where a request at the point a has been: probe b, model c, providers d.
Been(a, b, c, d) ==
  /\ a \in {"idle", "checking"} => d = <<>>
  /\ a = "checking" => b \in DOMAIN Configs
  /\ a \in {"calling", "detour", "rescue"} => c \in Model /\ c.provider \in Initialized
  /\ a \in {"calling", "detour"} => d = <<c.provider>>
  /\ a = "rescue" => \E p \in Initialized : p # c.provider /\ d = <<p, c.provider>>

RequestsInv ==
  /\ at \in [Tasks -> Point] /\ wanted \in [Tasks -> Tiers]
  /\ probe \in [Tasks -> 0..Len(Configs)]
  /\ chosen \in [Tasks -> Model \cup {NoModel}]
  /\ sentTo \in [Tasks -> Seq(Providers)]
  /\ \A t \in Tasks : Been(at[t], probe[t], chosen[t], sentTo[t])

HealthInv == health \in [Providers -> Health]

RouterInv == RequestsInv /\ HealthInv

LEMMA ConfiguredTypes ==
  /\ DOMAIN Models \subseteq Nat /\ \A k \in DOMAIN Models : Models[k] \in Model
  /\ DOMAIN Configs \subseteq Nat /\ \A k \in DOMAIN Configs : Configs[k] \in Providers
  /\ DOMAIN FallbackChain \subseteq Nat
  /\ \A k \in DOMAIN FallbackChain : FallbackChain[k] \in Providers
<1>1. Models \in Seq(Model) /\ Configs \in Seq(Providers) /\ FallbackChain \in Seq(Providers)
  BY RouterAssumption DEF Model
<1> QED
  BY <1>1

\* The first place of a set of places is one of them.
LEMMA FirstIsThere ==
  ASSUME NEW places, places \subseteq Nat, places # {}
  PROVE  First(places) \in places
<1>1. PICK k \in places : \A j \in places : ~ (<<j, k>> \in OpToRel(<, Nat))
  BY WFMin, NatLessThanWellFounded, Zenon
<1>2. ASSUME NEW j \in places PROVE k <= j
  <2>1. j \in Nat /\ k \in Nat
    OBVIOUS
  <2>2. ~ (<<j, k>> \in {ss \in Nat \X Nat : ss[1] < ss[2]})
    BY <1>1 DEF OpToRel
  <2>3. ~ (j < k)
    BY <2>1, <2>2
  <2> QED
    BY <2>1, <2>3
<1> QED
  BY <1>2 DEF First

LEMMA RouteFinds ==
  ASSUME NEW tier \in Tiers, NEW exclude, NEW hc
  PROVE  \/ Route(tier, exclude, hc) = NoModel
         \/ /\ Route(tier, exclude, hc) \in Model
            /\ Route(tier, exclude, hc).provider \notin exclude
<1>1. PICK u \in Tiers :
        Route(tier, exclude, hc) = IF InTier(u, exclude, hc) = {} THEN NoModel
                                   ELSE Models[First(InTier(u, exclude, hc))]
  BY DEF Route, Tiers
<1>2. /\ InTier(u, exclude, hc) \subseteq DOMAIN Models /\ DOMAIN Models \subseteq Nat
      /\ \A k \in DOMAIN Models : Models[k] \in Model
      /\ \A k \in InTier(u, exclude, hc) : Models[k].provider \notin exclude
  BY ConfiguredTypes DEF InTier
<1>3. CASE InTier(u, exclude, hc) # {}
  <2>1. First(InTier(u, exclude, hc)) \in InTier(u, exclude, hc)
    BY <1>2, <1>3, FirstIsThere
  <2> QED
    BY <1>1, <1>2, <1>3, <2>1
<1> QED
  BY <1>1, <1>3

LEMMA FallbackFinds ==
  ASSUME NEW failed \in Model, NEW hc
  PROVE  \/ Fallback(failed, hc) = NoModel
         \/ /\ Fallback(failed, hc) \in Model
            /\ Fallback(failed, hc).provider # failed.provider
<1> DEFINE Others(ps) == {k \in DOMAIN ps : ps[k] # failed.provider /\ Configured(ps[k])}
           chain == Others(FallbackChain)
           rest == {k \in Others(Configs) : Configs[k] \in Enabled}
<1>1. chain \subseteq Nat /\ rest \subseteq Nat
  BY ConfiguredTypes
<1>2. CASE chain # {}
  <2>1. First(chain) \in chain
    BY <1>1, <1>2, FirstIsThere
  <2>2. /\ FallbackChain[First(chain)] \in Providers
        /\ FallbackChain[First(chain)] # failed.provider
    BY <2>1, ConfiguredTypes
  <2>3. Fallback(failed, hc) = [provider |-> FallbackChain[First(chain)], tier |-> failed.tier]
    BY <1>2 DEF Fallback
  <2> QED
    BY <2>2, <2>3 DEF Model
<1>3. CASE chain = {} /\ failed.tier = "top"
  <2>1. Fallback(failed, hc) = Route("mid", {failed.provider}, hc)
    BY <1>3 DEF Fallback
  <2> QED
    BY <2>1, RouteFinds DEF Tiers
<1>4. CASE chain = {} /\ failed.tier # "top" /\ rest # {}
  <2>1. First(rest) \in rest
    BY <1>1, <1>4, FirstIsThere
  <2>2. Configs[First(rest)] \in Providers /\ Configs[First(rest)] # failed.provider
    BY <2>1, ConfiguredTypes
  <2>3. Fallback(failed, hc) = [provider |-> Configs[First(rest)], tier |-> "low"]
    BY <1>4 DEF Fallback
  <2> QED
    BY <2>2, <2>3 DEF Model, Tiers
<1>5. CASE chain = {} /\ failed.tier # "top" /\ rest = {}
  BY <1>5 DEF Fallback
<1> QED
  BY <1>2, <1>3, <1>4, <1>5
-----------------------------------------------------------------------------
\* A step of one task, which leaves the locals of the others alone.
LEMMA OneTaskKeeps ==
  ASSUME RequestsInv, NEW t \in Tasks, NEW a \in Point, NEW w \in Tiers,
         NEW b \in 0..Len(Configs), NEW c \in Model \cup {NoModel}, NEW d \in Seq(Providers),
         Been(a, b, c, d),
         at' = [at EXCEPT ![t] = a], wanted' = [wanted EXCEPT ![t] = w],
         probe' = [probe EXCEPT ![t] = b], chosen' = [chosen EXCEPT ![t] = c],
         sentTo' = [sentTo EXCEPT ![t] = d]
  PROVE  RequestsInv'
<1>1. /\ at' \in [Tasks -> Point] /\ wanted' \in [Tasks -> Tiers]
      /\ probe' \in [Tasks -> 0..Len(Configs)]
      /\ chosen' \in [Tasks -> Model \cup {NoModel}]
      /\ sentTo' \in [Tasks -> Seq(Providers)]
  BY DEF RequestsInv
<1>2. ASSUME NEW u \in Tasks PROVE Been(at'[u], probe'[u], chosen'[u], sentTo'[u])
  <2>1. CASE u = t
    <3>1. at'[u] = a /\ probe'[u] = b /\ chosen'[u] = c /\ sentTo'[u] = d
      BY <2>1 DEF RequestsInv
    <3> QED
      BY <3>1
  <2>2. CASE u # t
    <3>1. /\ at'[u] = at[u] /\ probe'[u] = probe[u]
          /\ chosen'[u] = chosen[u] /\ sentTo'[u] = sentTo[u]
      BY <2>2 DEF RequestsInv
    <3> QED
      BY <3>1 DEF RequestsInv
  <2> QED
    BY <2>1, <2>2
<1> QED
  BY <1>1, <1>2 DEF RequestsInv

LEMMA ReturnKeeps ==
  ASSUME RequestsInv, NEW t \in Tasks, Return(t)
  PROVE  RequestsInv'
<1>1. Been("idle", 0, NoModel, <<>>)
  BY DEF Been
<1>2. "idle" \in Point /\ "low" \in Tiers /\ 0 \in 0..Len(Configs) /\ <<>> \in Seq(Providers)
  BY RouterAssumption DEF Point, Tiers
<1> QED
  BY <1>1, <1>2, OneTaskKeeps DEF Return

LEMMA SendKeeps ==
  ASSUME RequestsInv, NEW t \in Tasks, NEW tier \in Tiers, NEW m \in Model, NEW point \in Point,
         Been(point, 0, m, Append(sentTo[t], m.provider)), Send(t, tier, m, point)
  PROVE  RequestsInv'
<1>1. /\ 0 \in 0..Len(Configs) /\ Append(sentTo[t], m.provider) \in Seq(Providers)
      /\ sentTo' = [sentTo EXCEPT ![t] = Append(sentTo[t], m.provider)]
  BY RouterAssumption DEF RequestsInv, Model, Send
<1> QED
  BY <1>1, OneTaskKeeps DEF Send

LEMMA AppendToOne ==
  ASSUME NEW S, NEW a \in S, NEW b \in S
  PROVE  Append(<<a>>, b) = <<a, b>>
<1>1. <<a>> \in Seq(S) /\ <<a, b>> \in Seq(S) /\ Append(<<a>>, b) \in Seq(S)
  OBVIOUS
<1>2. Len(Append(<<a>>, b)) = 2 /\ Len(<<a, b>>) = 2
  OBVIOUS
<1>3. Append(<<a>>, b)[1] = a /\ Append(<<a>>, b)[2] = b
  OBVIOUS
<1>4. \A k \in 1..2 : Append(<<a>>, b)[k] = <<a, b>>[k]
  BY <1>3
<1> QED
  BY <1>1, <1>2, <1>4, SeqEqual

\* A second call goes to another provider than the one that failed.
LEMMA AnotherKeeps ==
  ASSUME RequestsInv, NEW t \in Tasks, NEW tier \in Tiers, NEW failed \in Model, NEW hc,
         NEW point, CallAnother(t, tier, failed, hc, point),
         \/ point = "detour" /\ sentTo[t] = <<>>
         \/ /\ point = "rescue" /\ sentTo[t] = <<failed.provider>>
            /\ failed.provider \in Initialized
  PROVE  RequestsInv'
<1> DEFINE m == Fallback(failed, hc)
<1>1. CASE ~(m # NoModel /\ m.provider \in Initialized)
  BY <1>1, ReturnKeeps DEF CallAnother
<1>2. CASE m # NoModel /\ m.provider \in Initialized
  <2>1. m \in Model /\ m.provider # failed.provider
    BY <1>2, FallbackFinds
  <2>2. Send(t, tier, m, point) /\ point \in Point
    BY <1>2 DEF CallAnother, Point
  <2> HIDE DEF m
  <2>3. Been(point, 0, m, Append(sentTo[t], m.provider))
    <3>1. CASE point = "detour" /\ sentTo[t] = <<>>
      BY <3>1, <1>2, <2>1 DEF Been
    <3>2. CASE /\ point = "rescue" /\ sentTo[t] = <<failed.provider>>
               /\ failed.provider \in Initialized
      <4>1. failed.provider \in Providers /\ m.provider \in Providers
        BY <2>1 DEF Model
      <4>2. Append(sentTo[t], m.provider) = <<failed.provider, m.provider>>
        BY <3>2, <4>1, AppendToOne
      <4> QED
        BY <3>2, <4>2, <1>2, <2>1 DEF Been
    <3> QED
      BY <3>1, <3>2
  <2> QED
    BY <2>1, <2>2, <2>3, SendKeeps
<1> QED
  BY <1>1, <1>2

\* What a task does once it has checked all health it needs: the breaker of
\* the provider it selects is asked, if any is.
LEMMA SelectedKeeps ==
  ASSUME RequestsInv, NEW t \in Tasks, NEW tier \in Tiers, NEW hc, sentTo[t] = <<>>,
         CallSelected(t, tier, hc)
  PROVE  RequestsInv' /\ [BreakerNext]_circuitVars
<1> DEFINE m == Route(tier, {}, hc)
<1>1. CASE m = NoModel \/ m.provider \notin Initialized
  BY <1>1, ReturnKeeps DEF CallSelected
<1>2. CASE ~(m = NoModel \/ m.provider \notin Initialized)
  <2>1. m \in Model
    BY <1>2, RouteFinds
  <2>2. /\ Ask(m.provider)
        /\ IF CanExecute(circuit[m.provider]) THEN Send(t, tier, m, "calling")
           ELSE CallAnother(t, tier, m, hc, "detour")
    BY <1>2 DEF CallSelected
  <2> HIDE DEF m
  <2>3. m.provider \in Providers
    BY <2>1 DEF Model
  <2>4. [BreakerNext]_circuitVars
    BY <2>2, <2>3 DEF BreakerNext
  <2>5. CASE CanExecute(circuit[m.provider])
    <3>1. "calling" \in Point /\ Been("calling", 0, m, Append(sentTo[t], m.provider))
      BY <1>2, <2>1 DEF Been, Point
    <3> QED
      BY <2>1, <2>2, <2>4, <2>5, <3>1, SendKeeps
  <2>6. CASE ~CanExecute(circuit[m.provider])
    BY <2>1, <2>2, <2>4, <2>6, AnotherKeeps
  <2> QED
    BY <2>5, <2>6
<1> QED
  BY <1>1, <1>2

LEMMA GoOnKeeps ==
  ASSUME RequestsInv, NEW t \in Tasks, NEW tier \in Tiers, NEW i \in Nat, i > 0, NEW hc,
         at[t] \in {"idle", "checking"}, GoOnFrom(t, tier, i, hc)
  PROVE  RequestsInv' /\ [BreakerNext]_circuitVars
<1> DEFINE next == Unchecked(i, hc)
<1>1. sentTo[t] = <<>>
  BY DEF RequestsInv, Been
<1>2. CASE next = {}
  BY <1>1, <1>2, SelectedKeeps DEF GoOnFrom
<1>3. CASE next # {}
  <2>1. next \subseteq i..Len(Configs) /\ Len(Configs) \in Nat /\ DOMAIN Configs = 1..Len(Configs)
    BY RouterAssumption DEF Unchecked
  <2>2. First(next) \in next
    BY <1>3, <2>1, FirstIsThere
  <2>3. /\ at' = [at EXCEPT ![t] = "checking"] /\ wanted' = [wanted EXCEPT ![t] = tier]
        /\ probe' = [probe EXCEPT ![t] = First(next)]
        /\ UNCHANGED <<circuitVars, chosen, sentTo>>
    BY <1>3 DEF GoOnFrom
  <2> HIDE DEF next
  <2>4. First(next) \in DOMAIN Configs /\ First(next) \in 0..Len(Configs)
    <3>1. First(next) \in i..Len(Configs)
      BY <2>1, <2>2, Zenon
    <3> QED
      BY <2>1, <3>1
  <2>5. Been("checking", First(next), chosen[t], sentTo[t])
    BY <1>1, <2>4 DEF Been
  <2>6. /\ chosen' = [chosen EXCEPT ![t] = chosen[t]] /\ chosen[t] \in Model \cup {NoModel}
        /\ sentTo' = [sentTo EXCEPT ![t] = sentTo[t]] /\ sentTo[t] \in Seq(Providers)
    BY <2>3 DEF RequestsInv
  <2>7. RequestsInv'
    BY <2>3, <2>4, <2>5, <2>6, OneTaskKeeps DEF Point
  <2> QED
    BY <2>3, <2>7
<1> QED
  BY <1>2, <1>3

LEMMA CheckedKeeps ==
  ASSUME RouterInv, NEW t \in Tasks, HealthAnswers(t)
  PROVE  RouterInv' /\ [BreakerNext]_circuitVars
<1>1. PICK h \in {"healthy", "unhealthy"} :
        LET hc == [health EXCEPT ![Configs[probe[t]]] = h]
        IN  health' = hc /\ GoOnFrom(t, wanted[t], probe[t] + 1, hc)
  BY DEF HealthAnswers
<1>2. GoOnFrom(t, wanted[t], probe[t] + 1, health')
  BY <1>1
<1>3. at[t] = "checking" /\ wanted[t] \in Tiers /\ probe[t] + 1 \in Nat /\ probe[t] + 1 > 0
  BY RouterAssumption DEF HealthAnswers, RouterInv, RequestsInv
<1>4. RequestsInv' /\ [BreakerNext]_circuitVars
  BY <1>2, <1>3, GoOnKeeps DEF RouterInv
<1>5. health' \in [Providers -> Health]
  BY <1>1 DEF RouterInv, HealthInv, Health
<1>6. HealthInv'
  BY <1>5 DEF HealthAnswers, RouterInv, HealthInv
<1> QED
  BY <1>4, <1>6 DEF RouterInv

LEMMA StartKeeps ==
  ASSUME RouterInv, NEW t \in Tasks, NEW tier \in Tiers, Start(t, tier)
  PROVE  RouterInv' /\ [BreakerNext]_circuitVars
<1>1. RequestsInv' /\ [BreakerNext]_circuitVars
  BY GoOnKeeps DEF Start, RouterInv
<1>2. HealthInv'
  BY DEF Start, RouterInv, HealthInv
<1> QED
  BY <1>1, <1>2 DEF RouterInv

\* The selected provider, answering or raising, sends the request on.
LEMMA SentOnKeeps ==
  ASSUME RouterInv, NEW t \in Tasks, at[t] = "calling", UNCHANGED health,
         CallAnother(t, wanted[t], chosen[t], health, "rescue")
  PROVE  RouterInv'
<1>1. /\ chosen[t] \in Model /\ chosen[t].provider \in Initialized
      /\ sentTo[t] = <<chosen[t].provider>> /\ wanted[t] \in Tiers
  BY DEF RouterInv, RequestsInv, Been
<1>2. RequestsInv'
  BY <1>1, AnotherKeeps DEF RouterInv
<1>3. HealthInv'
  BY DEF RouterInv, HealthInv
<1> QED
  BY <1>2, <1>3 DEF RouterInv

\* The second one ends it.
LEMMA EndedKeeps ==
  ASSUME RouterInv, NEW t \in Tasks, Return(t), UNCHANGED health
  PROVE  RouterInv'
<1>1. RequestsInv'
  BY ReturnKeeps DEF RouterInv
<1>2. HealthInv'
  BY DEF RouterInv, HealthInv
<1> QED
  BY <1>1, <1>2 DEF RouterInv

LEMMA ProceedKeeps ==
  ASSUME RouterInv, NEW t \in Tasks, Proceed(t)
  PROVE  RouterInv' /\ [BreakerNext]_circuitVars
<1>1. CASE HealthAnswers(t)
  BY <1>1, CheckedKeeps
<1>2. ASSUME at[t] \in {"calling", "detour", "rescue"} PROVE chosen[t].provider \in Providers
  BY <1>2 DEF RouterInv, RequestsInv, Been, Model
<1>3. CASE Answers(t)
  BY <1>2, <1>3, SentOnKeeps DEF Answers, BreakerNext
<1>4. CASE Raises(t)
  BY <1>2, <1>4, SentOnKeeps DEF Raises, BreakerNext
<1>5. CASE DetourAnswers(t)
  BY <1>2, <1>5, EndedKeeps DEF DetourAnswers, BreakerNext
<1>6. CASE RescueAnswers(t)
  BY <1>6, EndedKeeps DEF RescueAnswers
<1>7. CASE SecondRaises(t)
  BY <1>7, EndedKeeps DEF SecondRaises
<1> QED
  BY <1>1, <1>3, <1>4, <1>5, <1>6, <1>7 DEF Proceed

LEMMA RouterKeeps ==
  ASSUME RouterInv, [RouterNext]_routerVars
  PROVE  RouterInv' /\ [BreakerNext]_circuitVars
<1>1. ASSUME NEW t \in Tasks, Proceed(t) PROVE RouterInv' /\ [BreakerNext]_circuitVars
  BY <1>1, ProceedKeeps
<1>2. ASSUME NEW t \in Tasks, NEW tier \in Tiers, Start(t, tier)
      PROVE  RouterInv' /\ [BreakerNext]_circuitVars
  BY <1>2, StartKeeps
<1>3. CASE Time
  BY <1>3 DEF Time, requestVars, RouterInv, RequestsInv, HealthInv, BreakerNext
<1>4. CASE UNCHANGED routerVars
  BY <1>4 DEF routerVars, requestVars, RouterInv, RequestsInv, HealthInv
<1> QED
  BY <1>1, <1>2, <1>3, <1>4 DEF RouterNext

LEMMA RouterStarts == RouterInit => RouterInv /\ BreakerInit
<1> SUFFICES ASSUME RouterInit PROVE RouterInv
  BY DEF RouterInit
<1>1. /\ 0 \in 0..Len(Configs) /\ <<>> \in Seq(Providers) /\ 0 \in Nat
      /\ "idle" \in Point /\ "low" \in Tiers /\ "unknown" \in Health
  BY RouterAssumption DEF Point, Tiers, Health
<1>2. Been("idle", 0, NoModel, <<>>)
  BY DEF Been
<1>3. RequestsInv
  BY <1>1, <1>2 DEF RouterInit, RequestsInv
<1>4. HealthInv
  BY <1>1 DEF RouterInit, HealthInv
<1> QED
  BY <1>3, <1>4 DEF RouterInv
-----------------------------------------------------------------------------
\* complete() with the breakers it shares is a run of the breakers: no task
\* does more to one than can_execute, record_success and record_failure do.
THEOREM RouterImplementsBreakers == RouterSpec => BreakerSpec
  BY RouterStarts, RouterKeeps, PTL DEF RouterSpec, BreakerSpec

\* complete() and fallback: never twice to one provider, never to a third.
THEOREM RequestsAreSentOnceEach == RouterSpec => []SentOnceEach
<1>1. RouterInv => SentOnceEach
  <2> SUFFICES ASSUME RouterInv, NEW t \in Tasks
               PROVE  /\ Len(sentTo[t]) <= 2
                      /\ IsInjective(sentTo[t])
                      /\ \A k \in DOMAIN sentTo[t] : sentTo[t][k] \in Initialized
    BY DEF SentOnceEach
  <2>1. at[t] \in Point /\ Been(at[t], probe[t], chosen[t], sentTo[t])
    BY DEF RouterInv, RequestsInv
  <2>2. CASE sentTo[t] = <<>>
    BY <2>2 DEF IsInjective
  <2>3. ASSUME NEW p \in Initialized, sentTo[t] = <<p>>
        PROVE  /\ Len(sentTo[t]) <= 2 /\ IsInjective(sentTo[t])
               /\ \A k \in DOMAIN sentTo[t] : sentTo[t][k] \in Initialized
    BY <2>3 DEF IsInjective
  <2>4. ASSUME NEW p \in Initialized, NEW q \in Initialized, p # q, sentTo[t] = <<p, q>>
        PROVE  /\ Len(sentTo[t]) <= 2 /\ IsInjective(sentTo[t])
               /\ \A k \in DOMAIN sentTo[t] : sentTo[t][k] \in Initialized
    BY <2>4 DEF IsInjective
  <2> QED
    BY <2>1, <2>2, <2>3, <2>4 DEF Point, Been
<1> QED
  BY <1>1, RouterStarts, RouterKeeps, PTL DEF RouterSpec

\* Shared by the tasks of any number of stories, the breakers count exactly.
THEOREM SharedCountersAreExact == RouterSpec => []CountersAreRuns
  BY RouterImplementsBreakers, CountersAreExact, PTL
-----------------------------------------------------------------------------
LEMMA NoModelIsNone ==
  ASSUME NEW m \in Model
  PROVE  m # NoModel
  BY RouterAssumption DEF Model, NoModel

LEMMA RouteMisses ==
  ASSUME NEW tier \in Tiers, NEW exclude, NEW hc, Route(tier, exclude, hc) = NoModel,
         NEW k \in DOMAIN Models, Models[k].tier # "top",
         tier = "low" => Models[k].tier = "low", Models[k].provider \in Enabled \ exclude
  PROVE  hc[Models[k].provider] = "unhealthy"
<1> SUFFICES ASSUME hc[Models[k].provider] # "unhealthy" PROVE FALSE
  OBVIOUS
<1>1. Models[k].tier \in {"mid", "low"} /\ k \in InTier(Models[k].tier, exclude, hc)
  <2>1. Models[k] \in Model
    BY ConfiguredTypes
  <2> QED
    BY <2>1 DEF InTier, Model, Tiers
<1>2. PICK u \in Tiers :
        /\ Route(tier, exclude, hc) = Models[First(InTier(u, exclude, hc))]
        /\ InTier(u, exclude, hc) # {}
  <2>1. CASE tier = "top" /\ InTier("top", exclude, hc) # {}
    BY <2>1 DEF Route, Tiers
  <2>2. CASE /\ ~(tier = "top" /\ InTier("top", exclude, hc) # {})
             /\ tier # "low" /\ InTier("mid", exclude, hc) # {}
    BY <2>2 DEF Route, Tiers
  <2>3. CASE /\ ~(tier = "top" /\ InTier("top", exclude, hc) # {})
             /\ ~(tier # "low" /\ InTier("mid", exclude, hc) # {})
    <3>1. InTier("low", exclude, hc) # {}
      BY <1>1, <2>3
    <3> QED
      BY <2>3, <3>1 DEF Route, Tiers
  <2> QED
    BY <2>1, <2>2, <2>3
<1>3. InTier(u, exclude, hc) \subseteq DOMAIN Models
  BY DEF InTier
<1>4. First(InTier(u, exclude, hc)) \in DOMAIN Models
  BY <1>2, <1>3, FirstIsThere, ConfiguredTypes
<1> QED
  BY <1>2, <1>4, ConfiguredTypes, NoModelIsNone

LEMMA FallbackMisses ==
  ASSUME NEW failed \in Model, NEW hc, Fallback(failed, hc) = NoModel,
         NEW k \in DOMAIN Configs, Configs[k] \in Enabled, Configured(Configs[k]),
         Configs[k] # failed.provider
  PROVE  failed.tier = "top" /\ Route("mid", {failed.provider}, hc) = NoModel
<1> DEFINE Others(ps) == {j \in DOMAIN ps : ps[j] # failed.provider /\ Configured(ps[j])}
           chain == Others(FallbackChain)
           rest == {j \in Others(Configs) : Configs[j] \in Enabled}
<1>1. chain \subseteq Nat /\ rest \subseteq Nat /\ k \in rest
  BY ConfiguredTypes
<1>2. Fallback(failed, hc) =
        IF chain # {} THEN [provider |-> FallbackChain[First(chain)], tier |-> failed.tier]
        ELSE IF failed.tier = "top" THEN Route("mid", {failed.provider}, hc)
        ELSE [provider |-> Configs[First(rest)], tier |-> "low"]
  BY <1>1 DEF Fallback
<1>3. ASSUME NEW p \in Providers, NEW u PROVE [provider |-> p, tier |-> u] # NoModel
  BY RouterAssumption DEF NoModel
<1>4. chain = {}
  <2> SUFFICES ASSUME chain # {} PROVE FALSE
    OBVIOUS
  <2>1. First(chain) \in chain
    BY <1>1, FirstIsThere
  <2>2. FallbackChain[First(chain)] \in Providers
    BY <2>1, ConfiguredTypes
  <2> QED
    BY <1>2, <1>3, <2>2
<1>5. failed.tier = "top"
  <2> SUFFICES ASSUME failed.tier # "top" PROVE FALSE
    OBVIOUS
  <2>1. First(rest) \in rest
    BY <1>1, FirstIsThere
  <2>2. Configs[First(rest)] \in Providers
    BY <2>1, ConfiguredTypes
  <2> QED
    BY <1>2, <1>3, <1>4, <2>2
<1> QED
  BY <1>2, <1>4, <1>5

\* Where every provider has a client and a configuration.
AllHaveClients == Initialized = Providers /\ \A p \in Providers : \E k \in DOMAIN Configs : Configs[k] = p

LEMMA NobodyIsLeft ==
  ASSUME AllHaveClients, NEW t \in Tasks, at \in [Tasks -> Point], NEW tier \in Tiers, NEW hc,
         CallSelected(t, tier, hc), at'[t] = "idle", NEW p \in Usable(tier, hc)
  PROVE  ~CanExecute(circuit[p])
<1> DEFINE m == Route(tier, {}, hc)
           n == Fallback(m, hc)
<1>1. PICK k \in DOMAIN Models : /\ Models[k].provider = p /\ Models[k].tier # "top"
                                 /\ tier = "low" => Models[k].tier = "low"
  BY DEF Usable
<1>2. /\ p \in Providers /\ p \in Enabled /\ hc[p] # "unhealthy" /\ Configured(p)
  BY <1>1, RouterAssumption DEF Usable, AllHaveClients, Configured
<1>3. m # NoModel
  BY <1>1, <1>2, RouteMisses
<1>4. m \in Model /\ m.provider \in Initialized
  BY <1>3, RouteFinds DEF AllHaveClients, Model
<1>5. IF CanExecute(circuit[m.provider]) THEN Send(t, tier, m, "calling")
      ELSE CallAnother(t, tier, m, hc, "detour")
  BY <1>3, <1>4 DEF CallSelected
<1>6. ASSUME NEW q, NEW point, point # "idle", Send(t, tier, q, point) PROVE FALSE
  BY <1>6 DEF Send
<1>7. ~CanExecute(circuit[m.provider]) /\ CallAnother(t, tier, m, hc, "detour")
  BY <1>5, <1>6
<1>8. ~(n # NoModel /\ n.provider \in Initialized)
  BY <1>6, <1>7 DEF CallAnother
<1> HIDE DEF m
<1>9. n = NoModel
  BY <1>4, <1>8, FallbackFinds DEF AllHaveClients, Model
<1>10. CASE p = m.provider
  BY <1>7, <1>10
<1>11. CASE p # m.provider
  <2>1. PICK j \in DOMAIN Configs : Configs[j] = p
    BY <1>2 DEF AllHaveClients
  <2>2. Route("mid", {m.provider}, hc) = NoModel
    BY <1>2, <1>4, <1>9, <1>11, <2>1, FallbackMisses
  <2>3. Models[k].provider \in Enabled \ {m.provider}
    BY <1>1, <1>2, <1>11
  <2> QED
    BY <1>1, <1>2, <2>2, <2>3, RouteMisses DEF Tiers
<1> QED
  BY <1>10, <1>11

LEMMA NobodyIsOverlooked ==
  ASSUME AllHaveClients, RouterInv, NEW t \in Tasks, NEW tier \in Tiers,
         Start(t, tier) \/ (HealthAnswers(t) /\ wanted[t] = tier), at'[t] = "idle"
  PROVE  \A p \in Usable(tier, health') : ~CanExecute(circuit[p])
<1>1. at \in [Tasks -> Point]
  BY DEF RouterInv, RequestsInv
<1>2. \E i : GoOnFrom(t, tier, i, health')
  BY DEF Start, HealthAnswers
<1>3. CallSelected(t, tier, health')
  BY <1>1, <1>2 DEF GoOnFrom
<1> QED
  BY <1>1, <1>3, NobodyIsLeft

\* complete() gives a request up unsent only if every provider that could serve
\* it refuses, where every provider is configured and has a client.
THEOREM NobodyGivesUpEarly == AllHaveClients => (RouterSpec => NotGivenUpEarly)
<1> SUFFICES ASSUME AllHaveClients PROVE RouterSpec => NotGivenUpEarly
  OBVIOUS
<1>1. RouterInv /\ [RouterNext]_routerVars =>
        [ \A t \in Tasks, tier \in Tiers :
        (/\ Start(t, tier) \/ (HealthAnswers(t) /\ wanted[t] = tier)
         /\ at'[t] = "idle")
          => \A p \in Usable(tier, health') : ~CanExecute(circuit[p]) ]_routerVars
  BY NobodyIsOverlooked
<1> QED
  BY <1>1, RouterStarts, RouterKeeps, PTL DEF RouterSpec, NotGivenUpEarly
=============================================================================
