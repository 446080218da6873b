--------------------------- MODULE CircuitBreaker ---------------------------
(***************************************************************************)
(* llm/circuit_breaker.py: one breaker per language-model provider, kept   *)
(* by CircuitBreakerRegistry.  The registry makes a breaker on first use;  *)
(* one it has not made answers as a new one does, so all exist from the    *)
(* start.                                                                  *)
(*                                                                         *)
(* Time is counted in units of which RecoveryTimeout make up               *)
(* recovery_timeout_seconds; only whether that many have passed is ever    *)
(* asked, so counting stops there.                                         *)
(***************************************************************************)
EXTENDS Integers

CONSTANTS Providers,
          FailureThreshold,    \* failure_threshold
          RecoveryTimeout,     \* recovery_timeout_seconds
          HalfOpenMaxCalls     \* half_open_max_calls

ASSUME BreakerAssumption == /\ FailureThreshold \in Nat \ {0}
                            /\ RecoveryTimeout \in Nat \ {0}
                            /\ HalfOpenMaxCalls \in Nat \ {0}

VARIABLES circuit,   \* _breakers
          streak,    \* history: the k last outcomes recorded are successes (k) or failures (-k)
          quiet      \* history: time since the last failure was recorded

circuitVars == <<circuit, streak, quiet>>

\* since is the age of _last_failure_time, Never when that is None.
Never == -1

Circuit == [state : {"closed", "open", "half_open"}, failures : Nat, successes : Nat,
            since : {Never} \cup 0..RecoveryTimeout]

NewCircuit == [state |-> "closed", failures |-> 0, successes |-> 0, since |-> Never]

BreakerTypeOK == /\ circuit \in [Providers -> Circuit]
                 /\ streak \in [Providers -> Int]
                 /\ quiet \in [Providers -> 0..RecoveryTimeout]

BreakerInit == /\ circuit = [p \in Providers |-> NewCircuit]
               /\ streak = [p \in Providers |-> 0]
               /\ quiet = [p \in Providers |-> 0]

\* Mutant of Seen: the age of the last failure is not looked at.
Seen_AtOnce(b) ==
  IF b.state = "open" /\ b.since # Never
  THEN [b EXCEPT !.state = "half_open", !.failures = 0, !.successes = 0]
  ELSE b

\* get_state: looking at an open breaker whose time has come half-opens it.
Seen(b) ==
  IF b.state = "open" /\ b.since = RecoveryTimeout
  THEN [b EXCEPT !.state = "half_open", !.failures = 0, !.successes = 0]
  ELSE b

\* can_execute, which looks first.
CanExecute(b) == \/ Seen(b).state = "closed"
                 \/ Seen(b).state = "half_open" /\ Seen(b).successes < HalfOpenMaxCalls

\* record_success clears the time of the last failure before it looks.
Succeeded(b) ==
  LET c == Seen([state |-> b.state, failures |-> 0, successes |-> b.successes + 1,
                 since |-> Never])
  IN  IF c.state = "half_open" /\ c.successes >= HalfOpenMaxCalls
      THEN [c EXCEPT !.state = "closed", !.successes = 0]
      ELSE c

\* Mutant of Failed: the run of successes goes on.
Failed_KeepSuccesses(b) ==
  [state |-> IF b.failures + 1 >= FailureThreshold THEN "open" ELSE b.state,
   failures |-> b.failures + 1, successes |-> b.successes, since |-> 0]

\* record_failure does not look; in HALF_OPEN it only counts.
Failed(b) ==
  [state |-> IF b.failures + 1 >= FailureThreshold THEN "open" ELSE b.state,
   failures |-> b.failures + 1, successes |-> 0, since |-> 0]

Ask(p) == /\ circuit' = [circuit EXCEPT ![p] = Seen(@)]
          /\ UNCHANGED <<streak, quiet>>

\* The successes in a row, one more included.
OneMore(k) == IF k > 0 THEN k + 1 ELSE 1

Succeeds(p) ==
  /\ circuit' = [circuit EXCEPT ![p] = Succeeded(@)]
  /\ streak' = [streak EXCEPT ![p] = OneMore(@)]
  /\ UNCHANGED quiet

Fails(p) ==
  /\ circuit' = [circuit EXCEPT ![p] = Failed(@)]
  /\ streak' = [streak EXCEPT ![p] = IF @ < 0 THEN @ - 1 ELSE -1]
  /\ quiet' = [quiet EXCEPT ![p] = 0]

\* Both of one call, with no await in between: complete() records the success
\* of an answer, fails to cost it, and records that as a failure.
SucceedsThenFails(p) ==
  /\ circuit' = [circuit EXCEPT ![p] = Failed(Succeeded(@))]
  /\ streak' = [streak EXCEPT ![p] = -1]
  /\ quiet' = [quiet EXCEPT ![p] = 0]

Older(t) == IF t \in 0..(RecoveryTimeout - 1) THEN t + 1 ELSE t

Tick == /\ circuit' = [p \in Providers |-> [circuit[p] EXCEPT !.since = Older(@)]]
        /\ quiet' = [p \in Providers |-> Older(quiet[p])]
        /\ UNCHANGED streak

\* reset(provider): the next use makes a new breaker, which has recorded
\* nothing.  The whole registry is reset provider by provider.
ResetBreaker(p) == /\ circuit' = [circuit EXCEPT ![p] = NewCircuit]
                   /\ streak' = [streak EXCEPT ![p] = 0]
                   /\ quiet' = [quiet EXCEPT ![p] = 0]

BreakerNext == \/ \E p \in Providers : \/ Ask(p) \/ Succeeds(p) \/ Fails(p)
                                       \/ SucceedsThenFails(p) \/ ResetBreaker(p)
               \/ Tick

BreakerSpec == BreakerInit /\ [][BreakerNext]_circuitVars
-----------------------------------------------------------------------------
StateOf(p) == circuit[p].state

\* The counters never exceed what was recorded in a row, so a breaker cannot
\* be opened by failures a success came between, nor closed by successes a
\* failure came between, in whatever order late answers are recorded.
CountersAreRuns ==
  \A p \in Providers :
    /\ circuit[p].failures > 0 => circuit[p].failures <= -streak[p]
    /\ circuit[p].successes > 0 => circuit[p].successes <= streak[p]
    /\ StateOf(p) = "half_open" => circuit[p].successes < HalfOpenMaxCalls

\* A breaker opens on FailureThreshold failures in a row, half-opens when no
\* failure was recorded for RecoveryTimeout, and closes with the last of
\* HalfOpenMaxCalls successes in a row or when it is reset.
MovesAreEarned ==
  [][ \A p \in Providers :
        /\ (StateOf(p)' = "open" /\ StateOf(p) # "open") => streak[p]' <= -FailureThreshold
        /\ (StateOf(p)' = "half_open" /\ StateOf(p) # "half_open") => quiet[p] = RecoveryTimeout
        /\ (StateOf(p)' = "closed" /\ StateOf(p) # "closed")
             => OneMore(streak[p]) >= HalfOpenMaxCalls \/ streak[p]' = 0 ]_circuitVars

\* The docstring of get_state, "Automatically transitions from OPEN to
\* HALF_OPEN if recovery timeout has elapsed": after RecoveryTimeout without
\* a failure the provider is tried again.
QuietIsTriedAgain ==
  \A p \in Providers : quiet[p] = RecoveryTimeout => CanExecute(circuit[p])
=============================================================================
