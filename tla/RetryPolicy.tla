---------------------------- MODULE RetryPolicy ----------------------------
(***************************************************************************)
(* orchestrator/retry_policy.py: the attempts recorded for every (story,   *)
(* stage) pair, the circuit breaker kept beside them, and the backoff that *)
(* each failed attempt is given.                                           *)
(*                                                                         *)
(* A key is a (story, stage) pair.  The code creates attempts and breaker  *)
(* of a key on first use; a key it has not met answers every query as one  *)
(* that is empty and closed does, so both start so here.  Times and log    *)
(* lines are left out.                                                     *)
(***************************************************************************)
EXTENDS Integers, Sequences

CONSTANTS RetryKeys,         \* (story, stage) pairs
          RetryFingerprints, \* error fingerprints
          MaxRetries,        \* max_retries_per_stage
          Threshold,         \* circuit_breaker_threshold
          BaseBackoff,       \* base_backoff_seconds
          BackoffFactor,     \* backoff_factor
          MaxBackoff,        \* max_backoff_seconds
          MaxAttempts        \* bound on the attempts recorded for one key

ASSUME RetryAssumption == /\ MaxRetries \in Nat /\ Threshold \in Nat \ {0}
                          /\ BaseBackoff \in Nat /\ BackoffFactor \in Nat \ {0}
                          /\ MaxBackoff \in Nat /\ MaxAttempts \in Nat

VARIABLES attempts,   \* _attempts
          breaker     \* _circuit_breakers

retryVars == <<attempts, breaker>>

NoError == "no_error"

Breaker == [consecutive : Nat, last : RetryFingerprints \cup {NoError}, broken : BOOLEAN]

NewBreaker == [consecutive |-> 0, last |-> NoError, broken |-> FALSE]

\* get_backoff_seconds, attempt counted from 0.
BackoffSeconds(n) ==
  LET b == BaseBackoff * BackoffFactor ^ n IN IF b < MaxBackoff THEN b ELSE MaxBackoff

Backoffs == {0} \cup {BackoffSeconds(n) : n \in 0..MaxAttempts}
Attempt == [success : BOOLEAN, fingerprint : RetryFingerprints \cup {NoError}, backoff : Backoffs]

RetryTypeOK == /\ attempts \in [RetryKeys -> Seq(Attempt)]
               /\ breaker \in [RetryKeys -> Breaker]

RetryInit == /\ attempts = [k \in RetryKeys |-> <<>>]
             /\ breaker = [k \in RetryKeys |-> NewBreaker]

\* should_retry: the breaker is asked before the count.
ShouldRetry(k) == ~breaker[k].broken /\ Len(attempts[k]) < MaxRetries

\* Mutant of AfterSuccess: the run of failures is not reset.
AfterSuccess_KeepRun(b) == [b EXCEPT !.broken = FALSE]

\* _update_circuit_breaker.
AfterSuccess(b) == [b EXCEPT !.consecutive = 0, !.broken = FALSE]

\* The fingerprint is compared with the last one when that is itself already.
AfterFailure(b, fp) ==
  LET n == b.consecutive + 1
      last == fp
  IN  [consecutive |-> n, last |-> last,
       broken |-> IF n >= Threshold /\ fp = last THEN TRUE ELSE b.broken]

RecordAttempt(k, ok, fp) ==
  /\ Len(attempts[k]) < MaxAttempts
  /\ attempts' = [attempts EXCEPT ![k] = Append(@,
         [success |-> ok, fingerprint |-> fp,
          backoff |-> IF ok THEN 0 ELSE BackoffSeconds(Len(attempts[k]))])]
  /\ breaker' = [breaker EXCEPT ![k] = IF ok THEN AfterSuccess(@) ELSE AfterFailure(@, fp)]

RecordSuccess(k) == RecordAttempt(k, TRUE, NoError)
RecordFailure(k, fp) == RecordAttempt(k, FALSE, fp)

\* Mutant of Reset: the breaker is left as it was.
Reset_AttemptsOnly(k) == /\ attempts' = [attempts EXCEPT ![k] = <<>>]
                         /\ UNCHANGED breaker

\* reset(story, stage) and clear_all().
Reset(k) == /\ attempts' = [attempts EXCEPT ![k] = <<>>]
            /\ breaker' = [breaker EXCEPT ![k] = NewBreaker]

ClearAll == /\ attempts' = [k \in RetryKeys |-> <<>>]
            /\ breaker' = [k \in RetryKeys |-> NewBreaker]

RetryNext == \/ \E k \in RetryKeys : RecordSuccess(k) \/ Reset(k)
             \/ \E k \in RetryKeys, fp \in RetryFingerprints : RecordFailure(k, fp)
             \/ ClearAll

RetrySpec == RetryInit /\ [][RetryNext]_retryVars
-----------------------------------------------------------------------------
\* n is the length of the run of failures a list of attempts ends with.
IsFailureRun(s, n) ==
  /\ n \in 0..Len(s)
  /\ \A j \in (Len(s) - n + 1)..Len(s) : ~s[j].success
  /\ n < Len(s) => s[Len(s) - n].success

\* The breaker never forgets or invents a failure: its counter is the length
\* of the run of failures the recorded attempts end with, whatever their
\* fingerprints, and it is open exactly when that run has reached the
\* threshold.  The source says otherwise: by retry_policy.py:237 ("Open circuit
\* if same error repeats too many times") and by the test that trips it "with
\* same error" (tests/test_orchestrator.py:607) only failures of one fingerprint
\* should open it.  They need not be: the comparison of :240 comes after the
\* assignment of :234 and is always true, and this property is of that code.
BreakerAgreesWithAttempts ==
  \A k \in RetryKeys : /\ IsFailureRun(attempts[k], breaker[k].consecutive)
                       /\ breaker[k].broken <=> breaker[k].consecutive >= Threshold

=============================================================================
