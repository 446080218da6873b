------------------------- MODULE RetryPolicyProofs -------------------------
(***************************************************************************)
(* BreakerAgreesWithAttempts for any keys, errors and limits.  With the    *)
(* type invariant it is inductive: an attempt is appended and the counter  *)
(* updated in one step, and a reset clears both.                           *)
(***************************************************************************)
EXTENDS RetryPolicy, TLAPS

Inv == RetryTypeOK /\ BreakerAgreesWithAttempts

USE RetryAssumption

LEMMA InitInv == RetryInit => Inv
  BY DEF RetryInit, Inv, RetryTypeOK, BreakerAgreesWithAttempts, NewBreaker, Breaker, IsFailureRun

\* A success ends the run of failures, a failure makes it one longer.
LEMMA RunAfterSuccess ==
  ASSUME NEW S, NEW s \in Seq(S), NEW a \in S, a.success
  PROVE  IsFailureRun(Append(s, a), 0)
  BY DEF IsFailureRun

LEMMA RunAfterFailure ==
  ASSUME NEW S, NEW s \in Seq(S), NEW a \in S, ~a.success,
         NEW n \in Nat, IsFailureRun(s, n)
  PROVE  IsFailureRun(Append(s, a), n + 1)
<1> DEFINE t == Append(s, a)
<1>1. /\ Len(t) = Len(s) + 1 /\ t[Len(t)] = a
      /\ \A j \in 1..Len(s) : t[j] = s[j]
  OBVIOUS
<1>2. n + 1 \in 0..Len(t)
  BY <1>1 DEF IsFailureRun
<1>3. \A j \in (Len(t) - (n + 1) + 1)..Len(t) : ~t[j].success
  BY <1>1 DEF IsFailureRun
<1>4. n + 1 < Len(t) => t[Len(t) - (n + 1)].success
  BY <1>1 DEF IsFailureRun
<1> QED
  BY <1>2, <1>3, <1>4 DEF IsFailureRun

\* What the two updates of the breaker compute.
LEMMA AfterSuccessIs ==
  ASSUME NEW b \in Breaker
  PROVE  /\ AfterSuccess(b) \in Breaker
         /\ AfterSuccess(b).consecutive = 0 /\ ~AfterSuccess(b).broken
  BY DEF AfterSuccess, Breaker

LEMMA AfterFailureIs ==
  ASSUME NEW b \in Breaker, NEW fp \in RetryFingerprints \cup {NoError}
  PROVE  /\ AfterFailure(b, fp) \in Breaker
         /\ AfterFailure(b, fp).consecutive = b.consecutive + 1
         /\ AfterFailure(b, fp).broken <=> (b.broken \/ b.consecutive + 1 >= Threshold)
<1>1. CASE b.consecutive + 1 >= Threshold
  BY <1>1 DEF AfterFailure, Breaker
<1>2. CASE ~(b.consecutive + 1 >= Threshold)
  BY <1>2 DEF AfterFailure, Breaker
<1> QED
  BY <1>1, <1>2

LEMMA RecordInv ==
  ASSUME Inv, NEW k \in RetryKeys, NEW ok \in BOOLEAN,
         NEW fp \in RetryFingerprints \cup {NoError}, RecordAttempt(k, ok, fp)
  PROVE  Inv'
<1> DEFINE a == [success |-> ok, fingerprint |-> fp,
                 backoff |-> IF ok THEN 0 ELSE BackoffSeconds(Len(attempts[k]))]
<1>1. a \in Attempt
  <2>1. Len(attempts[k]) \in 0..MaxAttempts
    BY DEF Inv, RetryTypeOK, RecordAttempt
  <2> QED
    BY <2>1 DEF Attempt, Backoffs
<1>2. /\ attempts' = [attempts EXCEPT ![k] = Append(attempts[k], a)]
      /\ attempts[k] \in Seq(Attempt)
  BY DEF RecordAttempt, Inv, RetryTypeOK
<1>3. /\ breaker[k] \in Breaker
      /\ breaker' = [breaker EXCEPT ![k] = IF ok THEN AfterSuccess(breaker[k])
                                           ELSE AfterFailure(breaker[k], fp)]
  BY DEF RecordAttempt, Inv, RetryTypeOK
<1>4. breaker'[k] \in Breaker
  BY <1>3, AfterFailureIs, AfterSuccessIs DEF Inv, RetryTypeOK
<1>5. RetryTypeOK'
  BY <1>1, <1>2, <1>3, <1>4 DEF Inv, RetryTypeOK
<1>6. /\ IsFailureRun(attempts'[k], breaker'[k].consecutive)
      /\ breaker'[k].broken <=> breaker'[k].consecutive >= Threshold
  <2>1. /\ attempts'[k] = Append(attempts[k], a)
        /\ breaker'[k] = IF ok THEN AfterSuccess(breaker[k]) ELSE AfterFailure(breaker[k], fp)
    BY <1>2, <1>3 DEF Inv, RetryTypeOK
  <2>2. CASE ok
    <3>1. breaker'[k].consecutive = 0 /\ ~breaker'[k].broken
      BY <2>1, <2>2, <1>3, AfterSuccessIs
    <3>2. IsFailureRun(attempts'[k], 0)
      BY <2>1, <2>2, <1>1, <1>2, RunAfterSuccess
    <3> QED
      BY <3>1, <3>2
  <2>3. CASE ~ok
    <3>1. /\ breaker'[k].consecutive = breaker[k].consecutive + 1
          /\ breaker'[k].broken <=> (breaker[k].broken \/ breaker'[k].consecutive >= Threshold)
      BY <2>1, <2>3, <1>3, AfterFailureIs
    <3>2. /\ IsFailureRun(attempts[k], breaker[k].consecutive)
          /\ breaker[k].broken <=> breaker[k].consecutive >= Threshold
          /\ breaker[k].consecutive \in Nat
      BY <1>3 DEF Inv, BreakerAgreesWithAttempts, Breaker
    <3>3. IsFailureRun(attempts'[k], breaker[k].consecutive + 1)
      BY <2>1, <2>3, <1>1, <1>2, <3>2, RunAfterFailure
    <3> QED
      BY <3>1, <3>2, <3>3
  <2> QED
    BY <2>2, <2>3
<1>7. BreakerAgreesWithAttempts'
  <2> SUFFICES ASSUME NEW l \in RetryKeys
               PROVE  /\ IsFailureRun(attempts'[l], breaker'[l].consecutive)
                      /\ breaker'[l].broken <=> breaker'[l].consecutive >= Threshold
    BY DEF BreakerAgreesWithAttempts
  <2>1. CASE l = k
    BY <1>6, <2>1
  <2>2. CASE l # k
    <3>1. attempts'[l] = attempts[l] /\ breaker'[l] = breaker[l]
      BY <2>2, <1>2, <1>3 DEF Inv, RetryTypeOK
    <3> QED
      BY <3>1 DEF Inv, BreakerAgreesWithAttempts
  <2> QED
    BY <2>1, <2>2
<1> QED
  BY <1>5, <1>7 DEF Inv

LEMMA ClearInv ==
  ASSUME Inv, ClearAll \/ \E k \in RetryKeys : Reset(k)
  PROVE  Inv'
<1>1. NewBreaker \in Breaker /\ ~NewBreaker.broken /\ NewBreaker.consecutive = 0
  BY DEF NewBreaker, Breaker
<1>2. IsFailureRun(<<>>, 0)
  BY DEF IsFailureRun
<1>3. RetryTypeOK'
  <2>1. <<>> \in Seq(Attempt)
    OBVIOUS
  <2>2. CASE ClearAll
    BY <1>1, <2>1, <2>2 DEF RetryTypeOK, ClearAll
  <2>3. ASSUME NEW k \in RetryKeys, Reset(k) PROVE RetryTypeOK'
    BY <1>1, <2>1, <2>3 DEF Inv, RetryTypeOK, Reset
  <2> QED
    BY <2>2, <2>3
<1>4. ASSUME NEW l \in RetryKeys
      PROVE  \/ attempts'[l] = <<>> /\ breaker'[l] = NewBreaker
             \/ attempts'[l] = attempts[l] /\ breaker'[l] = breaker[l]
  BY DEF Inv, RetryTypeOK, ClearAll, Reset
<1>5. BreakerAgreesWithAttempts'
  BY <1>1, <1>2, <1>4 DEF Inv, BreakerAgreesWithAttempts
<1> QED
  BY <1>3, <1>5 DEF Inv

LEMMA NextInv == Inv /\ [RetryNext]_retryVars => Inv'
<1> SUFFICES ASSUME Inv, [RetryNext]_retryVars PROVE Inv'
  OBVIOUS
<1>1. ASSUME NEW k \in RetryKeys, RecordSuccess(k) PROVE Inv'
  BY <1>1, RecordInv DEF RecordSuccess
<1>2. ASSUME NEW k \in RetryKeys, NEW fp \in RetryFingerprints, RecordFailure(k, fp) PROVE Inv'
  BY <1>2, RecordInv DEF RecordFailure
<1>3. CASE ClearAll \/ \E k \in RetryKeys : Reset(k)
  BY <1>3, ClearInv
<1>4. CASE UNCHANGED retryVars
  BY <1>4 DEF retryVars, Inv, RetryTypeOK, BreakerAgreesWithAttempts
<1> QED
  BY <1>1, <1>2, <1>3, <1>4 DEF RetryNext

\* Attempts and breakers are of their kinds, in every reachable state.
THEOREM TypeCorrect == RetrySpec => []RetryTypeOK
<1>1. Inv => RetryTypeOK
  BY DEF Inv
<1> QED
  BY InitInv, NextInv, <1>1, PTL DEF RetrySpec

\* The breaker of a key is open exactly when the attempts recorded for it
\* end in Threshold failures or more, for every threshold and any order of
\* successes, failures and resets.
THEOREM BreakerIsExact == RetrySpec => []BreakerAgreesWithAttempts
<1>1. Inv => BreakerAgreesWithAttempts
  BY DEF Inv
<1> QED
  BY InitInv, NextInv, <1>1, PTL DEF RetrySpec
=============================================================================
