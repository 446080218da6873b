----------------------------- MODULE RateLimiter -----------------------------
(***************************************************************************)
(* api/rate_limiter.py: a token bucket per client address, dropped when it *)
(* has not been asked for some time.                                       *)
(*                                                                         *)
(* The locks are never held across a suspension, so that a request is one  *)
(* step.  Time passes in units in which a bucket gains Rate tokens; a      *)
(* bucket knows when it was filled last, as in the code.                   *)
(***************************************************************************)
EXTENDS Integers

CONSTANTS Clients,
          Burst,      \* burst_size
          Rate,       \* requests_per_minute, in tokens per unit of time
          Ttl,        \* stale_bucket_ttl, in units of time
          MaxTime     \* bound on the clock

\* An unused bucket is full again by the time it is dropped: 20 tokens at
\* one a second against ten minutes in create_app.
ASSUME LimiterAssumption ==
  Burst \in Nat \ {0} /\ Rate \in Nat \ {0} /\ Ttl \in Nat /\ MaxTime \in Nat /\ Burst <= Rate * Ttl

VARIABLES buckets,     \* [Clients -> Bucket or NoBucket]
          accessed,    \* [Clients -> time]: bucket_access_times, of those who have a bucket
          now,
          lasting      \* history: the buckets if none had ever been dropped

limiterVars == <<buckets, accessed, now, lasting>>

Bucket == [tokens : 0..Burst, filled : 0..MaxTime]
NoBucket == [tokens |-> -1, filled |-> -1]
FullBucket == [tokens |-> Burst, filled |-> now]

LimiterInit == /\ buckets = [c \in Clients |-> NoBucket] /\ accessed = [c \in Clients |-> 0]
               /\ now = 0 /\ lasting = [c \in Clients |-> [tokens |-> Burst, filled |-> 0]]

\* _refill
Level(b) == LET n == b.tokens + Rate * (now - b.filled) IN IF n < Burst THEN n ELSE Burst

\* try_consume(1.0)
Consume(b) == [tokens |-> IF Level(b) >= 1 THEN Level(b) - 1 ELSE Level(b), filled |-> now]

\* _cleanup_stale_buckets
IsStale(c) == buckets[c] # NoBucket /\ now - accessed[c] > Ttl

\* _get_or_create_bucket, after the cleanup
BucketOf(c) == IF buckets[c] = NoBucket \/ IsStale(c) THEN FullBucket ELSE buckets[c]

\* Mutant of IsAllowed: only the creation of a bucket counts as an access.
IsAllowed_Unseen(c) ==
  /\ buckets' = [d \in Clients |-> IF d = c THEN Consume(BucketOf(c))
                                   ELSE IF IsStale(d) THEN NoBucket ELSE buckets[d]]
  /\ accessed' = [accessed EXCEPT ![c] = IF buckets[c] = NoBucket \/ IsStale(c) THEN now ELSE @]
  /\ lasting' = [lasting EXCEPT ![c] = Consume(@)]
  /\ UNCHANGED now

\* is_allowed, and get_retry_after when it refuses, which fills the bucket
\* to the same level again.
IsAllowed(c) ==
  /\ buckets' = [d \in Clients |-> IF d = c THEN Consume(BucketOf(c))
                                   ELSE IF IsStale(d) THEN NoBucket ELSE buckets[d]]
  /\ accessed' = [accessed EXCEPT ![c] = now]
  /\ lasting' = [lasting EXCEPT ![c] = Consume(@)]
  /\ UNCHANGED now

Pass == now < MaxTime /\ now' = now + 1 /\ UNCHANGED <<buckets, accessed, lasting>>

LimiterNext == Pass \/ \E c \in Clients : IsAllowed(c)

LimiterSpec == LimiterInit /\ [][LimiterNext]_limiterVars
-----------------------------------------------------------------------------
LimiterTypeOK == /\ buckets \in [Clients -> Bucket \cup {NoBucket}] /\ lasting \in [Clients -> Bucket]
                 /\ accessed \in [Clients -> 0..MaxTime] /\ now \in 0..MaxTime

\* Nobody gains a token from a bucket that is dropped and made anew, whoever's
\* request drops it and whenever: every client has at every moment what it
\* would have if buckets were kept for good.
DroppingIsInvisible == \A c \in Clients : Level(BucketOf(c)) = Level(lasting[c])
=============================================================================
