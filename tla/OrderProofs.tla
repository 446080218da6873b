----------------------------- MODULE OrderProofs -----------------------------
(***************************************************************************)
(* Where the order decides in which something is met: the memory, which    *)
(* keeps the best of its entries, the planner, which puts tasks after      *)
(* those that they depend on, and the search for circular dependencies,    *)
(* for any entries, similarities, answers, projects and bounds.            *)
(***************************************************************************)
EXTENDS Memory, Planner, CodebaseIndex, FiniteSetTheorems, WellFoundedInduction, TLAPS

(***************************************************************************)
(* Lining up by a strict order leaves nobody out and repeats nobody.       *)
(***************************************************************************)
LEMMA LeastIsThere ==
  ASSUME NEW T \in SUBSET Nat, T # {}
  PROVE  \E n \in T : \A m \in T : n <= m
<1>1. PICK n \in T : \A m \in T : ~ (<<m, n>> \in OpToRel(<, Nat))
  BY WFMin, NatLessThanWellFounded, Zenon
<1>2. ASSUME NEW m \in T PROVE n <= m
  <2>1. ~ (<<m, n>> \in {ss \in Nat \X Nat : ss[1] < ss[2]})
    BY <1>1 DEF OpToRel
  <2>2. QED
    BY <2>1
<1>3. QED
  BY <1>2

StrictlyOrders(before, S) ==
  /\ \A x \in S : <<x, x>> \notin before
  /\ \A x, y, z \in S : <<x, y>> \in before /\ <<y, z>> \in before => <<x, z>> \in before
  /\ \A x, y \in S : x # y => <<x, y>> \in before \/ <<y, x>> \in before

LEMMA LineUpIsWhole ==
  ASSUME NEW S, IsFiniteSet(S), NEW before, StrictlyOrders(before, S)
  PROVE  /\ LineUp(S, before) \in [1..Cardinality(S) -> S]
         /\ \A x \in S : \E k \in 1..Cardinality(S) : LineUp(S, before)[k] = x
         /\ \A k, l \in 1..Cardinality(S) :
              k < l => <<LineUp(S, before)[k], LineUp(S, before)[l]>> \in before
<1> DEFINE n == Cardinality(S)
           L == LineUp(S, before)
           Ahead(x) == {y \in S : <<y, x>> \in before}
           rank == [x \in S |-> Cardinality(Ahead(x)) + 1]
<1>1. n \in Nat
  BY FS_CardinalityType
<1>2. ASSUME NEW x \in S PROVE Cardinality(Ahead(x)) \in 0..n - 1
  <2>1. Ahead(x) \in SUBSET S /\ x \notin Ahead(x)
    BY DEF StrictlyOrders
  <2>2. IsFiniteSet(Ahead(x)) /\ Cardinality(Ahead(x)) <= n /\ Cardinality(Ahead(x)) # n
    BY <2>1, FS_Subset
  <2>3. Cardinality(Ahead(x)) \in Nat
    BY <2>2, FS_CardinalityType
  <2>4. QED
    BY <1>1, <2>2, <2>3
<1>3. rank \in [S -> 1..n]
  BY <1>1, <1>2
<1>4. ASSUME NEW x \in S, NEW y \in S, <<x, y>> \in before
      PROVE  rank[x] < rank[y]
  <2>1. Ahead(x) \in SUBSET Ahead(y) /\ x \in Ahead(y) /\ x \notin Ahead(x)
    BY <1>4 DEF StrictlyOrders
  <2>2. IsFiniteSet(Ahead(y))
    BY FS_Subset, Ahead(y) \in SUBSET S
  <2>3. Cardinality(Ahead(x)) <= Cardinality(Ahead(y)) /\ Cardinality(Ahead(x)) # Cardinality(Ahead(y))
    BY <2>1, <2>2, FS_Subset
  <2>4. Cardinality(Ahead(x)) \in Nat /\ Cardinality(Ahead(y)) \in Nat
    BY <1>1, <1>2
  <2>5. QED
    BY <2>3, <2>4
<1>14. \A x \in S : rank[x] = Cardinality(Ahead(x)) + 1
  OBVIOUS
<1> HIDE DEF rank
<1>5. ASSUME NEW x \in S, NEW y \in S, rank[x] = rank[y] PROVE x = y
  <2>1. rank[x] \in Nat /\ rank[y] \in Nat
    BY <1>1, <1>3
  <2>2. <<x, y>> \notin before /\ <<y, x>> \notin before
    BY <1>4, <1>5, <2>1
  <2>3. QED
    BY <2>2 DEF StrictlyOrders
<1>6. rank \in Injection(S, 1..n)
  BY <1>3, <1>5 DEF Injection, IsInjective
<1>7. IsFiniteSet(1..n) /\ Cardinality(1..n) = n
  BY <1>1, FS_Interval
<1>8. rank \in Surjection(S, 1..n)
  BY <1>6, <1>7, FS_Injection
<1>9. ASSUME NEW k \in 1..n PROVE L[k] \in S /\ rank[L[k]] = k
  <2>1. PICK x \in S : rank[x] = k
    <3>1. rank \in {M \in [S -> 1..n] : \A t \in 1..n : \E x \in S : M[x] = t}
      BY <1>8 DEF Surjection
    <3>2. QED
      BY <3>1
  <2>2. Cardinality(Ahead(x)) = k - 1
    <3>1. Cardinality(Ahead(x)) \in 0..n - 1 /\ Cardinality(Ahead(x)) + 1 = k
      BY <1>2, <1>14, <2>1
    <3> HIDE DEF Ahead
    <3>2. QED
      BY <1>1, <3>1
  <2>3. L[k] = CHOOSE y \in S : Cardinality(Ahead(y)) = k - 1
    BY DEF LineUp
  <2>4. L[k] \in S /\ Cardinality(Ahead(L[k])) = k - 1
    BY <2>2, <2>3
  <2>5. QED
    <3>1. rank[L[k]] = (k - 1) + 1
      BY <1>14, <2>4
    <3>2. QED
      BY <1>1, <2>4, <3>1
<1>10. L \in [1..n -> S]
  <2> DEFINE C(k) == CHOOSE x \in S : Cardinality(Ahead(x)) = k - 1
  <2>1. L = [k \in 1..n |-> C(k)]
    BY DEF LineUp
  <2>2. \A k \in 1..n : L[k] = C(k)
    BY <2>1
  <2>3. \A k \in 1..n : C(k) \in S
    BY <1>9, <2>2
  <2> HIDE DEF C
  <2>4. QED
    BY <2>1, <2>3
<1>11. ASSUME NEW x \in S PROVE \E k \in 1..n : L[k] = x
  BY <1>3, <1>5, <1>9
<1>12. ASSUME NEW k \in 1..n, NEW l \in 1..n, k < l PROVE <<L[k], L[l]>> \in before
  <2>1. L[k] \in S /\ L[l] \in S /\ rank[L[k]] = k /\ rank[L[l]] = l
    BY <1>9
  <2>2. L[k] # L[l]
    BY <1>1, <1>12, <2>1
  <2>3. <<L[l], L[k]>> \notin before
    BY <1>1, <1>4, <1>12, <2>1
  <2>4. QED
    BY <2>1, <2>2, <2>3 DEF StrictlyOrders
<1>13. QED
  BY <1>10, <1>11, <1>12

(***************************************************************************)
(* Memory.  Of eviction and merging, the second needs that the positions   *)
(* taken in are well defined, although who takes depends on who is taken.  *)
(***************************************************************************)
Entries == Seq(MemoryEntry)
Worst(s, x) == \A y \in Range(s) : y.score >= x.score    \* no entry of s is worth less than x

\* Eviction keeps the entries that are worth most.
LEMMA EntryFields ==
  ASSUME NEW e \in MemoryEntry
  PROVE  e.score \in 0..FullScore /\ e.score \in Nat /\ e.content \in Contents
<1>1. FullScore \in Nat
  BY DEF FullScore
<1>2. QED
  BY <1>1 DEF MemoryEntry

LEMMA RankedIsWhole ==
  ASSUME NEW s \in Entries
  PROVE  /\ Ranked(s) \in Entries /\ Len(Ranked(s)) = Len(s)
         /\ \A i \in DOMAIN s : \E k \in DOMAIN s : Ranked(s)[k] = s[i]
         /\ \A k, l \in DOMAIN s : k < l => Ranked(s)[k].score >= Ranked(s)[l].score
<1> DEFINE n == Len(s)
           place == LineUp(DOMAIN s, Better(s))
<1>1. n \in Nat /\ DOMAIN s = 1..n /\ \A i \in 1..n : s[i] \in MemoryEntry /\ s[i].score \in Nat
  <2>1. n \in Nat /\ DOMAIN s = 1..n /\ \A i \in 1..n : s[i] \in MemoryEntry
    BY DEF Entries
  <2>2. QED
    BY <2>1, EntryFields
<1>2. IsFiniteSet(DOMAIN s) /\ Cardinality(DOMAIN s) = n
  <2>1. IsFiniteSet(1..n) /\ Cardinality(1..n) = n
    <3>1. 1 \in Int /\ n \in Int /\ n >= 0
      BY <1>1
    <3> HIDE DEF n
    <3>2. IsFiniteSet(1..n) /\ Cardinality(1..n) = IF 1 > n THEN 0 ELSE n - 1 + 1
      BY <3>1, FS_Interval
    <3>3. QED
      BY <3>1, <3>2
  <2>2. QED
    BY <1>1, <2>1
<1>3. \A i, j \in 1..n : <<i, j>> \in Better(s) <=>
        s[i].score > s[j].score \/ (s[i].score = s[j].score /\ i < j)
  BY <1>1 DEF Better
<1>4. StrictlyOrders(Better(s), DOMAIN s)
  <2>1. ASSUME NEW x \in 1..n PROVE <<x, x>> \notin Better(s)
    BY <1>1, <1>3
  <2>2. ASSUME NEW x \in 1..n, NEW y \in 1..n, NEW z \in 1..n,
               <<x, y>> \in Better(s), <<y, z>> \in Better(s)
        PROVE  <<x, z>> \in Better(s)
    BY <1>1, <1>3, <2>2
  <2>3. ASSUME NEW x \in 1..n, NEW y \in 1..n, x # y
        PROVE  <<x, y>> \in Better(s) \/ <<y, x>> \in Better(s)
    BY <1>1, <1>3, <2>3
  <2>4. QED
    BY <1>1, <2>1, <2>2, <2>3 DEF StrictlyOrders
<1> HIDE DEF place
<1>5. /\ place \in [1..n -> 1..n]
      /\ \A i \in 1..n : \E k \in 1..n : place[k] = i
      /\ \A k, l \in 1..n : k < l => <<place[k], place[l]>> \in Better(s)
  BY <1>1, <1>2, <1>4, LineUpIsWhole DEF place
<1>6. Ranked(s) = [k \in 1..n |-> s[place[k]]]
  BY <1>1 DEF Ranked, place
<1>7. Ranked(s) \in Entries /\ Len(Ranked(s)) = n
  BY <1>1, <1>5, <1>6 DEF Entries
<1>8. \A i \in 1..n : \E k \in 1..n : Ranked(s)[k] = s[i]
  <2>1. TAKE i \in 1..n
  <2>2. PICK k \in 1..n : place[k] = i
    BY <1>5
  <2>3. Ranked(s)[k] = s[i]
    BY <1>6, <2>2
  <2>4. QED
    BY <2>3
<1>9. ASSUME NEW k \in 1..n, NEW l \in 1..n, k < l
      PROVE  Ranked(s)[k].score >= Ranked(s)[l].score
  <2>1. <<place[k], place[l]>> \in Better(s) /\ place[k] \in 1..n /\ place[l] \in 1..n
    BY <1>5, <1>9
  <2>2. Ranked(s)[k] = s[place[k]] /\ Ranked(s)[l] = s[place[l]]
    BY <1>6
  <2>3. s[place[k]].score >= s[place[l]].score
    <3> DEFINE x == place[k]
               y == place[l]
    <3>1. x \in 1..n /\ y \in 1..n /\ <<x, y>> \in Better(s)
      BY <2>1
    <3> HIDE DEF x, y
    <3>2. s[x].score >= s[y].score
      BY <1>1, <1>3, <3>1
    <3>3. QED
      BY <3>2 DEF x, y
  <2>4. QED
    BY <2>2, <2>3
<1>10. QED
  BY <1>1, <1>7, <1>8, <1>9

LEMMA StoredKeepsTheBest ==
  ASSUME NEW m \in [Tiers -> Entries], NEW tier \in Tiers, NEW e \in MemoryEntry
  PROVE  /\ Stored(m, tier, e) \in [Tiers -> Entries]
         /\ \A t \in Tiers : \A x \in Range(m[t]) :
              x \in Range(Stored(m, tier, e)[t]) \/ Worst(Stored(m, tier, e)[t], x)
<1> DEFINE s == Append(m[tier], e)
           new == IF Len(s) > Cap THEN SubSeq(Ranked(s), 1, Cap) ELSE s
           n == Len(s)
<1>1. s \in Entries /\ n \in Nat /\ DOMAIN s = 1..n
  BY DEF Entries
<1>2. \A x \in Range(m[tier]) : \E i \in 1..n : x = s[i]
  BY DEF Entries, Range
<1> HIDE DEF s
<1>3. Ranked(s) \in Entries /\ Len(Ranked(s)) = n
  BY <1>1, RankedIsWhole
<1>4. Cap \in Nat \ {0}
  BY MemoryAssumption
<1>5. new \in Entries
  BY <1>1, <1>3, <1>4 DEF Entries
<1>6. Stored(m, tier, e) = [m EXCEPT ![tier] = new]
  BY DEF Stored, s
<1>7. ASSUME NEW x \in Range(m[tier]) PROVE x \in Range(new) \/ Worst(new, x)
  <2>1. PICK i \in 1..n : x = s[i]
    BY <1>2
  <2>2. CASE ~(n > Cap)
    BY <1>1, <2>1, <2>2 DEF Range
  <2>3. CASE n > Cap
    <3>1. PICK k \in 1..n : Ranked(s)[k] = x
      BY <1>1, <2>1, RankedIsWhole
    <3>2. new = [l \in 1..Cap |-> Ranked(s)[l]]
      BY <1>1, <1>3, <1>4, <2>3 DEF Entries
    <3>3. CASE k <= Cap
      BY <1>4, <3>1, <3>2, <3>3 DEF Range
    <3>4. CASE k > Cap
      <4>1. ASSUME NEW l \in 1..Cap PROVE Ranked(s)[l].score >= Ranked(s)[k].score
        BY <1>1, <1>4, <2>3, <3>4, RankedIsWhole
      <4>2. QED
        BY <3>1, <3>2, <4>1 DEF Worst, Range
    <3>5. QED
      BY <1>1, <1>4, <3>3, <3>4
  <2>4. QED
    BY <2>2, <2>3
<1> HIDE DEF new
<1>8. QED
  BY <1>5, <1>6, <1>7

\* The best of some scores.
LEMMA MaxIsBest ==
  ASSUME NEW S \in SUBSET (0..FullScore), S # {}
  PROVE  Max(S) \in S /\ \A x \in S : Max(S) >= x
<1>1. FullScore \in Nat
  BY DEF FullScore
<1> DEFINE T == {n \in Nat : FullScore - n \in S}
<1>2. ASSUME NEW x \in S PROVE FullScore - x \in T /\ x \in Nat /\ FullScore - x \in Nat
  BY <1>1
<1>3. T \in SUBSET Nat /\ T # {}
  BY <1>2
<1>4. PICK n \in T : \A m \in T : n <= m
  BY <1>3, LeastIsThere
<1>5. FullScore - n \in S /\ n \in Nat
  BY <1>4
<1>6. ASSUME NEW x \in S PROVE FullScore - n >= x
  <2>1. n <= FullScore - x /\ x \in Nat
    BY <1>2, <1>4
  <2>2. QED
    BY <1>1, <1>5, <2>1
<1>7. \E y \in S : \A x \in S : y >= x
  BY <1>5, <1>6
<1>8. QED
  BY <1>7 DEF Max

\* Which positions are taken in is decided from the first to the last.
Decided(s, gone, n) == \A j \in 1..n : j \in gone <=> \E i \in DOMAIN s : Takes(gone, s, i, j)

LEMMA MergedIdsExist ==
  ASSUME NEW s \in Entries
  PROVE  /\ MergedIds(s) \in SUBSET DOMAIN s
         /\ \A j \in DOMAIN s : j \in MergedIds(s) <=> \E i \in DOMAIN s : Takes(MergedIds(s), s, i, j)
<1> DEFINE N == Len(s)
           Undecided == {n \in 0..N : \A gone \in SUBSET (1..N) : ~Decided(s, gone, n)}
<1>1. N \in Nat /\ DOMAIN s = 1..N
  BY DEF Entries
<1>2. Undecided = {}
  <2>1. SUFFICES ASSUME Undecided # {} PROVE FALSE
    OBVIOUS
  <2>2. Undecided \in SUBSET Nat
    BY <1>1
  <2>3. PICK n \in Undecided : \A m \in Undecided : n <= m
    BY <2>1, <2>2, LeastIsThere
  <2>4. n \in 0..N /\ \A gone \in SUBSET (1..N) : ~Decided(s, gone, n)
    BY <2>3
  <2>5. n # 0
    BY <2>4 DEF Decided
  <2>6. n - 1 \in 0..N /\ n - 1 \notin Undecided /\ n \in 1..N
    BY <1>1, <2>3, <2>4, <2>5
  <2>7. PICK gone \in SUBSET (1..N) : Decided(s, gone, n - 1)
    BY <2>6
  <2> DEFINE taken == \E i \in 1..n - 1 : Takes(gone, s, i, n)
             more == {j \in 1..n - 1 : j \in gone} \cup (IF taken THEN {n} ELSE {})
  <2>8. more \in SUBSET (1..N) /\ \A j \in 1..n - 1 : j \in more <=> j \in gone
    BY <1>1, <2>6
  <2>9. n \in more <=> taken
    BY <1>1, <2>6
  <2> HIDE DEF more
  <2>10. ASSUME NEW i \in 1..N, NEW j \in 1..n
         PROVE  Takes(more, s, i, j) <=> Takes(gone, s, i, j)
    <3>1. i < j => i \in 1..n - 1
      BY <1>1, <2>6
    <3>2. QED
      BY <2>8, <3>1 DEF Takes
  <2>11. ASSUME NEW j \in 1..n - 1
         PROVE  j \in more <=> \E i \in DOMAIN s : Takes(more, s, i, j)
    <3>1. j \in 1..n
      BY <1>1, <2>6
    <3>2. j \in gone <=> \E i \in DOMAIN s : Takes(gone, s, i, j)
      BY <2>7 DEF Decided
    <3>3. QED
      BY <1>1, <2>8, <2>10, <3>1, <3>2
  <2>12. n \in more <=> \E i \in DOMAIN s : Takes(more, s, i, n)
    <3>1. n \in 1..n
      BY <2>6
    <3>2. ASSUME NEW i \in 1..N, Takes(gone, s, i, n) PROVE i \in 1..n - 1
      BY <1>1, <2>6, <3>2 DEF Takes
    <3>3. taken <=> \E i \in 1..N : Takes(gone, s, i, n)
      BY <1>1, <2>6, <3>2
    <3>4. QED
      BY <1>1, <2>9, <2>10, <3>1, <3>3
  <2>13. Decided(s, more, n)
    <3>1. \A j \in 1..n : j = n \/ j \in 1..n - 1
      BY <2>6
    <3>2. QED
      BY <2>11, <2>12, <3>1 DEF Decided
  <2>14. QED
    BY <2>4, <2>8, <2>13
<1>3. N \in 0..N
  BY <1>1
<1>4. PICK gone \in SUBSET (1..N) : Decided(s, gone, N)
  BY <1>2, <1>3
<1>5. \E g \in SUBSET DOMAIN s : \A j \in DOMAIN s : j \in g <=> \E i \in DOMAIN s : Takes(g, s, i, j)
  BY <1>1, <1>4 DEF Decided
<1>6. QED
  BY <1>5 DEF MergedIds

LEMMA BestScoreIsBest ==
  ASSUME NEW s \in Entries, NEW i \in DOMAIN s
  PROVE  /\ BestScore(s, i) \in 0..FullScore
         /\ \A j \in TakenBy(s, i) \cup {i} : j \in DOMAIN s /\ BestScore(s, i) >= s[j].score
<1> DEFINE T == TakenBy(s, i) \cup {i}
           S == {s[j].score : j \in T}
<1>1. \A j \in DOMAIN s : s[j].score \in 0..FullScore
  <2>1. \A j \in DOMAIN s : s[j] \in MemoryEntry
    BY DEF Entries
  <2>2. QED
    BY <2>1, EntryFields
<1>2. T \in SUBSET DOMAIN s /\ i \in T
  BY MergedIdsExist DEF TakenBy
<1> HIDE DEF T
<1>3. S \in SUBSET (0..FullScore) /\ S # {}
  BY <1>1, <1>2
<1>4. Max(S) \in S /\ \A x \in S : Max(S) >= x
  BY <1>3, MaxIsBest
<1>5. BestScore(s, i) = Max(S)
  BY DEF BestScore, T
<1> HIDE DEF S
<1>6. \A j \in T : s[j].score \in S
  BY DEF S
<1>7. QED
  BY <1>2, <1>3, <1>4, <1>5, <1>6 DEF T

\* Whoever is taken in is taken in by one that stays.
LEMMA TakenByOneThatStays ==
  ASSUME NEW s \in Entries, NEW j \in MergedIds(s)
  PROVE  \E i \in DOMAIN s : /\ i \notin MergedIds(s) /\ j \in TakenBy(s, i)
                             /\ <<s[i].content, s[j].content>> \in Similar
<1> DEFINE takers == {i \in DOMAIN s : Takes(MergedIds(s), s, i, j)}
<1>1. DOMAIN s \in SUBSET Nat /\ DOMAIN s = 1..Len(s) /\ Len(s) \in Nat
  BY DEF Entries
<1>2. j \in DOMAIN s /\ takers # {} /\ takers \in SUBSET Nat
  BY <1>1, MergedIdsExist
<1>3. PICK i \in takers : \A h \in takers : i <= h
  BY <1>2, LeastIsThere
<1>4. ASSUME NEW h \in 1..i - 1 PROVE ~Takes(MergedIds(s), s, h, j)
  <2>1. i \in 1..Len(s) /\ h \in DOMAIN s /\ ~(i <= h)
    BY <1>1, <1>3
  <2>2. QED
    BY <1>3, <2>1
<1>5. j \in TakenBy(s, i)
  BY <1>3, <1>4 DEF TakenBy
<1>6. QED
  BY <1>3, <1>5 DEF Takes

LEMMA MergedKeepsTheBest ==
  ASSUME NEW s \in Entries
  PROVE  /\ Merged(s) \in Entries
         /\ \A e \in Range(s) : \E x \in Range(Merged(s)) :
              x.id = e.id \/ (<<e.content, x.content>> \in Similar /\ x.score >= e.score)
         /\ \A x \in Range(Merged(s)) : \E e \in Range(s) : x.score >= e.score
<1> DEFINE S == (DOMAIN s) \ MergedIds(s)
           place == LineUp(S, Earlier(s))
           n == Cardinality(S)
           NewEntry(i) == [s[i] EXCEPT !.score = BestScore(s, i)]
<1>1. DOMAIN s = 1..Len(s) /\ Len(s) \in Nat /\ \A i \in DOMAIN s : s[i] \in MemoryEntry
  BY DEF Entries
<1>2. IsFiniteSet(S) /\ n \in Nat
  <2>1. IsFiniteSet(1..Len(s))
    BY <1>1, FS_Interval
  <2>2. S \in SUBSET (1..Len(s))
    BY <1>1
  <2>3. IsFiniteSet(S)
    BY <2>1, <2>2, FS_Subset
  <2>4. QED
    BY <2>3, FS_CardinalityType
<1>3. StrictlyOrders(Earlier(s), S)
  <2>1. \A i, j \in 1..Len(s) : <<i, j>> \in Earlier(s) <=> i < j
    BY <1>1 DEF Earlier
  <2>2. S \in SUBSET (1..Len(s))
    BY <1>1
  <2> HIDE DEF S
  <2>3. \A x \in S : x \in 1..Len(s) /\ x \in Nat
    BY <1>1, <2>2
  <2>4. \A x, y \in S : <<x, y>> \in Earlier(s) <=> x < y
    BY <2>1, <2>3
  <2>5. QED
    BY <2>3, <2>4 DEF StrictlyOrders
<1>4. place \in [1..n -> S] /\ \A i \in S : \E k \in 1..n : place[k] = i
  <2> HIDE DEF S
  <2>1. QED
    BY <1>2, <1>3, LineUpIsWhole
<1>5. Merged(s) = [k \in 1..n |-> NewEntry(place[k])]
  <2>1. Merged(s) = [k \in DOMAIN place |-> NewEntry(place[k])]
    BY DEF Merged
  <2>2. DOMAIN place = 1..n
    BY <1>4
  <2>3. QED
    BY <2>1, <2>2
<1> HIDE DEF place, n
<1>6. ASSUME NEW i \in S
      PROVE  NewEntry(i) \in MemoryEntry /\ NewEntry(i).score = BestScore(s, i)
               /\ NewEntry(i).id = s[i].id /\ NewEntry(i).content = s[i].content
  <2>1. i \in DOMAIN s /\ s[i] \in MemoryEntry
    BY <1>1
  <2>2. BestScore(s, i) \in 0..FullScore
    BY <2>1, BestScoreIsBest
  <2>3. QED
    BY <2>1, <2>2 DEF MemoryEntry
<1>7. \A i \in S : NewEntry(i) \in Range(Merged(s))
  BY <1>4, <1>5 DEF Range
<1>8. \A x \in Range(Merged(s)) : \E i \in S : x = NewEntry(i)
  BY <1>4, <1>5 DEF Range
<1>9. Merged(s) \in Entries
  BY <1>2, <1>4, <1>5, <1>6 DEF Entries
<1> HIDE DEF NewEntry
<1>10. ASSUME NEW e \in Range(s)
       PROVE  \E x \in Range(Merged(s)) :
                x.id = e.id \/ (<<e.content, x.content>> \in Similar /\ x.score >= e.score)
  <2>1. PICK j \in DOMAIN s : e = s[j]
    BY DEF Range
  <2>2. CASE j \in S
    BY <1>6, <1>7, <2>1, <2>2
  <2>3. CASE j \in MergedIds(s)
    <3>1. PICK i \in S : j \in TakenBy(s, i) /\ <<s[i].content, s[j].content>> \in Similar
      BY <2>3, TakenByOneThatStays
    <3>2. BestScore(s, i) >= s[j].score
      BY <3>1, BestScoreIsBest
    <3>3. <<s[j].content, s[i].content>> \in Similar
      BY <3>1, MemoryAssumption
    <3>4. QED
      BY <1>6, <1>7, <2>1, <3>2, <3>3
  <2>4. QED
    BY <2>1, <2>2, <2>3
<1>11. ASSUME NEW x \in Range(Merged(s)) PROVE \E e \in Range(s) : x.score >= e.score
  <2>1. PICK i \in S : x = NewEntry(i)
    BY <1>8
  <2>2. x.score >= s[i].score
    BY <1>6, <2>1, BestScoreIsBest
  <2>3. QED
    BY <2>2 DEF Range
<1>12. QED
  BY <1>9, <1>10, <1>11

\* The entries in memory and in the file are entries.
AllEntries(m) == m \in [Tiers -> Entries]
MemoryTyped == /\ made \in 0..MaxMemories /\ restarts \in 0..MaxRestarts
               /\ AllEntries(memories) /\ AllEntries(memoryFile.memories)

LEMMA EmptyIsKept == AllEntries(NoMemory) /\ AllEntries(NoMemoryFile.memories)
  BY DEF AllEntries, NoMemory, NoMemoryFile, Entries

LEMMA LearnKeeps ==
  ASSUME MemoryTyped, NEW tier \in Tiers, NEW c \in Contents, NEW score \in 0..FullScore, NEW P,
         Learn(tier, c, score, P)
  PROVE  /\ MemoryTyped'
         /\ \A t \in Tiers : \A e \in Range(memories[t]) :
              e \in Range(memories'[t]) \/ Worst(memories'[t], e)
<1>1. Fresh(c, score) \in MemoryEntry
  BY MemoryAssumption DEF MemoryTyped, Learn, Fresh, MemoryEntry
<1>2. /\ AllEntries(Stored(memories, tier, Fresh(c, score)))
      /\ memories' = Stored(memories, tier, Fresh(c, score))
  BY <1>1, StoredKeepsTheBest DEF MemoryTyped, AllEntries, Learn
<1>3. MemoryTyped'
  BY <1>2, MemoryAssumption DEF MemoryTyped, Learn
<1>4. QED
  BY <1>1, <1>2, <1>3, StoredKeepsTheBest DEF MemoryTyped, AllEntries

Outlived(e, s) == \/ \E x \in Range(s) : x.id = e.id \/ (<<e.content, x.content>> \in Similar /\ x.score >= e.score)
                  \/ Worst(s, e)

LEMMA ConsolidateKeeps ==
  ASSUME MemoryTyped, NEW done \in BOOLEAN, Consolidate(done)
  PROVE  MemoryTyped' /\ \A t \in Tiers : \A e \in Range(memories[t]) : Outlived(e, memories'[t])
<1>1. PICK m : /\ AllEntries(m) /\ memories' = [t \in Tiers |-> Merged(m[t])]
               /\ \A t \in Tiers : \A e \in Range(memories[t]) : e \in Range(m[t]) \/ Worst(m[t], e)
  <2>1. PICK c \in ContentsOf["semantic"] :
          memories' = [t \in Tiers |-> Merged((IF done THEN Stored(memories, "semantic", Fresh(c, 9000)) ELSE memories)[t])]
    BY DEF Consolidate
  <2>2. CASE ~done
    BY <2>1, <2>2 DEF MemoryTyped
  <2>3. CASE done
    <3>1. 9000 \in 0..FullScore
      BY DEF FullScore
    <3>2. Fresh(c, 9000) \in MemoryEntry
      BY <2>3, <3>1, MemoryAssumption DEF MemoryTyped, Consolidate, Fresh, MemoryEntry
    <3>3. "semantic" \in Tiers
      BY DEF Tiers
    <3>4. QED
      <4> DEFINE new == Fresh(c, 9000)
                 m == Stored(memories, "semantic", new)
      <4>1. memories' = [t \in Tiers |-> Merged(m[t])]
        BY <2>1, <2>3
      <4>2. new \in MemoryEntry /\ memories \in [Tiers -> Entries]
        BY <3>2 DEF MemoryTyped, AllEntries
      <4> HIDE DEF new
      <4>3. m \in [Tiers -> Entries]
        BY <3>3, <4>2, StoredKeepsTheBest
      <4>4. \A t \in Tiers : \A e \in Range(memories[t]) : e \in Range(m[t]) \/ Worst(m[t], e)
        BY <3>3, <4>2, StoredKeepsTheBest
      <4> HIDE DEF m
      <4>5. QED
        BY <4>1, <4>3, <4>4 DEF AllEntries
  <2>4. QED
    BY <2>2, <2>3
<1>2. \A t \in Tiers : m[t] \in Entries
  BY <1>1 DEF AllEntries
<1>3. AllEntries(memories')
  BY <1>1, <1>2, MergedKeepsTheBest DEF AllEntries
<1>4. MemoryTyped'
  BY <1>3, MemoryAssumption DEF MemoryTyped, Consolidate
<1>5. ASSUME NEW t \in Tiers, NEW e \in Range(memories[t]) PROVE Outlived(e, memories'[t])
  <2>1. memories'[t] = Merged(m[t]) /\ m[t] \in Entries
    BY <1>1, <1>2
  <2>2. CASE e \in Range(m[t])
    BY <2>1, <2>2, MergedKeepsTheBest DEF Outlived
  <2>3. CASE Worst(m[t], e)
    <3>1. e.score \in Nat /\ \A y \in Range(m[t]) : y.score \in Nat
      <4>1. \A s \in Entries : \A y \in Range(s) : y \in MemoryEntry
        BY DEF Entries, Range
      <4>2. memories[t] \in Entries
        BY DEF MemoryTyped, AllEntries
      <4>3. QED
        BY <2>1, <4>1, <4>2, EntryFields
    <3>2. ASSUME NEW x \in Range(Merged(m[t])) PROVE x.score >= e.score
      <4>1. x.score \in Nat
        <5>1. Merged(m[t]) \in Entries
          BY <2>1, MergedKeepsTheBest
        <5>2. x \in MemoryEntry
          BY <5>1 DEF Entries, Range
        <5>3. QED
          BY <5>2, EntryFields
      <4>2. PICK y \in Range(m[t]) : x.score >= y.score
        BY <2>1, MergedKeepsTheBest
      <4>3. y.score >= e.score /\ y.score \in Nat
        BY <2>3, <3>1 DEF Worst
      <4>4. QED
        BY <3>1, <4>1, <4>2, <4>3
    <3>3. QED
      BY <2>1, <3>2 DEF Outlived, Worst
  <2>4. QED
    BY <1>1, <2>2, <2>3
<1>6. QED
  BY <1>4, <1>5

LEMMA OthersKeep ==
  ASSUME MemoryTyped, Week \/ Decay
  PROVE  MemoryTyped' /\ \A t \in Tiers : \A e \in Range(memories[t]) : \E x \in Range(memories'[t]) : x.id = e.id
<1>1. /\ DOMAIN memories' = Tiers
      /\ \A t \in Tiers : /\ DOMAIN memories'[t] = DOMAIN memories[t]
                          /\ memories'[t] \in Entries
                          /\ \A i \in DOMAIN memories[t] : memories'[t][i].id = memories[t][i].id
  <2>1. \A t \in Tiers : memories[t] \in Entries
    BY DEF MemoryTyped, AllEntries
  <2>2. CASE Week
    <3>1. memories' = [t \in Tiers |-> [i \in DOMAIN memories[t] |-> [memories[t][i] EXCEPT !.old = TRUE]]]
      BY <2>2 DEF Week
    <3>2. ASSUME NEW s \in Entries
          PROVE  /\ [i \in DOMAIN s |-> [s[i] EXCEPT !.old = TRUE]] \in Entries
                 /\ \A i \in DOMAIN s : [s[i] EXCEPT !.old = TRUE].id = s[i].id
      <4>1. ASSUME NEW e \in MemoryEntry
            PROVE  [e EXCEPT !.old = TRUE] \in MemoryEntry /\ [e EXCEPT !.old = TRUE].id = e.id
        BY DEF MemoryEntry
      <4>2. QED
        BY <4>1 DEF Entries
    <3>3. QED
      BY <2>1, <3>1, <3>2
  <2>3. CASE Decay
    <3> DEFINE Faded(e) == [e EXCEPT !.score = IF e.old THEN (@ * 95) \div 100 ELSE @]
    <3>1. memories' = [t \in Tiers |-> [i \in DOMAIN memories[t] |-> Faded(memories[t][i])]]
      BY <2>3 DEF Decay
    <3>2. ASSUME NEW e \in MemoryEntry
          PROVE  Faded(e) \in MemoryEntry /\ Faded(e).id = e.id
      <4>1. FullScore \in Nat
        BY DEF FullScore
      <4>2. \A n \in 0..FullScore : (n * 95) \div 100 \in 0..FullScore
        BY <4>1
      <4>3. e.score \in 0..FullScore
        BY EntryFields
      <4>4. (e.score * 95) \div 100 \in 0..FullScore
        BY <4>2, <4>3
      <4>5. QED
        BY <4>3, <4>4 DEF MemoryEntry
    <3> HIDE DEF Faded
    <3>3. ASSUME NEW s \in Entries
          PROVE  /\ [i \in DOMAIN s |-> Faded(s[i])] \in Entries
                 /\ \A i \in DOMAIN s : Faded(s[i]).id = s[i].id
      BY <3>2 DEF Entries
    <3>4. QED
      BY <2>1, <3>1, <3>3
  <2>4. QED
    BY <2>2, <2>3
<1>2. AllEntries(memories')
  <2>1. memories' = [t \in Tiers |-> memories'[t]]
    BY DEF Week, Decay
  <2>2. QED
    BY <1>1, <2>1 DEF AllEntries
<1>3. MemoryTyped'
  BY <1>2 DEF MemoryTyped, Week, Decay
<1>4. QED
  BY <1>1, <1>3 DEF Range

\* What a step of the memory does to the entries.
EntriesOutlive ==
  restarts' = restarts => \A t \in Tiers : \A e \in Range(memories[t]) : Outlived(e, memories'[t])

LEMMA MemoryStep ==
  ASSUME MemoryTyped, [MemoryNext]_memoryVars
  PROVE  MemoryTyped' /\ EntriesOutlive
<1>1. \A s \in Entries : \A e \in Range(s) : e \in MemoryEntry
  BY DEF Entries, Range
<1>2. ASSUME NEW tier \in Tiers, NEW c \in Contents, NEW score \in 0..FullScore, NEW P, Learn(tier, c, score, P)
      PROVE  MemoryTyped' /\ EntriesOutlive
  <2>1. MemoryTyped' /\ \A t \in Tiers : \A e \in Range(memories[t]) :
              e \in Range(memories'[t]) \/ Worst(memories'[t], e)
    BY <1>2, LearnKeeps
  <2>2. QED
    BY <2>1 DEF EntriesOutlive, Outlived
<1>3. /\ \A t \in Tiers : t \in DOMAIN ContentsOf /\ ContentsOf[t] \subseteq Contents
      /\ {"episodic", "procedural", "project"} \subseteq Tiers
  BY MemoryAssumption DEF Tiers
<1>4. 5000 \in 0..FullScore /\ 8500 \in 0..FullScore
  BY DEF FullScore
<1>5. CASE StoreLearning
  BY <1>2, <1>3, <1>4, <1>5 DEF StoreLearning
<1>6. CASE RecordErrorFix
  BY <1>2, <1>3, <1>4, <1>6 DEF RecordErrorFix
<1>7. CASE StorePostMortem
  BY <1>2, <1>3, <1>4, <1>7 DEF StorePostMortem
<1>8. CASE \E done \in BOOLEAN : Consolidate(done)
  BY <1>8, ConsolidateKeeps DEF EntriesOutlive
<1>9. CASE Week \/ Decay
  BY <1>9, OthersKeep DEF EntriesOutlive, Outlived
<1>10. CASE RestartMemory
  <2>1. restarts' # restarts
    <3>1. restarts' = restarts + 1 /\ restarts < MaxRestarts
      BY <1>10 DEF RestartMemory
    <3>2. restarts \in Nat
      BY MemoryAssumption DEF MemoryTyped
    <3>3. QED
      BY <3>1, <3>2
  <2>2. AllEntries(NoMemoryFile.memories)
    BY EmptyIsKept
  <2>3. memoryFile' \in {memoryFile, NoMemoryFile, [memories |-> memories, fixes |-> errorFixes]}
    BY <1>10 DEF RestartMemory
  <2>4. AllEntries(memoryFile'.memories)
    BY <2>2, <2>3 DEF MemoryTyped
  <2>5. AllEntries(memories')
    BY <1>10, <2>4 DEF RestartMemory
  <2>6. made' \in 0..MaxMemories /\ restarts' \in 0..MaxRestarts
    BY <1>10, MemoryAssumption DEF RestartMemory, MemoryTyped
  <2>7. QED
    BY <2>1, <2>4, <2>5, <2>6 DEF MemoryTyped, EntriesOutlive
<1>11. CASE UNCHANGED memoryVars
  BY <1>11 DEF memoryVars, MemoryTyped, EntriesOutlive, Outlived
<1>12. QED
  BY <1>5, <1>6, <1>7, <1>8, <1>9, <1>10, <1>11 DEF MemoryNext

(***************************************************************************)
(* Eviction and merging lose nothing that is worth more than what they     *)
(* keep, whatever is similar to what and however small the tiers are.      *)
(***************************************************************************)
THEOREM NothingBetterIsGivenUp == MemorySpec => GoesOnlyForBetter
<1>1. MemoryInit => MemoryTyped
  BY EmptyIsKept, MemoryAssumption DEF MemoryInit, MemoryTyped
<1>2. MemoryTyped /\ [MemoryNext]_memoryVars => MemoryTyped'
  BY MemoryStep
<1>3. MemoryTyped /\ [MemoryNext]_memoryVars =>
        (restarts' = restarts =>
           \A t \in Tiers : \A e \in Range(memories[t]) :
             \/ \E x \in Range(memories'[t]) :
                  x.id = e.id \/ (<<e.content, x.content>> \in Similar /\ x.score >= e.score)
             \/ \A x \in Range(memories'[t]) : x.score >= e.score)
  BY MemoryStep DEF EntriesOutlive, Outlived, Worst
<1>4. QED
  BY <1>1, <1>2, <1>3, PTL DEF MemorySpec, GoesOnlyForBetter

(***************************************************************************)
(* The planner.  The sort works through a queue that grows while it is     *)
(* read.  After each of its rounds (RoundOK) nobody is in the queue twice, *)
(* who is in it and who is not is told by the degrees, and, if no two      *)
(* tasks share an id, the degrees count the dependencies that are still to *)
(* be taken and a task in the queue has all of its own before it.          *)
(***************************************************************************)
\* Positions that are listed are listed once each.
LEMMA ListedIsWhole ==
  ASSUME NEW N \in Nat, NEW S \in SUBSET (1..N)
  PROVE  /\ Listed(S) \in Seq(S)
         /\ \A x \in S : \E k \in DOMAIN Listed(S) : Listed(S)[k] = x
         /\ \A k, l \in DOMAIN Listed(S) : Listed(S)[k] = Listed(S)[l] => k = l
<1> DEFINE before == {p \in S \X S : p[1] < p[2]}
           n == Cardinality(S)
           L == LineUp(S, before)
<1>1. IsFiniteSet(S) /\ n \in Nat
  <2>1. IsFiniteSet(1..N)
    BY FS_Interval
  <2>2. IsFiniteSet(S)
    BY <2>1, FS_Subset
  <2>3. QED
    BY <2>2, FS_CardinalityType
<1>2. StrictlyOrders(before, S)
  <2>1. \A x \in S : x \in Nat
    OBVIOUS
  <2>2. \A x, y \in S : <<x, y>> \in before <=> x < y
    OBVIOUS
  <2> HIDE DEF before
  <2>3. QED
    BY <2>1, <2>2 DEF StrictlyOrders
<1>3. Listed(S) = L
  BY DEF Listed
<1> HIDE DEF before
<1>4. /\ L \in [1..n -> S]
      /\ \A x \in S : \E k \in 1..n : L[k] = x
      /\ \A k, l \in 1..n : k < l => <<L[k], L[l]>> \in before
  BY <1>1, <1>2, LineUpIsWhole
<1> HIDE DEF L, n
<1>5. ASSUME NEW k \in 1..n, NEW l \in 1..n, L[k] = L[l] PROVE k = l
  <2>1. L[k] \in S /\ <<L[k], L[k]>> \notin before
    BY <1>2, <1>4 DEF StrictlyOrders
  <2>2. ~(k < l) /\ ~(l < k)
    BY <1>4, <1>5, <2>1
  <2>3. QED
    BY <1>1, <2>2
<1>6. L \in Seq(S) /\ DOMAIN L = 1..n
  BY <1>1, <1>4
<1>7. QED
  BY <1>3, <1>4, <1>5, <1>6

\* The rounds of the sort are a function of their number, of which the last
\* is what counts.
Round(tasks, q, n) == IF n > Len(q.queue) THEN q ELSE Taken(tasks, q, q.queue[n])
IsRun(tasks, r, m) == /\ DOMAIN r = 0..m /\ r[0] = FirstQueue(tasks)
                      /\ r = [n \in 0..m |-> r[n]]
                      /\ \A n \in 1..m : r[n] = Round(tasks, r[n - 1], n)

LEMMA RunExists == \A tasks : \A m \in Nat : \E r : IsRun(tasks, r, m)
<1> TAKE tasks
<1> DEFINE T == {m \in Nat : \A r : ~IsRun(tasks, r, m)}
<1>1. SUFFICES ASSUME T # {} PROVE FALSE
  OBVIOUS
<1>2. PICK m \in T : \A l \in T : m <= l
  BY <1>1, LeastIsThere
<1>3. m # 0
  <2>1. IsRun(tasks, [n \in 0..0 |-> FirstQueue(tasks)], 0)
    BY DEF IsRun
  <2>2. QED
    BY <1>2, <2>1
<1>4. m - 1 \in Nat /\ m - 1 \notin T
  BY <1>2, <1>3
<1>5. PICK r : IsRun(tasks, r, m - 1)
  BY <1>4
<1> DEFINE s == [n \in 0..m |-> IF n = m THEN Round(tasks, r[m - 1], m) ELSE r[n]]
<1>6. \A n \in 0..m - 1 : s[n] = r[n]
  BY <1>4
<1>7. s[m] = Round(tasks, r[m - 1], m)
  BY <1>2
<1>8. DOMAIN s = 0..m /\ s = [n \in 0..m |-> s[n]]
  OBVIOUS
<1> HIDE DEF s
<1>9. s[0] = FirstQueue(tasks)
  BY <1>4, <1>5, <1>6 DEF IsRun
<1>10. ASSUME NEW n \in 1..m PROVE s[n] = Round(tasks, s[n - 1], n)
  <2>1. n - 1 \in 0..m - 1
    BY <1>4
  <2>2. CASE n = m
    BY <1>6, <1>7, <2>1, <2>2
  <2>3. CASE n # m
    <3>1. n \in 1..m - 1 /\ n \in 0..m - 1
      BY <1>4, <2>3
    <3>2. r[n] = Round(tasks, r[n - 1], n)
      BY <1>5, <3>1 DEF IsRun
    <3>3. QED
      BY <1>6, <2>1, <3>1, <3>2
  <2>4. QED
    BY <2>2, <2>3
<1>11. IsRun(tasks, s, m)
  BY <1>8, <1>9, <1>10 DEF IsRun
<1>12. QED
  BY <1>2, <1>11

LEMMA QueuedIsLast ==
  ASSUME NEW tasks, Len(tasks) \in Nat
  PROVE  \E r : IsRun(tasks, r, Len(tasks)) /\ Queued(tasks) = r[Len(tasks)].queue
<1> DEFINE N == Len(tasks)
           Body(f) == [n \in 0..N |-> IF n = 0 THEN FirstQueue(tasks) ELSE Round(tasks, f[n - 1], n)]
           round == CHOOSE f : f = Body(f)
<1>1. Queued(tasks) = round[N].queue
  BY DEF Queued, Round
<1>2. PICK r : IsRun(tasks, r, N)
  BY RunExists
<1>3. r = Body(r)
  BY <1>2 DEF IsRun
<1>4. round = Body(round)
  BY <1>3
<1> HIDE DEF round
<1>5. IsRun(tasks, round, N)
  <2>1. DOMAIN round = 0..N /\ \A n \in 0..N : round[n] = Body(round)[n]
    BY <1>4
  <2>2. round[0] = FirstQueue(tasks)
    BY <2>1
  <2>3. \A n \in 1..N : round[n] = Round(tasks, round[n - 1], n)
    BY <2>1
  <2>4. round = [n \in 0..N |-> round[n]]
    BY <1>4
  <2>5. QED
    BY <2>1, <2>2, <2>3, <2>4 DEF IsRun
<1>6. QED
  BY <1>1, <1>5

LEMMA WiderSeq ==
  ASSUME NEW E, NEW D \in SUBSET E, NEW L \in Seq(D)
  PROVE  L \in Seq(E) /\ \A k \in DOMAIN L : L[k] \in D
<1>1. Len(L) \in Nat /\ DOMAIN L = 1..Len(L) /\ \A k \in 1..Len(L) : L[k] \in D
  OBVIOUS
<1>2. QED
  BY <1>1

\* A sequence has each of its members once; one after another has those of both.
Once(s) == \A k, l \in DOMAIN s : s[k] = s[l] => k = l
Has(s, x) == \E k \in DOMAIN s : s[k] = x

LEMMA JoinedOnce ==
  ASSUME NEW D, NEW a \in Seq(D), NEW b \in Seq(D), Once(a), Once(b), \A x \in D : ~(Has(a, x) /\ Has(b, x))
  PROVE  /\ a \o b \in Seq(D) /\ Once(a \o b)
         /\ \A x \in D : Has(a \o b, x) <=> Has(a, x) \/ Has(b, x)
         /\ Len(a \o b) = Len(a) + Len(b) /\ \A k \in 1..Len(a) : (a \o b)[k] = a[k]
         /\ \A k \in Len(a) + 1..Len(a) + Len(b) : Has(b, (a \o b)[k])
<1> DEFINE c == a \o b
           m == Len(a)
           n == Len(b)
<1>1. /\ m \in Nat /\ n \in Nat /\ DOMAIN a = 1..m /\ DOMAIN b = 1..n /\ DOMAIN c = 1..m + n
      /\ c \in Seq(D) /\ Len(c) = m + n
      /\ \A k \in 1..m : c[k] = a[k]
      /\ \A k \in m + 1..m + n : c[k] = b[k - m]
  OBVIOUS
<1> HIDE DEF c, m, n
<1>2. ASSUME NEW x \in D PROVE Has(c, x) <=> Has(a, x) \/ Has(b, x)
  <2>1. Has(a, x) => Has(c, x)
    BY <1>1 DEF Has
  <2>2. ASSUME NEW k \in 1..n, b[k] = x PROVE Has(c, x)
    <3>1. k + m \in m + 1..m + n /\ (k + m) - m = k /\ k + m \in 1..m + n
      BY <1>1
    <3>2. QED
      BY <1>1, <2>2, <3>1 DEF Has
  <2>3. ASSUME NEW k \in 1..m + n, c[k] = x PROVE Has(a, x) \/ Has(b, x)
    <3>1. CASE k \in 1..m
      BY <1>1, <2>3, <3>1 DEF Has
    <3>2. CASE k \in m + 1..m + n
      <4>1. k - m \in 1..n
        BY <1>1, <3>2
      <4>2. QED
        BY <1>1, <2>3, <3>2, <4>1 DEF Has
    <3>3. QED
      BY <1>1, <3>1, <3>2
  <2>4. QED
    BY <1>1, <2>1, <2>2, <2>3 DEF Has
<1>3. ASSUME NEW k \in m + 1..m + n PROVE k - m \in 1..n /\ Has(b, c[k])
  <2>1. k - m \in 1..n
    BY <1>1
  <2>2. c[k] = b[k - m]
    BY <1>1
  <2>3. QED
    BY <1>1, <2>1, <2>2 DEF Has
<1>4. \A k \in 1..m : Has(a, c[k])
  BY <1>1 DEF Has
<1>5. \A k \in 1..m + n : c[k] \in D
  BY <1>1
<1>6. ASSUME NEW k \in 1..m + n, NEW l \in 1..m + n, c[k] = c[l] PROVE k = l
  <2>1. CASE k \in 1..m /\ l \in 1..m
    BY <1>1, <1>6, <2>1 DEF Once
  <2>2. CASE k \in m + 1..m + n /\ l \in m + 1..m + n
    <3>1. k - m \in DOMAIN b /\ l - m \in DOMAIN b
      BY <1>1, <1>3, <2>2
    <3>2. b[k - m] = b[l - m]
      BY <1>1, <1>6, <2>2
    <3>3. k - m = l - m
      BY <3>1, <3>2 DEF Once
    <3>4. QED
      BY <1>1, <2>2, <3>3
  <2>3. CASE k \in 1..m /\ l \in m + 1..m + n
    BY <1>3, <1>4, <1>5, <1>6, <2>3
  <2>4. CASE k \in m + 1..m + n /\ l \in 1..m
    BY <1>3, <1>4, <1>5, <1>6, <2>4
  <2>5. QED
    BY <1>1, <2>1, <2>2, <2>3, <2>4
<1>7. QED
  BY <1>1, <1>2, <1>3, <1>6 DEF Once, c, m, n

LEMMA ListedOnce ==
  ASSUME NEW N \in Nat, NEW S \in SUBSET (1..N), NEW E, S \in SUBSET E
  PROVE  Listed(S) \in Seq(E) /\ Once(Listed(S)) /\ \A x : Has(Listed(S), x) <=> x \in S
<1> DEFINE L == Listed(S)
<1>1. /\ L \in Seq(S) /\ \A x \in S : \E k \in DOMAIN L : L[k] = x
      /\ \A k, l \in DOMAIN L : L[k] = L[l] => k = l
  BY ListedIsWhole
<1> HIDE DEF L
<1>2. L \in Seq(E) /\ \A k \in DOMAIN L : L[k] \in S
  BY <1>1, WiderSeq
<1>3. \A x \in S : Has(L, x)
  BY <1>1 DEF Has
<1>4. ASSUME NEW x, Has(L, x) PROVE x \in S
  <2>1. PICK k \in DOMAIN L : L[k] = x
    BY <1>4 DEF Has
  <2>2. QED
    BY <1>2, <2>1
<1>5. QED
  BY <1>1, <1>2, <1>3, <1>4 DEF L, Once

IsTasks(t) == /\ t \in Seq(Range(t))
              /\ \A i \in DOMAIN t : t[i].dependsOn \in Seq(Range(t[i].dependsOn))

LEMMA TaskShape ==
  ASSUME NEW t, IsTasks(t)
  PROVE  /\ Len(t) \in Nat /\ DOMAIN t = 1..Len(t)
         /\ \A i \in DOMAIN t : Len(t[i].dependsOn) \in Nat /\ DOMAIN t[i].dependsOn = 1..Len(t[i].dependsOn)
         /\ Named(t) \in SUBSET (1..Len(t))
<1>1. Len(t) \in Nat /\ DOMAIN t = 1..Len(t)
  BY DEF IsTasks
<1>2. ASSUME NEW i \in DOMAIN t
      PROVE  Len(t[i].dependsOn) \in Nat /\ DOMAIN t[i].dependsOn = 1..Len(t[i].dependsOn)
  <2>1. t[i].dependsOn \in Seq(Range(t[i].dependsOn))
    BY DEF IsTasks
  <2>2. QED
    BY <2>1
<1>3. QED
  BY <1>1, <1>2 DEF Named

LEMMA WaitsAreFinite ==
  ASSUME NEW t, IsTasks(t), NEW i, NEW x
  PROVE  IsFiniteSet(Waits(t, i, x)) /\ Cardinality(Waits(t, i, x)) \in Nat
<1> DEFINE P(j) == {j} \X DOMAIN t[j].dependsOn
           F == {P(j) : j \in DOMAIN t}
           f == [j \in DOMAIN t |-> P(j)]
<1>1. IsFiniteSet(DOMAIN t)
  BY TaskShape, FS_Interval
<1>2. ASSUME NEW j \in DOMAIN t PROVE IsFiniteSet(P(j))
  <2>1. IsFiniteSet({j}) /\ IsFiniteSet(DOMAIN t[j].dependsOn)
    <3>1. Len(t[j].dependsOn) \in Nat /\ DOMAIN t[j].dependsOn = 1..Len(t[j].dependsOn)
      BY TaskShape
    <3>2. IsFiniteSet(1..Len(t[j].dependsOn))
      BY <3>1, FS_Interval
    <3>3. QED
      BY <3>1, <3>2, FS_Singleton
  <2>2. QED
    BY <2>1, FS_Product
<1> HIDE DEF P
<1>3. f \in Surjection(DOMAIN t, F)
  BY DEF Surjection
<1>4. IsFiniteSet(F)
  BY <1>1, <1>3, FS_Surjection
<1>5. IsFiniteSet(UNION F)
  BY <1>2, <1>4, FS_UNION
<1>6. Waits(t, i, x) \in SUBSET UNION F
  BY DEF Waits, P
<1>7. QED
  BY <1>5, <1>6, FS_Subset, FS_CardinalityType

\* Nobody joins the queue twice, and those who wait are those with a degree.
QueueOK(t, q) ==
  /\ q.queue \in Seq(Named(t)) /\ Once(q.queue)
  /\ q.degree \in [Named(t) -> Int]
  /\ \A i \in Named(t) : Has(q.queue, i) <=> q.degree[i] <= 0

LEMMA FirstQueueOK ==
  ASSUME NEW t, IsTasks(t)
  PROVE  QueueOK(t, FirstQueue(t))
<1> DEFINE degree == [i \in Named(t) |-> Len(t[i].dependsOn)]
           S == {i \in Named(t) : degree[i] = 0}
           N == Len(t)
<1>1. N \in Nat /\ Named(t) \in SUBSET (1..N) /\ DOMAIN t = 1..N
  BY TaskShape
<1>2. degree \in [Named(t) -> Nat]
  BY <1>1, TaskShape
<1>3. FirstQueue(t) = [queue |-> Listed(S), degree |-> degree]
  BY DEF FirstQueue
<1> HIDE DEF degree
<1>4. S \in SUBSET (1..N) /\ S \in SUBSET Named(t)
  BY <1>1
<1>5. /\ Listed(S) \in Seq(Named(t)) /\ Once(Listed(S)) /\ \A x : Has(Listed(S), x) <=> x \in S
  <2> HIDE DEF S
  <2>1. QED
    BY <1>1, <1>4, ListedOnce
<1>7. \A i \in Named(t) : Has(Listed(S), i) <=> degree[i] <= 0
  BY <1>2, <1>5
<1>8. QED
  BY <1>2, <1>3, <1>5, <1>7 DEF QueueOK

LEMMA QueueShape ==
  ASSUME NEW t, IsTasks(t), NEW q, QueueOK(t, q)
  PROVE  /\ Len(q.queue) \in Nat /\ DOMAIN q.queue = 1..Len(q.queue)
         /\ \A k \in 1..Len(q.queue) : q.queue[k] \in Named(t) /\ q.queue[k] \in 1..Len(t)
         /\ Len(q.queue) <= Len(t)
         /\ Len(q.queue) = Len(t) => Named(t) = 1..Len(t)
<1> DEFINE u == q.queue
           m == Len(u)
           N == Len(t)
           M == Named(t)
<1>1. u \in Seq(M) /\ Once(u) /\ N \in Nat /\ M \in SUBSET (1..N)
  BY TaskShape DEF QueueOK
<1> HIDE DEF u, N, M
<1>2. m \in Nat /\ DOMAIN u = 1..m /\ u \in [1..m -> M]
  BY <1>1
<1>3. \A k \in 1..m : u[k] \in M /\ u[k] \in 1..N
  BY <1>1, <1>2
<1> HIDE DEF m
<1>4. u \in Injection(1..m, M)
  BY <1>1, <1>2 DEF Injection, IsInjective, Once
<1>5. /\ IsFiniteSet(1..m) /\ Cardinality(1..m) = m
      /\ IsFiniteSet(1..N) /\ Cardinality(1..N) = N
  BY <1>1, <1>2, FS_Interval
<1>6. IsFiniteSet(M) /\ Cardinality(M) <= N /\ (Cardinality(M) = N => M = 1..N)
  <2>1. IsFiniteSet(M) /\ Cardinality(M) <= Cardinality(1..N) /\ (Cardinality(1..N) = Cardinality(M) => 1..N = M)
    BY <1>1, <1>5, FS_Subset, Zenon
  <2>2. QED
    BY <1>5, <2>1
<1>7. m <= Cardinality(M)
  BY <1>4, <1>5, <1>6, FS_Injection
<1>8. Cardinality(M) \in Nat
  BY <1>6, FS_CardinalityType
<1>9. m <= N /\ (m = N => M = 1..N)
  BY <1>1, <1>2, <1>6, <1>7, <1>8
<1>10. QED
  BY <1>2, <1>3, <1>9 DEF u, m, N, M

LEMMA TakenOK ==
  ASSUME NEW t, IsTasks(t), NEW q, QueueOK(t, q), NEW x
  PROVE  /\ QueueOK(t, Taken(t, q, x))
         /\ \A i \in Named(t) : Taken(t, q, x).degree[i] = q.degree[i] - Cardinality(Waits(t, i, x))
         /\ Len(q.queue) <= Len(Taken(t, q, x).queue)
         /\ \A k \in 1..Len(q.queue) : Taken(t, q, x).queue[k] = q.queue[k]
         /\ \A k \in Len(q.queue) + 1..Len(Taken(t, q, x).queue) :
              Taken(t, q, x).degree[Taken(t, q, x).queue[k]] <= 0
<1> DEFINE left == [i \in Named(t) |-> q.degree[i] - Cardinality(Waits(t, i, x))]
           F == Freed(q.degree, left)
           M == Named(t)
           c == q.queue \o Listed(F)
<1>1. Taken(t, q, x) = [queue |-> c, degree |-> left]
  BY DEF Taken
<1>2. /\ q.queue \in Seq(M) /\ Once(q.queue) /\ q.degree \in [M -> Int]
      /\ \A i \in M : Has(q.queue, i) <=> q.degree[i] <= 0
  BY DEF QueueOK
<1>3. \A i \in M : Cardinality(Waits(t, i, x)) \in Nat
  BY WaitsAreFinite
<1>4. \A i \in M : left[i] = q.degree[i] - Cardinality(Waits(t, i, x)) /\ left[i] \in Int /\ left[i] <= q.degree[i]
  BY <1>2, <1>3
<1>5. left \in [M -> Int]
  BY <1>4
<1> HIDE DEF left
<1>6. F = {i \in M : q.degree[i] > 0 /\ left[i] <= 0}
  BY <1>2 DEF Freed
<1> HIDE DEF F
<1>7. F \in SUBSET M /\ M \in SUBSET (1..Len(t)) /\ Len(t) \in Nat
  BY <1>6, TaskShape
<1>8. /\ Listed(F) \in Seq(M) /\ Once(Listed(F)) /\ \A i : Has(Listed(F), i) <=> i \in F
  <2> HIDE DEF M
  <2>1. F \in SUBSET (1..Len(t))
    BY <1>7
  <2>2. QED
    BY <1>7, <2>1, ListedOnce
<1>9. \A i \in M : ~(Has(q.queue, i) /\ Has(Listed(F), i))
  BY <1>2, <1>6, <1>8
<1> DEFINE b == Listed(F)
<1> HIDE DEF M, b
<1>10. /\ c \in Seq(M) /\ Once(c)
       /\ \A i \in M : Has(c, i) <=> Has(q.queue, i) \/ Has(b, i)
       /\ Len(c) = Len(q.queue) + Len(b) /\ \A k \in 1..Len(q.queue) : c[k] = q.queue[k]
       /\ \A k \in Len(q.queue) + 1..Len(q.queue) + Len(b) : Has(b, c[k])
  BY <1>2, <1>8, <1>9, JoinedOnce DEF b
<1> HIDE DEF c
<1>11. \A i \in M : Has(c, i) <=> left[i] <= 0
  <2> TAKE i \in M
  <2>1. Has(c, i) <=> q.degree[i] <= 0 \/ i \in F
    BY <1>2, <1>8, <1>10, Zenon DEF b
  <2>2. q.degree[i] \in Int /\ left[i] \in Int /\ left[i] <= q.degree[i]
    BY <1>2, <1>4
  <2>3. i \in F <=> q.degree[i] > 0 /\ left[i] <= 0
    BY <1>6
  <2>4. (q.degree[i] <= 0 \/ i \in F) <=> left[i] <= 0
    BY <2>2, <2>3
  <2>5. QED
    BY <2>1, <2>4, Zenon
<1>12. Len(q.queue) \in Nat /\ Len(b) \in Nat
  BY <1>2, <1>8 DEF b
<1>13. \A k \in Len(q.queue) + 1..Len(c) : left[c[k]] <= 0
  BY <1>6, <1>8, <1>10 DEF b
<1>14. QueueOK(t, [queue |-> c, degree |-> left])
  BY <1>5, <1>10, <1>11 DEF QueueOK, M
<1>15. QED
  BY <1>1, <1>4, <1>10, <1>12, <1>13, <1>14 DEF M

Distinct(t) == \A i, j \in DOMAIN t : t[i].id = t[j].id => i = j
\* The dependencies of i that none of the tasks X is, and the first n of the queue.
Open(t, i, X) == {k \in DOMAIN t[i].dependsOn : \A x \in X : t[x].id # t[i].dependsOn[k]}
First(u, n) == {x \in {u[k] : k \in DOMAIN u} : \E k \in DOMAIN u : k <= n /\ u[k] = x}

\* The degree of a task is the number of dependencies that have not been taken
\* from the queue, and those of a task in the queue have been taken before it.
Counts(t, q, n) == \A i \in Named(t) : q.degree[i] = Cardinality(Open(t, i, First(q.queue, n)))
Follows(t, u, n) ==
  \A k \in DOMAIN u : \A l \in DOMAIN t[u[k]].dependsOn :
     \E j \in DOMAIN u : j < k /\ j <= n /\ t[u[j]].id = t[u[k]].dependsOn[l]

RoundOK(t, q, n) == QueueOK(t, q) /\ (Distinct(t) => Counts(t, q, n) /\ Follows(t, q.queue, n))

LEMMA AllNamed ==
  ASSUME NEW t, IsTasks(t)
  PROVE  Distinct(t) <=> Named(t) = 1..Len(t)
<1>1. DOMAIN t = 1..Len(t) /\ Len(t) \in Nat
  BY TaskShape
<1>2. QED
  BY <1>1 DEF Distinct, Named

LEMMA OpenIsFinite ==
  ASSUME NEW t, IsTasks(t), NEW i \in DOMAIN t, NEW X
  PROVE  IsFiniteSet(Open(t, i, X)) /\ Cardinality(Open(t, i, X)) \in Nat
         /\ (Cardinality(Open(t, i, X)) <= 0 => Open(t, i, X) = {})
<1>1. Len(t[i].dependsOn) \in Nat /\ DOMAIN t[i].dependsOn = 1..Len(t[i].dependsOn)
  BY TaskShape
<1>2. IsFiniteSet(1..Len(t[i].dependsOn))
  BY <1>1, FS_Interval
<1>3. Open(t, i, X) \in SUBSET (1..Len(t[i].dependsOn))
  BY <1>1 DEF Open
<1>4. IsFiniteSet(Open(t, i, X))
  BY <1>2, <1>3, FS_Subset
<1>5. QED
  BY <1>4, FS_CardinalityType, FS_EmptySet

LEMMA WaitsAreOpen ==
  ASSUME NEW t, IsTasks(t), Distinct(t), NEW i \in DOMAIN t, NEW X \in SUBSET DOMAIN t, NEW x \in DOMAIN t \ X
  PROVE  Cardinality(Open(t, i, X \cup {x})) = Cardinality(Open(t, i, X)) - Cardinality(Waits(t, i, x))
<1> DEFINE d == t[i].dependsOn
           B == {k \in DOMAIN d : d[k] = t[x].id}
           A == Open(t, i, X)
<1>1. IsFiniteSet(A) /\ Cardinality(A) \in Nat
  BY OpenIsFinite
<1>2. \A y \in X : t[y].id # t[x].id
  BY DEF Distinct
<1>3. B \in SUBSET A
  BY <1>2 DEF Open
<1>4. Open(t, i, X \cup {x}) = A \ B
  BY DEF Open
<1>5. Waits(t, i, x) = {i} \X B
  <2>1. \A w : w \in Waits(t, i, x) <=>
          /\ \E j \in DOMAIN t : w \in {j} \X DOMAIN t[j].dependsOn
          /\ t[w[1]].id = t[i].id /\ t[w[1]].dependsOn[w[2]] = t[x].id
    BY DEF Waits
  <2>2. ASSUME NEW w, w \in Waits(t, i, x) PROVE w \in {i} \X B
    <3>1. PICK j \in DOMAIN t : w \in {j} \X DOMAIN t[j].dependsOn
      BY <2>1, <2>2
    <3>2. w[1] = j /\ w[2] \in DOMAIN t[j].dependsOn /\ w = <<w[1], w[2]>>
      BY <3>1
    <3>3. j = i
      BY <2>1, <2>2, <3>2 DEF Distinct
    <3>4. QED
      BY <2>1, <2>2, <3>2, <3>3
  <2>3. ASSUME NEW w, w \in {i} \X B PROVE w \in Waits(t, i, x)
    <3>1. w[1] = i /\ w[2] \in B /\ w \in {i} \X DOMAIN d
      BY <2>3
    <3>2. QED
      BY <2>1, <3>1
  <2>4. QED
    BY <2>2, <2>3
<1> HIDE DEF A, B
<1>6. IsFiniteSet(B) /\ Cardinality(B) \in Nat
  BY <1>1, <1>3, FS_Subset, FS_CardinalityType
<1>7. Cardinality({i} \X B) = Cardinality(B)
  <2>1. IsFiniteSet({i}) /\ Cardinality({i}) = 1
    BY FS_Singleton
  <2>2. Cardinality({i} \X B) = 1 * Cardinality(B)
    BY <1>6, <2>1, FS_Product
  <2>3. QED
    BY <1>6, <2>2
<1>8. Cardinality(A \ B) = Cardinality(A) - Cardinality(B)
  <2>1. A \cap B = B
    BY <1>3
  <2>2. Cardinality(A \ B) = Cardinality(A) - Cardinality(A \cap B)
    BY <1>1, FS_Difference
  <2>3. QED
    BY <2>1, <2>2
<1>9. QED
  BY <1>4, <1>5, <1>7, <1>8 DEF A

LEMMA RoundsStart ==
  ASSUME NEW t, IsTasks(t)
  PROVE  RoundOK(t, FirstQueue(t), 0)
<1> DEFINE q == FirstQueue(t)
           u == q.queue
<1>1. QueueOK(t, q)
  BY FirstQueueOK
<1>2. \A i \in Named(t) : q.degree[i] = Len(t[i].dependsOn)
  BY DEF FirstQueue
<1> HIDE DEF q
<1>3. DOMAIN u = 1..Len(u) /\ Len(u) \in Nat /\ \A k \in 1..Len(u) : u[k] \in Named(t)
  BY <1>1, QueueShape
<1> HIDE DEF u
<1>4. First(u, 0) = {}
  BY <1>3 DEF First
<1>5. Counts(t, q, 0)
  <2> SUFFICES ASSUME NEW i \in Named(t) PROVE q.degree[i] = Cardinality(Open(t, i, First(q.queue, 0)))
    BY DEF Counts
  <2>1. i \in DOMAIN t
    BY DEF Named
  <2>2. Len(t[i].dependsOn) \in Nat /\ DOMAIN t[i].dependsOn = 1..Len(t[i].dependsOn)
    BY <2>1, TaskShape
  <2>3. Open(t, i, {}) = 1..Len(t[i].dependsOn)
    BY <2>2 DEF Open
  <2>4. Cardinality(1..Len(t[i].dependsOn)) = Len(t[i].dependsOn)
    BY <2>2, FS_Interval
  <2>5. QED
    BY <1>2, <1>4, <2>3, <2>4 DEF u
<1>6. Follows(t, u, 0)
  <2> SUFFICES ASSUME NEW k \in DOMAIN u, NEW l \in DOMAIN t[u[k]].dependsOn PROVE FALSE
    BY DEF Follows
  <2>1. u[k] \in Named(t) /\ u[k] \in DOMAIN t
    BY <1>3 DEF Named
  <2>2. q.degree[u[k]] <= 0
    BY <1>1, <2>1 DEF QueueOK, Has, u
  <2>3. DOMAIN t[u[k]].dependsOn = 1..Len(t[u[k]].dependsOn) /\ Len(t[u[k]].dependsOn) \in Nat
    BY <2>1, TaskShape
  <2>4. QED
    BY <1>2, <2>1, <2>2, <2>3
<1>7. QED
  BY <1>1, <1>5, <1>6 DEF RoundOK, q, u

LEMMA RoundsKeep ==
  ASSUME NEW t, IsTasks(t), NEW q, NEW n \in Nat, RoundOK(t, q, n)
  PROVE  RoundOK(t, Round(t, q, n + 1), n + 1)
<1> DEFINE u == q.queue
           m == Len(u)
<1>1. QueueOK(t, q) /\ (Distinct(t) => Counts(t, q, n) /\ Follows(t, u, n))
  BY DEF RoundOK
<1>2. DOMAIN u = 1..m /\ m \in Nat /\ \A k \in 1..m : u[k] \in Named(t) /\ u[k] \in DOMAIN t
  BY <1>1, QueueShape, TaskShape
<1>3. CASE n + 1 > m
  <2>1. Round(t, q, n + 1) = q
    BY <1>3 DEF Round
  <2>2. First(u, n + 1) = First(u, n)
    BY <1>2, <1>3 DEF First
  <2>3. Follows(t, u, n) => Follows(t, u, n + 1)
    BY <1>2, <1>3 DEF Follows
  <2>4. QED
    BY <1>1, <2>1, <2>2, <2>3 DEF RoundOK, Counts
<1>4. CASE n + 1 <= m
  <2> DEFINE x == u[n + 1]
             r == Taken(t, q, x)
             v == r.queue
  <2>1. Round(t, q, n + 1) = r
    BY <1>2, <1>4 DEF Round
  <2>2. /\ QueueOK(t, r)
        /\ \A i \in Named(t) : r.degree[i] = q.degree[i] - Cardinality(Waits(t, i, x))
        /\ m <= Len(v) /\ \A k \in 1..m : v[k] = u[k]
        /\ \A k \in m + 1..Len(v) : r.degree[v[k]] <= 0
    BY <1>1, TakenOK
  <2> HIDE DEF r, m
  <2>3. DOMAIN v = 1..Len(v) /\ Len(v) \in Nat /\ \A k \in 1..Len(v) : v[k] \in Named(t) /\ v[k] \in DOMAIN t
    BY <2>2, QueueShape, TaskShape
  <2>4. n + 1 \in 1..m /\ x \in DOMAIN t /\ x \in Named(t)
    BY <1>2, <1>4
  <2>5. Once(u)
    BY <1>1 DEF QueueOK
  <2> HIDE DEF u, v
  <2>6. x \notin First(u, n)
    BY <1>2, <2>4, <2>5 DEF First, Once
  <2>7. First(u, n) \in SUBSET DOMAIN t
    BY <1>2 DEF First
  <2>8. First(v, n + 1) = First(u, n) \cup {x}
    <3>1. ASSUME NEW y \in First(v, n + 1) PROVE y \in First(u, n) \cup {x}
      <4>1. PICK k \in 1..Len(v) : k <= n + 1 /\ v[k] = y
        BY <2>3, <3>1 DEF First
      <4>2. k \in 1..m /\ v[k] = u[k]
        BY <1>2, <2>2, <2>4, <4>1
      <4>3. CASE k = n + 1
        BY <4>1, <4>2, <4>3
      <4>4. CASE k <= n
        BY <1>2, <4>1, <4>2, <4>4 DEF First
      <4>5. QED
        BY <4>1, <4>3, <4>4
    <3>2. ASSUME NEW y \in First(u, n) PROVE y \in First(v, n + 1)
      <4>1. PICK k \in 1..m : k <= n /\ u[k] = y
        BY <1>2, <3>2 DEF First
      <4>2. k \in 1..Len(v) /\ v[k] = y /\ k <= n + 1
        BY <1>2, <2>2, <2>3, <4>1
      <4>3. QED
        BY <2>3, <4>2 DEF First
    <3>3. x \in First(v, n + 1)
      <4>1. n + 1 \in 1..Len(v) /\ v[n + 1] = x
        BY <1>2, <2>2, <2>3, <2>4
      <4>2. QED
        BY <2>3, <4>1 DEF First
    <3>4. QED
      BY <3>1, <3>2, <3>3
  <2>9. ASSUME Distinct(t) PROVE Counts(t, r, n + 1)
    <3> SUFFICES ASSUME NEW i \in Named(t) PROVE r.degree[i] = Cardinality(Open(t, i, First(v, n + 1)))
      BY DEF Counts, v
    <3>1. i \in DOMAIN t
      BY DEF Named
    <3>2. q.degree[i] = Cardinality(Open(t, i, First(u, n)))
      BY <1>1, <2>9 DEF Counts, u
    <3> HIDE DEF x
    <3>3. Cardinality(Open(t, i, First(u, n) \cup {x})) =
            Cardinality(Open(t, i, First(u, n))) - Cardinality(Waits(t, i, x))
      BY <2>4, <2>6, <2>7, <2>9, <3>1, WaitsAreOpen
    <3>4. QED
      BY <2>2, <2>8, <3>2, <3>3
  <2>10. ASSUME Distinct(t) PROVE Follows(t, v, n + 1)
    <3> SUFFICES ASSUME NEW k \in DOMAIN v, NEW l \in DOMAIN t[v[k]].dependsOn
                 PROVE  \E j \in DOMAIN v : j < k /\ j <= n + 1 /\ t[v[j]].id = t[v[k]].dependsOn[l]
      BY DEF Follows
    <3>1. k \in 1..Len(v)
      BY <2>3
    <3>2. CASE k \in 1..m
      <4>1. v[k] = u[k]
        BY <2>2, <3>2
      <4>2. PICK j \in 1..m : j < k /\ j <= n /\ t[u[j]].id = t[u[k]].dependsOn[l]
        BY <1>1, <1>2, <2>10, <3>2, <4>1 DEF Follows
      <4>3. v[j] = u[j] /\ j \in 1..Len(v) /\ j <= n + 1
        BY <1>2, <2>2, <2>3, <4>2
      <4>4. QED
        BY <2>3, <4>1, <4>2, <4>3
    <3>3. CASE k \in m + 1..Len(v)
      <4>1. r.degree[v[k]] <= 0 /\ v[k] \in Named(t) /\ v[k] \in DOMAIN t
        BY <2>2, <2>3, <3>1, <3>3
      <4>2. Cardinality(Open(t, v[k], First(v, n + 1))) <= 0
        BY <2>9, <2>10, <4>1 DEF Counts, v
      <4>3. Open(t, v[k], First(v, n + 1)) = {}
        BY <4>1, <4>2, OpenIsFinite
      <4>4. PICK y \in First(v, n + 1) : t[y].id = t[v[k]].dependsOn[l]
        BY <4>3 DEF Open
      <4>5. PICK j \in 1..Len(v) : j <= n + 1 /\ v[j] = y
        BY <2>3 DEF First
      <4>6. j < k
        BY <1>2, <2>4, <3>3, <4>5
      <4>7. QED
        BY <2>3, <4>4, <4>5, <4>6
    <3>4. QED
      BY <1>2, <3>1, <3>2, <3>3
  <2>11. QED
    BY <2>1, <2>2, <2>9, <2>10 DEF RoundOK, v
<1>5. QED
  BY <1>2, <1>3, <1>4

LEMMA RoundsAreOK ==
  ASSUME NEW t, IsTasks(t), NEW m \in Nat, NEW r, IsRun(t, r, m)
  PROVE  \A n \in 0..m : RoundOK(t, r[n], n)
<1> DEFINE T == {n \in 0..m : ~RoundOK(t, r[n], n)}
<1>1. SUFFICES ASSUME T # {} PROVE FALSE
  OBVIOUS
<1>2. PICK n \in T : \A k \in T : n <= k
  <2>1. T \in SUBSET Nat
    OBVIOUS
  <2> HIDE DEF T
  <2>2. QED
    BY <1>1, <2>1, LeastIsThere
<1>3. n # 0
  BY RoundsStart DEF IsRun
<1>4. n - 1 \in 0..m /\ n - 1 \in Nat /\ n - 1 \notin T /\ n \in 1..m
  BY <1>2, <1>3
<1>5. RoundOK(t, r[n - 1], n - 1)
  BY <1>4
<1>6. r[n] = Round(t, r[n - 1], n) /\ (n - 1) + 1 = n
  <2>1. (n - 1) + 1 = n
    BY <1>4
  <2>2. r[n] = Round(t, r[n - 1], n)
    BY <1>4 DEF IsRun
  <2>3. QED
    BY <2>1, <2>2
<1>7. RoundOK(t, Round(t, r[n - 1], (n - 1) + 1), (n - 1) + 1)
  BY <1>4, <1>5, RoundsKeep
<1>8. QED
  BY <1>2, <1>6, <1>7

LEMMA QueuedOK ==
  ASSUME NEW t, IsTasks(t)
  PROVE  LET u == Queued(t)
         IN  /\ u \in Seq(1..Len(t)) /\ Len(u) <= Len(t) /\ Once(u)
             /\ Len(u) \in Nat /\ DOMAIN u = 1..Len(u)
             /\ \A k \in 1..Len(u) : u[k] \in 1..Len(t)
             /\ Len(u) = Len(t) => Distinct(t)
             /\ Distinct(t) =>
                  /\ Follows(t, u, Len(t))
                  /\ \A i \in 1..Len(t) : (\A l \in DOMAIN t[i].dependsOn :
                                             \E k \in 1..Len(u) : t[u[k]].id = t[i].dependsOn[l]) => Has(u, i)
<1> DEFINE u == Queued(t)
           N == Len(t)
<1>1. N \in Nat /\ DOMAIN t = 1..N
  BY TaskShape
<1>2. PICK r : IsRun(t, r, N) /\ u = r[N].queue
  BY <1>1, QueuedIsLast
<1> DEFINE q == r[N]
<1>3. RoundOK(t, q, N)
  BY <1>1, <1>2, RoundsAreOK
<1>4. u = q.queue
  BY <1>2
<1> HIDE DEF q, u
<1>5. QueueOK(t, q) /\ (Distinct(t) => Counts(t, q, N) /\ Follows(t, u, N))
  BY <1>3, <1>4 DEF RoundOK
<1>6. /\ u \in Seq(1..N) /\ Len(u) <= N /\ Once(u)
      /\ Len(u) \in Nat /\ DOMAIN u = 1..Len(u)
      /\ \A k \in 1..Len(u) : u[k] \in 1..N
      /\ Len(u) = N => Distinct(t)
  <2>1. u \in Seq(Named(t)) /\ Once(u) /\ Named(t) \in SUBSET (1..N)
    BY <1>4, <1>5, TaskShape DEF QueueOK
  <2>2. u \in Seq(1..N)
    BY <2>1, WiderSeq
  <2>3. QED
    BY <1>4, <1>5, <2>1, <2>2, QueueShape, AllNamed
<1>7. ASSUME Distinct(t), NEW i \in 1..N,
             \A l \in DOMAIN t[i].dependsOn : \E k \in 1..Len(u) : t[u[k]].id = t[i].dependsOn[l]
      PROVE  Has(u, i)
  <2>1. i \in Named(t) /\ i \in DOMAIN t
    BY <1>1, <1>7, AllNamed
  <2>2. q.degree[i] = Cardinality(Open(t, i, First(u, N)))
    BY <1>4, <1>5, <1>7, <2>1 DEF Counts
  <2>3. \A k \in 1..Len(u) : u[k] \in First(u, N)
    <3> TAKE k \in 1..Len(u)
    <3> HIDE DEF N
    <3>0. Len(u) \in Nat /\ DOMAIN u = 1..Len(u) /\ Len(u) <= N /\ N \in Nat
      BY <1>1, <1>6
    <3>1. k \in DOMAIN u /\ k <= N
      BY <3>0
    <3>2. QED
      BY <3>1 DEF First
  <2>4. Open(t, i, First(u, N)) = {}
    BY <1>7, <2>3 DEF Open
  <2>5. q.degree[i] <= 0
    BY <2>2, <2>4, FS_EmptySet
  <2>6. QED
    BY <1>4, <1>5, <2>1, <2>5 DEF QueueOK
<1>8. QED
  BY <1>5, <1>6, <1>7 DEF u

LEMMA SortedIsInOrder ==
  ASSUME NEW t, IsTasks(t)
  PROVE  LET s == TopologicalSort(t)
         IN  /\ Len(s) = Len(Queued(t)) /\ DOMAIN s = 1..Len(s)
             /\ Len(s) = Len(t) => InOrder(s) /\ ~HasCircle(s)
<1> DEFINE u == Queued(t)
           m == Len(u)
           s == TopologicalSort(t)
           N == Len(t)
<1>1. /\ m \in Nat /\ DOMAIN u = 1..m /\ Once(u) /\ \A k \in 1..m : u[k] \in 1..N
      /\ m = N => Distinct(t)
      /\ Distinct(t) => Follows(t, u, N)
  BY QueuedOK
<1>2. N \in Nat /\ DOMAIN t = 1..N
  BY TaskShape
<1>3. s = [k \in DOMAIN u |-> t[u[k]]]
  BY DEF TopologicalSort
<1> HIDE DEF u, s
<1>4. DOMAIN s = 1..m /\ Len(s) = m /\ \A k \in 1..m : s[k] = t[u[k]]
  BY <1>1, <1>3
<1> HIDE DEF m, N
<1>5. ASSUME m = N PROVE InOrder(s)
  <2> SUFFICES ASSUME NEW k \in 1..m, NEW d \in Range(s[k].dependsOn) PROVE \E j \in 1..k - 1 : s[j].id = d
    BY <1>4 DEF InOrder
  <2>1. u[k] \in DOMAIN t /\ s[k] = t[u[k]]
    BY <1>1, <1>2, <1>4
  <2>2. PICK l \in DOMAIN t[u[k]].dependsOn : t[u[k]].dependsOn[l] = d
    BY <2>1 DEF Range
  <2>3. PICK j \in 1..m : j < k /\ t[u[j]].id = d
    <3>1. Follows(t, u, N) /\ k \in DOMAIN u /\ DOMAIN u = 1..m
      BY <1>1, <1>5
    <3>2. QED
      BY <2>2, <3>1 DEF Follows
  <2>4. j \in 1..k - 1 /\ s[j].id = d
    BY <1>1, <1>4, <2>3
  <2>5. QED
    BY <2>4
<1>6. ASSUME m = N, HasCircle(s) PROVE FALSE
  <2>1. PICK S \in (SUBSET Named(s)) \ {{}} :
          \A i \in S : \E j \in S : s[j].id \in Range(s[i].dependsOn)
    BY <1>6 DEF HasCircle
  <2>2. S \in SUBSET (1..m) /\ S # {} /\ S \in SUBSET Nat /\ Named(s) \in SUBSET (1..m)
    BY <1>4, <2>1 DEF Named
  <2>3. PICK i \in S : \A k \in S : i <= k
    BY <2>2, LeastIsThere
  <2>4. PICK j \in S : s[j].id \in Range(s[i].dependsOn)
    BY <2>1
  <2>5. PICK h \in 1..i - 1 : s[h].id = s[j].id
    BY <1>4, <1>5, <1>6, <2>2, <2>4 DEF InOrder
  <2>6. h \in 1..m /\ j \in 1..m
    BY <1>1, <2>2, <2>5
  <2>7. u[h] = u[j]
    BY <1>1, <1>2, <1>4, <1>6, <2>5, <2>6 DEF Distinct
  <2>8. h = j
    BY <1>1, <2>6, <2>7 DEF Once
  <2>9. QED
    BY <1>1, <2>2, <2>3, <2>5, <2>6, <2>8
<1>7. QED
  BY <1>4, <1>5, <1>6 DEF u, m, s, N

\* Tasks that can be put in order at all are all in the queue.
LEMMA OrderableIsSorted ==
  ASSUME NEW t, IsTasks(t), Orderable(t)
  PROVE  Len(TopologicalSort(t)) = Len(t) /\ IdsOf(TopologicalSort(t)) = IdsOf(t)
<1> DEFINE u == Queued(t)
           m == Len(u)
           s == TopologicalSort(t)
           N == Len(t)
<1>1. N \in Nat /\ DOMAIN t = 1..N
  BY TaskShape
<1>2. PICK p \in [1..N -> 1..N] :
        /\ \A i, j \in 1..N : i # j => p[i] # p[j] /\ t[i].id # t[j].id
        /\ \A i \in 1..N : \A d \in Range(t[i].dependsOn) : \E j \in 1..N : t[j].id = d /\ p[j] < p[i]
  BY DEF Orderable
<1>3. Distinct(t)
  BY <1>1, <1>2 DEF Distinct
<1>4. /\ u \in Seq(1..N) /\ m \in Nat /\ DOMAIN u = 1..m /\ m <= N /\ Once(u) /\ \A k \in 1..m : u[k] \in 1..N
      /\ \A i \in 1..N : (\A l \in DOMAIN t[i].dependsOn :
                            \E k \in 1..m : t[u[k]].id = t[i].dependsOn[l]) => Has(u, i)
  BY <1>3, QueuedOK
<1>5. s = [k \in DOMAIN u |-> t[u[k]]]
  BY DEF TopologicalSort
<1> HIDE DEF u, s, N
<1>6. DOMAIN s = 1..m /\ Len(s) = m /\ \A k \in 1..m : s[k] = t[u[k]]
  BY <1>4, <1>5
<1> HIDE DEF m
<1>7. ASSUME NEW i \in 1..N, ~Has(u, i) PROVE FALSE
  <2> DEFINE T == {p[k] : k \in {j \in 1..N : ~Has(u, j)}}
  <2>1. T \in SUBSET Nat /\ T # {}
    BY <1>2, <1>7
  <2>2. PICK n \in T : \A k \in T : n <= k
    <3> HIDE DEF T
    <3>1. QED
      BY <2>1, LeastIsThere
  <2>3. PICK h \in 1..N : ~Has(u, h) /\ p[h] = n
    BY <2>2
  <2>4. PICK l \in DOMAIN t[h].dependsOn : \A k \in 1..m : t[u[k]].id # t[h].dependsOn[l]
    BY <1>4, <2>3
  <2>5. t[h].dependsOn[l] \in Range(t[h].dependsOn)
    BY <2>4 DEF Range
  <2>6. PICK j \in 1..N : t[j].id = t[h].dependsOn[l] /\ p[j] < p[h]
    BY <1>2, <2>5
  <2>7. ~Has(u, j)
    BY <1>4, <2>4, <2>6 DEF Has
  <2>8. p[j] \in T /\ p[j] \in Nat /\ n \in Nat
    BY <1>2, <2>1, <2>7
  <2> HIDE DEF T
  <2>9. QED
    BY <2>2, <2>3, <2>6, <2>8
<1>8. m = N
  <2>1. u \in Surjection(1..m, 1..N)
    <3>1. u \in [1..m -> 1..N]
      BY <1>4 DEF m
    <3>2. \A i \in 1..N : \E k \in 1..m : u[k] = i
      BY <1>4, <1>7 DEF Has
    <3>3. QED
      BY <3>1, <3>2 DEF Surjection
  <2>2. IsFiniteSet(1..m) /\ Cardinality(1..m) = m /\ Cardinality(1..N) = N
    <3>1. \A k \in Nat : IsFiniteSet(1..k) /\ Cardinality(1..k) = k
      BY FS_Interval
    <3>2. QED
      BY <1>1, <1>4, <3>1
  <2>3. Cardinality(1..N) <= Cardinality(1..m)
    BY <2>1, <2>2, FS_Surjection
  <2>4. QED
    BY <1>1, <1>4, <2>2, <2>3
<1>9. IdsOf(s) = IdsOf(t)
  <2>1. \A k \in 1..m : s[k].id \in IdsOf(t)
    BY <1>1, <1>4, <1>6 DEF IdsOf
  <2>2. ASSUME NEW i \in 1..N PROVE t[i].id \in IdsOf(s)
    <3>1. PICK k \in 1..m : u[k] = i
      BY <1>4, <1>7 DEF Has
    <3>2. QED
      BY <1>6, <3>1 DEF IdsOf
  <2>3. QED
    BY <1>1, <1>6, <2>1, <2>2 DEF IdsOf
<1>10. QED
  BY <1>6, <1>8, <1>9 DEF s, N

LEMMA FallbackOK ==
  ASSUME NEW s
  PROVE  IsTasks(FallbackTasks(s)) /\ InOrder(FallbackTasks(s))
<1> DEFINE a == PlanTask("task-1", <<>>, 3000)
           b == PlanTask("task-2", <<"task-1">>, 1500)
           c == PlanTask("task-3", <<"task-2">>, 1000)
           f == FallbackTasks(s)
<1> HIDE DEF a, b, c
<1>1. f = <<a, b>> \/ f = <<a, b, c>>
  BY DEF FallbackTasks, a, b, c
<1>2. /\ a.id = "task-1" /\ a.dependsOn = <<>>
      /\ b.id = "task-2" /\ b.dependsOn = <<"task-1">>
      /\ c.id = "task-3" /\ c.dependsOn = <<"task-2">>
  BY DEF PlanTask, a, b, c
<1>3. Range(<<>>) = {} /\ Range(<<"task-1">>) = {"task-1"} /\ Range(<<"task-2">>) = {"task-2"}
  BY DEF Range
<1> HIDE DEF f
<1>4. \A x \in {a, b, c} : x.dependsOn \in Seq(Range(x.dependsOn))
  <2>1. <<>> \in Seq({}) /\ <<"task-1">> \in Seq({"task-1"}) /\ <<"task-2">> \in Seq({"task-2"})
    OBVIOUS
  <2>2. QED
    BY <1>2, <1>3, <2>1
<1>5. CASE f = <<a, b>>
  <2>1. Len(f) = 2 /\ DOMAIN f = 1..2 /\ f[1] = a /\ f[2] = b
    BY <1>5
  <2>2. \A i \in 1..2 : i = 1 \/ i = 2
    OBVIOUS
  <2>3. a \in Range(f) /\ b \in Range(f)
    BY <2>1 DEF Range
  <2>4. f \in Seq(Range(f))
    BY <1>5, <2>3
  <2>5. IsTasks(f)
    BY <1>4, <2>1, <2>2, <2>4 DEF IsTasks
  <2>6. InOrder(f)
    <3> SUFFICES ASSUME NEW i \in DOMAIN f, NEW d \in Range(f[i].dependsOn) PROVE \E j \in 1..i - 1 : f[j].id = d
      BY DEF InOrder
    <3>1. i = 2 /\ d = "task-1"
      BY <1>2, <1>3, <2>1, <2>2
    <3>2. 1 \in 1..i - 1 /\ f[1].id = d
      BY <1>2, <2>1, <3>1
    <3>3. QED
      BY <3>2
  <2>7. QED
    BY <2>5, <2>6 DEF f
<1>6. CASE f = <<a, b, c>>
  <2>1. Len(f) = 3 /\ DOMAIN f = 1..3 /\ f[1] = a /\ f[2] = b /\ f[3] = c
    BY <1>6
  <2>2. \A i \in 1..3 : i = 1 \/ i = 2 \/ i = 3
    OBVIOUS
  <2>3. a \in Range(f) /\ b \in Range(f) /\ c \in Range(f)
    BY <2>1 DEF Range
  <2>4. f \in Seq(Range(f))
    BY <1>6, <2>3
  <2>5. IsTasks(f)
    BY <1>4, <2>1, <2>2, <2>4 DEF IsTasks
  <2>6. InOrder(f)
    <3> SUFFICES ASSUME NEW i \in DOMAIN f, NEW d \in Range(f[i].dependsOn) PROVE \E j \in 1..i - 1 : f[j].id = d
      BY DEF InOrder
    <3>1. (i = 2 /\ d = "task-1") \/ (i = 3 /\ d = "task-2")
      BY <1>2, <1>3, <2>1, <2>2
    <3>2. CASE i = 2 /\ d = "task-1"
      <4>1. 1 \in 1..i - 1 /\ f[1].id = d
        BY <1>2, <2>1, <3>2
      <4>2. QED
        BY <4>1
    <3>3. CASE i = 3 /\ d = "task-2"
      <4>1. 2 \in 1..i - 1 /\ f[2].id = d
        BY <1>2, <2>1, <3>3
      <4>2. QED
        BY <4>1
    <3>4. QED
      BY <3>1, <3>2, <3>3
  <2>7. QED
    BY <2>5, <2>6 DEF f
<1>7. QED
  BY <1>1, <1>5, <1>6

\* What parsing leaves alone.
LEMMA ParsedIsTheAnswer ==
  ASSUME NEW r \in Replies
  PROVE  LET t == Parsed(r)
         IN  /\ IsTasks(t) /\ Len(t) = Len(r) /\ DOMAIN t = 1..Len(r) /\ DOMAIN r = 1..Len(r) /\ Len(r) \in Nat
             /\ \A i \in 1..Len(r) : t[i].id = r[i].id /\ t[i].dependsOn = r[i].dependsOn
<1> DEFINE t == Parsed(r)
           N == Len(r)
<1>1. r \in Seq(Range(r)) /\ N \in Nat /\ DOMAIN r = 1..N
  BY PlannerAssumption
<1>2. \A i \in 1..N : /\ r[i] = [id |-> r[i].id, dependsOn |-> r[i].dependsOn, tokens |-> r[i].tokens]
                      /\ r[i].dependsOn \in Seq(Range(r[i].dependsOn))
  BY <1>1, PlannerAssumption DEF PlanTask
<1>3. t = [i \in 1..N |-> [r[i] EXCEPT !.tokens = IF @ < 1000 THEN 1000 ELSE @]]
  BY <1>1 DEF Parsed
<1> HIDE DEF t
<1>4. \A i \in 1..N : t[i].id = r[i].id /\ t[i].dependsOn = r[i].dependsOn
  <2> TAKE i \in 1..N
  <2>1. t[i] = [r[i] EXCEPT !.tokens = IF @ < 1000 THEN 1000 ELSE @]
    BY <1>3
  <2>2. PICK a, d, n : r[i] = [id |-> a, dependsOn |-> d, tokens |-> n]
    BY <1>2
  <2>3. QED
    BY <2>1, <2>2
<1>5. DOMAIN t = 1..N /\ Len(t) = N /\ t \in Seq(Range(t))
  <2>1. DOMAIN t = 1..N /\ t = [i \in 1..N |-> t[i]]
    BY <1>3
  <2>2. \A i \in 1..N : t[i] \in Range(t)
    BY <2>1 DEF Range
  <2> HIDE DEF N
  <2>3. QED
    BY <1>1, <2>1, <2>2
<1>6. IsTasks(t)
  BY <1>2, <1>4, <1>5 DEF IsTasks
<1>7. QED
  BY <1>1, <1>4, <1>5, <1>6 DEF t

LEMMA CreateIsInOrder ==
  ASSUME NEW reading \in AnyReply, NEW s, CreatePlan(reading, s)
  PROVE  PlannedInOrder'
<1> DEFINE answer == reading.tasks
           tasks == IF reading.read THEN Parsed(answer) ELSE FallbackTasks(s)
           sorted == TopologicalSort(tasks)
           final == IF Len(sorted) # Len(tasks) \/ HasCircle(sorted) THEN FallbackTasks(s) ELSE sorted
<1>1. reply' = reading /\ plan'.tasks = final
  BY DEF CreatePlan
<1>0. reading.read => answer \in Replies
  BY DEF AnyReply, Reply, NoReply
<1>2. IsTasks(tasks)
  BY <1>0, FallbackOK, ParsedIsTheAnswer
<1> HIDE DEF tasks, answer
<1>3. InOrder(final)
  BY <1>2, FallbackOK, SortedIsInOrder
<1>4. ASSUME reading.read, Orderable(answer)
      PROVE  IdsOf(final) = IdsOf(answer) /\ Len(final) = Len(answer)
  <2>1. answer \in Replies /\ tasks = Parsed(answer)
    BY <1>0, <1>4 DEF tasks
  <2>2. /\ Len(tasks) = Len(answer) /\ DOMAIN tasks = 1..Len(answer) /\ DOMAIN answer = 1..Len(answer)
        /\ \A i \in 1..Len(answer) : tasks[i].id = answer[i].id /\ tasks[i].dependsOn = answer[i].dependsOn
    BY <2>1, ParsedIsTheAnswer
  <2>3. Orderable(tasks)
    <3> DEFINE places == 1..Len(answer)
    <3>1. PICK p \in [places -> places] :
            /\ \A i, j \in places : i # j => p[i] # p[j] /\ answer[i].id # answer[j].id
            /\ \A i \in places : \A d \in Range(answer[i].dependsOn) :
                 \E j \in places : answer[j].id = d /\ p[j] < p[i]
      BY <1>4 DEF Orderable
    <3>2. /\ \A i, j \in places : i # j => p[i] # p[j] /\ tasks[i].id # tasks[j].id
          /\ \A i \in places : \A d \in Range(tasks[i].dependsOn) :
               \E j \in places : tasks[j].id = d /\ p[j] < p[i]
      <4>1. \A i \in places : tasks[i].id = answer[i].id /\ tasks[i].dependsOn = answer[i].dependsOn
        BY <2>2
      <4> HIDE DEF places
      <4>2. ASSUME NEW i \in places, NEW d \in Range(tasks[i].dependsOn)
            PROVE  \E j \in places : tasks[j].id = d /\ p[j] < p[i]
        <5>1. PICK j \in places : answer[j].id = d /\ p[j] < p[i]
          BY <3>1, <4>1
        <5>2. QED
          BY <4>1, <5>1
      <4>3. QED
        BY <3>1, <4>1, <4>2
    <3>3. places = 1..Len(tasks)
      BY <2>2
    <3> HIDE DEF places
    <3>4. /\ p \in [1..Len(tasks) -> 1..Len(tasks)]
          /\ \A i, j \in 1..Len(tasks) : i # j => p[i] # p[j] /\ tasks[i].id # tasks[j].id
          /\ \A i \in 1..Len(tasks) : \A d \in Range(tasks[i].dependsOn) :
               \E j \in 1..Len(tasks) : tasks[j].id = d /\ p[j] < p[i]
      BY <3>2, <3>3
    <3>5. QED
      BY <3>4 DEF Orderable
  <2>4. Len(sorted) = Len(tasks) /\ IdsOf(sorted) = IdsOf(tasks) /\ ~HasCircle(sorted)
    BY <1>2, <2>3, OrderableIsSorted, SortedIsInOrder
  <2>5. IdsOf(tasks) = IdsOf(answer)
    BY <2>2 DEF IdsOf
  <2>6. QED
    BY <2>2, <2>4, <2>5
<1> HIDE DEF final
<1>5. QED
  BY <1>1, <1>3, <1>4, Zenon DEF PlannedInOrder, answer

\* create_plan: whatever a language model answers.
THEOREM PlansAreInOrder == PlannerSpec => []PlannedInOrder
<1> DEFINE PlannerInv == plan.revision \in Nat /\ PlannedInOrder
<1>1. PlannerInit => PlannerInv
  <2>1. NoPlan.revision = 0
    BY DEF NoPlan
  <2>2. QED
    BY <2>1 DEF PlannerInit, PlannedInOrder
<1>2. PlannerInv /\ [PlannerNext]_plannerVars => PlannerInv'
  <2> SUFFICES ASSUME PlannerInv, [PlannerNext]_plannerVars PROVE PlannerInv'
    OBVIOUS
  <2>1. CASE UNCHANGED plannerVars
    BY <2>1, Zenon DEF plannerVars, PlannedInOrder
  <2>2. ASSUME NEW answer \in AnyReply, RevisePlan(answer) PROVE PlannerInv'
    <3>1. plan.revision \in Nat /\ plan.revision >= 1
      BY <2>2 DEF RevisePlan
    <3>2. plan'.revision = plan.revision + 1
      BY <2>2 DEF RevisePlan
    <3>3. QED
      BY <3>1, <3>2 DEF PlannedInOrder
  <2>3. ASSUME NEW answer \in AnyReply, NEW s \in StoryKinds, CreatePlan(answer, s) PROVE PlannerInv'
    <3>1. plan'.revision = 1
      BY <2>3 DEF CreatePlan
    <3>2. QED
      BY <2>3, <3>1, CreateIsInOrder
  <2>4. QED
    BY <2>1, <2>2, <2>3 DEF PlannerNext
<1>3. QED
  BY <1>1, <1>2, PTL DEF PlannerSpec

-----------------------------------------------------------------------------
(***************************************************************************)
(* The dependency graph of a project.                                      *)
(*                                                                         *)
(* What is known of the search at any time, of the files it has visited,   *)
(* its path, the imports ahead of it and the cycles it has noted: the path *)
(* is a path of the graph and each cycle is one.  A file it has left is    *)
(* done with; as long as there is no cycle, such files import such files   *)
(* only, no file in the path has led elsewhere but to the next or to one   *)
(* that is done with, and among those that are done with there is no       *)
(* circle.                                                                 *)
(***************************************************************************)
\* What is built step by step from a member of a set, each step staying in it,
\* is there after any number of steps.
Reaches(S, base, step, m) == \E r \in [0..m -> S] : /\ r[0] = base
                                                     /\ \A n \in 1..m : r[n] = step[<<r[n - 1], n>>]

LEMMA StepsExist ==
  ASSUME NEW S, NEW base \in S, NEW step \in [S \X Nat -> S]
  PROVE  \A m \in Nat : Reaches(S, base, step, m)
<1> DEFINE Steps(r, m) == r[0] = base /\ \A n \in 1..m : r[n] = step[<<r[n - 1], n>>]
           T == {m \in Nat : \A r \in [0..m -> S] : ~Steps(r, m)}
<1>1. SUFFICES ASSUME T # {} PROVE FALSE
  BY DEF Reaches
<1>2. PICK m \in T : \A l \in T : m <= l
  BY <1>1, LeastIsThere
<1>3. m # 0
  <2>1. [n \in 0..0 |-> base] \in [0..0 -> S] /\ Steps([n \in 0..0 |-> base], 0)
    OBVIOUS
  <2>2. QED
    BY <1>2, <2>1
<1>4. m \in Nat /\ m - 1 \in Nat /\ m - 1 \notin T
  BY <1>2, <1>3
<1>5. PICK r \in [0..m - 1 -> S] : Steps(r, m - 1)
  BY <1>4
<1> DEFINE s == [n \in 0..m |-> IF n = m THEN step[<<r[m - 1], m>>] ELSE r[n]]
<1>6. \A n \in 0..m - 1 : s[n] = r[n]
  BY <1>4
<1>7. s[m] = step[<<r[m - 1], m>>]
  BY <1>4
<1>8. s \in [0..m -> S]
  BY <1>4
<1> HIDE DEF s
<1>9. s[0] = base
  BY <1>4, <1>5, <1>6
<1>10. ASSUME NEW n \in 1..m PROVE s[n] = step[<<s[n - 1], n>>]
  <2>1. n - 1 \in 0..m - 1 /\ s[n - 1] = r[n - 1]
    BY <1>4, <1>6
  <2>2. CASE n = m
    BY <1>7, <2>1, <2>2
  <2>3. CASE n # m
    <3>1. n \in 1..m - 1 /\ n \in 0..m - 1
      BY <1>4, <2>3
    <3>2. QED
      BY <1>5, <1>6, <2>1, <3>1
  <2>4. QED
    BY <2>2, <2>3
<1>11. QED
  BY <1>2, <1>8, <1>9, <1>10

DoneWith(v, p) == {n \in v : \A k \in 1..Len(p) : p[k] # n}

\* Nothing is circular among S.
NoCircle(g, S) == \A C \in SUBSET S : C # {} => \E f \in C : g.imports[f] \cap C = {}

SearchTyped(g, v, p, a, c) ==
  v \in SUBSET g.nodes /\ p \in Seq(v) /\ a \in SUBSET Imports(g) /\ c \in SUBSET Seq(g.nodes)

PathOK(g, p) ==
  /\ \A k, l \in 1..Len(p) : p[k] = p[l] => k = l
  /\ \A k \in 1..Len(p) - 1 : p[k + 1] \in g.imports[p[k]]

NothingMissed(g, v, p, a) ==
  /\ \A e \in Imports(g) : e[1] \in DoneWith(v, p) => e[2] \in DoneWith(v, p)
  /\ \A k \in 1..Len(p) : \A m \in g.nodes :
       <<p[k], m>> \in Imports(g) \ a => m \in DoneWith(v, p) \/ (k < Len(p) /\ m = p[k + 1])
  /\ NoCircle(g, DoneWith(v, p))

SearchIs(g, v, p, a, c) ==
  /\ SearchTyped(g, v, p, a, c)
  /\ PathOK(g, p)
  /\ \A e \in Imports(g) : e[1] \notin v => e \in a
  /\ \A d \in c : IsCycle(g, d)
  /\ c = {} => NothingMissed(g, v, p, a)

LEMMA BeforeTheLast ==
  ASSUME NEW L \in Nat, NEW k \in 1..L
  PROVE  /\ k \in 1..L - 1 \/ k = L
         /\ k # L => k \in 1..L - 1 /\ k + 1 \in 1..L
         /\ \A i \in 1..L - 1 : i \in 1..L /\ i # L
OBVIOUS

LEMMA RestOfSeq ==
  ASSUME NEW S, NEW p \in Seq(S), NEW k \in 1..Len(p)
  PROVE  /\ SubSeq(p, k, Len(p)) \in Seq(S) /\ Len(SubSeq(p, k, Len(p))) = Len(p) - k + 1
         /\ \A i \in 1..Len(p) - k + 1 : SubSeq(p, k, Len(p))[i] = p[k + i - 1]
OBVIOUS

LEMMA FrontOfSeq ==
  ASSUME NEW S, NEW p \in Seq(S), p # <<>>
  PROVE  /\ Front(p) \in Seq(S) /\ Len(Front(p)) = Len(p) - 1
         /\ \A k \in 1..Len(p) - 1 : Front(p)[k] = p[k]
<1>1. Len(p) \in Nat \ {0} /\ \A k \in 1..Len(p) - 1 : p[k] \in S
  OBVIOUS
<1>2. PICK n \in Nat : n = Len(p) - 1
  <2>1. Len(p) - 1 \in Nat
    BY <1>1
  <2>2. QED
    BY <2>1
<1>3. Front(p) = SubSeq(p, 1, n)
  BY <1>2 DEF Front
<1>4. Len(SubSeq(p, 1, n)) = n /\ \A k \in 1..n : SubSeq(p, 1, n)[k] = p[k]
  BY <1>1, <1>2
<1>5. SubSeq(p, 1, n) \in Seq(S)
  BY <1>1, <1>2, <1>4
<1>6. QED
  BY <1>2, <1>3, <1>4, <1>5

LEMMA EntersWell ==
  ASSUME NEW g \in DepGraphs, NEW v, NEW p, NEW a, NEW c, SearchIs(g, v, p, a, c),
         NEW m \in g.nodes, m \notin v, NEW b \in SUBSET a,
         p # <<>> => m \in g.imports[p[Len(p)]],
         p = <<>> => b = a,
         \A e \in a \ b : e = <<p[Len(p)], m>>
  PROVE  SearchIs(g, v \cup {m}, Append(p, m), b, c)
<1> DEFINE w == v \cup {m}
           q == Append(p, m)
           L == Len(p)
<1>1. L = Len(p) /\ p \in Seq(v) /\ L \in Nat /\ v \in SUBSET g.nodes /\ DOMAIN p = 1..L
  BY DEF SearchIs, SearchTyped
<1>2. /\ q \in Seq(w) /\ Len(q) = L + 1 /\ q[L + 1] = m /\ L + 1 \in 1..Len(q)
      /\ \A k \in 1..L : q[k] = p[k] /\ p[k] \in v /\ p[k] # m
  <2>1. p \in Seq(w)
    BY <1>1, WiderSeq
  <2>2. QED
    BY <1>1, <2>1
<1> HIDE DEF q
<1>3. \A k \in 1..Len(q) : k \in 1..L \/ k = L + 1
  BY <1>1, <1>2
<1>4. SearchTyped(g, w, q, b, c)
  BY <1>1, <1>2 DEF SearchIs, SearchTyped
<1>5. PathOK(g, q)
  <2>1. PathOK(g, p)
    BY DEF SearchIs
  <2>2. \A k, l \in 1..Len(q) : q[k] = q[l] => k = l
    BY <1>2, <1>3, <2>1 DEF PathOK
  <2>3. ASSUME NEW k \in 1..Len(q) - 1 PROVE q[k + 1] \in g.imports[q[k]]
    <3>1. k \in 1..L
      BY <1>1, <1>2
    <3>2. CASE k = L
      <4>1. p # <<>>
        BY <1>1, <3>1
      <4>2. QED
        BY <1>2, <3>1, <3>2, <4>1
    <3>3. CASE k # L
      <4>1. k \in 1..L - 1 /\ k + 1 \in 1..L
        BY <1>1, <3>1, <3>3, BeforeTheLast
      <4>2. QED
        BY <1>2, <2>1, <3>1, <4>1 DEF PathOK
    <3>4. QED
      BY <3>2, <3>3
  <2>4. QED
    BY <2>2, <2>3 DEF PathOK
<1>6. ASSUME NEW e \in Imports(g), e[1] \notin w PROVE e \in b
  <2>1. e \in a
    BY <1>6 DEF SearchIs
  <2>2. CASE p = <<>>
    BY <2>1, <2>2
  <2>3. CASE p # <<>>
    <3>1. L \in 1..L
      BY <1>1, <2>3
    <3>2. e[1] # p[L]
      BY <1>2, <1>6, <3>1
    <3>3. e # <<p[L], m>>
      BY <3>2
    <3>4. QED
      BY <2>1, <3>3
  <2>4. QED
    BY <2>2, <2>3
<1>7. DoneWith(w, q) = DoneWith(v, p)
  <2>1. ASSUME NEW x \in DoneWith(w, q) PROVE x \in DoneWith(v, p)
    <3>1. x \in w /\ x # m
      BY <1>2 DEF DoneWith
    <3>2. \A k \in 1..L : k \in 1..Len(q) /\ p[k] = q[k]
      BY <1>1, <1>2
    <3>3. QED
      BY <3>1, <3>2 DEF DoneWith
  <2>2. ASSUME NEW x \in DoneWith(v, p) PROVE x \in DoneWith(w, q)
    <3>1. x \in v /\ x # m
      BY DEF DoneWith
    <3>2. \A k \in 1..Len(q) : q[k] # x
      BY <1>2, <1>3, <3>1 DEF DoneWith
    <3>3. QED
      BY <3>1, <3>2 DEF DoneWith
  <2>3. QED
    BY <2>1, <2>2
<1>8. ASSUME c = {} PROVE NothingMissed(g, w, q, b)
  <2>1. NothingMissed(g, v, p, a)
    BY <1>8 DEF SearchIs
  <2>2. ASSUME NEW k \in 1..Len(q), NEW n \in g.nodes, <<q[k], n>> \in Imports(g) \ b
        PROVE  n \in DoneWith(v, p) \/ (k < Len(q) /\ n = q[k + 1])
    <3>1. CASE k = L + 1
      <4>1. <<m, n>> \in Imports(g) /\ <<m, n>> \in a /\ <<m, n>> \notin b
        BY <1>2, <2>2, <3>1 DEF SearchIs
      <4>2. p # <<>> /\ <<m, n>> = <<p[L], m>>
        BY <4>1
      <4>3. L \in 1..L /\ m = p[L]
        BY <1>1, <4>2
      <4>4. QED
        BY <1>2, <4>3
    <3>2. CASE k \in 1..L /\ <<p[k], n>> \in a
      <4>1. p # <<>> /\ <<p[k], n>> = <<p[L], m>>
        BY <1>2, <2>2, <3>2
      <4>2. L \in 1..L /\ p[k] = p[L] /\ n = m
        BY <1>1, <4>1
      <4>3. k = L
        BY <3>2, <4>2 DEF SearchIs, PathOK
      <4>4. QED
        BY <1>1, <1>2, <4>2, <4>3
    <3>3. CASE k \in 1..L /\ <<p[k], n>> \notin a
      <4>1. <<p[k], n>> \in Imports(g) \ a
        BY <1>2, <2>2, <3>3
      <4>2. n \in DoneWith(v, p) \/ (k < L /\ n = p[k + 1])
        BY <2>1, <3>3, <4>1 DEF NothingMissed
      <4>3. k < L => k + 1 \in 1..L /\ k < Len(q)
        BY <1>1, <1>2, <3>3
      <4>4. QED
        BY <1>2, <4>2, <4>3
    <3>4. QED
      BY <1>3, <3>1, <3>2, <3>3
  <2>3. QED
    BY <1>7, <2>1, <2>2 DEF NothingMissed
<1>9. QED
  BY <1>4, <1>5, <1>6, <1>8 DEF SearchIs, q

\* An import that leads to a file the search has been to.
LEMMA LooksWell ==
  ASSUME NEW g \in DepGraphs, NEW v, NEW p, NEW a, NEW c, SearchIs(g, v, p, a, c),
         NEW m \in v, p # <<>>, <<p[Len(p)], m>> \in a
  PROVE  /\ m \notin Range(p) => SearchIs(g, v, p, a \ {<<p[Len(p)], m>>}, c)
         /\ \A k \in 1..Len(p) :
              p[k] = m => SearchIs(g, v, p, a \ {<<p[Len(p)], m>>}, c \cup {SubSeq(p, k, Len(p))})
<1> DEFINE L == Len(p)
           b == a \ {<<p[L], m>>}
<1>1. L = Len(p) /\ p \in Seq(v) /\ L \in Nat /\ L \in 1..L /\ v \in SUBSET g.nodes /\ DOMAIN p = 1..L /\ a \in SUBSET Imports(g)
  BY DEF SearchIs, SearchTyped
<1>2. p[L] \in v
  BY <1>1
<1>3. \A e \in Imports(g) : e[1] \notin v => e \in b
  BY <1>2 DEF SearchIs
<1>4. ASSUME m \notin Range(p) PROVE SearchIs(g, v, p, b, c)
  <2>1. \A k \in 1..L : p[k] # m
    BY <1>1, <1>4 DEF Range
  <2>2. m \in DoneWith(v, p)
    BY <2>1 DEF DoneWith
  <2>3. ASSUME c = {} PROVE NothingMissed(g, v, p, b)
    <3>1. NothingMissed(g, v, p, a)
      BY <2>3 DEF SearchIs
    <3>2. ASSUME NEW k \in 1..Len(p), NEW n \in g.nodes, <<p[k], n>> \in Imports(g) \ b
          PROVE  n \in DoneWith(v, p) \/ (k < Len(p) /\ n = p[k + 1])
      <4>1. CASE <<p[k], n>> \in a
        BY <2>2, <3>2, <4>1
      <4>2. CASE <<p[k], n>> \notin a
        BY <3>1, <3>2, <4>2 DEF NothingMissed
      <4>3. QED
        BY <4>1, <4>2
    <3>3. QED
      BY <3>1, <3>2 DEF NothingMissed
  <2>4. QED
    BY <1>3, <2>3 DEF SearchIs, SearchTyped
<1>5. ASSUME NEW k \in 1..L, p[k] = m
      PROVE  SearchIs(g, v, p, b, c \cup {SubSeq(p, k, L)})
  <2> DEFINE d == SubSeq(p, k, L)
  <2>1. p \in Seq(g.nodes)
    BY <1>1, WiderSeq
  <2>2. d \in Seq(g.nodes) /\ Len(d) = L - k + 1 /\ \A i \in 1..L - k + 1 : d[i] = p[k + i - 1]
    BY <2>1, RestOfSeq
  <2> HIDE DEF d
  <2>3. IsCycle(g, d)
    <3>1. Len(d) > 0 /\ Len(d) \in Nat /\ DOMAIN d = 1..Len(d)
      BY <1>1, <1>5, <2>2
    <3>2. Range(d) \subseteq g.nodes
      BY <2>2, <3>1 DEF Range
    <3>3. ASSUME NEW i \in 1..Len(d)
          PROVE  d[IF i = Len(d) THEN 1 ELSE i + 1] \in g.imports[d[i]]
      <4>1. CASE i = Len(d)
        <5>1. d[1] = m /\ d[i] = p[L]
          BY <1>1, <1>5, <2>2, <3>1, <4>1
        <5>2. m \in g.imports[p[L]]
          BY <1>1 DEF Imports
        <5>3. QED
          BY <4>1, <5>1, <5>2
      <4>2. CASE i # Len(d)
        <5>1. k + i - 1 \in 1..L - 1 /\ i + 1 \in 1..L - k + 1 /\ i \in 1..L - k + 1
          BY <1>1, <1>5, <2>2, <4>2
        <5>2. d[i] = p[k + i - 1] /\ d[i + 1] = p[(k + i - 1) + 1]
          BY <2>2, <5>1
        <5>3. p[(k + i - 1) + 1] \in g.imports[p[k + i - 1]]
          BY <5>1 DEF SearchIs, PathOK
        <5>4. QED
          BY <4>2, <5>2, <5>3
      <4>3. QED
        BY <4>1, <4>2
    <3>4. QED
      BY <3>1, <3>2, <3>3 DEF IsCycle
  <2>4. SearchTyped(g, v, p, b, c \cup {d})
    BY <2>2 DEF SearchIs, SearchTyped
  <2>5. QED
    BY <1>3, <2>3, <2>4 DEF SearchIs, d
<1>6. QED
  BY <1>4, <1>5

\* The way back from a file that has no more imports ahead.
LEMMA LeavesWell ==
  ASSUME NEW g \in DepGraphs, NEW v, NEW p, NEW a, NEW c, SearchIs(g, v, p, a, c),
         p # <<>>, \A m \in g.nodes : <<p[Len(p)], m>> \notin a
  PROVE  /\ SearchIs(g, v, Front(p), a, c)
         /\ DoneWith(v, Front(p)) = DoneWith(v, p) \cup {p[Len(p)]}
         /\ p[Len(p)] \in g.nodes \ DoneWith(v, p)
<1> DEFINE L == Len(p)
           n == p[L]
           q == Front(p)
           D == DoneWith(v, p)
<1>1. L = Len(p) /\ p \in Seq(v) /\ L \in Nat /\ L \in 1..L /\ v \in SUBSET g.nodes /\ DOMAIN p = 1..L
  BY DEF SearchIs, SearchTyped
<1>2. n \in v /\ n \in g.nodes /\ n \notin D
  BY <1>1 DEF DoneWith
<1>3. q \in Seq(v) /\ Len(q) = L - 1 /\ \A k \in 1..L - 1 : q[k] = p[k]
  BY <1>1, FrontOfSeq
<1> HIDE DEF q
<1>4. PathOK(g, p)
  BY DEF SearchIs
<1>5. DoneWith(v, q) = D \cup {n}
  <2>1. ASSUME NEW x \in DoneWith(v, q), x # n PROVE x \in D
    <3>1. \A k \in 1..L : k \in 1..L - 1 \/ k = L
      BY <1>1, BeforeTheLast
    <3>2. QED
      BY <1>3, <2>1, <3>1 DEF DoneWith
  <2>2. D \subseteq DoneWith(v, q)
    <3>1. \A k \in 1..Len(q) : k \in 1..L /\ q[k] = p[k]
      BY <1>1, <1>3
    <3>2. QED
      BY <3>1 DEF DoneWith
  <2>3. n \in DoneWith(v, q)
    <3>1. \A k \in 1..Len(q) : k \in 1..L /\ q[k] = p[k] /\ k # L
      <4>1. \A k \in 1..Len(q) : k \in 1..L - 1
        BY <1>3
      <4>2. \A k \in 1..L - 1 : k \in 1..L /\ k # L
        BY <1>1, BeforeTheLast
      <4>3. QED
        BY <1>3, <4>1, <4>2
    <3>2. \A k \in 1..Len(q) : q[k] # n
      BY <1>1, <1>4, <3>1 DEF PathOK
    <3>3. QED
      BY <1>2, <3>2 DEF DoneWith
  <2>4. QED
    BY <2>1, <2>2, <2>3
<1> HIDE DEF n, D
<1>6. PathOK(g, q)
  <2>1. \A k \in 1..Len(q) : k \in 1..L /\ q[k] = p[k]
    BY <1>1, <1>3
  <2>2. \A k \in 1..Len(q) - 1 : k \in 1..L - 1 /\ k \in 1..Len(q) /\ k + 1 \in 1..Len(q)
    BY <1>1, <1>3
  <2>3. QED
    BY <1>4, <2>1, <2>2 DEF PathOK
<1>7. ASSUME c = {} PROVE NothingMissed(g, v, q, a)
  <2>1. NothingMissed(g, v, p, a)
    BY <1>7 DEF SearchIs
  <2>2. ASSUME NEW e \in Imports(g), e[1] = n PROVE e[2] \in D
    <3>1. e = <<n, e[2]>> /\ e[2] \in g.nodes
      BY <2>2 DEF Imports
    <3>2. <<p[L], e[2]>> \in Imports(g) \ a
      BY <3>1 DEF n
    <3>3. QED
      BY <1>1, <2>1, <3>1, <3>2 DEF NothingMissed, D
  <2>3. \A e \in Imports(g) : e[1] \in D \cup {n} => e[2] \in D
    BY <2>1, <2>2 DEF NothingMissed, D
  <2>4. ASSUME NEW k \in 1..Len(q), NEW m \in g.nodes, <<q[k], m>> \in Imports(g) \ a
        PROVE  m \in D \cup {n} \/ (k < Len(q) /\ m = q[k + 1])
    <3>1. k \in 1..L /\ k \in 1..L - 1 /\ q[k] = p[k]
      BY <1>1, <1>3
    <3>2. m \in D \/ m = p[k + 1]
      BY <2>1, <2>4, <3>1 DEF NothingMissed, D
    <3>3. CASE k + 1 = L
      BY <3>2, <3>3 DEF n
    <3>4. CASE k + 1 # L
      <4>1. k + 1 \in 1..L - 1 /\ k < Len(q)
        <5>1. k + 1 \in 1..L
          BY <1>1, <3>1, BeforeTheLast
        <5>2. k + 1 \in 1..L - 1
          BY <1>1, <3>4, <5>1, BeforeTheLast
        <5>3. QED
          BY <1>1, <1>3, <3>1, <5>2
      <4>2. QED
        BY <1>3, <3>2, <4>1
    <3>5. QED
      BY <3>3, <3>4
  <2>5. ASSUME NEW C \in SUBSET (D \cup {n}), \A f \in C : g.imports[f] \cap C # {}, C # {}
        PROVE  FALSE
    <3>1. D \cup {n} \subseteq g.nodes
      BY <1>1, <1>2 DEF D, DoneWith
    <3>2. \A f \in C : \E h \in C : h \in D /\ h \in g.imports[f]
      <4> TAKE f \in C
      <4>1. PICK h \in C : h \in g.imports[f]
        BY <2>5
      <4>2. <<f, h>> \in Imports(g)
        BY <3>1, <4>1 DEF Imports
      <4>3. QED
        BY <2>3, <4>1, <4>2
    <3>3. C \cap D # {} /\ C \cap D \in SUBSET D
      BY <2>5, <3>2
    <3>4. \A f \in C \cap D : g.imports[f] \cap (C \cap D) # {}
      BY <3>2
    <3>5. QED
      BY <2>1, <3>3, <3>4 DEF NothingMissed, NoCircle, D
  <2>6. QED
    BY <1>5, <2>3, <2>4, <2>5 DEF NothingMissed, NoCircle
<1>8. SearchIs(g, v, q, a, c)
  BY <1>3, <1>6, <1>7 DEF SearchIs, SearchTyped
<1>9. QED
  BY <1>2, <1>5, <1>8 DEF q, n, D

\* Every move takes something away from what is left to do.
ToDo(g, v, p, a) == Cardinality(g.nodes \ v) + Cardinality(g.nodes \ DoneWith(v, p)) + Cardinality(a)
AllDone(g, v, p) == v = g.nodes /\ p = <<>>

LEMMA LessIsFewer ==
  ASSUME NEW S, IsFiniteSet(S), NEW T \in SUBSET S
  PROVE  /\ Cardinality(S) \in Nat /\ Cardinality(T) \in Nat /\ Cardinality(T) <= Cardinality(S)
         /\ T # S => Cardinality(T) < Cardinality(S)
<1>1. IsFiniteSet(T) /\ Cardinality(T) <= Cardinality(S) /\ (Cardinality(S) = Cardinality(T) => S = T)
  BY FS_Subset
<1>2. Cardinality(S) \in Nat /\ Cardinality(T) \in Nat
  BY <1>1, FS_CardinalityType
<1>3. QED
  BY <1>1, <1>2

LEMMA GraphIsFinite ==
  ASSUME NEW g \in DepGraphs
  PROVE  IsFiniteSet(g.nodes) /\ IsFiniteSet(Imports(g)) /\ SearchSteps(g) \in Nat
<1>1. IsFiniteSet(g.nodes)
  BY IndexAssumption, FS_Subset DEF DepGraphs
<1>2. IsFiniteSet(g.nodes \X g.nodes)
  BY <1>1, FS_Product
<1>3. IsFiniteSet(Imports(g))
  BY <1>2, FS_Subset, Imports(g) \in SUBSET (g.nodes \X g.nodes) DEF Imports
<1>4. Cardinality(g.nodes) \in Nat /\ Cardinality(Imports(g)) \in Nat
  BY <1>1, <1>3, FS_CardinalityType
<1>5. QED
  BY <1>1, <1>3, <1>4 DEF SearchSteps

Further(g, v, p, a, w, q, b) ==
  /\ w \in SUBSET g.nodes /\ v \subseteq w /\ a \in SUBSET Imports(g) /\ b \in SUBSET a
  /\ DoneWith(v, p) \subseteq DoneWith(w, q)
  /\ v # w \/ b # a \/ \E n \in g.nodes : n \in DoneWith(w, q) \ DoneWith(v, p)

LEMMA LessIsLeft ==
  ASSUME NEW g \in DepGraphs, NEW v, NEW p, NEW a, NEW w, NEW q, NEW b, Further(g, v, p, a, w, q, b)
  PROVE  ToDo(g, w, q, b) \in Nat /\ ToDo(g, v, p, a) \in Nat /\ ToDo(g, w, q, b) < ToDo(g, v, p, a)
<1> DEFINE D == DoneWith(v, p)
           E == DoneWith(w, q)
<1>1. IsFiniteSet(g.nodes) /\ IsFiniteSet(Imports(g)) /\ a \in SUBSET Imports(g)
  BY GraphIsFinite DEF Further
<1>2. IsFiniteSet(g.nodes \ v) /\ IsFiniteSet(g.nodes \ D) /\ IsFiniteSet(a)
  BY <1>1, FS_Subset
<1> HIDE DEF D, E
<1>3. /\ g.nodes \ w \in SUBSET (g.nodes \ v) /\ g.nodes \ E \in SUBSET (g.nodes \ D)
      /\ \/ g.nodes \ w # g.nodes \ v \/ b # a \/ g.nodes \ E # g.nodes \ D
      /\ b \in SUBSET a
  BY DEF D, E, Further
<1>4. /\ Cardinality(g.nodes \ v) \in Nat /\ Cardinality(g.nodes \ w) \in Nat
      /\ Cardinality(g.nodes \ w) <= Cardinality(g.nodes \ v)
      /\ g.nodes \ w # g.nodes \ v => Cardinality(g.nodes \ w) < Cardinality(g.nodes \ v)
  BY <1>2, <1>3, LessIsFewer
<1>5. /\ Cardinality(g.nodes \ D) \in Nat /\ Cardinality(g.nodes \ E) \in Nat
      /\ Cardinality(g.nodes \ E) <= Cardinality(g.nodes \ D)
      /\ g.nodes \ E # g.nodes \ D => Cardinality(g.nodes \ E) < Cardinality(g.nodes \ D)
  BY <1>2, <1>3, LessIsFewer
<1>6. /\ Cardinality(a) \in Nat /\ Cardinality(b) \in Nat /\ Cardinality(b) <= Cardinality(a)
      /\ b # a => Cardinality(b) < Cardinality(a)
  BY <1>2, <1>3, LessIsFewer
<1>7. QED
  BY <1>3, <1>4, <1>5, <1>6 DEF ToDo, D, E

Searches(g) == [visited : SUBSET g.nodes, path : Seq(g.nodes), ahead : SUBSET Imports(g), cycles : SUBSET Seq(g.nodes)]
SearchOK(g, s) == SearchIs(g, s.visited, s.path, s.ahead, s.cycles)
Over(g, s) == AllDone(g, s.visited, s.path)
LeftOf(g, s) == ToDo(g, s.visited, s.path, s.ahead)

LEMMA MovesWell ==
  ASSUME NEW g \in DepGraphs, NEW s \in Searches(g), SearchOK(g, s)
  PROVE  /\ SearchStep(g, s) \in Searches(g) /\ SearchOK(g, SearchStep(g, s))
         /\ LeftOf(g, s) \in Nat
         /\ ~Over(g, s) => LeftOf(g, SearchStep(g, s)) \in Nat /\ LeftOf(g, SearchStep(g, s)) < LeftOf(g, s)
         /\ Over(g, s) => SearchStep(g, s) = s
<1> DEFINE v == s.visited
           p == s.path
           a == s.ahead
           c == s.cycles
           n == Last(p)
           ms == {m \in g.nodes : <<n, m>> \in a}
           t == SearchStep(g, s)
<1>1. /\ s = [visited |-> v, path |-> p, ahead |-> a, cycles |-> c]
      /\ v \in SUBSET g.nodes /\ p \in Seq(v) /\ a \in SUBSET Imports(g) /\ c \in SUBSET Seq(g.nodes)
      /\ SearchIs(g, v, p, a, c)
  BY DEF Searches, SearchOK, SearchIs, SearchTyped
<1>2. n = p[Len(p)]
  BY DEF Last
<1>3. LeftOf(g, s) \in Nat
  <2>1. IsFiniteSet(g.nodes \ v) /\ IsFiniteSet(g.nodes \ DoneWith(v, p)) /\ IsFiniteSet(a)
    BY <1>1, GraphIsFinite, FS_Subset
  <2>2. /\ Cardinality(g.nodes \ v) \in Nat /\ Cardinality(g.nodes \ DoneWith(v, p)) \in Nat
        /\ Cardinality(a) \in Nat
    BY <2>1, FS_CardinalityType
  <2>3. QED
    BY <2>2 DEF LeftOf, ToDo
<1> HIDE DEF n
\* What follows holds for any state whose parts are as those of the move.
<1>4. ASSUME NEW w, NEW q, NEW b, NEW d, t = [visited |-> w, path |-> q, ahead |-> b, cycles |-> d],
             SearchIs(g, w, q, b, d), b \in SUBSET a, v \subseteq w, DoneWith(v, p) \subseteq DoneWith(w, q),
             v # w \/ b # a \/ \E x \in g.nodes : x \in DoneWith(w, q) \ DoneWith(v, p)
      PROVE  /\ t \in Searches(g) /\ SearchOK(g, t)
             /\ LeftOf(g, t) \in Nat /\ LeftOf(g, t) < LeftOf(g, s)
  <2>1. w \in SUBSET g.nodes /\ q \in Seq(w) /\ b \in SUBSET Imports(g) /\ d \in SUBSET Seq(g.nodes)
    BY <1>4 DEF SearchIs, SearchTyped
  <2>2. q \in Seq(g.nodes)
    BY <2>1, WiderSeq
  <2>3. t \in Searches(g) /\ t.visited = w /\ t.path = q /\ t.ahead = b /\ t.cycles = d
    BY <1>4, <2>1, <2>2 DEF Searches
  <2>4. ToDo(g, w, q, b) \in Nat /\ ToDo(g, w, q, b) < ToDo(g, v, p, a)
    <3> HIDE DEF v, p, a, t
    <3>1. v \in SUBSET g.nodes /\ a \in SUBSET Imports(g)
      BY <1>1
    <3>2. Further(g, v, p, a, w, q, b)
      BY <1>4, <2>1, <3>1 DEF Further
    <3>3. QED
      BY <3>2, LessIsLeft
  <2>5. QED
    BY <1>4, <2>3, <2>4 DEF SearchOK, LeftOf
<1>5. CASE p = <<>>
  <2>1. CASE v = g.nodes
    <3>1. t = s /\ Over(g, s)
      BY <1>5, <2>1 DEF SearchStep, Over, AllDone
    <3>2. QED
      BY <1>3, <3>1
  <2>2. CASE v # g.nodes
    <3> DEFINE m == CHOOSE f \in g.nodes \ v : TRUE
    <3>1. m \in g.nodes /\ m \notin v
      BY <1>1, <2>2
    <3>2. t = Enter(s, m)
      BY <1>5, <2>2 DEF SearchStep
    <3> HIDE DEF m
    <3>3. t = [visited |-> v \cup {m}, path |-> Append(p, m), ahead |-> a, cycles |-> c]
      BY <1>1, <3>2 DEF Enter
    <3>4. SearchIs(g, v \cup {m}, Append(p, m), a, c)
      BY <1>1, <1>5, <3>1, EntersWell
    <3>5. DoneWith(v, p) \subseteq DoneWith(v \cup {m}, Append(p, m)) /\ v # v \cup {m}
      BY <1>1, <1>5, <3>1 DEF DoneWith
    <3>6. ~Over(g, s)
      BY <2>2 DEF Over, AllDone
    <3>7. QED
      BY <1>3, <1>4, <3>3, <3>4, <3>5, <3>6
  <2>3. QED
    BY <2>1, <2>2
<1>6. CASE p # <<>> /\ ms = {}
  <2>1. t = [s EXCEPT !.path = Front(@)]
    BY <1>6 DEF SearchStep, n
  <2>2. t = [visited |-> v, path |-> Front(p), ahead |-> a, cycles |-> c]
    BY <1>1, <2>1
  <2>3. /\ SearchIs(g, v, Front(p), a, c) /\ DoneWith(v, p) \subseteq DoneWith(v, Front(p))
        /\ n \in g.nodes /\ n \in DoneWith(v, Front(p)) \ DoneWith(v, p)
    BY <1>1, <1>2, <1>6, LeavesWell
  <2>4. ~Over(g, s)
    BY <1>6 DEF Over, AllDone
  <2>5. QED
    BY <1>3, <1>4, <2>2, <2>3, <2>4
<1>7. CASE p # <<>> /\ ms # {}
  <2> DEFINE m == CHOOSE x \in ms : TRUE
             b == a \ {<<n, m>>}
  <2>1. m \in ms
    BY <1>7
  <2>2. t = Follow(s, n, m)
    BY <1>7 DEF SearchStep, n
  <2> HIDE DEF m
  <2>3. m \in g.nodes /\ <<n, m>> \in a /\ b # a /\ b \in SUBSET a /\ m \in g.imports[n]
    BY <1>1, <2>1 DEF Imports
  <2>4. ~Over(g, s)
    BY <1>7 DEF Over, AllDone
  <2>5. CASE m \notin v
    <3>1. t = [visited |-> v \cup {m}, path |-> Append(p, m), ahead |-> b, cycles |-> c]
      BY <1>1, <2>2, <2>5 DEF Follow, Enter
    <3>2. SearchIs(g, v \cup {m}, Append(p, m), b, c)
      BY <1>1, <1>2, <1>7, <2>3, <2>5, EntersWell
    <3>3. DoneWith(v, p) \subseteq DoneWith(v \cup {m}, Append(p, m))
      <4>1. \A k \in 1..Len(Append(p, m)) : Append(p, m)[k] = m \/ \E l \in 1..Len(p) : Append(p, m)[k] = p[l]
        BY <1>1
      <4>2. QED
        BY <2>5, <4>1 DEF DoneWith
    <3>4. v \subseteq v \cup {m}
      OBVIOUS
    <3> HIDE DEF b, t
    <3>5. t \in Searches(g) /\ SearchOK(g, t) /\ LeftOf(g, t) \in Nat /\ LeftOf(g, t) < LeftOf(g, s)
      BY <1>4, <2>3, <3>1, <3>2, <3>3, <3>4
    <3>6. QED
      BY <1>3, <2>4, <3>5 DEF t
  <2>6. CASE m \in v /\ m \notin Range(p)
    <3>1. t = [visited |-> v, path |-> p, ahead |-> b, cycles |-> c]
      BY <1>1, <2>2, <2>6 DEF Follow, OnPath
    <3>2. SearchIs(g, v, p, b, c)
      BY <1>1, <1>2, <1>7, <2>3, <2>6, LooksWell
    <3>3. QED
      BY <1>3, <1>4, <2>3, <2>4, <3>1, <3>2
  <2>7. CASE m \in v /\ m \in Range(p)
    <3> DEFINE k == CHOOSE i \in DOMAIN p : p[i] = m
    <3>1. k \in DOMAIN p /\ p[k] = m
      BY <2>7 DEF Range
    <3>2. t = [visited |-> v, path |-> p, ahead |-> b, cycles |-> c \cup {SubSeq(p, k, Len(p))}]
      BY <1>1, <2>2, <2>7 DEF Follow, OnPath
    <3> HIDE DEF k
    <3>3. SearchIs(g, v, p, b, c \cup {SubSeq(p, k, Len(p))})
      <4>1. k \in 1..Len(p)
        BY <1>1, <3>1
      <4>2. QED
        BY <1>1, <1>2, <1>7, <2>3, <2>7, <3>1, <4>1, LooksWell
    <3>4. QED
      BY <1>3, <1>4, <2>3, <2>4, <3>2, <3>3
  <2>8. QED
    BY <2>5, <2>6, <2>7
<1>8. QED
  BY <1>5, <1>6, <1>7

LEMMA SearchStarts ==
  ASSUME NEW g \in DepGraphs
  PROVE  NewSearch(g) \in Searches(g) /\ SearchOK(g, NewSearch(g)) /\ LeftOf(g, NewSearch(g)) = SearchSteps(g)
<1> DEFINE s == NewSearch(g)
<1>1. /\ s \in Searches(g) /\ s.visited = {} /\ s.path = <<>> /\ s.ahead = Imports(g) /\ s.cycles = {}
  BY DEF NewSearch, Searches
<1>2. DoneWith({}, <<>>) = {}
  BY DEF DoneWith
<1>3. NothingMissed(g, {}, <<>>, Imports(g))
  BY <1>2 DEF NothingMissed, NoCircle
<1>4. SearchIs(g, {}, <<>>, Imports(g), {})
  BY <1>3 DEF SearchIs, SearchTyped, PathOK
<1>5. ToDo(g, {}, <<>>, Imports(g)) = SearchSteps(g)
  <2>1. g.nodes \ {} = g.nodes
    OBVIOUS
  <2>2. Cardinality(g.nodes) \in Nat /\ Cardinality(Imports(g)) \in Nat
    BY GraphIsFinite, FS_CardinalityType
  <2>3. QED
    <3>1. ToDo(g, {}, <<>>, Imports(g)) = Cardinality(g.nodes) + Cardinality(g.nodes) + Cardinality(Imports(g))
      BY <1>2, <2>1 DEF ToDo
    <3>2. QED
      BY <2>2, <3>1 DEF SearchSteps
<1>6. QED
  BY <1>1, <1>4, <1>5 DEF SearchOK, LeftOf

\* The moves are enough for the search to come to its end.
LEMMA SearchEnds ==
  ASSUME NEW g \in DepGraphs
  PROVE  Searched(g) \in Searches(g) /\ SearchOK(g, Searched(g)) /\ Over(g, Searched(g))
<1> DEFINE N == SearchSteps(g)
           S == {s \in Searches(g) : SearchOK(g, s)}
           step == [x \in S \X Nat |-> SearchStep(g, x[1])]
           Body(f) == [k \in 0..N |-> IF k = 0 THEN NewSearch(g) ELSE SearchStep(g, f[k - 1])]
           search == CHOOSE f : f = Body(f)
<1>1. N \in Nat
  BY GraphIsFinite
<1>2. NewSearch(g) \in S /\ step \in [S \X Nat -> S]
  BY MovesWell, SearchStarts
<1>3. Searched(g) = search[N]
  BY DEF Searched
<1> HIDE DEF S
<1>4. PICK r \in [0..N -> S] : r[0] = NewSearch(g) /\ \A n \in 1..N : r[n] = step[<<r[n - 1], n>>]
  <2> HIDE DEF step
  <2>1. Reaches(S, NewSearch(g), step, N)
    BY <1>1, <1>2, StepsExist
  <2>2. QED
    BY <2>1 DEF Reaches
<1>5. ASSUME NEW n \in 1..N PROVE n - 1 \in 0..N /\ r[n] = SearchStep(g, r[n - 1])
  <2>1. n - 1 \in 0..N /\ n \in Nat
    BY <1>1
  <2>2. r[n - 1] \in S
    BY <1>4, <2>1
  <2>3. QED
    BY <1>4, <2>1, <2>2
<1>6. r = Body(r)
  BY <1>1, <1>4, <1>5
<1>7. search = Body(search)
  BY <1>6
<1> HIDE DEF search
<1>8. search[0] = NewSearch(g) /\ \A n \in 1..N : search[n] = SearchStep(g, search[n - 1])
  BY <1>1, <1>7
<1> DEFINE Fine(n) == /\ search[n] \in S
                      /\ Over(g, search[n]) \/ LeftOf(g, search[n]) <= N - n
           T == {n \in 0..N : ~Fine(n)}
<1>9. T = {}
  <2>1. SUFFICES ASSUME T # {} PROVE FALSE
    OBVIOUS
  <2>2. PICK n \in T : \A l \in T : n <= l
    <3>1. T \in SUBSET Nat
      BY <1>1
    <3> HIDE DEF T
    <3>2. QED
      BY <2>1, <3>1, LeastIsThere
  <2>3. n # 0
    BY <1>1, <1>2, <1>8, <2>2, SearchStarts
  <2>4. n \in 1..N /\ n - 1 \in 0..N /\ n - 1 \notin T
    BY <1>1, <2>2, <2>3
  <2> DEFINE s == search[n - 1]
  <2>5. Fine(n - 1) /\ search[n] = SearchStep(g, s)
    BY <1>8, <2>4
  <2>6. s \in Searches(g) /\ SearchOK(g, s) /\ (Over(g, s) \/ LeftOf(g, s) <= N - (n - 1))
    BY <2>5 DEF S
  <2>7. n \in T
    BY <2>2
  <2> HIDE DEF s
  <2>8. search[n] \in S
    BY <2>5, <2>6, MovesWell DEF S
  <2>9. CASE Over(g, s)
    <3>1. search[n] = s
      BY <2>5, <2>6, <2>9, MovesWell
    <3>2. QED
      BY <2>7, <2>8, <2>9, <3>1
  <2>10. CASE ~Over(g, s)
    <3>1. LeftOf(g, search[n]) \in Nat /\ LeftOf(g, search[n]) < LeftOf(g, s) /\ LeftOf(g, s) \in Nat
      BY <2>5, <2>6, <2>10, MovesWell
    <3>2. LeftOf(g, search[n]) <= N - n
      BY <1>1, <2>4, <2>6, <2>10, <3>1
    <3>3. QED
      BY <2>7, <2>8, <3>2
  <2>11. QED
    BY <2>9, <2>10
<1>10. Fine(N)
  BY <1>1, <1>9
<1> DEFINE s == search[N]
<1>11. s \in Searches(g) /\ SearchOK(g, s) /\ (Over(g, s) \/ LeftOf(g, s) <= 0)
  BY <1>1, <1>10 DEF S
<1> HIDE DEF s
<1>12. ASSUME LeftOf(g, s) <= 0 PROVE Over(g, s)
  <2> DEFINE v == s.visited
             p == s.path
             D == DoneWith(v, p)
  <2>1. v \in SUBSET g.nodes /\ p \in Seq(v) /\ s.ahead \in SUBSET Imports(g)
    BY <1>11 DEF Searches, SearchOK, SearchIs, SearchTyped
  <2>2. IsFiniteSet(g.nodes \ v) /\ IsFiniteSet(g.nodes \ D) /\ IsFiniteSet(s.ahead)
    BY <2>1, GraphIsFinite, FS_Subset
  <2>3. /\ Cardinality(g.nodes \ v) \in Nat /\ Cardinality(g.nodes \ D) \in Nat
        /\ Cardinality(s.ahead) \in Nat
    BY <2>2, FS_CardinalityType
  <2>4. Cardinality(g.nodes \ v) = 0 /\ Cardinality(g.nodes \ D) = 0
    BY <1>12, <2>3 DEF LeftOf, ToDo
  <2>5. g.nodes \ v = {} /\ g.nodes \ D = {}
    BY <2>2, <2>4, FS_EmptySet
  <2>6. p = <<>>
    <3>1. \A k \in 1..Len(p) : p[k] \in g.nodes /\ p[k] \notin D
      BY <2>1 DEF DoneWith
    <3>2. Len(p) \in Nat /\ 1 \notin 1..Len(p)
      BY <2>1, <2>5, <3>1
    <3>3. QED
      BY <2>1, <3>2
  <2>7. QED
    BY <2>1, <2>5, <2>6 DEF Over, AllDone
<1>13. QED
  BY <1>3, <1>11, <1>12 DEF s

\* The search of a graph that is well formed, however it came about.
LEMMA SearchFindsCycles ==
  ASSUME NEW g \in DepGraphs
  PROVE  /\ \A c \in Cycles(g) : IsCycle(g, c)
         /\ Circular(g) <=> Cycles(g) # {}
<1> DEFINE s == Searched(g)
<1>1. s.visited = g.nodes /\ s.path = <<>> /\ SearchIs(g, s.visited, s.path, s.ahead, s.cycles)
  BY SearchEnds DEF SearchOK, Over, AllDone
<1>2. Cycles(g) = s.cycles
  BY DEF Cycles
<1> HIDE DEF s
<1>3. \A c \in Cycles(g) : IsCycle(g, c)
  BY <1>1, <1>2 DEF SearchIs
<1>4. ASSUME Cycles(g) = {} PROVE ~Circular(g)
  <2>1. NothingMissed(g, g.nodes, <<>>, s.ahead)
    BY <1>1, <1>2, <1>4 DEF SearchIs
  <2>2. DoneWith(g.nodes, <<>>) = g.nodes
    BY DEF DoneWith
  <2>3. QED
    BY <2>1, <2>2 DEF NothingMissed, NoCircle, Circular
<1>5. ASSUME NEW c \in Cycles(g) PROVE Circular(g)
  <2>1. IsCycle(g, c) /\ c \in Seq(g.nodes)
    BY <1>1, <1>2, <1>3 DEF SearchIs, SearchTyped
  <2>2. Len(c) \in Nat /\ Len(c) > 0 /\ DOMAIN c = 1..Len(c) /\ Range(c) \subseteq g.nodes
    BY <2>1 DEF IsCycle
  <2>3. c[1] \in Range(c)
    BY <2>2 DEF Range
  <2>4. ASSUME NEW f \in Range(c) PROVE g.imports[f] \cap Range(c) # {}
    <3>1. PICK k \in 1..Len(c) : c[k] = f
      BY <2>2 DEF Range
    <3> DEFINE l == IF k = Len(c) THEN 1 ELSE k + 1
    <3>2. l \in 1..Len(c)
      BY <2>2, BeforeTheLast, 1 \in 1..Len(c)
    <3>3. c[l] \in g.imports[f]
      BY <2>1, <3>1 DEF IsCycle
    <3> HIDE DEF l
    <3>4. c[l] \in Range(c)
      BY <2>2, <3>2 DEF Range
    <3>5. QED
      BY <3>3, <3>4
  <2>5. QED
    BY <2>2, <2>3, <2>4 DEF Circular
<1>6. QED
  BY <1>3, <1>4, <1>5

-----------------------------------------------------------------------------
LEMMA FileIsAdded ==
  ASSUME NEW g \in DepGraphs, NEW f \in Files, \A h \in DOMAIN disk : disk[h] \subseteq Files, f \in DOMAIN disk
  PROVE  AddFile(g, f) \in DepGraphs
<1>1. Resolved(f) \in SUBSET Files
  BY DEF Resolved
<1> DEFINE imports == [g.imports EXCEPT ![f] = Resolved(f)]
           importedBy == [n \in Files |-> IF n \in g.nodes \cup {f} /\ f \in imports[n]
                                          THEN g.importedBy[n] \cup {f} ELSE g.importedBy[n]]
<1>2. imports \in [Files -> SUBSET Files]
  BY <1>1 DEF DepGraphs
<1> HIDE DEF imports
<1>3. importedBy \in [Files -> SUBSET Files]
  BY DEF DepGraphs
<1>4. AddFile(g, f) = [g EXCEPT !.nodes = g.nodes \cup {f}, !.imports = imports, !.importedBy = importedBy]
  BY DEF AddFile, imports, DepGraphs
<1> HIDE DEF importedBy
<1>5. AddFile(g, f) = [nodes |-> g.nodes \cup {f}, imports |-> imports, importedBy |-> importedBy,
                       circular |-> g.circular]
  BY <1>4 DEF DepGraphs
<1>6. QED
  BY <1>2, <1>3, <1>5 DEF DepGraphs

LEMMA FilesAreAdded ==
  ASSUME NEW g \in DepGraphs, NEW files \in Seq(Files), g.circular \subseteq g.nodes,
         \A h \in DOMAIN disk : disk[h] \subseteq Files
  PROVE  Updated(g, files) \in DepGraphs /\ Updated(g, files).circular \subseteq Updated(g, files).nodes
<1> DEFINE N == Len(files)
           S == {h \in DepGraphs : h.circular \subseteq h.nodes}
           One(h, k) == IF files[k] \in DOMAIN disk THEN AddFile(h, files[k]) ELSE h
           step == [x \in S \X Nat |-> IF x[2] \in 1..N THEN One(x[1], x[2]) ELSE x[1]]
           Body(a) == [k \in 0..N |-> IF k = 0 THEN g ELSE One(a[k - 1], k)]
           after == CHOOSE a : a = Body(a)
<1>1. N \in Nat
  OBVIOUS
<1>2. ASSUME NEW h \in S, NEW k \in 1..N PROVE One(h, k) \in S
  <2>1. files[k] \in Files
    OBVIOUS
  <2>2. files[k] \in DOMAIN disk => AddFile(h, files[k]) \in DepGraphs
    BY <2>1, FileIsAdded
  <2>3. AddFile(h, files[k]).circular = h.circular /\ AddFile(h, files[k]).nodes = h.nodes \cup {files[k]}
    BY DEF AddFile, DepGraphs
  <2>4. QED
    BY <2>2, <2>3
<1>3. Updated(g, files) = after[N]
  BY DEF Updated
<1> HIDE DEF One
<1>4. g \in S /\ step \in [S \X Nat -> S]
  BY <1>2
<1>5. PICK r \in [0..N -> S] : r[0] = g /\ \A n \in 1..N : r[n] = step[<<r[n - 1], n>>]
  <2> HIDE DEF step, S
  <2>1. Reaches(S, g, step, N)
    BY <1>1, <1>4, StepsExist
  <2>2. QED
    BY <2>1 DEF Reaches
<1>6. ASSUME NEW n \in 1..N PROVE r[n] = One(r[n - 1], n)
  <2>1. n - 1 \in 0..N /\ n \in Nat
    BY <1>1
  <2>2. r[n - 1] \in S
    BY <1>5, <2>1
  <2> HIDE DEF S
  <2>3. QED
    BY <1>5, <2>1, <2>2
<1>7. r = Body(r)
  BY <1>1, <1>5, <1>6
<1>8. after = Body(after)
  BY <1>7
<1> HIDE DEF after, S
<1> DEFINE T == {n \in 0..N : after[n] \notin S}
<1>9. T = {}
  <2>1. SUFFICES ASSUME T # {} PROVE FALSE
    OBVIOUS
  <2>2. PICK n \in T : \A l \in T : n <= l
    <3>1. T \in SUBSET Nat
      BY <1>1
    <3> HIDE DEF T
    <3>2. QED
      BY <2>1, <3>1, LeastIsThere
  <2>3. n # 0
    BY <1>1, <1>4, <1>8, <2>2
  <2>4. n \in 1..N /\ n - 1 \in 0..N /\ n - 1 \notin T
    BY <1>1, <2>2, <2>3
  <2>5. after[n] = One(after[n - 1], n)
    BY <1>8, <2>4
  <2>6. QED
    BY <1>2, <2>2, <2>4, <2>5
<1>10. QED
  BY <1>1, <1>3, <1>9 DEF S

LEMMA IndexStarts == IndexInit => IndexTypeOK
<1> SUFFICES ASSUME IndexInit PROVE IndexTypeOK
  OBVIOUS
<1>1. PICK F \in SUBSET Files : disk \in [F -> SUBSET Files]
  BY DEF IndexInit
<1>2. \A f \in DOMAIN disk : f \in Files /\ disk[f] \subseteq Files
  BY <1>1
<1>3. graph \in DepGraphs /\ graph.circular \subseteq graph.nodes
  BY DEF IndexInit, NoGraph, DepGraphs
<1>4. DOMAIN astIndex = {} /\ chunked = {} /\ edits \in 0..MaxEdits
  BY IndexAssumption DEF IndexInit
<1>5. QED
  BY <1>2, <1>3, <1>4 DEF IndexTypeOK

LEMMA BuiltWell ==
  ASSUME IndexTypeOK, NEW order \in SetToSeqs(DOMAIN disk)
  PROVE  Build(order) \in DepGraphs /\ Build(order).circular \subseteq Build(order).nodes
<1> DEFINE empty == [NoGraph EXCEPT !.nodes = DOMAIN disk]
           g == Updated(empty, order)
           marked == UNION {Range(c) : c \in Cycles(g)}
<1>1. empty \in DepGraphs /\ empty.circular \subseteq empty.nodes
  BY DEF IndexTypeOK, NoGraph, DepGraphs
<1>2. order \in Seq(Files)
  <2>1. DOMAIN disk \in SUBSET Files
    BY DEF IndexTypeOK
  <2>2. IsFiniteSet(DOMAIN disk)
    BY <2>1, IndexAssumption, FS_Subset
  <2>3. Cardinality(DOMAIN disk) \in Nat
    BY <2>2, FS_CardinalityType
  <2>4. order \in [1..Cardinality(DOMAIN disk) -> DOMAIN disk]
    BY DEF SetToSeqs
  <2>5. QED
    BY <2>1, <2>3, <2>4
<1> HIDE DEF empty
<1>3. g \in DepGraphs
  BY <1>1, <1>2, FilesAreAdded DEF IndexTypeOK
<1>4. Build(order) = [g EXCEPT !.circular = marked]
  BY DEF Build, empty
<1> HIDE DEF g
<1>5. marked \subseteq g.nodes
  BY <1>3, SearchFindsCycles DEF IsCycle
<1>6. g.nodes \in SUBSET Files
  BY <1>3 DEF DepGraphs
<1> HIDE DEF marked
<1>7. Build(order) = [nodes |-> g.nodes, imports |-> g.imports, importedBy |-> g.importedBy, circular |-> marked]
  BY <1>3, <1>4 DEF DepGraphs
<1>8. QED
  BY <1>3, <1>5, <1>6, <1>7 DEF DepGraphs

LEMMA IndexKeeps == IndexTypeOK /\ [IndexNext]_indexVars => IndexTypeOK'
<1> SUFFICES ASSUME IndexTypeOK, [IndexNext]_indexVars PROVE IndexTypeOK'
  OBVIOUS
<1>1. CASE Edit
  <2>1. graph' = graph /\ astIndex' = astIndex /\ chunked' = chunked
    BY <1>1 DEF Edit
  <2>2. edits' \in 0..MaxEdits
    BY <1>1, IndexAssumption DEF Edit, IndexTypeOK
  <2>3. \A f \in DOMAIN disk' : f \in Files /\ disk'[f] \subseteq Files
    BY <1>1 DEF Edit, IndexTypeOK
  <2>4. QED
    BY <2>1, <2>2, <2>3 DEF IndexTypeOK
<1>2. CASE Initialize
  <2>1. graph' \in DepGraphs /\ graph'.circular \subseteq graph'.nodes
    BY <1>2, BuiltWell DEF Initialize
  <2>2. DOMAIN disk \subseteq Files
    BY DEF IndexTypeOK
  <2>3. QED
    BY <1>2, <2>1, <2>2 DEF Initialize, IndexTypeOK
<1>3. ASSUME NEW f \in Files, NEW g \in Files, Reindex(IF f = g THEN <<f>> ELSE <<f, g>>)
      PROVE  IndexTypeOK'
  <2> DEFINE changed == IF f = g THEN <<f>> ELSE <<f, g>>
             read == Range(changed) \cap DOMAIN disk
  <2>1. changed \in Seq(Files)
    OBVIOUS
  <2> HIDE DEF changed
  <2>2. graph' \in DepGraphs /\ graph'.circular \subseteq graph'.nodes
    BY <1>3, <2>1, FilesAreAdded DEF Reindex, IndexTypeOK, changed
  <2>3. /\ astIndex' = [h \in DOMAIN astIndex \cup read |-> IF h \in read THEN disk[h] ELSE astIndex[h]]
        /\ chunked' = chunked \ read /\ disk' = disk /\ edits' = edits
    BY <1>3 DEF Reindex, changed
  <2>4. read \subseteq DOMAIN disk
    OBVIOUS
  <2> HIDE DEF read
  <2>5. \A h \in DOMAIN astIndex' : h \in Files /\ astIndex'[h] \subseteq Files
    BY <2>3, <2>4 DEF IndexTypeOK
  <2>6. QED
    BY <2>2, <2>3, <2>5 DEF IndexTypeOK
<1>4. CASE UNCHANGED indexVars
  BY <1>4 DEF indexVars, IndexTypeOK
<1>5. QED
  BY <1>1, <1>2, <1>3, <1>4 DEF IndexNext

\* The graph stays a graph of files of the project, the files marked as
\* circular are files of it, and the other indexes know no other files.
THEOREM IndexTypeCorrect == IndexSpec => []IndexTypeOK
<1>1. QED
  BY IndexStarts, IndexKeeps, PTL DEF IndexSpec

\* detect_circular_dependencies reports cycles only, and at least one if there
\* is any, in whatever order files were built, edited and indexed again.
THEOREM SearchIsRight == IndexSpec => []CyclesAreFound
<1>1. IndexTypeOK => CyclesAreFound
  BY SearchFindsCycles DEF IndexTypeOK, CyclesAreFound
<1>2. QED
  BY <1>1, IndexTypeCorrect, PTL
=============================================================================
