------------------------------- MODULE Memory -------------------------------
(***************************************************************************)
(* memory/__init__.py and its adapter: what was learned, in tiers of at    *)
(* most Cap entries, with the fixes of errors beside them, in memory and   *)
(* in a file.                                                              *)
(*                                                                         *)
(* Contents are classes, of which some pairs are similar (above 0.8);      *)
(* similarity is not transitive.  Scores are ten-thousandths.  Left out    *)
(* are use counts, which stay zero, queries, which change nothing, and the *)
(* working tier, to which nothing is written.                              *)
(***************************************************************************)
EXTENDS Integers, Sequences, SequencesExt, FiniteSets, Orders

CONSTANTS Contents,
          ContentsOf,      \* what is written to each tier
          Similar,         \* the pairs of similar contents
          ErrorPrints,     \* fingerprints of errors
          Cap,             \* max_entries_per_tier
          MaxMemories,     \* bound on the entries ever made
          MaxDecays, MaxRestarts   \* bounds on decays and on restarts

ASSUME MemoryAssumption ==
  /\ Cap \in Nat \ {0} /\ MaxMemories \in Nat /\ MaxDecays \in Nat /\ MaxRestarts \in Nat
  /\ Similar \subseteq Contents \X Contents /\ \A c \in Contents : <<c, c>> \in Similar
  /\ \A p \in Similar : <<p[2], p[1]>> \in Similar
  /\ ContentsOf \in [{"episodic", "semantic", "procedural", "project"} -> SUBSET Contents]

VARIABLES memories,      \* [Tiers -> Seq(MemoryEntry)]
          errorFixes,    \* the prints that have a fix
          memoryFile,    \* what load makes of the file: both of these
          made, decays, restarts

memoryVars == <<memories, errorFixes, memoryFile, made, decays, restarts>>

Tiers == {"episodic", "semantic", "procedural", "project"}
FullScore == 10000       \* a score of 1.0
MemoryEntry == [id : 1..MaxMemories, content : Contents, score : 0..FullScore, old : BOOLEAN]
NoMemory == [t \in Tiers |-> <<>>]
NoMemoryFile == [memories |-> NoMemory, fixes |-> {}]

MemoryInit == /\ memories = NoMemory /\ errorFixes = {} /\ memoryFile = NoMemoryFile
              /\ made = 0 /\ decays = 0 /\ restarts = 0

Earlier(s) == {p \in (DOMAIN s) \X (DOMAIN s) : p[1] < p[2]}
Better(s) == {p \in (DOMAIN s) \X (DOMAIN s) :
                \/ s[p[1]].score > s[p[2]].score
                \/ s[p[1]].score = s[p[2]].score /\ p[1] < p[2]}

\* Best first, and the entries of one score in the order they are in.
Ranked(s) == LET place == LineUp(DOMAIN s, Better(s)) IN [k \in DOMAIN s |-> s[place[k]]]

\* store and evict
Stored(m, tier, e) ==
  LET s == Append(m[tier], e)
  IN [m EXCEPT ![tier] = IF Len(s) > Cap THEN SubSeq(Ranked(s), 1, Cap) ELSE s]

Fresh(content, score) == [id |-> made + 1, content |-> content, score |-> score, old |-> FALSE]

\* store_learning of the adapter, with a fix when there are a fingerprint
\* and an instruction; record_error_fix, which always has one; and what the
\* post-mortems store.
Learn(tier, content, score, prints) ==
  /\ made < MaxMemories /\ made' = made + 1
  /\ memories' = Stored(memories, tier, Fresh(content, score))
  /\ errorFixes' = errorFixes \cup prints
  /\ UNCHANGED <<memoryFile, decays, restarts>>

StoreLearning == \E c \in ContentsOf["episodic"], P \in {{}} \cup {{p} : p \in ErrorPrints} : Learn("episodic", c, 5000, P)
RecordErrorFix == \E c \in ContentsOf["procedural"], p \in ErrorPrints : Learn("procedural", c, 8500, {p})
StorePostMortem == \E c \in ContentsOf["project"] : Learn("project", c, 5000, {})

\* Mutant of Takes: an entry that is gone takes others with it.
Takes_Chain(gone, s, i, j) == i < j /\ <<s[i].content, s[j].content>> \in Similar

\* An entry that is not gone takes in those after it that are similar.
Takes(gone, s, i, j) == i < j /\ i \notin gone /\ <<s[i].content, s[j].content>> \in Similar

\* merged_ids: the positions that one before them has taken in.
MergedIds(s) == CHOOSE gone \in SUBSET DOMAIN s :
                  \A j \in DOMAIN s : j \in gone <=> \E i \in DOMAIN s : Takes(gone, s, i, j)
\* Whom an entry has taken in: those whom none before it did.
TakenBy(s, i) == LET gone == MergedIds(s)
                 IN {j \in gone : Takes(gone, s, i, j) /\ \A h \in 1..i - 1 : ~Takes(gone, s, h, j)}

\* consolidate, of one tier: an entry has the best score of those it took in.
BestScore(s, i) == Max({s[j].score : j \in TakenBy(s, i) \cup {i}})
Merged(s) ==
  LET place == LineUp((DOMAIN s) \ MergedIds(s), Earlier(s))
  IN [k \in DOMAIN place |-> [s[place[k]] EXCEPT !.score = BestScore(s, place[k])]]

\* consolidate, of a story without iterations; with one it raises at once,
\* since an iteration has no error_fingerprint.  A story that is done leaves
\* an entry of its own first.
Consolidate(done) ==
  /\ done => made < MaxMemories
  /\ made' = IF done THEN made + 1 ELSE made
  /\ \E c \in ContentsOf["semantic"] :
       LET m == IF done THEN Stored(memories, "semantic", Fresh(c, 9000)) ELSE memories
       IN memories' = [t \in Tiers |-> Merged(m[t])]
  /\ UNCHANGED <<errorFixes, memoryFile, decays, restarts>>

\* A week passes.
Week == /\ \E t \in Tiers : \E i \in DOMAIN memories[t] : ~memories[t][i].old
        /\ memories' = [t \in Tiers |-> [i \in DOMAIN memories[t] |-> [memories[t][i] EXCEPT !.old = TRUE]]]
        /\ UNCHANGED <<errorFixes, memoryFile, made, decays, restarts>>

Decay == /\ decays < MaxDecays /\ decays' = decays + 1
         /\ memories' = [t \in Tiers |-> [i \in DOMAIN memories[t] |->
                           [memories[t][i] EXCEPT !.score = IF memories[t][i].old THEN (@ * 95) \div 100 ELSE @]]]
         /\ UNCHANGED <<errorFixes, memoryFile, made, restarts>>

\* The process ends, and another begins with load.  Only a shutdown saves,
\* in place: the file stays as it was when the process is killed, and a save
\* that stops short leaves what load cannot parse and passes over.
RestartMemory == /\ restarts < MaxRestarts /\ restarts' = restarts + 1
           /\ memoryFile' \in {memoryFile, NoMemoryFile, [memories |-> memories, fixes |-> errorFixes]}
           /\ memories' = memoryFile'.memories /\ errorFixes' = memoryFile'.fixes
           /\ UNCHANGED <<made, decays>>

MemoryNext == \/ StoreLearning \/ RecordErrorFix \/ StorePostMortem
              \/ \E done \in BOOLEAN : Consolidate(done)
              \/ Week \/ Decay \/ RestartMemory

MemorySpec == MemoryInit /\ [][MemoryNext]_memoryVars
-----------------------------------------------------------------------------
MemoryTypeOK ==
  /\ DOMAIN memories = Tiers
  /\ \A t \in Tiers : memories[t] \in Seq(MemoryEntry) /\ Len(memories[t]) <= Cap
  /\ errorFixes \subseteq ErrorPrints
  /\ made \in 0..MaxMemories /\ decays \in 0..MaxDecays /\ restarts \in 0..MaxRestarts

\* Eviction and merging lose nothing that is worth more than what they keep:
\* an entry goes only when a similar one of its tier stays that scores as
\* much, or when all that stay score as much; however entries decay, merge
\* and chain from one content to the next.
GoesOnlyForBetter ==
  [][ restarts' = restarts =>
        \A t \in Tiers : \A e \in Range(memories[t]) :
          \/ \E x \in Range(memories'[t]) :
               x.id = e.id \/ (<<e.content, x.content>> \in Similar /\ x.score >= e.score)
          \/ \A x \in Range(memories'[t]) : x.score >= e.score ]_memoryVars
=============================================================================
