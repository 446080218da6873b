----------------------------- MODULE EnginesProofs -----------------------------
(***************************************************************************)
(* The state machine, the convergence detector, the quality gates, the     *)
(* security scanner and the graph of a project, for any values of their    *)
(* constants: what the history of a story says, that a trend is noticed,   *)
(* that the modes of the gates decide alike, that no scanner hides another,*)
(* and what is built, written and marked of the graph by however many      *)
(* threads.                                                                *)
(***************************************************************************)
EXTENDS StateMachine, Iterations, QualityGates, SecurityScan, KnowledgeGraph, FiniteSetTheorems, TLAPS

-----------------------------------------------------------------------------
(* The state machine.                                                      *)

HistoryInv == MachineTypeOK /\ HistoryExplainsState

LEMMA HistoryStarts == MachineInit => HistoryInv
<1> SUFFICES ASSUME MachineInit PROVE HistoryInv
  OBVIOUS
<1>1. MachineTypeOK
  BY DEF MachineInit, MachineTypeOK, StoryState
<1>2. \A o \in Objects : history[IdOf[o]] = <<>> /\ state[o] = "RECEIVED"
  BY IdOfAssumption DEF MachineInit
<1>3. QED
  BY <1>1, <1>2 DEF HistoryInv, HistoryExplainsState, IsPath, StateAfter

\* The path of the records with one more move.
LEMMA PathGoesOn ==
  ASSUME NEW h \in Seq(Moves), NEW to \in StoryState, IsPath(h), StateAfter(h) \in StoryState
  PROVE  /\ Append(h, Move(StateAfter(h), to)) \in Seq(Moves)
         /\ IsPath(Append(h, Move(StateAfter(h), to)))
         /\ StateAfter(Append(h, Move(StateAfter(h), to))) = to
<1> DEFINE m == Move(StateAfter(h), to)
           g == Append(h, m)
<1>1. m \in Moves /\ m.to = to /\ m.from = StateAfter(h)
  BY DEF Move, Moves
<1> HIDE DEF m
<1>2. /\ g \in Seq(Moves) /\ Len(g) = Len(h) + 1 /\ Len(h) \in Nat
      /\ \A k \in 1..Len(h) : g[k] = h[k]
      /\ g[Len(h) + 1] = m
  BY <1>1
<1>3. g # <<>> /\ StateAfter(g) = to
  BY <1>1, <1>2 DEF StateAfter, Last
<1>4. ASSUME NEW k \in 1..(Len(g) - 1) PROVE g[k].to = g[k + 1].from
  <2>1. CASE k < Len(h)
    <3>1. k \in 1..(Len(h) - 1) /\ k + 1 \in 1..Len(h) /\ k \in 1..Len(h)
      BY <1>2, <2>1
    <3>2. QED
      BY <1>2, <3>1 DEF IsPath
  <2>2. CASE k = Len(h)
    <3>1. h # <<>> /\ StateAfter(h) = h[Len(h)].to /\ k \in 1..Len(h)
      BY <1>2, <2>2 DEF StateAfter, Last
    <3>2. QED
      BY <1>1, <1>2, <2>2, <3>1
  <2>3. QED
    BY <1>2, <2>1, <2>2
<1>5. QED
  BY <1>2, <1>3, <1>4 DEF IsPath, m

LEMMA HistoryKeeps == HistoryInv /\ [MachineNext]_machineVars => HistoryInv'
<1> SUFFICES ASSUME HistoryInv, [MachineNext]_machineVars PROVE HistoryInv'
  OBVIOUS
<1>0. /\ state \in [Objects -> StoryState] /\ history \in [Ids -> Seq(Moves)]
      /\ IdOf \in [Objects -> Ids]
      /\ \A o \in Objects : AloneOnItsId(o) =>
           IsPath(history[IdOf[o]]) /\ StateAfter(history[IdOf[o]]) = state[o]
  BY IdOfAssumption DEF HistoryInv, MachineTypeOK, HistoryExplainsState
<1>1. ASSUME NEW o \in Objects, NEW to \in StoryState, Transition(o, to) PROVE HistoryInv'
  <2> DEFINE i == IdOf[o]
             g == Append(history[i], Move(state[o], to))
  <2>1. /\ state' = [state EXCEPT ![o] = to] /\ history' = [history EXCEPT ![i] = g]
        /\ i \in Ids
    BY <1>0, <1>1 DEF Transition
  <2>2. g \in Seq(Moves)
    <3>1. state[o] \in StoryState /\ history[i] \in Seq(Moves)
      BY <1>0, <2>1
    <3>2. Move(state[o], to) \in Moves
      BY <3>1 DEF Move, Moves
    <3>3. QED
      BY <3>1, <3>2
  <2>3. MachineTypeOK'
    BY <1>0, <2>1, <2>2 DEF MachineTypeOK
  <2>4. ASSUME NEW p \in Objects, AloneOnItsId(p)
        PROVE  IsPath(history'[IdOf[p]]) /\ StateAfter(history'[IdOf[p]]) = state'[p]
    <3>1. CASE p = o
      <4>1. /\ IsPath(history[i]) /\ StateAfter(history[i]) = state[o] /\ state[o] \in StoryState
            /\ history[i] \in Seq(Moves)
        BY <1>0, <2>1, <2>4, <3>1
      <4>2. IsPath(g) /\ StateAfter(g) = to
        BY <4>1, PathGoesOn
      <4>3. QED
        BY <1>0, <2>1, <3>1, <4>2
    <3>2. CASE p # o
      <4>1. IdOf[p] # i /\ IdOf[p] \in Ids
        BY <1>0, <2>4, <3>2 DEF AloneOnItsId
      <4>2. history'[IdOf[p]] = history[IdOf[p]] /\ state'[p] = state[p]
        BY <1>0, <2>1, <3>2, <4>1
      <4>3. QED
        BY <1>0, <2>4, <4>2
    <3>3. QED
      BY <3>1, <3>2
  <2>5. QED
    BY <2>3, <2>4 DEF HistoryInv, HistoryExplainsState
<1>2. CASE UNCHANGED machineVars
  BY <1>2 DEF machineVars, HistoryInv, MachineTypeOK, HistoryExplainsState
<1>3. QED
  BY <1>1, <1>2 DEF MachineNext, Rollback

\* The record of a story whose id no other object carries is an unbroken path
\* from RECEIVED to the state the story is in.
THEOREM HistoryIsTrusted == MachineSpec => []HistoryExplainsState
<1>1. HistoryInv => HistoryExplainsState
  BY DEF HistoryInv
<1>2. QED
  BY HistoryStarts, HistoryKeeps, <1>1, PTL DEF MachineSpec
-----------------------------------------------------------------------------
(***************************************************************************)
(* The convergence detector.  What it looks at ends where the iterations   *)
(* end and is as long as a stall, unless the window is shorter: then the   *)
(* detector finds no story stuck, which the program's own limits exclude.  *)
(***************************************************************************)
Iterated == errors \in Seq(IterationError)

LEMMA WindowShowsStall ==
  ASSUME Iterated, StuckThreshold <= WindowSize, Len(errors) >= StuckThreshold,
         \A k \in (Len(errors) - StuckThreshold + 1)..Len(errors) : errors[k] # NoContext
  PROVE  Check(errors) \in {"replan", "enrich_context"}
<1> USE ConvergenceAssumption
<1> DEFINE n == Len(errors)
           r == Recent(errors)
           late == (n - StuckThreshold + 1)..n
<1>1. n \in Nat
  BY DEF Iterated
<1>2. Stuck(r)
  <2>1. CASE n <= WindowSize
    BY <1>1, <2>1 DEF Recent, Stuck
  <2>2. CASE n > WindowSize
    <3>0. r = SubSeq(errors, n - WindowSize + 1, n)
      BY <1>1, <2>2 DEF Recent
    <3>1. r = [k \in 1..WindowSize |-> errors[k + (n - WindowSize)]]
      BY <1>1, <2>2, <3>0 DEF Iterated
    <3>2. Len(r) = WindowSize
      BY <3>1
    <3>3. ASSUME NEW k \in (WindowSize - StuckThreshold + 1)..WindowSize
          PROVE  r[k] # NoContext
      <4>1. k \in 1..WindowSize /\ k + (n - WindowSize) \in late
        BY <1>1, <2>2
      <4>2. QED
        BY <3>1, <4>1
    <3>4. QED
      BY <3>2, <3>3 DEF Stuck
  <2>3. QED
    BY <1>1, <2>1, <2>2
<1>3. CASE Oscillating(r)
  BY <1>3 DEF Check
<1>4. CASE ~Oscillating(r)
  BY <1>2, <1>4 DEF Check
<1>5. QED
  BY <1>3, <1>4

LEMMA WindowIs ==
  ASSUME Iterated
  PROVE  /\ Len(Window) \in Nat /\ DOMAIN Window = 1..Len(Window)
         /\ FailedAt = {k \in 1..Len(Window) : Window[k] # NoContext}
<1> USE ConvergenceAssumption
<1>1. CASE Len(errors) <= WindowSize
  BY <1>1 DEF Iterated, Window, Recent, FailedAt
<1>2. CASE Len(errors) > WindowSize
  BY <1>2 DEF Iterated, Window, Recent, FailedAt
<1> QED
  BY <1>1, <1>2 DEF Iterated

\* The half that the failures are in decides which half has more of them.
LEMMA HalvesCount ==
  ASSUME Iterated, Len(Window) > 1
  PROVE  /\ (\A k \in FailedAt : 2 * k <= Len(Window)) => ~Diverging(Window)
         /\ FailedAt # {} /\ (\A k \in FailedAt : 2 * k > Len(Window)) => Diverging(Window)
<1> DEFINE n == Len(Window)
           mid == n \div 2
           first == {k \in 1..mid : Window[k] # NoContext}
           second == {k \in (mid + 1)..n : Window[k] # NoContext}
<1>0. n \in Nat /\ mid \in Nat /\ 2 * mid <= n /\ n < 2 * mid + 2 /\ mid > 0
  BY WindowIs
<1>1. FailedAt = first \cup second
  BY <1>0, WindowIs
<1>2. IsFiniteSet(first) /\ IsFiniteSet(second)
  <2>1. IsFiniteSet(1..mid) /\ IsFiniteSet((mid + 1)..n)
    BY <1>0, FS_Interval
  <2>2. first \subseteq 1..mid /\ second \subseteq (mid + 1)..n
    OBVIOUS
  <2> QED
    BY <2>1, <2>2, FS_Subset
<1>3. Cardinality(first) \in Nat /\ Cardinality(second) \in Nat
  BY <1>2, FS_CardinalityType
<1>4. Diverging(Window) <=> Cardinality(second) > Cardinality(first)
  BY <1>0 DEF Diverging, ErrorsIn
<1>5. ASSUME \A k \in FailedAt : 2 * k <= n
      PROVE  ~Diverging(Window)
  <2>1. second = {}
    BY <1>0, <1>1, <1>5
  <2>2. Cardinality(second) = 0
    BY <2>1, FS_EmptySet
  <2> QED
    BY <2>2, <1>3, <1>4
<1>6. ASSUME FailedAt # {}, \A k \in FailedAt : 2 * k > n
      PROVE  Diverging(Window)
  <2>1. first = {} /\ second # {}
    BY <1>0, <1>1, <1>6
  <2>2. Cardinality(first) = 0 /\ Cardinality(second) # 0
    BY <2>1, <1>2, FS_EmptySet
  <2> QED
    BY <2>2, <1>3, <1>4
<1> QED
  BY <1>5, <1>6

LEMMA OneIsNoTrend ==
  ASSUME Iterated, Len(Window) <= 1
  PROVE  ~Diverging(Window)
BY WindowIs DEF Diverging

LEMMA TrendsShow ==
  ASSUME Iterated, StuckThreshold <= WindowSize
  PROVE  TrendIsNoticed
<1>1. Diverging(Window) => Check(errors) # "continue"
  BY DEF Check, Window
<1>2. ~Diverging(Window) => Check(errors) # "escalate"
  BY DEF Check, Window
<1>3. Len(Window) \in Nat
  BY WindowIs
<1> QED
  BY <1>1, <1>2, <1>3, WindowShowsStall, HalvesCount, OneIsNoTrend DEF TrendIsNoticed

LEMMA IterationsKept == IterationsSpec => []Iterated
<1>1. IterationsInit => Iterated
  BY DEF IterationsInit, Iterated
<1>2. Iterated /\ [Iterate]_errors => Iterated'
  BY DEF Iterated, Iterate
<1>3. QED
  BY <1>1, <1>2, PTL DEF IterationsSpec

\* The detector answers a stall with a new plan or with more context, lets no
\* story go on whose iterations began to fail in the later half of its window,
\* and gives none up for diverging whose failures are in the earlier half.
THEOREM TrendsAreNoticed == StuckThreshold <= WindowSize => (IterationsSpec => []TrendIsNoticed)
<1> SUFFICES ASSUME StuckThreshold <= WindowSize PROVE IterationsSpec => []TrendIsNoticed
  OBVIOUS
<1>1. Iterated => TrendIsNoticed
  BY TrendsShow
<1>2. QED
  BY <1>1, IterationsKept, PTL

-----------------------------------------------------------------------------
(* The quality gates.  What the gates that have answered say is what their *)
(* program does, and a decision is made of all of them, or after one that  *)
(* the policy requires has failed.                                         *)

Answered == /\ policy \in Policies /\ Done \subseteq Tasks
            /\ \A g \in Done : results[g] = Result(g, answers[g])
            /\ Concurrent => running \cup Done = Tasks
            /\ ~Concurrent => running = {}
            /\ decided => Over

LEMMA GatesStart == QualityInit => Answered
BY DEF QualityInit, Answered, Done, Over

LEMMA GatesKeep == Answered /\ [QualityNext]_qualityVars => Answered'
<1> SUFFICES ASSUME Answered, [QualityNext]_qualityVars PROVE Answered'
  OBVIOUS
<1>0. /\ policy \in Policies /\ Done \subseteq Tasks
      /\ \A g \in Done : results[g] = Result(g, answers[g])
      /\ Concurrent => running \cup Done = Tasks
      /\ ~Concurrent => running = {}
      /\ decided => running = {}
  BY DEF Answered, Over
\* One gate more has answered.
<1>1. ASSUME NEW g \in Tasks, Record(g), running' = running \ {g},
             UNCHANGED <<project, policy, answers, decided>>, ~decided
      PROVE  Answered'
  <2>1. /\ Done' = Done \cup {g}
        /\ \A h \in Done' : results'[h] = IF h = g THEN Result(g, answers[g]) ELSE results[h]
    BY <1>1 DEF Record, Done
  <2>2. Tasks' = Tasks /\ Concurrent' = Concurrent
    BY <1>1 DEF Tasks, Concurrent
  <2>3. \A h : Result(h, answers[h])' = Result(h, answers[h])
    BY <1>1 DEF Result, Outcome, Skips, Run_lint, Run_type_check, Run_unit_test, Run_integration_test, Run_e2e_test,
                Run_sast, Run_dependency_audit, Run_secret_detection, Run_migration_safety, ByFindings, ByExit
  <2>4. \A h \in Done' : results'[h] = Result(h, answers[h])'
    BY <1>0, <2>1, <2>3
  <2>5. QED
    BY <1>0, <1>1, <2>1, <2>2, <2>4 DEF Answered
<1>2. ASSUME NEW g \in running, Concludes(g) PROVE Answered'
  BY <1>0, <1>1, <1>2 DEF Concludes
<1>3. CASE InTurn
  BY <1>0, <1>1, <1>3 DEF InTurn, Remaining
<1>4. ASSUME UNCHANGED <<project, policy, answers, running, results>>, decided' => Over PROVE Answered'
  <2>1. /\ Tasks' = Tasks /\ Concurrent' = Concurrent /\ Done' = Done /\ (StopsFast <=> StopsFast')
        /\ (Over <=> Over')
    BY <1>4 DEF Tasks, Concurrent, Done, StopsFast, Over, Remaining
  <2>2. \A h : Result(h, answers[h])' = Result(h, answers[h])
    BY <1>4 DEF Result, Outcome, Skips, Run_lint, Run_type_check, Run_unit_test, Run_integration_test, Run_e2e_test,
                Run_sast, Run_dependency_audit, Run_secret_detection, Run_migration_safety, ByFindings, ByExit
  <2>3. QED
    BY <1>0, <1>4, <2>1, <2>2 DEF Answered
<1>5. CASE Recommend
  BY <1>4, <1>5 DEF Recommend
<1>6. CASE UNCHANGED qualityVars
  BY <1>4, <1>6 DEF qualityVars, Answered
<1>7. QED
  BY <1>2, <1>3, <1>5, <1>6 DEF QualityNext

Outcomes == {"passed", "skipped", "warning", "failed", "error"}

\* Whatever a gate is and its program answers, it comes to an outcome.
LEMMA GatesComeOut ==
  ASSUME Answered, NEW g \in Tasks
  PROVE  Result(g, answers[g]).outcome \in Outcomes
<1>1. g \in AllGates
  BY QualityAssumption DEF Answered, Tasks
<1>2. \/ g \in {"lint", "type_check", "unit_test", "integration_test", "e2e_test", "sast"}
      \/ g \in {"dependency_audit", "secret_detection", "migration_safety"}
      \/ g \in {"coverage_delta", "performance_budget"}
  BY <1>1 DEF AllGates, GateTypes, Range
<1>3. Outcome(g, answers[g]) \in Outcomes
  <2> DEFINE a == answers[g]
  <2>1. CASE Skips(g)
    BY <2>1 DEF Outcomes, Outcome
  <2>2. CASE ~Skips(g) /\ Raises(a)
    BY <2>2 DEF Outcomes, Outcome
  <2>3. CASE ~Skips(g) /\ ~Raises(a)
    <3>1. g \notin {"coverage_delta", "performance_budget"}
      BY <2>3 DEF Skips
    <3>2. /\ {Run_lint(a), Run_type_check(a), Run_unit_test(a)} \subseteq Outcomes
          /\ {Run_integration_test(a), Run_e2e_test(a), Run_sast(a)} \subseteq Outcomes
          /\ {Run_dependency_audit(a), Run_secret_detection(a), Run_migration_safety(a)} \subseteq Outcomes
      BY DEF Outcomes, Run_lint, Run_type_check, Run_unit_test, Run_integration_test, Run_e2e_test, Run_sast,
             Run_dependency_audit, Run_secret_detection, Run_migration_safety, ByFindings, ByExit
    <3>3. QED
      BY <1>2, <2>3, <3>1, <3>2 DEF Outcome
  <2>4. QED
    BY <2>1, <2>2, <2>3
<1>4. QED
  BY <1>3 DEF Result

\* Side by side, one after the other or stopped at the first failure: an
\* evaluation decides as all its gates would.
THEOREM ModesDecideAlike == QualitySpec => []EveryModeDecidesAlike
<1>1. Answered => EveryModeDecidesAlike
  <2> SUFFICES ASSUME Answered, decided PROVE EveryModeDecidesAlike
    BY DEF EveryModeDecidesAlike
  <2> DEFINE R(g) == Result(g, answers[g])
             count == {g \in Tasks : R(g).enforcement = "required"}
             outcomes == {R(g).outcome : g \in count}
  <2>1. Done \subseteq Tasks /\ (Done = Tasks \/ StopsFast) /\ \A g \in Done : results[g] = R(g)
    BY DEF Answered, Over, Remaining
  <2>2. RequiredOnes \subseteq count /\ \A g \in RequiredOnes : results[g].outcome = R(g).outcome
    BY <2>1 DEF RequiredOnes
  <2>3. \A g \in count : R(g).outcome \in Outcomes
    BY GatesComeOut
  <2>4. CASE Done = Tasks
    <3>1. RequiredOnes = count
      BY <2>1, <2>4 DEF RequiredOnes
    <3>2. recommended_action = "block" <=> "failed" \in outcomes
      BY <2>2, <3>1 DEF recommended_action
    <3>3. all_required_passed <=> outcomes \cap {"failed", "error"} = {}
      <4> HIDE DEF R
      <4>1. outcomes \cap {"failed", "error"} = {} <=> \A g \in count : R(g).outcome \notin {"failed", "error"}
        OBVIOUS
      <4>2. \A g \in count : R(g).outcome \in {"passed", "skipped", "warning"} <=> R(g).outcome \notin {"failed", "error"}
        BY <2>3 DEF Outcomes
      <4>3. \A g \in count : results[g].outcome = R(g).outcome
        BY <2>2, <3>1
      <4> HIDE DEF count
      <4>4. all_required_passed <=> \A g \in count : R(g).outcome \in {"passed", "skipped", "warning"}
        BY <3>1, <4>3 DEF all_required_passed
      <4> HIDE DEF outcomes
      <4>5. QED
        BY <4>1, <4>2, <4>4
    <3>4. QED
      BY <3>2, <3>3 DEF EveryModeDecidesAlike
  <2>5. CASE StopsFast
    <3>1. PICK g \in Done : policy.gates[g] = "required" /\ results[g].outcome = "failed"
      BY <2>5 DEF StopsFast
    <3>2. results[g].enforcement = "required"
      <4>1. Result(g, answers[g]).enforcement
              = IF g = "secret_detection" /\ Outcome(g, answers[g]) # "error" THEN "required" ELSE policy.gates[g]
        BY DEF Result
      <4>2. results[g] = Result(g, answers[g])
        BY <2>1, <3>1
      <4>3. QED
        BY <3>1, <4>1, <4>2
    <3>3. g \in RequiredOnes /\ "failed" \in outcomes
      BY <2>1, <3>1, <3>2 DEF RequiredOnes
    <3>4. recommended_action = "block" /\ ~all_required_passed
      BY <3>1, <3>3 DEF recommended_action, all_required_passed
    <3>5. QED
      BY <3>3, <3>4 DEF EveryModeDecidesAlike
  <2>6. QED
    BY <2>1, <2>4, <2>5
<1>2. QED
  BY GatesStart, GatesKeep, <1>1, PTL DEF QualitySpec
-----------------------------------------------------------------------------
(* The security scanner.  Each report is what its scanner makes of the     *)
(* files that are looked at, and a verdict is made of all three.           *)

Reports == [s \in Scanners |->
  CASE s = "bandit" -> IF Python = {} THEN NoReport
                       ELSE Report("bandit", {MapBanditSeverity(w) : w \in UNION {f.bandit : f \in Python}})
    [] s = "semgrep" -> Report("semgrep", {MapSemgrepSeverity(r) : r \in UNION {f.semgrep : f \in paths}})
    [] s = "secret-detection" -> UNION {SecretsIn(f) : f \in {g \in paths : g.readable}}]

ScanInv == /\ paths = {f \in asked : f.inside /\ f.exists}
           /\ condition \in [{"bandit", "semgrep"} -> {"ok", "missing", "late", "silent", "garbled"}]
           /\ DOMAIN reports \subseteq Scanners
           /\ \A s \in DOMAIN reports : reports[s] = Reports[s]
           /\ verdict # Pending =>
                IF paths = {} THEN verdict = CleanResult
                ELSE DOMAIN reports = Scanners /\ verdict.passed = (Reported \cap {"critical", "high"} = {})

LEMMA ScanStarts == ScanInit => ScanInv
BY DEF ScanInit, ScanInv

LEMMA ScanKeeps == ScanInv /\ [ScanNext]_scanVars => ScanInv'
<1> SUFFICES ASSUME ScanInv, [ScanNext]_scanVars PROVE ScanInv'
  OBVIOUS
<1>1. ASSUME NEW these, Begin(these), these = {f \in asked' : f.inside /\ f.exists} PROVE ScanInv'
  <2>1. /\ paths' = these /\ reports' = <<>> /\ verdict' = IF these = {} THEN CleanResult ELSE Pending
        /\ condition' \in [{"bandit", "semgrep"} -> {"ok", "missing", "late", "silent", "garbled"}]
    BY <1>1, ScanAssumption DEF Begin
  <2>2. QED
    BY <1>1, <2>1 DEF ScanInv
<1>2. ASSUME NEW request \in SUBSET Targets, ScanFiles(request) PROVE ScanInv'
  BY <1>1, <1>2 DEF ScanFiles
<1>3. CASE FullScan
  <2> DEFINE sources == {f \in Targets : f.inside /\ f.exists /\ f.listed}
  <2>1. asked' = sources /\ Begin(sources) /\ sources = {f \in sources : f.inside /\ f.exists}
    BY <1>3 DEF FullScan
  <2>2. QED
    BY <1>1, <2>1
<1>4. ASSUME NEW s \in Scanners, NEW found, Conclude(s, found), found = Reports[s] PROVE ScanInv'
  <2>1. /\ UNCHANGED <<asked, condition, paths, verdict>> /\ verdict = Pending
        /\ DOMAIN reports' = DOMAIN reports \cup {s}
        /\ \A t \in DOMAIN reports' : reports'[t] = IF t = s THEN found ELSE reports[t]
    BY <1>4 DEF Conclude
  <2>2. Reports' = Reports
    BY <2>1 DEF Reports, Python, Report
  <2>3. QED
    BY <1>4, <2>1, <2>2 DEF ScanInv
<1>5. RunBandit => Conclude("bandit", Reports["bandit"])
  BY DEF RunBandit, Reports, Scanners
<1>6. RunSemgrep => Conclude("semgrep", Reports["semgrep"])
  BY DEF RunSemgrep, Reports, Scanners
<1>7. DetectSecrets => Conclude("secret-detection", Reports["secret-detection"])
  BY DEF DetectSecrets, Reports, Scanners
<1>8. CASE Aggregate
  <2>1. /\ paths # {} /\ DOMAIN reports = Scanners /\ UNCHANGED <<asked, condition, paths, reports>>
        /\ verdict'.passed = (Reported \cap {"critical", "high"} = {})
    BY <1>8 DEF Aggregate
  <2>2. Reports' = Reports /\ Reported' = Reported
    BY <2>1 DEF Reports, Python, Report, Reported
  <2>3. QED
    BY <2>1, <2>2 DEF ScanInv
<1>9. CASE UNCHANGED scanVars
  <2>1. Reports' = Reports /\ Reported' = Reported
    BY <1>9 DEF scanVars, Reports, Python, Report, Reported
  <2>2. QED
    BY <1>9, <2>1 DEF ScanInv, scanVars
<1>10. QED
  BY <1>2, <1>3, <1>4, <1>5, <1>6, <1>7, <1>8, <1>9 DEF ScanNext, Scanners

\* The word of a result of semgrep, its own or that of its extra part.
LEMMA WordIsGrave ==
  ASSUME NEW word
  PROVE  (IF word \in {"critical", "c"} THEN "critical"
          ELSE IF word \in {"high", "h"} THEN "high"
          ELSE IF word \in {"low", "l"} THEN "low" ELSE "medium") \in {"critical", "high"}
           <=> word \in {"critical", "c", "high", "h"}
<1>1. CASE word \in {"critical", "c"}
  BY <1>1
<1>2. CASE word \in {"high", "h"}
  BY <1>2
<1>3. CASE word \notin {"critical", "c", "high", "h"}
  BY <1>3
<1> QED
  BY <1>1, <1>2, <1>3

LEMMA SevereIsGrave ==
  ASSUME NEW r
  PROVE  MapSemgrepSeverity(r) \in {"critical", "high"} <=> Severe(r)
<1>1. CASE r.severity = "none"
  BY <1>1, WordIsGrave DEF MapSemgrepSeverity, Severe
<1>2. CASE r.severity # "none"
  BY <1>2, WordIsGrave DEF MapSemgrepSeverity, Severe
<1> QED
  BY <1>1, <1>2

\* What a scanner calls severe, or a secret in a file that was asked for, fails
\* the scan, whatever becomes of the other scanners.
THEOREM ScannersStandAlone == ScanSpec => []NoScannerHidesAnother
<1>1. ScanInv => NoScannerHidesAnother
  <2> SUFFICES ASSUME ScanInv, verdict # Pending PROVE NoScannerHidesAnother
    BY DEF NoScannerHidesAnother
  <2> DEFINE secret == \E f \in paths : f.readable /\ SecretsIn(f) \cap {"critical", "high"} # {}
             bandit == condition.bandit = "ok" /\ \E f \in paths : f.python /\ "high" \in f.bandit
             semgrep == condition.semgrep = "ok" /\ \E f \in paths : \E r \in f.semgrep : Severe(r)
             Grave(R) == R \cap {"critical", "high"} # {}
  <2>1. CASE paths = {}
    BY <2>1 DEF ScanInv, NoScannerHidesAnother, CleanResult
  <2>2. CASE paths # {}
    <3>1. Reported = (UNION {Reports[s] : s \in Scanners}) \ NoReport
      BY <2>2 DEF ScanInv, Reported
    <3>2. Grave(Reported) <=> \E s \in Scanners : Grave(Reports[s])
      BY <3>1 DEF NoReport
    <3>3. Grave(Reports["secret-detection"]) <=> secret
      BY DEF Reports, Scanners
    <3>4. Grave(Reports["bandit"]) <=> bandit
      <4>1. condition["bandit"] \in {"ok", "missing", "late", "silent", "garbled"}
        BY DEF ScanInv
      <4>2. QED
        BY <4>1 DEF Reports, Scanners, Report, NoReport, Python, MapBanditSeverity
    <3>5. Grave(Reports["semgrep"]) <=> semgrep
      <4>1. condition["semgrep"] \in {"ok", "missing", "late", "silent", "garbled"}
        BY DEF ScanInv
      <4> DEFINE found == UNION {f.semgrep : f \in paths}
      <4>2. \A r : MapSemgrepSeverity(r) \in {"critical", "high"} <=> Severe(r)
        BY SevereIsGrave
      <4>3. Grave({MapSemgrepSeverity(r) : r \in found}) <=> \E r \in found : Severe(r)
        BY <4>2
      <4>4. (\E r \in found : Severe(r)) <=> \E f \in paths : \E r \in f.semgrep : Severe(r)
        OBVIOUS
      <4>5. QED
        BY <4>1, <4>3, <4>4 DEF Reports, Scanners, Report, NoReport
    <3>6. verdict.passed <=> ~(secret \/ (bandit \/ semgrep))
      BY <2>2, <3>2, <3>3, <3>4, <3>5 DEF ScanInv, Scanners
    <3>7. QED
      BY <3>6 DEF ScanInv, NoScannerHidesAnother
  <2>3. QED
    BY <2>1, <2>2
<1>2. QED
  BY ScanStarts, ScanKeeps, <1>1, PTL DEF ScanSpec

-----------------------------------------------------------------------------
(* The knowledge graph.  That a provider builds its graph once at the most *)
(* is not inductive: that no second build begins hangs on the flag set     *)
(* under the lock before the first, and that two threads do not build at   *)
(* once on who holds the lock.  BuildsOnce says both.                      *)

Holding == {"build", "write", "load"}
AllProviders == SharedProviders \cup Threads
Graphs == SUBSET (Sources \cup NoGraphFile \cup Unreadable \cup NoGraphYet)
ProviderState == [graph : Graphs, attempted : BOOLEAN, failed : BOOLEAN, builds : Nat]
GraphPlaces == {"idle", "lock", "begin", "chunk", "open", "save", "mark"} \cup Holding
GraphCall == [at : GraphPlaces, on : AllProviders \cup {"no_provider"}, enrich : BOOLEAN,
              already : SUBSET Sources, left : SUBSET Sources, done : SUBSET Sources, found : SUBSET Sources]

KnowledgeTyped == /\ graphFile \in Graphs /\ marker \in SUBSET Sources
                  /\ provider \in [AllProviders -> ProviderState]
                  /\ call \in [Threads -> GraphCall]

\* A call is on a shared provider, or on the one of its own request.
OwnOrShared == \A t \in Threads : call[t].at # "idle" => call[t].on \in SharedProviders \cup {t}

\* One thread at a time holds a provider's lock over a build; whoever builds
\* has left its mark, and nothing was built before it.
BuildsOnce == /\ \A t, u \in Threads :
                   call[t].at \in Holding /\ call[u].at \in Holding /\ call[t].on = call[u].on => t = u
              /\ \A t \in Threads : call[t].at \in Holding =>
                   /\ provider[call[t].on].attempted
                   /\ call[t].at = "build" => provider[call[t].on].builds = 0
              /\ \A p \in AllProviders :
                   /\ provider[p].builds <= 1
                   /\ ~provider[p].attempted => provider[p].builds = 0

KnowledgeInv == KnowledgeTyped /\ OwnOrShared /\ BuildsOnce

LEMMA NewOnes == /\ NewProvider \in ProviderState /\ NewProvider.builds = 0
                 /\ Idle \in GraphCall /\ Idle.at = "idle"
BY DEF NewProvider, ProviderState, Graphs, Idle, GraphCall, GraphPlaces

\* The process as it starts.
LEMMA Restarted ==
  ASSUME graphFile' \in Graphs, marker' \in SUBSET Sources,
         provider' = [p \in AllProviders |-> NewProvider], call' = [t \in Threads |-> Idle]
  PROVE  KnowledgeInv'
<1>1. KnowledgeTyped'
  BY NewOnes DEF KnowledgeTyped
<1>2. OwnOrShared' /\ BuildsOnce'
  BY NewOnes DEF OwnOrShared, BuildsOnce, Holding
<1>3. QED
  BY <1>1, <1>2 DEF KnowledgeInv

LEMMA KnowledgeStarts == KnowledgeInit => KnowledgeInv
<1> SUFFICES ASSUME KnowledgeInit PROVE KnowledgeInv
  OBVIOUS
<1>1. graphFile \in Graphs /\ marker \in SUBSET Sources
  BY DEF KnowledgeInit, Graphs
<1>2. provider = [p \in AllProviders |-> NewProvider] /\ call = [t \in Threads |-> Idle]
  BY DEF KnowledgeInit, AllProviders
<1>3. KnowledgeTyped
  BY <1>1, <1>2, NewOnes DEF KnowledgeTyped
<1>4. OwnOrShared /\ BuildsOnce
  BY <1>2, NewOnes DEF OwnOrShared, BuildsOnce, Holding
<1>5. QED
  BY <1>3, <1>4 DEF KnowledgeInv

\* A step of thread t after which it does not hold a lock that it did not
\* hold, and that begins no build and makes no provider anew but its own.
LEMMA MovesOn ==
  ASSUME KnowledgeInv, KnowledgeTyped', OwnOrShared', NEW t \in Threads,
         \A u \in Threads \ {t} : call'[u] = call[u],
         call'[t].at \in Holding => /\ call[t].at \in Holding /\ call'[t].on = call[t].on
                                    /\ call'[t].at # "build",
         \A p \in AllProviders : \/ /\ provider'[p].attempted = provider[p].attempted
                                    /\ provider'[p].builds = provider[p].builds
                                 \/ p = t /\ provider'[p] = NewProvider /\ call'[t].at \notin Holding
  PROVE  KnowledgeInv'
<1> USE KnowledgeAssumption DEF KnowledgeInv, AllProviders
<1>1. \A u \in Threads \ {t} : call[u].at # "idle" => call[u].on # t
  BY DEF OwnOrShared
<1>2. \A u \in Threads : call'[u].at \in Holding =>
        /\ call[u].at \in Holding /\ call'[u].on = call[u].on /\ call'[u].on \in AllProviders
        /\ call'[u].at = "build" => call[u].at = "build"
        /\ call'[u].on = t => u = t
  BY <1>1 DEF OwnOrShared, Holding
<1>3. NewProvider.builds = 0
  BY DEF NewProvider
<1>4. \A u \in Threads : call'[u].at \in Holding =>
        /\ provider'[call'[u].on].attempted = provider[call[u].on].attempted
        /\ provider'[call'[u].on].builds = provider[call[u].on].builds
  BY <1>2
<1>5. BuildsOnce'
  BY <1>2, <1>3, <1>4 DEF BuildsOnce
<1>6. QED
  BY <1>5

\* Where a call may go, what stays of it on the way, and what it leaves alone.
LEMMA Going ==
  ASSUME KnowledgeTyped, NEW t \in Threads, NEW at \in GraphPlaces, Goes(t, at)
  PROVE  /\ call' \in [Threads -> GraphCall]
         /\ \A u \in Threads \ {t} : call'[u] = call[u]
         /\ call'[t].at = at
         /\ at # "idle" => call'[t].on = call[t].on
<1>1. Idle \in GraphCall /\ Idle.at = "idle"
  BY DEF Idle, GraphCall, GraphPlaces
<1>2. CASE at = "idle"
  BY <1>1, <1>2 DEF Goes, KnowledgeTyped
<1>3. CASE at # "idle"
  <2>1. call' = [call EXCEPT ![t] = [call[t] EXCEPT !.at = at]]
    BY <1>3 DEF Goes
  <2>2. [call[t] EXCEPT !.at = at] \in GraphCall
    BY DEF KnowledgeTyped, GraphCall
  <2>3. [call[t] EXCEPT !.at = at].at = at /\ [call[t] EXCEPT !.at = at].on = call[t].on
    BY DEF KnowledgeTyped, GraphCall
  <2>4. QED
    BY <1>3, <2>1, <2>2, <2>3 DEF KnowledgeTyped
<1>4. QED
  BY <1>2, <1>3

\* What _ensure_graph leads to.
LEMMA Ensuring ==
  ASSUME KnowledgeTyped, NEW t \in Threads, NEW there \in BOOLEAN, Ensured(t, there)
  PROVE  \E at \in {"begin", "idle"} : Goes(t, at)
BY DEF Ensured

\* What is in a file, once it is loaded, is a graph.
LEMMA LoadingGraph == ASSUME KnowledgeTyped PROVE LoadGraph \in Graphs
BY DEF KnowledgeTyped, LoadGraph, Graphs

\* A provider fails to build, or takes a graph.
LEMMA Failing ==
  ASSUME KnowledgeTyped, NEW p \in AllProviders, provider' = [provider EXCEPT ![p].failed = TRUE]
  PROVE  /\ provider' \in [AllProviders -> ProviderState]
         /\ \A q \in AllProviders : /\ provider'[q].attempted = provider[q].attempted
                                    /\ provider'[q].builds = provider[q].builds
<1>1. [provider[p] EXCEPT !.failed = TRUE] \in ProviderState
  BY DEF KnowledgeTyped, ProviderState
<1>2. QED
  BY <1>1 DEF KnowledgeTyped, ProviderState

LEMMA TakingGraph ==
  ASSUME KnowledgeTyped, NEW p \in AllProviders, NEW g \in Graphs, provider' = [provider EXCEPT ![p].graph = g]
  PROVE  /\ provider' \in [AllProviders -> ProviderState]
         /\ \A q \in AllProviders : /\ provider'[q].attempted = provider[q].attempted
                                    /\ provider'[q].builds = provider[q].builds
<1>1. [provider[p] EXCEPT !.graph = g] \in ProviderState
  BY DEF KnowledgeTyped, ProviderState
<1>2. QED
  BY <1>1 DEF KnowledgeTyped, ProviderState

LEMMA KnowledgeKeeps == KnowledgeInv /\ [KnowledgeNext]_knowledgeVars => KnowledgeInv'
<1> SUFFICES ASSUME KnowledgeInv, [KnowledgeNext]_knowledgeVars PROVE KnowledgeInv'
  OBVIOUS
<1> KnowledgeTyped /\ OwnOrShared /\ BuildsOnce
  BY DEF KnowledgeInv
<1>0. \A t \in Threads : \A at \in GraphPlaces : Goes(t, at) /\ (at = "idle" \/ call[t].at # "idle") => OwnOrShared'
  <2> SUFFICES ASSUME NEW t \in Threads, NEW at \in GraphPlaces, Goes(t, at), at = "idle" \/ call[t].at # "idle"
               PROVE  OwnOrShared'
    OBVIOUS
  <2>1. QED
    BY Going DEF OwnOrShared
\* A thread that goes on without a build, and leaves the providers as they are
\* but for their graph and their failures.
<1>1. ASSUME NEW t \in Threads, NEW at \in GraphPlaces, Goes(t, at), call[t].at # "idle",
             at \in Holding => call[t].at \in Holding /\ at # "build",
             graphFile' \in Graphs, marker' \in SUBSET Sources,
             provider' \in [AllProviders -> ProviderState],
             \A p \in AllProviders : \/ /\ provider'[p].attempted = provider[p].attempted
                                        /\ provider'[p].builds = provider[p].builds
                                     \/ p = t /\ provider'[p] = NewProvider /\ at \notin Holding
      PROVE  KnowledgeInv'
  <2>1. KnowledgeTyped' /\ OwnOrShared'
    BY <1>0, <1>1, Going DEF KnowledgeTyped
  <2>2. call'[t].at \in Holding =>
          call[t].at \in Holding /\ call'[t].on = call[t].on /\ call'[t].at # "build"
    BY <1>1, Going DEF Holding
  <2>3. QED
    BY <1>1, <2>1, <2>2, Going, MovesOn
<1>2. ASSUME NEW t \in Threads, NEW p \in SharedProviders, Query(t, p) PROVE KnowledgeInv'
  <2>1. [Idle EXCEPT !.at = "lock", !.on = p] \in GraphCall
    BY NewOnes DEF GraphCall, GraphPlaces, AllProviders
  <2>2. /\ call' = [call EXCEPT ![t] = [Idle EXCEPT !.at = "lock", !.on = p]]
        /\ UNCHANGED <<graphFile, marker, provider>>
    BY <1>2 DEF Query
  <2>3. call'[t].at = "lock" /\ call'[t].on = p /\ \A u \in Threads \ {t} : call'[u] = call[u]
    BY <2>2, NewOnes DEF KnowledgeTyped, GraphCall
  <2>4. KnowledgeTyped' /\ OwnOrShared'
    BY <2>1, <2>2, <2>3 DEF KnowledgeTyped, OwnOrShared
  <2>5. QED
    BY <2>2, <2>3, <2>4, MovesOn DEF Holding
<1>3. ASSUME NEW t \in Threads, Enrich(t) PROVE KnowledgeInv'
  <2>1. [Idle EXCEPT !.at = "lock", !.on = t, !.enrich = TRUE] \in GraphCall
    BY NewOnes DEF GraphCall, GraphPlaces, AllProviders
  <2>2. /\ call' = [call EXCEPT ![t] = [Idle EXCEPT !.at = "lock", !.on = t, !.enrich = TRUE]]
        /\ provider' = [provider EXCEPT ![t] = NewProvider] /\ UNCHANGED <<graphFile, marker>>
    BY <1>3 DEF Enrich
  <2>3. call'[t].at = "lock" /\ call'[t].on = t /\ \A u \in Threads \ {t} : call'[u] = call[u]
    BY <2>2, NewOnes DEF KnowledgeTyped, GraphCall
  <2>4. KnowledgeTyped' /\ OwnOrShared'
    BY <2>1, <2>2, <2>3, NewOnes DEF KnowledgeTyped, OwnOrShared, AllProviders
  <2>5. \A q \in AllProviders : IF q = t THEN provider'[q] = NewProvider ELSE provider'[q] = provider[q]
    BY <2>2 DEF KnowledgeTyped
  <2>6. QED
    BY <2>3, <2>4, <2>5, MovesOn DEF Holding
<1>4. ASSUME NEW t \in Threads, EnsureGraph(t) PROVE KnowledgeInv'
  <2> DEFINE p == call[t].on
  <2>1. /\ call[t].at = "lock" /\ p \in AllProviders /\ UNCHANGED <<graphFile, marker>>
        /\ \A u \in Threads : call[u].on = p => call[u].at \notin Holding
    BY <1>4 DEF EnsureGraph, OwnOrShared, AllProviders, Holding
  <2>2. CASE TriedBefore(p)
    <3>1. Loaded(p) \in BOOLEAN /\ Ensured(t, Loaded(p)) /\ UNCHANGED provider
      BY <1>4, <2>2 DEF EnsureGraph, Loaded
    <3>2. PICK at \in {"begin", "idle"} : Goes(t, at)
      BY <3>1, Ensuring
    <3>3. QED
      BY <1>1, <2>1, <3>1, <3>2 DEF KnowledgeTyped, GraphPlaces, Holding
  <2>3. CASE ~TriedBefore(p)
    <3>1. /\ provider' = [provider EXCEPT ![p].attempted = TRUE, ![p].graph = LoadGraph]
          /\ \E at \in {"begin", "idle", "build"} : Goes(t, at)
      BY <1>4, <2>3, Ensuring DEF EnsureGraph
    <3>2. PICK at \in {"begin", "idle", "build"} : Goes(t, at)
      BY <3>1
    <3>3. provider[p].builds = 0 /\ ~provider[p].attempted
      BY <2>1, <2>3 DEF BuildsOnce, TriedBefore, KnowledgeTyped, ProviderState
    <3>4. /\ provider' \in [AllProviders -> ProviderState]
          /\ provider'[p].attempted /\ provider'[p].builds = provider[p].builds
          /\ \A q \in AllProviders \ {p} : provider'[q] = provider[q]
      <4>1. [provider[p] EXCEPT !.attempted = TRUE, !.graph = LoadGraph] \in ProviderState
        BY <2>1, LoadingGraph DEF KnowledgeTyped, ProviderState
      <4>2. provider' = [provider EXCEPT ![p] = [provider[p] EXCEPT !.attempted = TRUE, !.graph = LoadGraph]]
        BY <2>1, <3>1 DEF KnowledgeTyped
      <4>3. QED
        BY <2>1, <4>1, <4>2 DEF KnowledgeTyped, ProviderState
    <3>5. /\ call' \in [Threads -> GraphCall] /\ \A u \in Threads \ {t} : call'[u] = call[u]
          /\ call'[t].at = at /\ (at # "idle" => call'[t].on = p)
      BY <3>2, Going DEF GraphPlaces, Holding
    <3>6. KnowledgeTyped' /\ OwnOrShared'
      BY <1>0, <2>1, <3>2, <3>4, <3>5 DEF KnowledgeTyped, GraphPlaces, Holding
    <3>7. \A u \in Threads \ {t} : call'[u].at \in Holding =>
            call[u].at \in Holding /\ call[u].on # p /\ call[u].on \in AllProviders
      BY <2>1, <3>5 DEF OwnOrShared, AllProviders, Holding
    <3>8. BuildsOnce'
      <4>1. \A u, v \in Threads :
              call'[u].at \in Holding /\ call'[v].at \in Holding /\ call'[u].on = call'[v].on => u = v
        BY <3>2, <3>5, <3>7 DEF BuildsOnce, Holding
      <4>2. \A u \in Threads : call'[u].at \in Holding =>
              /\ provider'[call'[u].on].attempted
              /\ call'[u].at = "build" => provider'[call'[u].on].builds = 0
        BY <3>2, <3>3, <3>4, <3>5, <3>7 DEF BuildsOnce, Holding
      <4>3. \A q \in AllProviders : /\ provider'[q].builds <= 1
                                    /\ ~provider'[q].attempted => provider'[q].builds = 0
        BY <2>1, <3>4 DEF BuildsOnce
      <4>4. QED
        BY <4>1, <4>2, <4>3 DEF BuildsOnce
    <3>9. QED
      BY <3>6, <3>8 DEF KnowledgeInv
  <2>4. QED
    BY <2>2, <2>3
<1>5. ASSUME NEW t \in Threads, BuildGraph(t) PROVE KnowledgeInv'
  <2> DEFINE p == call[t].on
  <2>1. /\ call[t].at = "build" /\ p \in AllProviders /\ marker' = marker
        /\ provider[p].builds = 0 /\ provider[p].attempted
    BY <1>5 DEF BuildGraph, OwnOrShared, AllProviders, BuildsOnce, Holding
  <2>2. CASE /\ provider' = [provider EXCEPT ![p].failed = TRUE]
             /\ Ensured(t, FALSE) /\ UNCHANGED graphFile
    <3>1. PICK at \in {"begin", "idle"} : Goes(t, at)
      BY <2>2, Ensuring
    <3>2. QED
      BY <1>1, <2>1, <2>2, <3>1, Failing DEF KnowledgeTyped, GraphPlaces, Holding
  <2>3. CASE /\ provider' = [provider EXCEPT ![p].builds = @ + 1]
             /\ graphFile' = Unreadable /\ Goes(t, "write")
    <3>1. /\ provider' \in [AllProviders -> ProviderState]
          /\ provider'[p].attempted /\ provider'[p].builds = 1
          /\ \A q \in AllProviders \ {p} : provider'[q] = provider[q]
      <4>1. provider[p] \in ProviderState /\ provider[p].builds + 1 = 1
        BY <2>1 DEF KnowledgeTyped
      <4>2. provider' = [provider EXCEPT ![p] = [provider[p] EXCEPT !.builds = 1]]
        BY <2>3, <4>1
      <4>3. /\ [provider[p] EXCEPT !.builds = 1] \in ProviderState
            /\ [provider[p] EXCEPT !.builds = 1].builds = 1
            /\ [provider[p] EXCEPT !.builds = 1].attempted
        BY <2>1, <4>1 DEF ProviderState
      <4>4. QED
        BY <2>1, <4>2, <4>3 DEF KnowledgeTyped
    <3>2. /\ call' \in [Threads -> GraphCall] /\ \A u \in Threads \ {t} : call'[u] = call[u]
          /\ call'[t].at = "write" /\ call'[t].on = p
      BY <2>3, Going DEF GraphPlaces, Holding
    <3>3. KnowledgeTyped' /\ OwnOrShared'
      BY <1>0, <2>1, <2>3, <3>1, <3>2 DEF KnowledgeTyped, GraphPlaces, Holding, Graphs
    <3>4. \A u \in Threads \ {t} : call'[u].at \in Holding =>
            call[u].at \in Holding /\ call[u].on # p /\ call[u].on \in AllProviders
      BY <2>1, <3>2 DEF OwnOrShared, AllProviders, Holding, BuildsOnce
    <3>5. BuildsOnce'
      <4>1. \A u, v \in Threads :
              call'[u].at \in Holding /\ call'[v].at \in Holding /\ call'[u].on = call'[v].on => u = v
        BY <3>2, <3>4 DEF BuildsOnce, Holding
      <4>2. \A u \in Threads : call'[u].at \in Holding =>
              /\ provider'[call'[u].on].attempted
              /\ call'[u].at = "build" => provider'[call'[u].on].builds = 0
        BY <3>1, <3>2, <3>4 DEF BuildsOnce, Holding
      <4>3. \A q \in AllProviders : /\ provider'[q].builds <= 1
                                    /\ ~provider'[q].attempted => provider'[q].builds = 0
        BY <2>1, <3>1 DEF BuildsOnce
      <4>4. QED
        BY <4>1, <4>2, <4>3 DEF BuildsOnce
    <3>6. QED
      BY <3>3, <3>5 DEF KnowledgeInv
  <2>4. QED
    BY <1>5, <2>2, <2>3 DEF BuildGraph
<1>6. ASSUME NEW t \in Threads, WriteBuilt(t) PROVE KnowledgeInv'
  <2>1. call[t].at = "write" /\ call[t].on \in AllProviders /\ marker' = marker
    BY <1>6 DEF WriteBuilt, OwnOrShared, AllProviders
  <2>2. CASE graphFile' = {} /\ Goes(t, "load") /\ UNCHANGED provider
    BY <1>1, <2>1, <2>2 DEF KnowledgeTyped, Graphs, GraphPlaces, Holding
  <2>3. CASE /\ provider' = [provider EXCEPT ![call[t].on].failed = TRUE]
             /\ Ensured(t, FALSE) /\ UNCHANGED graphFile
    <3>1. PICK at \in {"begin", "idle"} : Goes(t, at)
      BY <2>3, Ensuring
    <3>2. QED
      BY <1>1, <2>1, <2>3, <3>1, Failing DEF KnowledgeTyped, GraphPlaces, Holding
  <2>4. QED
    BY <1>6, <2>2, <2>3 DEF WriteBuilt
<1>7. ASSUME NEW t \in Threads, LoadBuilt(t) PROVE KnowledgeInv'
  <2>1. /\ call[t].at = "load" /\ call[t].on \in AllProviders /\ UNCHANGED <<graphFile, marker>>
        /\ provider' = [provider EXCEPT ![call[t].on].graph = LoadGraph]
        /\ Ensured(t, LoadGraph # NoGraphYet)
    BY <1>7 DEF LoadBuilt, OwnOrShared, AllProviders
  <2>2. PICK at \in {"begin", "idle"} : Goes(t, at)
    BY <2>1, Ensuring
  <2>3. QED
    BY <1>1, <2>1, <2>2, TakingGraph, LoadingGraph DEF KnowledgeTyped, GraphPlaces, Holding
<1>8. ASSUME NEW t \in Threads, BeginEnrichment(t) \/ AskModel(t) PROVE KnowledgeInv'
  <2>1. PICK at \in {"mark", "chunk"}, already \in SUBSET Sources, left \in SUBSET Sources,
             done \in SUBSET Sources, found \in SUBSET Sources :
          call' = [call EXCEPT ![t] = [call[t] EXCEPT !.at = at, !.already = already, !.left = left,
                                                      !.done = done, !.found = found]]
    <3>1. CASE BeginEnrichment(t)
      <4>1. call[t].done \in SUBSET Sources /\ call[t].found \in SUBSET Sources
        BY DEF KnowledgeTyped, GraphCall
      <4>2. call' = [call EXCEPT ![t] = [call[t] EXCEPT !.at = IF Sources \ marker = {} THEN "mark" ELSE "chunk",
                                                        !.already = marker, !.left = Sources \ marker,
                                                        !.done = call[t].done, !.found = call[t].found]]
        BY <3>1 DEF BeginEnrichment, KnowledgeTyped, GraphCall
      <4>3. QED
        BY <4>1, <4>2 DEF KnowledgeTyped
    <3>2. CASE AskModel(t)
      <4>1. /\ call[t].at = "chunk" /\ call[t].already \in SUBSET Sources /\ call[t].left \in SUBSET Sources
            /\ call[t].done \in SUBSET Sources /\ call[t].found \in SUBSET Sources
        BY <3>2 DEF AskModel, KnowledgeTyped, GraphCall
      <4>2. PICK f \in call[t].left, D \in SUBSET Sources, E \in SUBSET Sources :
              call' = [call EXCEPT ![t] = [call[t] EXCEPT !.at = "chunk", !.already = call[t].already,
                                                          !.left = call[t].left \ {f},
                                                          !.done = call[t].done \cup D,
                                                          !.found = call[t].found \cup E]]
        <5>1. PICK f \in call[t].left :
                \/ call' = [call EXCEPT ![t].left = @ \ {f}]
                \/ \E edges \in {{}, {f}} :
                     call' = [call EXCEPT ![t].left = @ \ {f}, ![t].done = @ \cup {f}, ![t].found = @ \cup edges]
          BY <3>2 DEF AskModel
        <5>2. CASE call' = [call EXCEPT ![t].left = @ \ {f}]
          <6>1. call[t].done \cup {} = call[t].done /\ call[t].found \cup {} = call[t].found
            OBVIOUS
          <6>2. [call[t] EXCEPT !.left = call[t].left \ {f}]
                  = [call[t] EXCEPT !.at = "chunk", !.already = call[t].already, !.left = call[t].left \ {f},
                                    !.done = call[t].done \cup {}, !.found = call[t].found \cup {}]
            BY <4>1, <6>1 DEF KnowledgeTyped, GraphCall
          <6>3. QED
            BY <5>2, <6>2
        <5>3. CASE \E edges \in {{}, {f}} :
                     call' = [call EXCEPT ![t].left = @ \ {f}, ![t].done = @ \cup {f}, ![t].found = @ \cup edges]
          <6>1. PICK edges \in {{}, {f}} :
                     call' = [call EXCEPT ![t].left = @ \ {f}, ![t].done = @ \cup {f}, ![t].found = @ \cup edges]
            BY <5>3
          <6>2. call' = [call EXCEPT ![t] = [call[t] EXCEPT !.at = "chunk", !.already = call[t].already,
                                                          !.left = call[t].left \ {f},
                                                          !.done = call[t].done \cup {f},
                                                          !.found = call[t].found \cup edges]]
            BY <4>1, <6>1 DEF KnowledgeTyped, GraphCall
          <6>3. {f} \in SUBSET Sources /\ edges \in SUBSET Sources
            BY <4>1
          <6>4. QED
            BY <6>2, <6>3
        <5>4. QED
          BY <5>1, <5>2, <5>3
      <4>3. /\ call[t].left \ {f} \in SUBSET Sources /\ call[t].done \cup D \in SUBSET Sources
            /\ call[t].found \cup E \in SUBSET Sources
        BY <4>1
      <4>4. QED
        BY <4>1, <4>2, <4>3
    <3>3. QED
      BY <1>8, <3>1, <3>2
  <2>2. LET new == [call[t] EXCEPT !.at = at, !.already = already, !.left = left, !.done = done, !.found = found]
        IN new \in GraphCall /\ new.at = at /\ new.on = call[t].on
    BY DEF KnowledgeTyped, GraphCall, GraphPlaces
  <2>3. /\ call' \in [Threads -> GraphCall] /\ \A u \in Threads \ {t} : call'[u] = call[u]
        /\ call'[t].at = at /\ call'[t].on = call[t].on
    BY <2>1, <2>2 DEF KnowledgeTyped
  <2>4. UNCHANGED <<graphFile, marker, provider>> /\ call[t].at # "idle"
    BY <1>8 DEF BeginEnrichment, AskModel
  <2>5. KnowledgeTyped' /\ OwnOrShared'
    BY <2>3, <2>4 DEF KnowledgeTyped, OwnOrShared
  <2>6. QED
    BY <2>3, <2>4, <2>5, MovesOn DEF Holding
<1>9. ASSUME NEW t \in Threads, AfterTheModel(t) PROVE KnowledgeInv'
  <2>1. /\ call[t].at = "chunk" /\ call[t].on \in AllProviders /\ UNCHANGED <<graphFile, marker>>
        /\ provider' = [provider EXCEPT ![call[t].on].graph = provider[call[t].on].graph \cup call[t].found]
        /\ \E at \in {"mark", "open"} : Goes(t, at)
    BY <1>9 DEF AfterTheModel, OwnOrShared, AllProviders, KnowledgeTyped
  <2>2. provider[call[t].on].graph \cup call[t].found \in Graphs
    BY <2>1 DEF KnowledgeTyped, ProviderState, GraphCall, Graphs
  <2>3. QED
    BY <1>1, <2>1, <2>2, TakingGraph DEF KnowledgeTyped, GraphPlaces, Holding
<1>10. ASSUME NEW t \in Threads, OpenGraph(t) \/ SaveGraph(t) PROVE KnowledgeInv'
  <2>1. /\ call[t].at \in {"open", "save"} /\ UNCHANGED <<marker, provider>>
        /\ \E at \in {"save", "mark"} : Goes(t, at)
    BY <1>10 DEF OpenGraph, SaveGraph
  <2>2. provider[call[t].on].graph \in Graphs
    BY <2>1 DEF OwnOrShared, AllProviders, KnowledgeTyped, ProviderState
  <2>3. Unreadable \in Graphs /\ graphFile \in Graphs
    BY DEF Graphs, KnowledgeTyped
  <2>4. graphFile' \in Graphs
    BY <1>10, <2>2, <2>3 DEF OpenGraph, SaveGraph
  <2>5. QED
    BY <1>1, <2>1, <2>4 DEF KnowledgeTyped, GraphPlaces, Holding
<1>11. ASSUME NEW t \in Threads, WriteMarker(t) PROVE KnowledgeInv'
  <2>1. /\ call[t].at = "mark" /\ Goes(t, "idle") /\ UNCHANGED graphFile
        /\ provider' = [provider EXCEPT ![t] = NewProvider]
    BY <1>11 DEF WriteMarker
  <2>2. marker' \in SUBSET Sources
    BY <1>11 DEF WriteMarker, KnowledgeTyped, GraphCall
  <2>3. /\ provider' \in [AllProviders -> ProviderState]
        /\ \A q \in AllProviders : IF q = t THEN provider'[q] = NewProvider ELSE provider'[q] = provider[q]
    BY <2>1, NewOnes DEF KnowledgeTyped, AllProviders
  <2>4. QED
    BY <1>1, <2>1, <2>2, <2>3 DEF KnowledgeTyped, GraphPlaces, Holding
<1>12. CASE Die
  BY <1>12, Restarted DEF Die, AllProviders, KnowledgeTyped
<1>13. CASE UNCHANGED knowledgeVars
  BY <1>13 DEF knowledgeVars, KnowledgeInv, KnowledgeTyped, OwnOrShared, BuildsOnce
<1>14. QED
  BY <1>2, <1>3, <1>4, <1>5, <1>6, <1>7, <1>8, <1>9, <1>10, <1>11, <1>12, <1>13 DEF KnowledgeNext, Step

\* No two threads build a provider's graph, and none builds it a second time,
\* however they come by the lock and whatever became of the first.
THEOREM GraphIsBuiltOnce == KnowledgeSpec => []BuiltOnce
<1>1. KnowledgeInv => BuiltOnce
  BY DEF KnowledgeInv, BuildsOnce, KnowledgeTyped, BuiltOnce
<1>2. QED
  BY <1>1, KnowledgeStarts, KnowledgeKeeps, PTL DEF KnowledgeSpec

-----------------------------------------------------------------------------
(* What is marked.  That a marked file has its edges in graph.json is not  *)
(* inductive: it hangs on what each place of an enrichment still owes to   *)
(* the file and to the marker (Undisturbed), which holds as long as no two *)
(* threads write at once and no write stops short, and on that a request   *)
(* for an enrichment works on a provider of its own (OwnEnrichment).       *)

Asking == {"chunk", "open", "save", "mark"}
Graph(t) == provider[call[t].on].graph

\* A graph is one of sources, or is not there.
FilesAreGraphs ==
  /\ graphFile \in (SUBSET Sources) \cup {NoGraphFile, Unreadable}
  /\ \A p \in AllProviders : provider[p].graph \in (SUBSET Sources) \cup {NoGraphYet}

OwnEnrichment(t) ==
  /\ call[t].at \in Asking \cup {"begin"} => call[t].enrich /\ Graph(t) \in SUBSET Sources
  /\ call[t].enrich => call[t].on = t
  /\ call[t].at = "lock" /\ call[t].enrich => provider[t] = NewProvider
  /\ call[t].at \notin Asking => call[t].done = {} /\ call[t].found = {}

Alone == \A t, u \in Threads : Writing(t) /\ Writing(u) => t = u
MarkedInFile == marker \cap answered \subseteq graphFile \/ \E t \in Threads : call[t].at = "save"

\* Each place of a build, and of an enrichment, in its order.
Undisturbed(t) ==
  /\ call[t].at \in Holding => marker \cap answered = {}
  /\ call[t].at \in {"begin", "chunk", "open"} => graphFile \subseteq Graph(t)
  /\ call[t].at \in Asking => call[t].already = marker /\ call[t].done \cap answered \subseteq call[t].found
  /\ call[t].at = "chunk" => call[t].left \cap marker = {}
  /\ call[t].at \in {"open", "save"} => call[t].found \subseteq Graph(t)
  /\ call[t].at = "save" => graphFile = Unreadable /\ marker \cap answered \subseteq Graph(t)
  /\ call[t].at = "mark" => call[t].found \subseteq graphFile

EnrichInv == /\ deaths \in Nat /\ FilesAreGraphs /\ \A t \in Threads : OwnEnrichment(t)
             /\ ~disturbed => Alone /\ MarkedInFile /\ \A t \in Threads : Undisturbed(t)

\* What the history says of a step that it does not count as a disturbance.
LEMMA NotDisturbed ==
  ASSUME Disturb, ~disturbed'
  PROVE  /\ ~disturbed /\ Alone'
         /\ \A t \in Threads : ~WriteFailed(t)
         /\ ~(deaths' > deaths /\ graphFile = Unreadable)
<1>1. ~(\/ disturbed
        \/ \E t \in Threads : WriteFailed(t)
        \/ \E t, u \in Threads : t # u /\ Writing(t)' /\ Writing(u)'
        \/ deaths' > deaths /\ graphFile = Unreadable)
  BY Zenon DEF Disturb
<1>2. Alone'
  BY <1>1, Zenon DEF Alone
<1>3. QED
  BY <1>1, <1>2, Zenon

\* A step of one thread.  The others are not writing, or it changes nothing of
\* what they speak of.
LEMMA OneThread ==
  ASSUME KnowledgeInv, EnrichInv, Disturb, NEW t \in Threads, UNCHANGED deaths,
         \A u \in Threads \ {t} : call'[u] = call[u] /\ provider'[u] = provider[u],
         Writing(t) \/ UNCHANGED <<graphFile, marker, answered>>,
         FilesAreGraphs', OwnEnrichment(t)',
         ~disturbed' /\ ~disturbed /\ Alone' /\ Alone /\ MarkedInFile /\ Undisturbed(t)
           => Undisturbed(t)' /\ (Writing(t) => MarkedInFile')
  PROVE  EnrichInv'
<1>1. \A u \in Threads \ {t} : OwnEnrichment(u)'
  <2> SUFFICES ASSUME NEW u \in Threads \ {t} PROVE OwnEnrichment(u)'
    OBVIOUS
  <2>1. call'[u] = call[u] /\ provider'[u] = provider[u] /\ OwnEnrichment(u)
    BY DEF EnrichInv
  <2>2. QED
    BY <2>1 DEF OwnEnrichment, Graph
<1>2. ASSUME ~disturbed' PROVE Alone' /\ MarkedInFile' /\ \A u \in Threads : Undisturbed(u)'
  <2>1. ~disturbed /\ Alone' /\ Alone /\ MarkedInFile /\ \A u \in Threads : Undisturbed(u)
    BY <1>2, NotDisturbed, Zenon DEF EnrichInv
  <2>2. Undisturbed(t)' /\ (Writing(t) => MarkedInFile')
    BY <1>2, <2>1
  <2>3. \A u \in Threads \ {t} : Undisturbed(u)'
    <3> SUFFICES ASSUME NEW u \in Threads \ {t} PROVE Undisturbed(u)'
      OBVIOUS
    <3>1. call'[u] = call[u] /\ provider'[u] = provider[u] /\ OwnEnrichment(u)
      BY DEF EnrichInv
    <3>2. CASE Writing(t)
      <4>1. ~Writing(u)
        BY <2>1, <3>2 DEF Alone
      <4>2. QED
        BY <3>1, <4>1 DEF Undisturbed, Writing, Asking, Holding
    <3>3. CASE ~Writing(t)
      <4>1. UNCHANGED <<graphFile, marker, answered>> /\ Undisturbed(u)
        BY <2>1, <3>3
      <4>2. QED
        BY <3>1, <4>1 DEF Undisturbed, OwnEnrichment, Asking, Graph
    <3>4. QED
      BY <3>2, <3>3
  <2>4. MarkedInFile'
    <3>1. CASE Writing(t)
      BY <2>2, <3>1
    <3>2. CASE ~Writing(t)
      BY <2>1, <3>2 DEF MarkedInFile, Writing
    <3>3. QED
      BY <3>1, <3>2
  <2>5. QED
    BY <2>1, <2>2, <2>3, <2>4
<1>3. QED
  BY <1>1, <1>2 DEF EnrichInv

\* Going leaves the rest of a call as it is, or ends it.
LEMMA GoingWith ==
  ASSUME KnowledgeTyped, NEW t \in Threads, NEW at \in GraphPlaces, Goes(t, at)
  PROVE  /\ at = "idle" => call'[t] = Idle
         /\ at # "idle" => /\ call'[t].enrich = call[t].enrich /\ call'[t].already = call[t].already
                           /\ call'[t].left = call[t].left /\ call'[t].done = call[t].done
                           /\ call'[t].found = call[t].found
<1>1. CASE at = "idle"
  BY <1>1 DEF Goes, KnowledgeTyped
<1>2. CASE at # "idle"
  <2>1. call'[t] = [call[t] EXCEPT !.at = at] /\ call[t] \in GraphCall
    BY <1>2 DEF Goes, KnowledgeTyped
  <2>2. QED
    BY <1>2, <2>1 DEF GraphCall
<1>3. QED
  BY <1>1, <1>2

\* The words for a graph that is not there name no sources.
LEMMA NotSources ==
  ASSUME NEW g \in (SUBSET Sources) \cup {NoGraphFile, Unreadable}
  PROVE  /\ NoGraphYet \notin SUBSET Sources
         /\ g \notin {NoGraphFile, Unreadable} => g \in SUBSET Sources
         /\ g \in {NoGraphFile, Unreadable} => g \cap Sources = {}
BY KnowledgeAssumption DEF NoGraphFile, Unreadable, NoGraphYet

\* A call that has ended owes nothing.
LEMMA ToIdle == ASSUME NEW t \in Threads, call'[t] = Idle PROVE OwnEnrichment(t)' /\ Undisturbed(t)'
BY DEF OwnEnrichment, Undisturbed, Idle, Asking, Holding

LEMMA OthersStay ==
  ASSUME KnowledgeInv, NEW t \in Threads, call[t].at # "idle",
         NEW g, provider' = [provider EXCEPT ![call[t].on] = g] \/ provider' = [provider EXCEPT ![t] = g]
  PROVE  \A u \in Threads \ {t} : provider'[u] = provider[u]
BY KnowledgeAssumption DEF KnowledgeInv, KnowledgeTyped, OwnOrShared, AllProviders

LEMMA QueryEnriches ==
  ASSUME KnowledgeInv, EnrichInv, Disturb, NEW t \in Threads, NEW p \in SharedProviders, Query(t, p)
  PROVE  EnrichInv'
<1>1. /\ call[t].at = "idle" /\ UNCHANGED <<graphFile, marker, provider, answered, deaths>>
      /\ call' = [call EXCEPT ![t] = [Idle EXCEPT !.at = "lock", !.on = p]]
  BY DEF Query
<1>2. /\ \A u \in Threads \ {t} : call'[u] = call[u]
      /\ call'[t].at = "lock" /\ ~call'[t].enrich /\ call'[t].done = {} /\ call'[t].found = {}
  BY <1>1 DEF KnowledgeInv, KnowledgeTyped, Idle
<1>3. OwnEnrichment(t)' /\ Undisturbed(t)'
  BY <1>2 DEF OwnEnrichment, Undisturbed, Asking, Holding
<1>4. FilesAreGraphs' /\ ~Writing(t)
  BY <1>1 DEF EnrichInv, FilesAreGraphs, Writing
<1>5. QED
  BY <1>1, <1>2, <1>3, <1>4, OneThread

LEMMA EnrichEnriches ==
  ASSUME KnowledgeInv, EnrichInv, Disturb, NEW t \in Threads, Enrich(t)
  PROVE  EnrichInv'
<1>1. /\ call[t].at = "idle" /\ UNCHANGED <<graphFile, marker, answered, deaths>>
      /\ provider' = [provider EXCEPT ![t] = NewProvider]
      /\ call' = [call EXCEPT ![t] = [Idle EXCEPT !.at = "lock", !.on = t, !.enrich = TRUE]]
  BY DEF Enrich
<1>2. /\ \A u \in Threads \ {t} : call'[u] = call[u] /\ provider'[u] = provider[u]
      /\ call'[t].at = "lock" /\ call'[t].on = t /\ call'[t].done = {} /\ call'[t].found = {}
      /\ provider'[t] = NewProvider /\ NewProvider.graph = NoGraphYet
      /\ \A p \in AllProviders : provider'[p] \in {provider[p], NewProvider}
  BY <1>1 DEF KnowledgeInv, KnowledgeTyped, Idle, AllProviders, NewProvider
<1>3. OwnEnrichment(t)' /\ Undisturbed(t)'
  BY <1>2 DEF OwnEnrichment, Undisturbed, Asking, Holding
<1>4. FilesAreGraphs' /\ ~Writing(t)
  BY <1>1, <1>2 DEF EnrichInv, FilesAreGraphs, Writing
<1>5. QED
  BY <1>1, <1>2, <1>3, <1>4, OneThread

\* A provider takes what is in the file: it is a graph of sources, and no
\* more than the file, unless there is none.
LEMMA TakesFile ==
  ASSUME KnowledgeInv, EnrichInv
  PROVE  /\ LoadGraph \in (SUBSET Sources) \cup {NoGraphYet}
         /\ LoadGraph # NoGraphYet => LoadGraph = graphFile /\ LoadGraph \in SUBSET Sources
         /\ LoadGraph = NoGraphYet => graphFile \in {NoGraphFile, Unreadable}
BY NotSources DEF EnrichInv, FilesAreGraphs, LoadGraph

\* The first look at the file under the lock, and the graph as it was built:
\* the enrichment begins with what is in the file, or the call is over.
LEMMA TakesGraph ==
  ASSUME KnowledgeInv, EnrichInv, Disturb, NEW t \in Threads, call[t].at \in {"lock", "load"},
         NEW at \in {"begin", "idle", "build"}, Goes(t, at),
         at = "begin" => LoadGraph # NoGraphYet /\ call[t].enrich,
         at = "build" => LoadGraph = NoGraphYet,
         call[t].at = "load" => at # "build",
         NEW g, g.graph = LoadGraph, provider' = [provider EXCEPT ![call[t].on] = g],
         UNCHANGED <<graphFile, marker, answered, deaths>>
  PROVE  EnrichInv'
<1>1. call[t] \in GraphCall /\ call[t].on \in AllProviders /\ OwnEnrichment(t)
  BY DEF KnowledgeInv, KnowledgeTyped, OwnOrShared, AllProviders, EnrichInv
<1>2. /\ \A u \in Threads \ {t} : call'[u] = call[u] /\ provider'[u] = provider[u]
      /\ call'[t].at = at
      /\ at = "idle" => call'[t] = Idle
      /\ at # "idle" => /\ call'[t].on = call[t].on /\ call'[t].enrich = call[t].enrich
                        /\ call'[t].done = call[t].done /\ call'[t].found = call[t].found
  <2>1. KnowledgeTyped /\ at \in GraphPlaces
    BY DEF KnowledgeInv, GraphPlaces, Holding
  <2>2. \A u \in Threads \ {t} : provider'[u] = provider[u]
    BY OthersStay
  <2>3. QED
    BY <2>1, <2>2, Going, GoingWith
<1>3. provider'[call[t].on].graph = LoadGraph
  BY <1>1 DEF KnowledgeInv, KnowledgeTyped
<1>4. FilesAreGraphs'
  <2>1. \A p \in AllProviders : provider'[p].graph \in {provider[p].graph, LoadGraph}
    BY DEF KnowledgeInv, KnowledgeTyped
  <2>2. QED
    BY <2>1, TakesFile DEF FilesAreGraphs, EnrichInv
<1>5. CASE at = "idle"
  <2>1. OwnEnrichment(t)' /\ Undisturbed(t)'
    BY <1>2, <1>5, ToIdle
  <2>2. ASSUME Alone, MarkedInFile, Undisturbed(t), Writing(t) PROVE MarkedInFile'
    BY <2>2 DEF Undisturbed, MarkedInFile, Writing, Holding
  <2>3. QED
    BY <1>2, <1>4, <2>1, <2>2, OneThread DEF Writing
<1>6. CASE at # "idle"
  <2>1. /\ call'[t].at = at /\ call'[t].on = call[t].on /\ call'[t].enrich = call[t].enrich
        /\ call'[t].done = {} /\ call'[t].found = {}
    BY <1>1, <1>2, <1>6 DEF OwnEnrichment, Asking
  <2>2. OwnEnrichment(t)'
    BY <1>1, <1>3, <2>1, TakesFile DEF OwnEnrichment, Asking, Graph
  <2>3. ASSUME Alone', Alone, MarkedInFile, Undisturbed(t)
        PROVE  Undisturbed(t)' /\ (Writing(t) => MarkedInFile')
    <3>1. CASE at = "begin"
      <4>1. graphFile \subseteq Graph(t)'
        BY <1>3, <2>1, <3>1, TakesFile DEF Graph
      <4>2. Undisturbed(t)'
        BY <2>1, <3>1, <4>1 DEF Undisturbed, Asking, Holding
      <4>3. Writing(t) => MarkedInFile'
        BY <2>3 DEF Undisturbed, MarkedInFile, Writing, Holding
      <4>4. QED
        BY <4>2, <4>3
    <3>2. CASE at = "build"
      <4>1. \A u \in Threads : call[u].at # "save"
        <5> SUFFICES ASSUME NEW u \in Threads, call[u].at = "save" PROVE FALSE
          OBVIOUS
        <5>1. u # t /\ call'[u] = call[u]
          BY <1>2
        <5>2. Writing(u)' /\ Writing(t)'
          BY <2>1, <3>2, <5>1 DEF Writing
        <5>3. QED
          BY <2>3, <5>1, <5>2 DEF Alone
      <4>2. marker \cap answered \subseteq graphFile
        BY <2>3, <4>1 DEF MarkedInFile
      <4>3. graphFile \cap Sources = {}
        BY <3>2, TakesFile, NotSources DEF EnrichInv, FilesAreGraphs
      <4>4. marker \cap answered = {}
        BY <4>2, <4>3 DEF KnowledgeInv, KnowledgeTyped
      <4>5. Undisturbed(t)' /\ MarkedInFile'
        BY <2>1, <3>2, <4>4 DEF Undisturbed, MarkedInFile, Asking, Holding
      <4>6. QED
        BY <4>5
    <3>3. QED
      BY <1>6, <3>1, <3>2
  <2>4. QED
    BY <1>2, <1>4, <2>2, <2>3, OneThread DEF Writing
<1>7. QED
  BY <1>5, <1>6

LEMMA EnsureEnriches ==
  ASSUME KnowledgeInv, EnrichInv, Disturb, NEW t \in Threads, EnsureGraph(t)
  PROVE  EnrichInv'
<1> DEFINE p == call[t].on
<1>1. /\ call[t].at = "lock" /\ p \in AllProviders /\ UNCHANGED <<graphFile, marker, answered, deaths>>
  BY DEF EnsureGraph, KnowledgeInv, OwnOrShared, AllProviders
<1>2. CASE TriedBefore(p)
  <2>1. /\ Ensured(t, Loaded(p)) /\ UNCHANGED provider
    BY <1>2 DEF EnsureGraph
  <2>2. OwnEnrichment(t)
    BY DEF EnrichInv
  <2>3. ~(Loaded(p) /\ call[t].enrich)
    BY <1>1, <2>2 DEF OwnEnrichment, Loaded, NewProvider
  <2>4. Goes(t, "idle")
    BY <2>1, <2>3 DEF Ensured
  <2>5. call'[t] = Idle /\ \A u \in Threads \ {t} : call'[u] = call[u]
    BY <2>4, Going, GoingWith DEF KnowledgeInv, GraphPlaces
  <2>6. FilesAreGraphs' /\ ~Writing(t) /\ OwnEnrichment(t)' /\ Undisturbed(t)'
    BY <1>1, <2>1, <2>5, ToIdle DEF EnrichInv, FilesAreGraphs, Writing
  <2>7. QED
    BY <1>1, <2>1, <2>5, <2>6, OneThread
<1>3. CASE ~TriedBefore(p)
  <2>1. /\ provider' = [provider EXCEPT ![p].attempted = TRUE, ![p].graph = LoadGraph]
        /\ IF LoadGraph # NoGraphYet THEN Ensured(t, TRUE) ELSE Goes(t, "build")
    BY <1>3 DEF EnsureGraph
  <2>2. PICK at \in {"begin", "idle", "build"} :
          /\ Goes(t, at)
          /\ at = "begin" => LoadGraph # NoGraphYet /\ call[t].enrich
          /\ at = "build" => LoadGraph = NoGraphYet
    BY <2>1 DEF Ensured
  <2>3. provider[p] \in ProviderState
    BY <1>1 DEF KnowledgeInv, KnowledgeTyped
  <2>4. PICK g : g.graph = LoadGraph /\ provider' = [provider EXCEPT ![p] = g]
    <3>1. [provider[p] EXCEPT !.attempted = TRUE, !.graph = LoadGraph].graph = LoadGraph
      BY <2>3 DEF ProviderState
    <3>2. provider' = [provider EXCEPT ![p] = [provider[p] EXCEPT !.attempted = TRUE, !.graph = LoadGraph]]
      BY <1>1, <2>1 DEF KnowledgeInv, KnowledgeTyped
    <3>3. QED
      BY <3>1, <3>2
  <2>5. QED
    BY <1>1, <2>2, <2>4, TakesGraph
<1>4. QED
  BY <1>2, <1>3

LEMMA LoadEnriches ==
  ASSUME KnowledgeInv, EnrichInv, Disturb, NEW t \in Threads, LoadBuilt(t)
  PROVE  EnrichInv'
<1> DEFINE p == call[t].on
<1>1. /\ call[t].at = "load" /\ p \in AllProviders /\ UNCHANGED <<graphFile, marker, answered, deaths>>
      /\ provider' = [provider EXCEPT ![p].graph = LoadGraph]
      /\ Ensured(t, LoadGraph # NoGraphYet)
  BY DEF LoadBuilt, KnowledgeInv, OwnOrShared, AllProviders
<1>2. PICK at \in {"begin", "idle", "build"} :
        Goes(t, at) /\ at # "build" /\ (at = "begin" => LoadGraph # NoGraphYet /\ call[t].enrich)
  BY <1>1 DEF Ensured
<1>3. provider[p] \in ProviderState
  BY <1>1 DEF KnowledgeInv, KnowledgeTyped
<1>4. PICK g : g.graph = LoadGraph /\ provider' = [provider EXCEPT ![p] = g]
  BY <1>1, <1>3 DEF ProviderState, KnowledgeInv, KnowledgeTyped
<1>5. QED
  BY <1>1, <1>2, <1>4, TakesGraph

\* A thread that is writing, which goes on without touching the graph of any
\* provider: what is left to show of it is what it owes where it comes to.
LEMMA GoesOn ==
  ASSUME KnowledgeInv, EnrichInv, Disturb, NEW t \in Threads, Writing(t), UNCHANGED deaths,
         \A u \in Threads \ {t} : call'[u] = call[u] /\ provider'[u] = provider[u],
         \A p \in AllProviders : provider'[p].graph \in {provider[p].graph, NoGraphYet},
         graphFile' \in (SUBSET Sources) \cup {NoGraphFile, Unreadable},
         OwnEnrichment(t)',
         ~disturbed' /\ MarkedInFile /\ Undisturbed(t) /\ (\A u \in Threads \ {t} : call[u].at # "save")
           => Undisturbed(t)' /\ MarkedInFile'
  PROVE  EnrichInv'
<1>1. FilesAreGraphs'
  BY DEF FilesAreGraphs, EnrichInv
<1>2. Alone => \A u \in Threads \ {t} : call[u].at # "save"
  BY DEF Alone, Writing
<1>3. QED
  BY <1>1, <1>2, OneThread

\* A build that failed is the end of its call.
LEMMA BuildEnds ==
  ASSUME KnowledgeInv, EnrichInv, Disturb, NEW t \in Threads, call[t].at \in Holding,
         provider' = [provider EXCEPT ![call[t].on].failed = TRUE], Ensured(t, FALSE),
         UNCHANGED <<graphFile, marker, answered, deaths>>
  PROVE  EnrichInv'
<1>1. Goes(t, "idle") /\ call[t].on \in AllProviders /\ KnowledgeTyped
  BY DEF Ensured, KnowledgeInv, OwnOrShared, AllProviders, Holding
<1>2. call'[t] = Idle /\ \A u \in Threads \ {t} : call'[u] = call[u]
  BY <1>1, Going, GoingWith DEF GraphPlaces
<1>3. \A u \in Threads \ {t} : provider'[u] = provider[u]
  BY OthersStay DEF Holding
<1>4. \A p \in AllProviders : provider'[p].graph = provider[p].graph
  BY <1>1 DEF KnowledgeTyped, ProviderState
<1>5. OwnEnrichment(t)' /\ Undisturbed(t)'
  BY <1>2, ToIdle
<1>6. Undisturbed(t) => MarkedInFile'
  BY DEF Undisturbed, MarkedInFile
<1>7. graphFile \in (SUBSET Sources) \cup {NoGraphFile, Unreadable} /\ Writing(t)
  BY DEF EnrichInv, FilesAreGraphs, Writing, Holding
<1>8. QED
  BY <1>2, <1>3, <1>4, <1>5, <1>6, <1>7, GoesOn

\* A build opens its file, and writes the graph that it made.
LEMMA BuildEnriches ==
  ASSUME KnowledgeInv, EnrichInv, Disturb, NEW t \in Threads, BuildGraph(t) \/ WriteBuilt(t)
  PROVE  EnrichInv'
<1> DEFINE p == call[t].on
<1>1. /\ call[t].at \in {"build", "write"} /\ p \in AllProviders /\ UNCHANGED <<marker, answered, deaths>>
      /\ KnowledgeTyped /\ call[t] \in GraphCall /\ OwnEnrichment(t)
  BY DEF BuildGraph, WriteBuilt, KnowledgeInv, OwnOrShared, AllProviders, KnowledgeTyped, EnrichInv
<1>2. CASE /\ provider' = [provider EXCEPT ![p].failed = TRUE]
           /\ Ensured(t, FALSE) /\ UNCHANGED graphFile
  BY <1>1, <1>2, BuildEnds DEF Holding
<1>3. CASE ~(/\ provider' = [provider EXCEPT ![p].failed = TRUE]
             /\ Ensured(t, FALSE) /\ UNCHANGED graphFile)
  <2>1. PICK at \in {"write", "load"} :
          /\ Goes(t, at) /\ graphFile' \in {Unreadable, {}}
          /\ provider' \in {provider, [provider EXCEPT ![p].builds = @ + 1]}
    BY <1>3, Zenon DEF BuildGraph, WriteBuilt
  <2>2. /\ \A u \in Threads \ {t} : call'[u] = call[u]
        /\ call'[t].at = at /\ call'[t].on = p /\ call'[t].enrich = call[t].enrich
        /\ call'[t].done = {} /\ call'[t].found = {}
    <3>1. at \in GraphPlaces /\ at # "idle"
      BY DEF GraphPlaces, Holding
    <3>2. call[t].done = {} /\ call[t].found = {}
      BY <1>1 DEF OwnEnrichment, Asking
    <3>3. QED
      BY <1>1, <2>1, <3>1, <3>2, Going, GoingWith
  <2>3. \A u \in Threads \ {t} : provider'[u] = provider[u]
    <3>1. CASE provider' = provider
      BY <3>1
    <3>2. CASE provider' = [provider EXCEPT ![p].builds = @ + 1]
      <4>1. provider' = [provider EXCEPT ![p] = [provider[p] EXCEPT !.builds = provider[p].builds + 1]]
        BY <3>2
      <4>2. QED
        BY <1>1, <4>1, OthersStay
    <3>3. QED
      BY <2>1, <3>1, <3>2
  <2>4. \A q \in AllProviders : provider'[q].graph = provider[q].graph
    BY <1>1, <2>1 DEF KnowledgeTyped, ProviderState
  <2>5. graphFile' \in (SUBSET Sources) \cup {NoGraphFile, Unreadable} /\ Writing(t)
    BY <1>1, <2>1 DEF Writing
  <2>6. OwnEnrichment(t)'
    BY <1>1, <2>2 DEF OwnEnrichment, Asking
  <2>7. Undisturbed(t) => Undisturbed(t)' /\ MarkedInFile'
    BY <1>1, <2>2 DEF Undisturbed, MarkedInFile, Asking, Holding
  <2>8. QED
    BY <1>1, <2>2, <2>3, <2>4, <2>5, <2>6, <2>7, GoesOn
<1>4. QED
  BY <1>2, <1>3

LEMMA BeginEnriches ==
  ASSUME KnowledgeInv, EnrichInv, Disturb, NEW t \in Threads, BeginEnrichment(t)
  PROVE  EnrichInv'
<1>1. /\ call[t].at = "begin" /\ UNCHANGED <<graphFile, marker, provider, answered, deaths>>
      /\ KnowledgeTyped /\ call[t] \in GraphCall /\ OwnEnrichment(t)
  <2>1. call[t].at = "begin" /\ UNCHANGED <<graphFile, marker, provider, answered, deaths>>
    BY Zenon DEF BeginEnrichment
  <2>2. QED
    BY <2>1 DEF KnowledgeInv, KnowledgeTyped, EnrichInv
<1>2. call[t].done = {} /\ call[t].found = {}
  BY <1>1 DEF OwnEnrichment, Asking
<1>3. PICK at \in {"mark", "chunk"} :
        call' = [call EXCEPT ![t] = [call[t] EXCEPT !.at = at, !.already = marker, !.left = Sources \ marker,
                                                    !.done = {}, !.found = {}]]
  <2>1. call' = [call EXCEPT ![t] = [call[t] EXCEPT !.at = IF Sources \ marker = {} THEN "mark" ELSE "chunk",
                                                    !.already = marker, !.left = Sources \ marker,
                                                    !.done = call[t].done, !.found = call[t].found]]
    BY DEF BeginEnrichment, KnowledgeInv, KnowledgeTyped, GraphCall
  <2>2. QED
    BY <1>2, <2>1
<1>4. /\ \A u \in Threads \ {t} : call'[u] = call[u]
      /\ call'[t].at = at /\ call'[t].on = call[t].on /\ call'[t].enrich = call[t].enrich
      /\ call'[t].already = marker /\ call'[t].left = Sources \ marker
      /\ call'[t].done = {} /\ call'[t].found = {}
  BY <1>1, <1>2, <1>3 DEF KnowledgeTyped, GraphCall
<1>5. OwnEnrichment(t)'
  BY <1>1, <1>4 DEF OwnEnrichment, Asking, Graph
<1>6. ASSUME MarkedInFile, Undisturbed(t), \A u \in Threads \ {t} : call[u].at # "save"
      PROVE  Undisturbed(t)' /\ MarkedInFile'
  <2>1. Undisturbed(t)'
    BY <1>1, <1>4, <1>6 DEF Undisturbed, Asking, Holding, Graph
  <2>2. MarkedInFile'
    BY <1>1, <1>4, <1>6 DEF MarkedInFile
  <2>3. QED
    BY <2>1, <2>2
<1>7. graphFile \in (SUBSET Sources) \cup {NoGraphFile, Unreadable} /\ Writing(t)
  BY <1>1 DEF EnrichInv, FilesAreGraphs, Writing
<1>8. QED
  BY <1>1, <1>4, <1>5, <1>6, <1>7, GoesOn

LEMMA AskEnriches ==
  ASSUME KnowledgeInv, EnrichInv, Disturb, NEW t \in Threads, AskModel(t)
  PROVE  EnrichInv'
<1>1. /\ call[t].at = "chunk" /\ UNCHANGED <<graphFile, marker, provider, deaths>>
      /\ KnowledgeTyped /\ call[t] \in GraphCall /\ OwnEnrichment(t)
  BY DEF AskModel, KnowledgeInv, KnowledgeTyped, EnrichInv
<1>2. PICK f \in call[t].left :
        \/ call' = [call EXCEPT ![t].left = @ \ {f}] /\ UNCHANGED answered
        \/ \E edges \in {{}, {f}} :
             /\ call' = [call EXCEPT ![t].left = @ \ {f}, ![t].done = @ \cup {f}, ![t].found = @ \cup edges]
             /\ answered' = (answered \ {f}) \cup edges
  BY Zenon DEF AskModel
<1>3. /\ \A u \in Threads \ {t} : call'[u] = call[u]
      /\ call'[t].at = "chunk" /\ call'[t].on = call[t].on /\ call'[t].enrich = call[t].enrich
      /\ call'[t].already = call[t].already /\ call'[t].left = call[t].left \ {f}
      /\ \/ call'[t].done = call[t].done /\ call'[t].found = call[t].found /\ answered' = answered
         \/ \E edges \in {{}, {f}} : /\ call'[t].done = call[t].done \cup {f}
                                     /\ call'[t].found = call[t].found \cup edges
                                     /\ answered' = (answered \ {f}) \cup edges
  <2>1. CASE call' = [call EXCEPT ![t].left = @ \ {f}] /\ UNCHANGED answered
    BY <1>1, <2>1 DEF KnowledgeTyped, GraphCall
  <2>2. ASSUME NEW edges \in {{}, {f}},
               call' = [call EXCEPT ![t].left = @ \ {f}, ![t].done = @ \cup {f}, ![t].found = @ \cup edges],
               answered' = (answered \ {f}) \cup edges
        PROVE  /\ \A u \in Threads \ {t} : call'[u] = call[u]
               /\ call'[t].at = "chunk" /\ call'[t].on = call[t].on /\ call'[t].enrich = call[t].enrich
               /\ call'[t].already = call[t].already /\ call'[t].left = call[t].left \ {f}
               /\ call'[t].done = call[t].done \cup {f} /\ call'[t].found = call[t].found \cup edges
    BY <1>1, <2>2 DEF KnowledgeTyped, GraphCall
  <2>3. QED
    BY <1>2, <2>1, <2>2
<1>4. OwnEnrichment(t)'
  BY <1>1, <1>3 DEF OwnEnrichment, Asking, Graph
<1>5. ASSUME MarkedInFile, Undisturbed(t), \A u \in Threads \ {t} : call[u].at # "save"
      PROVE  Undisturbed(t)' /\ MarkedInFile'
  <2>1. f \notin marker /\ call[t].left \cap marker = {} /\ call[t].already = marker
        /\ call[t].done \cap answered \subseteq call[t].found
    BY <1>1, <1>5 DEF Undisturbed, Asking
  <2>2. marker \cap answered' = marker \cap answered
    BY <1>3, <2>1
  <2>3. (call[t].done \cap answered \subseteq call[t].found) => (call'[t].done \cap answered' \subseteq call'[t].found)
    BY <1>3
  <2>4. call'[t].left \cap marker = {}
    BY <1>3, <2>1
  <2>5. graphFile' \subseteq Graph(t)'
    BY <1>1, <1>3, <1>5 DEF Undisturbed, Graph
  <2>6. Undisturbed(t)'
    BY <1>1, <1>3, <2>1, <2>3, <2>4, <2>5 DEF Undisturbed, Asking, Holding
  <2>7. MarkedInFile'
    BY <1>1, <1>3, <1>5, <2>2 DEF MarkedInFile
  <2>8. QED
    BY <2>6, <2>7
<1>6. graphFile \in (SUBSET Sources) \cup {NoGraphFile, Unreadable} /\ Writing(t)
  BY <1>1 DEF EnrichInv, FilesAreGraphs, Writing
<1>7. QED
  BY <1>1, <1>3, <1>4, <1>5, <1>6, GoesOn

LEMMA MergeEnriches ==
  ASSUME KnowledgeInv, EnrichInv, Disturb, NEW t \in Threads, AfterTheModel(t)
  PROVE  EnrichInv'
<1> DEFINE g == provider[t].graph \cup call[t].found
<1>1. /\ call[t].at = "chunk" /\ UNCHANGED <<graphFile, marker, answered, deaths>>
      /\ KnowledgeTyped /\ call[t] \in GraphCall /\ OwnEnrichment(t)
  BY DEF AfterTheModel, KnowledgeInv, KnowledgeTyped, EnrichInv
<1>2. call[t].on = t /\ call[t].enrich /\ provider[t].graph \in SUBSET Sources /\ g \in SUBSET Sources
  BY <1>1 DEF OwnEnrichment, Asking, Graph, GraphCall
<1>3. provider' = [provider EXCEPT ![t] = [provider[t] EXCEPT !.graph = g]]
  BY <1>2 DEF AfterTheModel
<1>4. PICK at \in {"mark", "open"} : Goes(t, at) /\ (at = "mark" => call[t].found = {})
  BY DEF AfterTheModel
<1>5. /\ \A u \in Threads \ {t} : call'[u] = call[u]
      /\ call'[t].at = at /\ call'[t].on = t /\ call'[t].enrich /\ call'[t].already = call[t].already
      /\ call'[t].done = call[t].done /\ call'[t].found = call[t].found
  <2>1. at \in GraphPlaces /\ at # "idle"
    BY DEF GraphPlaces
  <2>2. QED
    BY <1>1, <1>2, <1>4, <2>1, Going, GoingWith
<1>6. /\ provider'[t].graph = g
      /\ \A p \in AllProviders : p # t => provider'[p] = provider[p]
  <2>1. provider[t] \in ProviderState
    BY <1>1 DEF KnowledgeTyped, AllProviders
  <2>2. [provider[t] EXCEPT !.graph = g].graph = g
    BY <2>1 DEF ProviderState
  <2>3. QED
    BY <1>1, <1>3, <2>2 DEF KnowledgeTyped, AllProviders
<1> HIDE DEF g
<1>7. OwnEnrichment(t)'
  BY <1>2, <1>5, <1>6 DEF OwnEnrichment, Asking, Graph
<1>8. FilesAreGraphs'
  BY <1>1, <1>2, <1>6 DEF EnrichInv, FilesAreGraphs
<1>9. ASSUME Alone, MarkedInFile, Undisturbed(t) PROVE Undisturbed(t)' /\ MarkedInFile'
  <2>1. graphFile \subseteq provider[t].graph /\ call[t].already = marker
        /\ call[t].done \cap answered \subseteq call[t].found
    BY <1>1, <1>2, <1>9 DEF Undisturbed, Asking, Graph
  <2>2. graphFile \subseteq g /\ call[t].found \subseteq g
    BY <2>1 DEF g
  <2>3. Undisturbed(t)'
    BY <1>1, <1>4, <1>5, <1>6, <2>1, <2>2 DEF Undisturbed, Asking, Holding, Graph
  <2>4. \A u \in Threads : call[u].at # "save"
    BY <1>1, <1>9 DEF Alone, Writing
  <2>5. MarkedInFile'
    BY <1>1, <1>9, <2>4 DEF MarkedInFile
  <2>6. QED
    BY <2>3, <2>5
<1>10. \A u \in Threads \ {t} : provider'[u] = provider[u]
  BY <1>6 DEF AllProviders
<1>11. QED
  BY <1>1, <1>5, <1>7, <1>8, <1>9, <1>10, OneThread

LEMMA SaveEnriches ==
  ASSUME KnowledgeInv, EnrichInv, Disturb, NEW t \in Threads, OpenGraph(t) \/ SaveGraph(t)
  PROVE  EnrichInv'
<1>1. /\ call[t].at \in {"open", "save"} /\ UNCHANGED <<marker, provider, answered, deaths>>
      /\ KnowledgeTyped /\ call[t] \in GraphCall /\ OwnEnrichment(t)
  BY DEF OpenGraph, SaveGraph, KnowledgeInv, KnowledgeTyped, EnrichInv
<1>2. call[t].on = t /\ call[t].enrich /\ Graph(t) \in SUBSET Sources
  BY <1>1 DEF OwnEnrichment, Asking
<1>3. PICK at \in {"save", "mark"} :
        /\ Goes(t, at)
        /\ \/ call[t].at = "open" /\ at = "save" /\ graphFile' = Unreadable
           \/ call[t].at = "open" /\ at = "mark" /\ graphFile' = graphFile
           \/ call[t].at = "save" /\ at = "mark" /\ graphFile' \in {Graph(t), Unreadable}
  BY DEF OpenGraph, SaveGraph, Graph
<1>4. /\ \A u \in Threads \ {t} : call'[u] = call[u]
      /\ call'[t].at = at /\ call'[t].on = t /\ call'[t].enrich /\ call'[t].already = call[t].already
      /\ call'[t].done = call[t].done /\ call'[t].found = call[t].found
  <2>1. at \in GraphPlaces /\ at # "idle"
    BY DEF GraphPlaces
  <2>2. QED
    BY <1>1, <1>2, <1>3, <2>1, Going, GoingWith
<1>5. OwnEnrichment(t)' /\ Graph(t)' = Graph(t)
  BY <1>1, <1>2, <1>4 DEF OwnEnrichment, Asking, Graph
<1>6. graphFile' \in (SUBSET Sources) \cup {NoGraphFile, Unreadable} /\ Writing(t)
  BY <1>1, <1>2, <1>3 DEF EnrichInv, FilesAreGraphs, Writing
<1>7. ASSUME ~disturbed', MarkedInFile, Undisturbed(t), \A u \in Threads \ {t} : call[u].at # "save"
      PROVE  Undisturbed(t)' /\ MarkedInFile'
  <2>1. ~WriteFailed(t)
    BY <1>7, NotDisturbed
  <2>2. call[t].already = marker /\ call[t].done \cap answered \subseteq call[t].found /\ call[t].found \subseteq Graph(t)
    BY <1>1, <1>7 DEF Undisturbed, Asking
  <2>3. CASE call[t].at = "open"
    <3>1. at = "save" /\ graphFile' = Unreadable
      BY <1>3, <1>4, <2>1, <2>3 DEF WriteFailed
    <3>2. marker \cap answered \subseteq graphFile
      BY <1>7, <2>3 DEF MarkedInFile
    <3>3. graphFile \subseteq Graph(t)
      BY <1>7, <2>3 DEF Undisturbed
    <3>4. marker \cap answered \subseteq Graph(t)
      BY <3>2, <3>3
    <3>5. Undisturbed(t)'
      BY <1>1, <1>4, <1>5, <2>2, <3>1, <3>4 DEF Undisturbed, Asking, Holding
    <3>6. MarkedInFile'
      BY <1>4, <3>1 DEF MarkedInFile
    <3>7. QED
      BY <3>5, <3>6
  <2>4. CASE call[t].at = "save"
    <3>1. at = "mark" /\ graphFile' = Graph(t)
      BY <1>3, <2>1, <2>4 DEF WriteFailed
    <3>2. marker \cap answered \subseteq Graph(t)
      BY <1>7, <2>4 DEF Undisturbed
    <3>3. Undisturbed(t)'
      BY <1>1, <1>4, <2>2, <3>1 DEF Undisturbed, Asking, Holding
    <3>4. MarkedInFile'
      BY <1>1, <3>1, <3>2 DEF MarkedInFile
    <3>5. QED
      BY <3>3, <3>4
  <2>5. QED
    BY <1>1, <2>3, <2>4
<1>8. QED
  BY <1>1, <1>4, <1>5, <1>6, <1>7, GoesOn

LEMMA MarkEnriches ==
  ASSUME KnowledgeInv, EnrichInv, Disturb, NEW t \in Threads, WriteMarker(t)
  PROVE  EnrichInv'
<1>1. /\ call[t].at = "mark" /\ UNCHANGED <<graphFile, answered, deaths>> /\ Goes(t, "idle")
      /\ provider' = [provider EXCEPT ![t] = NewProvider] /\ KnowledgeTyped
      /\ marker' \in {call[t].already \cup call[t].done, marker, {}}
  BY DEF WriteMarker, KnowledgeInv
<1>2. call'[t] = Idle /\ \A u \in Threads \ {t} : call'[u] = call[u] /\ provider'[u] = provider[u]
  BY <1>1, Going, GoingWith DEF GraphPlaces, KnowledgeTyped, AllProviders
<1>3. \A p \in AllProviders : provider'[p].graph \in {provider[p].graph, NoGraphYet}
  BY <1>1 DEF KnowledgeTyped, NewProvider
<1>4. OwnEnrichment(t)' /\ Undisturbed(t)'
  BY <1>2, ToIdle
<1>5. ASSUME MarkedInFile, Undisturbed(t), \A u \in Threads \ {t} : call[u].at # "save"
      PROVE  MarkedInFile'
  <2>1. marker \cap answered \subseteq graphFile
    BY <1>1, <1>5 DEF MarkedInFile
  <2>2. /\ call[t].already = marker /\ call[t].done \cap answered \subseteq call[t].found
        /\ call[t].found \subseteq graphFile
    BY <1>1, <1>5 DEF Undisturbed, Asking
  <2>3. marker' \cap answered \subseteq graphFile
    BY <1>1, <2>1, <2>2
  <2>4. QED
    BY <1>1, <2>3 DEF MarkedInFile
<1>6. graphFile \in (SUBSET Sources) \cup {NoGraphFile, Unreadable} /\ Writing(t)
  BY <1>1 DEF EnrichInv, FilesAreGraphs, Writing
<1>7. QED
  BY <1>1, <1>2, <1>3, <1>4, <1>5, <1>6, GoesOn

LEMMA DieEnriches ==
  ASSUME KnowledgeInv, EnrichInv, Disturb, Die
  PROVE  EnrichInv'
<1>1. /\ deaths' = deaths + 1 /\ deaths \in Nat /\ UNCHANGED <<graphFile, marker, answered>>
      /\ \A p \in AllProviders : provider'[p] = NewProvider
      /\ \A t \in Threads : call'[t] = Idle
  BY DEF Die, EnrichInv, AllProviders
<1>2. FilesAreGraphs'
  BY <1>1 DEF EnrichInv, FilesAreGraphs, NewProvider
<1>3. \A t \in Threads : OwnEnrichment(t)' /\ Undisturbed(t)'
  BY <1>1, ToIdle
<1>4. ASSUME ~disturbed' PROVE Alone' /\ MarkedInFile'
  <2>1. ~disturbed /\ Alone' /\ ~(deaths' > deaths /\ graphFile = Unreadable)
    BY <1>4, NotDisturbed
  <2>2. graphFile # Unreadable
    BY <1>1, <2>1
  <2>3. \A t \in Threads : call[t].at # "save"
    BY <2>1, <2>2 DEF EnrichInv, Undisturbed
  <2>4. MarkedInFile
    BY <2>1 DEF EnrichInv
  <2>5. QED
    BY <1>1, <2>1, <2>3, <2>4 DEF MarkedInFile
<1>5. deaths' \in Nat
  BY <1>1
<1>6. QED
  BY <1>2, <1>3, <1>4, <1>5 DEF EnrichInv

LEMMA EnrichStarts == KnowledgeInit => EnrichInv
<1> SUFFICES ASSUME KnowledgeInit PROVE EnrichInv
  OBVIOUS
<1>1. /\ graphFile = NoGraphFile /\ marker = {} /\ deaths = 0
      /\ \A p \in AllProviders : provider[p] = NewProvider
      /\ \A t \in Threads : call[t] = Idle
  BY DEF KnowledgeInit, AllProviders
<1>2. FilesAreGraphs
  BY <1>1 DEF FilesAreGraphs, NewProvider
<1>3. \A t \in Threads : OwnEnrichment(t) /\ Undisturbed(t)
  BY <1>1 DEF OwnEnrichment, Undisturbed, Idle, Asking, Holding
<1>4. Alone /\ MarkedInFile
  BY <1>1 DEF Alone, MarkedInFile, Writing, Idle
<1>5. QED
  BY <1>1, <1>2, <1>3, <1>4 DEF EnrichInv

LEMMA EnrichKeeps == KnowledgeInv /\ EnrichInv /\ [KnowledgeNext]_knowledgeVars => EnrichInv'
<1> SUFFICES ASSUME KnowledgeInv, EnrichInv, [KnowledgeNext]_knowledgeVars PROVE EnrichInv'
  OBVIOUS
<1>1. CASE UNCHANGED knowledgeVars
  BY <1>1 DEF knowledgeVars, EnrichInv, FilesAreGraphs, OwnEnrichment, Alone, MarkedInFile, Undisturbed,
              Graph, Writing
<1>2. CASE Step /\ Disturb
  BY <1>2, QueryEnriches, EnrichEnriches, EnsureEnriches, BuildEnriches, LoadEnriches, BeginEnriches,
     AskEnriches, MergeEnriches, SaveEnriches, MarkEnriches, DieEnriches DEF Step
<1>3. QED
  BY <1>1, <1>2 DEF KnowledgeNext

\* Whenever the process ends, the graph has the edges of every file that the
\* marker will have passed over from then on, unless two writers overlapped or
\* a write of the graph was cut short.
THEOREM MarkedFilesAreEnriched == KnowledgeSpec => []MarkedIsEnriched
<1>1. EnrichInv => MarkedIsEnriched
  BY DEF EnrichInv, MarkedInFile, MarkedIsEnriched
<1>2. QED
  BY <1>1, KnowledgeStarts, KnowledgeKeeps, EnrichStarts, EnrichKeeps, PTL DEF KnowledgeSpec
=============================================================================
