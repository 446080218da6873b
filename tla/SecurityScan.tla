---------------------------- MODULE SecurityScan ----------------------------
(***************************************************************************)
(* One scan of security/__init__.py: the files it looks at, its three      *)
(* scanners side by side, and the verdict over what they report.           *)
(*                                                                         *)
(* A file is a record: where it lies, whether it is source, can be read,   *)
(* and what each scanner would find in it.  Texts, positions, categories   *)
(* and durations are left out.                                             *)
(***************************************************************************)
EXTENDS Integers, FiniteSets

CONSTANTS Targets,      \* the files a scan may be asked for
          Conditions  \* of an external program: "ok", "missing", "late", "silent", "garbled"

ASSUME ScanAssumption == Conditions \subseteq {"ok", "missing", "late", "silent", "garbled"}

VARIABLES asked,      \* the files of the request
          condition,  \* of bandit and semgrep
          paths,      \* the files that are scanned
          reports,    \* severities reported by the scanners that have answered; NoReport for none
          verdict     \* the result handed back

scanVars == <<asked, condition, paths, reports, verdict>>

Scanners == {"bandit", "semgrep", "secret-detection"}
NoReport == {"no_report"}
Pending == [passed |-> FALSE, counts |-> NoReport]
CleanResult == [passed |-> TRUE, counts |-> {}]

Severities == {"critical", "high", "medium", "low", "info"}
\* What does not say high or low is of medium severity: a missing word too.
MapBanditSeverity(word) == IF word \in {"high", "low"} THEN word ELSE "medium"
\* The word of a result is its own or, when it has none, that of its extra part.
MapSemgrepSeverity(r) ==
  LET word == IF r.severity = "none" THEN r.extra ELSE r.severity
  IN  IF word \in {"critical", "c"} THEN "critical"
      ELSE IF word \in {"high", "h"} THEN "high"
      ELSE IF word \in {"low", "l"} THEN "low" ELSE "medium"

\* What is taken for a secret, and how severe it is.
RuleSeverity == [aws_access_key |-> "critical", github_token |-> "critical", private_key |-> "critical",
                 generic_api_key |-> "high", hardcoded_password |-> "high", jwt_token |-> "high",
                 database_connection |-> "high", slack_token |-> "high", high_entropy_base64 |-> "low"]
\* These must be random enough, a password also long enough and no example.
NeedStrength == {"generic_api_key", "hardcoded_password", "high_entropy_base64"}
SecretsIn(f) == {RuleSeverity[s.rule] : s \in {x \in f.secrets : x.rule \in NeedStrength => x.strong}}
-----------------------------------------------------------------------------
ScanInit == /\ asked = {} /\ condition = [s \in {"bandit", "semgrep"} |-> "ok"] /\ paths = {}
            /\ reports = <<>> /\ verdict = Pending

Begin(these) == /\ (paths = {} \/ verdict # Pending) /\ paths' = these
                /\ condition' \in [{"bandit", "semgrep"} -> Conditions]
                /\ reports' = <<>> /\ verdict' = IF these = {} THEN CleanResult ELSE Pending

\* scan_files: what is outside the project or is not there is passed over.
ScanFiles(request) == asked' = request /\ Begin({f \in request : f.inside /\ f.exists})
\* full_scan: the sources of the project, but for the directories left out.
FullScan == LET sources == {f \in Targets : f.inside /\ f.exists /\ f.listed}
            IN asked' = sources /\ Begin(sources)

\* _run_tool, and what is read from its output: no report for a program that
\* is missing or late, an empty one for one that prints no JSON.
Report(tool, found) == CASE condition[tool] \in {"missing", "late"} -> NoReport
                         [] condition[tool] \in {"silent", "garbled"} -> {}
                         [] OTHER -> found
Conclude(scanner, found) == /\ paths # {} /\ scanner \notin DOMAIN reports /\ verdict = Pending
                         /\ reports' = [s \in DOMAIN reports \cup {scanner} |->
                                          IF s = scanner THEN found ELSE reports[s]]
                         /\ UNCHANGED <<asked, condition, paths, verdict>>

Python == {f \in paths : f.python}
RunBandit == Conclude("bandit", IF Python = {} THEN NoReport
                             ELSE Report("bandit", {MapBanditSeverity(w) : w \in UNION {f.bandit : f \in Python}}))
RunSemgrep == Conclude("semgrep", Report("semgrep", {MapSemgrepSeverity(r) : r \in UNION {f.semgrep : f \in paths}}))
\* A file that is too large, binary or cannot be read is passed over.
DetectSecrets == Conclude("secret-detection", UNION {SecretsIn(f) : f \in {g \in paths : g.readable}})

\* Mutant of Reported: a scanner without a report is taken for a failed scan,
\* whose results are given up.
Reported_AllOrNone == IF \E s \in DOMAIN reports : reports[s] = NoReport THEN {}
                      ELSE UNION {reports[s] : s \in DOMAIN reports}
\* The reports that gather hands over.
Reported == (UNION {reports[s] : s \in DOMAIN reports}) \ NoReport

\* _run_scanners, once all have answered, and _aggregate_results.
Aggregate == /\ paths # {} /\ DOMAIN reports = Scanners /\ verdict = Pending
             /\ verdict' = [passed |-> Reported \cap {"critical", "high"} = {}, counts |-> Reported]
             /\ UNCHANGED <<asked, condition, paths, reports>>

ScanNext == \/ (\E request \in SUBSET Targets : ScanFiles(request)) \/ FullScan
            \/ RunBandit \/ RunSemgrep \/ DetectSecrets \/ Aggregate

ScanSpec == ScanInit /\ [][ScanNext]_scanVars
-----------------------------------------------------------------------------
\* A result of semgrep that calls itself severe, in a word or a letter.
Severe(r) == \/ r.severity \in {"critical", "c", "high", "h"}
             \/ r.severity = "none" /\ r.extra \in {"critical", "c", "high", "h"}

\* A scan never passes over what one of its scanners can see: a critical or
\* high secret in a file that it was asked for, or a finding that a scanner
\* calls severe, fails it, whatever becomes of the other scanners and in
\* whatever order they answer; and it does not fail for files it should not
\* look at.
NoScannerHidesAnother ==
  verdict # Pending =>
    LET seen == {f \in asked : f.inside /\ f.exists}
        secret == \E f \in seen : f.readable /\ SecretsIn(f) \cap {"critical", "high"} # {}
        flaw == \/ condition.bandit = "ok" /\ \E f \in seen : f.python /\ "high" \in f.bandit
                \/ condition.semgrep = "ok" /\ \E f \in seen : \E r \in f.semgrep : Severe(r)
    IN verdict.passed <=> ~(secret \/ flaw)
=============================================================================
