# fastcoder: a TLA+ verification development

fastcoder is an autonomous coding agent: a user submits a story, and an orchestrator takes it
through analysis, planning, a coding-review-test loop, deployment and verification, calling a
language model and the host's tools on the way. These modules model the parts of it whose
behaviour depends on the order of events, model-check them with TLC on small instances, and
prove with TLAPS what should hold for every instance. Paths below are relative to
`src/src/fastcoder/` unless they begin with `docs/` or `tests/` (under `src/`).

## 1. Inventory

| Component | State it keeps | Operations | What is hard | What makes it correct |
|---|---|---|---|---|
| state machine (`orchestrator/state_machine.py`) | the state of each Story object, a history per story id | `transition`, `rollback`, `get_history` | objects and copies of them share an id | the history is a path that ends where the story is; DONE and FAILED are final |
| retry policy (`orchestrator/retry_policy.py`) | attempts and a circuit breaker per (story, stage) | `should_retry`, `record_attempt`, `reset`, `clear_all` | two dictionaries in step | the breaker says what the attempts on record imply |
| convergence detector (`orchestrator/convergence_detector.py`) | none: a function of the story's iterations | `check` | windows, halves, boundaries | a stall is noticed, and a turn for the worse or for the better |
| approval gates (`orchestrator/approval_gate.py`) | pending approvals, decisions | `check_gate`, `approve`, `reject`, `clear_pending`, `clear_all_for_story` | people decide at any moment | an answer belongs to its own story and gate |
| orchestrator (`orchestrator/__init__.py`) | stories, their iterations, a loop counter | `process_story` and its eight stages | awaits, copies returned by components, swallowed exceptions, nested retries | every story ends DONE or FAILED; only cleared, tested code is deployed; work is bounded |
| component adapters (`orchestrator/adapters.py`) | references to the wrapped components | one call each | they answer in place, by copy, or by raising; some hide failures | the orchestrator copes with every way to answer |
| gate timeouts (`orchestrator/gate_timeout.py`) | a deadline per (story, gate) | `start_timeout`, `check_timeouts`, `cancel_timeout`, `clear_story_timeouts` | a late decision races the deadline | an expired deadline is reported until it is cancelled |
| write-ahead log (`orchestrator/wal.py`) | a file of checksummed lines, a set of finished stories in memory | `append`, `recover`, `checkpoint`, `truncate` | crashes inside an append and a rewrite | what was acknowledged is recovered |
| checkpoints (`orchestrator/checkpoint.py`) | one file per story | `save`, `load`, `recover_incomplete`, `delete`, `cleanup_completed` | crash between the temporary file and the rename, colliding names | a checkpoint is the last one saved for that story |
| LLM circuit breaker (`llm/circuit_breaker.py`) | state, counters, time of last failure per provider | `can_execute`, `record_success`, `record_failure`, `get_state` | answers that arrive after the state has moved on | it opens on consecutive failures only and closes on consecutive successes only |
| model router (`llm/router.py`) | health cache, breakers, cost trackers that nothing is ever added to | `route`, `complete`, `fallback` | concurrent requests share breakers and health; costing an answer raises | at most two calls per request, never twice to one provider |
| rate limiter (`api/rate_limiter.py`) | a token bucket per client, the time of its last access | `is_allowed`, `get_retry_after`, cleanup | two dictionaries in step; one client's request drops another's bucket | dropping a bucket makes no difference to its client |
| HTTP API: stories (`api/routes.py`, `api/ops_routes.py`) | a dictionary of stories, background tasks, a capped log of activities, feedback, projects | submit, status, approve, feedback, pause, instruct | the answer is sent before the work is handed over; handlers that read fields a story does not have | what is accepted is worked on; log and feedback agree |
| HTTP API: administration (`api/admin_routes.py`, `config/*.py`) | the live configuration, its file, the environment, stores of keys | change a section, toggle, validate, save, reload, restart | four copies of one setting, requests that only look and change all the same | what was withdrawn stays out |
| authentication (`auth/auth_routes.py`) | accounts, an index by address, sessions, one-time login states, a file | register, log in, log in by a provider, administer, restart | requests that suspend between the check of who asks and the change; a file rewritten in place | accounts, index and sessions agree; an administrator remains |
| single sign-on (`auth/sso_provider.py`, `auth/middleware.py`) | PKCE verifiers, sessions, keys | initiate, callback, SAML response, authenticate, revoke, expire | expiry in between, callbacks that arrive twice | a login begun once opens one session |
| user provisioning (`auth/scim_*.py`) | users and groups, a file | create, update, patch, delete | a patch that fails half way, a save that fails | what was answered with success survives |
| planner (`planner/__init__.py`) | none: a plan per call | create a plan, order it, revise it | dependencies named by a language model: repeated, unknown, circular | a task follows what it depends on, and a plan that has an order is not given up |
| memory (`memory/__init__.py`) | tiers of entries, an error-fix index, a file | store, query, consolidate, decay, evict, save, load | caps, merges by a similarity that is not transitive | what is given up is worth no more than what stays |
| learning (`learning/__init__.py`) | post-mortems, heuristics, a file for each | analyze, save, load | two files that belong together | a heuristic is backed by its post-mortem |
| error classifier and recovery (`errors/*.py`) | a fingerprint database | classify, fix lookup | cached fixes | a fix is offered for its own error |
| codebase indexes (`codebase/*.py`) | symbol table, dependency graph, ownership, semantic cache | initialize, reindex, query | stale caches, forward and reverse edges in step, cycles | the reverse graph is the inverse of the forward one; cycles are found |
| context (`context/*.py`) | the graph of the project in memory per provider, `graph.json`, a marker of enriched files | load, build, query, enrich | threads that wait for one lock, two files written one after the other, overlapping enrichments | it is built once; what is marked as done is in the graph |
| deployer, verifier (`deployer/`, `verifier/`) | deployment records | deploy, rollback, verify | a failing step, rollback | a failed deployment is rolled back once |
| quality gates (`quality/__init__.py`) | a policy | evaluate, side by side or in turn | one failure stops the rest; a gate that breaks down | every mode decides alike |
| security scanner (`security/__init__.py`) | none between scans | scan files, scan the project | three scanners side by side, two of them external programs | none hides what another sees |
| reviewer, tester, analyzer, generator | none between calls | one call each | text | |
| tools (`tools/*.py`) | one process per command, a watcher | run a command with or without limits | process, watcher, deadline and reaping race | an answer says what became of the command |
| backup, migrations, key store (`backup/__init__.py`, `config/*.py`) | archives, a version, sqlite rows | create, restore, cleanup, migrate, rollback | files change and the second passes between two steps, crashes | what is saved and brought back is whole |
| metrics and health (`api/metrics.py`, `api/health.py`) | counters | record, report | singletons | counters agree with events |
| types, prompts, main | none of their own | construction | | |

How they meet: `main.py` builds the components, wraps them in adapters and hands them to the
orchestrator. `process_story` is a coroutine per story; it calls each component through its
adapter and awaits it, consults the retry policy, the convergence detector and the gate manager
in between, and writes the state machine's history. The analyzer, planner, generator and reviewer
call the model router, which calls the providers and keeps one circuit breaker for each. The HTTP
API submits stories and lets people decide on gates while all of this runs. The write-ahead log,
the checkpoints and the gate timeouts are complete but nothing in the program calls them.
The administration changes the configuration the router was built from; the context manager and
the planner ask the graph of the project.

## 2. Modules

| Module | Models | Proofs |
|---|---|---|
| `StoryStates` | the states of a story and the table of legal moves | |
| `StateMachine` | `transition` and `rollback` on objects, of which several may share an id, and the history per id | `EnginesProofs` |
| `RetryPolicy` | attempts, breaker and backoff per (story, stage) | `RetryPolicyProofs` |
| `ConvergenceDetector` | `check` as a function of the errors of a story's iterations | `EnginesProofs` |
| `Iterations` | the errors of one story, iteration after iteration: every input the detector can get | `EnginesProofs` |
| `ApprovalGates` | pending approvals and decisions, and the people who make them | `ApprovalGatesProofs` |
| `Orchestrator` | `process_story`; uses `StoryStates` and `ConvergenceDetector`, instantiates `RetryPolicy` and `ApprovalGates` | `OrchestratorProofs` |
| `StoryService` | the abstract specification: a story is accepted, open, released only on an answer PASS of its own gate, and ends done or failed | implemented by `Orchestrator` |
| `CircuitBreaker` | one breaker per provider | `RouterProofs` |
| `ModelRouter` | concurrent `complete` calls over the breakers; implements `CircuitBreaker` | `RouterProofs` |
| `WriteAheadLog` | one log file, writes that stop short, restarts | `PersistenceProofs` |
| `Checkpoints` | one checkpoint file per story, saves that stop short, ids that share a path | `PersistenceProofs` |
| `Migrations` | the versions registered, recorded and in effect, runs that stop after any statement | `PersistenceProofs` |
| `Backup` | backups and restores file by file and step by step, while files change and seconds pass; failures, crashes, cleanup | `PersistenceProofs` |
| `RateLimiter` | token buckets, the cleanup of stale ones, the clock | `ServicesProofs` |
| `CodebaseIndex` | files that are written and removed, the dependency graph, the symbol table's index and the search's files | `OrderProofs` |
| `Memory` | entries in tiers, merging, eviction, decay, the file | `OrderProofs` |
| `Learning` | post-mortems, rules and their two files | `PersistenceProofs` |
| `KnowledgeGraph` | the graph of the project, its lock, its file and the marker, providers in several threads | `EnginesProofs` |
| `Planner` | a plan from an answer: parsing's defaults, the sort, the circle test, the plan of last resort, revision | `OrderProofs` |
| `Orders` | the members of a set one after the other, as `sort` and a loop meet them; used by `Memory` and `Planner` | `OrderProofs` |
| `QualityGates` | one evaluation of a policy, the templates, each runner by what it makes of an answer | `EnginesProofs` |
| `SecurityScan` | one scan: its files, three scanners, the verdict | `EnginesProofs` |
| `Commands` | one command at a time: process, watcher, deadline, reaping | `ServicesProofs` |
| `Accounts` | accounts, sessions, logins by a provider and their administration, the file, restarts | `ServicesProofs` |
| `SingleSignOn` | verifiers, sessions and keys, and whom a request is taken for | `ServicesProofs` |
| `Scim` | users and groups as an identity provider writes them, the file, restarts | `ServicesProofs` |
| `Settings` | the live configuration, its file, the environment, the stores of keys, the login providers | `ServicesProofs` |
| `StoryApi` | every request of the story routes and the console by its status, with the tasks behind it | `ServicesProofs` |
| `MCPolicies`, `MCOrchestrator`, `MCModelRouter`, `MCPersistence`, `MCServices` | the instances TLC checks | |

Where a definition named `X_Something` stands before `X`, it is `X` with a plausible bug in it;
every checked property is one that such a change breaks. Nothing uses these definitions.

**Orchestrator.** `pc[s]` is the place where the coroutine of story s stands: each await of a
component and each entry of a stage. One action is the code from there to the next such place,
with everything it calls: transitions and their history (`story`, `logged`), iterations appended,
attempts recorded, gates asked. What a component answers, or that it raises, is a choice of the
action. Each stage rebinds its local `story` to what the component returned, so the model has to
say whether that is the same object: `wiring` gives, for each component, `absent`, `inplace` (as
every adapter in `adapters.py` does) or `copy` (as the Protocol classes allow). This decides more
than anything else how far a story gets, because every stage opens with a move that the previous
stage has made already when the object was the same: if every component answers in place, the story
fails as soon as it is to be planned (`DocPipelineCompletes`).

**StateMachine.** Objects and ids are apart, since copies of a story share its id and the history
is kept by id.

**RetryPolicy, ApprovalGates, CircuitBreaker.** A key the code has not met answers as a fresh one
does, so every key exists from the start. A circuit breaker's clock counts in units of which
`RecoveryTimeout` make up the recovery timeout, and stops there: only whether it has passed is ever
asked. `streak` and `quiet` are history: what was recorded last, and how long ago a failure was.

**ModelRouter.** A request is at one of five places: idle, awaiting a health check, awaiting the
provider it selected, or awaiting another because a breaker refused (`detour`) or because the
first failed (`rescue`). Prices are an order of the models. No request is answered: an answer of the
first provider is recorded as a success, costing it raises, and that is recorded as a failure and
sends the request on (`Answers`); an answer of the second is a success on a detour and nothing in a
rescue, and raises to the caller (`DetourAnswers`, `RescueAnswers`).

**WriteAheadLog.** Entries are numbered as they are appended, and `log` is a function from the
numbers still in the file to lines, of which one that does not parse is `Garbage`; `unended` is the
number of a last line that lacks its newline. A write that stops short leaves nothing, a part of the line, or the line
without its newline; a rewrite that stops short leaves a prefix. Either may be a crash, after which
the set of checkpointed stories is empty, or an exception, after which it is not.

**Checkpoints, Migrations, Backup.** Of a file what is kept is which save or change it holds. A
checkpoint is renamed into place, so a save that stops leaves the one before. A migration script is
a sequence of statements, each in effect as soon as it is done, because `executescript` commits
first and runs outside a transaction. Of a backup and a restore, opening the temporary file,
finishing the copy and renaming it are steps of their own (`work`), and so are the changes of the
files, the passing of a second and the end of the process; a crash leaves the directory even if it
is empty. The files of one backup may be of different moments, and nothing in the code prevents it:
what is claimed is that each is whole, and no older than the backup's name.

**RateLimiter.** Time passes in units in which a bucket gains `Rate` tokens. `lasting` is history:
the buckets as they would be if none were ever dropped.

**CodebaseIndex.** A file is the set of the project's files it names; of a build, the order in which
files are found is arbitrary. The depth-first search, recursive in the code, is a function of the
number of its moves: in at a file, on by an import, or back; `ahead` holds the imports that the
loops of the files on the path have not come to yet. It keeps the code's one path, shared by all
branches, and is compared with a definition of what a cycle is.

**Memory, Learning.** The content of an entry is a class, and which classes are similar is a
constant. Merging and eviction are stated by positions in the list: which entries are taken in by
an earlier one (`MergedIds`), which have better ones before them (`Ranked`), and the list of the rest
in its order (`LineUp`). The story's side of consolidation is whether it is done. The files are written at
shutdown, in place, so that a process may end without them or in the middle of them.

**Accounts.** A request that reads its body is two steps: who asks is checked in the first, what it
does is the second, and anything may run between them; likewise a login before and after its
provider answers, of which two may be waiting at once. Everything else holds the event loop, and is
one step. `sessions` is the set of accounts that are logged in: a session names no context, so one
that was opened in the workspace administers as well when its account is an administrator's.
`Bearer` is whoever has the server's token, which stands for no account. A save may fail or leave
a torn file, and a restart reads what is there. `doubled` and `logins` are history: whether the last
start found or made a second super-administrator, and how many sessions a login has led to.

**SingleSignOn, Scim.** Ten minutes and eight hours are steps of their own. `aged` and `led` are
history: the logins begun more than ten minutes ago, and the sessions each has opened. `promised` is
history: what the last answered request about a user said of it. A PATCH is up to two operations,
applied one after the other, of which the second may be wrong. `Odd` is a value of the wrong type: a
PUT or PATCH writes it without looking, and the next start leaves its user out.

**Settings.** A vendor is `enabled`, `keyed` and has models or not; a section is in range or not;
keys are in the environment or in a store, which is at a place. Requests that only look are
actions, because they change the configuration. `wish` is history: what was last asked of a vendor.

**StoryApi.** The answer of a request is its status, the handler's changes are the action's, and
`RunTasks` is the background task, which ends at its first story: `process_story` raises for it.

**Commands.** `doomed` is a process that was killed and is not dead yet, and `Unreaped` an exit
status that the event loop has not seen. Pipes may outlive the process that was given them:
with limits that is a shell, and its children are not killed with it. A kill that comes when the
event loop has closed the transport raises, and answers 1 (`KillRaises`).

**QualityGates, SecurityScan.** What each program would answer is chosen in the initial state, so
that the order in which gates and scanners run is all that is left to the steps. A finding of
semgrep has the severity of its own, one among its extras, or neither, in words or in letters.

**KnowledgeGraph.** A provider belongs to `main`, to the context manager, or to one request for an
enrichment. The file is a set of enriched files or `Unreadable`. A thread is at one place of
`_ensure_graph` or of `enrich_semantic`. `disturbed` is history: whether a write of the graph has
failed or two writers overlapped.

**Planner.** A plan is made in one step from any answer, as the coroutine awaits nothing after it.
An answer that can be read and names no tasks makes an empty plan, and empties a plan that is
revised; one that cannot be read makes a plan of last resort, and leaves a plan that is revised as
it is. A task is known by its position in the answer, since ids may be repeated. The queue of the sort is
kept with those that were taken from it, who come first in it, so that a round is a number and the
order of the plan is the queue.

## 3. Runs

| Run | Instance | Distinct states | Shows |
|---|---|---|---|
| `MCPolicies` | two objects with one id and one alone; 2 retry keys, 2 fingerprints, 4 attempts; windows of 4 over 6 iterations; 2 stories and 3 gates, one of them not enabled; 2 providers, threshold 3; 2 clients, burst 3, time to live 3, 8 units of time; 3 files with any imports and one edit; 27 answers to the planner and none, 2 stories, one revision; 8 policies of three gates, 4 projects, 6 answers of a program; any of 6 files to scan; one shared graph and 2 threads, 2 files, 2 enrichments, one death of the process | 691 215 | the policies, indexes and engines by themselves, in every order of calls |
| `MCOrchestrator` | one story, 10 wirings, 3 iterations, errors of each class, a person deciding at any time | 33 588 | safety, bounds and termination of `process_story` |
| `OrchestratorTwo` | two stories, one iteration | 19 881 | `Orchestrator` implements `StoryService` |
| `MCPersistence` | log: two stories, 5 entries, 2 appends that stop short, any number of rewrites that do; checkpoints: three stories, two of which share a path, 4 saves; migrations: versions 1, 2 and 4 of two statements, 2 runs that stop; backup: 2 files, 2 changes, 3 seconds, the 2 newest kept, one backup or restore at a time that may die at any step; memory: 3 contents, the second similar to both others, tiers of 3, 4 entries, one decay, one restart; learning: 4 failures, 2 saves that stop, 3 restarts | 873 207 | what survives writes and runs that stop, and restarts |
| `MCServices` | router: two tasks, three providers with models in all tiers, a fallback chain, 3 requests; accounts: 2 addresses, 3 accounts in all (ids are not used again), 2 administration requests at once while there have been 2 accounts and one with the third, 2 starts, one failed save, and again with one request less and 2 callbacks of a provider; single sign-on: 2 subjects, one state, one key, 2 sessions; provisioning: 2 ids, one group, 4 requests, one failed save; settings: 2 vendors, one of them with a key, 2 places, one login provider, 4 requests; stories: 2, a log of 2 entries, 6 requests; commands: 3, with two limits | 317 164 | what answers requests, each with its own concurrency, failures and restarts |

In `MCPolicies`, `MCPersistence` and `MCServices` the parts share no state, so a behaviour
exercises one of them (`part`) and leaves the others as they start; a run is the sum of its parts
and not their product.

Why the bounds are enough. The policies keep independent entries per key, so two keys show that
they do not mix, and the attempts exceed both limits (`MaxRetries`, `Threshold`). The convergence
window is passed by two iterations, so it has slid. The orchestrator's loop has three rounds, more
than the window and the stuck threshold of its instance, so every way out of it is taken; a story
interacts with another only through the shared gate manager, the retry policy and the history, all
keyed by id, and two stories show that. Three providers and a chain are the fewest with which all
four branches of `fallback` are taken, and three requests exceed the failure threshold by one. Five
log entries allow a story to end, be truncated and another to go on, with two broken appends. Four
saves give each story a second one; two runs that stop can leave two versions out of step; three
seconds are one more than the backups that are kept, and a backup may begin in one of them and end
in the last. Three files make every shape of cycle with
or without a branch into it; eight units of time pass a bucket's time to live twice. Four memories
exceed a tier by one, and three contents are the fewest for a chain of similarities. Three tasks
with up to two dependencies make every shape of order and of circle up to three. A policy of three
gates has one that fails, one that comes before it and one after. Three accounts are the
super-administrator, another, and one that is made again: by a login that waited while its account
was deleted, under an address that was given up, or by a start that found a torn file; a second
start is a restart. Two requests at once are the fewest that overtake each other, and so are two
callbacks; those under way are interchangeable, which is the run's symmetry. An invalid name and an
invalid truth value stand for all that a user is left out for when it is read back. Four requests of
the administration allow a change, its failure or refusal, a save or reload, and a restart. A third command runs after one that was killed and one
that was answered. A log of two entries is full, and overflows, within six requests.
`MaxMoves`, `MaxAttempts`, `MaxErrors`, `MaxStreak`, `MaxCompletions`, `MaxEntries`, `MaxTears`,
`MaxSaves`, `MaxStops`, `MaxSeconds`, `MaxChanges`, `MaxTime`, `MaxEdits`, `MaxMemories`,
`MaxDecays`, `MaxRestarts`, `MaxFailures`, `MaxShortSaves`, `MaxLives`, `MaxRevisions`, `MaxDeaths`,
`MaxEnrichments`, `MaxUsers`, `MaxBoots`, `MaxFailedSaves`, `MaxSsoSessions`, `MaxScimRequests`,
`MaxScimFailures`, `MaxSettings`, `MaxLoginFailures`, `MaxCalls` and `MaxCommands` are bounds of the
models and not of the code; `MaxIterations`, `MaxRetries`, `MaxBackoff` and `MaxBackups` are the
code's. `MCPolicies`, `MCPersistence`, `MCServices` and the violation runs on their modules stop at
their bounds, so they are not checked for deadlock; the others are.

**Fairness.** `FairSpec` asks weak fairness of each story's `Step`: an await that is pending is
answered or raises, and the event loop then resumes the coroutine. That is what asyncio does as
long as components return, and every adapter call either returns or raises. It is not asked of
people: a story finishes although nobody decides on its gate (`Finishes`). `FairApiSpec` asks weak
fairness of each background task, which the server runs once the answer is sent; the violation of
`SubmittedIsProcessed` holds in spite of it. Everything else is checked as safety and needs none.

**The properties that carry most.**
- `DeployedCodePassedTests`, `DeploysOnlyWhenCleared`: the last iteration of what is deployed holds
  no failing test report, and the story's own gate answered PASS when it entered DEPLOYING.
- `BoundedWork`: with nested retries, replans and failing gates, the iterations of a story are bounded.
- `ReturnsFinished`, `Finishes`: `process_story` returns, and the story it holds is DONE or FAILED.
- `HistoryExplainsState`: the history of an id ends where its story is.
- `AnswerIsOwn`: a decision answers the question it was given for, not an earlier or another story's.
- `BreakerAgreesWithAttempts`: two dictionaries kept in step over any order of calls. It is of the code
  as it is, where failures need not have one fingerprint; the comment that says so is below.
- `TrendIsNoticed`: a stall is answered with a new plan or more context, whatever the errors were; errors
  in the later half of the window alone are not taken for recovery, nor those in the earlier half for
  divergence. What the orchestrator makes of a new plan is below.
- `MovesAreEarned`, `CountersAreRuns`: late answers do not make a breaker move for a wrong reason.
- `NotGivenUpEarly`, `SentOnceEach`: a request is not given up while somebody is left to take it, and is
  sent to nobody twice, although each answer of the first provider counts as a failure too.
- `LossIsBounded`, `RecoversWhatWasAcked`: one broken append costs at most one acknowledged
  entry; a truncation that stops short may cost any number, and is excepted.
- `LoadsLatest`: the checkpoint loaded is the last one saved, whatever stopped short between.
- `OneOutOfStep`: a run that stops leaves one version's schema and record in disagreement at most.
- `CopiesAreWhole`: no crash, failure or change of a file in the middle of a copy leaves a part of it in
  a backup or in the project, and no backup holds what was there before its second.
- `DroppingIsInvisible`: nobody gains a token because a bucket was dropped, whoever dropped it.
- `CyclesAreFound`: a search that visits each file once finds a cycle if there is one, and no other.
- `GoesOnlyForBetter`: merging and eviction never give up an entry for worse ones.
- `RulesHaveTheirSource`: one save that stops short does not part a rule from its post-mortem.
- `AccountsAgree`: accounts, index and sessions agree through overlapping requests, logins that
  wait for their provider and restarts from old or torn files; the one exception is the
  super-administrator's address, in a process whose start found or made two accounts of it.
- `LastAdminLeavesByOthers`: within one process only a demotion that somebody else asked for takes
  the last administrator away.
- `StatesUsedOnce`, `OneLoginOneSession`: what was issued for one login serves one, also when two
  callbacks overlap; and in single sign-on none once ten minutes have passed.
- `AnsweredSurvives`: what was answered with success is there after restarts, failed requests of others
  and saves that fail before they write; not after a save that stops short, which loses the file, nor
  if the value was one that cannot be read back.
- `WithdrawnStaysOut`: neither a file, a store nor a request about something else brings back a
  vendor or a login provider that was withdrawn.
- `FeedbackAgreesWithLog`: the capped log is the end of the whole.
- `AnswerIsHonest`: in any order of process, watcher, deadline and reaping, what a command's answer
  says is so, with the exceptions that it states.
- `PlannedInOrder`: whatever a model answers, the plan is in order, and an answer that can be
  ordered is kept whole.
- `EveryModeDecidesAlike`: gates side by side, in turn or stopped early block the same evaluations.
- `NoScannerHidesAnother`: a scan fails exactly for what one of its scanners can see.
- `BuiltOnce`, `MarkedIsEnriched`: one build per provider under the lock, and no file is marked as
  done whose edges are not written, whenever the process ends.

**Where the code and its documentation disagree.** Each of these runs ends in a counterexample.
- `DocPipelineCompletes`: with no component attached nothing can fail, and yet a story ends FAILED:
  each stage opens with a move its predecessor has already made.
- `DocPendingApproval`: a gate that answers PENDING leaves the stage, and the story goes on to
  FAILED while a person is still being asked.
- `DocRefusedScan`: a scan that refuses is filed on a field the model class does not have; the
  exception is swallowed and the code is deployed.
- `StuckOpen`: a success recorded while a provider's breaker is open clears the time it needs to
  half-open; it stays open for good.
- `DependentsAreImporters`: `add_file` writes the backward references the wrong way round, so that
  `get_dependents` and `get_impacted_files` follow imports forward.
- `SubmittedIsProcessed`: the background task gives `process_story` a story in which it looks for
  another; the task ends with an exception and the story stays where it was.
- `DisabledSurvives`: a vendor that was turned off is turned on by the next process.

Met while modelling, without a run of their own. In the parts of the orchestrator's process:
- a retry breaker opens on failures with different errors, since the fingerprint it compares with at
  `:240` is overwritten at `:234` (`orchestrator/retry_policy.py:237`, "Open circuit if same error
  repeats too many times", and the test that trips it "with same error",
  `tests/test_orchestrator.py:607`);
- a stall does not get its new plan: "replan" moves the story from CODING to PLANNING, which is no
  legal move, and the story ends FAILED;
- an append to the log that raised breaks the line after it too, so that the acknowledged end of a
  story can be lost and the story recovered (`orchestrator/wal.py:122`);
- `can_rollback_to` says that any state may roll back to FAILED
  (`orchestrator/state_machine.py:140`); the table has no such move from RECEIVED, DONE and FAILED;
- a detector whose window is shorter than its threshold never finds a story stuck, and nothing
  compares the two (`orchestrator/convergence_detector.py:29`); the program leaves them at 4 and 3;
- as the convergence window slides, a clean iteration can turn "continue" into "escalate" because it
  pushes an old error out of the first half;
- a blocking review by a reviewer that returns a copy is not heeded, against the comment at
  `orchestrator/__init__.py:477`;
- every deployment ends at its commit, which asks GitPython to add no items (`tools/git_client.py:86`).

Of the model router: no request is ever answered. `_calculate_cost` (`llm/router.py:306`) reads
`prompt_tokens` and `completion_tokens` of a `TokenUsage` that has neither (`types/llm.py:76`), so
every answer ends in an AttributeError: that of the first provider is recorded as a success and as a
failure, and a second one is called and paid; that of the second is lost. The test of it
(`tests/test_llm_and_codebase.py:484`) expects "Mock response". HALF_OPEN admits any number of calls
until enough have succeeded, where the configuration (`llm/circuit_breaker.py:34`) limits the calls;
`fallback` asks no breaker and no health.

In what outlives the process:
- a migration that fails half way leaves its first statements in effect, since `executescript`
  (`config/migrations.py:140`) runs outside the transaction that is rolled back (`MigrateStops`);
- a migration registered after a higher one was applied is never applied, though `get_pending` says
  "all unapplied migrations" (`config/migrations.py:93`), and `rollback` runs its down script;
- `consolidate` raises for any story with iterations, because it reads `error_fingerprint` of them
  (`memory/__init__.py:99`) and the type has no such field; a save of the memory that stops short
  loses all of it;
- `_store_as_memory` awaits what `store` returns (`learning/__init__.py:497`), which is nothing, so
  that the entry is stored and the post-mortem never learns of it;
- `reindex` drops a changed file from the search and does not add it again (`codebase/__init__.py:88`);
- a backup copies the files one after the other (`backup/__init__.py:89`) while they may change, so that
  what it keeps together need never have been there together.

In what answers requests:
- the last administrator can be demoted by another request that overlaps, and by whoever holds the
  server's token, although the message is "Cannot remove the last admin"
  (`auth/auth_routes.py:913`); and a super-administrator whose credentials could not be written and
  who was demoted is registered a second time at the next start, although they are kept "rather than
  creating a second super-admin on every restart" (`auth/auth_routes.py:290`);
- the id of a session that was opened in the workspace is accepted as the administration's
  (`auth/auth_routes.py:368`), as a session names no context;
- a user whose name was replaced by no string is answered with 200 (`auth/scim_provider.py:171`) and
  left out by the next load, with a warning (`auth/scim_provider.py:455`); main gives the provider no
  path (`main.py:368`), so that nothing is written before the shutdown, and a crash loses all changes;
- a section whose new values are refused with 400 keeps them, and a later save writes them down; a
  failed toggle leaves a vendor on that has no key; the path of the database takes effect at once
  and is lost at a restart, although "Port/DB path changes require a restart to take effect"
  (`api/admin_routes.py:241`); a login provider set right after the start overwrites the file of
  the others; reloading replaces the configuration object, so that those who hold the old one keep it;
- of the console, an instruction is always refused, the approval it takes reaches no gate manager,
  and the detail, the timeline, pause and resume fail for every story.

In the engines and tools:
- `(cannot be disabled)` of the secret detection (`quality/__init__.py:989`) is decided elsewhere:
  the policy may disable it; a required gate that breaks down is not counted as passed and yet
  "merge" is recommended; a failure of a gate that only warns is no warning; `fail_fast` has no
  effect on gates that run side by side; of several gates the exit status is not looked at, so that
  a program with unexpected output passes;
- bandit's severities are read from a field its output does not have, so all of its findings are
  medium and none fails a scan; semgrep's ERROR and WARNING are medium too;
- a command with limits that was killed and has not been reaped returns 0, which is success, where
  the docstring says "negative (e.g., -9 for SIGKILL)" (`tools/resource_limiter.py:291`); a command that ran out of time returns 124 without limits
  and its own code or 0 with them; the caller's own timeout is not passed on;
- a kill that comes when the event loop has closed the transport raises ProcessLookupError
  (`tools/resource_limiter.py:329`, `tools/shell_executor.py:300`), so that a command that ended with
  success at its deadline is answered with 1; what is killed is the shell, and its children run on;
  which limits were exceeded is handed over under a name `ToolResult` has no field for
  (`types/tools.py:69`) and lost;
- the graph is built by two providers, that of main and that of the context manager, although main
  says "Shared graphify provider" (`main.py:116`); a long-lived provider does not see what an
  enrichment added; `main.py:494` reads a name that is not defined there, so that the enrichment
  the administration offers is not wired; of two enrichments that overlap, the edges of the one that
  writes first are lost while its files may stay marked;
- a dependency on a task that does not exist makes an answer "circular", and it is given up;
  `revise_plan` neither orders the tasks nor refuses a circle, although the class says
  "Validates: no circular deps", and `create_plan` that it raises "if plan creation fails or has
  circular dependencies" (`planner/__init__.py:73`), where it makes a plan of last resort; an answer
  without tasks makes an empty plan, and empties the plan it revises.

## 4. Proofs

For every value of the constants that the named assumptions allow:

| Module | Theorems | Along which argument |
|---|---|---|
| `OrchestratorProofs` | `TypeCorrect`, `ReturnsFinishedStory`, `FinalStates`, `DeploymentIsCleared`, `RetryPolicyIsUsed`, `GateManagerIsUsed`, `ServiceIsImplemented`, `WorkIsBounded`, `DeployedIsTested` | below |
| `RetryPolicyProofs` | `TypeCorrect`, `BreakerIsExact` | inductive as they stand, together |
| `ApprovalGatesProofs` | `GatesTypeCorrect`, `PendingUndecided`, `AnswersAreOwn` | inductive together |
| `RouterProofs` | of the breakers: `TypeCorrect`, `CountersAreExact`, `MovesAreAllEarned` | `Sound`: counters against the streak, and the age of the last failure, where it is known, is the quiet time |
| | of the router: `RouterImplementsBreakers`, `SharedCountersAreExact`, `RequestsAreSentOnceEach`, `NobodyGivesUpEarly` | every action touches at most one breaker, through one operation of `CircuitBreaker` or, for an answer that raises, through a success and a failure in one step, which each invariant is shown to outlive, so the breakers' invariants hold under the router; `Been`: at each place of a request, to whom it has been sent and for which model. The last theorem says of its own that every configured provider has a client (`AllHaveClients`): without one a provider is passed over silently |
| `PersistenceProofs` | `LastSaveIsLoaded` | `CheckpointInv`: the number of a save names its story and its path, so that a cleanup, which goes by file, does not touch the last save of another story |
| | `CopiesStayWhole` | `BackupInv`: what a file holds now is among what it has held in this second, what a backup has renamed into its place was held in its second or later, and a temporary file that is whole has what its source held since the copy began |
| | `RecordsAreInStep` | inductive with its types: a run that completes puts the versions it touches in step, and one that stops leaves the one it stops at |
| | `RulesKeepTheirSource` | `LearningInv`: a rule in its file has its post-mortem in the other file, which a second save that stops short would break |
| | `LossesAreBounded`, `AckedIsRecovered` | `Sure`: a line without its newline counts with the lines that are missing, as it is one more that may be lost. `Whole`: while no write stopped short, a story's acknowledged entries are all there or all gone, and its end is its last |
| `OrderProofs` | `NothingBetterIsGivenUp` | `LineUp` of a finite set along an order leaves nobody out; the entries that merging takes in exist although each decision rests on the ones before (by the least position for which they would not); an eviction keeps the best |
| | `PlansAreInOrder` | `RoundOK`, after each round of the sort: nobody is in the queue twice, and a task is in it when its degree has come down to zero. If no two tasks share an id, the degrees count the dependencies still to be taken, and a queued task has all of its own before it. An answer that can be ordered is complete by the least place that would not be queued (`PlannerAssumption`) |
| | `IndexTypeCorrect`, `SearchIsRight` | `SearchIs`, after each move of the search: its path is a path of the graph and every cycle noted is one; as long as there is none, files that were left import only such files, a file on the path has led to the next or to one that was left, and there is no circle among those that were left. Each move takes something from what is left to do, so that the moves suffice (`IndexAssumption`) |
| `ServicesProofs` | `AnswersAreHonest` | `Told`: what must have become of the process at each place of its caller; a missing exit status is met at the end only by one that was killed |
| | `OneSessionPerLogin` | `SsoInv`: a login that has led to a session is spent; a step opens one only for a verifier that is kept and not aged |
| | `AnsweredIsKept` | `FileKeeps`: the file keeps every promise that memory keeps, unless it is torn; what was promised of a user that cannot be read back is unclear |
| | `LoginsLeadToOneSession` | `InOnePlace`: a state that was issued is pending, in one exchange, or spent |
| | `RegistryAgrees`, `LastAdminIsDemoted` | `AccountInv`: the file is in order as memory is, ids are counted and so not used twice, and the index is right about the super-administrator's address as far as it names anybody, and in full while no start has made a second account of it (`RootFound`). The action property follows from the invariant and from who asks in each request |
| | `WithdrawnIsNotReturned` | `LoginsOut`, `Off`: what was withdrawn is in no file either; loading, which has many cases, turns no vendor on that has no key |
| | `LimiterTypeCorrect`, `LimiterNeverForgets` | `Unnoticed`: a bucket that is kept is the lasting one and was accessed when that was filled; one that is not would be full, because a bucket fills within the time to live (`LimiterAssumption`) |
| | `LogTellsTheFeedback` | `Numbered`, `Agrees`: feedback is numbered by request, so the entry a full log drops is the earliest it has of its story |
| `EnginesProofs` | `HistoryIsTrusted` | inductive with its types: `rollback` and `transition` append what they assign |
| | `TrendsAreNoticed` | no induction: of the last errors in the window, the same ones for as long as a stall are found by one of the three tests, and of errors in one half alone the counts of the halves are compared by their cardinalities. Its hypothesis, `StuckThreshold <= WindowSize`, is what the code does not check (section 3) |
| | `ModesDecideAlike` | `Answered`: results are of gates that have answered, with what each makes of its answer; a gate that was not run follows one that blocks |
| | `ScannersStandAlone` | `ScanInv`: a report, once it is there, is what its scanner makes of the files, whatever the other two did |
| | `GraphIsBuiltOnce` | `BuildsOnce`: one thread holds a provider's lock over a build, the flag was set before it, and an unset flag means no build; from `KnowledgeAssumption`, that a request's own provider is nobody else's |
| | `MarkedFilesAreEnriched` | `EnrichInv`: at each place of an enrichment, what its graph, the file and the marker have of each other (`Undisturbed`), while nothing overlapped and no write was cut short |

`OrchestratorProofs!Inv` has three parts. `StoryOK` is typing. `SharedOK` is the invariants of the
retry policy and the gate manager, taken from their own proof modules by instantiation. `Where(s)`
ties the place of the coroutine to what can be true of the story there: where a stage has just
been left, in which states the object can be. Without it `ReturnsFinished` is not inductive: that
the error handler ends a story needs to know that its last move was legal. There is one lemma per action, and the
theorems about steps (`FinalStates`, `DeploymentIsCleared`, `ServiceIsImplemented`) follow from
the invariant and one lemma per action on how it moves the story. The refinement maps the seven
working states to `open` and `released` and the gate's answer to `StoryService`'s `gate`.

A second invariant, `Bounded`, rests on the first. `Work(s)` relates four counts wherever the
coroutine stands: iterations filed, rounds begun, failed attempts recorded and the policy's own
count; every failed attempt belongs to a round that is over, but for the one just recorded.
`Clean(s)` says where a failing test report can be the last: with a story that has failed, or with
one that is about to generate another iteration. It needs that a generator either files iterations
always or never does.

The assumptions are bounds that are natural numbers, and what the code or its configuration says:
a threshold is at least one (`BreakerAssumption`, `RetryAssumption`), a bucket fills within its
time to live (`LimiterAssumption`), an answer to the planner is a list of tasks that name others in
lists (`PlannerAssumption`), a project has finitely many files (`IndexAssumption`), similarity is
symmetric and holds of a text and itself (`MemoryAssumption`), a policy names only gates that exist
(`QualityAssumption`), what a request says of a user is a user, be its values valid or not
(`ScimAssumption`), a provider made for a request is nobody else's (`KnowledgeAssumption`), a file's list of vendors says
of each whether it is on, keyed and has models, or is not listed (`SettingsAssumption`). TLC evaluates each of them in its run.

Only model-checked: `Finishes`, which is liveness under fairness and out of the prover's reach. What
the runs with a counterexample refute needs no proof. That the rounds of `Queued`, the moves of
`Searched` and the files of `Updated`, which are recursive functions, are defined at every number is proved where it is used (`StepsExist`, `RunExists`), by the
least number for which it would not hold, since induction theorems cannot be instantiated here.

## 5. Plan

1. Done: the policies, the orchestrator and its abstract service, the router with its breakers,
   what outlives the process, the rate limiter, the codebase index, the services and the engines.
2. Done: theorems for every safety invariant and action property that the runs check.
3. Next: `Memory`, `Learning` and the stores stated against one abstract store that forgets only what
   it may; the proofs shortened where later lemmas make earlier steps superfluous.

## 6. Not modelled

Prompts and the parsing of model answers, text search and ranking, the classification of errors,
wrappers of external programs other than a command, the provider clients, evidence, metrics, and the
browser front ends: no order of events is wrong in them, or their content is text. The verdicts of
the analyzer, generator, reviewer, tester, deployer and verifier are inputs of `Orchestrator`. The
gate timeouts and the cross-repository index are complete, and nothing asks them for anything.
Requests that only read are left out unless they change something on the way. Callbacks,
timestamps, log lines and messages are left out everywhere: no decision reads them, except the
times that breakers, windows and expiries compare, which the models keep.
