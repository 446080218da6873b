------------------------------ MODULE Planner ------------------------------
(***************************************************************************)
(* planner/__init__.py: a language model's answer becomes a plan, which is *)
(* put into the order of its dependencies, or a plan of last resort; and a *)
(* plan is revised after an error.                                         *)
(*                                                                         *)
(* Of a task its id, what it depends on and its tokens are kept.  Prompts, *)
(* the parsing of text and the hint from the knowledge graph are left out. *)
(***************************************************************************)
EXTENDS Integers, Sequences, SequencesExt, FiniteSets, Orders

CONSTANTS Replies,      \* sequences of tasks that a language model may answer
          StoryKinds,   \* [kind, complexity, criteria] of the stories
          MaxRevisions

VARIABLES reply,        \* history: the answer that the plan was made from
          plan

plannerVars == <<reply, plan>>

\* An answer that was read, with its tasks, of which there may be none, and no
\* answer, or one that cannot be read.
Reply(tasks) == [read |-> TRUE, tasks |-> tasks]
NoReply == [read |-> FALSE, tasks |-> <<>>]
PlanTask(id, dependsOn, tokens) == [id |-> id, dependsOn |-> dependsOn, tokens |-> tokens]
\* An answer is a list of tasks, each of which names others in a list.
ASSUME PlannerAssumption ==
  \A r \in Replies : /\ r \in Seq(Range(r))
                     /\ \A i \in DOMAIN r : /\ r[i] = PlanTask(r[i].id, r[i].dependsOn, r[i].tokens)
                                          /\ r[i].dependsOn \in Seq(Range(r[i].dependsOn))

NoPlan == [tasks |-> <<>>, testing |-> "unit + integration", deploy |-> "staging_first", tokens |-> 0, revision |-> 0]

\* A task is never estimated below a thousand tokens.
Parsed(tasks) == [i \in DOMAIN tasks |-> [tasks[i] EXCEPT !.tokens = IF @ < 1000 THEN 1000 ELSE @]]
Tokens(tasks) == FoldLeft(LAMBDA sum, t : sum + t.tokens, 0, tasks)
-----------------------------------------------------------------------------
IdsOf(tasks) == {tasks[i].id : i \in DOMAIN tasks}

\* task_by_id: of tasks with one id the last stands for it.
Named(tasks) == {i \in DOMAIN tasks : \A j \in DOMAIN tasks : tasks[j].id = tasks[i].id => j <= i}

\* graph: every place in which a task with the id of i names that of x.
Waits(tasks, i, x) ==
  {w \in UNION {{j} \X DOMAIN tasks[j].dependsOn : j \in DOMAIN tasks} :
     tasks[w[1]].id = tasks[i].id /\ tasks[w[1]].dependsOn[w[2]] = tasks[x].id}

\* Mutant of Freed: a task is ready when one of those it waits for is done.
Freed_AtOnce(degree, left) == {i \in DOMAIN degree : left[i] < degree[i]}
\* The tasks for which the last that they wait for is done.
Freed(degree, left) == {i \in DOMAIN degree : degree[i] > 0 /\ left[i] <= 0}

Listed(S) == LineUp(S, {p \in S \X S : p[1] < p[2]})

\* _topological_sort: a task joins the queue when its degree has come down to
\* zero.  The queue is kept with those that were taken from it, who are first.
FirstQueue(tasks) == LET degree == [i \in Named(tasks) |-> Len(tasks[i].dependsOn)]
                     IN [queue |-> Listed({i \in Named(tasks) : degree[i] = 0}), degree |-> degree]
Taken(tasks, q, x) == LET left == [i \in Named(tasks) |-> q.degree[i] - Cardinality(Waits(tasks, i, x))]
                      IN [queue |-> q.queue \o Listed(Freed(q.degree, left)), degree |-> left]
Queued(tasks) ==
  LET NextRound(q, n) == IF n > Len(q.queue) THEN q ELSE Taken(tasks, q, q.queue[n])
      round[n \in 0..Len(tasks)] == IF n = 0 THEN FirstQueue(tasks) ELSE NextRound(round[n - 1], n)
  IN round[Len(tasks)].queue
TopologicalSort(tasks) == LET queue == Queued(tasks) IN [k \in DOMAIN queue |-> tasks[queue[k]]]

\* _detect_circular_deps finds something: tasks each of which waits for one of them.
HasCircle(tasks) == \E S \in (SUBSET Named(tasks)) \ {{}} :
                      \A i \in S : \E j \in S : tasks[j].id \in Range(tasks[i].dependsOn)
-----------------------------------------------------------------------------
TestingStrategy(s) ==
  CASE s.kind = "bugfix" -> "unit + integration"
    [] s.kind = "refactor" -> "unit"
    [] s.kind = "infra" -> "integration"
    [] OTHER -> IF s.complexity >= 7 THEN "unit + integration + e2e"
                ELSE IF s.complexity >= 5 THEN "unit + integration" ELSE "unit"
DeployStrategy(s) ==
  IF \/ s.kind \in {"infra", "refactor"} \/ s.complexity >= 8
     \/ s.kind = "bugfix" /\ s.complexity >= 6 THEN "staging_first" ELSE "pr_only"

FallbackTasks(s) ==
  LET work == PlanTask("task-1", <<>>, 3000)
      tests == PlanTask("task-2", <<"task-1">>, 1500)
      review == PlanTask("task-3", <<"task-2">>, 1000)
  IN IF s.criteria > 1 \/ s.complexity >= 5 THEN <<work, tests, review>> ELSE <<work, tests>>

PlannerInit == reply = NoReply /\ plan = NoPlan

\* create_plan, with the tasks of last resort where there is no answer, and in
\* the place of tasks that have no order: the ValueError that its docstring
\* promises for a circle never leaves it.  An answer without tasks, or without
\* the field for them, is read, and makes a plan of nothing.
CreatePlan(answer, s) ==
  LET tasks == IF answer.read THEN Parsed(answer.tasks) ELSE FallbackTasks(s)
      sorted == TopologicalSort(tasks)
      final == IF Len(sorted) # Len(tasks) \/ HasCircle(sorted) THEN FallbackTasks(s) ELSE sorted
  IN /\ reply' = answer
     /\ plan' = [tasks |-> final, testing |-> TestingStrategy(s), deploy |-> DeployStrategy(s),
                 tokens |-> Tokens(final), revision |-> 1]

\* revise_plan: what the language model answers to an error is the plan, in the
\* order of the answer, also if that has no tasks; a circle is only logged.  The
\* exception that an answer ends in which cannot be read keeps the plan.
RevisePlan(answer) ==
  LET revised == Parsed(answer.tasks)
  IN /\ plan.revision \in 1..MaxRevisions - 1 /\ answer.read
     /\ reply' = answer
     /\ plan' = [plan EXCEPT !.tasks = revised, !.revision = @ + 1, !.tokens = Tokens(revised)]

AnyReply == {Reply(r) : r \in Replies} \cup {NoReply}

PlannerNext == \E answer \in AnyReply :
                 RevisePlan(answer) \/ \E s \in StoryKinds : CreatePlan(answer, s)

PlannerSpec == PlannerInit /\ [][PlannerNext]_plannerVars
-----------------------------------------------------------------------------
\* Every task comes after those that it depends on.
InOrder(tasks) ==
  \A i \in DOMAIN tasks : \A d \in Range(tasks[i].dependsOn) : \E j \in 1..i - 1 : tasks[j].id = d

\* Some numbering of the tasks has every one after those that it depends on.
Orderable(tasks) ==
  LET places == 1..Len(tasks)
  IN \E p \in [places -> places] :
       /\ \A i, j \in places : i # j => p[i] # p[j] /\ tasks[i].id # tasks[j].id
       /\ \A i \in places : \A d \in Range(tasks[i].dependsOn) :
            \E j \in places : tasks[j].id = d /\ p[j] < p[i]

\* No task of a new plan comes before one that it depends on, and an answer
\* whose tasks can be put into such an order is never given up: the plan has
\* all of its tasks, and no other.  (Of an answer without tasks that is a plan
\* of nothing, which nobody refuses; a revised plan is in no order at all.)
PlannedInOrder ==
  plan.revision = 1 =>
    /\ InOrder(plan.tasks)
    /\ reply.read /\ Orderable(reply.tasks) => /\ IdsOf(plan.tasks) = IdsOf(reply.tasks)
                                               /\ Len(plan.tasks) = Len(reply.tasks)
=============================================================================
