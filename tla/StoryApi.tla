------------------------------- MODULE StoryApi -------------------------------
(***************************************************************************)
(* The story routes (api/routes.py) and the operations console             *)
(* (api/ops_routes.py), which share a dictionary of stories and a log of   *)
(* activities, with the background tasks that hand stories over to the     *)
(* orchestrator.                                                           *)
(*                                                                         *)
(* Of an answer its status is kept.  Several handlers read what a Story    *)
(* does not have and always fail: process_story is given a Story and reads *)
(* its `story', the console reads `story_id', a metadata dictionary and    *)
(* the states CREATED and SUBMITTED.                                       *)
(***************************************************************************)
EXTENDS Integers, Sequences, Functions

CONSTANTS ApiStories,     \* story ids, each given once
          Projects,
          LogCap,         \* 1000 in the code
          MaxCalls        \* bound on requests

ASSUME ApiAssumption == LogCap \in Nat \ {0} /\ MaxCalls \in Nat

VARIABLES store,       \* story_store: [ApiStories -> the state of a story, or NoStory]
          tasks,       \* the tasks of each response, run in order once it is sent
          activity,    \* activity_log, oldest first
          feedback,    \* feedback_store: [ApiStories -> Seq(feedback ids)]
          projects,    \* the keys of project_store
          apiAnswer,   \* the status of the last answer
          calls

apiVars == <<store, tasks, activity, feedback, projects, apiAnswer, calls>>

NoStory == "none"
Kept == {s \in ApiStories : store[s] # NoStory}
Entry(kind, s, n) == [kind |-> kind, story |-> s, id |-> n]

ApiInit == /\ store = [s \in ApiStories |-> NoStory] /\ tasks = {} /\ activity = <<>>
           /\ feedback = [s \in ApiStories |-> <<>>] /\ projects = {} /\ apiAnswer = 0 /\ calls = 0

Call(status) == calls < MaxCalls /\ calls' = calls + 1 /\ apiAnswer' = status
Nothing == UNCHANGED <<store, tasks, activity, feedback, projects>>

\* Mutant of AddActivity: the log keeps its first entries.
AddActivity_Oldest(e) == activity' = SubSeq(Append(activity, e), 1, IF Len(activity) < LogCap THEN Len(activity) + 1 ELSE LogCap)
\* add_activity keeps the last entries.
AddActivity(e) == LET log == Append(activity, e)
                  IN activity' = IF Len(log) > LogCap THEN Tail(log) ELSE log

\* submit_story and batch_submit_stories: what is answered is in the store,
\* and one task per story is run after the answer.
Submit(batch) ==
  /\ Call(202) /\ batch # <<>> /\ IsInjective(batch) /\ \A i \in DOMAIN batch : batch[i] \notin Kept
  /\ store' = [s \in ApiStories |-> IF s \in Range(batch) THEN "RECEIVED" ELSE store[s]]
  /\ tasks' = tasks \cup {batch} /\ UNCHANGED <<activity, feedback, projects>>
SubmitStory(s) == Submit(<<s>>)
BatchSubmit(s, t) == Submit(<<s, t>>)

\* process_story raises before it has made a story of its own, and the tasks
\* behind the one that raised are not run.
RunTasks(batch) == /\ tasks' = tasks \ {batch}
                   /\ UNCHANGED <<store, activity, feedback, projects, apiAnswer, calls>>

\* A story that is not known is answered with 404.
Known(s, status) == IF s \in Kept THEN status ELSE 404

GetStoryStatus(s) == Call(Known(s, 200)) /\ Nothing
ListStories == Call(200) /\ Nothing
GetMetrics == Call(200) /\ Nothing
\* approve_story answers with what it was sent.
ApproveStory(s) == Call(Known(s, 200)) /\ Nothing

\* submit_instruction cannot make its story, so that no instruction is known.
SubmitInstruction == Call(400) /\ Nothing
ListInstructions == Call(200) /\ Nothing
GetInstruction == Call(404) /\ Nothing
CancelInstruction == Call(404) /\ Nothing
RetryInstruction == Call(404) /\ Nothing

\* get_story_detail and get_story_timeline read what no story has.
GetStoryDetail(s) == Call(Known(s, 500)) /\ Nothing
GetStoryTimeline(s) == Call(Known(s, 500)) /\ Nothing
GetStoryChanges(s) == Call(Known(s, 200)) /\ Nothing

\* get_pending_approvals lists every gate a story was submitted with, whatever
\* was decided.
GetPendingApprovals == Call(200) /\ Nothing
\* submit_approval: no gate manager has a submit_decision; the log does.
SubmitApproval(s, ruling) ==
  LET ok == s \in Kept /\ ruling \in {"approve", "reject"}
  IN /\ Call(IF ok THEN 200 ELSE Known(s, 400))
     /\ IF ok THEN AddActivity(Entry("approval", s, 0)) ELSE UNCHANGED activity
     /\ UNCHANGED <<store, tasks, feedback, projects>>

GetActivity == Call(200) /\ Nothing
SubmitFeedback(s) ==
  /\ Call(Known(s, 200))
  /\ IF s \in Kept
     THEN /\ feedback' = [feedback EXCEPT ![s] = Append(@, calls)]
          /\ AddActivity(Entry("feedback", s, calls))
     ELSE UNCHANGED <<feedback, activity>>
  /\ UNCHANGED <<store, tasks, projects>>
GetStoryFeedback(s) == Call(Known(s, 200)) /\ Nothing

\* get_dashboard_stats reads the metadata of every story as a dictionary.
GetDashboard == Call(IF Kept = {} THEN 200 ELSE 500) /\ Nothing
PauseStory(s) == Call(Known(s, IF store[s] \in {"DONE", "FAILED"} THEN 400 ELSE 500)) /\ Nothing
ResumeStory(s) == Call(Known(s, 500)) /\ Nothing

ListProjects == Call(200) /\ Nothing
CreateProject(p) == /\ p \notin projects /\ Call(200) /\ projects' = projects \cup {p}
                    /\ AddActivity(Entry("project", "-", 0)) /\ UNCHANGED <<store, tasks, feedback>>
UpdateProject(p) == Call(IF p \in projects THEN 200 ELSE 404) /\ Nothing
DeleteProject(p) == /\ Call(IF p \in projects THEN 200 ELSE 404)
                    /\ IF p \in projects THEN AddActivity(Entry("project", "-", 0)) ELSE UNCHANGED activity
                    /\ projects' = projects \ {p} /\ UNCHANGED <<store, tasks, feedback>>

ApiNext ==
  \/ \E s \in ApiStories : SubmitStory(s) \/ \E t \in ApiStories : BatchSubmit(s, t)
  \/ \E batch \in tasks : RunTasks(batch)
  \/ \E s \in ApiStories :
       \/ GetStoryStatus(s) \/ ApproveStory(s) \/ GetStoryDetail(s) \/ GetStoryTimeline(s) \/ GetStoryChanges(s)
       \/ SubmitFeedback(s) \/ GetStoryFeedback(s) \/ PauseStory(s) \/ ResumeStory(s)
       \/ \E d \in {"approve", "reject", "other"} : SubmitApproval(s, d)
  \/ \E p \in Projects : CreateProject(p) \/ UpdateProject(p) \/ DeleteProject(p)
  \/ ListStories \/ GetMetrics \/ SubmitInstruction \/ ListInstructions \/ GetInstruction \/ CancelInstruction \/ RetryInstruction
  \/ GetPendingApprovals \/ GetActivity \/ GetDashboard \/ ListProjects

ApiSpec == ApiInit /\ [][ApiNext]_apiVars
\* The server runs the tasks of an answer it has sent.
FairApiSpec == ApiSpec /\ \A b \in {<<s>> : s \in ApiStories} \cup (ApiStories \X ApiStories) : WF_apiVars(b \in tasks /\ RunTasks(b))
-----------------------------------------------------------------------------
\* The places of a log at which something was said about a story.
Said(log, s) == {i \in DOMAIN log : log[i].kind = "feedback" /\ log[i].story = s}

\* The log and the feedback on a story tell the same: what the log has of it,
\* in the order it was given, is the end of what was said, all of it as long
\* as the log is not full.
FeedbackAgreesWithLog ==
  \A s \in ApiStories :
    /\ \A i, j \in Said(activity, s) : i < j => activity[i].id < activity[j].id
    /\ \E dropped \in 0..Len(feedback[s]) :
         /\ {activity[i].id : i \in Said(activity, s)} = {feedback[s][k] : k \in (dropped + 1)..Len(feedback[s])}
         /\ Len(activity) < LogCap => dropped = 0

\* submit_story "launches orchestrator.process_story() as a background task":
\* a story that was accepted is worked on.
SubmittedIsProcessed == \A s \in ApiStories : store[s] = "RECEIVED" ~> store[s] # "RECEIVED"
=============================================================================
