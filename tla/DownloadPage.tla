---------------------------- MODULE DownloadPage ----------------------------
(***************************************************************************)
(* DownloadPage: the page that starts a download and polls its task.       *)
(*                                                                         *)
(* A press of the button, each poll and the rendering between them are     *)
(* asynchronous: a request is sent, read by the backend and answered, or   *)
(* fails, in steps of their own, and answers may overtake each other.      *)
(* clearPoll is a closure: it knows the interval of the render it was made *)
(* in, which `rendered' and `seen' keep apart from the state.              *)
(*                                                                         *)
(* The tasks are moved by the workers as TaskContract allows.  The table   *)
(* of the last downloads below the progress is left out.  The page is      *)
(* opened once: opened again it starts afresh, with new closures.          *)
(***************************************************************************)
EXTENDS Naturals, Sequences, SequencesExt

CONSTANTS
    Tasks,     \* the tasks that the presses of the button create
    None,
    MaxPolls   \* bound: polls under way at a time

ASSUME DownloadPageAssumption ==
    /\ None \notin Tasks
    /\ MaxPolls \in Nat \ {0}

Statuses == {"PENDING", "RUNNING", "BLOCKED", "SUCCESS", "FAILED"}

VARIABLES
    row,           \* status of the tasks in download_tasks
    start,         \* how far each call of startDownload is
    seen,          \* the interval its clearPoll knows
    open,          \* the page is mounted
    shown,         \* state.status
    taskId,        \* state.taskId
    pollInterval,  \* the state; an interval is named by its task
    rendered,      \* the interval that the mounted effect's clearPoll knows
    intervals,     \* the intervals that run
    polls,         \* the polls under way: the task, and "sent" or what the backend read
    early          \* history: left before a start was answered and rendered

page == <<open, shown, taskId, pollInterval, rendered>>
downloadPage == <<row, start, seen, page, intervals, polls, early>>

DownloadPageInit ==
    /\ row = [t \in Tasks |-> "none"]
    /\ start = [t \in Tasks |-> "none"]
    /\ seen = [t \in Tasks |-> None]
    /\ open = TRUE
    /\ shown = "idle"
    /\ taskId = None
    /\ pollInterval = None
    /\ rendered = None
    /\ intervals = {}
    /\ polls = <<>>
    /\ early = FALSE

-----------------------------------------------------------------------------
(* The backend. *)

Successors(s) ==
    CASE s = "PENDING" -> {"RUNNING"}
      [] s = "RUNNING" -> {"PENDING", "BLOCKED", "SUCCESS", "FAILED"}
      [] s = "BLOCKED" -> {"PENDING"}
      [] OTHER -> {}

TaskMoves(t) ==
    /\ \E s \in Successors(row[t]) : row' = [row EXCEPT ![t] = s]
    /\ UNCHANGED <<start, seen, page, intervals, polls, early>>

\* POST /api/download/start inserts the task; its answer is on the way.
CreateTask(t) ==
    /\ start[t] = "sent"
    /\ start' = [start EXCEPT ![t] = "created"]
    /\ row' = [row EXCEPT ![t] = "PENDING"]
    /\ UNCHANGED <<seen, page, intervals, polls, early>>

\* GET /api/download/{task_id} reads the row.
ReadTask ==
    /\ \E k \in DOMAIN polls :
          /\ polls[k].answer = "sent"
          /\ polls' = [polls EXCEPT ![k].answer = row[polls[k].task]]
    /\ UNCHANGED <<row, start, seen, page, intervals, early>>

-----------------------------------------------------------------------------
(* The page. *)

\* What the page says of a status.
Shows(s) ==
    CASE s = "COMPLETED" -> "completed"
      [] s = "FAILED" -> "error"
      [] s = "BLOCKED" -> "blocked"
      [] OTHER -> "running"

\* clearPoll of a closure that knows interval i.
ClearPoll(i) ==
    /\ intervals' = intervals \ {i}
    /\ pollInterval' = IF i = None THEN pollInterval ELSE None

\* The button is there while the page is idle, which it still is until the
\* start is answered.
StartDownload(t) ==
    /\ open
    /\ shown = "idle"
    /\ start[t] = "none"
    /\ start' = [start EXCEPT ![t] = "sent"]
    /\ seen' = [seen EXCEPT ![t] = rendered]
    /\ ClearPoll(rendered)
    /\ UNCHANGED <<row, open, shown, taskId, rendered, polls, early>>

\* A page that is not mounted any more has no state to set.
Set(var, value) == IF open THEN value ELSE var

StartAnswered(t) ==
    /\ start[t] = "created"
    /\ start' = [start EXCEPT ![t] = "over"]
    /\ intervals' = intervals \cup {t}
    /\ shown' = Set(shown, "running")
    /\ taskId' = Set(taskId, t)
    /\ pollInterval' = Set(pollInterval, t)
    /\ UNCHANGED <<row, seen, open, rendered, polls, early>>

StartFails(t) ==
    /\ start[t] \in {"sent", "created"}
    /\ start' = [start EXCEPT ![t] = "over"]
    /\ shown' = Set(shown, "error")
    /\ UNCHANGED <<row, seen, open, taskId, pollInterval, rendered, intervals, polls, early>>

\* The effect of the last render is cleaned up by the clearPoll it knows,
\* and the new one is mounted.
Render ==
    /\ open
    /\ rendered # pollInterval
    /\ rendered' = pollInterval
    /\ ClearPoll(rendered)
    /\ UNCHANGED <<row, start, seen, open, shown, taskId, polls, early>>

Cleanup_None == UNCHANGED intervals

\* Unmounting cleans up the last effect.  Polls that are answered later, or
\* sent by an interval that still runs, find no state to set and are left out.
Cleanup == intervals' = intervals \ {rendered}

Leave ==
    /\ open
    /\ open' = FALSE
    /\ Cleanup
    /\ shown' = "idle" /\ taskId' = None /\ pollInterval' = None /\ rendered' = None
    /\ polls' = <<>>
    /\ early' = (\/ rendered # pollInterval
                 \/ \E t \in Tasks : start[t] \in {"sent", "created"})
    /\ UNCHANGED <<row, start, seen>>

Poll(t) ==
    /\ open
    /\ t \in intervals
    /\ Len(polls) < MaxPolls
    /\ polls' = Append(polls, [task |-> t, answer |-> "sent"])
    /\ UNCHANGED <<row, start, seen, page, intervals, early>>

\* The interval that an answer's clearPoll clears.
Known_Fresh(t) == pollInterval

Known(t) == seen[t]

AnswerPoll ==
    /\ \E k \in DOMAIN polls :
          LET poll == polls[k] IN
          /\ poll.answer # "sent"
          /\ polls' = RemoveAt(polls, k)
          /\ shown' = Shows(poll.answer)
          /\ IF poll.answer \in {"COMPLETED", "FAILED"}
             THEN ClearPoll(Known(poll.task))
             ELSE UNCHANGED <<intervals, pollInterval>>
    /\ UNCHANGED <<row, start, seen, open, taskId, rendered, early>>

\* The error is logged and the next poll awaited.
PollFails ==
    /\ \E k \in DOMAIN polls : polls' = RemoveAt(polls, k)
    /\ UNCHANGED <<row, start, seen, page, intervals, early>>

-----------------------------------------------------------------------------

DownloadPageNext ==
    \/ Render \/ Leave \/ ReadTask \/ AnswerPoll \/ PollFails
    \/ \E t \in Tasks :
          \/ TaskMoves(t) \/ CreateTask(t) \/ Poll(t)
          \/ StartDownload(t) \/ StartAnswered(t) \/ StartFails(t)

\* React renders, an interval ticks, and the network does not fail every
\* poll.  Nothing is assumed of the user, the workers and the starts.
DownloadPageFairness ==
    /\ WF_downloadPage(Render)
    /\ \A t \in Tasks : WF_downloadPage(Poll(t))
    /\ SF_downloadPage(ReadTask)
    /\ SF_downloadPage(AnswerPoll)

DownloadPageSpec ==
    DownloadPageInit /\ [][DownloadPageNext]_downloadPage /\ DownloadPageFairness

-----------------------------------------------------------------------------

\* The type invariant.
DownloadPageTypeOK ==
    /\ row \in [Tasks -> Statuses \cup {"none"}]
    /\ start \in [Tasks -> {"none", "sent", "created", "over"}]
    /\ seen \in [Tasks -> Tasks \cup {None}]
    /\ open \in BOOLEAN
    /\ shown \in {"idle", "running", "blocked", "completed", "error"}
    /\ {taskId, pollInterval, rendered} \subseteq Tasks \cup {None}
    /\ intervals \subseteq Tasks
    /\ polls \in Seq([task : Tasks, answer : Statuses \cup {"sent"}])
    /\ early \in BOOLEAN

PressedOnce == \A t, u \in Tasks : start[t] # "none" /\ start[u] # "none" => t = u

\* After one press, and unless the page is left before its answer, the
\* interval that runs is the one the page knows, and none outlives the page
\* (DownloadPage.tsx, the effect that returns clearPoll).
IntervalIsKnown ==
    PressedOnce /\ ~early =>
        intervals = IF open THEN {pollInterval} \ {None} ELSE {}

\* A page that was started once and stays open catches up with its task:
\* when the task rests in a status, the page comes to say what it says of
\* that status, and goes on to, whatever answers were overtaken or lost
\* (DownloadPage.tsx, the callback of the interval).
PageCatchesUp ==
    [](open /\ PressedOnce) =>
        \A t \in Tasks, s \in Statuses :
            <>[](taskId = t /\ row[t] = s) => <>[](shown = Shows(s))

\* A task that has succeeded is shown as completed sooner or later.
SuccessIsShown ==
    [](open /\ PressedOnce) =>
        \A t \in Tasks :
            <>[](taskId = t /\ row[t] = "SUCCESS") => <>(shown = "completed")
=============================================================================
