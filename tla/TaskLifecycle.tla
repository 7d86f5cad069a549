---------------------------- MODULE TaskLifecycle ----------------------------
(***************************************************************************)
(* The life of download tasks between the API service, the Celery broker,  *)
(* the workers, the watchdog and the table download_tasks.                 *)
(*                                                                         *)
(* Every commit to the table, every message sent, delivered or             *)
(* acknowledged, and every process that can die between two of them is a   *)
(* step of its own.  What a running handler does with files is abstracted  *)
(* to the moments at which it writes the task's row (module ProcessFiles   *)
(* has the rest).                                                          *)
(*                                                                         *)
(* Each SQL statement is atomic.  The broker is an unordered bag with at   *)
(* least once delivery: a message whose consumer died, or kept it past the *)
(* visibility timeout, is delivered again.  A worker runs one job at a     *)
(* time (--pool=solo) and watchdog jobs run on the same workers.           *)
(***************************************************************************)
EXTENDS DownloadTask, FiniteSets

CONSTANTS
    Tasks,                    \* ids of the tasks the API may create
    Workers,                  \* Celery workers, named by their hostname
    RetryAfters,              \* Retry-After values of a 403, in ticks
    BLOCK_THRESHOLD_SECONDS,  \* longest block that does not suspend the task
    LIMIT,                    \* rows one run of the watchdog reclaims
    Faults,                   \* the kinds of fault that may happen
    MaxFaults,                \* bound: how many faults happen
    MaxQueued                 \* bound: copies of a message told apart

FaultKinds ==
    { "crash",      \* a worker dies while it runs a download
      "stall",      \* a live worker lets its heartbeat expire
      "slow_flush", \* time passes between an update's SELECT and its commit
      "redeliver",  \* the visibility timeout ends while the job still runs
      "claim_db",   \* the claim's transaction fails
      "save_db",    \* a later transaction of the worker fails
      "lost_send" } \* the process dies, or the broker refuses, after the
                    \* commit and before send_task

ASSUME LifecycleAssumption ==
    /\ NULL \notin Workers
    /\ NULL \notin Tasks
    /\ RetryAfters \subseteq Nat
    /\ BLOCK_THRESHOLD_SECONDS \in Nat
    /\ LIMIT \in Nat \ {0}
    /\ Faults \subseteq FaultKinds
    /\ MaxFaults \in Nat
    /\ MaxQueued \in Nat \ {0}

VARIABLES
    rows,      \* download_tasks
    queue,     \* process_files_task messages waiting at the broker, per task
    unsent,    \* tasks the API has committed but not yet sent
    pc,        \* what each worker is doing
    job,       \* the task_id of the message a worker is processing
    held,      \* whether the broker still counts that message as unacked
    mem,       \* the handler's DownloadTask object, NoRow without one
    selected,  \* the row as update() selected it; NoRow outside the flush
    requeue,   \* reclaimed tasks a watchdog run has still to send
    faults     \* faults so far

workerVars == <<pc, job, held, mem, selected, requeue>>
vars == <<rows, queue, unsent, pc, job, held, mem, selected, requeue, faults>>

NoRow == [NewTask EXCEPT !.status = ABSENT]

Init ==
    /\ rows = [t \in Tasks |-> NoRow]
    /\ queue = [t \in Tasks |-> 0]
    /\ unsent = {}
    /\ pc = [w \in Workers |-> "idle"]
    /\ job = [w \in Workers |-> NULL]
    /\ held = [w \in Workers |-> FALSE]
    /\ mem = [w \in Workers |-> NoRow]
    /\ selected = [w \in Workers |-> NoRow]
    /\ requeue = [w \in Workers |-> {}]
    /\ faults = 0

Fault(kind) ==
    /\ kind \in Faults
    /\ faults < MaxFaults
    /\ faults' = faults + 1

\* One more copy of t's message at the broker; MaxQueued copies stand for
\* any larger number.
WithMessage(q, t) ==
    [q EXCEPT ![t] = IF @ < MaxQueued THEN @ + 1 ELSE @]

\* The workers whose handler may still write the row of their task.
Executing(w) == pc[w] \in {"claimed", "running", "saving", "flushing"}

-----------------------------------------------------------------------------
(* The API service: StartDownloadHandler.execute. *)

CreateTask(t) ==
    /\ rows[t].status = ABSENT
    /\ rows' = [rows EXCEPT ![t] = NewTask]
    /\ unsent' = unsent \cup {t}
    /\ UNCHANGED <<queue, workerVars, faults>>

SendTask(t) ==
    /\ t \in unsent
    /\ unsent' = unsent \ {t}
    /\ queue' = WithMessage(queue, t)
    /\ UNCHANGED <<rows, workerVars, faults>>

LoseSend(t) ==
    /\ t \in unsent
    /\ Fault("lost_send")
    /\ unsent' = unsent \ {t}
    /\ UNCHANGED <<rows, queue, workerVars>>

-----------------------------------------------------------------------------
(* A worker: process_files_task up to the handler. *)

Receive(w, t) ==
    /\ pc[w] = "idle"
    /\ queue[t] > 0
    /\ queue' = [queue EXCEPT ![t] = @ - 1]
    /\ pc' = [pc EXCEPT ![w] = "received"]
    /\ job' = [job EXCEPT ![w] = t]
    /\ held' = [held EXCEPT ![w] = TRUE]
    /\ UNCHANGED <<rows, unsent, mem, selected, requeue, faults>>

ClaimTask(w) ==
    /\ pc[w] = "received"
    /\ Claimable(rows[job[w]])
    /\ rows' = [rows EXCEPT ![job[w]] = Claimed(@, w)]
    /\ pc' = [pc EXCEPT ![w] = "claimed"]
    /\ UNCHANGED <<queue, unsent, job, held, mem, selected, requeue, faults>>

NotClaimed(w) ==
    /\ pc[w] = "received"
    /\ ~Claimable(rows[job[w]])
    /\ pc' = [pc EXCEPT ![w] = "finished"]
    /\ UNCHANGED <<rows, queue, unsent, job, held, mem, selected, requeue,
                   faults>>

\* The claim's transaction fails: the Celery task raises and nothing
\* retries it.
ClaimError(w) ==
    /\ pc[w] = "received"
    /\ Fault("claim_db")
    /\ pc' = [pc EXCEPT ![w] = "finished"]
    /\ UNCHANGED <<rows, queue, unsent, job, held, mem, selected, requeue>>

\* The job has returned or raised: in both cases the message is acknowledged.
Finish(w) ==
    /\ pc[w] = "finished"
    /\ pc' = [pc EXCEPT ![w] = "idle"]
    /\ job' = [job EXCEPT ![w] = NULL]
    /\ held' = [held EXCEPT ![w] = FALSE]
    /\ UNCHANGED <<rows, queue, unsent, mem, selected, requeue, faults>>

-----------------------------------------------------------------------------
(* ProcessFilesHandler. *)

\* The next thing the handler does is to write task to the table.
Save(w, task) ==
    /\ mem' = [mem EXCEPT ![w] = task]
    /\ pc' = [pc EXCEPT ![w] = "saving"]
    /\ selected' = [selected EXCEPT ![w] = NoRow]
    /\ UNCHANGED <<rows, queue, unsent, job, held, requeue>>

\* The handler is left, and its objects with it.
Leave(w) ==
    /\ pc' = [pc EXCEPT ![w] = "finished"]
    /\ mem' = [mem EXCEPT ![w] = NoRow]
    /\ selected' = [selected EXCEPT ![w] = NoRow]

\* The exception handler of execute: fail the task and save it, unless fail
\* itself raises, which ends the job.
Raise(w, err) ==
    \/ /\ CanFail(mem[w])
       /\ Save(w, Fail(mem[w], err))
    \/ /\ ~CanFail(mem[w])
       /\ Leave(w)
       /\ UNCHANGED <<rows, queue, unsent, job, held, requeue>>

GetTask(w) ==
    /\ pc[w] = "claimed"
    /\ mem' = [mem EXCEPT ![w] = rows[job[w]]]
    /\ pc' = [pc EXCEPT ![w] = "running"]
    /\ UNCHANGED <<rows, queue, unsent, job, held, selected, requeue, faults>>

GetTaskError(w) ==
    /\ pc[w] = "claimed"
    /\ Fault("save_db")
    /\ Leave(w)
    /\ UNCHANGED <<rows, queue, unsent, job, held, requeue>>

\* increase_received or increase_processed, then update.
Progress(w) ==
    /\ pc[w] = "running"
    /\ IsRunning(mem[w])
    /\ Save(w, mem[w])
    /\ UNCHANGED faults

SendHeartbeat(w) ==
    /\ pc[w] = "running"
    /\ IsRunning(mem[w])
    /\ Save(w, Heartbeat(mem[w]))
    /\ UNCHANGED faults

\* A 403 with Retry-After: _handle_block suspends the task, or lets the
\* exception of a short block go.
Blocked(w, retryAfter) ==
    /\ pc[w] = "running"
    /\ IsRunning(mem[w])
    /\ \/ /\ retryAfter > BLOCK_THRESHOLD_SECONDS
          /\ Save(w, Block(mem[w], retryAfter))
       \/ /\ retryAfter <= BLOCK_THRESHOLD_SECONDS
          /\ Raise(w, "short_block")
    /\ UNCHANGED faults

\* Any other exception, and the guards of the entity when the row read by
\* GetTask was no longer RUNNING.
HandlerError(w) ==
    /\ pc[w] = "running"
    /\ Raise(w, "other")
    /\ UNCHANGED faults

CompleteTask(w) ==
    /\ pc[w] = "running"
    /\ IsRunning(mem[w])
    /\ Save(w, Complete(mem[w]))
    /\ UNCHANGED faults

\* update(task): select the row ...
SelectRow(w) ==
    /\ pc[w] = "saving"
    /\ selected' = [selected EXCEPT ![w] = rows[job[w]]]
    /\ pc' = [pc EXCEPT ![w] = "flushing"]
    /\ UNCHANGED <<rows, queue, unsent, job, held, mem, requeue, faults>>

\* ... and commit: the handler goes on only with a task still RUNNING.
FlushRow(w) ==
    /\ pc[w] = "flushing"
    /\ \E apart \in SUBSET InstantColumns :
          rows' = [rows EXCEPT ![job[w]] =
                      Flushed(@, selected[w], mem[w], apart)]
    /\ \/ /\ IsRunning(mem[w])
          /\ pc' = [pc EXCEPT ![w] = "running"]
          /\ selected' = [selected EXCEPT ![w] = NoRow]
          /\ UNCHANGED mem
       \/ /\ ~IsRunning(mem[w])
          /\ Leave(w)
    /\ UNCHANGED <<queue, unsent, job, held, requeue, faults>>

\* The transaction of update fails and is rolled back.  A failure inside
\* _fail_task leaves the handler.
SaveError(w) ==
    /\ pc[w] \in {"saving", "flushing"}
    /\ Fault("save_db")
    /\ Raise(w, "other")

-----------------------------------------------------------------------------
(* The watchdog: reclaim_stuck_tasks and reclaim_blocked_tasks. *)

\* A mutant of Reclaim: all expired tasks are reset, LIMIT of them are sent.
Reclaim_AllReset(w, expired, reset) ==
    /\ pc[w] = "idle"
    /\ \E batch \in SUBSET expired :
          /\ batch # {} /\ Cardinality(batch) <= LIMIT
          /\ requeue' = [requeue EXCEPT ![w] = batch]
    /\ rows' = [t \in Tasks |-> IF t \in expired THEN reset[t] ELSE rows[t]]
    /\ pc' = [pc EXCEPT ![w] = "requeueing"]
    /\ UNCHANGED <<queue, unsent, job, held, mem, selected, faults>>

\* At most LIMIT of the expired tasks get the row that reset gives them.
Reclaim(w, expired, reset) ==
    /\ pc[w] = "idle"
    /\ \E batch \in SUBSET expired :
          /\ batch # {}
          /\ \/ Cardinality(batch) = LIMIT
             \/ batch = expired /\ Cardinality(batch) < LIMIT
          /\ rows' = [t \in Tasks |->
                         IF t \in batch THEN reset[t] ELSE rows[t]]
          /\ requeue' = [requeue EXCEPT ![w] = batch]
    /\ pc' = [pc EXCEPT ![w] = "requeueing"]
    /\ UNCHANGED <<queue, unsent, job, held, mem, selected, faults>>

ReclaimStuck(w) ==
    Reclaim(w, {t \in Tasks : Stuck(rows[t])},
            [t \in Tasks |-> UnStuck(rows[t])])

ReclaimBlocked(w) ==
    Reclaim(w, {t \in Tasks : BlockOver(rows[t])},
            [t \in Tasks |-> UnBlocked(rows[t])])

\* One turn of the loop that sends the reclaimed tasks again.
RequeueTask(w, t) ==
    /\ pc[w] = "requeueing"
    /\ t \in requeue[w]
    /\ queue' = WithMessage(queue, t)
    /\ requeue' = [requeue EXCEPT ![w] = @ \ {t}]
    /\ pc' = [pc EXCEPT ![w] =
                 IF requeue[w] = {t} THEN "idle" ELSE "requeueing"]
    /\ UNCHANGED <<rows, unsent, job, held, mem, selected, faults>>

LoseRequeue(w) ==
    /\ pc[w] = "requeueing"
    /\ Fault("lost_send")
    /\ requeue' = [requeue EXCEPT ![w] = {}]
    /\ pc' = [pc EXCEPT ![w] = "idle"]
    /\ UNCHANGED <<rows, queue, unsent, job, held, mem, selected>>

-----------------------------------------------------------------------------
(* The environment. *)

\* A mutant of Redelivered: the message was acknowledged when it was received.
Redelivered_AckedEarly(w) == queue

\* The broker has the message of w's job to deliver another time.
Redelivered(w) == WithMessage(queue, job[w])

\* A worker dies with its download and is started again; the broker delivers
\* the message it still held (task_acks_late).
Crash(w) ==
    /\ pc[w] \in {"received", "claimed", "running", "saving", "flushing",
                  "finished"}
    /\ Fault("crash")
    /\ queue' = IF held[w] THEN Redelivered(w) ELSE queue
    /\ pc' = [pc EXCEPT ![w] = "idle"]
    /\ job' = [job EXCEPT ![w] = NULL]
    /\ held' = [held EXCEPT ![w] = FALSE]
    /\ mem' = [mem EXCEPT ![w] = NoRow]
    /\ selected' = [selected EXCEPT ![w] = NoRow]
    /\ UNCHANGED <<rows, unsent, requeue>>

VisibilityTimeout(w) ==
    /\ held[w]
    /\ Fault("redeliver")
    /\ held' = [held EXCEPT ![w] = FALSE]
    /\ queue' = Redelivered(w)
    /\ UNCHANGED <<rows, unsent, pc, job, mem, selected, requeue>>

\* Time passes.  Without "stall" every executor writes a heartbeat before
\* the watchdog may take its task; without "slow_flush" a transaction is over
\* within the tick.
Tick ==
    /\ \/ "stall" \in Faults
       \/ \A w \in Workers :
             Executing(w) => ~HeartbeatExpired(Aged(rows[job[w]]))
    /\ \/ "slow_flush" \in Faults
       \/ \A w \in Workers : pc[w] # "flushing"
    /\ rows' = [t \in Tasks |-> Aged(rows[t])]
    /\ mem' = [w \in Workers |-> Aged(mem[w])]
    /\ selected' = [w \in Workers |-> Aged(selected[w])]
    /\ UNCHANGED <<queue, unsent, pc, job, held, requeue, faults>>

-----------------------------------------------------------------------------

ApiStep(t) == CreateTask(t) \/ SendTask(t) \/ LoseSend(t)

\* The steps by which a handler leaves its loop.
LeaveLoop(w) ==
    \/ \E r \in RetryAfters : Blocked(w, r)
    \/ HandlerError(w)
    \/ CompleteTask(w)

HandlerStep(w) ==
    \/ ClaimTask(w) \/ NotClaimed(w) \/ ClaimError(w) \/ Finish(w)
    \/ GetTask(w) \/ GetTaskError(w)
    \/ Progress(w) \/ SendHeartbeat(w) \/ LeaveLoop(w)
    \/ SelectRow(w) \/ FlushRow(w) \/ SaveError(w)

WatchdogStep(w) ==
    \/ ReclaimStuck(w) \/ ReclaimBlocked(w)
    \/ \E t \in Tasks : RequeueTask(w, t)
    \/ LoseRequeue(w)

Next ==
    \/ \E t \in Tasks : ApiStep(t)
    \/ \E w \in Workers, t \in Tasks : Receive(w, t)
    \/ \E w \in Workers :
          \/ HandlerStep(w)
          \/ WatchdogStep(w)
          \/ Crash(w)
          \/ VisibilityTimeout(w)
    \/ Tick

Spec == Init /\ [][Next]_vars

(***************************************************************************)
(* Fairness.  A process that can take its next step takes it, and time     *)
(* passes.  A running handler may go round its loop for long but leaves it *)
(* (the catalogue is finite and a request is tried a bounded number of     *)
(* times).  The broker's queue is first in first out and beat sends both   *)
(* watchdog jobs every minute, so among the jobs an idle worker may take   *)
(* none is passed over for ever: hence strong fairness.  Nothing obliges   *)
(* the API to create tasks, nor a fault to happen.                         *)
(***************************************************************************)
Fairness ==
    /\ WF_vars(Tick)
    /\ \A t \in Tasks :
          /\ WF_vars(SendTask(t))
          /\ SF_vars(\E w \in Workers : Receive(w, t))
    /\ \A w \in Workers :
          /\ WF_vars(ClaimTask(w) \/ NotClaimed(w))
          /\ WF_vars(GetTask(w))
          /\ SF_vars(LeaveLoop(w))
          /\ WF_vars(SelectRow(w) \/ FlushRow(w))
          /\ WF_vars(Finish(w))
          /\ WF_vars(\E t \in Tasks : RequeueTask(w, t))
    /\ SF_vars(\E w \in Workers : ReclaimStuck(w))
    /\ SF_vars(\E w \in Workers : ReclaimBlocked(w))

FairSpec == Spec /\ Fairness

-----------------------------------------------------------------------------
(* Types. *)

TaskRow ==
    [status : TaskStatus \cup {ABSENT},
     worker_id : Workers \cup {NULL},
     last_heartbeat : HeartbeatAges \cup {NULL},
     attempts : 0..MaxAttempts,
     blocked_until : Nat \cup {NULL},
     error : {NULL, "block", "short_block", "other"}]

WorkerStates ==
    {"idle", "received", "claimed", "running", "saving", "flushing",
     "finished", "requeueing"}

\* The type invariant.
TypeOK ==
    /\ rows \in [Tasks -> TaskRow]
    /\ queue \in [Tasks -> 0..MaxQueued]
    /\ unsent \subseteq Tasks
    /\ pc \in [Workers -> WorkerStates]
    /\ job \in [Workers -> Tasks \cup {NULL}]
    /\ held \in [Workers -> BOOLEAN]
    /\ mem \in [Workers -> TaskRow]
    /\ selected \in [Workers -> TaskRow]
    /\ requeue \in [Workers -> SUBSET Tasks]
    /\ faults \in 0..MaxFaults
    /\ \A w \in Workers :
          pc[w] \notin {"idle", "requeueing"} \/ held[w] => job[w] \in Tasks

-----------------------------------------------------------------------------
(* Safety. *)

\* A message that will still lead to an attempt at claiming t, or a process
\* that has still to send one.
OnItsWay(t) ==
    \/ t \in unsent
    \/ queue[t] > 0
    \/ \E w \in Workers : pc[w] = "received" /\ job[w] = t
    \/ \E w \in Workers : t \in requeue[w]

\* A PENDING task is never stranded: nothing polls the table for PENDING
\* rows, so a message that leads a worker to claim it (celery_tasks.py), or a
\* sender about to send one (StartDownloadHandler, the watchdog), must exist
\* through crashes, redeliveries, overtaken workers and failed transactions.
NoStrandedTask ==
    \A t \in Tasks : rows[t].status = "PENDING" => OnItsWay(t)

\* As long as executors heartbeat in time, the watchdog can see every RUNNING
\* task, so that none is RUNNING for ever with nobody to finish it:
\* reclaim_stuck compares last_heartbeat, and a comparison with NULL is never
\* true.  (A flush writes single columns: two workers that were overtaken can
\* combine the status of one with the NULL of the other.)
RecoverableRow ==
    \A t \in Tasks :
        rows[t].status = "RUNNING" => rows[t].last_heartbeat # NULL

\* As long as executors heartbeat in time, no two workers execute one task:
\* neither a duplicated message nor a reclaim gives it to a second one.
SingleExecutor ==
    \A v, w \in Workers :
        Executing(v) /\ Executing(w) /\ job[v] = job[w] => v = w

\* As long as executors heartbeat in time, a worker that executes a task is
\* the one named in its row and the row is RUNNING: what the entity checks in
\* memory, and update() does not, is true of the table.
ExecutorOwnsRow ==
    \A w \in Workers :
        Executing(w) => /\ rows[job[w]].status = "RUNNING"
                        /\ rows[job[w]].worker_id = w

\* As long as executors heartbeat in time, SUCCESS and FAILED are final
\* (DownloadTask.fail, tests/domain/test_download_task_entity.py).
TerminalIsFinal ==
    [][\A t \in Tasks :
          rows[t].status \in Terminal => rows'[t].status = rows[t].status]_rows

\* As long as executors heartbeat in time, attempts counts the claims: it
\* grows by one when a PENDING row becomes RUNNING and never otherwise (a
\* flush that writes an old object back could lose a claim).
AttemptsCountClaims ==
    [][\A t \in Tasks :
          rows'[t].attempts # rows[t].attempts =>
              /\ rows[t].status = "PENDING"
              /\ rows'[t].status = "RUNNING"
              /\ rows'[t].attempts = rows[t].attempts + 1]_rows

\* As long as executors heartbeat in time, the table implements the contract
\* of module TaskContract.
Contract ==
    INSTANCE TaskContract
    WITH status <- [t \in Tasks |-> rows[t].status],
         owner <- [t \in Tasks |-> rows[t].worker_id],
         executors <- [t \in Tasks |->
                          {w \in Workers : Executing(w) /\ job[w] = t}]

ContractSpec == Contract!Spec

-----------------------------------------------------------------------------
(* Liveness, under FairSpec. *)

\* Every task comes to rest: from some time on it is SUCCESS or FAILED for
\* ever, unless the external API blocks it again and again.
TaskSettles ==
    \A t \in Tasks :
        \/ <>[](rows[t].status = ABSENT)
        \/ <>[](rows[t].status \in Terminal)
        \/ []<>(rows[t].status = "BLOCKED")

\* A block ends: the watchdog makes the task claimable and a worker claims it
\* (reclaim_blocked, claim).  One run takes LIMIT tasks in no particular
\* order, so a task may be passed over for as long as that many others are
\* blocked again and again.
BlockEnds ==
    \A t \in Tasks :
        \/ []<>(Cardinality({u \in Tasks \ {t} : rows[u].status = "BLOCKED"}) >= LIMIT)
        \/ rows[t].status = "BLOCKED" ~> rows[t].status = "RUNNING"
=============================================================================
