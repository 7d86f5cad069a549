-------------------------- MODULE TaskTimelyProofs --------------------------
(***************************************************************************)
(* What TaskLifecycle guarantees when executors heartbeat in time, proved  *)
(* for every value of its constants: one executor per task, final          *)
(* outcomes, counted claims, and the contract of module TaskContract.      *)
(***************************************************************************)
EXTENDS TaskLifecycleProofs

\* No living executor lets its heartbeat expire.
Timely == "stall" \notin Faults

-----------------------------------------------------------------------------
(* The inductive invariant.  SingleExecutor and ExecutorOwnsRow are not     *)
(* inductive: nothing in update() looks at the row, so a flush keeps the    *)
(* row in its executor's hands only because the object it writes agrees     *)
(* with the row, and the row was not touched since it was selected.         *)

\* The row of an executed task is its executor's, with a heartbeat that the
\* watchdog accepts.
OwnsRow(w) ==
    Executing(w) =>
        /\ rows[job[w]].status = "RUNNING"
        /\ rows[job[w]].worker_id = w
        /\ rows[job[w]].last_heartbeat \in 0..MAX_HEARTBEAT_AGE

\* The handler's object agrees with the row, or is ahead of it.
ObjectAgrees(w) ==
    pc[w] \in {"running", "saving", "flushing"} =>
        /\ mem[w].worker_id = w
        /\ mem[w].last_heartbeat \in 0..rows[job[w]].last_heartbeat
        /\ mem[w].attempts = rows[job[w]].attempts

Outcomes == {"SUCCESS", "FAILED", "BLOCKED"}

ObjectStatus(w) ==
    /\ pc[w] = "running" => mem[w].status = "RUNNING"
    /\ pc[w] \in {"saving", "flushing"} =>
           mem[w].status \in Outcomes \cup {"RUNNING"}

\* Nobody writes a row between its executor's select and commit.
Untouched(w) == pc[w] = "flushing" => selected[w] = rows[job[w]]

WorkerInv(w) ==
    /\ OwnsRow(w)
    /\ ObjectAgrees(w)
    /\ ObjectStatus(w)
    /\ Untouched(w)

TimelyInv == TypeOK /\ \A w \in Workers : WorkerInv(w)

-----------------------------------------------------------------------------
(* Lemmas. *)

\* With the row untouched, update() writes the whole object.
LEMMA FlushedIsTask ==
    ASSUME NEW row \in TaskRow, NEW task \in TaskRow, NEW apart
    PROVE  Flushed(row, row, task, apart) = task
BY DEF Flushed, TaskRow

LEMMA JobIsTask ==
    ASSUME TypeOK, NEW w \in Workers, Executing(w)
    PROVE  job[w] \in Tasks /\ rows[job[w]] \in TaskRow /\ mem[w] \in TaskRow
BY DEF TypeOK, Executing

\* Two executors have different tasks.
LEMMA OneExecutor ==
    ASSUME TimelyInv, NEW v \in Workers, NEW w \in Workers,
           Executing(v), Executing(w), job[v] = job[w]
    PROVE  v = w
BY DEF TimelyInv, WorkerInv, OwnsRow

\* A step of w leaves v alone when it does not touch the row v executes.
LEMMA OtherWorker ==
    ASSUME NEW v \in Workers, WorkerInv(v),
           pc'[v] = pc[v], job'[v] = job[v], mem'[v] = mem[v],
           selected'[v] = selected[v],
           Executing(v) => rows'[job[v]] = rows[job[v]]
    PROVE  WorkerInv(v)'
BY DEF WorkerInv, OwnsRow, ObjectAgrees, ObjectStatus, Untouched, Executing

\* A step of w that does not write the table.
LEMMA OwnStep ==
    ASSUME TimelyInv, NEW w \in Workers, rows' = rows,
           \A v \in Workers \ {w} :
              /\ pc'[v] = pc[v] /\ job'[v] = job[v] /\ mem'[v] = mem[v]
              /\ selected'[v] = selected[v],
           WorkerInv(w)'
    PROVE  \A v \in Workers : WorkerInv(v)'
<1> TAKE v \in Workers
<1>1. CASE v = w
  BY <1>1
<1>2. CASE v # w
  BY <1>2, OtherWorker DEF TimelyInv
<1> QED
  BY <1>1, <1>2

\* A worker that executes nothing needs nothing.
LEMMA NotExecuting ==
    ASSUME NEW w \in Workers,
           pc'[w] \in {"idle", "received", "finished", "requeueing"}
    PROVE  WorkerInv(w)'
BY DEF WorkerInv, OwnsRow, ObjectAgrees, ObjectStatus, Untouched, Executing

\* The object is about to be saved.
LEMMA SaveTimely ==
    ASSUME TimelyInv, NEW w \in Workers, Executing(w), NEW task \in TaskRow,
           Save(w, task),
           task.worker_id = w, task.attempts = rows[job[w]].attempts,
           task.last_heartbeat \in 0..rows[job[w]].last_heartbeat,
           task.status \in Outcomes \cup {"RUNNING"}
    PROVE  \A v \in Workers : WorkerInv(v)'
<1>1. /\ pc'[w] = "saving" /\ job' = job /\ mem'[w] = task /\ rows' = rows
      /\ \A v \in Workers \ {w} :
            /\ pc'[v] = pc[v] /\ job'[v] = job[v] /\ mem'[v] = mem[v]
            /\ selected'[v] = selected[v]
  BY DEF Save, TimelyInv, TypeOK
<1>2. WorkerInv(w)
  BY DEF TimelyInv
<1>3. WorkerInv(w)'
  BY <1>1, <1>2
     DEF WorkerInv, OwnsRow, ObjectAgrees, ObjectStatus, Untouched, Executing
<1> QED
  BY <1>1, <1>3, OwnStep

LEMMA LeaveTimely ==
    ASSUME TimelyInv, NEW w \in Workers, Leave(w), UNCHANGED <<rows, job>>
    PROVE  \A v \in Workers : WorkerInv(v)'
<1>1. /\ pc'[w] = "finished"
      /\ \A v \in Workers \ {w} :
            /\ pc'[v] = pc[v] /\ job'[v] = job[v] /\ mem'[v] = mem[v]
            /\ selected'[v] = selected[v]
  BY DEF Leave, TimelyInv, TypeOK
<1> QED
  BY <1>1, NotExecuting, OwnStep

LEMMA RaiseTimely ==
    ASSUME TimelyInv, NEW w \in Workers,
           pc[w] \in {"running", "saving", "flushing"},
           NEW err \in {"block", "short_block", "other"}, Raise(w, err)
    PROVE  \A v \in Workers : WorkerInv(v)'
<1>1. Executing(w) /\ WorkerInv(w)
  BY DEF Executing, TimelyInv
<1>2. mem[w] \in TaskRow
  BY <1>1, JobIsTask DEF TimelyInv
<1>3. CASE Save(w, Fail(mem[w], err))
  <2>1. Fail(mem[w], err) \in TaskRow
    BY <1>2, FailType
  <2>2. /\ Fail(mem[w], err).worker_id = mem[w].worker_id
        /\ Fail(mem[w], err).attempts = mem[w].attempts
        /\ Fail(mem[w], err).last_heartbeat = mem[w].last_heartbeat
        /\ Fail(mem[w], err).status = "FAILED"
    BY <1>2 DEF Fail, TaskRow
  <2> QED
    BY <1>1, <1>3, <2>1, <2>2, SaveTimely DEF WorkerInv, ObjectAgrees, Outcomes
<1>4. CASE Leave(w) /\ UNCHANGED <<rows, queue, unsent, job, held, requeue>>
  BY <1>4, LeaveTimely
<1> QED
  BY <1>3, <1>4 DEF Raise

-----------------------------------------------------------------------------
(* The steps. *)

LEMMA InitTimely == Init => TimelyInv
<1> SUFFICES ASSUME Init PROVE TimelyInv
  OBVIOUS
<1>1. \A w \in Workers : pc[w] = "idle"
  BY DEF Init
<1>2. \A w \in Workers : WorkerInv(w)
  BY <1>1
     DEF WorkerInv, OwnsRow, ObjectAgrees, ObjectStatus, Untouched, Executing
<1> QED
  BY <1>2, InitType DEF TimelyInv

\* The row of an executed task is RUNNING: a claim finds another one.
LEMMA ClaimTimely ==
    ASSUME TimelyInv, NEW w \in Workers, ClaimTask(w)
    PROVE  \A v \in Workers : WorkerInv(v)'
<1>1. /\ job[w] \in Tasks /\ rows[job[w]].status = "PENDING"
      /\ rows[job[w]] \in TaskRow
  BY DEF ClaimTask, Claimable, TimelyInv, TypeOK
<1>2. /\ rows'[job[w]] = Claimed(rows[job[w]], w)
      /\ \A t \in Tasks \ {job[w]} : rows'[t] = rows[t]
      /\ pc'[w] = "claimed" /\ UNCHANGED <<job, mem, selected>>
      /\ \A v \in Workers \ {w} : pc'[v] = pc[v]
  BY <1>1 DEF ClaimTask, TimelyInv, TypeOK
<1>3. /\ rows'[job[w]].status = "RUNNING"
      /\ rows'[job[w]].worker_id = w
      /\ rows'[job[w]].last_heartbeat = 0
  BY <1>1, <1>2 DEF Claimed, TaskRow
<1>4. WorkerInv(w)'
  BY <1>2, <1>3, HeartbeatAgeAssumption
     DEF WorkerInv, OwnsRow, ObjectAgrees, ObjectStatus, Untouched, Executing
<1>5. ASSUME NEW v \in Workers, v # w
      PROVE  WorkerInv(v)'
  <2>1. WorkerInv(v)
    BY DEF TimelyInv
  <2>2. ASSUME Executing(v) PROVE rows'[job[v]] = rows[job[v]]
    <3>1. job[v] \in Tasks /\ rows[job[v]].status = "RUNNING"
      BY <2>1, <2>2, JobIsTask DEF WorkerInv, OwnsRow, TimelyInv
    <3> QED
      BY <1>1, <1>2, <3>1
  <2> QED
    BY <1>2, <1>5, <2>1, <2>2, OtherWorker
<1> QED
  BY <1>4, <1>5

\* The flush writes the whole object, in a row that nobody else executes.
LEMMA FlushWrites ==
    ASSUME TimelyInv, NEW w \in Workers, FlushRow(w)
    PROVE  /\ job[w] \in Tasks
           /\ rows' = [rows EXCEPT ![job[w]] = mem[w]]
<1>1. Executing(w) /\ WorkerInv(w) /\ selected[w] = rows[job[w]]
  BY DEF FlushRow, Executing, TimelyInv, WorkerInv, Untouched
<1>2. job[w] \in Tasks /\ rows[job[w]] \in TaskRow /\ mem[w] \in TaskRow
  BY <1>1, JobIsTask DEF TimelyInv
<1>3. PICK apart \in SUBSET InstantColumns :
         rows' = [rows EXCEPT ![job[w]] =
                     Flushed(@, selected[w], mem[w], apart)]
  BY DEF FlushRow
<1>4. Flushed(rows[job[w]], selected[w], mem[w], apart) = mem[w]
  BY <1>1, <1>2, FlushedIsTask
<1> QED
  BY <1>2, <1>3, <1>4

LEMMA FlushTimely ==
    ASSUME TimelyInv, NEW w \in Workers, FlushRow(w)
    PROVE  \A v \in Workers : WorkerInv(v)'
<1>1. /\ pc[w] = "flushing" /\ Executing(w) /\ WorkerInv(w)
  BY DEF FlushRow, Executing, TimelyInv
<1>2. job[w] \in Tasks /\ rows' = [rows EXCEPT ![job[w]] = mem[w]]
  BY FlushWrites
<1>3. rows'[job[w]] = mem[w] /\ UNCHANGED job
  BY <1>2 DEF FlushRow, TimelyInv, TypeOK
<1>4. /\ mem[w].worker_id = w
      /\ mem[w].last_heartbeat \in 0..MAX_HEARTBEAT_AGE
  BY <1>1, HeartbeatAgeAssumption DEF WorkerInv, OwnsRow, ObjectAgrees
<1>5. WorkerInv(w)'
  <2>1. CASE IsRunning(mem[w])
    <3>1. pc'[w] = "running" /\ mem'[w] = mem[w]
      BY <1>1, <2>1 DEF FlushRow, TimelyInv, TypeOK
    <3> QED
      BY <1>3, <1>4, <2>1, <3>1
         DEF WorkerInv, OwnsRow, ObjectAgrees, ObjectStatus, Untouched,
             Executing, IsRunning
  <2>2. CASE ~IsRunning(mem[w])
    BY <2>2, NotExecuting DEF FlushRow, Leave, TimelyInv, TypeOK
  <2> QED
    BY <2>1, <2>2
<1>6. ASSUME NEW v \in Workers, v # w
      PROVE  WorkerInv(v)'
  <2>1. WorkerInv(v)
    BY DEF TimelyInv
  <2>2. /\ pc'[v] = pc[v] /\ job'[v] = job[v] /\ mem'[v] = mem[v]
        /\ selected'[v] = selected[v]
    BY <1>6 DEF FlushRow, Leave, TimelyInv, TypeOK
  <2>3. ASSUME Executing(v) PROVE rows'[job[v]] = rows[job[v]]
    <3>1. job[v] # job[w]
      BY <1>1, <1>6, <2>3, OneExecutor
    <3>2. job[v] \in Tasks
      BY <2>3, JobIsTask DEF TimelyInv
    <3> QED
      BY <1>2, <3>1, <3>2 DEF TimelyInv, TypeOK
  <2> QED
    BY <2>1, <2>2, <2>3, OtherWorker
<1> QED
  BY <1>5, <1>6

LEMMA SelectTimely ==
    ASSUME TimelyInv, NEW w \in Workers, SelectRow(w)
    PROVE  \A v \in Workers : WorkerInv(v)'
<1>1. /\ pc[w] = "saving" /\ pc'[w] = "flushing"
      /\ selected'[w] = rows[job[w]] /\ UNCHANGED <<rows, job, mem>>
      /\ \A v \in Workers \ {w} :
            pc'[v] = pc[v] /\ selected'[v] = selected[v]
  BY DEF SelectRow, TimelyInv, TypeOK
<1>2. WorkerInv(w)
  BY DEF TimelyInv
<1>3. WorkerInv(w)'
  BY <1>1, <1>2
     DEF WorkerInv, OwnsRow, ObjectAgrees, ObjectStatus, Untouched, Executing
<1> QED
  BY <1>1, <1>3, OwnStep

LEMMA GetTaskTimely ==
    ASSUME TimelyInv, NEW w \in Workers, GetTask(w)
    PROVE  \A v \in Workers : WorkerInv(v)'
<1>1. /\ pc[w] = "claimed" /\ pc'[w] = "running"
      /\ mem'[w] = rows[job[w]] /\ UNCHANGED <<rows, job, selected>>
      /\ \A v \in Workers \ {w} : pc'[v] = pc[v] /\ mem'[v] = mem[v]
  BY DEF GetTask, TimelyInv, TypeOK
<1>2. WorkerInv(w)
  BY DEF TimelyInv
<1>3. WorkerInv(w)'
  BY <1>1, <1>2, HeartbeatAgeAssumption
     DEF WorkerInv, OwnsRow, ObjectAgrees, ObjectStatus, Untouched, Executing
<1> QED
  BY <1>1, <1>3, OwnStep

LEMMA HandlerTimely ==
    ASSUME TimelyInv, NEW w \in Workers, HandlerStep(w)
    PROVE  \A v \in Workers : WorkerInv(v)'
<1>1. CASE ClaimTask(w)
  BY <1>1, ClaimTimely
<1>2. CASE FlushRow(w)
  BY <1>2, FlushTimely
<1>3. CASE SelectRow(w)
  BY <1>3, SelectTimely
<1>4. CASE GetTask(w)
  BY <1>4, GetTaskTimely
<1>5. CASE NotClaimed(w) \/ ClaimError(w) \/ Finish(w)
  <2>1. /\ UNCHANGED <<rows, mem, selected>>
        /\ pc'[w] \in {"idle", "finished"}
        /\ \A v \in Workers \ {w} : pc'[v] = pc[v] /\ job'[v] = job[v]
    BY <1>5 DEF NotClaimed, ClaimError, Finish, TimelyInv, TypeOK
  <2> QED
    BY <2>1, NotExecuting, OwnStep
<1>6. CASE GetTaskError(w)
  BY <1>6, LeaveTimely DEF GetTaskError
<1>7. CASE SaveError(w)
  BY <1>7, RaiseTimely DEF SaveError
<1>8. CASE HandlerError(w)
  BY <1>8, RaiseTimely DEF HandlerError
<1>9. CASE \/ Progress(w) \/ SendHeartbeat(w) \/ CompleteTask(w)
           \/ \E r \in RetryAfters : Blocked(w, r)
  <2>1. /\ pc[w] = "running" /\ Executing(w) /\ WorkerInv(w)
        /\ mem[w].status = "RUNNING"
    BY <1>9 DEF Progress, SendHeartbeat, CompleteTask, Blocked, Executing,
                IsRunning, TimelyInv
  <2>2. /\ mem[w] \in TaskRow /\ mem[w].worker_id = w
        /\ mem[w].last_heartbeat \in 0..rows[job[w]].last_heartbeat
        /\ mem[w].attempts = rows[job[w]].attempts
        /\ rows[job[w]].last_heartbeat \in Nat
    BY <2>1, JobIsTask, HeartbeatAgeAssumption
       DEF TimelyInv, WorkerInv, ObjectAgrees, OwnsRow
  <2>3. CASE Progress(w)
    BY <2>1, <2>2, <2>3, SaveTimely DEF Progress
  <2>4. CASE SendHeartbeat(w)
    <3>1. /\ Heartbeat(mem[w]) \in TaskRow
          /\ Heartbeat(mem[w]).worker_id = mem[w].worker_id
          /\ Heartbeat(mem[w]).attempts = mem[w].attempts
          /\ Heartbeat(mem[w]).last_heartbeat = 0
          /\ Heartbeat(mem[w]).status = mem[w].status
      BY <2>2, HeartbeatType DEF Heartbeat, TaskRow
    <3> QED
      BY <2>1, <2>2, <2>4, <3>1, SaveTimely DEF SendHeartbeat
  <2>5. CASE CompleteTask(w)
    <3>1. /\ Complete(mem[w]) \in TaskRow
          /\ Complete(mem[w]).worker_id = mem[w].worker_id
          /\ Complete(mem[w]).attempts = mem[w].attempts
          /\ Complete(mem[w]).last_heartbeat = mem[w].last_heartbeat
          /\ Complete(mem[w]).status = "SUCCESS"
      BY <2>2, CompleteType DEF Complete, TaskRow
    <3> QED
      BY <2>1, <2>2, <2>5, <3>1, SaveTimely DEF CompleteTask, Outcomes
  <2>6. ASSUME NEW r \in RetryAfters, Blocked(w, r)
        PROVE  \A v \in Workers : WorkerInv(v)'
    <3>1. /\ Block(mem[w], r) \in TaskRow
          /\ Block(mem[w], r).worker_id = mem[w].worker_id
          /\ Block(mem[w], r).attempts = mem[w].attempts
          /\ Block(mem[w], r).last_heartbeat = mem[w].last_heartbeat
          /\ Block(mem[w], r).status = "BLOCKED"
      BY <2>2, BlockType DEF Block, TaskRow
    <3>2. CASE Save(w, Block(mem[w], r))
      BY <2>1, <2>2, <3>1, <3>2, SaveTimely DEF Outcomes
    <3>3. CASE Raise(w, "short_block")
      BY <2>1, <3>3, RaiseTimely
    <3> QED
      BY <2>6, <3>2, <3>3 DEF Blocked
  <2> QED
    BY <1>9, <2>3, <2>4, <2>5, <2>6
<1> QED
  BY <1>1, <1>2, <1>3, <1>4, <1>5, <1>6, <1>7, <1>8, <1>9
     DEF HandlerStep, LeaveLoop

\* The watchdog takes tasks that are BLOCKED or whose heartbeat expired:
\* nobody executes them.
LEMMA ReclaimTimely ==
    ASSUME TimelyInv, NEW w \in Workers,
           NEW expired \in SUBSET Tasks, NEW reset, Reclaim(w, expired, reset),
           \A t \in expired : Stuck(rows[t]) \/ BlockOver(rows[t])
    PROVE  \A v \in Workers : WorkerInv(v)'
<1>1. PICK batch \in SUBSET expired :
         rows' = [t \in Tasks |-> IF t \in batch THEN reset[t] ELSE rows[t]]
  BY DEF Reclaim
<1>2. /\ pc'[w] = "requeueing" /\ UNCHANGED <<job, mem, selected>>
      /\ \A v \in Workers \ {w} : pc'[v] = pc[v]
  BY DEF Reclaim, TimelyInv, TypeOK
<1>3. ASSUME NEW v \in Workers, v # w
      PROVE  WorkerInv(v)'
  <2>1. WorkerInv(v)
    BY DEF TimelyInv
  <2>2. ASSUME Executing(v) PROVE rows'[job[v]] = rows[job[v]]
    <3>1. job[v] \in Tasks
      BY <2>2, JobIsTask DEF TimelyInv
    <3>2. job[v] \notin expired
      BY <2>1, <2>2, HeartbeatAgeAssumption
         DEF WorkerInv, OwnsRow, Stuck, BlockOver, HeartbeatExpired
    <3> QED
      BY <1>1, <3>1, <3>2
  <2> QED
    BY <1>2, <1>3, <2>1, <2>2, OtherWorker
<1> QED
  BY <1>2, <1>3, NotExecuting

LEMMA WatchdogTimely ==
    ASSUME TimelyInv, NEW w \in Workers, WatchdogStep(w)
    PROVE  \A v \in Workers : WorkerInv(v)'
<1>1. CASE ReclaimStuck(w)
  BY <1>1, ReclaimTimely DEF ReclaimStuck
<1>2. CASE ReclaimBlocked(w)
  BY <1>2, ReclaimTimely DEF ReclaimBlocked
<1>3. CASE LoseRequeue(w) \/ \E t \in Tasks : RequeueTask(w, t)
  <2>1. /\ UNCHANGED <<rows, job, mem, selected>>
        /\ pc'[w] \in {"idle", "requeueing"}
        /\ \A v \in Workers \ {w} : pc'[v] = pc[v]
    BY <1>3 DEF LoseRequeue, RequeueTask, TimelyInv, TypeOK
  <2> QED
    BY <2>1, NotExecuting, OwnStep
<1> QED
  BY <1>1, <1>2, <1>3 DEF WatchdogStep

\* Time passes for a row and for the object that agrees with it alike, and
\* the executor writes a heartbeat before its time is up.
LEMMA TickTimely ==
    ASSUME Timely, TimelyInv, Tick
    PROVE  \A v \in Workers : WorkerInv(v)'
<1> TAKE v \in Workers
<1>1. WorkerInv(v) /\ UNCHANGED <<pc, job>>
  BY DEF TimelyInv, Tick
<1>2. CASE ~Executing(v)
  BY <1>1, <1>2
     DEF WorkerInv, OwnsRow, ObjectAgrees, ObjectStatus, Untouched, Executing
<1>3. CASE Executing(v)
  <2> DEFINE row == rows[job[v]]
  <2>1. job[v] \in Tasks /\ row \in TaskRow /\ mem[v] \in TaskRow
    BY <1>3, JobIsTask DEF TimelyInv
  <2>2. /\ rows'[job[v]] = Aged(row)
        /\ mem'[v] = Aged(mem[v]) /\ selected'[v] = Aged(selected[v])
    BY <2>1 DEF Tick
  <2>3. ~HeartbeatExpired(Aged(row))
    BY <1>3 DEF Tick, Timely
  <2>4. /\ row.status = "RUNNING" /\ row.worker_id = v
        /\ row.last_heartbeat \in 0..MAX_HEARTBEAT_AGE
    BY <1>1, <1>3 DEF WorkerInv, OwnsRow
  <2>5. ASSUME NEW task \in TaskRow
        PROVE  /\ Aged(task).status = task.status
               /\ Aged(task).worker_id = task.worker_id
               /\ Aged(task).attempts = task.attempts
               /\ Aged(task).last_heartbeat = Older(task.last_heartbeat)
    BY DEF Aged, TaskRow
  <2>6. ASSUME NEW age \in 0..MAX_HEARTBEAT_AGE
        PROVE  Older(age) = age + 1 /\ Older(age) # NULL
    BY HeartbeatAgeAssumption, NullAssumption DEF Older
  <2>7. row.last_heartbeat + 1 \in 0..MAX_HEARTBEAT_AGE
    BY <2>1, <2>3, <2>4, <2>5, <2>6, HeartbeatAgeAssumption
       DEF HeartbeatExpired
  <2>8. OwnsRow(v)'
    BY <1>1, <2>1, <2>2, <2>4, <2>5, <2>6, <2>7 DEF OwnsRow
  <2>9. ObjectAgrees(v)' /\ ObjectStatus(v)'
    <3>1. ASSUME pc[v] \in {"running", "saving", "flushing"}
          PROVE  /\ mem[v].last_heartbeat \in 0..MAX_HEARTBEAT_AGE
                 /\ mem[v].last_heartbeat <= row.last_heartbeat
      BY <1>1, <2>4, <3>1, HeartbeatAgeAssumption DEF WorkerInv, ObjectAgrees
    <3>2. ObjectAgrees(v)'
      BY <1>1, <2>1, <2>2, <2>4, <2>5, <2>6, <3>1, HeartbeatAgeAssumption
         DEF WorkerInv, ObjectAgrees
    <3> QED
      BY <1>1, <2>1, <2>2, <2>5, <3>2 DEF WorkerInv, ObjectStatus
  <2>10. Untouched(v)'
    BY <1>1, <2>2 DEF WorkerInv, Untouched
  <2> QED
    BY <2>8, <2>9, <2>10 DEF WorkerInv
<1> QED
  BY <1>2, <1>3

LEMMA OtherTimely ==
    ASSUME TimelyInv,
           \/ \E t \in Tasks : ApiStep(t)
           \/ \E w \in Workers, t \in Tasks : Receive(w, t)
           \/ \E w \in Workers : Crash(w) \/ VisibilityTimeout(w)
    PROVE  \A v \in Workers : WorkerInv(v)'
<1>1. CASE \E t \in Tasks : ApiStep(t)
  <2> PICK t \in Tasks : ApiStep(t)
    BY <1>1
  <2>1. /\ UNCHANGED workerVars
        /\ \A u \in Tasks : rows[u].status # ABSENT => rows'[u] = rows[u]
    BY DEF ApiStep, CreateTask, SendTask, LoseSend, TimelyInv, TypeOK
  <2> TAKE v \in Workers
  <2>2. WorkerInv(v)
    BY DEF TimelyInv
  <2>3. ASSUME Executing(v) PROVE rows'[job[v]] = rows[job[v]]
    BY <2>1, <2>2, <2>3, JobIsTask DEF TimelyInv, WorkerInv, OwnsRow, ABSENT
  <2> QED
    BY <2>1, <2>2, <2>3, OtherWorker DEF workerVars
<1>2. ASSUME NEW w \in Workers,
             Crash(w) \/ VisibilityTimeout(w) \/ \E t \in Tasks : Receive(w, t)
      PROVE  \A v \in Workers : WorkerInv(v)'
  <2>1. CASE VisibilityTimeout(w)
    <3>1. UNCHANGED <<rows, pc, job, mem, selected>>
      BY <2>1 DEF VisibilityTimeout
    <3> QED
      BY <3>1, OtherWorker DEF TimelyInv
  <2>2. CASE Crash(w) \/ \E t \in Tasks : Receive(w, t)
    <3>1. /\ UNCHANGED rows
          /\ pc'[w] \in {"idle", "received"}
          /\ \A v \in Workers \ {w} :
                /\ pc'[v] = pc[v] /\ job'[v] = job[v] /\ mem'[v] = mem[v]
                /\ selected'[v] = selected[v]
      BY <2>2 DEF Crash, Receive, TimelyInv, TypeOK
    <3> QED
      BY <3>1, NotExecuting, OwnStep
  <2> QED
    BY <1>2, <2>1, <2>2
<1> QED
  BY <1>1, <1>2

LEMMA TimelyNext ==
    ASSUME Timely
    PROVE  TimelyInv /\ [Next]_vars => TimelyInv'
<1> SUFFICES ASSUME TimelyInv, [Next]_vars PROVE TimelyInv'
  OBVIOUS
<1>1. TypeOK'
  BY NextType DEF TimelyInv
<1>2. CASE Next
  <2>1. \A v \in Workers : WorkerInv(v)'
    BY <1>2, HandlerTimely, WatchdogTimely, TickTimely, OtherTimely DEF Next
  <2> QED
    BY <1>1, <2>1 DEF TimelyInv
<1>3. CASE UNCHANGED vars
  BY <1>1, <1>3, OtherWorker DEF vars, TimelyInv
<1> QED
  BY <1>2, <1>3

LEMMA TimelyAlways ==
    ASSUME Timely
    PROVE  Spec => []TimelyInv
<1>1. TimelyInv /\ [Next]_vars => TimelyInv'
  BY TimelyNext
<1> QED
  BY <1>1, InitTimely, PTL DEF Spec

-----------------------------------------------------------------------------
(* The invariants. *)

\* With timely heartbeats no two workers execute one task, however often its
\* message is delivered and whatever crashes (repositories.py, claim).
THEOREM OneExecutorPerTask ==
    ASSUME Timely
    PROVE  Spec => []SingleExecutor
<1>1. TimelyInv => SingleExecutor
  BY OneExecutor DEF SingleExecutor
<1> QED
  BY <1>1, TimelyAlways, PTL

\* With timely heartbeats the row of an executed task is RUNNING and names its
\* executor: what the entity checks in memory is true of the table.
THEOREM ExecutorsOwnRows ==
    ASSUME Timely
    PROVE  Spec => []ExecutorOwnsRow
<1>1. TimelyInv => ExecutorOwnsRow
  BY DEF TimelyInv, WorkerInv, OwnsRow, ExecutorOwnsRow
<1> QED
  BY <1>1, TimelyAlways, PTL

-----------------------------------------------------------------------------
(* The refinement of TaskContract: the state of the contract ... *)

Statuses == [t \in Tasks |-> rows[t].status]
Owners == [t \in Tasks |-> rows[t].worker_id]
Executors == [t \in Tasks |-> {w \in Workers : Executing(w) /\ job[w] = t}]

\* ... whose variables change together with these.
LEMMA ContractVars ==
    UNCHANGED <<Statuses, Owners, Executors>> => UNCHANGED Contract!vars
BY DEF Contract!vars, Statuses, Owners, Executors

LEMMA ContractSteps ==
    ASSUME NEW t \in Tasks, NEW w \in Workers,
           \/ Contract!Claim(t, w) \/ Contract!Abandon(t, w)
           \/ \E outcome \in Outcomes : Contract!Settle(t, w, outcome)
    PROVE  Contract!Next
BY DEF Contract!Next, Outcomes

LEMMA SameExecutors ==
    ASSUME \A v \in Workers :
              /\ Executing(v)' <=> Executing(v)
              /\ Executing(v) => job'[v] = job[v]
    PROVE  Executors' = Executors
BY DEF Executors

\* w leaves its task and nobody else begins or ends.
LEMMA StopsExecuting ==
    ASSUME TimelyInv, NEW w \in Workers, Executing(w), ~Executing(w)',
           \A v \in Workers \ {w} :
              /\ Executing(v)' <=> Executing(v)
              /\ Executing(v) => job'[v] = job[v]
    PROVE  /\ Executors[job[w]] = {w}
           /\ Executors' = [Executors EXCEPT ![job[w]] = {}]
<1>1. job[w] \in Tasks
  BY JobIsTask DEF TimelyInv
<1>2. Executors[job[w]] = {w}
  BY <1>1, OneExecutor DEF Executors
<1>3. ASSUME NEW t \in Tasks, t # job[w]
      PROVE  Executors'[t] = Executors[t]
  BY <1>3 DEF Executors
<1>4. Executors'[job[w]] = {}
  BY <1>1, OneExecutor DEF Executors
<1>5. Executors' = [Executors EXCEPT ![job[w]] = {}]
  BY <1>3, <1>4 DEF Executors
<1> QED
  BY <1>2, <1>5

\* A row that was never inserted has no owner and no attempt.
AbsentIsNew ==
    \A t \in Tasks :
        rows[t].status = ABSENT =>
            rows[t].worker_id = NULL /\ rows[t].attempts = 0

ContractInv == TimelyInv /\ AbsentIsNew

\* Steps that end nobody's execution and change no status and no owner.
LEMMA StutterStep ==
    ASSUME Statuses' = Statuses, Owners' = Owners,
           \A v \in Workers :
              /\ Executing(v)' <=> Executing(v)
              /\ Executing(v) => job'[v] = job[v]
    PROVE  UNCHANGED Contract!vars
BY SameExecutors, ContractVars

\* w dies with its task, or leaves it without writing an outcome.
LEMMA AbandonStep ==
    ASSUME TimelyInv, NEW w \in Workers, Executing(w), ~Executing(w)',
           rows' = rows,
           \A v \in Workers \ {w} : pc'[v] = pc[v] /\ job'[v] = job[v]
    PROVE  Contract!Next
<1>1. \A v \in Workers \ {w} :
         /\ Executing(v)' <=> Executing(v)
         /\ Executing(v) => job'[v] = job[v]
  BY DEF Executing
<1>2. /\ Executors[job[w]] = {w}
      /\ Executors' = [Executors EXCEPT ![job[w]] = {}]
  BY <1>1, StopsExecuting
<1>3. /\ job[w] \in Tasks
      /\ rows[job[w]].status = "RUNNING" /\ rows[job[w]].worker_id = w
  BY JobIsTask DEF TimelyInv, WorkerInv, OwnsRow
<1>4. PICK t \in Tasks : t = job[w]
  BY <1>3
<1>5. Contract!Abandon(t, w)
  BY <1>2, <1>3, <1>4 DEF Contract!Abandon, Executors
<1> QED
  BY <1>5, ContractSteps

LEMMA LeaveStep ==
    ASSUME TimelyInv, NEW w \in Workers, Executing(w), Leave(w),
           UNCHANGED <<rows, job>>
    PROVE  Contract!Next
<1>1. /\ pc'[w] = "finished"
      /\ \A v \in Workers \ {w} : pc'[v] = pc[v]
  BY DEF Leave, TimelyInv, TypeOK
<1>2. ~Executing(w)'
  BY <1>1 DEF Executing
<1> QED
  BY <1>1, <1>2, AbandonStep

\* An object is made and not written yet.
LEMMA SaveStep ==
    ASSUME TimelyInv, NEW w \in Workers, Executing(w), NEW task, Save(w, task)
    PROVE  UNCHANGED Contract!vars
<1>1. /\ pc'[w] = "saving" /\ UNCHANGED <<rows, job>>
      /\ \A v \in Workers \ {w} : pc'[v] = pc[v]
  BY DEF Save, TimelyInv, TypeOK
<1>2. \A v \in Workers :
         /\ Executing(v)' <=> Executing(v)
         /\ Executing(v) => job'[v] = job[v]
  BY <1>1 DEF Executing
<1> QED
  BY <1>1, <1>2, StutterStep DEF Statuses, Owners

LEMMA RaiseStep ==
    ASSUME TimelyInv, NEW w \in Workers, Executing(w), NEW err, Raise(w, err)
    PROVE  Contract!Next \/ UNCHANGED Contract!vars
BY SaveStep, LeaveStep DEF Raise

LEMMA CreateStep ==
    ASSUME ContractInv, NEW t \in Tasks, CreateTask(t)
    PROVE  Contract!Next
<1>1. /\ rows[t].status = "ABSENT" /\ rows[t].worker_id = NULL
      /\ rows' = [rows EXCEPT ![t] = NewTask] /\ UNCHANGED <<pc, job>>
  BY DEF CreateTask, workerVars, ContractInv, AbsentIsNew, ABSENT
<1>2. Statuses' = [Statuses EXCEPT ![t] = "PENDING"] /\ Owners' = Owners
  BY <1>1 DEF Statuses, Owners, NewTask, ContractInv, TimelyInv, TypeOK
<1>3. Executors' = Executors
  BY <1>1, SameExecutors DEF Executing
<1>4. Contract!Create(t)
  BY <1>1, <1>2, <1>3 DEF Contract!Create, Statuses, Owners, Executors
<1> QED
  BY <1>4 DEF Contract!Next

LEMMA ClaimStep ==
    ASSUME TimelyInv, NEW w \in Workers, ClaimTask(w)
    PROVE  Contract!Next
<1>1. /\ pc[w] = "received" /\ job[w] \in Tasks
      /\ rows[job[w]].status = "PENDING" /\ rows[job[w]] \in TaskRow
  BY DEF ClaimTask, Claimable, TimelyInv, TypeOK
<1>2. /\ rows' = [rows EXCEPT ![job[w]] = Claimed(rows[job[w]], w)]
      /\ pc'[w] = "claimed" /\ UNCHANGED job
      /\ \A v \in Workers \ {w} : pc'[v] = pc[v]
  BY <1>1 DEF ClaimTask, TimelyInv, TypeOK
<1>3. /\ Claimed(rows[job[w]], w).status = "RUNNING"
      /\ Claimed(rows[job[w]], w).worker_id = w
  BY <1>1 DEF Claimed, TaskRow
<1>4. /\ Statuses' = [Statuses EXCEPT ![job[w]] = "RUNNING"]
      /\ Owners' = [Owners EXCEPT ![job[w]] = w]
  BY <1>1, <1>2, <1>3 DEF Statuses, Owners, TimelyInv, TypeOK
<1>5. Executors[job[w]] = {}
  BY <1>1, JobIsTask DEF Executors, TimelyInv, WorkerInv, OwnsRow
<1>6. Executors' = [Executors EXCEPT ![job[w]] = {w}]
  <2>1. Executors'[job[w]] = {w}
    BY <1>1, <1>2, <1>5 DEF Executors, Executing
  <2>2. \A t \in Tasks \ {job[w]} : Executors'[t] = Executors[t]
    BY <1>1, <1>2 DEF Executors, Executing
  <2> QED
    BY <2>1, <2>2 DEF Executors
<1>7. PICK t \in Tasks : t = job[w]
  BY <1>1
<1>8. Contract!Claim(t, w)
  BY <1>1, <1>4, <1>5, <1>6, <1>7
     DEF Contract!Claim, Statuses, Owners, Executors
<1> QED
  BY <1>8, ContractSteps

LEMMA FlushStep ==
    ASSUME TimelyInv, NEW w \in Workers, FlushRow(w)
    PROVE  Contract!Next \/ UNCHANGED Contract!vars
<1>1. /\ pc[w] = "flushing" /\ Executing(w) /\ WorkerInv(w)
      /\ UNCHANGED job
  BY DEF FlushRow, Executing, TimelyInv
<1>2. job[w] \in Tasks /\ rows' = [rows EXCEPT ![job[w]] = mem[w]]
  BY FlushWrites
<1>3. /\ rows[job[w]].status = "RUNNING" /\ rows[job[w]].worker_id = w
      /\ mem[w].worker_id = w
      /\ mem[w].status \in Outcomes \cup {"RUNNING"}
  BY <1>1 DEF WorkerInv, OwnsRow, ObjectAgrees, ObjectStatus
<1>4. /\ Statuses' = [Statuses EXCEPT ![job[w]] = mem[w].status]
      /\ Owners' = Owners
  BY <1>2, <1>3 DEF Statuses, Owners, TimelyInv, TypeOK
<1>5. CASE IsRunning(mem[w])
  <2>1. Statuses' = Statuses
    BY <1>2, <1>3, <1>4, <1>5 DEF Statuses, IsRunning
  <2>2. \A v \in Workers : Executing(v)' <=> Executing(v)
    BY <1>1, <1>5 DEF FlushRow, Executing, TimelyInv, TypeOK
  <2> QED
    BY <1>1, <1>4, <2>1, <2>2, StutterStep
<1>6. CASE ~IsRunning(mem[w])
  <2>1. /\ pc'[w] = "finished"
        /\ \A v \in Workers \ {w} : pc'[v] = pc[v]
    BY <1>6 DEF FlushRow, Leave, TimelyInv, TypeOK
  <2>2. /\ Executors[job[w]] = {w}
        /\ Executors' = [Executors EXCEPT ![job[w]] = {}]
    BY <1>1, <2>1, StopsExecuting DEF Executing
  <2>3. PICK t \in Tasks : t = job[w]
    BY <1>2
  <2>4. PICK outcome \in Outcomes : outcome = mem[w].status
    BY <1>3, <1>6 DEF IsRunning
  <2>5. Contract!Settle(t, w, outcome)
    BY <1>3, <1>4, <2>2, <2>3, <2>4
       DEF Contract!Settle, Statuses, Owners, Executors
  <2> QED
    BY <2>5, ContractSteps
<1> QED
  BY <1>5, <1>6

LEMMA HandlerContract ==
    ASSUME TimelyInv, NEW w \in Workers, HandlerStep(w)
    PROVE  Contract!Next \/ UNCHANGED Contract!vars
<1>1. CASE ClaimTask(w)
  BY <1>1, ClaimStep
<1>2. CASE FlushRow(w)
  BY <1>2, FlushStep
<1>3. CASE \/ NotClaimed(w) \/ ClaimError(w) \/ Finish(w)
           \/ GetTask(w) \/ SelectRow(w)
  <2>1. /\ UNCHANGED rows
        /\ \A v \in Workers :
              /\ Executing(v)' <=> Executing(v)
              /\ Executing(v) => job'[v] = job[v]
    BY <1>3 DEF NotClaimed, ClaimError, Finish, GetTask, SelectRow, Executing,
                TimelyInv, TypeOK
  <2> QED
    BY <2>1, StutterStep DEF Statuses, Owners
<1>4. CASE GetTaskError(w)
  BY <1>4, LeaveStep DEF GetTaskError, Executing
<1>5. CASE \/ Progress(w) \/ SendHeartbeat(w) \/ LeaveLoop(w)
           \/ SaveError(w)
  <2>1. Executing(w)
    BY <1>5 DEF Progress, SendHeartbeat, LeaveLoop, Blocked, HandlerError,
                CompleteTask, SaveError, Executing
  <2> QED
    BY <1>5, <2>1, SaveStep, RaiseStep
       DEF Progress, SendHeartbeat, LeaveLoop, Blocked, HandlerError,
           CompleteTask, SaveError
<1> QED
  BY <1>1, <1>2, <1>3, <1>4, <1>5 DEF HandlerStep

LEMMA ReclaimContract ==
    ASSUME TimelyInv, NEW w \in Workers,
           NEW expired \in SUBSET Tasks, NEW reset, Reclaim(w, expired, reset),
           \A t \in expired :
              /\ Stuck(rows[t]) \/ BlockOver(rows[t])
              /\ reset[t].status = "PENDING" /\ reset[t].worker_id = NULL
    PROVE  Contract!Next
<1>1. PICK batch \in SUBSET expired :
         rows' = [t \in Tasks |-> IF t \in batch THEN reset[t] ELSE rows[t]]
  BY DEF Reclaim
<1>2. /\ UNCHANGED job /\ pc[w] = "idle" /\ pc'[w] = "requeueing"
      /\ \A v \in Workers \ {w} : pc'[v] = pc[v]
  BY DEF Reclaim, TimelyInv, TypeOK
<1>3. Executors' = Executors
  BY <1>2, SameExecutors DEF Executing
<1>4. \A t \in batch :
         /\ Statuses[t] \in {"RUNNING", "BLOCKED"}
         /\ Executors[t] = {}
  <2> TAKE t \in batch
  <2>1. t \in Tasks /\ (Stuck(rows[t]) \/ BlockOver(rows[t]))
    OBVIOUS
  <2>2. ASSUME NEW v \in Workers, Executing(v), job[v] = t
        PROVE  FALSE
    BY <2>1, <2>2, HeartbeatAgeAssumption
       DEF TimelyInv, WorkerInv, OwnsRow, Stuck, BlockOver, HeartbeatExpired
  <2> QED
    BY <2>1, <2>2 DEF Statuses, Executors, Stuck, BlockOver
<1>5. /\ Statuses' = [t \in Tasks |->
                         IF t \in batch THEN "PENDING" ELSE Statuses[t]]
      /\ Owners' = [t \in Tasks |->
                       IF t \in batch THEN NULL ELSE Owners[t]]
  BY <1>1 DEF Statuses, Owners
<1>6. Contract!Return(batch)
  BY <1>3, <1>4, <1>5 DEF Contract!Return, Statuses, Owners, Executors
<1> QED
  BY <1>6 DEF Contract!Next

LEMMA WatchdogContract ==
    ASSUME TimelyInv, NEW w \in Workers, WatchdogStep(w)
    PROVE  Contract!Next \/ UNCHANGED Contract!vars
<1>1. \A t \in Tasks :
         /\ UnStuck(rows[t]).status = "PENDING"
         /\ UnStuck(rows[t]).worker_id = NULL
         /\ UnBlocked(rows[t]).status = "PENDING"
         /\ UnBlocked(rows[t]).worker_id = NULL
  BY DEF TimelyInv, TypeOK, UnStuck, UnBlocked, TaskRow
<1>2. CASE ReclaimStuck(w)
  BY <1>1, <1>2, ReclaimContract DEF ReclaimStuck
<1>3. CASE ReclaimBlocked(w)
  BY <1>1, <1>3, ReclaimContract DEF ReclaimBlocked
<1>4. CASE LoseRequeue(w) \/ \E t \in Tasks : RequeueTask(w, t)
  <2>1. /\ UNCHANGED <<rows, job>>
        /\ \A v \in Workers : Executing(v)' <=> Executing(v)
    BY <1>4 DEF LoseRequeue, RequeueTask, Executing, TimelyInv, TypeOK
  <2> QED
    BY <2>1, StutterStep DEF Statuses, Owners
<1> QED
  BY <1>2, <1>3, <1>4 DEF WatchdogStep

LEMMA TickContract ==
    ASSUME TimelyInv, Tick
    PROVE  UNCHANGED Contract!vars
<1>1. UNCHANGED <<pc, job>> /\ rows' = [t \in Tasks |-> Aged(rows[t])]
  BY DEF Tick
<1>2. ASSUME NEW t \in Tasks
      PROVE  /\ Aged(rows[t]).status = rows[t].status
             /\ Aged(rows[t]).worker_id = rows[t].worker_id
  BY DEF Aged, TimelyInv, TypeOK, TaskRow
<1>3. Statuses' = Statuses /\ Owners' = Owners
  BY <1>1, <1>2 DEF Statuses, Owners
<1> QED
  BY <1>1, <1>3, StutterStep DEF Executing

LEMMA OtherContract ==
    ASSUME ContractInv,
           \/ \E t \in Tasks : ApiStep(t)
           \/ \E w \in Workers, t \in Tasks : Receive(w, t)
           \/ \E w \in Workers : Crash(w) \/ VisibilityTimeout(w)
    PROVE  Contract!Next \/ UNCHANGED Contract!vars
<1>1. CASE \E t \in Tasks : CreateTask(t)
  BY <1>1, CreateStep
<1>2. CASE \/ \E t \in Tasks : SendTask(t) \/ LoseSend(t)
           \/ \E w \in Workers : VisibilityTimeout(w)
  BY <1>2, StutterStep
     DEF SendTask, LoseSend, VisibilityTimeout, workerVars, Statuses, Owners,
         Executing
<1>3. ASSUME NEW w \in Workers, NEW t \in Tasks, Receive(w, t)
      PROVE  UNCHANGED Contract!vars
  <2>1. /\ UNCHANGED rows
        /\ \A v \in Workers :
              /\ Executing(v)' <=> Executing(v)
              /\ Executing(v) => job'[v] = job[v]
    BY <1>3 DEF Receive, Executing, ContractInv, TimelyInv, TypeOK
  <2> QED
    BY <2>1, StutterStep DEF Statuses, Owners
<1>4. ASSUME NEW w \in Workers, Crash(w)
      PROVE  Contract!Next \/ UNCHANGED Contract!vars
  <2>1. /\ UNCHANGED rows /\ pc'[w] = "idle"
        /\ \A v \in Workers \ {w} : pc'[v] = pc[v] /\ job'[v] = job[v]
    BY <1>4 DEF Crash, ContractInv, TimelyInv, TypeOK
  <2>2. CASE Executing(w)
    BY <2>1, <2>2, AbandonStep DEF ContractInv, Executing
  <2>3. CASE ~Executing(w)
    BY <2>1, <2>3, StutterStep DEF Statuses, Owners, Executing
  <2> QED
    BY <2>2, <2>3
<1> QED
  BY <1>1, <1>2, <1>3, <1>4 DEF ApiStep

LEMMA NextContract ==
    ASSUME ContractInv, [Next]_vars
    PROVE  Contract!Next \/ UNCHANGED Contract!vars
<1>1. CASE UNCHANGED vars
  BY <1>1, StutterStep DEF vars, Statuses, Owners, Executing
<1> QED
  BY <1>1, HandlerContract, WatchdogContract, TickContract, OtherContract
     DEF Next, ContractInv

-----------------------------------------------------------------------------
(* What a step does to one row. *)

RowKept(t) ==
    /\ rows'[t].status = rows[t].status
    /\ rows'[t].worker_id = rows[t].worker_id
    /\ rows'[t].attempts = rows[t].attempts

RowStep(t) ==
    \/ RowKept(t)
    \/ /\ rows[t].status = ABSENT
       /\ rows'[t] = NewTask
    \/ /\ rows[t].status = "PENDING"
       /\ rows'[t].status = "RUNNING"
       /\ rows'[t].attempts \in {rows[t].attempts, rows[t].attempts + 1}
    \/ /\ rows[t].status = "RUNNING"
       /\ rows'[t].status \in Outcomes \cup {"RUNNING"}
       /\ rows'[t].attempts = rows[t].attempts
    \/ /\ rows[t].status \in {"RUNNING", "BLOCKED"}
       /\ rows'[t].status = "PENDING"
       /\ rows'[t].attempts = rows[t].attempts

LEMMA HandlerRows ==
    ASSUME TimelyInv, NEW w \in Workers, HandlerStep(w), NEW t \in Tasks
    PROVE  RowStep(t)
<1>1. CASE ClaimTask(w)
  <2>1. /\ job[w] \in Tasks /\ rows[job[w]].status = "PENDING"
        /\ rows[job[w]] \in TaskRow
        /\ rows' = [rows EXCEPT ![job[w]] = Claimed(rows[job[w]], w)]
    BY <1>1 DEF ClaimTask, Claimable, TimelyInv, TypeOK
  <2>2. ASSUME NEW row \in TaskRow
        PROVE  /\ Claimed(row, w).status = "RUNNING"
               /\ Claimed(row, w).attempts \in {row.attempts, row.attempts + 1}
    BY DEF Claimed, TaskRow
  <2>3. CASE t = job[w]
    BY <2>1, <2>2, <2>3 DEF RowStep, TimelyInv, TypeOK
  <2>4. CASE t # job[w]
    BY <2>1, <2>4 DEF RowStep, RowKept, TimelyInv, TypeOK
  <2> QED
    BY <2>3, <2>4
<1>2. CASE FlushRow(w)
  <2>1. job[w] \in Tasks /\ rows' = [rows EXCEPT ![job[w]] = mem[w]]
    BY <1>2, FlushWrites
  <2>2. /\ rows[job[w]].status = "RUNNING"
        /\ mem[w].status \in Outcomes \cup {"RUNNING"}
        /\ mem[w].attempts = rows[job[w]].attempts
    BY <1>2 DEF FlushRow, Executing, TimelyInv, WorkerInv, OwnsRow,
                ObjectAgrees, ObjectStatus
  <2>3. CASE t = job[w]
    BY <2>1, <2>2, <2>3 DEF RowStep, TimelyInv, TypeOK
  <2>4. CASE t # job[w]
    BY <2>1, <2>4 DEF RowStep, RowKept, TimelyInv, TypeOK
  <2> QED
    BY <2>3, <2>4
<1>3. CASE ~ClaimTask(w) /\ ~FlushRow(w)
  <2>1. UNCHANGED rows
    BY <1>3 DEF HandlerStep, LeaveLoop, NotClaimed, ClaimError, Finish, GetTask,
                GetTaskError, Progress, SendHeartbeat, Blocked, HandlerError,
                CompleteTask, SelectRow, SaveError, Raise, Save
  <2> QED
    BY <2>1 DEF RowStep, RowKept
<1> QED
  BY <1>1, <1>2, <1>3

LEMMA WatchdogRows ==
    ASSUME TimelyInv, NEW w \in Workers, WatchdogStep(w), NEW t \in Tasks
    PROVE  RowStep(t)
<1>1. rows[t] \in TaskRow
  BY DEF TimelyInv, TypeOK
<1>2. /\ UnStuck(rows[t]).status = "PENDING"
      /\ UnStuck(rows[t]).attempts = rows[t].attempts
      /\ UnBlocked(rows[t]).status = "PENDING"
      /\ UnBlocked(rows[t]).attempts = rows[t].attempts
  BY <1>1 DEF UnStuck, UnBlocked, TaskRow
<1>3. CASE ReclaimStuck(w)
  BY <1>2, <1>3 DEF ReclaimStuck, Reclaim, Stuck, RowStep, RowKept
<1>4. CASE ReclaimBlocked(w)
  BY <1>2, <1>4 DEF ReclaimBlocked, Reclaim, BlockOver, RowStep, RowKept
<1>5. CASE LoseRequeue(w) \/ \E u \in Tasks : RequeueTask(w, u)
  BY <1>5 DEF LoseRequeue, RequeueTask, RowStep, RowKept
<1> QED
  BY <1>3, <1>4, <1>5 DEF WatchdogStep

LEMMA NextRows ==
    ASSUME TimelyInv, [Next]_vars, NEW t \in Tasks
    PROVE  RowStep(t)
<1>1. CASE \E u \in Tasks : ApiStep(u)
  BY <1>1 DEF ApiStep, CreateTask, SendTask, LoseSend, RowStep, RowKept,
              TimelyInv, TypeOK
<1>2. CASE Tick
  <2>1. rows[t] \in TaskRow /\ rows'[t] = Aged(rows[t])
    BY <1>2 DEF Tick, TimelyInv, TypeOK
  <2> QED
    BY <2>1 DEF Aged, TaskRow, RowStep, RowKept
<1>3. CASE \/ \E w \in Workers, u \in Tasks : Receive(w, u)
           \/ \E w \in Workers : Crash(w) \/ VisibilityTimeout(w)
           \/ UNCHANGED vars
  <2>1. UNCHANGED rows
    BY <1>3 DEF Receive, Crash, VisibilityTimeout, vars
  <2> QED
    BY <2>1 DEF RowStep, RowKept
<1> QED
  BY <1>1, <1>2, <1>3, HandlerRows, WatchdogRows DEF Next

LEMMA ContractAlways ==
    ASSUME Timely
    PROVE  Spec => []ContractInv
<1>1. Init => ContractInv
  BY InitTimely DEF Init, ContractInv, AbsentIsNew, NoRow, NewTask
<1>2. ContractInv /\ [Next]_vars => ContractInv'
  <2> SUFFICES ASSUME ContractInv, [Next]_vars PROVE ContractInv'
    OBVIOUS
  <2>1. TimelyInv'
    BY TimelyNext DEF ContractInv
  <2>2. ASSUME NEW t \in Tasks, rows'[t].status = ABSENT
        PROVE  rows'[t].worker_id = NULL /\ rows'[t].attempts = 0
    BY <2>2, NextRows
       DEF ContractInv, AbsentIsNew, RowStep, RowKept, NewTask, Outcomes, ABSENT
  <2> QED
    BY <2>1, <2>2 DEF ContractInv, AbsentIsNew
<1> QED
  BY <1>1, <1>2, PTL DEF Spec

-----------------------------------------------------------------------------
(* The heartbeat of RUNNING rows. *)

LEMMA HandlerSeen ==
    ASSUME TimelyInv, RecoverableRow, NEW w \in Workers, HandlerStep(w)
    PROVE  RecoverableRow'
<1>1. CASE ClaimTask(w)
  <2>1. /\ job[w] \in Tasks /\ rows[job[w]] \in TaskRow
        /\ rows' = [rows EXCEPT ![job[w]] = Claimed(rows[job[w]], w)]
    BY <1>1 DEF ClaimTask, TimelyInv, TypeOK
  <2>2. Claimed(rows[job[w]], w).last_heartbeat = 0
    BY <2>1 DEF Claimed, TaskRow
  <2> QED
    BY <2>1, <2>2, NullAssumption DEF RecoverableRow, TimelyInv, TypeOK
<1>2. CASE FlushRow(w)
  <2>1. job[w] \in Tasks /\ rows' = [rows EXCEPT ![job[w]] = mem[w]]
    BY <1>2, FlushWrites
  <2>2. /\ rows[job[w]].last_heartbeat \in 0..MAX_HEARTBEAT_AGE
        /\ mem[w].last_heartbeat \in 0..rows[job[w]].last_heartbeat
    BY <1>2 DEF FlushRow, Executing, TimelyInv, WorkerInv, OwnsRow, ObjectAgrees
  <2>3. mem[w].last_heartbeat # NULL
    BY <2>2, NullAssumption, HeartbeatAgeAssumption
  <2> QED
    BY <2>1, <2>3 DEF RecoverableRow, TimelyInv, TypeOK
<1>3. CASE ~ClaimTask(w) /\ ~FlushRow(w)
  <2>1. UNCHANGED rows
    BY <1>3 DEF HandlerStep, LeaveLoop, NotClaimed, ClaimError, Finish, GetTask,
                GetTaskError, Progress, SendHeartbeat, Blocked, HandlerError,
                CompleteTask, SelectRow, SaveError, Raise, Save
  <2> QED
    BY <2>1 DEF RecoverableRow
<1> QED
  BY <1>1, <1>2, <1>3

LEMMA WatchdogSeen ==
    ASSUME TimelyInv, RecoverableRow, NEW w \in Workers, WatchdogStep(w)
    PROVE  RecoverableRow'
<1>1. ASSUME NEW t \in Tasks
      PROVE  UnStuck(rows[t]).status = "PENDING" /\ UnBlocked(rows[t]).status = "PENDING"
  BY DEF UnStuck, UnBlocked, TaskRow, TimelyInv, TypeOK
<1>2. CASE ReclaimStuck(w)
  BY <1>1, <1>2 DEF ReclaimStuck, Reclaim, RecoverableRow
<1>3. CASE ReclaimBlocked(w)
  BY <1>1, <1>3 DEF ReclaimBlocked, Reclaim, RecoverableRow
<1>4. CASE LoseRequeue(w) \/ \E t \in Tasks : RequeueTask(w, t)
  BY <1>4 DEF LoseRequeue, RequeueTask, RecoverableRow
<1> QED
  BY <1>2, <1>3, <1>4 DEF WatchdogStep

LEMMA SeenNext ==
    ASSUME TimelyInv, RecoverableRow, [Next]_vars
    PROVE  RecoverableRow'
<1>1. CASE \E t \in Tasks : ApiStep(t)
  BY <1>1 DEF ApiStep, CreateTask, SendTask, LoseSend, NewTask, RecoverableRow,
              TimelyInv, TypeOK
<1>2. CASE Tick
  <2> SUFFICES ASSUME NEW t \in Tasks, rows'[t].status = "RUNNING"
               PROVE  rows'[t].last_heartbeat # NULL
    BY DEF RecoverableRow
  <2>1. rows[t] \in TaskRow /\ rows'[t] = Aged(rows[t])
    BY <1>2 DEF Tick, TimelyInv, TypeOK
  <2>2. /\ rows'[t].status = rows[t].status
        /\ rows'[t].last_heartbeat = Older(rows[t].last_heartbeat)
    BY <2>1 DEF Aged, TaskRow
  <2>3. rows[t].last_heartbeat # NULL /\ rows[t].last_heartbeat \in HeartbeatAges
    BY <2>1, <2>2 DEF RecoverableRow, TaskRow
  <2> QED
    BY <2>2, <2>3, NullAssumption, HeartbeatAgeAssumption DEF Older, HeartbeatAges
<1>3. CASE \/ \E w \in Workers, t \in Tasks : Receive(w, t)
           \/ \E w \in Workers : Crash(w) \/ VisibilityTimeout(w)
           \/ UNCHANGED vars
  <2>1. UNCHANGED rows
    BY <1>3 DEF Receive, Crash, VisibilityTimeout, vars
  <2> QED
    BY <2>1 DEF RecoverableRow
<1> QED
  BY <1>1, <1>2, <1>3, HandlerSeen, WatchdogSeen DEF Next

\* With timely heartbeats every RUNNING row has a heartbeat, so that the
\* watchdog finds it once its executor is gone (repositories.py, reclaim_stuck).
THEOREM RunningRowsAreSeen ==
    ASSUME Timely
    PROVE  Spec => []RecoverableRow
<1>1. Init => RecoverableRow
  BY DEF Init, NoRow, NewTask, ABSENT, RecoverableRow
<1>2. TimelyInv /\ RecoverableRow /\ [Next]_vars => RecoverableRow'
  BY SeenNext
<1> QED
  BY <1>1, <1>2, TimelyAlways, PTL DEF Spec

-----------------------------------------------------------------------------
(* The action properties and the contract. *)

\* With timely heartbeats SUCCESS and FAILED are final: no old object is
\* written over an outcome (repositories.py, update).
THEOREM OutcomesAreFinal ==
    ASSUME Timely
    PROVE  Spec => TerminalIsFinal
<1>1. ContractInv /\ [Next]_vars =>
         [\A t \in Tasks :
             rows[t].status \in Terminal => rows'[t].status = rows[t].status]_rows
  BY NextRows DEF ContractInv, RowStep, RowKept, Terminal, ABSENT
<1> QED
  BY <1>1, ContractAlways, PTL DEF Spec, TerminalIsFinal

\* With timely heartbeats attempts changes only by one, and only when a
\* PENDING row becomes RUNNING: no flush loses or invents a claim.
THEOREM ClaimsAreCounted ==
    ASSUME Timely
    PROVE  Spec => AttemptsCountClaims
<1>1. ContractInv /\ [Next]_vars =>
         [\A t \in Tasks :
             rows'[t].attempts # rows[t].attempts =>
                 /\ rows[t].status = "PENDING"
                 /\ rows'[t].status = "RUNNING"
                 /\ rows'[t].attempts = rows[t].attempts + 1]_rows
  BY NextRows DEF ContractInv, AbsentIsNew, RowStep, RowKept, NewTask
<1> QED
  BY <1>1, ContractAlways, PTL DEF Spec, AttemptsCountClaims

\* With timely heartbeats the table, the broker, the workers and the watchdog
\* together implement TaskContract, with status and owner read from the rows
\* and the executors from the workers' positions.
THEOREM ImplementsContract ==
    ASSUME Timely
    PROVE  Spec => ContractSpec
<1>1. Init => Contract!Init
  BY DEF Init, Contract!Init, NoRow, NewTask, ABSENT, Executing
<1>2. ContractInv /\ [Next]_vars => [Contract!Next]_(Contract!vars)
  BY NextContract
<1> QED
  BY <1>1, <1>2, ContractAlways, PTL DEF Spec, ContractSpec, Contract!Spec
=============================================================================
