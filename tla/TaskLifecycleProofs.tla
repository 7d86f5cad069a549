------------------------- MODULE TaskLifecycleProofs -------------------------
(* Proofs about TaskLifecycle for every value of its constants. *)
EXTENDS TaskLifecycle, TLAPS

LEMMA NewTaskType == NewTask \in TaskRow /\ NoRow \in TaskRow
BY HeartbeatAgeAssumption, MaxAttemptsAssumption
   DEF NewTask, NoRow, TaskRow, TaskStatus, ABSENT

LEMMA OlderType ==
    ASSUME NEW age \in HeartbeatAges \cup {NULL}
    PROVE  Older(age) \in HeartbeatAges \cup {NULL}
BY HeartbeatAgeAssumption, NullAssumption DEF Older, HeartbeatAges

LEMMA NearerType ==
    ASSUME NEW left \in Nat \cup {NULL}
    PROVE  Nearer(left) \in Nat \cup {NULL}
BY NullAssumption DEF Nearer

LEMMA AgedType ==
    ASSUME NEW task \in TaskRow
    PROVE  Aged(task) \in TaskRow /\ Aged(task).status = task.status
BY OlderType, NearerType DEF Aged, TaskRow

LEMMA FlushedType ==
    ASSUME NEW row \in TaskRow, NEW sel \in TaskRow, NEW task \in TaskRow,
           NEW apart
    PROVE  Flushed(row, sel, task, apart) \in TaskRow
BY DEF Flushed, TaskRow

LEMMA ClaimedType ==
    ASSUME NEW row \in TaskRow, NEW w \in Workers
    PROVE  Claimed(row, w) \in TaskRow
<1>1. 0 \in HeartbeatAges
  BY HeartbeatAgeAssumption DEF HeartbeatAges
<1>2. row.attempts \in 0..MaxAttempts
  BY DEF TaskRow
<1>3. (IF row.attempts < MaxAttempts THEN row.attempts + 1 ELSE row.attempts)
         \in 0..MaxAttempts
  BY <1>2, MaxAttemptsAssumption
<1> QED
  BY <1>1, <1>3 DEF Claimed, TaskRow, TaskStatus

LEMMA HeartbeatType ==
    ASSUME NEW task \in TaskRow
    PROVE  Heartbeat(task) \in TaskRow /\ Heartbeat(task).status = task.status
BY HeartbeatAgeAssumption DEF Heartbeat, TaskRow, HeartbeatAges

LEMMA CompleteType ==
    ASSUME NEW task \in TaskRow
    PROVE  Complete(task) \in TaskRow /\ Complete(task).status = "SUCCESS"
BY DEF Complete, TaskRow, TaskStatus

LEMMA FailType ==
    ASSUME NEW task \in TaskRow, NEW err \in {"block", "short_block", "other"}
    PROVE  Fail(task, err) \in TaskRow /\ Fail(task, err).status = "FAILED"
BY DEF Fail, TaskRow, TaskStatus

LEMMA BlockType ==
    ASSUME NEW task \in TaskRow, NEW retryAfter \in RetryAfters
    PROVE  /\ Block(task, retryAfter) \in TaskRow
           /\ Block(task, retryAfter).status = "BLOCKED"
BY LifecycleAssumption DEF Block, TaskRow, TaskStatus

LEMMA ReclaimedType ==
    ASSUME NEW row \in TaskRow
    PROVE  UnStuck(row) \in TaskRow /\ UnBlocked(row) \in TaskRow
BY DEF UnStuck, UnBlocked, TaskRow, TaskStatus

Queues == [Tasks -> 0..MaxQueued]

LEMMA WithMessageFact ==
    ASSUME NEW q \in Queues, NEW t \in Tasks
    PROVE  /\ WithMessage(q, t) \in Queues
           /\ WithMessage(q, t)[t] > 0
           /\ \A u \in Tasks : q[u] > 0 => WithMessage(q, t)[u] > 0
BY LifecycleAssumption DEF WithMessage, Queues

LEMMA FaultType ==
    ASSUME NEW kind, faults \in 0..MaxFaults, Fault(kind)
    PROVE  faults' \in 0..MaxFaults
BY LifecycleAssumption DEF Fault

\* What the operators shared by the handler's actions preserve.
LEMMA SaveType ==
    ASSUME TypeOK, NEW w \in Workers, job[w] \in Tasks,
           NEW task \in TaskRow, Save(w, task), faults' \in 0..MaxFaults
    PROVE  TypeOK'
BY NewTaskType DEF Save, TypeOK, WorkerStates

LEMMA LeaveType ==
    ASSUME TypeOK, NEW w \in Workers, job[w] \in Tasks, Leave(w)
    PROVE  /\ pc' \in [Workers -> WorkerStates]
           /\ mem' \in [Workers -> TaskRow]
           /\ selected' \in [Workers -> TaskRow]
           /\ \A v \in Workers :
                 pc'[v] \notin {"idle", "requeueing"} \/ held[v]
                     => job[v] \in Tasks
BY NewTaskType DEF Leave, TypeOK, WorkerStates

LEMMA RaiseType ==
    ASSUME TypeOK, NEW w \in Workers, job[w] \in Tasks,
           NEW err \in {"block", "short_block", "other"},
           Raise(w, err), faults' \in 0..MaxFaults
    PROVE  TypeOK'
<1>1. mem[w] \in TaskRow
  BY DEF TypeOK
<1>2. Fail(mem[w], err) \in TaskRow
  BY <1>1, FailType
<1>3. CASE Save(w, Fail(mem[w], err))
  BY <1>2, <1>3, SaveType
<1>4. CASE Leave(w) /\ UNCHANGED <<rows, queue, unsent, job, held, requeue>>
  <2>1. /\ pc' \in [Workers -> WorkerStates]
        /\ mem' \in [Workers -> TaskRow]
        /\ selected' \in [Workers -> TaskRow]
        /\ \A v \in Workers :
              pc'[v] \notin {"idle", "requeueing"} \/ held[v] => job[v] \in Tasks
    BY <1>4, LeaveType
  <2> QED
    BY <1>4, <2>1 DEF TypeOK
<1> QED
  BY <1>3, <1>4 DEF Raise

LEMMA ReclaimType ==
    ASSUME TypeOK, NEW w \in Workers, NEW expired \in SUBSET Tasks,
           NEW reset \in [Tasks -> TaskRow], Reclaim(w, expired, reset)
    PROVE  TypeOK'
<1>1. PICK batch \in SUBSET expired :
         /\ rows' = [t \in Tasks |-> IF t \in batch THEN reset[t] ELSE rows[t]]
         /\ requeue' = [requeue EXCEPT ![w] = batch]
  BY DEF Reclaim
<1>2. rows' \in [Tasks -> TaskRow] /\ requeue' \in [Workers -> SUBSET Tasks]
  BY <1>1 DEF TypeOK
<1> QED
  BY <1>2 DEF Reclaim, TypeOK, WorkerStates

-----------------------------------------------------------------------------
(* Type correctness. *)

LEMMA InitType == Init => TypeOK
BY NewTaskType, LifecycleAssumption
   DEF Init, TypeOK, WorkerStates

LEMMA ApiType ==
    ASSUME TypeOK, NEW t \in Tasks, ApiStep(t)
    PROVE  TypeOK'
<1>1. CASE CreateTask(t)
  BY <1>1, NewTaskType DEF CreateTask, workerVars, TypeOK
<1>2. CASE SendTask(t)
  BY <1>2, WithMessageFact DEF SendTask, workerVars, TypeOK, Queues
<1>3. CASE LoseSend(t)
  BY <1>3, FaultType DEF LoseSend, workerVars, TypeOK
<1> QED
  BY <1>1, <1>2, <1>3 DEF ApiStep

LEMMA ReceiveType ==
    ASSUME TypeOK, NEW w \in Workers, NEW t \in Tasks, Receive(w, t)
    PROVE  TypeOK'
<1>1. queue' \in [Tasks -> 0..MaxQueued]
  BY LifecycleAssumption DEF Receive, TypeOK
<1> QED
  BY <1>1 DEF Receive, TypeOK, WorkerStates

LEMMA HandlerType ==
    ASSUME TypeOK, NEW w \in Workers, HandlerStep(w)
    PROVE  TypeOK'
<1> USE DEF TypeOK, WorkerStates
<1>1. CASE ClaimTask(w)
  <2>1. job[w] \in Tasks
    BY <1>1 DEF ClaimTask
  <2>2. Claimed(rows[job[w]], w) \in TaskRow
    BY <2>1, ClaimedType
  <2> QED
    BY <1>1, <2>1, <2>2 DEF ClaimTask
<1>2. CASE NotClaimed(w)
  BY <1>2 DEF NotClaimed
<1>3. CASE ClaimError(w)
  BY <1>3, FaultType DEF ClaimError
<1>4. CASE Finish(w)
  BY <1>4 DEF Finish
<1>5. CASE GetTask(w)
  BY <1>5 DEF GetTask
<1>6. CASE GetTaskError(w)
  BY <1>6, FaultType, LeaveType DEF GetTaskError
<1>7. CASE Progress(w)
  BY <1>7, SaveType DEF Progress
<1>8. CASE SendHeartbeat(w)
  <2>1. Heartbeat(mem[w]) \in TaskRow
    BY HeartbeatType
  <2> QED
    BY <1>8, <2>1, SaveType DEF SendHeartbeat
<1>9. CASE LeaveLoop(w)
  <2>1. ASSUME NEW r \in RetryAfters, Blocked(w, r)
        PROVE  TypeOK'
    <3>1. Block(mem[w], r) \in TaskRow
      BY BlockType
    <3>2. faults' \in 0..MaxFaults /\ job[w] \in Tasks
      BY <2>1 DEF Blocked
    <3>3. Save(w, Block(mem[w], r)) \/ Raise(w, "short_block")
      BY <2>1 DEF Blocked
    <3>4. TypeOK
      OBVIOUS
    <3> HIDE DEF TypeOK
    <3> QED
      BY <3>1, <3>2, <3>3, <3>4, SaveType, RaiseType
  <2>2. CASE HandlerError(w)
    <3>1. faults' \in 0..MaxFaults /\ job[w] \in Tasks
      BY <2>2 DEF HandlerError
    <3>2. Raise(w, "other")
      BY <2>2 DEF HandlerError
    <3> QED
      BY <3>1, <3>2, RaiseType
  <2>3. CASE CompleteTask(w)
    <3>1. Complete(mem[w]) \in TaskRow
      BY CompleteType
    <3> QED
      BY <2>3, <3>1, SaveType DEF CompleteTask
  <2> QED
    BY <1>9, <2>1, <2>2, <2>3 DEF LeaveLoop
<1>10. CASE SelectRow(w)
  BY <1>10 DEF SelectRow
<1>11. CASE FlushRow(w)
  <2>1. job[w] \in Tasks
    BY <1>11 DEF FlushRow
  <2>2. PICK apart \in SUBSET InstantColumns :
           rows' = [rows EXCEPT ![job[w]] =
                       Flushed(@, selected[w], mem[w], apart)]
    BY <1>11 DEF FlushRow
  <2>3. Flushed(rows[job[w]], selected[w], mem[w], apart) \in TaskRow
    BY <2>1, FlushedType
  <2>4. rows' \in [Tasks -> TaskRow]
    BY <2>1, <2>2, <2>3
  <2> QED
    BY <1>11, <2>1, <2>4, LeaveType, NewTaskType DEF FlushRow
<1>12. CASE SaveError(w)
  <2>1. faults' \in 0..MaxFaults /\ job[w] \in Tasks
    BY <1>12, FaultType DEF SaveError
  <2>2. Raise(w, "other")
    BY <1>12 DEF SaveError
  <2> QED
    BY <2>1, <2>2, RaiseType
<1> QED
  BY <1>1, <1>2, <1>3, <1>4, <1>5, <1>6, <1>7, <1>8, <1>9, <1>10, <1>11, <1>12
     DEF HandlerStep

LEMMA WatchdogType ==
    ASSUME TypeOK, NEW w \in Workers, WatchdogStep(w)
    PROVE  TypeOK'
<1>1. CASE ReclaimStuck(w)
  <2>1. [t \in Tasks |-> UnStuck(rows[t])] \in [Tasks -> TaskRow]
    BY ReclaimedType DEF TypeOK
  <2> QED
    BY <1>1, <2>1, ReclaimType DEF ReclaimStuck
<1>2. CASE ReclaimBlocked(w)
  <2>1. [t \in Tasks |-> UnBlocked(rows[t])] \in [Tasks -> TaskRow]
    BY ReclaimedType DEF TypeOK
  <2> QED
    BY <1>2, <2>1, ReclaimType DEF ReclaimBlocked
<1>3. ASSUME NEW t \in Tasks, RequeueTask(w, t)
      PROVE  TypeOK'
  <2>1. queue' \in Queues
    BY <1>3, WithMessageFact DEF RequeueTask, TypeOK, Queues
  <2> QED
    BY <1>3, <2>1 DEF RequeueTask, TypeOK, WorkerStates, Queues
<1>4. CASE LoseRequeue(w)
  BY <1>4, FaultType DEF LoseRequeue, TypeOK, WorkerStates
<1> QED
  BY <1>1, <1>2, <1>3, <1>4 DEF WatchdogStep

LEMMA EnvironmentType ==
    ASSUME TypeOK,
           \/ Tick
           \/ \E w \in Workers : Crash(w) \/ VisibilityTimeout(w)
    PROVE  TypeOK'
<1>1. CASE Tick
  BY <1>1, AgedType DEF Tick, TypeOK
<1>2. ASSUME NEW w \in Workers, Crash(w)
      PROVE  TypeOK'
  <2>1. job[w] \in Tasks
    BY <1>2 DEF Crash, TypeOK
  <2>2. queue' \in [Tasks -> 0..MaxQueued]
    BY <1>2, <2>1, WithMessageFact DEF Crash, Redelivered, TypeOK, Queues
  <2> QED
    BY <1>2, <2>2, FaultType, NewTaskType DEF Crash, TypeOK, WorkerStates
<1>3. ASSUME NEW w \in Workers, VisibilityTimeout(w)
      PROVE  TypeOK'
  BY <1>3, FaultType, WithMessageFact
     DEF VisibilityTimeout, Redelivered, TypeOK, Queues
<1> QED
  BY <1>1, <1>2, <1>3

LEMMA NextType == TypeOK /\ [Next]_vars => TypeOK'
<1> SUFFICES ASSUME TypeOK, [Next]_vars
             PROVE  TypeOK'
  OBVIOUS
<1>1. CASE Next
  BY <1>1, ApiType, ReceiveType, HandlerType, WatchdogType, EnvironmentType
     DEF Next
<1>2. CASE UNCHANGED vars
  BY <1>2 DEF vars, TypeOK
<1> QED
  BY <1>1, <1>2

\* In every reachable state the table, the broker's queue and the workers'
\* objects have their types: rows keep to the five statuses and to the columns'
\* domains whatever flushes of overtaken workers interleave (repositories.py).
THEOREM TypeCorrect == Spec => []TypeOK
BY InitType, NextType, PTL DEF Spec

-----------------------------------------------------------------------------
(* No PENDING task is stranded.                                            *)
(*                                                                         *)
(* NoStrandedTask is not inductive.  A worker that received a message may  *)
(* die, and only a message the broker still holds comes back: the copy     *)
(* that matters is a held one.  And a row could become PENDING by a flush  *)
(* of an object that is PENDING: a handler never saves one.                *)

Sure(t) ==
    \/ t \in unsent
    \/ queue[t] > 0
    \/ \E w \in Workers : pc[w] = "received" /\ job[w] = t /\ held[w]
    \/ \E w \in Workers : t \in requeue[w]

PendingIsSure == \A t \in Tasks : rows[t].status = "PENDING" => Sure(t)

SavedIsNotPending ==
    \A w \in Workers :
        pc[w] \in {"saving", "flushing"} => mem[w].status # "PENDING"

\* Only a worker that sends again has tasks to send again.
RequeueWhenRequeueing ==
    \A w \in Workers : requeue[w] # {} => pc[w] = "requeueing"

StrandedInv ==
    /\ TypeOK
    /\ PendingIsSure
    /\ SavedIsNotPending
    /\ RequeueWhenRequeueing

NothingLost == Faults \cap {"claim_db", "lost_send"} = {}

LEMMA StrandedInit == Init => StrandedInv
BY InitType
   DEF Init, StrandedInv, PendingIsSure, SavedIsNotPending,
       RequeueWhenRequeueing, NoRow, NewTask, ABSENT

\* The steps that leave rows, queue, unsent and every received message alone
\* keep the messages of PENDING tasks.
LEMMA SureFrame ==
    ASSUME TypeOK, PendingIsSure, rows' = rows, unsent' = unsent,
           \A t \in Tasks : queue[t] > 0 => queue'[t] > 0,
           \A v \in Workers : requeue[v] \subseteq requeue'[v],
           \A v \in Workers :
               pc[v] = "received" /\ held[v] /\ rows[job[v]].status = "PENDING"
                   => \/ pc'[v] = "received" /\ job'[v] = job[v] /\ held'[v]
                      \/ queue'[job[v]] > 0
    PROVE  PendingIsSure'
BY DEF PendingIsSure, Sure

LEMMA SaveSure ==
    ASSUME StrandedInv, NEW w \in Workers, pc[w] # "received",
           pc[w] # "requeueing",
           NEW task \in TaskRow, task.status # "PENDING", Save(w, task)
    PROVE  PendingIsSure' /\ SavedIsNotPending' /\ RequeueWhenRequeueing'
<1>1. PendingIsSure'
  BY SureFrame DEF Save, StrandedInv, TypeOK
<1>2. SavedIsNotPending' /\ RequeueWhenRequeueing'
  BY DEF Save, StrandedInv, SavedIsNotPending, RequeueWhenRequeueing, TypeOK
<1> QED
  BY <1>1, <1>2

LEMMA RaiseSure ==
    ASSUME StrandedInv, NEW w \in Workers, pc[w] # "received",
           pc[w] # "requeueing",
           NEW err \in {"block", "short_block", "other"}, Raise(w, err)
    PROVE  PendingIsSure' /\ SavedIsNotPending' /\ RequeueWhenRequeueing'
<1>1. mem[w] \in TaskRow
  BY DEF StrandedInv, TypeOK
<1>2. CASE Save(w, Fail(mem[w], err))
  <2>1. Fail(mem[w], err) \in TaskRow /\ Fail(mem[w], err).status # "PENDING"
    BY <1>1, FailType
  <2> QED
    BY <1>2, <2>1, SaveSure
<1>3. CASE Leave(w) /\ UNCHANGED <<rows, queue, unsent, job, held, requeue>>
  <2>1. PendingIsSure'
    BY <1>3, SureFrame DEF Leave, StrandedInv, TypeOK
  <2>2. SavedIsNotPending' /\ RequeueWhenRequeueing'
    BY <1>3 DEF Leave, StrandedInv, SavedIsNotPending, RequeueWhenRequeueing,
                TypeOK
  <2> QED
    BY <2>1, <2>2
<1> QED
  BY <1>2, <1>3 DEF Raise

LEMMA HandlerSure ==
    ASSUME NothingLost, StrandedInv, NEW w \in Workers, HandlerStep(w)
    PROVE  PendingIsSure' /\ SavedIsNotPending' /\ RequeueWhenRequeueing'
<1> USE DEF StrandedInv
<1>1. CASE ClaimTask(w)
  <2>1. job[w] \in Tasks /\ rows[job[w]] \in TaskRow
    BY <1>1 DEF ClaimTask, TypeOK
  <2>2. rows' = [rows EXCEPT ![job[w]] = Claimed(rows[job[w]], w)]
    BY <1>1 DEF ClaimTask
  <2>3. rows'[job[w]].status = "RUNNING"
    BY <2>1, <2>2 DEF Claimed, TypeOK, TaskRow
  <2>4. \A t \in Tasks \ {job[w]} : rows'[t] = rows[t]
    BY <2>2 DEF TypeOK
  <2>5. \A t \in Tasks : Sure(t) => Sure(t)' \/ t = job[w]
    BY <1>1 DEF ClaimTask, Sure, TypeOK
  <2>6. PendingIsSure'
    BY <2>3, <2>4, <2>5 DEF PendingIsSure
  <2>7. SavedIsNotPending' /\ RequeueWhenRequeueing'
    BY <1>1 DEF ClaimTask, SavedIsNotPending, RequeueWhenRequeueing, TypeOK
  <2> QED
    BY <2>6, <2>7
<1>2. CASE NotClaimed(w)
  <2>1. PendingIsSure'
    BY <1>2, SureFrame DEF NotClaimed, Claimable, TypeOK
  <2> QED
    BY <1>2, <2>1
       DEF NotClaimed, SavedIsNotPending, RequeueWhenRequeueing, TypeOK
<1>3. ~ClaimError(w)
  BY DEF ClaimError, Fault, NothingLost
<1>4. CASE Finish(w)
  <2>1. PendingIsSure'
    BY <1>4, SureFrame DEF Finish, TypeOK
  <2> QED
    BY <1>4, <2>1 DEF Finish, SavedIsNotPending, RequeueWhenRequeueing, TypeOK
<1>5. CASE GetTask(w)
  <2>1. PendingIsSure'
    BY <1>5, SureFrame DEF GetTask, TypeOK
  <2> QED
    BY <1>5, <2>1 DEF GetTask, SavedIsNotPending, RequeueWhenRequeueing, TypeOK
<1>6. CASE GetTaskError(w)
  <2>1. PendingIsSure'
    BY <1>6, SureFrame DEF GetTaskError, Leave, TypeOK
  <2> QED
    BY <1>6, <2>1 DEF GetTaskError, Leave, SavedIsNotPending,
                      RequeueWhenRequeueing, TypeOK
<1>7. CASE Progress(w)
  <2>1. mem[w] \in TaskRow
    BY DEF TypeOK
  <2> QED
    BY <1>7, <2>1, SaveSure DEF Progress, IsRunning
<1>8. CASE SendHeartbeat(w)
  <2>1. /\ Heartbeat(mem[w]) \in TaskRow
        /\ Heartbeat(mem[w]).status = mem[w].status
    BY HeartbeatType DEF TypeOK
  <2> QED
    BY <1>8, <2>1, SaveSure DEF SendHeartbeat, IsRunning
<1>9. CASE LeaveLoop(w)
  <2>1. ASSUME NEW r \in RetryAfters, Blocked(w, r)
        PROVE  PendingIsSure' /\ SavedIsNotPending' /\ RequeueWhenRequeueing'
    <3>1. /\ Block(mem[w], r) \in TaskRow
          /\ Block(mem[w], r).status # "PENDING"
      BY BlockType DEF TypeOK
    <3>2. Save(w, Block(mem[w], r)) \/ Raise(w, "short_block")
      BY <2>1 DEF Blocked
    <3>3. pc[w] = "running"
      BY <2>1 DEF Blocked
    <3> QED
      BY <3>1, <3>2, <3>3, SaveSure, RaiseSure
  <2>2. CASE HandlerError(w)
    BY <2>2, RaiseSure DEF HandlerError
  <2>3. CASE CompleteTask(w)
    <3>1. /\ Complete(mem[w]) \in TaskRow
          /\ Complete(mem[w]).status # "PENDING"
      BY CompleteType DEF TypeOK
    <3> QED
      BY <2>3, <3>1, SaveSure DEF CompleteTask
  <2> QED
    BY <1>9, <2>1, <2>2, <2>3 DEF LeaveLoop
<1>10. CASE SelectRow(w)
  <2>1. PendingIsSure'
    BY <1>10, SureFrame DEF SelectRow, TypeOK
  <2> QED
    BY <1>10, <2>1
       DEF SelectRow, SavedIsNotPending, RequeueWhenRequeueing, TypeOK
<1>11. CASE FlushRow(w)
  <2>1. /\ job[w] \in Tasks
        /\ rows[job[w]] \in TaskRow
        /\ mem[w].status # "PENDING"
        /\ pc[w] = "flushing"
    BY <1>11 DEF FlushRow, TypeOK, SavedIsNotPending
  <2>2. PICK apart \in SUBSET InstantColumns :
           rows' = [rows EXCEPT ![job[w]] =
                       Flushed(@, selected[w], mem[w], apart)]
    BY <1>11 DEF FlushRow
  <2>3. Flushed(rows[job[w]], selected[w], mem[w], apart).status = "PENDING"
           => rows[job[w]].status = "PENDING"
    BY <2>1 DEF Flushed, TaskRow, InstantColumns
  <2>4. \A t \in Tasks :
           rows'[t].status = "PENDING" => rows[t].status = "PENDING"
    BY <2>1, <2>2, <2>3 DEF TypeOK
  <2>5. \A t \in Tasks : Sure(t) => Sure(t)'
    BY <1>11, <2>1 DEF FlushRow, Leave, Sure, TypeOK
  <2>6. PendingIsSure'
    BY <2>4, <2>5 DEF PendingIsSure
  <2>7. SavedIsNotPending' /\ RequeueWhenRequeueing'
    BY <1>11 DEF FlushRow, Leave, SavedIsNotPending, RequeueWhenRequeueing,
                 TypeOK
  <2> QED
    BY <2>6, <2>7
<1>12. CASE SaveError(w)
  BY <1>12, RaiseSure DEF SaveError
<1> QED
  BY <1>1, <1>2, <1>3, <1>4, <1>5, <1>6, <1>7, <1>8, <1>9, <1>10, <1>11, <1>12
     DEF HandlerStep

LEMMA ReclaimSure ==
    ASSUME StrandedInv, NEW w \in Workers, NEW expired \in SUBSET Tasks,
           NEW reset, Reclaim(w, expired, reset)
    PROVE  PendingIsSure' /\ SavedIsNotPending' /\ RequeueWhenRequeueing'
<1>1. PICK batch \in SUBSET expired :
         /\ rows' = [t \in Tasks |-> IF t \in batch THEN reset[t] ELSE rows[t]]
         /\ requeue' = [requeue EXCEPT ![w] = batch]
  BY DEF Reclaim
<1>2. requeue[w] = {}
  BY DEF Reclaim, StrandedInv, RequeueWhenRequeueing
<1>3. \A t \in batch : Sure(t)'
  BY <1>1 DEF Sure, StrandedInv, TypeOK
<1>4. \A t \in Tasks : Sure(t) => Sure(t)'
  BY <1>1, <1>2 DEF Reclaim, Sure, StrandedInv, TypeOK
<1>5. PendingIsSure'
  BY <1>1, <1>3, <1>4 DEF PendingIsSure, StrandedInv
<1> QED
  BY <1>1, <1>5 DEF Reclaim, StrandedInv, SavedIsNotPending,
                    RequeueWhenRequeueing, TypeOK

LEMMA WatchdogSure ==
    ASSUME NothingLost, StrandedInv, NEW w \in Workers, WatchdogStep(w)
    PROVE  PendingIsSure' /\ SavedIsNotPending' /\ RequeueWhenRequeueing'
<1>1. CASE ReclaimStuck(w)
  BY <1>1, ReclaimSure DEF ReclaimStuck
<1>2. CASE ReclaimBlocked(w)
  BY <1>2, ReclaimSure DEF ReclaimBlocked
<1>3. ASSUME NEW t \in Tasks, RequeueTask(w, t)
      PROVE  PendingIsSure' /\ SavedIsNotPending' /\ RequeueWhenRequeueing'
  <2>1. /\ queue'[t] > 0
        /\ \A u \in Tasks : queue[u] > 0 => queue'[u] > 0
    BY <1>3, WithMessageFact DEF RequeueTask, StrandedInv, TypeOK, Queues
  <2>2. \A u \in Tasks : Sure(u) => Sure(u)'
    BY <1>3, <2>1 DEF RequeueTask, Sure, StrandedInv, TypeOK
  <2>3. PendingIsSure'
    BY <1>3, <2>2 DEF RequeueTask, PendingIsSure, StrandedInv
  <2> QED
    BY <1>3, <2>3 DEF RequeueTask, StrandedInv, SavedIsNotPending,
                      RequeueWhenRequeueing, TypeOK
<1>4. ~LoseRequeue(w)
  BY DEF LoseRequeue, Fault, NothingLost
<1> QED
  BY <1>1, <1>2, <1>3, <1>4 DEF WatchdogStep

LEMMA OtherSure ==
    ASSUME NothingLost, StrandedInv,
           \/ \E t \in Tasks : ApiStep(t)
           \/ \E w \in Workers, t \in Tasks : Receive(w, t)
           \/ \E w \in Workers : Crash(w) \/ VisibilityTimeout(w)
           \/ Tick
    PROVE  PendingIsSure' /\ SavedIsNotPending' /\ RequeueWhenRequeueing'
<1> USE DEF StrandedInv
<1>1. ASSUME NEW t \in Tasks, CreateTask(t)
      PROVE  PendingIsSure' /\ SavedIsNotPending' /\ RequeueWhenRequeueing'
  BY <1>1 DEF CreateTask, workerVars, PendingIsSure, Sure, SavedIsNotPending,
              RequeueWhenRequeueing, TypeOK
<1>2. ASSUME NEW t \in Tasks, SendTask(t)
      PROVE  PendingIsSure' /\ SavedIsNotPending' /\ RequeueWhenRequeueing'
  <2>1. /\ queue'[t] > 0
        /\ \A u \in Tasks : queue[u] > 0 => queue'[u] > 0
    BY <1>2, WithMessageFact DEF SendTask, TypeOK, Queues
  <2> QED
    BY <1>2, <2>1 DEF SendTask, workerVars, PendingIsSure, Sure,
                      SavedIsNotPending, RequeueWhenRequeueing
<1>3. ASSUME NEW t \in Tasks, LoseSend(t)
      PROVE  FALSE
  BY <1>3 DEF LoseSend, Fault, NothingLost
<1>4. ASSUME NEW w \in Workers, NEW t \in Tasks, Receive(w, t)
      PROVE  PendingIsSure' /\ SavedIsNotPending' /\ RequeueWhenRequeueing'
  <2>1. \A u \in Tasks : Sure(u) => Sure(u)'
    BY <1>4 DEF Receive, Sure, TypeOK
  <2> QED
    BY <1>4, <2>1 DEF Receive, PendingIsSure, SavedIsNotPending,
                      RequeueWhenRequeueing, TypeOK
<1>5. ASSUME NEW w \in Workers, Crash(w)
      PROVE  PendingIsSure' /\ SavedIsNotPending' /\ RequeueWhenRequeueing'
  <2>1. /\ held[w] => queue'[job[w]] > 0
        /\ \A u \in Tasks : queue[u] > 0 => queue'[u] > 0
    BY <1>5, WithMessageFact DEF Crash, Redelivered, TypeOK, Queues
  <2>2. PendingIsSure'
    BY <1>5, <2>1 DEF Crash, PendingIsSure, Sure, TypeOK
  <2> QED
    BY <1>5, <2>2 DEF Crash, SavedIsNotPending, RequeueWhenRequeueing, TypeOK
<1>6. ASSUME NEW w \in Workers, VisibilityTimeout(w)
      PROVE  PendingIsSure' /\ SavedIsNotPending' /\ RequeueWhenRequeueing'
  <2>1. /\ queue'[job[w]] > 0
        /\ \A u \in Tasks : queue[u] > 0 => queue'[u] > 0
    BY <1>6, WithMessageFact DEF VisibilityTimeout, Redelivered, TypeOK, Queues
  <2>2. PendingIsSure'
    BY <1>6, <2>1 DEF VisibilityTimeout, PendingIsSure, Sure, TypeOK
  <2> QED
    BY <1>6, <2>2 DEF VisibilityTimeout, SavedIsNotPending,
                      RequeueWhenRequeueing
<1>7. CASE Tick
  <2>1. \A t \in Tasks : rows'[t].status = rows[t].status
    BY <1>7, AgedType DEF Tick, TypeOK
  <2>2. \A w \in Workers : mem'[w].status = mem[w].status
    BY <1>7, AgedType DEF Tick, TypeOK
  <2> QED
    BY <1>7, <2>1, <2>2 DEF Tick, PendingIsSure, Sure, SavedIsNotPending,
                            RequeueWhenRequeueing
<1> QED
  BY <1>1, <1>2, <1>3, <1>4, <1>5, <1>6, <1>7 DEF ApiStep

LEMMA StrandedNext == NothingLost /\ StrandedInv /\ [Next]_vars => StrandedInv'
<1> SUFFICES ASSUME NothingLost, StrandedInv, [Next]_vars
             PROVE  StrandedInv'
  OBVIOUS
<1>1. TypeOK'
  BY NextType DEF StrandedInv
<1>2. CASE Next
  <2>1. PendingIsSure' /\ SavedIsNotPending' /\ RequeueWhenRequeueing'
    BY <1>2, HandlerSure, WatchdogSure, OtherSure DEF Next
  <2> QED
    BY <1>1, <2>1 DEF StrandedInv
<1>3. CASE UNCHANGED vars
  BY <1>1, <1>3 DEF vars, StrandedInv, PendingIsSure, Sure, SavedIsNotPending,
                    RequeueWhenRequeueing
<1> QED
  BY <1>2, <1>3

\* A PENDING task always has a message, or a process about to send one,
\* whatever crashes, redeliveries, stalls and failed updates interleave, as
\* long as no claim transaction fails and no send is lost: the two faults the
\* code does not survive (celery_tasks.py, watchdog.py, download_handler.py).
THEOREM NoTaskIsStranded ==
    ASSUME NothingLost
    PROVE  Spec => []NoStrandedTask
<1>1. StrandedInv => NoStrandedTask
  BY DEF StrandedInv, PendingIsSure, Sure, NoStrandedTask, OnItsWay
<1>2. StrandedInv /\ [Next]_vars => StrandedInv'
  BY StrandedNext
<1> QED
  BY <1>1, <1>2, StrandedInit, PTL DEF Spec
=============================================================================
