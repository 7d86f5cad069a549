---------------------------- MODULE DownloadTask ----------------------------
(***************************************************************************)
(* The DownloadTask entity and the two ways its table row is written.      *)
(*                                                                         *)
(* A task is a record whose fields carry the names of the columns of       *)
(* download_tasks.  The methods of the entity appear as a guard (what the  *)
(* method requires before it raises) and a function from task to task.     *)
(*                                                                         *)
(* Instants are relative to the present: last_heartbeat is the number of   *)
(* ticks since the heartbeat, blocked_until the number of ticks to go.     *)
(* Both saturate once the comparisons of the code can no longer change, so *)
(* time never runs out in a finite model.                                  *)
(***************************************************************************)
EXTENDS Integers

CONSTANTS
    NULL,               \* SQL NULL / Python None
    MAX_HEARTBEAT_AGE,  \* reclaim_stuck's max_heartbeat_age, in ticks
    MaxAttempts         \* bound: attempts saturates here

ASSUME HeartbeatAgeAssumption == MAX_HEARTBEAT_AGE \in Nat
ASSUME MaxAttemptsAssumption == MaxAttempts \in Nat \ {0}
ASSUME NullAssumption == NULL \notin Nat

TaskStatus == {"PENDING", "RUNNING", "SUCCESS", "FAILED", "BLOCKED"}
Terminal == {"SUCCESS", "FAILED"}

\* The row of a task that has not been inserted yet.
ABSENT == "ABSENT"

-----------------------------------------------------------------------------
(* Instants. *)

HeartbeatAges == 0..(MAX_HEARTBEAT_AGE + 1)

\* last_heartbeat < now() - max_heartbeat_age; false for NULL, as in SQL.
HeartbeatExpired(task) ==
    task.last_heartbeat # NULL /\ task.last_heartbeat > MAX_HEARTBEAT_AGE

\* blocked_until < now(); false for NULL.
BlockExpired(task) ==
    task.blocked_until # NULL /\ task.blocked_until = 0

Older(age) ==
    IF age = NULL \/ age = MAX_HEARTBEAT_AGE + 1 THEN age ELSE age + 1

Nearer(left) ==
    IF left = NULL \/ left = 0 THEN left ELSE left - 1

\* The same task one tick later.
Aged(task) ==
    [task EXCEPT !.last_heartbeat = Older(@), !.blocked_until = Nearer(@)]

-----------------------------------------------------------------------------
(* Mutants: wrong versions of definitions below, named after them.  A       *)
(* property of a run must reject each (PROJECT.json).                       *)

NewTask_NoAttempts ==
    [status |-> "PENDING", worker_id |-> NULL, last_heartbeat |-> NULL,
     attempts |-> NULL, blocked_until |-> NULL, error |-> NULL]

Block_NoEnd(task, retryAfter) ==
    [task EXCEPT !.status = "BLOCKED", !.error = "block"]

Claimable_Running(row) == row.status \in {"PENDING", "RUNNING"}

Claimable_Finished(row) == row.status \in {"PENDING", "SUCCESS"}

Claimed_NoHeartbeat(row, workerId) ==
    [row EXCEPT !.status = "RUNNING", !.worker_id = workerId,
                !.blocked_until = NULL, !.error = NULL]

Stuck_AnyHeartbeat(row) == row.status = "RUNNING"

UnStuck_AttemptsReset(row) ==
    [row EXCEPT !.status = "PENDING", !.worker_id = NULL,
                !.last_heartbeat = NULL, !.attempts = 0]

UnBlocked_OwnerKept(row) ==
    [row EXCEPT !.status = "PENDING", !.blocked_until = NULL]

-----------------------------------------------------------------------------
(* The entity's methods. *)

NewTask ==
    [status |-> "PENDING", worker_id |-> NULL, last_heartbeat |-> NULL,
     attempts |-> 0, blocked_until |-> NULL, error |-> NULL]

\* The guard of heartbeat, increase_received, increase_processed, complete
\* and block, which otherwise raise.
IsRunning(task) == task.status = "RUNNING"

\* The guard of fail.
CanFail(task) == task.status \in {"PENDING", "RUNNING"}

Heartbeat(task) == [task EXCEPT !.last_heartbeat = 0]

Complete(task) == [task EXCEPT !.status = "SUCCESS"]

Fail(task, err) == [task EXCEPT !.status = "FAILED", !.error = err]

Block(task, retryAfter) ==
    [task EXCEPT !.status = "BLOCKED", !.blocked_until = retryAfter,
                 !.error = "block"]

-----------------------------------------------------------------------------
(* The statements of the repository. *)

\* UPDATE ... WHERE id = ? AND status = 'PENDING': the guard and the values.
Claimable(row) == row.status = "PENDING"

Claimed(row, workerId) ==
    [row EXCEPT !.status = "RUNNING", !.worker_id = workerId,
                !.last_heartbeat = 0, !.blocked_until = NULL, !.error = NULL,
                !.attempts = IF @ < MaxAttempts THEN @ + 1 ELSE @]

\* The WHERE clauses and the values of reclaim_stuck and reclaim_blocked.
Stuck(row) == row.status = "RUNNING" /\ HeartbeatExpired(row)

UnStuck(row) ==
    [row EXCEPT !.status = "PENDING", !.worker_id = NULL,
                !.last_heartbeat = NULL, !.blocked_until = NULL]

BlockOver(row) == row.status = "BLOCKED" /\ BlockExpired(row)

UnBlocked(row) ==
    [row EXCEPT !.status = "PENDING", !.worker_id = NULL,
                !.blocked_until = NULL]

\* update(task) selects the row, assigns every column and leaves the UPDATE
\* to the flush, which names only the columns that differ from what was
\* selected: the others keep what the table holds at that moment.  Two
\* instants of one age need not be the same instant: apart names the columns
\* where they are not.
InstantColumns == {"last_heartbeat", "blocked_until"}

Flushed(row, selected, task, apart) ==
    [column \in DOMAIN row |->
        IF \/ task[column] # selected[column]
           \/ column \in apart /\ task[column] # NULL
        THEN task[column] ELSE row[column]]
=============================================================================
