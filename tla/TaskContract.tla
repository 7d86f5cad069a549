---------------------------- MODULE TaskContract ----------------------------
(***************************************************************************)
(* What the task table promises, whatever the broker and the workers go    *)
(* through: a task has at most one executor, the worker named in its row;  *)
(* it is taken away only from a worker that no longer executes it; and     *)
(* SUCCESS and FAILED are final.                                           *)
(***************************************************************************)
CONSTANTS Tasks, Workers, NULL

VARIABLES
    status,    \* the status of each task, "ABSENT" before it exists
    owner,     \* the worker named in its row
    executors  \* the workers that execute it

vars == <<status, owner, executors>>

Init ==
    /\ status = [t \in Tasks |-> "ABSENT"]
    /\ owner = [t \in Tasks |-> NULL]
    /\ executors = [t \in Tasks |-> {}]

Create(t) ==
    /\ status[t] = "ABSENT"
    /\ status' = [status EXCEPT ![t] = "PENDING"]
    /\ UNCHANGED <<owner, executors>>

Claim(t, w) ==
    /\ status[t] = "PENDING"
    /\ executors[t] = {}
    /\ status' = [status EXCEPT ![t] = "RUNNING"]
    /\ owner' = [owner EXCEPT ![t] = w]
    /\ executors' = [executors EXCEPT ![t] = {w}]

\* The executor ends its work, for good or until the block is over.
Settle(t, w, outcome) ==
    /\ status[t] = "RUNNING"
    /\ owner[t] = w
    /\ executors[t] = {w}
    /\ status' = [status EXCEPT ![t] = outcome]
    /\ executors' = [executors EXCEPT ![t] = {}]
    /\ UNCHANGED owner

\* The executor dies, or gives up without writing an outcome.
Abandon(t, w) ==
    /\ status[t] = "RUNNING"
    /\ owner[t] = w
    /\ executors[t] = {w}
    /\ executors' = [executors EXCEPT ![t] = {}]
    /\ UNCHANGED <<status, owner>>

\* Tasks nobody executes become claimable again.
Return(batch) ==
    /\ \A t \in batch :
          /\ status[t] \in {"RUNNING", "BLOCKED"}
          /\ executors[t] = {}
    /\ status' = [t \in Tasks |->
                     IF t \in batch THEN "PENDING" ELSE status[t]]
    /\ owner' = [t \in Tasks |-> IF t \in batch THEN NULL ELSE owner[t]]
    /\ UNCHANGED executors

Next ==
    \/ \E t \in Tasks : Create(t)
    \/ \E t \in Tasks, w \in Workers :
          \/ Claim(t, w)
          \/ \E outcome \in {"SUCCESS", "FAILED", "BLOCKED"} :
                Settle(t, w, outcome)
          \/ Abandon(t, w)
    \/ \E batch \in SUBSET Tasks : Return(batch)

Spec == Init /\ [][Next]_vars
=============================================================================
