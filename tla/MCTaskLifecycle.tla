--------------------------- MODULE MCTaskLifecycle ---------------------------
(* TaskLifecycle on small instances: two workers, one or two tasks. *)
EXTENDS TaskLifecycle, TLC

CONSTANTS w1, w2, t1, t2

TwoWorkers == {w1, w2}
OneTask == {t1}
TwoTasks == {t1, t2}

\* One block too short to suspend the task and one that suspends it.
ShortAndLong == {1, 2}
OneTick == {1}

\* Every fault but a worker that heartbeats too late ...
AllButStall == FaultKinds \ {"stall"}

\* ... workers overtaken by the watchdog, and nothing that loses the message
\* of a PENDING task ...
Overtaken == {"crash", "stall", "redeliver", "save_db"}

\* ... and what the system is meant to recover from.
Recovered == {"crash", "slow_flush", "redeliver", "save_db"}

\* The faults of the runs that end in a violation.
OnlyStall == {"stall"}
OnlyLostSend == {"lost_send"}

\* Two instances in one, for liveness: two workers and one task, or two tasks
\* of which one worker is enough to make the other wait, as one run of the
\* watchdog takes LIMIT = 1 of them and takes none while that worker is busy.
\* The second worker rests as long as there is a second task.
OneOrTheOther == rows[t2].status = ABSENT \/ pc[w2] = "idle"

LiveSpec == Init /\ [][Next /\ OneOrTheOther']_vars /\ Fairness

\* Workers and tasks are interchangeable in the safety properties.
Symmetry == Permutations(TwoWorkers) \cup Permutations(TwoTasks)
WorkerSymmetry == Permutations(TwoWorkers)
=============================================================================
