--------------------------- MODULE MCProcessFiles ---------------------------
(* ProcessFiles on small instances: one candidate, one or two tasks. *)
EXTENDS ProcessFiles

CONSTANTS t1, t2, f1, f2, f3, c

OneTask == {t1}
TwoTasks == {t1, t2}
ThreeNames == {f1, f2, f3}
TwoNames == {f1, f2}
OneCandidate == {c}
OfOneTask == [t \in OneTask |-> c]
OfTwoTasks == [t \in TwoTasks |-> c]

\* What a task that runs alone recovers from.
Recovered == {"crash", "block", "api", "s3", "db", "s3_cleanup"}
OnlyApi == {"api"}

\* A block, and a crash in the cleanup that it causes.
CrashInCleanup == {"block", "crash_cleanup"}
=============================================================================
