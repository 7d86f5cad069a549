-------------------------- MODULE SavedFilesProofs --------------------------
(***************************************************************************)
(* What becomes of files that are saved, for every catalogue, batch size,  *)
(* number of faults and number of tasks at once: no file that the API was  *)
(* told of is lost, no record is without object, and SUCCESS means files   *)
(* that are there, as long as no cleanup deletes an object that another    *)
(* task holds.  That is so for a task that runs alone, and for tasks of    *)
(* which none is ever cleaned up.                                          *)
(***************************************************************************)
EXTENDS ProcessFilesProofs

\* The faults that lose files even then do not happen: a cleanup that is cut
\* short (run files_cleanup), that cannot delete a record, or that runs in the
\* failed transaction of a query, a batch that is marked without an answer,
\* which the cleanup deletes, and an archive with other files than the batch.
Harmless ==
    Faults \cap {"crash_cleanup", "mark_reply", "db_cleanup", "db_query", "archive"} = {}

\* A task holds the objects that it has recorded, or is about to.
Holds(t, n) == n \in recorded[t] \/ (run[t].pc = "uploaded" /\ run[t].file = n)

\* No step deletes an object that another task holds: what the cleanup of one
\* of two tasks with the same files may do, as nothing in the code checks it
\* (run files_shared).
OwnFilesOnly ==
    \A t \in Tasks, n \in objects \ objects' :
        DeleteObject(t, n) => \A u \in Tasks \ {t} : ~Holds(u, n)

\* One task: no other handler deletes or records the same keys.
Alone == \A t, u \in Tasks : t = u

\* Nothing goes wrong but that workers die, at any step.
OnlyCrashes == Faults \subseteq {"crash"}

-----------------------------------------------------------------------------
(* The inductive invariant. *)

\* What t has recorded and its cleanup will not delete.
Safe(t, n) ==
    /\ n \in recorded[t]
    /\ run[t].pc \in BatchPlaces => n \notin run[t].kept
    /\ run[t].pc = "unrecord" => run[t].file # n

\* What the API no longer lists has its object, and a task has it safely.
DelistedIsSaved(t) ==
    \A n \in Names \ Listed(t) : n \in objects /\ \E u \in Tasks : Safe(u, n)

RecordedIsStored(t) ==
    \A n \in recorded[t] :
        n \in objects \/ (run[t].pc = "unrecord" /\ run[t].file = n)

\* A file that is uploaded has its object, and no record yet: an insertion
\* does not make a file of an earlier batch one of this batch.
UploadedIsStored(t) ==
    run[t].pc = "uploaded" => run[t].file \in objects /\ run[t].file \notin recorded[t]

\* Each file of the batch is still to do, in hand, or recorded: when none is
\* to do the whole batch may be marked.
BatchIsCovered(t) ==
    run[t].pc \in {"extract", "uploaded"} =>
        \A n \in ToSet(run[t].batch) :
            \/ n \in run[t].todo
            \/ n \in recorded[t]
            \/ run[t].pc = "uploaded" /\ run[t].file = n

SuccessIsComplete(t) ==
    /\ run[t].outcome = "SUCCESS" => run[t].pc = "settle" /\ Listed(t) = {}
    /\ row[t].status = "SUCCESS" => Listed(t) = {}

TaskInv(t) ==
    /\ RecordedIsStored(t) /\ UploadedIsStored(t)
    /\ BatchIsCovered(t)
    /\ HeldIsRunning(t) /\ SuccessIsComplete(t)

SavedInv ==
    /\ TypesInv
    /\ aborted = {}
    /\ \A t \in Tasks : TaskInv(t)
    /\ \A t \in Tasks : DelistedIsSaved(t)

\* What is safe with t stays so.
KeepsSafe(t) == \A n \in Names : Safe(t, n) => Safe(t, n)'

-----------------------------------------------------------------------------
(* What the steps do to the row, the records and the list. *)

LEMMA ListedNext ==
    ASSUME TypeOK, NEW t \in Tasks
    PROVE  /\ UNCHANGED listed => Listed(t)' = Listed(t)
           /\ listed' = NotListed(t) => Listed(t)' = Listed(t) \ ToSet(run[t].batch)
BY ProcessFilesAssumption DEF TypeOK, Listed, NotListed

LEMMA InitSaved == Init => SavedInv
<1> SUFFICES ASSUME Init PROVE SavedInv
  OBVIOUS
<1>1. TypesInv
  BY InitTypes
<1>2. /\ NoRun.pc = "idle" /\ NoRun.outcome = "RUNNING"
      /\ \A t \in Tasks : run[t] = NoRun
  BY DEF Init, NoRun
<1>3. \A t \in Tasks : row[t].status = "PENDING" /\ recorded[t] = {} /\ Listed(t) = Names
  BY ProcessFilesAssumption DEF Init, Listed
<1>4. \A t \in Tasks : TaskInv(t)
  BY <1>2, <1>3
     DEF TaskInv, RecordedIsStored, UploadedIsStored, BatchIsCovered, HeldIsRunning,
         SuccessIsComplete
<1>5. \A t \in Tasks : DelistedIsSaved(t)
  BY <1>3 DEF DelistedIsSaved
<1> QED
  BY <1>1, <1>4, <1>5 DEF Init, SavedInv

-----------------------------------------------------------------------------
(* What a step of a task keeps true of that task. *)

\* A step that leaves the row's status, the records, the objects and the
\* list alone, and moves the handler where no file is in hand.
LEMMA QuietStep ==
    ASSUME SavedInv, NEW t \in Tasks,
           UNCHANGED <<recorded, objects, listed>>,
           run[t].pc # "unrecord",
           run'[t].pc \in {"idle", "loop", "received", "batch", "processed"},
           run'[t].outcome # "SUCCESS",
           \/ run'[t].pc = "idle"
           \/ row'[t].status = "RUNNING",
           row'[t].status = "SUCCESS" => row[t].status = "SUCCESS"
    PROVE  TaskInv(t)' /\ KeepsSafe(t)
<1>1. TaskInv(t) /\ Listed(t)' = Listed(t)
  BY ListedNext DEF SavedInv, TypesInv
<1>2. TaskInv(t)'
  BY <1>1
     DEF TaskInv, RecordedIsStored, UploadedIsStored, BatchIsCovered, HeldIsRunning,
         SuccessIsComplete
<1>3. KeepsSafe(t)
  BY DEF KeepsSafe, Safe, BatchPlaces
<1> QED
  BY <1>2, <1>3

LEMMA QuietSteps ==
    ASSUME Harmless, SavedInv, NEW t \in Tasks,
           \/ Claim(t) \/ Reclaim(t) \/ Crash(t) \/ SaveOutcomeError(t)
           \/ GetNames(t) \/ SaveReceived(t) \/ SaveProcessed(t)
    PROVE  TaskInv(t)' /\ KeepsSafe(t)
<1> USE DEF SavedInv, TypesInv
<1>1. TaskInv(t) /\ HeldIsRunning(t) /\ SuccessIsComplete(t)
  BY DEF TaskInv
<1>2. CASE Claim(t)
  <2>1. run'[t].pc = "loop" /\ run'[t].outcome = "RUNNING"
    BY <1>2, ClaimMoves DEF Moves
  <2>2. row'[t].status = "RUNNING" /\ run[t].pc = "idle"
    BY <1>1, <1>2, StatusTypes DEF Claim, HeldIsRunning
  <2> QED
    BY <1>2, <2>1, <2>2, QuietStep DEF Claim
<1>3. CASE Reclaim(t)
  <2>1. row'[t].status = "PENDING"
    BY <1>3, StatusTypes
  <2> QED
    BY <1>1, <1>3, <2>1, QuietStep DEF Reclaim, SuccessIsComplete
<1>4. CASE Crash(t)
  <2>1. run'[t].pc = "idle" /\ run'[t].outcome = "RUNNING"
    BY <1>4, IdleMoves DEF Crash, Moves
  <2>2. run[t].pc # "unrecord"
    BY <1>4 DEF Crash, InCleanup, Fault, Harmless
  <2> QED
    BY <1>4, <2>1, <2>2, QuietStep DEF Crash
<1>5. CASE SaveOutcomeError(t)
  <2>1. run'[t].pc = "idle" /\ run'[t].outcome = "RUNNING"
    BY <1>5, IdleMoves DEF SaveOutcomeError, Moves
  <2> QED
    BY <1>5, <2>1, QuietStep DEF SaveOutcomeError
<1>6. CASE GetNames(t)
  <2>1. run'[t].pc = "received" /\ run'[t].outcome = run[t].outcome
    BY <1>6, GetNamesMoves DEF MovesTo, EndsWith, Moves
  <2> QED
    BY <1>1, <1>6, <2>1, QuietStep DEF GetNames, HeldIsRunning, SuccessIsComplete
<1>7. CASE SaveReceived(t) \/ SaveProcessed(t)
  <2>1. run'[t].pc \in {"batch", "loop"} /\ run'[t].outcome = run[t].outcome
    BY <1>7, PcMoves DEF SaveReceived, SaveProcessed, MovesTo, EndsWith, Moves
  <2>2. row'[t].status = row[t].status
    BY <1>7, StatusTypes DEF SaveReceived, SaveProcessed
  <2> QED
    BY <1>1, <1>7, <2>1, <2>2, QuietStep
       DEF SaveReceived, SaveProcessed, HeldIsRunning, SuccessIsComplete
<1> QED
  BY <1>2, <1>3, <1>4, <1>5, <1>6, <1>7

\* No transaction is left failed: only a query leaves one.
LEMMA NoneAborted ==
    ASSUME Harmless, SavedInv, NEW t \in Tasks, Work(t) \/ Failure(t) \/ Claim(t)
                                                \/ Reclaim(t) \/ Crash(t)
    PROVE  aborted' = {} /\ ~SaveRefused(t)
<1>1. aborted = {} /\ ~SaveRefused(t)
  BY DEF SavedInv, SaveRefused
<1>2. CASE Claim(t) \/ Reclaim(t) \/ Crash(t)
  BY <1>1, <1>2 DEF Claim, Reclaim, Crash, RolledBack
<1>3. CASE Work(t)
  BY <1>1, <1>3
     DEF Work, SaveOutcome, GetNames, NoMoreNames, SaveReceived, SaveProcessed, TakeBatch,
         RequestArchive, RecordFile, MarkDownloaded, SkipFile, UploadFile, DeleteObject,
         DeleteRecord, CleanupDone, RolledBack
<1>4. CASE Failure(t)
  BY <1>1, <1>4
     DEF Failure, GetNamesError, SaveCountersError, RequestArchiveError,
         RequestOtherArchive, ExtractError, MarkError, SaveOutcomeError, Fault, Harmless
<1> QED
  BY <1>1, <1>2, <1>3, <1>4

\* The end of an execution.
LEMMA OutcomeSteps ==
    ASSUME SavedInv, NEW t \in Tasks,
           SaveOutcome(t) \/ NoMoreNames(t) \/ CleanupDone(t)
    PROVE  TaskInv(t)' /\ KeepsSafe(t)
<1> USE DEF SavedInv, TypesInv
<1>1. TaskInv(t) /\ Listed(t)' = Listed(t)
  BY ListedNext DEF SaveOutcome, NoMoreNames, CleanupDone
<1>2. UNCHANGED <<recorded, objects>> /\ run[t].pc # "unrecord"
  BY DEF SaveOutcome, NoMoreNames, CleanupDone
<1>3. CASE SaveOutcome(t)
  <2>1. /\ run'[t].pc = "idle" /\ run'[t].outcome = "RUNNING"
        /\ row'[t].status = run[t].outcome
    BY <1>3, IdleMoves, StatusTypes DEF SaveOutcome, Moves
  <2> QED
    BY <1>1, <1>2, <2>1
       DEF TaskInv, RecordedIsStored, UploadedIsStored, BatchIsCovered, HeldIsRunning,
           SuccessIsComplete, KeepsSafe, Safe, BatchPlaces
<1>4. CASE NoMoreNames(t)
  <2>1. run'[t].pc = "settle"
    BY <1>4, SettleMoves DEF NoMoreNames, EndsWith, Moves
  <2>2. UNCHANGED row /\ run[t].pc = "loop" /\ Listed(t) = {}
    BY <1>4 DEF NoMoreNames
  <2> QED
    BY <1>1, <1>2, <2>1, <2>2
       DEF TaskInv, RecordedIsStored, UploadedIsStored, BatchIsCovered, HeldIsRunning,
           SuccessIsComplete, KeepsSafe, Safe, BatchPlaces
<1>5. CASE CleanupDone(t)
  <2>1. run'[t].pc = "settle" /\ run'[t].outcome = run[t].outcome
    BY <1>5, CleanupDoneMoves DEF MovesTo, EndsWith, Moves
  <2>2. UNCHANGED row /\ run[t].pc = "cleanup"
    BY <1>5 DEF CleanupDone
  <2> QED
    BY <1>1, <1>2, <2>1, <2>2
       DEF TaskInv, RecordedIsStored, UploadedIsStored, BatchIsCovered, HeldIsRunning,
           SuccessIsComplete, KeepsSafe, Safe, BatchPlaces
<1> QED
  BY <1>3, <1>4, <1>5

\* The files of a batch.
LEMMA BatchSteps ==
    ASSUME SavedInv, NEW t \in Tasks,
           \/ TakeBatch(t) \/ RequestArchive(t) \/ RecordFile(t)
           \/ \E n \in Names : SkipFile(t, n) \/ UploadFile(t, n)
    PROVE  TaskInv(t)' /\ KeepsSafe(t)
<1> USE DEF SavedInv, TypesInv
<1>1. TaskInv(t) /\ Listed(t)' = Listed(t)
  BY ListedNext
     DEF TakeBatch, RequestArchive, RecordFile, SkipFile, UploadFile
<1>2. CASE TakeBatch(t)
  <2>1. /\ run'[t].pc = "request" /\ run'[t].kept = {}
        /\ run'[t].outcome = run[t].outcome
    BY <1>2, TakeBatchMoves DEF Moves
  <2>2. run[t].pc \in {"batch", "loop"} /\ UNCHANGED <<row, recorded, objects>>
    BY <1>2 DEF TakeBatch, BatchReady
  <2> QED
    BY <1>1, <2>1, <2>2
       DEF TaskInv, RecordedIsStored, UploadedIsStored, BatchIsCovered, HeldIsRunning,
           SuccessIsComplete, KeepsSafe, Safe
<1>3. CASE RequestArchive(t)
  <2>1. /\ run'[t].pc = "extract" /\ run'[t].kept = run[t].kept
        /\ run'[t].todo = ToSet(run'[t].batch)
        /\ run'[t].outcome = run[t].outcome
    BY <1>3, ArchiveMoves DEF Moves
  <2>2. run[t].pc = "request" /\ UNCHANGED <<row, recorded, objects>>
    BY <1>3 DEF RequestArchive
  <2> QED
    BY <1>1, <2>1, <2>2
       DEF TaskInv, RecordedIsStored, UploadedIsStored, BatchIsCovered, HeldIsRunning,
           SuccessIsComplete, KeepsSafe, Safe, BatchPlaces
<1>4. CASE RecordFile(t)
  <2>1. /\ run'[t].pc = "extract" /\ run'[t].batch = run[t].batch
        /\ run'[t].todo = run[t].todo
        /\ run'[t].kept = run[t].kept \cup {run[t].file}
        /\ run'[t].outcome = run[t].outcome
    BY <1>4, RecordMoves DEF Moves
  <2>2. recorded'[t] = recorded[t] \cup {run[t].file}
    BY <1>4 DEF RecordFile, TypeOK
  <2>3. run[t].pc = "uploaded" /\ UNCHANGED <<row, objects>>
    BY <1>4 DEF RecordFile
  <2> QED
    BY <1>1, <2>1, <2>2, <2>3
       DEF TaskInv, RecordedIsStored, UploadedIsStored, BatchIsCovered, HeldIsRunning,
           SuccessIsComplete, KeepsSafe, Safe, BatchPlaces
<1>5. ASSUME NEW n \in Names, SkipFile(t, n)
      PROVE  TaskInv(t)' /\ KeepsSafe(t)
  <2>1. /\ run'[t].pc = "extract" /\ run'[t].batch = run[t].batch
        /\ run'[t].todo = run[t].todo \ {n} /\ run'[t].kept = run[t].kept
        /\ run'[t].outcome = run[t].outcome
    BY <1>5, SkipMoves DEF Moves
  <2>2. run[t].pc = "extract" /\ n \in recorded[t] /\ UNCHANGED <<row, recorded, objects>>
    BY <1>5 DEF SkipFile
  <2> QED
    BY <1>1, <2>1, <2>2
       DEF TaskInv, RecordedIsStored, UploadedIsStored, BatchIsCovered, HeldIsRunning,
           SuccessIsComplete, KeepsSafe, Safe, BatchPlaces
<1>6. ASSUME NEW n \in Names, UploadFile(t, n)
      PROVE  TaskInv(t)' /\ KeepsSafe(t)
  <2>1. /\ run'[t].pc = "uploaded" /\ run'[t].batch = run[t].batch
        /\ run'[t].todo = run[t].todo \ {n} /\ run'[t].kept = run[t].kept
        /\ run'[t].file = n /\ run'[t].outcome = run[t].outcome
    BY <1>6, UploadMoves DEF Moves
  <2>2. /\ run[t].pc = "extract" /\ n \notin recorded[t]
        /\ objects' = objects \cup {n} /\ UNCHANGED <<row, recorded>>
    BY <1>6 DEF UploadFile
  <2> QED
    BY <1>1, <2>1, <2>2
       DEF TaskInv, RecordedIsStored, UploadedIsStored, BatchIsCovered, HeldIsRunning,
           SuccessIsComplete, KeepsSafe, Safe, BatchPlaces
<1> QED
  BY <1>2, <1>3, <1>4, <1>5, <1>6

\* The API is told of a batch whose files are all recorded, hence stored.
LEMMA MarkStep ==
    ASSUME SavedInv, NEW t \in Tasks, MarkDownloaded(t)
    PROVE  /\ TaskInv(t)' /\ KeepsSafe(t)
           /\ \A n \in ToSet(run[t].batch) : n \in objects' /\ Safe(t, n)'
<1> USE DEF SavedInv, TypesInv
<1>1. TaskInv(t) /\ Listed(t)' = Listed(t) \ ToSet(run[t].batch)
  BY ListedNext DEF MarkDownloaded
<1>2. run'[t].pc = "processed" /\ run'[t].outcome = run[t].outcome
  BY MarkMoves DEF MovesTo, EndsWith, Moves
<1>3. /\ run[t].pc = "extract" /\ run[t].todo = {}
      /\ UNCHANGED <<row, recorded, objects>>
  BY DEF MarkDownloaded
<1>4. \A n \in ToSet(run[t].batch) : n \in recorded[t] /\ n \in objects
  BY <1>1, <1>3 DEF TaskInv, BatchIsCovered, RecordedIsStored
<1>5. TaskInv(t)'
  BY <1>1, <1>2, <1>3
     DEF TaskInv, RecordedIsStored, UploadedIsStored, BatchIsCovered, HeldIsRunning,
         SuccessIsComplete
<1>6. KeepsSafe(t) /\ \A n \in ToSet(run[t].batch) : n \in objects' /\ Safe(t, n)'
  BY <1>2, <1>3, <1>4 DEF KeepsSafe, Safe, BatchPlaces
<1> QED
  BY <1>5, <1>6

LEMMA CleanupSteps ==
    ASSUME Harmless, SavedInv, NEW t \in Tasks,
           DeleteRecord(t) \/ \E n \in Names : DeleteObject(t, n)
    PROVE  TaskInv(t)' /\ KeepsSafe(t)
<1> USE DEF SavedInv, TypesInv
<1>1. TaskInv(t) /\ Listed(t)' = Listed(t)
  BY ListedNext DEF DeleteObject, DeleteRecord
<1>2. CASE DeleteRecord(t)
  <2>1. /\ run'[t].pc = "cleanup" /\ run'[t].kept = run[t].kept
        /\ run'[t].outcome = run[t].outcome
    BY <1>2, PcMoves DEF DeleteRecord, MovesTo, EndsWith, Moves
  <2>2. recorded'[t] = recorded[t] \ {run[t].file}
    BY <1>2 DEF DeleteRecord, TypeOK, Fault, Harmless, SavedInv
  <2>3. run[t].pc = "unrecord" /\ UNCHANGED <<row, objects>>
    BY <1>2 DEF DeleteRecord
  <2> QED
    BY <1>1, <2>1, <2>2, <2>3
       DEF TaskInv, RecordedIsStored, UploadedIsStored, BatchIsCovered, HeldIsRunning,
           SuccessIsComplete, KeepsSafe, Safe, BatchPlaces
<1>3. ASSUME NEW n \in Names, DeleteObject(t, n)
      PROVE  TaskInv(t)' /\ KeepsSafe(t)
  <2>1. /\ run'[t].pc = "unrecord" /\ run'[t].file = n
        /\ run'[t].kept = run[t].kept \ {n} /\ run'[t].outcome = run[t].outcome
    BY <1>3, DeleteMoves DEF Moves
  <2>2. /\ run[t].pc = "cleanup" /\ n \in run[t].kept
        /\ objects' = objects \/ objects' = objects \ {n}
        /\ UNCHANGED <<row, recorded>>
    BY <1>3 DEF DeleteObject
  <2> QED
    BY <1>1, <2>1, <2>2
       DEF TaskInv, RecordedIsStored, UploadedIsStored, BatchIsCovered, HeldIsRunning,
           SuccessIsComplete, KeepsSafe, Safe, BatchPlaces
<1> QED
  BY <1>2, <1>3

\* A failure saves an outcome, or leaves the batch to the cleanup.
LEMMA FailureSteps ==
    ASSUME Harmless, SavedInv, NEW t \in Tasks, Failure(t)
    PROVE  TaskInv(t)' /\ KeepsSafe(t)
<1> USE DEF SavedInv, TypesInv
<1>1. CASE SaveOutcomeError(t)
  BY <1>1, QuietSteps
<1>2. CASE GetNamesError(t) \/ SaveCountersError(t)
  <2>1. /\ run'[t].pc = "settle" /\ run'[t].outcome \in {"FAILED", "BLOCKED"}
        /\ run[t].pc \in {"loop", "received", "processed"}
    BY <1>2, SettleMoves DEF GetNamesError, SaveCountersError, EndsWith, Moves
  <2>2. TaskInv(t) /\ Listed(t)' = Listed(t)
    BY <1>2, ListedNext DEF GetNamesError, SaveCountersError
  <2>3. UNCHANGED <<row, recorded, objects>>
    BY <1>2 DEF GetNamesError, SaveCountersError
  <2> QED
    BY <2>1, <2>2, <2>3
       DEF TaskInv, RecordedIsStored, UploadedIsStored, BatchIsCovered, HeldIsRunning,
           SuccessIsComplete, KeepsSafe, Safe, BatchPlaces
<1>3. CASE RequestArchiveError(t) \/ ExtractError(t) \/ MarkError(t)
  <2>1. /\ run'[t].pc = "cleanup" /\ run'[t].outcome \in {"FAILED", "BLOCKED"}
        /\ run'[t].kept = run[t].kept
        /\ run[t].pc \in {"request", "extract", "uploaded"}
    BY <1>3, AbortMoves
       DEF RequestArchiveError, ExtractError, MarkError, EndsWith, Moves
  <2>2. TaskInv(t) /\ Listed(t)' = Listed(t)
    <3>1. UNCHANGED listed
      BY <1>3 DEF RequestArchiveError, ExtractError, MarkError, Fault, Harmless
    <3> QED
      BY <3>1, ListedNext
  <2>3. objects \subseteq objects' /\ UNCHANGED <<row, recorded>>
    BY <1>3 DEF RequestArchiveError, ExtractError, MarkError
  <2> QED
    BY <2>1, <2>2, <2>3
       DEF TaskInv, RecordedIsStored, UploadedIsStored, BatchIsCovered, HeldIsRunning,
           SuccessIsComplete, KeepsSafe, Safe, BatchPlaces
<1>4. ~RequestOtherArchive(t)
  BY DEF RequestOtherArchive, Fault, Harmless
<1> QED
  BY <1>1, <1>2, <1>3, <1>4 DEF Failure

TaskStep(t) == Claim(t) \/ Reclaim(t) \/ Work(t) \/ Failure(t) \/ Crash(t)

LEMMA OwnSteps ==
    ASSUME Harmless, SavedInv, NEW t \in Tasks, TaskStep(t)
    PROVE  TaskInv(t)' /\ KeepsSafe(t)
<1>1. CASE Work(t)
  BY <1>1, QuietSteps, OutcomeSteps, BatchSteps, MarkStep, CleanupSteps, NoneAborted
     DEF Work
<1> QED
  BY <1>1, QuietSteps, FailureSteps DEF TaskStep

-----------------------------------------------------------------------------
(* What a step of a task keeps true of the others. *)

\* The objects of others are only deleted by a cleanup, and the API forgets a
\* name only when it is told of its batch.
LEMMA SharedSteps ==
    ASSUME Harmless, NEW t \in Tasks, TaskStep(t)
    PROVE  /\ \/ objects \subseteq objects'
              \/ \E n \in Names : DeleteObject(t, n) /\ objects' = objects \ {n}
           /\ UNCHANGED listed \/ MarkDownloaded(t)
<1>1. CASE Claim(t) \/ Reclaim(t) \/ Crash(t)
  BY <1>1 DEF Claim, Reclaim, Crash
<1>2. CASE Work(t)
  BY <1>2
     DEF Work, SaveOutcome, SaveRefused, GetNames, NoMoreNames, SaveReceived, SaveProcessed, TakeBatch,
         RequestArchive, RecordFile, MarkDownloaded, SkipFile, UploadFile, DeleteObject,
         DeleteRecord, CleanupDone
<1>3. CASE Failure(t)
  BY <1>3
     DEF Failure, GetNamesError, SaveCountersError, RequestArchiveError,
         RequestOtherArchive, ExtractError, MarkError, SaveOutcomeError, Fault, Harmless
<1> QED
  BY <1>1, <1>2, <1>3 DEF TaskStep

LEMMA OtherRecords ==
    ASSUME TypeOK, NEW t \in Tasks, NEW u \in Tasks \ {t}, TaskStep(t)
    PROVE  recorded'[u] = recorded[u]
<1>1. CASE Claim(t) \/ Reclaim(t) \/ Crash(t)
  BY <1>1 DEF Claim, Reclaim, Crash
<1>2. CASE RecordFile(t) \/ DeleteRecord(t)
  BY <1>2 DEF RecordFile, DeleteRecord, TypeOK
<1>3. CASE Work(t) /\ ~RecordFile(t) /\ ~DeleteRecord(t)
  BY <1>3
     DEF Work, SaveOutcome, SaveRefused, GetNames, NoMoreNames, SaveReceived, SaveProcessed, TakeBatch,
         RequestArchive, MarkDownloaded, SkipFile, UploadFile, DeleteObject, CleanupDone
<1>4. CASE Failure(t)
  BY <1>4
     DEF Failure, GetNamesError, SaveCountersError, RequestArchiveError,
         RequestOtherArchive, ExtractError, MarkError, SaveOutcomeError
<1> QED
  BY <1>1, <1>2, <1>3, <1>4 DEF TaskStep

\* No object that is safe with a task, or held by another, is deleted.
LEMMA KeptObjects ==
    ASSUME Harmless, SavedInv, OwnFilesOnly, NEW t \in Tasks, TaskStep(t),
           NEW u \in Tasks, NEW n \in objects,
           Safe(u, n) \/ (u # t /\ Holds(u, n))
    PROVE  n \in objects'
<1> SUFFICES ASSUME n \notin objects' PROVE FALSE
  OBVIOUS
<1>1. n \in Names /\ DeleteObject(t, n)
  BY SharedSteps
<1>2. u = t
  BY <1>1 DEF OwnFilesOnly, Safe, Holds
<1>3. run[t].pc = "cleanup" /\ n \in run[t].kept
  BY <1>1 DEF DeleteObject
<1> QED
  BY <1>2, <1>3 DEF Safe, BatchPlaces

\* A name that is no longer listed was in the batch that t marked.
LEMMA ListedOfAll ==
    ASSUME Harmless, SavedInv, NEW t \in Tasks, TaskStep(t), NEW u \in Tasks
    PROVE  /\ Listed(u)' \subseteq Listed(u)
           /\ \A n \in Listed(u) \ Listed(u)' :
                 MarkDownloaded(t) /\ n \in ToSet(run[t].batch)
<1>1. CASE UNCHANGED listed
  BY <1>1, ListedNext DEF SavedInv, TypesInv
<1>2. CASE MarkDownloaded(t)
  <2>1. listed' = NotListed(t)
    BY <1>2 DEF MarkDownloaded
  <2>2. /\ listed \in [Candidates -> SUBSET Names]
        /\ CandidateOf[t] \in Candidates /\ CandidateOf[u] \in Candidates
    BY ProcessFilesAssumption DEF SavedInv, TypesInv, TypeOK
  <2>3. Listed(u)' = IF CandidateOf[u] = CandidateOf[t]
                     THEN Listed(u) \ ToSet(run[t].batch) ELSE Listed(u)
    BY <2>1, <2>2 DEF Listed, NotListed
  <2> QED
    BY <1>2, <2>3
<1> QED
  BY <1>1, <1>2, SharedSteps

LEMMA OthersKept ==
    ASSUME Harmless, SavedInv, OwnFilesOnly, NEW t \in Tasks, TaskStep(t),
           NEW u \in Tasks \ {t}
    PROVE  TaskInv(u)' /\ KeepsSafe(u)
<1>1. TypesInv /\ TaskInv(u)
  BY DEF SavedInv
<1>2. row'[u] = row[u] /\ run'[u] = run[u] /\ recorded'[u] = recorded[u]
  BY <1>1, OtherTasks, OtherRecords DEF TypesInv, TaskStep
<1>3. \A n \in objects : Holds(u, n) => n \in objects'
  BY KeptObjects
<1>4. RecordedIsStored(u)'
  BY <1>1, <1>2, <1>3 DEF TaskInv, RecordedIsStored, Holds
<1>5. UploadedIsStored(u)'
  BY <1>1, <1>2, <1>3 DEF TaskInv, UploadedIsStored, Holds
<1>6. BatchIsCovered(u)' /\ HeldIsRunning(u)'
  BY <1>1, <1>2 DEF TaskInv, BatchIsCovered, HeldIsRunning
<1>7. SuccessIsComplete(u)'
  BY <1>1, <1>2, ListedOfAll DEF TaskInv, SuccessIsComplete
<1>8. KeepsSafe(u)
  BY <1>2 DEF KeepsSafe, Safe
<1> QED
  BY <1>4, <1>5, <1>6, <1>7, <1>8 DEF TaskInv

LEMMA DelistedNext ==
    ASSUME Harmless, SavedInv, OwnFilesOnly, NEW t \in Tasks, TaskStep(t), NEW u \in Tasks
    PROVE  DelistedIsSaved(u)'
<1> SUFFICES ASSUME NEW n \in Names, n \notin Listed(u)'
             PROVE  n \in objects' /\ \E v \in Tasks : Safe(v, n)'
  BY DEF DelistedIsSaved
<1>1. CASE n \notin Listed(u)
  <2>1. PICK v \in Tasks : n \in objects /\ Safe(v, n)
    BY <1>1 DEF SavedInv, DelistedIsSaved
  <2>2. KeepsSafe(v)
    BY OwnSteps, OthersKept
  <2> QED
    BY <2>1, <2>2, KeptObjects DEF KeepsSafe
<1>2. CASE n \in Listed(u)
  <2>1. MarkDownloaded(t) /\ n \in ToSet(run[t].batch)
    BY <1>2, ListedOfAll
  <2> QED
    BY <2>1, MarkStep
<1> QED
  BY <1>1, <1>2

LEMMA SavedNext ==
    ASSUME Harmless, SavedInv, [Next]_vars, [OwnFilesOnly]_vars
    PROVE  SavedInv'
<1>1. TypesInv'
  BY TypesNext DEF SavedInv
<1>2. CASE UNCHANGED vars
  <2>1. \A t \in Tasks : Listed(t)' = Listed(t)
    BY <1>2, ListedNext DEF vars, SavedInv, TypesInv
  <2> QED
    BY <1>1, <1>2, <2>1
       DEF vars, SavedInv, TaskInv, RecordedIsStored, UploadedIsStored, BatchIsCovered,
           HeldIsRunning, SuccessIsComplete, DelistedIsSaved, Safe
<1>3. CASE Next /\ OwnFilesOnly
  <2>1. PICK t \in Tasks : TaskStep(t)
    BY <1>3 DEF Next, TaskStep
  <2>2. /\ aborted' = {}
        /\ \A u \in Tasks : TaskInv(u)'
    BY <1>3, <2>1, NoneAborted, OwnSteps, OthersKept DEF TaskStep
  <2>3. \A u \in Tasks : DelistedIsSaved(u)'
    BY <1>3, <2>1, DelistedNext
  <2> QED
    BY <1>1, <2>2, <2>3 DEF SavedInv
<1> QED
  BY <1>2, <1>3

LEMMA SavedAlways ==
    ASSUME Harmless
    PROVE  Spec /\ [][OwnFilesOnly]_vars => []SavedInv
BY InitSaved, SavedNext, PTL DEF Spec
-----------------------------------------------------------------------------
(* When no cleanup deletes the files of others. *)

LEMMA AloneOwns ==
    ASSUME Alone
    PROVE  Spec => [][OwnFilesOnly]_vars
<1>1. OwnFilesOnly
  BY DEF Alone, OwnFilesOnly
<1> QED
  BY <1>1, PTL

\* A worker that dies cleans nothing up.
NoCleanup == \A t \in Tasks : ~InCleanup(t)

LEMMA NoCleanupNext ==
    ASSUME OnlyCrashes, TypesInv, NoCleanup, [Next]_vars
    PROVE  NoCleanup'
<1> USE DEF NoCleanup, InCleanup, TypesInv
<1>1. ASSUME NEW t \in Tasks, TaskStep(t)
      PROVE  NoCleanup'
  <2>1. \A u \in Tasks \ {t} : run'[u] = run[u]
    BY <1>1, OtherTasks DEF TaskStep
  <2>2. run'[t].pc \notin {"cleanup", "unrecord"}
    <3>1. CASE \/ Claim(t) \/ Reclaim(t) \/ Crash(t)
               \/ SaveOutcome(t) \/ SaveRefused(t) \/ SaveOutcomeError(t)
      BY <3>1, ClaimMoves, IdleMoves
         DEF Moves, Reclaim, Crash, SaveOutcome, SaveRefused, SaveOutcomeError
    <3>2. CASE NoMoreNames(t) \/ GetNamesError(t) \/ SaveCountersError(t)
      BY <3>2, SettleMoves
         DEF EndsWith, Moves, NoMoreNames, GetNamesError, SaveCountersError
    <3>3. CASE SaveReceived(t) \/ SaveProcessed(t)
      BY <3>3, PcMoves DEF EndsWith, MovesTo, Moves, SaveReceived, SaveProcessed
    <3>4. CASE GetNames(t) \/ TakeBatch(t) \/ RequestArchive(t)
      BY <3>4, GetNamesMoves, TakeBatchMoves, ArchiveMoves DEF Moves, EndsWith, MovesTo
    <3>5. CASE RecordFile(t) \/ MarkDownloaded(t)
      BY <3>5, RecordMoves, MarkMoves DEF Moves, EndsWith, MovesTo
    <3>6. ASSUME NEW n \in Names, SkipFile(t, n) \/ UploadFile(t, n)
          PROVE  run'[t].pc \notin {"cleanup", "unrecord"}
      BY <3>6, SkipMoves, UploadMoves DEF Moves
    <3>7. ~CleanupDone(t) /\ ~DeleteRecord(t) /\ \A n \in Names : ~DeleteObject(t, n)
      BY DEF CleanupDone, DeleteRecord, DeleteObject
    <3>8. /\ ~RequestArchiveError(t) /\ ~RequestOtherArchive(t)
          /\ ~ExtractError(t) /\ ~MarkError(t)
      BY DEF OnlyCrashes, RequestArchiveError, RequestOtherArchive, ExtractError, MarkError,
             Fault
    <3> QED
      BY <1>1, <3>1, <3>2, <3>3, <3>4, <3>5, <3>6, <3>7, <3>8
         DEF TaskStep, Work, Failure
  <2> QED
    BY <2>1, <2>2
<1>2. CASE UNCHANGED vars
  BY <1>2 DEF vars
<1> QED
  BY <1>1, <1>2 DEF Next, TaskStep

LEMMA CrashesOwn ==
    ASSUME OnlyCrashes
    PROVE  Spec => [][OwnFilesOnly]_vars
<1> DEFINE I == TypesInv /\ NoCleanup
<1>1. Init => I
  <2>1. NoRun.pc = "idle"
    BY DEF NoRun
  <2> QED
    BY <2>1, InitTypes DEF Init, NoCleanup, InCleanup
<1>2. I /\ [Next]_vars => I'
  BY TypesNext, NoCleanupNext
<1>3. I /\ [Next]_vars => [OwnFilesOnly]_vars
  <2>1. I => OwnFilesOnly
    BY DEF NoCleanup, InCleanup, OwnFilesOnly, DeleteObject
  <2> QED
    BY <2>1
<1> QED
  BY <1>1, <1>2, <1>3, PTL DEF Spec

-----------------------------------------------------------------------------
(* What the runs check, for every value of the constants. *)

\* A file that the API was told of has its object and its records, whatever
\* was interrupted, blocked or failed between the upload, the insertion and
\* mark_downloaded, and whichever task marked it (download_handler.py, _run).
THEOREM MarkedFilesAreSaved ==
    ASSUME Harmless
    PROVE  Spec /\ [][OwnFilesOnly]_vars => []MarkedIsSaved
<1>1. SavedInv => MarkedIsSaved
  BY DEF SavedInv, DelistedIsSaved, Safe, MarkedIsSaved
<1> QED
  BY <1>1, SavedAlways, PTL

\* What download_file_exists answers is true of the store: a recorded file,
\* which the next attempt skips, has its object, but for the instant between
\* the two deletions of a cleanup.
THEOREM RecordsHaveObjects ==
    ASSUME Harmless
    PROVE  Spec /\ [][OwnFilesOnly]_vars => []RecordHasObject
<1>1. SavedInv => RecordHasObject
  BY DEF SavedInv, TaskInv, RecordedIsStored, RecordHasObject
<1> QED
  BY <1>1, SavedAlways, PTL

\* SUCCESS means files that are there: all that the task recorded, for any
\* number of tasks with the same files (README.md, status table).
THEOREM SuccessIsSaved ==
    ASSUME Harmless
    PROVE  Spec /\ [][OwnFilesOnly]_vars => []SuccessMeansSaved
<1>1. SavedInv => SuccessMeansSaved
  BY DEF SavedInv, TaskInv, RecordedIsStored, HeldIsRunning, SuccessMeansSaved
<1> QED
  BY <1>1, SavedAlways, PTL

\* SUCCESS means the whole catalogue, whichever tasks saved its files: each
\* name has its object and the record of a task.
CatalogueIsSaved ==
    \A t \in Tasks : row[t].status = "SUCCESS" =>
        \A n \in Names : n \in objects /\ \E u \in Tasks : n \in recorded[u]

\* A task is completed only when every name of its catalogue is saved, by it
\* or by another task (download_handler.py, _run, which completes a task only
\* when the API lists no name).
THEOREM SuccessMeansCatalogue ==
    ASSUME Harmless
    PROVE  Spec /\ [][OwnFilesOnly]_vars => []CatalogueIsSaved
<1>1. SavedInv => CatalogueIsSaved
  BY DEF SavedInv, TaskInv, SuccessIsComplete, DelistedIsSaved, Safe, CatalogueIsSaved
<1> QED
  BY <1>1, SavedAlways, PTL

\* Of a task that runs alone all this is true, and SUCCESS means that it
\* recorded every name, and that the store holds these objects and no other:
\* those included that failed uploads and interrupted attempts left behind.
THEOREM AloneIsSaved ==
    ASSUME Alone, Harmless
    PROVE  Spec => []MarkedIsSaved /\ []RecordHasObject /\ []SuccessIsExact
<1>1. SavedInv => SuccessIsExact
  <2> SUFFICES ASSUME SavedInv, NEW t \in Tasks, row[t].status = "SUCCESS"
               PROVE  recorded[t] = Names /\ objects = Names
    BY DEF SuccessIsExact
  <2>1. TaskInv(t) /\ recorded[t] \subseteq Names /\ objects \subseteq Names
    BY DEF SavedInv, TypesInv, TypeOK
  <2>2. \A n \in Names : n \in objects /\ n \in recorded[t]
    BY <2>1 DEF Alone, SavedInv, TaskInv, SuccessIsComplete, DelistedIsSaved, Safe
  <2> QED
    BY <2>1, <2>2
<1> QED
  BY <1>1, AloneOwns, SavedAlways, MarkedFilesAreSaved, RecordsHaveObjects, PTL

\* Workers that die at any step, and nothing else, lose no file of any number
\* of tasks that download the same catalogue at once: what a dead worker left
\* is found by the next attempt, and nobody deletes it.
THEOREM CrashesLoseNothing ==
    ASSUME OnlyCrashes
    PROVE  Spec => []MarkedIsSaved /\ []RecordHasObject /\ []SuccessMeansSaved
<1>1. Harmless
  BY DEF OnlyCrashes, Harmless
<1> QED
  BY <1>1, CrashesOwn, MarkedFilesAreSaved, RecordsHaveObjects, SuccessIsSaved, PTL

-----------------------------------------------------------------------------
(* What a fault costs.  The faults that Harmless excludes do happen here.   *)

\* The faults so far, but for a failed query whose cleanup is still to come.
Charged(t) == IF t \in aborted THEN faults - 1 ELSE faults

\* A file that the archive was to hold, and that nobody will save.
Uncovered(t, n) ==
    /\ run[t].pc \in {"extract", "uploaded"}
    /\ n \in ToSet(run[t].batch)
    /\ n \notin run[t].todo
    /\ n \notin recorded[t]
    /\ ~(run[t].pc = "uploaded" /\ run[t].file = n)

\* The names that are lost, that are skipped without an object, or that are
\* marked though they are not saved, when nothing fails from now on; those
\* too that are no longer listed and that a cleanup would delete.
AtRisk(t) ==
    {n \in Names :
        \/ n \notin Listed(t) /\ ~(Safe(t, n) /\ n \in objects)
        \/ n \in Orphans(t)
        \/ Uncovered(t, n)}

BatchIsBounded(t) == Cardinality(ToSet(run[t].batch)) <= BATCH_SIZE

DamageInv ==
    /\ TypesInv
    /\ \A t \in Tasks :
          /\ UploadedIsStored(t) /\ BatchIsBounded(t)
          /\ Cardinality(Orphans(t)) <= Charged(t)
          /\ Cardinality(AtRisk(t)) <= BATCH_SIZE * Charged(t)

\* A step that puts nothing at risk, and one that a fault pays for: it leaves
\* one record without object, or loses a batch.
Free(t) ==
    /\ Orphans(t)' \subseteq Orphans(t)
    /\ AtRisk(t)' \subseteq AtRisk(t)

PaidFor(t, n, names) ==
    /\ Orphans(t)' \subseteq Orphans(t) \cup {n}
    /\ AtRisk(t)' \subseteq AtRisk(t) \cup names
    /\ names \in {{n}, ToSet(run[t].batch)}
    /\ Charged(t)' >= Charged(t) + 1

Paid(t) == \E n, names : PaidFor(t, n, names)

\* Faults only grow, and a query that fails is a fault of its own.
FaultsGrow(t) ==
    \/ faults' = faults /\ aborted' \in {aborted, aborted \ {t}}
    \/ faults' = faults + 1 /\ aborted' \in {aborted, aborted \ {t}, aborted \cup {t}}

LEMMA FaultsGrowNext ==
    ASSUME NEW t \in Tasks, TaskStep(t)
    PROVE  FaultsGrow(t)
<1> USE DEF FaultsGrow
<1>1. CASE Claim(t) \/ Reclaim(t) \/ Crash(t)
  BY <1>1 DEF Claim, Reclaim, Crash, RolledBack, Fault
<1>2. CASE \/ SaveOutcome(t) \/ SaveRefused(t)
           \/ GetNames(t) \/ NoMoreNames(t) \/ SaveReceived(t) \/ SaveProcessed(t)
           \/ TakeBatch(t) \/ RequestArchive(t) \/ RecordFile(t) \/ MarkDownloaded(t)
           \/ CleanupDone(t) \/ \E n \in Names : SkipFile(t, n) \/ UploadFile(t, n)
  BY <1>2
     DEF SaveOutcome, SaveRefused, GetNames, NoMoreNames, SaveReceived, SaveProcessed,
         TakeBatch, RequestArchive, RecordFile, MarkDownloaded, SkipFile, UploadFile,
         CleanupDone, RolledBack
<1>3. CASE DeleteRecord(t) \/ \E n \in Names : DeleteObject(t, n)
  BY <1>3 DEF DeleteRecord, DeleteObject, RolledBack, Fault
<1>4. CASE GetNamesError(t) \/ SaveCountersError(t) \/ RequestArchiveError(t)
  BY <1>4 DEF GetNamesError, SaveCountersError, RequestArchiveError, Fault
<1>5. CASE RequestOtherArchive(t) \/ MarkError(t) \/ SaveOutcomeError(t)
  BY <1>5 DEF RequestOtherArchive, MarkError, SaveOutcomeError, Fault
<1>6. CASE ExtractError(t)
  BY <1>6 DEF ExtractError, Fault
<1> QED
  BY <1>1, <1>2, <1>3, <1>4, <1>5, <1>6 DEF TaskStep, Work, Failure

LEMMA ChargedGrows ==
    ASSUME TypeOK, NEW t \in Tasks, TaskStep(t)
    PROVE  Charged(t) \in Int /\ Charged(t)' \in Int /\ Charged(t)' >= Charged(t)
<1>1. faults \in Nat
  BY ProcessFilesAssumption DEF TypeOK
<1>2. FaultsGrow(t)
  BY FaultsGrowNext
<1> QED
  BY <1>1, <1>2 DEF FaultsGrow, Charged

\* A fault that leaves no failed transaction, and the end of one.
LEMMA ChargedMore ==
    ASSUME TypeOK, NEW t \in Tasks,
           \/ faults' = faults + 1 /\ aborted' \subseteq aborted
           \/ t \in aborted /\ aborted' = aborted \ {t} /\ UNCHANGED faults
    PROVE  Charged(t)' >= Charged(t) + 1
<1>1. faults \in Nat
  BY ProcessFilesAssumption DEF TypeOK
<1> QED
  BY <1>1 DEF Charged

\* A step outside the extraction and the deletion of records.
LEMMA QuietIsFree ==
    ASSUME TypesInv, NEW t \in Tasks,
           UNCHANGED <<recorded, listed>>, objects \subseteq objects',
           run[t].pc # "unrecord",
           run'[t].pc \notin {"extract", "uploaded", "unrecord"},
           run'[t].pc \in BatchPlaces =>
               run'[t].kept = {} \/ (run[t].pc \in BatchPlaces /\ run'[t].kept = run[t].kept)
    PROVE  UploadedIsStored(t)' /\ Free(t)
<1>1. Listed(t)' = Listed(t)
  BY ListedNext DEF TypesInv
<1>2. UploadedIsStored(t)'
  BY DEF UploadedIsStored
<1>3. Orphans(t)' \subseteq Orphans(t)
  BY DEF Orphans
<1>4. \A n \in Names : (Safe(t, n) => Safe(t, n)') /\ ~Uncovered(t, n)'
  BY DEF Safe, Uncovered
<1>5. AtRisk(t)' \subseteq AtRisk(t)
  BY <1>1, <1>3, <1>4 DEF AtRisk
<1> QED
  BY <1>2, <1>3, <1>5 DEF Free

LEMMA QuietCosts ==
    ASSUME TypesInv, NEW t \in Tasks,
           \/ Claim(t) \/ Reclaim(t) \/ SaveOutcome(t) \/ SaveRefused(t)
           \/ GetNames(t) \/ NoMoreNames(t) \/ SaveReceived(t) \/ SaveProcessed(t)
           \/ TakeBatch(t) \/ CleanupDone(t)
           \/ GetNamesError(t) \/ SaveCountersError(t) \/ RequestArchiveError(t)
           \/ ExtractError(t) \/ SaveOutcomeError(t)
           \/ Crash(t) /\ run[t].pc # "unrecord"
           \/ MarkError(t) /\ UNCHANGED listed,
           HeldIsRunning(t)
    PROVE  UploadedIsStored(t)' /\ Free(t)
<1> USE DEF TypesInv, BatchPlaces
<1>1. CASE Claim(t)
  <2>1. run'[t].pc = "loop"
    BY <1>1, ClaimMoves DEF Moves
  <2>2. run[t].pc = "idle"
    BY <1>1 DEF Claim, HeldIsRunning
  <2> QED
    BY <1>1, <2>1, <2>2, QuietIsFree DEF Claim
<1>2. CASE Reclaim(t)
  BY <1>2, QuietIsFree DEF Reclaim
<1>3. CASE SaveOutcome(t) \/ SaveRefused(t) \/ SaveOutcomeError(t)
  <2>1. run'[t].pc = "idle" /\ run[t].pc = "settle"
    BY <1>3, IdleMoves DEF SaveOutcome, SaveRefused, SaveOutcomeError, Moves
  <2> QED
    BY <1>3, <2>1, QuietIsFree DEF SaveOutcome, SaveRefused, SaveOutcomeError
<1>4. CASE GetNames(t)
  <2>1. run'[t].pc = "received" /\ run[t].pc = "loop"
    BY <1>4, GetNamesMoves DEF MovesTo, EndsWith, Moves, GetNames
  <2> QED
    BY <1>4, <2>1, QuietIsFree DEF GetNames
<1>5. CASE NoMoreNames(t) \/ GetNamesError(t) \/ SaveCountersError(t)
  <2>1. run'[t].pc = "settle" /\ run[t].pc \in {"loop", "received", "processed"}
    BY <1>5, SettleMoves DEF NoMoreNames, GetNamesError, SaveCountersError, EndsWith, Moves
  <2>2. UNCHANGED <<recorded, objects, listed>>
    BY <1>5 DEF NoMoreNames, GetNamesError, SaveCountersError
  <2> QED
    BY <2>1, <2>2, QuietIsFree
<1>6. CASE SaveReceived(t) \/ SaveProcessed(t)
  <2>1. run'[t].pc \in {"batch", "loop"} /\ run[t].pc \in {"received", "processed"}
    BY <1>6, PcMoves DEF SaveReceived, SaveProcessed, MovesTo, EndsWith, Moves
  <2> QED
    BY <1>6, <2>1, QuietIsFree DEF SaveReceived, SaveProcessed
<1>7. CASE TakeBatch(t)
  <2>1. run'[t].pc = "request" /\ run'[t].kept = {} /\ run[t].pc \in {"batch", "loop"}
    BY <1>7, TakeBatchMoves DEF TakeBatch, BatchReady, Moves
  <2> QED
    BY <1>7, <2>1, QuietIsFree DEF TakeBatch
<1>8. CASE CleanupDone(t)
  <2>1. run'[t].pc = "settle" /\ run[t].pc = "cleanup"
    BY <1>8, CleanupDoneMoves DEF CleanupDone, MovesTo, EndsWith, Moves
  <2> QED
    BY <1>8, <2>1, QuietIsFree DEF CleanupDone
<1>9. CASE RequestArchiveError(t) \/ ExtractError(t) \/ (MarkError(t) /\ UNCHANGED listed)
  <2>1. /\ run'[t].pc = "cleanup" /\ run'[t].kept = run[t].kept
        /\ run[t].pc \in {"request", "extract", "uploaded"}
    BY <1>9, AbortMoves
       DEF RequestArchiveError, ExtractError, MarkError, EndsWith, Moves
  <2>2. UNCHANGED <<recorded, listed>> /\ objects \subseteq objects'
    BY <1>9 DEF RequestArchiveError, ExtractError, MarkError
  <2> QED
    BY <2>1, <2>2, QuietIsFree
<1>10. CASE Crash(t) /\ run[t].pc # "unrecord"
  <2>1. run'[t].pc = "idle"
    BY <1>10, IdleMoves DEF Crash, Moves
  <2> QED
    BY <1>10, <2>1, QuietIsFree DEF Crash
<1> QED
  BY <1>1, <1>2, <1>3, <1>4, <1>5, <1>6, <1>7, <1>8, <1>9, <1>10

\* The files of an archive with the batch are saved one by one, and marked.
LEMMA ArchiveCosts ==
    ASSUME TypesInv, NEW t \in Tasks, UploadedIsStored(t),
           \/ RequestArchive(t) \/ RecordFile(t) \/ MarkDownloaded(t)
           \/ \E n \in Names : SkipFile(t, n) \/ UploadFile(t, n)
    PROVE  UploadedIsStored(t)' /\ Free(t)
<1> USE DEF TypesInv, BatchPlaces
<1>1. ASSUME UNCHANGED listed
      PROVE  Listed(t)' = Listed(t)
  BY <1>1, ListedNext
<1>2. CASE RequestArchive(t)
  <2>1. /\ run'[t].pc = "extract" /\ run'[t].kept = run[t].kept
        /\ run'[t].todo = ToSet(run'[t].batch)
    BY <1>2, ArchiveMoves DEF Moves
  <2>2. run[t].pc = "request" /\ UNCHANGED <<recorded, objects>> /\ Listed(t)' = Listed(t)
    BY <1>1, <1>2 DEF RequestArchive
  <2>3. \A n \in Names : (Safe(t, n) => Safe(t, n)') /\ ~Uncovered(t, n)'
    BY <2>1, <2>2 DEF Safe, Uncovered
  <2> QED
    BY <2>1, <2>2, <2>3 DEF UploadedIsStored, Free, Orphans, AtRisk
<1>3. CASE RecordFile(t)
  <2>1. /\ run'[t].pc = "extract" /\ run'[t].batch = run[t].batch
        /\ run'[t].todo = run[t].todo /\ run'[t].kept = run[t].kept \cup {run[t].file}
    BY <1>3, RecordMoves DEF Moves
  <2>2. /\ run[t].pc = "uploaded" /\ UNCHANGED objects /\ Listed(t)' = Listed(t)
        /\ recorded'[t] = recorded[t] \cup {run[t].file}
    BY <1>1, <1>3 DEF RecordFile, TypeOK
  <2>3. run[t].file \in objects /\ run[t].file \notin recorded[t]
    BY <2>2 DEF UploadedIsStored
  <2>4. \A n \in Names : (Safe(t, n) => Safe(t, n)') /\ (Uncovered(t, n)' => Uncovered(t, n))
    BY <2>1, <2>2, <2>3 DEF Safe, Uncovered
  <2>5. Orphans(t)' \subseteq Orphans(t)
    BY <2>1, <2>2, <2>3 DEF Orphans
  <2>6. AtRisk(t)' \subseteq AtRisk(t)
    BY <2>2, <2>4, <2>5 DEF AtRisk
  <2> QED
    BY <2>1, <2>5, <2>6 DEF UploadedIsStored, Free
<1>4. CASE MarkDownloaded(t)
  <2>1. run'[t].pc = "processed"
    BY <1>4, MarkMoves DEF MovesTo, EndsWith, Moves
  <2>2. /\ run[t].pc = "extract" /\ run[t].todo = {}
        /\ UNCHANGED <<recorded, objects>>
        /\ Listed(t)' = Listed(t) \ ToSet(run[t].batch)
    BY <1>4, ListedNext DEF MarkDownloaded
  <2>3. \A n \in Names : (n \in recorded[t] => Safe(t, n)') /\ ~Uncovered(t, n)'
    BY <2>1, <2>2 DEF Safe, Uncovered
  <2>4. Orphans(t)' \subseteq Orphans(t)
    BY <2>1, <2>2 DEF Orphans
  <2>5. \A n \in Names : n \notin AtRisk(t) /\ n \notin Listed(t)'
                            => Safe(t, n)' /\ n \in objects'
    <3> SUFFICES ASSUME NEW n \in Names, n \notin AtRisk(t), n \notin Listed(t)'
                 PROVE  n \in recorded[t] /\ n \in objects
      BY <2>2, <2>3
    <3>1. CASE n \notin Listed(t)
      BY <3>1 DEF AtRisk, Safe
    <3>2. CASE n \in ToSet(run[t].batch)
      BY <2>2, <3>2 DEF AtRisk, Uncovered, Orphans
    <3> QED
      BY <2>2, <3>1, <3>2
  <2>6. AtRisk(t)' \subseteq AtRisk(t)
    BY <2>3, <2>4, <2>5 DEF AtRisk
  <2> QED
    BY <2>1, <2>4, <2>6 DEF UploadedIsStored, Free
<1>5. ASSUME NEW n \in Names, SkipFile(t, n)
      PROVE  UploadedIsStored(t)' /\ Free(t)
  <2>1. /\ run'[t].pc = "extract" /\ run'[t].batch = run[t].batch
        /\ run'[t].todo = run[t].todo \ {n} /\ run'[t].kept = run[t].kept
    BY <1>5, SkipMoves DEF Moves
  <2>2. /\ run[t].pc = "extract" /\ n \in recorded[t]
        /\ UNCHANGED <<recorded, objects>> /\ Listed(t)' = Listed(t)
    BY <1>1, <1>5 DEF SkipFile
  <2>3. \A m \in Names : (Safe(t, m) => Safe(t, m)') /\ (Uncovered(t, m)' => Uncovered(t, m))
    BY <2>1, <2>2 DEF Safe, Uncovered
  <2> QED
    BY <2>1, <2>2, <2>3 DEF UploadedIsStored, Free, Orphans, AtRisk
<1>6. ASSUME NEW n \in Names, UploadFile(t, n)
      PROVE  UploadedIsStored(t)' /\ Free(t)
  <2>1. /\ run'[t].pc = "uploaded" /\ run'[t].batch = run[t].batch
        /\ run'[t].todo = run[t].todo \ {n} /\ run'[t].kept = run[t].kept
        /\ run'[t].file = n
    BY <1>6, UploadMoves DEF Moves
  <2>2. /\ run[t].pc = "extract" /\ n \notin recorded[t]
        /\ objects' = objects \cup {n} /\ UNCHANGED recorded /\ Listed(t)' = Listed(t)
    BY <1>1, <1>6 DEF UploadFile
  <2>3. \A m \in Names : (Safe(t, m) => Safe(t, m)') /\ (Uncovered(t, m)' => Uncovered(t, m))
    BY <2>1, <2>2 DEF Safe, Uncovered
  <2>4. Orphans(t)' \subseteq Orphans(t)
    BY <2>1, <2>2 DEF Orphans
  <2>5. AtRisk(t)' \subseteq AtRisk(t)
    BY <2>2, <2>3, <2>4 DEF AtRisk
  <2> QED
    BY <2>1, <2>2, <2>4, <2>5 DEF UploadedIsStored, Free
<1> QED
  BY <1>2, <1>3, <1>4, <1>5, <1>6

\* The cleanup deletes what was at risk already, and a record that it cannot
\* delete is paid for.
LEMMA CleanupCosts ==
    ASSUME TypesInv, NEW t \in Tasks,
           \/ DeleteRecord(t) \/ \E n \in Names : DeleteObject(t, n)
           \/ Crash(t) /\ run[t].pc = "unrecord"
    PROVE  UploadedIsStored(t)' /\ (Free(t) \/ Paid(t))
<1> USE DEF TypesInv, BatchPlaces
<1>1. Listed(t)' = Listed(t)
  BY ListedNext DEF DeleteRecord, DeleteObject, Crash
<1>2. ASSUME NEW n \in Names, DeleteObject(t, n)
      PROVE  UploadedIsStored(t)' /\ Free(t)
  <2>1. /\ run'[t].pc = "unrecord" /\ run'[t].file = n
        /\ run'[t].kept = run[t].kept \ {n}
    BY <1>2, DeleteMoves DEF Moves
  <2>2. /\ run[t].pc = "cleanup" /\ n \in run[t].kept /\ UNCHANGED recorded
        /\ objects \ {n} \subseteq objects'
    BY <1>2 DEF DeleteObject
  <2>3. \A m \in Names :
           (Safe(t, m) => Safe(t, m)' /\ m # n) /\ ~Uncovered(t, m)'
    BY <2>1, <2>2 DEF Safe, Uncovered
  <2>4. Orphans(t)' \subseteq Orphans(t)
    BY <2>1, <2>2 DEF Orphans
  <2>5. AtRisk(t)' \subseteq AtRisk(t)
    BY <1>1, <2>2, <2>3, <2>4 DEF AtRisk
  <2> QED
    BY <2>1, <2>4, <2>5 DEF UploadedIsStored, Free
<1>3. CASE DeleteRecord(t) /\ recorded'[t] = recorded[t] \ {run[t].file}
  <2>1. run'[t].pc = "cleanup" /\ run'[t].kept = run[t].kept
    BY <1>3, PcMoves DEF DeleteRecord, MovesTo, EndsWith, Moves
  <2>2. run[t].pc = "unrecord" /\ UNCHANGED objects
    BY <1>3 DEF DeleteRecord
  <2>3. \A m \in Names : (Safe(t, m) => Safe(t, m)') /\ ~Uncovered(t, m)'
    BY <1>3, <2>1, <2>2 DEF Safe, Uncovered
  <2>4. Orphans(t)' \subseteq Orphans(t)
    BY <1>3, <2>1, <2>2 DEF Orphans
  <2>5. AtRisk(t)' \subseteq AtRisk(t)
    BY <1>1, <2>2, <2>3, <2>4 DEF AtRisk
  <2> QED
    BY <2>1, <2>4, <2>5 DEF UploadedIsStored, Free
<1>4. CASE \/ DeleteRecord(t) /\ UNCHANGED recorded /\ Charged(t)' >= Charged(t) + 1
           \/ Crash(t) /\ run[t].pc = "unrecord"
  <2>1. /\ run'[t].pc \in {"cleanup", "idle"}
        /\ run'[t].pc = "cleanup" => run'[t].kept = run[t].kept
    BY <1>4, PcMoves, IdleMoves DEF DeleteRecord, Crash, MovesTo, EndsWith, Moves
  <2>2. run[t].pc = "unrecord" /\ UNCHANGED <<objects, recorded>>
    BY <1>4 DEF DeleteRecord, Crash
  <2>3. Charged(t)' >= Charged(t) + 1
    BY <1>4, ChargedMore DEF Crash, InCleanup, Fault, RolledBack
  <2>4. \A m \in Names : (Safe(t, m) => Safe(t, m)') /\ ~Uncovered(t, m)'
    BY <2>1, <2>2 DEF Safe, Uncovered
  <2>5. Orphans(t)' \subseteq Orphans(t) \cup {run[t].file}
    BY <2>1, <2>2 DEF Orphans
  <2>6. AtRisk(t)' \subseteq AtRisk(t) \cup {run[t].file}
    BY <1>1, <2>2, <2>4, <2>5 DEF AtRisk
  <2> QED
    BY <2>1, <2>3, <2>5, <2>6 DEF UploadedIsStored, Paid, PaidFor
<1>5. ASSUME DeleteRecord(t)
      PROVE  \/ recorded'[t] = recorded[t] \ {run[t].file}
             \/ UNCHANGED recorded /\ Charged(t)' >= Charged(t) + 1
  BY <1>5, ChargedMore DEF DeleteRecord, RolledBack, Fault, TypeOK
<1> QED
  BY <1>2, <1>3, <1>4, <1>5

\* A batch that is marked without an answer, or taken for another archive.
LEMMA BatchCosts ==
    ASSUME TypesInv, NEW t \in Tasks,
           RequestOtherArchive(t) \/ (MarkError(t) /\ ~UNCHANGED listed)
    PROVE  UploadedIsStored(t)' /\ Paid(t)
<1> USE DEF TypesInv, BatchPlaces
<1> DEFINE names == ToSet(run[t].batch)
<1>1. CASE RequestOtherArchive(t)
  <2>1. /\ run'[t].pc = "extract" /\ run'[t].batch = run[t].batch
        /\ run'[t].kept = run[t].kept
    BY <1>1, OtherArchiveMoves DEF Moves
  <2>2. /\ run[t].pc = "request" /\ UNCHANGED <<recorded, objects>>
        /\ Listed(t)' = Listed(t)
    BY <1>1, ListedNext DEF RequestOtherArchive
  <2>3. \A m \in Names : (Safe(t, m) => Safe(t, m)') /\ (Uncovered(t, m)' => m \in names)
    BY <2>1, <2>2 DEF Safe, Uncovered
  <2>4. Orphans(t)' \subseteq Orphans(t)
    BY <2>1, <2>2 DEF Orphans
  <2>5. AtRisk(t)' \subseteq AtRisk(t) \cup names
    BY <2>2, <2>3, <2>4 DEF AtRisk
  <2>6. Charged(t)' >= Charged(t) + 1
    BY <1>1, ChargedMore DEF RequestOtherArchive, Fault
  <2> QED
    BY <2>1, <2>4, <2>5, <2>6 DEF UploadedIsStored, Paid, PaidFor
<1>2. CASE MarkError(t) /\ ~UNCHANGED listed
  <2>1. run'[t].pc = "cleanup" /\ run'[t].kept = run[t].kept
    BY <1>2, AbortMoves DEF MarkError, EndsWith, Moves
  <2>2. /\ run[t].pc = "extract" /\ UNCHANGED <<recorded, objects>>
        /\ Listed(t)' = Listed(t) \ names
    BY <1>2, ListedNext DEF MarkError
  <2>3. \A m \in Names : (Safe(t, m) => Safe(t, m)') /\ ~Uncovered(t, m)'
    BY <2>1, <2>2 DEF Safe, Uncovered
  <2>4. Orphans(t)' \subseteq Orphans(t)
    BY <2>1, <2>2 DEF Orphans
  <2>5. AtRisk(t)' \subseteq AtRisk(t) \cup names
    BY <2>2, <2>3, <2>4 DEF AtRisk
  <2>6. Charged(t)' >= Charged(t) + 1
    BY <1>2, ChargedMore DEF MarkError, Fault
  <2> QED
    BY <2>1, <2>4, <2>5, <2>6 DEF UploadedIsStored, Paid, PaidFor
<1> QED
  BY <1>1, <1>2

LEMMA StepCosts ==
    ASSUME DamageInv, NEW t \in Tasks, HeldIsRunning(t), TaskStep(t)
    PROVE  UploadedIsStored(t)' /\ (Free(t) \/ Paid(t))
<1>1. TypesInv /\ UploadedIsStored(t)
  BY DEF DamageInv
<1>2. CASE Claim(t) \/ Reclaim(t) \/ Crash(t)
  BY <1>1, <1>2, QuietCosts, CleanupCosts
<1>3. CASE Work(t)
  BY <1>1, <1>3, QuietCosts, ArchiveCosts, CleanupCosts DEF Work
<1>4. CASE Failure(t)
  BY <1>1, <1>4, QuietCosts, BatchCosts DEF Failure
<1> QED
  BY <1>2, <1>3, <1>4 DEF TaskStep

\* A batch has at most BATCH_SIZE names.
LEMMA NamesOfSequence ==
    ASSUME NEW s \in Seq(Names)
    PROVE  Cardinality(ToSet(s)) <= Len(s)
<1> DEFINE S == 1..Len(s)
           T == ToSet(s)
           f == [i \in S |-> s[i]]
<1>1. IsFiniteSet(S) /\ Cardinality(S) = Len(s)
  <2>1. Len(s) \in Nat
    OBVIOUS
  <2> QED
    BY <2>1, FS_Interval
<1>2. f \in Surjection(S, T)
  BY DEF Surjection, ToSet
<1> HIDE DEF S, T, f
<1>3. Cardinality(T) <= Cardinality(S)
  BY <1>1, <1>2, FS_Surjection
<1> QED
  BY <1>1, <1>3 DEF T

LEMMA TakeBatchIsBounded ==
    ASSUME TypeOK, NEW t \in Tasks, TakeBatch(t)
    PROVE  Len(run'[t].batch) <= BATCH_SIZE
<1> DEFINE p == run[t].pending
           k == IF Len(p) < BATCH_SIZE THEN Len(p) ELSE BATCH_SIZE
           a == SubSeq(p, 1, k)
           b == SubSeq(p, k + 1, Len(p))
           q == [run[t] EXCEPT !.pc = "request", !.batch = a, !.pending = b, !.kept = {}]
<1>1. GoOn(t, q)
  BY DEF TakeBatch
<1>2. p \in Seq(Names) /\ Len(p) \in Nat /\ run[t] \in RunType
  BY RunFieldsType
<1>3. k \in 0..Len(p) /\ k <= BATCH_SIZE
  BY <1>2, ProcessFilesAssumption
<1>4. Len(a) = k
  <2> HIDE DEF p, k
  <2> QED
    BY <1>2, <1>3, SubSeqProperties
<1> HIDE DEF a, b, k
<1>5. q.batch = a
  BY <1>2 DEF RunType
<1> HIDE DEF q
<1>6. run'[t] = q
  BY <1>1 DEF GoOn, TypeOK
<1> QED
  BY <1>3, <1>4, <1>5, <1>6

LEMMA BatchNext ==
    ASSUME TypesInv, TypesInv', NEW t \in Tasks, BatchIsBounded(t), TaskStep(t)
    PROVE  BatchIsBounded(t)'
<1> USE DEF TypesInv
<1>1. ASSUME run'[t].batch = run[t].batch
      PROVE  BatchIsBounded(t)'
  BY <1>1 DEF BatchIsBounded
<1>2. ASSUME run'[t].batch = <<>>
      PROVE  BatchIsBounded(t)'
  <2>1. ToSet(run'[t].batch) = {}
    BY <1>2 DEF ToSet
  <2>2. Cardinality({}) = 0
    BY FS_EmptySet
  <2> QED
    BY <2>1, <2>2, ProcessFilesAssumption DEF BatchIsBounded
<1>3. CASE TakeBatch(t)
  <2>1. Len(run'[t].batch) <= BATCH_SIZE
    BY <1>3, TakeBatchIsBounded
  <2>2. run'[t].batch \in Seq(Names)
    BY DEF TypeOK, RunType
  <2>3. /\ Cardinality(ToSet(run'[t].batch)) <= Len(run'[t].batch)
        /\ Len(run'[t].batch) \in Nat
    BY <2>2, NamesOfSequence
  <2>4. Cardinality(ToSet(run'[t].batch)) \in Nat
    <3>1. ToSet(run'[t].batch) \subseteq Names
      BY <2>2 DEF ToSet
    <3> QED
      BY <3>1, ProcessFilesAssumption, FS_Subset, FS_CardinalityType
  <2> QED
    BY <2>1, <2>3, <2>4, ProcessFilesAssumption DEF BatchIsBounded
<1>4. CASE Reclaim(t)
  BY <1>1, <1>4 DEF Reclaim
<1>5. CASE Claim(t) \/ Crash(t)
  BY <1>2, <1>5, ClaimMoves, IdleMoves DEF Crash, Moves
<1>6. CASE Work(t) /\ ~TakeBatch(t)
  <2>1. CASE SaveOutcome(t) \/ SaveRefused(t)
    BY <1>2, <2>1, IdleMoves DEF SaveOutcome, SaveRefused, Moves
  <2>2. CASE NoMoreNames(t) \/ SaveReceived(t) \/ SaveProcessed(t) \/ DeleteRecord(t)
    BY <1>1, <2>2, SettleMoves, PcMoves
       DEF NoMoreNames, SaveReceived, SaveProcessed, DeleteRecord, MovesTo, EndsWith, Moves
  <2>3. CASE GetNames(t) \/ RequestArchive(t) \/ RecordFile(t)
    BY <1>1, <2>3, GetNamesMoves, ArchiveMoves, RecordMoves DEF MovesTo, EndsWith, Moves
  <2>4. CASE MarkDownloaded(t) \/ CleanupDone(t)
    BY <1>1, <2>4, MarkMoves, CleanupDoneMoves DEF MovesTo, EndsWith, Moves
  <2>5. CASE \E n \in Names : SkipFile(t, n) \/ UploadFile(t, n) \/ DeleteObject(t, n)
    BY <1>1, <2>5, SkipMoves, UploadMoves, DeleteMoves DEF Moves
  <2> QED
    BY <1>6, <2>1, <2>2, <2>3, <2>4, <2>5 DEF Work
<1>7. CASE Failure(t)
  BY <1>1, <1>2, <1>7, FailureMoves DEF EndsWith, Moves
<1> QED
  BY <1>3, <1>4, <1>5, <1>6, <1>7 DEF TaskStep

\* What a set may grow to.
LEMMA GrowsBy ==
    ASSUME NEW S \in SUBSET Names, NEW T \in SUBSET Names, NEW U \in SUBSET (S \cup T)
    PROVE  /\ Cardinality(U) <= Cardinality(S) + Cardinality(T)
           /\ Cardinality(U) \in Nat /\ Cardinality(S) \in Nat /\ Cardinality(T) \in Nat
<1>1. IsFiniteSet(S) /\ IsFiniteSet(T) /\ IsFiniteSet(S \cup T) /\ IsFiniteSet(U)
  BY ProcessFilesAssumption, FS_Subset, FS_Union
<1>2. /\ Cardinality(S \cup T) = Cardinality(S) + Cardinality(T) - Cardinality(S \cap T)
      /\ IsFiniteSet(S \cap T)
  BY <1>1, FS_Union, FS_Subset
<1>3. /\ Cardinality(S) \in Nat /\ Cardinality(T) \in Nat /\ Cardinality(U) \in Nat
      /\ Cardinality(S \cup T) \in Nat /\ Cardinality(S \cap T) \in Nat
  BY <1>1, <1>2, FS_CardinalityType
<1>4. Cardinality(U) <= Cardinality(S \cup T)
  BY <1>1, FS_Subset
<1> QED
  BY <1>2, <1>3, <1>4

LEMMA Products ==
    ASSUME NEW b \in Nat, NEW i \in Int, NEW j \in Int, i <= j
    PROVE  /\ b * i \in Int /\ b * j \in Int /\ b * i <= b * j
           /\ b * (i + 1) = b * i + b
OBVIOUS

LEMMA DamageStep ==
    ASSUME Alone, CountersInv, DamageInv, NEW t \in Tasks, TaskStep(t)
    PROVE  DamageInv'
<1>1. TypesInv /\ HeldIsRunning(t)
  BY DEF CountersInv, TaskCounters, DamageInv
<1>2. TypesInv'
  BY <1>1, TypesNext DEF Next, TaskStep
<1>3. /\ UploadedIsStored(t) /\ BatchIsBounded(t)
      /\ Cardinality(Orphans(t)) <= Charged(t)
      /\ Cardinality(AtRisk(t)) <= BATCH_SIZE * Charged(t)
  BY DEF DamageInv
<1>4. UploadedIsStored(t)' /\ BatchIsBounded(t)' /\ (Free(t) \/ Paid(t))
  BY <1>1, <1>2, <1>3, StepCosts, BatchNext
<1>5. Charged(t) \in Int /\ Charged(t)' \in Int /\ Charged(t)' >= Charged(t)
  BY <1>1, ChargedGrows DEF TypesInv
<1>6. /\ Orphans(t) \in SUBSET Names /\ Orphans(t)' \in SUBSET Names
      /\ AtRisk(t) \in SUBSET Names /\ AtRisk(t)' \in SUBSET Names
  BY <1>1, <1>2 DEF Orphans, AtRisk, TypesInv, TypeOK
<1>7. BATCH_SIZE \in Nat /\ BATCH_SIZE >= 1
  BY ProcessFilesAssumption
<1>8. /\ Cardinality(Orphans(t)') <= Charged(t)'
      /\ Cardinality(AtRisk(t)') <= BATCH_SIZE * Charged(t)'
  <2>1. CASE Free(t)
    <3>1. /\ Cardinality(Orphans(t)') <= Cardinality(Orphans(t))
          /\ Cardinality(AtRisk(t)') <= Cardinality(AtRisk(t))
      BY <1>6, <2>1, ProcessFilesAssumption, FS_Subset DEF Free
    <3>2. /\ Cardinality(Orphans(t)) \in Nat /\ Cardinality(Orphans(t)') \in Nat
          /\ Cardinality(AtRisk(t)) \in Nat /\ Cardinality(AtRisk(t)') \in Nat
      BY <1>6, ProcessFilesAssumption, FS_Subset, FS_CardinalityType
    <3>3. /\ BATCH_SIZE * Charged(t) \in Int /\ BATCH_SIZE * Charged(t)' \in Int
          /\ BATCH_SIZE * Charged(t) <= BATCH_SIZE * Charged(t)'
      BY <1>5, <1>7, Products
    <3> QED
      BY <1>3, <1>5, <3>1, <3>2, <3>3
  <2>2. CASE Paid(t)
    <3>1. PICK n, names : PaidFor(t, n, names)
      BY <2>2 DEF Paid
    <3> DEFINE one == {n} \cap Names
               some == names \cap Names
    <3>2. /\ Cardinality(Orphans(t)') <= Cardinality(Orphans(t)) + Cardinality(one)
          /\ Cardinality(AtRisk(t)') <= Cardinality(AtRisk(t)) + Cardinality(some)
          /\ Cardinality(Orphans(t)) \in Nat /\ Cardinality(Orphans(t)') \in Nat
          /\ Cardinality(AtRisk(t)) \in Nat /\ Cardinality(AtRisk(t)') \in Nat
          /\ Cardinality(one) \in Nat /\ Cardinality(some) \in Nat
      <4>1. /\ Orphans(t)' \in SUBSET (Orphans(t) \cup one)
            /\ AtRisk(t)' \in SUBSET (AtRisk(t) \cup some)
        BY <1>6, <3>1 DEF PaidFor
      <4> HIDE DEF one, some
      <4>2. one \in SUBSET Names /\ some \in SUBSET Names
        BY DEF one, some
      <4> QED
        BY <1>6, <4>1, <4>2, GrowsBy
    <3>3. Cardinality(one) <= 1
      <4>1. IsFiniteSet({n}) /\ Cardinality({n}) = 1
        BY FS_Singleton
      <4>2. one \in SUBSET {n}
        OBVIOUS
      <4> HIDE DEF one
      <4> QED
        BY <4>1, <4>2, FS_Subset
    <3>4. Cardinality(some) <= BATCH_SIZE
      <4>1. CASE names = {n}
        <5>1. some = one
          BY <4>1
        <5> HIDE DEF one, some
        <5> QED
          BY <1>7, <3>2, <3>3, <5>1
      <4>2. CASE names = ToSet(run[t].batch)
        <5>1. ToSet(run[t].batch) \subseteq Names
          <6>1. run[t].batch \in Seq(Names)
            BY <1>1, RunFieldsType DEF TypesInv
          <6> QED
            BY <6>1 DEF ToSet
        <5>2. some = names
          BY <4>2, <5>1
        <5> QED
          BY <1>3, <4>2, <5>2 DEF BatchIsBounded
      <4> QED
        BY <3>1, <4>1, <4>2 DEF PaidFor
    <3>5. Charged(t)' >= Charged(t) + 1
      BY <3>1 DEF PaidFor
    <3>6. /\ BATCH_SIZE * Charged(t) \in Int /\ BATCH_SIZE * Charged(t)' \in Int
          /\ BATCH_SIZE * Charged(t) + BATCH_SIZE <= BATCH_SIZE * Charged(t)'
      <4>1. Charged(t) + 1 \in Int
        BY <1>5
      <4>2. BATCH_SIZE * (Charged(t) + 1) <= BATCH_SIZE * Charged(t)'
        BY <1>5, <1>7, <3>5, <4>1, Products
      <4> QED
        BY <1>5, <1>7, <4>2, Products
    <3> HIDE DEF one, some
    <3> QED
      BY <1>3, <1>5, <1>7, <3>2, <3>3, <3>4, <3>5, <3>6
  <2> QED
    BY <1>4, <2>1, <2>2
<1> QED
  BY <1>2, <1>4, <1>8 DEF Alone, DamageInv

LEMMA DamageNext ==
    ASSUME Alone, CountersInv, DamageInv, [Next]_vars
    PROVE  DamageInv'
<1>1. CASE Next
  BY <1>1, DamageStep DEF Next, TaskStep
<1>2. CASE UNCHANGED vars
  <2>1. TypesInv' /\ \A t \in Tasks : Listed(t)' = Listed(t)
    BY <1>2, TypesNext, ListedNext DEF vars, DamageInv, TypesInv
  <2>2. \A t \in Tasks, n \in Names :
           /\ Safe(t, n)' = Safe(t, n) /\ Uncovered(t, n)' = Uncovered(t, n)
    BY <1>2 DEF vars, Safe, Uncovered
  <2>3. \A t \in Tasks :
           /\ UploadedIsStored(t)' = UploadedIsStored(t)
           /\ BatchIsBounded(t)' = BatchIsBounded(t)
           /\ Orphans(t)' = Orphans(t) /\ Charged(t)' = Charged(t)
    BY <1>2 DEF vars, UploadedIsStored, BatchIsBounded, Orphans, Charged
  <2>4. \A t \in Tasks : AtRisk(t)' = AtRisk(t)
    BY <1>2, <2>1, <2>2, <2>3 DEF vars, AtRisk
  <2> QED
    BY <2>1, <2>3, <2>4 DEF DamageInv
<1> QED
  BY <1>1, <1>2

LEMMA InitDamage == Init => DamageInv
<1> SUFFICES ASSUME Init PROVE DamageInv
  OBVIOUS
<1>1. TypesInv /\ \A t \in Tasks : TaskInv(t) /\ DelistedIsSaved(t)
  BY InitSaved DEF SavedInv
<1>2. /\ NoRun.pc = "idle" /\ NoRun.batch = <<>>
      /\ \A t \in Tasks : run[t] = NoRun /\ recorded[t] = {} /\ Charged(t) = 0
                          /\ Listed(t) = Names
  BY ProcessFilesAssumption DEF Init, NoRun, Charged, Listed
<1>3. \A t \in Tasks : Orphans(t) = {} /\ AtRisk(t) = {} /\ ToSet(run[t].batch) = {}
  BY <1>2 DEF Orphans, AtRisk, Uncovered, ToSet
<1>4. Cardinality({}) = 0 /\ BATCH_SIZE \in Nat /\ BATCH_SIZE * 0 = 0
  BY FS_EmptySet, ProcessFilesAssumption
<1>5. ASSUME NEW t \in Tasks
      PROVE  /\ UploadedIsStored(t) /\ BatchIsBounded(t)
             /\ Cardinality(Orphans(t)) <= Charged(t)
             /\ Cardinality(AtRisk(t)) <= BATCH_SIZE * Charged(t)
  <2>1. UploadedIsStored(t) /\ Charged(t) = 0
    BY <1>1, <1>2 DEF TaskInv
  <2>2. Orphans(t) = {} /\ AtRisk(t) = {} /\ ToSet(run[t].batch) = {}
    BY <1>3
  <2> QED
    BY <1>4, <2>1, <2>2 DEF BatchIsBounded
<1> QED
  BY <1>1, <1>5 DEF DamageInv

LEMMA DamageAlways ==
    ASSUME Alone
    PROVE  Spec => [](TypesInv /\ DamageInv)
<1>1. CountersInv => TypesInv
  BY DEF CountersInv
<1> QED
  BY <1>1, InitCounters, CountersNext, InitDamage, DamageNext, PTL DEF Spec

\* However a task that runs alone is interrupted, blocked or refused, and
\* whatever its cleanups could not delete: a fault leaves at most one record
\* without object (download_handler.py, _cleanup_batch_files).
THEOREM FaultsLeaveOneRecordEach ==
    ASSUME Alone
    PROVE  Spec => []OneRecordAFault
<1>1. TypesInv /\ DamageInv => OneRecordAFault
  <2> SUFFICES ASSUME TypesInv, DamageInv, NEW t \in Tasks
               PROVE  Cardinality(Orphans(t)) <= faults
    BY DEF OneRecordAFault
  <2>1. /\ faults \in Nat /\ Cardinality(Orphans(t)) <= Charged(t)
        /\ Orphans(t) \in SUBSET Names
    BY ProcessFilesAssumption DEF TypesInv, TypeOK, DamageInv, Orphans
  <2>2. Cardinality(Orphans(t)) \in Nat
    BY <2>1, ProcessFilesAssumption, FS_Subset, FS_CardinalityType
  <2>3. Charged(t) \in Int /\ Charged(t) <= faults
    BY <2>1 DEF Charged
  <2> QED
    BY <2>1, <2>2, <2>3
<1> QED
  BY <1>1, DamageAlways, PTL

\* And of the files that the API was told of, a fault loses one batch at most:
\* what was marked and saved before stays.
THEOREM FaultsLoseOneBatchEach ==
    ASSUME Alone
    PROVE  Spec => []OneBatchAFault
<1>1. TypesInv /\ DamageInv => OneBatchAFault
  <2> SUFFICES ASSUME TypesInv, DamageInv, NEW t \in Tasks
               PROVE  Cardinality(Lost(t)) <= BATCH_SIZE * faults
    BY DEF OneBatchAFault
  <2>1. /\ faults \in Nat /\ BATCH_SIZE \in Nat
        /\ Cardinality(AtRisk(t)) <= BATCH_SIZE * Charged(t)
    BY ProcessFilesAssumption DEF TypesInv, TypeOK, DamageInv
  <2>2. AtRisk(t) \in SUBSET Names /\ Lost(t) \in SUBSET AtRisk(t)
    BY DEF AtRisk, Lost, Safe
  <2>3. /\ Cardinality(Lost(t)) <= Cardinality(AtRisk(t))
        /\ Cardinality(Lost(t)) \in Nat /\ Cardinality(AtRisk(t)) \in Nat
    BY <2>2, ProcessFilesAssumption, FS_Subset, FS_CardinalityType
  <2>4. Charged(t) \in Int /\ Charged(t) <= faults
    BY <2>1 DEF Charged
  <2>5. /\ BATCH_SIZE * Charged(t) \in Int /\ BATCH_SIZE * faults \in Int
        /\ BATCH_SIZE * Charged(t) <= BATCH_SIZE * faults
    BY <2>1, <2>4, Products
  <2> QED
    BY <2>1, <2>3, <2>5
<1> QED
  BY <1>1, DamageAlways, PTL
=============================================================================
