---------------------------- MODULE ProcessFiles ----------------------------
(***************************************************************************)
(* What ProcessFilesHandler does with the files of download tasks: between *)
(* the external API that lists, serves and is told of files, the object    *)
(* store, and the tables files and downloaded_files.                       *)
(*                                                                         *)
(* A task is executed by one worker at a time (module TaskLifecycle shows  *)
(* when that holds), and several tasks are executed at once.  Every        *)
(* request, upload, deletion and commit is a step of its own, after which  *)
(* the worker may die; a task that was interrupted or blocked comes back   *)
(* and is executed again from the start of the loop.                       *)
(*                                                                         *)
(* The row of a file in files and its row in downloaded_files are inserted *)
(* and deleted by the same transactions: recorded stands for both.  The    *)
(* content of a file is a function of its name, so that an object is its   *)
(* key, and the key is the name whatever the task (StorageKey).            *)
(***************************************************************************)
EXTENDS Integers, Sequences, FiniteSets, SequencesExt

CONSTANTS
    Tasks,
    Names,        \* the file names of the catalogue
    Candidates,   \* the X-Candidate-Id values, one catalogue each
    CandidateOf,  \* the candidate of each task
    BATCH_SIZE,   \* the 3 of pending[:3]
    Faults,       \* the kinds of fault that may happen
    MaxFaults     \* bound: how many faults happen

FaultKinds ==
    { "crash",          \* the worker dies anywhere but in a cleanup
      "crash_cleanup",  \* the worker dies in a cleanup
      "block",          \* a 403 whose Retry-After suspends the task
      "api",            \* a request fails without effect, or the archive is bad
      "archive",        \* an archive holds other files than it was asked for
      "mark_reply",     \* mark_downloaded takes effect, its answer is lost and
                        \* its retries fail, the last one perhaps by a block
      "s3",             \* an upload fails
      "db",             \* a transaction fails and is rolled back
      "db_query",       \* the query for a file fails, outside a unit of work:
                        \* it is not rolled back
      "s3_cleanup",     \* a deletion of a cleanup fails at the object store
      "db_cleanup" }    \* or at the database

ASSUME ProcessFilesAssumption ==
    /\ IsFiniteSet(Names)
    /\ CandidateOf \in [Tasks -> Candidates]
    /\ BATCH_SIZE \in Nat \ {0}
    /\ Faults \subseteq FaultKinds
    /\ MaxFaults \in Nat

VARIABLES
    row,       \* download_tasks: status, attempts and the two counters
    recorded,  \* the names each task has in downloaded_files (and files)
    objects,   \* the keys of the object store
    listed,    \* the names the API still lists for each candidate
    run,       \* the handler's local state for each task
    aborted,   \* the tasks whose worker's session is in a failed transaction
    faults     \* faults so far

vars == <<row, recorded, objects, listed, run, aborted, faults>>

\* pc is where the handler stands, file the file it is busy with, kept the
\* batch_file_entities, outcome the status it is about to save.
NoRun ==
    [pc |-> "idle", pending |-> <<>>, batch |-> <<>>, todo |-> {},
     file |-> "", kept |-> {}, received |-> 0, processed |-> 0,
     outcome |-> "RUNNING"]

Init ==
    /\ row = [t \in Tasks |-> [status |-> "PENDING", attempts |-> 0,
                               received |-> 0, processed |-> 0]]
    /\ recorded = [t \in Tasks |-> {}]
    /\ objects = {}
    /\ listed = [c \in Candidates |-> Names]
    /\ run = [t \in Tasks |-> NoRun]
    /\ aborted = {}
    /\ faults = 0

Fault(kind) ==
    /\ kind \in Faults
    /\ faults < MaxFaults
    /\ faults' = faults + 1

\* The handler of t goes on with the local state r.
GoOn(t, r) == run' = [run EXCEPT ![t] = r]

Listed(t) == listed[CandidateOf[t]]

(* A definition with a suffix is a mutant of the one it precedes: a wrong   *)
(* version that a property of the runs must reject (PROJECT.json).          *)

NotListed_Pending(t) ==
    [listed EXCEPT ![CandidateOf[t]] =
        @ \ ToSet(run[t].batch \o run[t].pending)]

\* The names the API lists once t's batch is marked.
NotListed(t) ==
    [listed EXCEPT ![CandidateOf[t]] = @ \ ToSet(run[t].batch)]

\* The session of t is rolled back, by the next unit of work that fails in it
\* or by the end of its worker.
RolledBack(t) == aborted' = aborted \ {t}

-----------------------------------------------------------------------------
(* The task around an execution. *)

Claim(t) ==
    /\ row[t].status = "PENDING"
    /\ row' = [row EXCEPT ![t].status = "RUNNING", ![t].attempts = @ + 1]
    /\ GoOn(t, [NoRun EXCEPT !.pc = "loop",
                            !.received = row[t].received,
                            !.processed = row[t].processed])
    /\ UNCHANGED <<recorded, objects, listed, aborted, faults>>

\* The watchdog takes back a task that is blocked or without executor.
Reclaim(t) ==
    /\ run[t].pc = "idle"
    /\ row[t].status \in {"RUNNING", "BLOCKED"}
    /\ row' = [row EXCEPT ![t].status = "PENDING"]
    /\ UNCHANGED <<recorded, objects, listed, run, aborted, faults>>

InCleanup(t) == run[t].pc \in {"cleanup", "unrecord"}

Crash(t) ==
    /\ run[t].pc # "idle"
    /\ \/ InCleanup(t) /\ Fault("crash_cleanup")
       \/ ~InCleanup(t) /\ Fault("crash")
    /\ GoOn(t, NoRun)
    /\ RolledBack(t)
    /\ UNCHANGED <<row, recorded, objects, listed>>

-----------------------------------------------------------------------------
(* The end of an execution: the status and the counters are saved. *)

Settle(t, outcome) ==
    GoOn(t, [run[t] EXCEPT !.pc = "settle", !.outcome = outcome])

SaveOutcome_NoReturn(t) ==
    /\ run[t].pc = "settle"
    /\ t \notin aborted
    /\ row' = [row EXCEPT ![t].status = run[t].outcome,
                          ![t].received = run[t].received,
                          ![t].processed = run[t].processed]
    /\ GoOn(t, [run[t] EXCEPT !.pc = "loop", !.outcome = "RUNNING"])
    /\ UNCHANGED <<recorded, objects, listed, aborted, faults>>

SaveOutcome(t) ==
    /\ run[t].pc = "settle"
    /\ t \notin aborted
    /\ row' = [row EXCEPT ![t].status = run[t].outcome,
                          ![t].received = run[t].received,
                          ![t].processed = run[t].processed]
    /\ GoOn(t, NoRun)
    /\ UNCHANGED <<recorded, objects, listed, aborted, faults>>

\* _fail_task raises, as the object is no longer RUNNING, or fails itself.
SaveOutcomeError(t) ==
    /\ run[t].pc = "settle"
    /\ t \notin aborted
    /\ Fault("db")
    /\ GoOn(t, NoRun)
    /\ UNCHANGED <<row, recorded, objects, listed, aborted>>

\* In a failed transaction the save of _fail_task fails as well: its exception
\* leaves execute, and the row stays as it is.
SaveRefused(t) ==
    /\ run[t].pc = "settle"
    /\ t \in aborted
    /\ GoOn(t, NoRun)
    /\ RolledBack(t)
    /\ UNCHANGED <<row, recorded, objects, listed, faults>>

-----------------------------------------------------------------------------
(* The loop of _run: the names. *)

\* The API answers with some of the names it lists, in an order of its own,
\* and with none only when none is left.  Names that are pending are listed
\* too, and may be added once more.
GetNames(t) ==
    /\ run[t].pc = "loop"
    /\ Len(run[t].pending) < BATCH_SIZE
    /\ \E page \in SetToAllKPermutations(Listed(t)) :
          /\ page # <<>>
          /\ GoOn(t, [run[t] EXCEPT !.pc = "received",
                                   !.pending = @ \o page,
                                   !.received = @ + Len(page)])
    /\ UNCHANGED <<row, recorded, objects, listed, aborted, faults>>

NoMoreNames_Unasked(t) ==
    /\ run[t].pc = "loop"
    /\ run[t].pending = <<>>
    /\ Settle(t, "SUCCESS")
    /\ UNCHANGED <<row, recorded, objects, listed, aborted, faults>>

NoMoreNames(t) ==
    /\ run[t].pc = "loop"
    /\ run[t].pending = <<>>
    /\ Listed(t) = {}
    /\ Settle(t, "SUCCESS")
    /\ UNCHANGED <<row, recorded, objects, listed, aborted, faults>>

GetNamesError(t) ==
    /\ run[t].pc = "loop"
    /\ Len(run[t].pending) < BATCH_SIZE
    /\ \/ Fault("block") /\ Settle(t, "BLOCKED")
       \/ Fault("api") /\ Settle(t, "FAILED")
    /\ UNCHANGED <<row, recorded, objects, listed, aborted>>

\* update(task) after the names and after the batch.
SaveCounters(t) ==
    row' = [row EXCEPT ![t].received = run[t].received,
                       ![t].processed = run[t].processed]

SaveReceived(t) ==
    /\ run[t].pc = "received"
    /\ SaveCounters(t)
    /\ GoOn(t, [run[t] EXCEPT !.pc = "batch"])
    /\ UNCHANGED <<recorded, objects, listed, aborted, faults>>

SaveProcessed(t) ==
    /\ run[t].pc = "processed"
    /\ SaveCounters(t)
    /\ GoOn(t, [run[t] EXCEPT !.pc = "loop"])
    /\ UNCHANGED <<recorded, objects, listed, aborted, faults>>

SaveCountersError(t) ==
    /\ run[t].pc \in {"received", "processed"}
    /\ Fault("db")
    /\ Settle(t, "FAILED")
    /\ UNCHANGED <<row, recorded, objects, listed, aborted>>

-----------------------------------------------------------------------------
(* The loop of _run: one batch. *)

BatchReady_FullOnly(t) ==
    /\ run[t].pc \in {"batch", "loop"}
    /\ Len(run[t].pending) >= BATCH_SIZE

\* Some names were just added, or enough are pending, or the API has no more.
BatchReady(t) ==
    \/ run[t].pc = "batch"
    \/ /\ run[t].pc = "loop"
       /\ \/ Len(run[t].pending) >= BATCH_SIZE
          \/ run[t].pending # <<>> /\ Listed(t) = {}

TakeBatch_KeptStays(t) ==
    /\ BatchReady(t)
    /\ LET p == run[t].pending
           k == IF Len(p) < BATCH_SIZE THEN Len(p) ELSE BATCH_SIZE
       IN GoOn(t, [run[t] EXCEPT !.pc = "request",
                                 !.batch = SubSeq(p, 1, k),
                                 !.pending = SubSeq(p, k + 1, Len(p))])
    /\ UNCHANGED <<row, recorded, objects, listed, aborted, faults>>

TakeBatch(t) ==
    /\ BatchReady(t)
    /\ LET p == run[t].pending
           k == IF Len(p) < BATCH_SIZE THEN Len(p) ELSE BATCH_SIZE
       IN GoOn(t, [run[t] EXCEPT !.pc = "request",
                                 !.batch = SubSeq(p, 1, k),
                                 !.pending = SubSeq(p, k + 1, Len(p)),
                                 !.kept = {}])
    /\ UNCHANGED <<row, recorded, objects, listed, aborted, faults>>

\* The archive is fetched as a whole and holds the files that were asked for.
RequestArchive(t) ==
    /\ run[t].pc = "request"
    /\ GoOn(t, [run[t] EXCEPT !.pc = "extract", !.todo = ToSet(run[t].batch)])
    /\ UNCHANGED <<row, recorded, objects, listed, aborted, faults>>

\* Nothing compares the files of an archive with the batch.
RequestOtherArchive(t) ==
    /\ run[t].pc = "request"
    /\ Fault("archive")
    /\ \E held \in SUBSET Names : GoOn(t, [run[t] EXCEPT !.pc = "extract", !.todo = held])
    /\ UNCHANGED <<row, recorded, objects, listed, aborted>>

Abort(t, outcome) ==
    GoOn(t, [run[t] EXCEPT !.pc = "cleanup", !.outcome = outcome])

RequestArchiveError(t) ==
    /\ run[t].pc = "request"
    /\ \/ Fault("block") /\ Abort(t, "BLOCKED")
       \/ Fault("api") /\ Abort(t, "FAILED")
    /\ UNCHANGED <<row, recorded, objects, listed, aborted>>

SkipFile(t, n) ==
    /\ run[t].pc = "extract"
    /\ n \in run[t].todo
    /\ n \in recorded[t]
    /\ GoOn(t, [run[t] EXCEPT !.todo = @ \ {n}])
    /\ UNCHANGED <<row, recorded, objects, listed, aborted, faults>>

UploadFile(t, n) ==
    /\ run[t].pc = "extract"
    /\ n \in run[t].todo
    /\ n \notin recorded[t]
    /\ objects' = objects \cup {n}
    /\ GoOn(t, [run[t] EXCEPT !.pc = "uploaded", !.todo = @ \ {n}, !.file = n])
    /\ UNCHANGED <<row, recorded, listed, aborted, faults>>

\* One transaction inserts into files and downloaded_files.
RecordFile(t) ==
    /\ run[t].pc = "uploaded"
    /\ recorded' = [recorded EXCEPT ![t] = @ \cup {run[t].file}]
    /\ GoOn(t, [run[t] EXCEPT !.pc = "extract", !.kept = @ \cup {run[t].file}])
    /\ UNCHANGED <<row, objects, listed, aborted, faults>>

\* The archive is bad, or a save of the heartbeat, a query, an upload or the
\* insertion fails.  An upload that fails may have reached the store.
ExtractError(t) ==
    /\ \/ /\ run[t].pc = "extract"
          /\ run[t].todo # {}
          /\ \/ (Fault("api") \/ Fault("db")) /\ UNCHANGED <<objects, aborted>>
             \/ /\ Fault("db_query")
                /\ aborted' = aborted \cup {t}
                /\ UNCHANGED objects
             \/ /\ Fault("s3")
                /\ \E n \in run[t].todo \ recorded[t] :
                      objects' \in {objects, objects \cup {n}}
                /\ UNCHANGED aborted
       \/ /\ run[t].pc = "uploaded"
          /\ Fault("db")
          /\ UNCHANGED <<objects, aborted>>
    /\ Abort(t, "FAILED")
    /\ UNCHANGED <<row, recorded, listed>>

BatchCount_Full(t) == BATCH_SIZE

BatchCount(t) == Len(run[t].batch)

MarkDownloaded(t) ==
    /\ run[t].pc = "extract"
    /\ run[t].todo = {}
    /\ listed' = NotListed(t)
    /\ GoOn(t, [run[t] EXCEPT !.pc = "processed",
                             !.processed = @ + BatchCount(t)])
    /\ UNCHANGED <<row, recorded, objects, aborted, faults>>

MarkError(t) ==
    /\ run[t].pc = "extract"
    /\ run[t].todo = {}
    /\ \/ Fault("block") /\ Abort(t, "BLOCKED") /\ UNCHANGED listed
       \/ Fault("api") /\ Abort(t, "FAILED") /\ UNCHANGED listed
       \/ /\ Fault("mark_reply")
          /\ Abort(t, "FAILED") \/ Abort(t, "BLOCKED")
          /\ listed' = NotListed(t)
    /\ UNCHANGED <<row, recorded, objects, aborted>>

-----------------------------------------------------------------------------
(* _cleanup_batch_files: for each file of the batch the object, then the   *)
(* records; a failure of either is logged and the loop goes on.            *)

DeleteObject(t, n) ==
    /\ run[t].pc = "cleanup"
    /\ n \in run[t].kept
    /\ \/ objects' = objects \ {n} /\ UNCHANGED faults
       \/ Fault("s3_cleanup") /\ UNCHANGED objects
    /\ GoOn(t, [run[t] EXCEPT !.pc = "unrecord", !.kept = @ \ {n}, !.file = n])
    /\ UNCHANGED <<row, recorded, listed, aborted>>

DeleteRecord_Never(t) ==
    /\ run[t].pc = "unrecord"
    /\ GoOn(t, [run[t] EXCEPT !.pc = "cleanup"])
    /\ RolledBack(t)
    /\ UNCHANGED <<row, recorded, objects, listed, faults>>

\* A failed transaction is rolled back, and so is one that an earlier query
\* left behind, in which the first deletion cannot but fail.
DeleteRecord(t) ==
    /\ run[t].pc = "unrecord"
    /\ \/ /\ t \notin aborted
          /\ recorded' = [recorded EXCEPT ![t] = @ \ {run[t].file}]
          /\ UNCHANGED faults
       \/ t \notin aborted /\ Fault("db_cleanup") /\ UNCHANGED recorded
       \/ t \in aborted /\ UNCHANGED <<recorded, faults>>
    /\ GoOn(t, [run[t] EXCEPT !.pc = "cleanup"])
    /\ RolledBack(t)
    /\ UNCHANGED <<row, objects, listed>>

LessReceived_Doubled(count, less) == count - 2 * less

\* decrease_received: what was not processed is no longer received.
LessReceived(count, less) == IF count < less THEN 0 ELSE count - less

CleanupDone(t) ==
    /\ run[t].pc = "cleanup"
    /\ run[t].kept = {}
    /\ LET less == BatchCount(t) + Len(run[t].pending)
       IN GoOn(t, [run[t] EXCEPT !.pc = "settle",
                                 !.received = LessReceived(@, less)])
    /\ UNCHANGED <<row, recorded, objects, listed, aborted, faults>>

-----------------------------------------------------------------------------

\* What a handler does when nothing fails, and its cleanup.
Work(t) ==
    \/ SaveOutcome(t) \/ SaveRefused(t)
    \/ GetNames(t) \/ NoMoreNames(t) \/ SaveReceived(t) \/ SaveProcessed(t)
    \/ TakeBatch(t) \/ RequestArchive(t) \/ RecordFile(t) \/ MarkDownloaded(t)
    \/ \E n \in Names : SkipFile(t, n) \/ UploadFile(t, n) \/ DeleteObject(t, n)
    \/ DeleteRecord(t) \/ CleanupDone(t)

Failure(t) ==
    \/ GetNamesError(t) \/ SaveCountersError(t) \/ RequestArchiveError(t)
    \/ RequestOtherArchive(t) \/ ExtractError(t) \/ MarkError(t) \/ SaveOutcomeError(t)

Next ==
    \E t \in Tasks :
        Claim(t) \/ Reclaim(t) \/ Work(t) \/ Failure(t) \/ Crash(t)

Spec == Init /\ [][Next]_vars

\* Handlers, brokers and the watchdog get their turn; faults need not happen.
FairSpec ==
    Spec /\ \A t \in Tasks : WF_vars(Claim(t) \/ Reclaim(t) \/ Work(t))

-----------------------------------------------------------------------------
(* Types. *)

Places == {"idle", "loop", "received", "batch", "request", "extract", "uploaded",
           "processed", "cleanup", "unrecord", "settle"}

Outcomes == {"RUNNING", "SUCCESS", "FAILED", "BLOCKED"}

RunType ==
    [pc : Places, pending : Seq(Names), batch : Seq(Names), todo : SUBSET Names,
     file : Names \cup {""}, kept : SUBSET Names,
     received : Nat, processed : Nat, outcome : Outcomes]

\* The type invariant.
TypeOK ==
    /\ row \in [Tasks -> [status : {"PENDING", "RUNNING", "SUCCESS", "FAILED",
                                    "BLOCKED"},
                          attempts : Nat, received : Nat, processed : Nat]]
    /\ recorded \in [Tasks -> SUBSET Names]
    /\ objects \subseteq Names
    /\ listed \in [Candidates -> SUBSET Names]
    /\ run \in [Tasks -> RunType]
    /\ aborted \subseteq Tasks
    /\ faults \in 0..MaxFaults

-----------------------------------------------------------------------------
(* Safety. *)

\* A file that the API was told is downloaded, and will never list again, is
\* in the object store and in the tables: no crash, block, failed request,
\* upload or transaction between the upload, the insertion and
\* mark_downloaded loses it (download_handler.py, _run).
MarkedIsSaved ==
    \A t \in Tasks : \A n \in Names \ Listed(t) :
        /\ n \in objects
        /\ \E u \in Tasks : n \in recorded[u]

\* SUCCESS means that every file of the task was saved (README.md, status
\* table): each has its object, whatever became of the executions before and
\* of other tasks.
SuccessMeansSaved ==
    \A t \in Tasks : row[t].status = "SUCCESS" => recorded[t] \subseteq objects

\* SUCCESS of a task that ran alone means the whole catalogue and nothing
\* else: every name is recorded, the store holds these objects and no orphan,
\* whatever uploads, insertions and deletions failed or were interrupted in
\* the attempts before.
SuccessIsExact ==
    \A t \in Tasks :
        row[t].status = "SUCCESS" => recorded[t] = Names /\ objects = Names

\* A record points at an object, except while a cleanup is between the two
\* deletions: the next attempt skips what is recorded, so a record without
\* object is a file that nobody will upload again.
RecordHasObject ==
    \A t \in Tasks : \A n \in recorded[t] :
        \/ n \in objects
        \/ run[t].pc = "unrecord" /\ run[t].file = n

\* The records of a task whose object is gone, but for the one that a cleanup
\* is about to delete.
Orphans(t) ==
    {n \in recorded[t] \ objects : ~(run[t].pc = "unrecord" /\ run[t].file = n)}

\* What a fault of any kind costs a task that runs alone: a cleanup that is cut
\* short, or whose deletion of a record fails, or that runs in the transaction
\* of a failed query, leaves one record without object, and never the others
\* of its batch (download_handler.py, _cleanup_batch_files, whose loop goes on).
OneRecordAFault == \A t \in Tasks : Cardinality(Orphans(t)) <= faults

\* The names that the API no longer lists for t, and that are not saved.
Lost(t) == {n \in Names \ Listed(t) : n \notin recorded[t] \cap objects}

\* A fault of any kind loses a batch at most: the answer to mark_downloaded
\* that is lost while the cleanup deletes the batch, an archive with other
\* files than the batch that is marked for it, or a record without object that
\* is skipped.  What was marked before is never deleted by a later cleanup.
OneBatchAFault == \A t \in Tasks : Cardinality(Lost(t)) <= BATCH_SIZE * faults

\* processed_files never exceeds received_files, and at the end of a task
\* that was executed once they agree: decrease_received takes back exactly
\* the names that were not processed.
CountersAgree ==
    \A t \in Tasks :
        /\ row[t].processed <= row[t].received
        /\ row[t].status = "SUCCESS" /\ row[t].attempts = 1
               => row[t].processed = row[t].received

\* A task as module TaskContract sees it, in the hands of one worker or none.
Contract ==
    INSTANCE TaskContract
    WITH Workers <- {"worker"}, NULL <- "none",
         status <- [t \in Tasks |-> row[t].status],
         owner <- [t \in Tasks |->
                      IF row[t].status = "PENDING" THEN "none" ELSE "worker"],
         executors <- [t \in Tasks |->
                          IF run[t].pc = "idle" THEN {} ELSE {"worker"}]

\* Whatever fails, an execution keeps the contract that TaskLifecycle
\* implements, once the task is created: it begins with a claim of a task that
\* nobody executes, leaves the status alone until it writes one outcome, and
\* ends there or without any (download_handler.py, execute, _run, _fail_task).
KeepsContract == [][Contract!Next]_(Contract!vars)

\* Under fairness every execution comes to an end: the loop does not ask for
\* names for ever.
HandlerEnds == \A t \in Tasks : run[t].pc # "idle" ~> run[t].pc = "idle"
=============================================================================
