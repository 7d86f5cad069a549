# file-extractor in TLA+

A verification development of `file-extractor`: TLA+ modules translated from
the Python sources under `src/app` and the pages under `src/frontend`, TLC configurations that model-check them on
small instances, and proofs that TLAPS checks for every value of the constants.
`PROJECT.json` maps every definition to the lines it stands for, every run to
its properties and every property to a mutant of the code it rejects.

Contents: [the system](#the-system) · [modules](#modules-and-the-code) ·
[runs](#runs) · [bounds](#bounds-and-why-they-are-enough) ·
[fairness](#fairness) · [proofs](#proofs) · [findings](#findings) ·
[not modelled](#what-is-not-modelled-and-why) · [plan](#plan).

## The system

The program downloads the files of a candidate's catalogue from an external
API, which lists names, serves archives and is told what has been downloaded.
A download is a *task*: a row of the table `download_tasks`, executed by some
Celery worker.

```
 browser ──HTTP──> API service ──INSERT──> download_tasks <──UPDATE── workers
                        └──send_task──> Redis broker ──deliver──> workers
                                             ^                     │  │  └─> external API
                  watchdog jobs (on workers) ┘                     │  └────> S3 objects
                                                    files, downloaded_files
                                                       ^            ^
       the pages poll tasks, list files ───────────────┴─ sum up ───┘
```

| component | state it keeps | operations | what is hard about it | what makes it correct |
|---|---|---|---|---|
| task entity and table (`download_task.py`, `repositories.py`) | one row per task: status, worker, heartbeat, attempts, block, counters | entity methods; `claim`, `reclaim_stuck`, `reclaim_blocked` as single UPDATEs; `update` as SELECT, then a flush of changed columns | `update` checks neither status nor owner and is not atomic | one executor per task; outcomes are final; a RUNNING row stays visible to the watchdog |
| API service (`StartDownloadHandler`) | none | insert the task, then send its message | a death or a refusal between the two | a PENDING task is on its way to a worker |
| broker (Redis behind Celery) | messages waiting and unacknowledged | deliver, acknowledge, redeliver | at least once: a crash or the visibility timeout delivers again | duplicates do no harm |
| worker (`process_files_task`) | the message it holds, the handler's objects | claim, execute, acknowledge late | dies anywhere; runs one job at a time, watchdog jobs included | whatever it leaves behind is taken up again |
| watchdog (`watchdog.py`, two beat jobs a minute) | the ids it has still to send | reclaim at most 20 rows, commit, send each | races the worker that is only slow; dies between commit and sends | reclaims only what nobody executes; everything stuck in the end |
| file handler (`ProcessFilesHandler`) | pending names, batch, kept entities, counters | list names, fetch an archive, upload and record each file, mark the batch, clean up after a failure | three stores (S3, tables, external API) without a common transaction | what is marked is saved; SUCCESS means all saved; no orphans; counters agree |
| catalogue client, retries, rate limiter (`catalog_client.py`, `retry.py`, `rate_limiter.py`) | the delay between requests, attempts | three requests, classified errors, two retry counters | limits at their boundaries, a retry of what was done | bounded attempts, delay within its bounds |
| file entity and table (`file.py`, `repositories.py`), object store (`s3_storage.py`) | rows of `files`, keys of the bucket | start, complete, fail an upload; save, delete, get, list, count | a file is in two places without a common transaction | what is recorded was uploaded |
| statistics, calculations (`statistics_handler.py`, `calculate_stats.py`) | none | three counts over `files`; read the selected rows, then their objects, and count digits | none is one read: files come and go in between | the numbers are true of some moment of the request |
| download page (`DownloadPage.tsx`) | what is shown, the task, the interval that polls it | start, poll, clear | answers out of order, closures that know an old render, a page that is left | no interval outlives its use; the page catches up with the task |
| files page (`FilesPage.tsx`) | the list, the selection, the calculation | load, turn the page, select, calculate | answers out of order, an effect that loads again | shows what was chosen last |
| HTTP routes, schemas, wiring, configuration, logging, sessions, migrations, domain events | none that changes | adapters and construction | – | – |

The behaviours that are hard to test, each at its line and with the properties
that watch it, are listed under `hazards` in `PROJECT.json`.

## Modules and the code

### DownloadTask
The entity's methods, each as a guard (what it checks before it raises) and a
function from task to task, and the repository's statements as guards on the
row and functions from row to row. A task is a record with the table's column
names. Instants are kept relative to the present (`last_heartbeat` is an age,
`blocked_until` a time to go), so that time needs no bound; both saturate where
no comparison of the code can tell the difference.

`Flushed` is `update(task)`: SQLAlchemy selects the row, the code assigns every
column, and the flush at commit names only the columns that differ from what
was selected. A column that does not differ keeps what the table holds *at the
commit*, whoever wrote it. Since two heartbeats of the same age in ticks may be
different instants, `apart` chooses whether an instant column counts as
different.

### TaskLifecycle
The table, the broker, the API service, the workers and the watchdog.

| variable | stands for |
|---|---|
| `rows` | `download_tasks` |
| `queue`, `held` | messages at the broker, waiting and unacknowledged |
| `unsent` | tasks committed by `StartDownloadHandler.execute` before `send_task` |
| `pc`, `job`, `mem` | each worker's position, its message's `task_id`, the handler's `DownloadTask` |
| `selected` | the row as `update()` read it, until its commit |
| `requeue` | ids a watchdog job has reclaimed and not yet sent |

The actions follow the code: `CreateTask`, `SendTask` (`StartDownloadHandler`);
`Receive`, `ClaimTask`, `NotClaimed`, `ClaimError`, `Finish`
(`process_files_task`); `GetTask`, `Progress`, `SendHeartbeat`, `Blocked`,
`HandlerError`, `CompleteTask`, `SelectRow`, `FlushRow`, `SaveError`
(`ProcessFilesHandler` as far as it writes the task's row); `ReclaimStuck`,
`ReclaimBlocked`, `RequeueTask` (`watchdog.py`); `Crash`, `VisibilityTimeout`,
`Tick` and the lost sends (environment). Every fault is of a kind that the
constant `Faults` admits, so that a run says what it assumes.

The assumption several properties rest on is *timeliness*: a living executor
writes a heartbeat before it is `MAX_HEARTBEAT_AGE` old. It holds when `"stall"`
is not in `Faults`. The code does not enforce it: a heartbeat is written once in
30 extracted files, and one archive may take longer than five minutes to fetch
or one 429 longer to wait out. Properties that hold without it are checked
without it.

### TaskContract
What the table promises, without broker, heartbeats or transactions: a task has
at most one executor, the worker named in its row; a task is taken back only
when nobody executes it; SUCCESS and FAILED are final. `TaskLifecycle!Contract`
instantiates it with `status` and `owner` read from the rows and `executors`
computed from the workers' positions; TLC checks `ContractSpec`.

### ProcessFiles
`ProcessFilesHandler._run` and `_cleanup_batch_files`, over several attempts of
several tasks, with each request, upload, deletion and transaction a step that
may fail and after which the worker may die.

| variable | stands for |
|---|---|
| `row` | status, attempts and counters of the task's row |
| `recorded` | the task's rows in `downloaded_files`, and with them those in `files` (inserted and deleted by the same transactions) |
| `objects` | the keys in the bucket; a key is `files/{filename}` for every task |
| `listed` | what the external API still lists for each candidate |
| `run` | the handler's local variables: pending names, batch, files left in the archive, file in hand, entities kept for cleanup, counters |
| `aborted` | the tasks whose handler has a session in a failed transaction that nothing has rolled back |

One executor per task is assumed here; TaskLifecycle shows when that holds. In
return each execution keeps to TaskContract (`KeepsContract`), which
`ProcessFiles!Contract` instantiates with one worker; the task exists from the
start, so that only the steps are compared and not the initial state. The
external API is modelled from its use: it answers with some of the names it
lists, pending ones included, and with none only when it lists none; a name
that was marked is never listed again. An archive is fetched as a whole
(`ZipProcessor` reads the stream into memory first) and holds what was asked
for, or, as faults, is bad (`"api"`) or holds other files (`"archive"`): the
handler takes what is there and marks the batch. Retries are inside a request: `"api"` is a request that failed
after them. A lost answer of mark_downloaded is a fault of its own (`"mark_reply"`):
the API has acted, the retries fail, and the handler cleans up.

A failed transaction is rolled back by `SQLAlchemyUnitOfWork.__aexit__` (`"db"`:
the insertion of a record, the counters, the outcome; `"db_cleanup"`: the deletion
of a record). One query is not inside a unit of work, the one for an already
downloaded file (download_handler.py:114). When it fails (`"db_query"`), the
session stays in the failed transaction (`aborted`) and refuses whatever comes
next, which is what rolls it back (`RolledBack`): the first deletion of a record by
the cleanup that follows, which has already deleted the object and only logs the
error (`DeleteRecord` with its task in `aborted`), or, if there is nothing to clean
up, the save of FAILED, whose error leaves `execute` with the row still RUNNING
(`SaveRefused`).

### CatalogClient
One client, as one execution of a task has it, and any sequence of calls.

| variable | stands for |
|---|---|
| `limits` | `_max_retries` and `_rate_limit_retries`, from the settings |
| `delay` | `AdaptiveRateLimiter._delay`, in tenths of a second |
| `pc`, `op` | where the call is: waiting for the limiter, requested, sleeping before a retry, reading the archive |
| `attempt`, `rate_attempt` | the two counters of `AsyncRetryExecutor.execute` |
| `tempfiles` | how many temporary archives exist |
| `outcome`, `answers` | how the last call ended; the answers to its requests (history) |

The answers are told apart as `_handle_errors`, `raise_for_status`,
`_safe_json` and the except clauses tell them apart: `server`, `client` and
`transport` are retried up to `max_retries` (a 400 too: `raise_for_status` makes
it an `httpx.HTTPError`), `rate_limited` up to `rate_limit_retries`, the rest
ends the call at once, a `Retry-After` that is a date included, since `int()`
refuses it. Each kind of end is what ProcessFiles takes a request to do:
`returned` its step, `blocked` the fault `"block"`, `failed` the fault `"api"`.

### DownloadPage
The page that starts a download and polls its task.

| variable | stands for |
|---|---|
| `row` | status of the tasks, moved as TaskContract allows |
| `start`, `seen` | how far each call of `startDownload` is, and the interval that the `clearPoll` of its closure knows |
| `open`, `shown`, `taskId`, `pollInterval` | whether the page is mounted; `state.status`, `state.taskId`, the interval of the state |
| `rendered` | the interval that the mounted effect's `clearPoll` knows |
| `intervals`, `polls` | the intervals that run, and the polls under way |

`StartDownload` is a press of the button up to its request, `StartAnswered` and
`StartFails` what follows; `Render` exchanges the effect of the last render for a
new one; `Poll`, `ReadTask`, `AnswerPoll` and `PollFails` are the interval's
callback and the backend between its two halves; `Leave` unmounts. A request that
was sent goes on when the page is left, and so does an interval that nobody
clears (`early` marks the only way to one after a single press: the page is left
before its start is answered and rendered). A second press is possible while the
first is not answered yet; the properties speak of one press, since with two
`clearPoll` knows the wrong interval and the code makes no promise it keeps.

### FilesPage
The page that lists the files, over a table that the workers change.

| variable | stands for |
|---|---|
| `rows` | the table `files` in the order of the query |
| `state`, `selection`, `stats` | the states of the component |
| `loads`, `calcs` | requests under way, with what the backend has read for each |
| `shownFor`, `askedFor` | history: what the files shown are of; what was asked for last |

`CountRows` and `SelectRows` are the two statements of
`SQLAlchemyFileRepository.list`, between which the table may change. The effect on
page and page size is `Effect`: it is part of every action that sets one of them,
an answer included, which sets both to what *it* was asked for and thereby starts
a load again when the user has chosen another page meanwhile.

### FileQueries
The two requests that sum up the saved files, while writers insert and delete
rows and objects (ProcessFiles cut down to what it does to the table and the
bucket, with every order of its steps). `CountTotal`, `CountUploaded`,
`CountFailed` are the three counts of `StatisticsHandler.execute`; `ReadRow` and
`DownloadFile` the two loops of `CalculateStatsHandler.execute`, `DownloadError`
whatever makes `S3Storage.download` return nothing. The entity's methods are
guards and functions as in DownloadTask. `during` is history: the least and the
most rows there were while the request was under way, the files that were there
at some time and those that were there throughout, row and object. The
properties compare the answer with it.

### Readers
The three together. `App` mounts one page at a time, each anew, the two requests
keep nothing, and none of the three writes what another reads; so a behaviour of
Readers is one of one reader, and the specification is a sum of the three and not
a product.

## Runs

`expect: pass` runs check that the properties hold, `expect: violation` runs
that a promise of the README does not.

| run | instance | shows |
|---|---|---|
| `lifecycle_timely` | 2 workers, 2 tasks, all faults but `stall` | `SingleExecutor`, `ExecutorOwnsRow`, `RecoverableRow` (every RUNNING row has a heartbeat that the watchdog can compare), `TerminalIsFinal`, `AttemptsCountClaims`, and that the contract is implemented (`ContractSpec`): duplicated messages, redeliveries, crashes and failed or slow transactions never give a task two executors or change an outcome |
| `lifecycle_stall` | 2 workers, 1 task, executors may be overtaken | without timeliness still: no PENDING task is without a message or a sender (`NoStrandedTask`), whatever overtaken workers write |
| `lifecycle_live` | 2 workers and 1 task, 1 worker and 2 tasks, up to 3 faults, fairness | `TaskSettles`: a task comes to rest in SUCCESS or FAILED unless it is blocked for ever, also behind a worker that is busy and a watchdog that takes one task at a time; `BlockEnds` |
| `files_alone` | 1 task, 3 names, batches of 2, up to 3 faults of the kinds `Recovered` | `MarkedIsSaved`, `SuccessIsExact`, `RecordHasObject`: across attempts that are killed, blocked or fail, nothing marked is lost, and at SUCCESS exactly the catalogue is recorded and stored |
| `files_faults` | the same, every kind of fault, fairness | `CountersAgree`; `OneRecordAFault`, `OneBatchAFault`: what a fault costs that the code does not recover from, at most one record without its object and one batch that is lost; `KeepsContract`: an execution is one claim, no change of the status inside and one outcome or none; and `HandlerEnds`: the loop over names and batches terminates |
| `client_calls` | limits of -1, 0, 2 retries and -1, 0, 1 rate limits, the delays of the code | `EndsAsDecided`: against a definition over the sequence of answers, a call makes exactly the requests it should and reports what they decided; `OneTempFile`; `PaceFollowsApi` |
| `readers` | 1 press and 2 polls at a time; 2 files, page sizes 1 and 2, 2 loads at a time; 4 files of 3 names, 2 ever saved | `IntervalIsKnown`, `PageCatchesUp`: lost and overtaken answers leave no interval behind and the page shows what the task came to rest in; `QuietPageIsChosen`, `PageSelectionIsShown`, `ResultIsOfLatest`, `ShownLoadsEnd`: whatever the order of answers, the page settles on what was chosen last; `StatisticsAreOfTheirTime`, `CalculationIsOfItsTime`, `AnswerIsOfOneSet`: the sums are true of their request, and the total and the entries of each file are of one set of rows |
| `overtaken_worker`, `lost_send`, `unseen_success`, `files_shared`, `files_cleanup` | smallest that show it | see [findings](#findings) |

`TypeOK` is checked for TaskLifecycle in `lifecycle_stall`, where the most
different rows occur, for ProcessFiles in `files_alone`, for CatalogClient in
`client_calls`, and for the three readers in `readers`.

What some of these properties leave out is as much of the code as what they say.
`PageCatchesUp` is about the word that the page has for a status, not about the
word it ought to have (`unseen_success`). `StatisticsAreOfTheirTime` subtracts
what `total_files` counts twice. `AnswerIsOfOneSet` has two rows of one name count
twice in the total and share an entry of `by_file`, which is what the code does with
them. `ShownLoadsEnd` supposes that in the end the user has no more than one load
under way, `IntervalIsKnown` that the button was pressed once and the page not left
before the answer: without these premises TLC finds them false. `BlockEnds` excepts a
task that as many others as one run of the watchdog takes are blocked beside, again
and again: `reclaim_blocked` takes its rows in no order and may never come to it.

`files_alone` admits what a task alone recovers from (`Recovered`): deaths outside a
cleanup, blocks, failed requests, uploads and deletions of objects, and transactions
that are rolled back. It excludes the five kinds that lose files: a cleanup that dies
between its two deletions or whose second one fails (`crash_cleanup`, `db_cleanup`),
a failed query that leaves the session in its transaction (`db_query`), a lost answer
of mark_downloaded (`mark_reply`) and an archive with other files (`archive`).
`files_faults` admits them all, and instead of excluding what they do bounds it.

`RecoverableRow` needs timeliness too, and one needs three workers to see it:
two that were overtaken and a third on which the watchdog runs. The watchdog has
reclaimed the task; the first overtaken worker (w1) still executes it with an
object that says RUNNING, and its next heartbeat has put a time back into the
PENDING row; the second (w2) read the row after the reclaim, and its attempt has
failed, so that its object says FAILED with a NULL heartbeat. Both select the row
(PENDING, with the time of w1). w2 flushes first: FAILED, NULL. The flush of w1
names only the columns that differ from what it selected: the status, which
becomes RUNNING, and not the heartbeat, which it believes to be there. The row is
RUNNING with NULL, which `reclaim_stuck` never selects: if w1 dies before its next
heartbeat, nobody finishes the task. With three workers, one task,
`Faults = {"stall"}` and `MAX_HEARTBEAT_AGE = 0`, TLC shows this in 22 steps; with
two workers the watchdog's turn leaves no second writer.

## Bounds, and why they are enough

* **Two workers, one or two tasks.** Without overtaken workers every interaction
  in the code is between the row of one task and at most two parties (two
  consumers of a message, an executor and the watchdog). With timely
  heartbeats a third worker only repeats a role, and the theorems of
  TaskTimelyProofs hold for any number; `lifecycle_stall` has three roles on two
  workers, and its `NoStrandedTask` is a theorem for any number too. Two tasks are
  needed only where one watchdog run takes fewer rows than are stuck (`LIMIT = 1`, the
  20 of the code), or where one waits for the worker of the other. For that one worker
  is enough, so `lifecycle_live` joins two instances: its second worker rests as long
  as there is a second task (`MCTaskLifecycle!OneOrTheOther`).
* **`MAX_HEARTBEAT_AGE` of 1 or 0 ticks, blocks of 1 and 2.** The code only
  compares: fresh, old, too old; over, not over; short, long. With
  `stall` the age 0 suffices, as each tick then makes a heartbeat too old.
* **`MaxAttempts`, `MaxQueued`** saturate. Nothing in the code reads `attempts`
  except to add one; two copies of a message behave as any more.
* **`MaxFaults` 1 to 3.** Each hazard needs one or two faults in a row; with
  three in `lifecycle_live`, `files_alone` and `files_faults` a recovery is
  itself disturbed twice. The two accounts of `files_faults` are theorems for any
  number.
* **Three names, batches of two** (the code: three). There is a full batch, a
  short last one, a refill of names while one is pending, and a retry with some
  files already recorded. Two names suffice for the violations.
* **Limits around zero, `MaxAnswers = 5`.** The code compares a counter with a
  limit and asks whether one of the limits is negative. Five answers are more
  than any call with a rate limit can get (2 + 1 + 1); they bound only the calls
  that wait for ever. The delays are the code's; rounding down to tenths of a
  second keeps their order and their limits.

* **One press, two polls at a time.** Two polls are enough for an answer to
  overtake another; a second press has no property to be checked
  (`unseen_success` allows it). The page is opened once.
* **Two loads at a time, two files, one change of the table, page sizes 1 and
  2.** Loads interact in pairs: the answer that is applied and one that was sent
  before or after it. The page of size 1 has a successor, the page of size 2
  holds both files, and a file that comes or goes moves the pages.
* **Four ids, of which two are ever saved.** Two of one name, one of another and
  one that is empty: every pair of them is saved in some behaviour, and selected
  in every order.

## Fairness

`TaskLifecycle!Fairness`: a process that can take its next step takes it, and
time passes; a running handler leaves its loop (strong fairness of `LeaveLoop`:
the catalogue is finite, and `HandlerEnds` shows in ProcessFiles that the loop
terminates); the broker is first in, first out and beat sends both jobs every
minute, so that no kind of job an idle worker may take is passed over for ever
(strong fairness of `Receive`, `ReclaimStuck`, `ReclaimBlocked`). The last
clause assumes that some worker becomes idle again and again: with
`--pool=solo` a watchdog job waits behind downloads, which end. No fairness is
assumed of the API's clients, nor of any fault. `ProcessFiles!FairSpec` is weak
fairness of each task's next step. CatalogClient is checked for
safety only.

`DownloadPageFairness`: the page is rendered after a change, an interval ticks,
and a poll is answered again and again if one is sent again and again (strong
fairness of `ReadTask` and `AnswerPoll`, which `PollFails` competes with): the
network does not fail every poll. Nothing is assumed of the user, the start or
the workers; the properties suppose instead that the task has come to rest.
`FilesPageFairness`: each load and each calculation is answered or fails, as
`fetch` does. The requests of FileQueries are checked for safety only.

## Proofs

`TaskLifecycleProofs` proves, for any workers, tasks, block lengths and bounds:

* **`TypeCorrect`**: `Spec => []TypeOK`, whatever the faults. `TypeOK` is
  inductive as it stands; its last conjunct (a worker in a job has a task)
  carries the induction, as every action on a row goes through `job[w]`. The
  lemmas `ClaimedType`, `FlushedType`, `AgedType`, … say that each function on
  rows maps rows to rows, and there is one step per action.
* **`NoTaskIsStranded`**: under `NothingLost` (neither `claim_db` nor
  `lost_send` among the faults) `Spec => []NoStrandedTask`. The property is not
  inductive. A worker that received a message may die, and only a message the
  broker still holds comes back; and a flush could write PENDING if a handler's
  object ever were PENDING when it is saved. `StrandedInv` strengthens it: the
  message in a worker's hands counts only while it is unacknowledged (`Sure`),
  an object that is being saved is not PENDING (`SavedIsNotPending`), and only a
  watchdog job has tasks to send again. That a received copy is always matched
  by a sure one uses that a redelivery puts its copy on the queue before the
  first one is given up. `SaveSure`, `RaiseSure`, `HandlerSure`, `ReclaimSure`,
  `WatchdogSure` and `OtherSure` take the actions one by one.

`TaskTimelyProofs` assumes `Timely` (`"stall"` is not in `Faults`) and proves
`OneExecutorPerTask`, `ExecutorsOwnRows`, `RunningRowsAreSeen`,
`OutcomesAreFinal`, `ClaimsAreCounted` and `ImplementsContract` (every step of TaskLifecycle is a step of TaskContract
or a stutter). The invariant is `TimelyInv`. `SingleExecutor` alone is not
inductive: what keeps a second worker from claiming is that the executor's row
is RUNNING, carries its name and a heartbeat the watchdog does not yet reclaim
(`OwnsRow`); what keeps it so is that the executor's own `update` writes an
object that agrees with the row (`ObjectAgrees`, `ObjectStatus`) onto a row that
nobody touched since it was selected (`Untouched`), for otherwise the flush of
changed columns only could leave a mixture. `Tick` uses timeliness: the
executor's heartbeat is written before it is too old. The refinement follows
from what each action may do to a row (`RowStep`, `NextRows`) and from the
refinement mapping `Statuses`, `Owners`, `Executors`.

`ProcessFilesProofs` proves `FilesTypeCorrect` and `CountersAlwaysAgree` without
any assumption beyond those on the constants, so for concurrent tasks and every
fault. `TypeOK` is strengthened by `FileInHand` (an uploaded
file is a name). The lemmas `SettleMoves`, `UploadMoves`, … say once what each
action does to the handler's local variables. `CountersAgree` is an account
(`HandIsReceived`): what the handler has received is what it processed and the
names in its hand, pending or in the batch; exactly so in a first execution,
which starts from zero (`UnclaimedIsEmpty`), while a later one may start with a
surplus that a killed one left in the row. The cleanup gives back just the
names in hand, which is why the `max(0, …)` of decrease_received never bites.

`ExecutionsKeepContract` (`Spec => KeepsContract`) needs in addition that a task
in the hands of a handler is RUNNING (`HeldIsRunning`, a part of `CountersInv`) and
that a handler which is cleaning up or settling has decided on an outcome
(`OutcomeIsDecided`). `WorkStays` and `FailureStays` say that no step inside an
execution moves the status, and there is one lemma for each kind of step of the
contract. Since TaskLifecycle implements the same contract with timely heartbeats,
the two modules agree on what they assume of each other.

`SavedFilesProofs` is about what becomes of saved files, for any catalogue, batch
size, number of faults and number of tasks at once. It assumes `Harmless`: no death
and no failed transaction inside a cleanup, no failed query outside a unit of work
(which makes the transaction fail that comes next, `NoneAborted`), no lost answer of
mark_downloaded, no archive with other files than the batch. And it supposes `OwnFilesOnly`, a condition
on steps: no cleanup deletes an object that another task holds (`Holds`: has
recorded, or has uploaded and is about to record). With these it proves
`MarkedFilesAreSaved`, `RecordsHaveObjects`, `SuccessIsSaved` and
`SuccessMeansCatalogue`. Two theorems then say where the condition is true, and so
assume nothing of the steps:

* **`AloneIsSaved`**: for a task that runs alone, nobody else holds anything; then
  SUCCESS also means that records and store are exactly the catalogue
  (`SuccessIsExact`).
* **`CrashesLoseNothing`**: workers that die at any step, and nothing else, lose no
  file of any number of tasks of one catalogue, because a worker that dies cleans
  nothing up (`NoCleanup`).

The invariant is `SavedInv`. That a batch may be marked rests on `BatchIsCovered`
(each file of the batch is still to do, in hand or recorded) and
`RecordedIsStored`; that what was marked stays saved, on `DelistedIsSaved`: some
task has it `Safe`, recorded and not among the files its own cleanup would delete.
Every step of a task keeps what is safe with that task (`KeepsSafe`), and
`OwnFilesOnly` is what keeps it safe from the others (`OthersKept`). Without
`OwnFilesOnly` or `Harmless` the theorems are false: `files_shared` breaks the
first, `files_cleanup` the second (a death in the cleanup; a failed transaction
of it or a failed query before it leaves the same state, and an answer of mark_downloaded that is lost lets the
cleanup delete what is marked; an archive that lacks a file of the batch has it
marked without being saved).

Two more theorems of that module assume nothing of the faults, only that the task is
alone (`Alone`): `FaultsLeaveOneRecordEach` and `FaultsLoseOneBatchEach`, the accounts
of `files_faults` for any catalogue, batch size and number of faults of every kind.
Neither count is inductive: between a fault and what it costs lie several steps. So
`DamageInv` counts among the lost also what will be lost when nothing else fails
(`AtRisk`: what is skipped without its object, what the archive in hand does not
hold, what a cleanup under way deletes though it is no longer listed), and does not
count a fault that has yet to do its harm (`Charged`: a failed query whose refused
deletion is still to come). A step then puts nothing at risk (`Free`) or is paid for by
a fault, one record or one batch (`Paid`).

`CatalogClientProofs` proves all four properties of `client_calls` for every pair
of integer limits and every delay: `ClientTypeCorrect`, `NoTempFileIsLeft`,
`PaceIsAsked` and `CallsEndAsDecided`. `ClientInv` joins the types with
`OneTempFile`, since a file that is deleted must exist for the count to stay a
number. `EndsInv` adds `Counted` (the two counters are the numbers of such answers
in the history), which rests on `NumOfAppend`, a fact about the cardinality of
the positions of a sequence.

`PagesProofs` is about the two pages. Of the download page it proves
`DownloadPageTypeCorrect` and `IntervalsAreKnown` for any tasks and any number of
polls under way. That a poll is never answered with the "none" of a task without
a row rests on `PolledIsInTable`. `IntervalIsKnown` is strengthened by `OnePress`:
no `clearPoll` of a press knows an interval, and the mounted effect knows none or
the page's. Of the files page it proves `FilesPageTypeCorrect`, `QuietPageIsRight`,
`PageSelectionIsAlwaysShown` and `LatestResultIsShown` for any files, page sizes
and number of loads. The first two properties are inductive once `EffectLoads` and
`EffectFiles` say what the effect does; the third needs `OneCalculation`: the
button that is disabled and the window that covers it admit one calculation at a
time.

`FileQueriesProofs` proves `QueriesTypeCorrect`, `StatisticsAreRight`,
`CalculationNamesRows`, `CalculationsAreRight` and `AnswersAreOfOneSet` for any files,
names and selections. `CountsAreOfRows` says for each position of the statistics
which counts lie in the window, which only grows (`WindowGrows`).
`CalculationFollowsRows` follows each file from the selection to the result: one that
was there throughout is still to be read, found, named or empty. Both rest on
`RowsAreUploads`, what a row can say. `SumsFollow` is about the sums: there is
a set of files, each counted once (`EachOnce`), of which the total is the sum and
`by_file` the entries (`CountedAre`). It rests on lemmas about the
library's sum over a finite set (what one element more adds, that a part sums to no
more than the whole, that equal functions have equal sums). They are inductions over
a finite set, whose theorems in the library take an operator as a parameter, which
no backend here can instantiate; they are proved instead by the smallest
counterexample, from `FS_StrictSubsetOrderingWellFounded`.

`ReadersProofs` carries this over to the specification that the run `readers` checks:
each of its steps is a step of one reader or a stutter of it (`ReadersStep`), so that
`ReadersTypeCorrect`, `PagesAreRight` and `AnswersAreRight` follow from the steps of
the invariants above, now for the initial states and the next-state relation of
Readers.

Every invariant and every action property of the passing runs is stated by a
theorem. Only model-checked: what is temporal under fairness (`TaskSettles`,
`BlockEnds`, `HandlerEnds`, `PageCatchesUp`, `ShownLoadsEnd`), which the prover cannot
do, as it has no rule for WF, SF and ENABLED.

## Findings

Each is a run that TLC ends with a counterexample.

1. **`overtaken_worker`** (`TerminalIsFinal`): a handler whose heartbeat came
   too late is overtaken; later it writes its old object over the new
   executor's outcome (`update`, repositories.py:126, does not look).
2. **`lost_send`** (`NoStrandedTask`): a task whose message is not sent after
   the commit stays PENDING for ever, as nothing looks for PENDING rows. The
   watchdog has the same gap after its own commit.
3. **`unseen_success`** (`SuccessIsShown`): the page waits for the status
   'COMPLETED' (DownloadPage.tsx:117 and 125), which the backend calls SUCCESS: it
   shows a download that has succeeded as running, and polls it for ever.
4. **`files_shared`** (`SuccessMeansSaved`): the cleanup of one task deletes
   the object another task recorded under the same key; the other succeeds.
5. **`files_cleanup`** (`SuccessMeansSaved`): a cleanup that is cut short
   between the object's deletion and the record's leaves a record that makes
   the next attempt skip the file.

Met while reading, and modelled as the code does it, without a run of their own:

* A 403 with a `Retry-After` of at most 60 s fails the task
  (`TaskLifecycle!Blocked`, download_handler.py:211); README.md:130 says that the
  worker waits.
* Two overtaken workers can leave a RUNNING row with a NULL heartbeat, which
  `reclaim_stuck` never selects (see `RecoverableRow` above).
* `total_files` of the statistics adds the count of all files to two counts of
  some of them (`FileQueries!TotalFiles`): an uploaded file counts twice.
* A failed query for an already downloaded file is not rolled back
  (`ProcessFiles!ExtractError`, download_handler.py:114). Of a batch of f1 and f2, f1 is
  saved and the query for f2 fails; the cleanup deletes the object of f1 and is refused
  the deletion of its record, which it only logs. The row stays RUNNING if the worker
  dies or the save of FAILED fails; then the next attempt finds the record of f1, skips
  it, marks the batch and ends in SUCCESS without the object: the state of finding 5
  from another cause.
* `reclaim_blocked` takes at most 20 rows in no order: under more than 20 tasks that are
  blocked again and again one may wait for ever (see `BlockEnds` above).
* A second press before the first is answered leaves the page with one interval
  and `clearPoll` with another (`DownloadPage!StartDownload`).
* A start answered after the page is left starts an interval that nobody clears
  (`DownloadPage!StartAnswered`).
* Two loads of different pages under way may each undo the other's choice and
  load again, for as long as both are under way (`FilesPage!LoadAnswered`); this
  is why `LoadsEnd` has its premise.
* When the files of the last page are cleaned up, the page says that there are
  none, and offers no way back (`FilesPage!TableShown`, FilesPage.tsx:199).

## What is not modelled, and why

The schemas, dependency wiring, configuration, logging, sessions, migrations and
domain events keep no state of their own; of the routes, those of the statistics
and the calculations are actions of FileQueries, those that start and read a task
steps of TaskLifecycle and DownloadPage. The table of the last downloads on the
download page is loaded when a status changes and shown as it is; it is left out.
A calculation's sums are one number for the ten digits, which are counted alike. Bytes, hashes, sizes
and messages are not modelled: the properties do not depend on them. SQL
statements are atomic: a race inside `UPDATE ... WHERE id IN (SELECT ...)` under
READ COMMITTED is not. How long the client sleeps before a retry is not modelled:
that it may be longer than a heartbeat lasts is the fault `stall` of
TaskLifecycle. A worker killed during a download leaves its temporary file to
the container.

## Plan

1. `DownloadTask`, `TaskContract`, `TaskLifecycle`, type correctness and
   `NoStrandedTask` proved (done).
2. `ProcessFiles`, alone, shared and with every fault (done).
3. Proofs under timeliness: one executor, final outcomes, counted claims and
   the refinement of `TaskContract` (done).
4. `CatalogClient`: calls, retries, limits, pace and temporary files, checked and
   proved (done).
5. `FilesPage`, `DownloadPage`, `FileQueries`, composed in `Readers`, checked and
   proved, the sums and the composition included (done).
6. Proofs about `ProcessFiles`: types, `CountersAgree` and `KeepsContract` for any
   tasks; `MarkedIsSaved`, `RecordHasObject` and `SuccessMeansSaved` for tasks whose
   cleanups leave each other's files alone, and without that condition for a task
   alone and for workers that only die; what a fault of any kind costs a task alone
   (done).
7. Left: `reclaim_stuck` as two steps, its subquery and its update, at READ
   COMMITTED; two executors of one task in ProcessFiles, which needs TaskLifecycle's
   stalls.
