---------------------------- MODULE FileQueries ----------------------------
(***************************************************************************)
(* FileQueries: the two requests that sum up the saved files, made while   *)
(* the workers save and clean up.                                          *)
(*                                                                         *)
(* Neither request is one read, and each statement sees what is committed  *)
(* when it runs.  The statistics count the table three times.  A           *)
(* calculation reads the rows of the selected files one by one and then    *)
(* their objects one by one, so that a file may come or go in between, in  *)
(* either of the two places where it is kept.                              *)
(*                                                                         *)
(* The writers are those of ProcessFiles, cut down to what they do to the  *)
(* table and the bucket: as cleanups of other tasks, crashes and failed    *)
(* deletions come between their steps, each step may be taken at any time. *)
(* All digits are counted in the same way, and one stands for them here.   *)
(***************************************************************************)
EXTENDS Naturals, Sequences, FiniteSets, Functions, SequencesExt

CONSTANTS
    Ids,      \* FileId
    Names,
    NameOf,   \* the name under which the file of an id is saved
    Digits,   \* how often the digit occurs in the file of a name
    Empty,    \* the names of files without content
    NULL,
    MaxFiles  \* bound: how many rows are ever inserted

FileStatus == {"CREATED", "UPLOADING", "UPLOADED", "FAILED"}

File == [filename : Names, hash : BOOLEAN, storage_key : Names \cup {NULL}, status : FileStatus]

ASSUME FileQueriesAssumption ==
    /\ IsFiniteSet(Ids)
    /\ NameOf \in [Ids -> Names]
    /\ Digits \in [Names -> Nat]
    /\ Empty \subseteq Names
    /\ \A n \in Empty : Digits[n] = 0
    /\ NULL \notin Names \cup File
    /\ MaxFiles \in Nat

VARIABLES
    files,    \* the table: the entity of each id that has a row
    objects,  \* the keys of the bucket; a key files/{filename} is its name
    used,     \* history: the ids that had a row at some time
    stat,     \* the request for statistics, or its result
    calc,     \* the calculation, or its result
    during    \* history: what was there while the request was under way

\* A row, or an entry, is added or replaced.
Put(f, key, value) == [k \in DOMAIN f \cup {key} |-> IF k = key THEN value ELSE f[k]]

queries == <<files, objects, used, stat, calc, during>>

-----------------------------------------------------------------------------
(* The entity: a method is a guard and a function. *)

\* The handler gives it the hash of the content.
NewFile(n) == [filename |-> n, hash |-> TRUE, storage_key |-> NULL, status |-> "CREATED"]

CanStartUpload(f) == f.status = "CREATED"

StartUpload(f) == [f EXCEPT !.status = "UPLOADING"]

CanCompleteUpload(f) == f.status = "UPLOADING"

CompleteUpload_StatusKept(f, key) == [f EXCEPT !.storage_key = key, !.hash = TRUE]

CompleteUpload(f, key) ==
    [f EXCEPT !.storage_key = key, !.hash = TRUE, !.status = "UPLOADED"]

-----------------------------------------------------------------------------
(* What is there while a request is under way. *)

Stored(table, bucket) == {i \in DOMAIN table : NameOf[i] \in bucket}

\* least and most: how many rows there were; ever: the ids that had a row;
\* always: those that had their row and their object throughout.
NowThere ==
    [least |-> Cardinality(DOMAIN files), most |-> Cardinality(DOMAIN files),
     ever |-> DOMAIN files, always |-> Stored(files, objects)]

UnderWay == stat.at \in 1..3 \/ calc.todo # <<>> \/ calc.found # <<>>

Watch ==
    LET n == Cardinality(DOMAIN files') IN
    during' =
        IF UnderWay
        THEN [least |-> IF n < during.least THEN n ELSE during.least,
              most |-> IF n > during.most THEN n ELSE during.most,
              ever |-> during.ever \cup DOMAIN files',
              always |-> during.always \cap Stored(files', objects')]
        ELSE during

-----------------------------------------------------------------------------
(* The writers. *)

UploadFile(n) ==
    /\ n \notin objects
    /\ objects' = objects \cup {n}
    /\ UNCHANGED <<files, used, stat, calc>>
    /\ Watch

RecordFile(i) ==
    LET new == NewFile(NameOf[i])
        started == StartUpload(new) IN
    /\ i \notin used
    /\ Cardinality(used) < MaxFiles
    /\ CanStartUpload(new) /\ CanCompleteUpload(started)
    /\ files' = Put(files, i, CompleteUpload(started, NameOf[i]))
    /\ used' = used \cup {i}
    /\ UNCHANGED <<objects, stat, calc>>
    /\ Watch

DeleteObject(n) ==
    /\ n \in objects
    /\ objects' = objects \ {n}
    /\ UNCHANGED <<files, used, stat, calc>>
    /\ Watch

DeleteRecord(i) ==
    /\ i \in DOMAIN files
    /\ files' = Restrict(files, DOMAIN files \ {i})
    /\ UNCHANGED <<objects, used, stat, calc>>
    /\ Watch

-----------------------------------------------------------------------------
(* Statistics.  The last result is forgotten when a request is made. *)

\* Bound: one request at a time, as none changes what another reads.
NoStat == [at |-> 0, total |-> 0, uploaded |-> 0, failed |-> 0]
NoCalc == [asked |-> <<>>, todo |-> <<>>, found |-> <<>>, total |-> 0, by_file |-> <<>>]

CountByStatus(status) ==
    Cardinality({i \in DOMAIN files : status = "" \/ files[i].status = status})

AskStatistics ==
    /\ ~UnderWay
    /\ stat' = [NoStat EXCEPT !.at = 1]
    /\ calc' = NoCalc
    /\ during' = NowThere
    /\ UNCHANGED <<files, objects, used>>

CountTotal ==
    /\ stat.at = 1
    /\ stat' = [stat EXCEPT !.at = 2, !.total = CountByStatus("")]
    /\ UNCHANGED <<files, objects, used, calc, during>>

CountUploaded ==
    /\ stat.at = 2
    /\ stat' = [stat EXCEPT !.at = 3, !.uploaded = CountByStatus("UPLOADED")]
    /\ UNCHANGED <<files, objects, used, calc, during>>

CountFailed ==
    /\ stat.at = 3
    /\ stat' = [stat EXCEPT !.at = 4, !.failed = CountByStatus("FAILED")]
    /\ UNCHANGED <<files, objects, used, calc, during>>

\* The three counts are added up, and most files are in two of them.
TotalFiles == stat.total + stat.uploaded + stat.failed

-----------------------------------------------------------------------------
(* Calculations. *)

\* The page selects among files that it was shown.
AskCalculation(ids) ==
    /\ ~UnderWay
    /\ ToSet(ids) \subseteq used
    /\ stat' = NoStat
    /\ calc' = [NoCalc EXCEPT !.asked = ids, !.todo = ids]
    /\ during' = NowThere
    /\ UNCHANGED <<files, objects, used>>

Reading == calc.todo # <<>>

GetById(i) == IF i \in DOMAIN files THEN files[i] ELSE NULL

\* What the row of an id adds to the files to be downloaded.
FoundAt_Anything(i) == <<[id |-> i, file |-> GetById(i)]>>

FoundAt(i) ==
    LET file == GetById(i) IN
    IF file # NULL /\ file.hash /\ file.storage_key # NULL
    THEN <<[id |-> i, file |-> file]>>
    ELSE <<>>

ReadRow ==
    /\ Reading
    /\ calc' = [calc EXCEPT !.todo = Tail(@), !.found = @ \o FoundAt(Head(calc.todo))]
    /\ UNCHANGED <<files, objects, used, stat, during>>

\* The result, once the content of a file is counted.
Counted_OncePerName(f) ==
    IF f.filename \in DOMAIN calc.by_file THEN calc
    ELSE [calc EXCEPT !.total = @ + Digits[f.filename],
                      !.by_file = Put(@, f.filename, Digits[f.filename])]

Counted_AddedPerName(f) ==
    LET n == f.filename IN
    [calc EXCEPT !.total = @ + Digits[n],
                 !.by_file = Put(@, n, Digits[n] + (IF n \in DOMAIN @ THEN @[n] ELSE 0))]

Counted(f) ==
    [calc EXCEPT !.total = @ + Digits[f.filename],
                 !.by_file = Put(@, f.filename, Digits[f.filename])]

Downloading == ~Reading /\ calc.found # <<>>

DownloadFile ==
    LET file == Head(calc.found).file IN
    /\ Downloading
    /\ calc' = [(IF file.storage_key \in objects \ Empty THEN Counted(file) ELSE calc)
                   EXCEPT !.found = Tail(@)]
    /\ UNCHANGED <<files, objects, used, stat, during>>

\* Whatever goes wrong with the object, the file is passed over in silence:
\* it is not among those that were there throughout.
DownloadError ==
    /\ Downloading
    /\ calc' = [calc EXCEPT !.found = Tail(@)]
    /\ during' = [during EXCEPT !.always = @ \ {Head(calc.found).id}]
    /\ UNCHANGED <<files, objects, used, stat>>

-----------------------------------------------------------------------------

QueriesInit ==
    /\ files = <<>>
    /\ objects = {}
    /\ used = {}
    /\ stat = NoStat
    /\ calc = NoCalc
    /\ during = NowThere

QueriesNext ==
    \/ \E n \in Names : UploadFile(n) \/ DeleteObject(n)
    \/ \E i \in Ids : RecordFile(i) \/ DeleteRecord(i)
    \/ AskStatistics \/ CountTotal \/ CountUploaded \/ CountFailed
    \/ \E S \in (SUBSET Ids) \ {{}} : \E ids \in SetToSeqs(S) : AskCalculation(ids)
    \/ ReadRow \/ DownloadFile \/ DownloadError

QueriesSpec == QueriesInit /\ [][QueriesNext]_queries

-----------------------------------------------------------------------------

Found == [id : Ids, file : File]

\* The type invariant.
QueriesTypeOK ==
    /\ files \in [DOMAIN files -> File]
    /\ objects \subseteq Names
    /\ DOMAIN files \subseteq used /\ used \subseteq Ids
    /\ stat \in [at : 0..4, total : Nat, uploaded : Nat, failed : Nat]
    /\ calc \in [asked : Seq(Ids), todo : Seq(Ids), found : Seq(Found),
                 total : Nat, by_file : [DOMAIN calc.by_file -> Nat]]
    /\ DOMAIN calc.by_file \subseteq Names
    /\ during \in [least : Nat, most : Nat, ever : SUBSET Ids, always : SUBSET Ids]

\* What the statistics say is true of some moments of their request: the
\* files uploaded, and the total without what it counts twice, lie between
\* the least and the most files there were, and none has failed, as a file
\* is only recorded once it is uploaded (StatisticsHandler.execute).
StatisticsAreOfTheirTime ==
    stat.at = 4 =>
        /\ stat.uploaded \in during.least..during.most
        /\ TotalFiles - stat.uploaded - stat.failed \in during.least..during.most
        /\ stat.failed = 0

CalculationOver == calc.asked # <<>> /\ calc.todo = <<>> /\ calc.found = <<>>

DigitsOf(ids) == SumFunctionOnSet([i \in ids |-> Digits[NameOf[i]]], ids)

\* Every file counted is named, and every one that was there throughout and
\* has content; no other is.
NamesAreOfTheirTime ==
    CalculationOver =>
        /\ {NameOf[i] : i \in ToSet(calc.asked) \cap during.always} \ Empty
              \subseteq DOMAIN calc.by_file
        /\ DOMAIN calc.by_file \subseteq {NameOf[i] : i \in ToSet(calc.asked) \cap during.ever}

\* A calculation counts each selected file that was there throughout, and no
\* file that was never there, and names them
\* (CalculateStatsHandler.execute).
CalculationIsOfItsTime ==
    /\ CalculationOver =>
          calc.total \in DigitsOf(ToSet(calc.asked) \cap during.always)
                      ..DigitsOf(ToSet(calc.asked) \cap during.ever)
    /\ NamesAreOfTheirTime

\* The two parts of an answer are of one set of rows: those that were there
\* throughout with content are in it, those that never were are not.  The
\* total counts each of its rows, two of one name twice; by_file has one
\* entry for each of its names, with the digits of one file of that name
\* (CalculateStatsHandler.execute).
AnswerIsOfOneSet ==
    CalculationOver =>
        \E C \in SUBSET (ToSet(calc.asked) \cap during.ever) :
            /\ {i \in ToSet(calc.asked) \cap during.always : NameOf[i] \notin Empty} \subseteq C
            /\ calc.total = DigitsOf(C)
            /\ DOMAIN calc.by_file = {NameOf[i] : i \in C}
            /\ \A i \in C : calc.by_file[NameOf[i]] = Digits[NameOf[i]]
=============================================================================
