-------------------------- MODULE FileQueriesProofs --------------------------
(***************************************************************************)
(* Proofs about FileQueries for any files and names: its types, that the   *)
(* statistics are true of moments of their request, that a calculation     *)
(* names the files that were there, and that it counts their digits and no *)
(* others.  Its sums are recursive functions on the subsets of a finite    *)
(* set: what is said of them is proved from a least set for which it would *)
(* fail.                                                                   *)
(***************************************************************************)
EXTENDS FileQueries, FiniteSetTheorems, SequenceTheorems, TLAPS

-----------------------------------------------------------------------------
(* Types. *)

CalcType ==
    [asked : Seq(Ids), todo : Seq(Ids), found : Seq(Found), total : Nat,
     by_file : UNION {[D -> Nat] : D \in SUBSET Names}]

WindowType == [least : Nat, most : Nat, ever : SUBSET Ids, always : SUBSET Ids]

LEMMA CalcTyped ==
    ASSUME NEW c
    PROVE  (c \in [asked : Seq(Ids), todo : Seq(Ids), found : Seq(Found),
                   total : Nat, by_file : [DOMAIN c.by_file -> Nat]]
            /\ DOMAIN c.by_file \subseteq Names)
           <=> c \in CalcType
BY DEF CalcType

LEMMA CountIsNat ==
    ASSUME QueriesTypeOK
    PROVE  /\ IsFiniteSet(DOMAIN files)
           /\ Cardinality(DOMAIN files) \in Nat
           /\ \A S : Cardinality({i \in DOMAIN files : i \in S}) \in Nat
<1>1. DOMAIN files \subseteq Ids
  BY DEF QueriesTypeOK
<1>2. IsFiniteSet(DOMAIN files)
  BY <1>1, FS_Subset, FileQueriesAssumption
<1>3. \A S : IsFiniteSet({i \in DOMAIN files : i \in S})
  <2>1. \A S : {i \in DOMAIN files : i \in S} \subseteq DOMAIN files
    OBVIOUS
  <2> QED
    BY <1>2, <2>1, FS_Subset
<1> QED
  BY <1>2, <1>3, FS_CardinalityType

LEMMA CountByStatusIsNat ==
    ASSUME QueriesTypeOK, NEW status
    PROVE  CountByStatus(status) \in Nat
<1>1. IsFiniteSet({i \in DOMAIN files : status = "" \/ files[i].status = status})
  BY CountIsNat, FS_Subset
<1> QED
  BY <1>1, FS_CardinalityType DEF CountByStatus

LEMMA WatchType ==
    ASSUME QueriesTypeOK, DOMAIN files' \subseteq Ids, Watch
    PROVE  during' \in WindowType
<1>1. during \in WindowType
  BY DEF QueriesTypeOK, WindowType
<1>2. IsFiniteSet(DOMAIN files')
  BY FS_Subset, FileQueriesAssumption
<1>3. Cardinality(DOMAIN files') \in Nat
  BY <1>2, FS_CardinalityType
<1>4. Stored(files', objects') \subseteq Ids
  BY DEF Stored
<1>5. CASE ~UnderWay
  BY <1>1, <1>5 DEF Watch
<1>6. CASE UnderWay
  <2> DEFINE n == Cardinality(DOMAIN files')
  <2> HIDE DEF n
  <2>1. n \in Nat
    BY <1>3 DEF n
  <2>2. during' = [least |-> IF n < during.least THEN n ELSE during.least,
                   most |-> IF n > during.most THEN n ELSE during.most,
                   ever |-> during.ever \cup DOMAIN files',
                   always |-> during.always \cap Stored(files', objects')]
    BY <1>6 DEF Watch, n
  <2> QED
    BY <1>1, <1>4, <2>1, <2>2 DEF WindowType
<1> QED
  BY <1>5, <1>6

LEMMA NowThereType ==
    ASSUME QueriesTypeOK
    PROVE  NowThere \in WindowType
<1>1. DOMAIN files \subseteq Ids /\ Stored(files, objects) \subseteq Ids
  BY DEF QueriesTypeOK, Stored
<1> QED
  BY <1>1, CountIsNat DEF NowThere, WindowType

LEMMA NoCalcType == NoCalc \in CalcType
<1>1. <<>> \in Seq(Ids) /\ <<>> \in Seq(Found)
  BY EmptySeq
<1>2. <<>> \in UNION {[D -> Nat] : D \in SUBSET Names}
  OBVIOUS
<1> QED
  BY <1>1, <1>2 DEF NoCalc, CalcType

\* The only entity that is ever recorded for an id.
Recorded(i) == CompleteUpload(StartUpload(NewFile(NameOf[i])), NameOf[i])

LEMMA RecordedType ==
    ASSUME NEW i \in Ids
    PROVE  /\ Recorded(i) \in File
           /\ Recorded(i).filename = NameOf[i]
           /\ Recorded(i).storage_key = NameOf[i]
           /\ Recorded(i).hash
           /\ Recorded(i).status = "UPLOADED"
<1> DEFINE new == NewFile(NameOf[i])
<1> DEFINE started == StartUpload(new)
<1>1. NameOf[i] \in Names
  BY FileQueriesAssumption
<1>2. new \in File /\ new.filename = NameOf[i]
  BY <1>1 DEF NewFile, File, FileStatus
<1> HIDE DEF new
<1>3. started \in File /\ started.filename = NameOf[i]
  BY <1>2 DEF StartUpload, File, FileStatus
<1> HIDE DEF started
<1>4. Recorded(i) = CompleteUpload(started, NameOf[i])
  BY DEF Recorded, started, new
<1> QED
  BY <1>1, <1>3, <1>4 DEF CompleteUpload, File, FileStatus

LEMMA FoundAtType ==
    ASSUME QueriesTypeOK, NEW i \in Ids
    PROVE  FoundAt(i) \in Seq(Found)
<1>1. CASE GetById(i) = NULL
  BY <1>1, EmptySeq DEF FoundAt
<1>2. CASE GetById(i) # NULL
  <2>1. GetById(i) \in File
    BY <1>2 DEF GetById, QueriesTypeOK
  <2>2. [id |-> i, file |-> GetById(i)] \in Found
    BY <2>1 DEF Found
  <2>3. <<[id |-> i, file |-> GetById(i)]>> \in Seq(Found)
    BY <2>2
  <2> QED
    BY <2>3, EmptySeq DEF FoundAt
<1> QED
  BY <1>1, <1>2

LEMMA CountedType ==
    ASSUME NEW f \in File, calc \in CalcType
    PROVE  /\ Counted(f) \in CalcType
           /\ DOMAIN Counted(f).by_file = {f.filename} \cup DOMAIN calc.by_file
           /\ Counted(f).asked = calc.asked
           /\ Counted(f).todo = calc.todo
           /\ Counted(f).found = calc.found
<1> DEFINE by == Put(calc.by_file, f.filename, Digits[f.filename])
<1>1. f.filename \in Names /\ Digits[f.filename] \in Nat
  BY FileQueriesAssumption DEF File
<1>2. DOMAIN by = {f.filename} \cup DOMAIN calc.by_file
  BY DEF Put
<1>3. calc.by_file \in [DOMAIN calc.by_file -> Nat] /\ DOMAIN calc.by_file \subseteq Names
  BY DEF CalcType
<1>4. by \in [DOMAIN by -> Nat] /\ DOMAIN by \subseteq Names
  BY <1>1, <1>2, <1>3 DEF Put
<1> HIDE DEF by
<1>5. by \in UNION {[D -> Nat] : D \in SUBSET Names}
  BY <1>4
<1>6. Counted(f) = [calc EXCEPT !.total = calc.total + Digits[f.filename], !.by_file = by]
  BY DEF Counted, by
<1>7. calc.total + Digits[f.filename] \in Nat
  BY <1>1 DEF CalcType
<1>8. calc = [asked |-> calc.asked, todo |-> calc.todo, found |-> calc.found,
              total |-> calc.total, by_file |-> calc.by_file]
  BY DEF CalcType
<1>9. Counted(f) = [asked |-> calc.asked, todo |-> calc.todo, found |-> calc.found,
                    total |-> calc.total + Digits[f.filename], by_file |-> by]
  BY <1>6, <1>8
<1>10. calc.asked \in Seq(Ids) /\ calc.todo \in Seq(Ids) /\ calc.found \in Seq(Found)
  BY DEF CalcType
<1>11. Counted(f) \in CalcType
  BY <1>5, <1>7, <1>9, <1>10 DEF CalcType
<1>12. Counted(f).by_file = by
  BY <1>9
<1> QED
  BY <1>2, <1>9, <1>11, <1>12
\* The type invariant in the parts that an action changes.
TableType ==
    /\ files \in [DOMAIN files -> File]
    /\ objects \subseteq Names
    /\ DOMAIN files \subseteq used /\ used \subseteq Ids

StatType == [at : 0..4, total : Nat, uploaded : Nat, failed : Nat]

LEMMA TypeParts ==
    /\ QueriesTypeOK
         <=> TableType /\ stat \in StatType /\ calc \in CalcType /\ during \in WindowType
    /\ QueriesTypeOK'
         <=> TableType' /\ stat' \in StatType /\ calc' \in CalcType /\ during' \in WindowType
BY DEF QueriesTypeOK, TableType, StatType, CalcType, WindowType

LEMMA SelectedType ==
    ASSUME NEW S \in (SUBSET Ids) \ {{}}, NEW ids \in SetToSeqs(S)
    PROVE  ids \in Seq(Ids) /\ ids # <<>>
<1>1. IsFiniteSet(S)
  BY FS_Subset, FileQueriesAssumption
<1>2. Cardinality(S) \in Nat /\ Cardinality(S) # 0
  BY <1>1, FS_CardinalityType, FS_EmptySet
<1>3. ids \in [1..Cardinality(S) -> S]
  BY DEF SetToSeqs
<1> QED
  BY <1>2, <1>3

LEMMA WritersType ==
    ASSUME QueriesTypeOK,
           \/ \E n \in Names : UploadFile(n) \/ DeleteObject(n)
           \/ \E i \in Ids : RecordFile(i) \/ DeleteRecord(i)
    PROVE  QueriesTypeOK'
<1>1. TableType
  BY TypeParts
<1>2. ASSUME NEW n \in Names, UploadFile(n) \/ DeleteObject(n)
      PROVE  TableType' /\ UNCHANGED <<stat, calc>> /\ Watch
  BY <1>1, <1>2 DEF UploadFile, DeleteObject, TableType
<1>3. ASSUME NEW i \in Ids, RecordFile(i)
      PROVE  TableType' /\ UNCHANGED <<stat, calc>> /\ Watch
  <2>1. files' = Put(files, i, Recorded(i))
    BY <1>3 DEF RecordFile, Recorded
  <2>2. files' \in [DOMAIN files' -> File] /\ DOMAIN files' = DOMAIN files \cup {i}
    BY <1>1, <2>1, RecordedType DEF Put, TableType
  <2> QED
    BY <1>1, <1>3, <2>2 DEF RecordFile, TableType
<1>4. ASSUME NEW i \in Ids, DeleteRecord(i)
      PROVE  TableType' /\ UNCHANGED <<stat, calc>> /\ Watch
  BY <1>1, <1>4 DEF DeleteRecord, Restrict, TableType
<1>5. TableType' /\ UNCHANGED <<stat, calc>> /\ Watch
  BY <1>2, <1>3, <1>4
<1>6. during' \in WindowType
  BY <1>5, WatchType DEF TableType
<1> QED
  BY <1>5, <1>6, TypeParts

LEMMA StatisticsType ==
    ASSUME QueriesTypeOK, AskStatistics \/ CountTotal \/ CountUploaded \/ CountFailed
    PROVE  QueriesTypeOK'
<1>1. TableType' /\ stat \in StatType /\ calc \in CalcType /\ during \in WindowType
  BY TypeParts DEF AskStatistics, CountTotal, CountUploaded, CountFailed, TableType
<1>2. CASE AskStatistics
  <2>1. stat' \in StatType
    BY <1>2 DEF AskStatistics, NoStat, StatType
  <2> QED
    BY <1>1, <1>2, <2>1, NowThereType, NoCalcType, TypeParts DEF AskStatistics
<1>3. ASSUME NEW status, CountByStatus(status) \in Nat
      PROVE  /\ [stat EXCEPT !.at = 2, !.total = CountByStatus(status)] \in StatType
             /\ [stat EXCEPT !.at = 3, !.uploaded = CountByStatus(status)] \in StatType
             /\ [stat EXCEPT !.at = 4, !.failed = CountByStatus(status)] \in StatType
  <2>1. stat = [at |-> stat.at, total |-> stat.total,
                uploaded |-> stat.uploaded, failed |-> stat.failed]
    BY <1>1 DEF StatType
  <2>2. stat.total \in Nat /\ stat.uploaded \in Nat /\ stat.failed \in Nat
    BY <1>1 DEF StatType
  <2>3. 2 \in 0..4 /\ 3 \in 0..4 /\ 4 \in 0..4
    OBVIOUS
  <2>4. [stat EXCEPT !.at = 2, !.total = CountByStatus(status)] \in StatType
    BY <1>3, <2>1, <2>2, <2>3 DEF StatType
  <2>5. [stat EXCEPT !.at = 3, !.uploaded = CountByStatus(status)] \in StatType
    BY <1>3, <2>1, <2>2, <2>3 DEF StatType
  <2>6. [stat EXCEPT !.at = 4, !.failed = CountByStatus(status)] \in StatType
    BY <1>3, <2>1, <2>2, <2>3 DEF StatType
  <2> QED
    BY <2>4, <2>5, <2>6
<1>4. CASE CountTotal \/ CountUploaded \/ CountFailed
  <2>1. stat' \in StatType
    BY <1>3, <1>4, CountByStatusIsNat DEF CountTotal, CountUploaded, CountFailed
  <2> QED
    BY <1>1, <1>4, <2>1, TypeParts DEF CountTotal, CountUploaded, CountFailed
<1> QED
  BY <1>2, <1>4

LEMMA CalculationType ==
    ASSUME QueriesTypeOK,
           \/ \E S \in (SUBSET Ids) \ {{}} : \E ids \in SetToSeqs(S) : AskCalculation(ids)
           \/ ReadRow \/ DownloadFile \/ DownloadError
    PROVE  QueriesTypeOK'
<1>1. TableType /\ stat \in StatType /\ calc \in CalcType /\ during \in WindowType
  BY TypeParts
<1>2. calc.todo \in Seq(Ids) /\ calc.found \in Seq(Found)
  BY <1>1 DEF CalcType
<1>3. ASSUME NEW S \in (SUBSET Ids) \ {{}}, NEW ids \in SetToSeqs(S), AskCalculation(ids)
      PROVE  QueriesTypeOK'
  <2>1. [NoCalc EXCEPT !.asked = ids, !.todo = ids] \in CalcType
    BY SelectedType, NoCalcType DEF CalcType
  <2>2. NoStat \in StatType
    BY DEF NoStat, StatType
  <2> QED
    BY <1>1, <1>3, <2>1, <2>2, NowThereType, TypeParts DEF AskCalculation, TableType
<1>4. CASE ReadRow
  <2>1. Head(calc.todo) \in Ids /\ Tail(calc.todo) \in Seq(Ids)
    BY <1>2, <1>4, HeadTailProperties DEF ReadRow, Reading
  <2>2. calc.found \o FoundAt(Head(calc.todo)) \in Seq(Found)
    BY <1>2, <2>1, FoundAtType, ConcatProperties
  <2>3. calc' = [calc EXCEPT !.todo = Tail(calc.todo),
                             !.found = calc.found \o FoundAt(Head(calc.todo))]
    BY <1>4 DEF ReadRow
  <2>4. calc' \in CalcType
    BY <1>1, <2>1, <2>2, <2>3 DEF CalcType
  <2> QED
    BY <1>1, <1>4, <2>4, TypeParts DEF ReadRow, TableType
<1>5. CASE DownloadFile
  <2>1. Head(calc.found) \in Found /\ Tail(calc.found) \in Seq(Found)
    BY <1>2, <1>5, HeadTailProperties DEF DownloadFile, Downloading
  <2>2. PICK c \in {calc, Counted(Head(calc.found).file)} :
          calc' = [c EXCEPT !.found = Tail(@)]
    BY <1>5 DEF DownloadFile
  <2>3. c \in CalcType /\ c.found = calc.found
    BY <1>1, <2>1, <2>2, CountedType DEF Found
  <2>4. calc' \in CalcType
    BY <2>1, <2>2, <2>3 DEF CalcType
  <2> QED
    BY <1>1, <1>5, <2>4, TypeParts DEF DownloadFile, TableType
<1>6. CASE DownloadError
  <2>1. Tail(calc.found) \in Seq(Found)
    BY <1>2, <1>6, HeadTailProperties DEF DownloadError, Downloading
  <2>2. calc' \in CalcType
    BY <1>1, <1>6, <2>1 DEF DownloadError, CalcType
  <2>3. during' \in WindowType
    BY <1>1, <1>6 DEF DownloadError, WindowType
  <2> QED
    BY <1>1, <1>6, <2>2, <2>3, TypeParts DEF DownloadError, TableType
<1> QED
  BY <1>3, <1>4, <1>5, <1>6

LEMMA QueriesTypeNext == QueriesTypeOK /\ [QueriesNext]_queries => QueriesTypeOK'
<1>1. ASSUME QueriesTypeOK, UNCHANGED queries PROVE QueriesTypeOK'
  BY <1>1 DEF queries, QueriesTypeOK
<1> QED
  BY <1>1, WritersType, StatisticsType, CalculationType DEF QueriesNext

LEMMA QueriesTypeInit == QueriesInit => QueriesTypeOK
<1> SUFFICES ASSUME QueriesInit PROVE QueriesTypeOK
  OBVIOUS
<1>1. DOMAIN files = {} /\ TableType
  BY DEF QueriesInit, TableType
<1>2. stat \in StatType
  BY DEF QueriesInit, NoStat, StatType
<1>3. during \in WindowType
  <2>1. Cardinality(DOMAIN files) = 0 /\ Stored(files, objects) = {}
    BY <1>1, FS_EmptySet DEF Stored
  <2> QED
    BY <1>1, <2>1 DEF QueriesInit, NowThere, WindowType
<1> QED
  BY <1>1, <1>2, <1>3, NoCalcType, TypeParts DEF QueriesInit

\* The tables, the request and its result keep their types.
THEOREM QueriesTypeCorrect == QueriesSpec => []QueriesTypeOK
BY QueriesTypeInit, QueriesTypeNext, PTL DEF QueriesSpec
-----------------------------------------------------------------------------
(* Statistics. *)

\* What the row of an id says.
RowsAreUploads ==
    \A i \in DOMAIN files :
        /\ files[i].filename = NameOf[i]
        /\ files[i].storage_key = NameOf[i]
        /\ files[i].hash
        /\ files[i].status = "UPLOADED"

LEMMA RowsNext ==
    ASSUME QueriesTypeOK, RowsAreUploads, [QueriesNext]_queries
    PROVE  RowsAreUploads'
<1> USE DEF RowsAreUploads
<1>1. ASSUME NEW i \in Ids, RecordFile(i) PROVE RowsAreUploads'
  <2>1. files' = Put(files, i, Recorded(i))
    BY <1>1 DEF RecordFile, Recorded
  <2> QED
    BY <2>1, RecordedType DEF Put
<1>2. ASSUME NEW i \in Ids, DeleteRecord(i) PROVE RowsAreUploads'
  BY <1>2 DEF DeleteRecord, Restrict
<1>3. ASSUME files' = files PROVE RowsAreUploads'
  BY <1>3
<1>4. CASE UNCHANGED queries
  BY <1>3, <1>4 DEF queries
<1> QED
  BY <1>1, <1>2, <1>3, <1>4
  DEF QueriesNext, UploadFile, DeleteObject, AskStatistics, CountTotal, CountUploaded,
      CountFailed, AskCalculation, ReadRow, DownloadFile, DownloadError

\* While the counts are taken, and after, each is of a number of rows that
\* there was: every row is counted as uploaded, none as failed.
CountsAreOfRows ==
    /\ stat.at \in 1..3 => Cardinality(DOMAIN files) \in during.least..during.most
    /\ stat.at \in 2..4 => stat.total \in during.least..during.most
    /\ stat.at \in 3..4 => stat.uploaded \in during.least..during.most
    /\ stat.failed = 0

LEMMA CountIsOfRows ==
    ASSUME QueriesTypeOK, RowsAreUploads
    PROVE  /\ CountByStatus("") = Cardinality(DOMAIN files)
           /\ CountByStatus("UPLOADED") = Cardinality(DOMAIN files)
           /\ CountByStatus("FAILED") = 0
<1>1. {i \in DOMAIN files : "" = "" \/ files[i].status = ""} = DOMAIN files
  OBVIOUS
<1>2. {i \in DOMAIN files : "UPLOADED" = "" \/ files[i].status = "UPLOADED"} = DOMAIN files
  BY DEF RowsAreUploads
<1>3. {i \in DOMAIN files : "FAILED" = "" \/ files[i].status = "FAILED"} = {}
  BY DEF RowsAreUploads
<1> QED
  BY <1>1, <1>2, <1>3, FS_EmptySet DEF CountByStatus

\* What a writer does widens the window, to the new number of rows at least.
LEMMA WindowGrows ==
    ASSUME QueriesTypeOK, DOMAIN files' \subseteq Ids, Watch
    PROVE  /\ during'.least <= during.least /\ during.most <= during'.most
           /\ UnderWay => Cardinality(DOMAIN files') \in during'.least..during'.most
<1>1. during.least \in Nat /\ during.most \in Nat
  BY DEF QueriesTypeOK
<1>2. Cardinality(DOMAIN files') \in Nat
  BY FS_Subset, FS_CardinalityType, FileQueriesAssumption
<1>3. CASE ~UnderWay
  BY <1>1, <1>3 DEF Watch
<1>4. CASE UnderWay
  <2> DEFINE n == Cardinality(DOMAIN files')
  <2> HIDE DEF n
  <2>1. during'.least = IF n < during.least THEN n ELSE during.least
    BY <1>4 DEF Watch, n
  <2>2. during'.most = IF n > during.most THEN n ELSE during.most
    BY <1>4 DEF Watch, n
  <2>3. n \in Nat
    BY <1>2 DEF n
  <2>4. n \in during'.least..during'.most
    BY <1>1, <2>1, <2>2, <2>3
  <2> QED
    BY <1>1, <2>1, <2>2, <2>3, <2>4 DEF n
<1> QED
  BY <1>3, <1>4

\* A writer leaves the requests alone, and watches.
LEMMA WritersWatch ==
    ASSUME QueriesTypeOK,
           \/ \E n \in Names : UploadFile(n) \/ DeleteObject(n)
           \/ \E i \in Ids : RecordFile(i) \/ DeleteRecord(i)
    PROVE  UNCHANGED <<stat, calc>> /\ DOMAIN files' \subseteq Ids /\ Watch
<1>1. DOMAIN files' \subseteq Ids
  BY WritersType DEF QueriesTypeOK
<1> QED
  BY <1>1 DEF UploadFile, DeleteObject, RecordFile, DeleteRecord

LEMMA CountsNext ==
    ASSUME QueriesTypeOK, RowsAreUploads, CountsAreOfRows, [QueriesNext]_queries
    PROVE  CountsAreOfRows'
<1> USE DEF CountsAreOfRows
<1> DEFINE n == Cardinality(DOMAIN files)
<1>1. n \in Nat /\ stat \in StatType /\ during.least \in Nat /\ during.most \in Nat
  BY CountIsNat DEF QueriesTypeOK, StatType
<1>2. CASE \/ \E nm \in Names : UploadFile(nm) \/ DeleteObject(nm)
           \/ \E i \in Ids : RecordFile(i) \/ DeleteRecord(i)
  <2>1. stat' = stat /\ DOMAIN files' \subseteq Ids /\ Watch
    BY <1>2, WritersWatch
  <2>2. during'.least \in Nat /\ during'.most \in Nat
    BY <1>2, WritersType DEF QueriesTypeOK
  <2>3. stat.at \in 1..3 => UnderWay
    BY DEF UnderWay
  <2>4. /\ during'.least <= during.least /\ during.most <= during'.most
        /\ UnderWay => Cardinality(DOMAIN files') \in during'.least..during'.most
    BY <2>1, WindowGrows
  <2>5. \A x \in during.least..during.most : x \in during'.least..during'.most
    BY <1>1, <2>2, <2>4
  <2> QED
    BY <2>1, <2>3, <2>4, <2>5
<1>3. CASE AskStatistics
  <2>1. stat'.at = 1 /\ stat'.failed = 0
    BY <1>3 DEF AskStatistics, NoStat
  <2>2. during'.least = n /\ during'.most = n /\ files' = files
    BY <1>3 DEF AskStatistics, NowThere
  <2> HIDE DEF n
  <2>3. n \in during'.least..during'.most
    BY <1>1, <2>2
  <2> QED
    BY <2>1, <2>2, <2>3 DEF n
<1>4. CASE CountTotal
  <2>1. n \in during.least..during.most
    BY <1>4 DEF CountTotal
  <2>2. stat'.at = 2 /\ stat'.total = n /\ stat'.failed = 0
    BY <1>1, <1>4, CountIsOfRows DEF CountTotal, StatType
  <2>3. files' = files /\ during' = during
    BY <1>4 DEF CountTotal
  <2> QED
    BY <2>1, <2>2, <2>3
<1>5. CASE CountUploaded
  <2>1. n \in during.least..during.most /\ stat.total \in during.least..during.most
    BY <1>5 DEF CountUploaded
  <2>2. stat'.at = 3 /\ stat'.total = stat.total /\ stat'.uploaded = n /\ stat'.failed = 0
    BY <1>1, <1>5, CountIsOfRows DEF CountUploaded, StatType
  <2> QED
    BY <1>5, <2>1, <2>2 DEF CountUploaded
<1>6. CASE CountFailed
  <2>1. /\ stat.total \in during.least..during.most
        /\ stat.uploaded \in during.least..during.most
    BY <1>6 DEF CountFailed
  <2>2. /\ stat'.at = 4 /\ stat'.failed = 0
        /\ stat'.total = stat.total /\ stat'.uploaded = stat.uploaded
    BY <1>1, <1>6, CountIsOfRows DEF CountFailed, StatType
  <2> QED
    BY <1>6, <2>1, <2>2 DEF CountFailed
<1>7. ASSUME NEW ids, AskCalculation(ids) PROVE CountsAreOfRows'
  BY <1>7 DEF AskCalculation, NoStat
<1>8. CASE ReadRow \/ DownloadFile
  BY <1>8 DEF ReadRow, DownloadFile
<1>9. CASE DownloadError
  <2>1. during'.least = during.least /\ during'.most = during.most
    BY <1>9 DEF DownloadError, QueriesTypeOK
  <2> QED
    BY <1>9, <2>1 DEF DownloadError
<1>10. CASE UNCHANGED queries
  BY <1>10 DEF queries
<1> QED
  BY <1>2, <1>3, <1>4, <1>5, <1>6, <1>7, <1>8, <1>9, <1>10 DEF QueriesNext

LEMMA CountsInit == QueriesInit => RowsAreUploads /\ CountsAreOfRows
BY DEF QueriesInit, RowsAreUploads, CountsAreOfRows, NoStat

LEMMA CountsAreRight == QueriesTypeOK /\ CountsAreOfRows => StatisticsAreOfTheirTime
<1> SUFFICES ASSUME QueriesTypeOK, CountsAreOfRows, stat.at = 4
             PROVE  StatisticsAreOfTheirTime
  BY DEF StatisticsAreOfTheirTime
<1>1. stat.total \in Nat /\ stat.uploaded \in Nat /\ stat.failed \in Nat
  BY DEF QueriesTypeOK
<1>2. TotalFiles - stat.uploaded - stat.failed = stat.total
  BY <1>1 DEF TotalFiles
<1> QED
  BY <1>2 DEF CountsAreOfRows, StatisticsAreOfTheirTime

\* The statistics are true of moments of their request, whatever is saved or
\* cleaned up between their counts.
THEOREM StatisticsAreRight == QueriesSpec => []StatisticsAreOfTheirTime
BY CountsInit, CountsAreRight, QueriesTypeInit, QueriesTypeNext, RowsNext, CountsNext,
   PTL DEF QueriesSpec

-----------------------------------------------------------------------------
(* Calculations. *)

LEMMA HeadTailSet ==
    ASSUME NEW S, NEW s \in Seq(S), s # <<>>
    PROVE  ToSet(s) = {Head(s)} \cup ToSet(Tail(s))
<1>1. Len(s) \in Nat \ {0} /\ DOMAIN s = 1..Len(s) /\ Head(s) = s[1]
  BY EmptySeq, LenProperties
<1>2. DOMAIN Tail(s) = 1..(Len(s) - 1) /\ \A i \in 1..(Len(s) - 1) : Tail(s)[i] = s[i + 1]
  BY <1>1, HeadTailProperties, LenProperties
<1>3. \A i \in DOMAIN s : i = 1 \/ (i - 1 \in DOMAIN Tail(s) /\ s[i] = Tail(s)[i - 1])
  BY <1>1, <1>2
<1>4. \A i \in DOMAIN Tail(s) : i + 1 \in DOMAIN s
  BY <1>1, <1>2
<1>5. ToSet(s) \subseteq {Head(s)} \cup ToSet(Tail(s))
  BY <1>1, <1>3 DEF ToSet
<1>6. {Head(s)} \cup ToSet(Tail(s)) \subseteq ToSet(s)
  BY <1>1, <1>2, <1>4 DEF ToSet
<1> QED
  BY <1>5, <1>6

LEMMA ConcatSet ==
    ASSUME NEW S, NEW s \in Seq(S), NEW t \in Seq(S)
    PROVE  ToSet(s \o t) \subseteq ToSet(s) \cup ToSet(t) /\ ToSet(s) \subseteq ToSet(s \o t)
           /\ ToSet(t) \subseteq ToSet(s \o t)
<1>1. /\ DOMAIN s = 1..Len(s) /\ DOMAIN t = 1..Len(t)
      /\ Len(s) \in Nat /\ Len(t) \in Nat
  BY LenProperties
<1>2. /\ s \o t \in Seq(S) /\ DOMAIN (s \o t) = 1..(Len(s) + Len(t))
      /\ \A i \in 1..(Len(s) + Len(t)) :
            (s \o t)[i] = IF i <= Len(s) THEN s[i] ELSE t[i - Len(s)]
  BY ConcatProperties, LenProperties
<1>3. \A i \in DOMAIN (s \o t) : (s \o t)[i] \in ToSet(s) \cup ToSet(t)
  BY <1>1, <1>2 DEF ToSet
<1>4. \A i \in DOMAIN s : i \in DOMAIN (s \o t) /\ (s \o t)[i] = s[i]
  BY <1>1, <1>2
<1>5. \A i \in DOMAIN t : i + Len(s) \in DOMAIN (s \o t) /\ (s \o t)[i + Len(s)] = t[i]
  BY <1>1, <1>2
<1> QED
  BY <1>3, <1>4, <1>5 DEF ToSet

Asked == ToSet(calc.asked)

FoundIds == {f.id : f \in ToSet(calc.found)}

\* While a request is under way, its window tells what is there.  A file
\* that was there throughout is still to be read, found, or named, unless it
\* is empty; what is found or named was asked for and there at some time.
CalculationFollowsRows ==
    /\ UnderWay => /\ during.always \subseteq Stored(files, objects)
                   /\ DOMAIN files \subseteq during.ever
    /\ ToSet(calc.todo) \subseteq Asked
    /\ \A f \in ToSet(calc.found) :
          /\ f.id \in Asked \cap during.ever
          /\ f.file.filename = NameOf[f.id]
          /\ f.file.storage_key = NameOf[f.id]
    /\ \A i \in Asked \cap during.always :
          \/ i \in ToSet(calc.todo) \cup FoundIds
          \/ NameOf[i] \in Empty \cup DOMAIN calc.by_file
    /\ DOMAIN calc.by_file \subseteq {NameOf[i] : i \in Asked \cap during.ever}

LEMMA EmptySet == ToSet(<<>>) = {}
BY DEF ToSet

LEMMA WritersFollowed ==
    ASSUME QueriesTypeOK, CalculationFollowsRows,
           UNCHANGED <<stat, calc>>, DOMAIN files' \subseteq Ids, Watch
    PROVE  CalculationFollowsRows'
<1>1. UnderWay' = UnderWay
  BY DEF UnderWay
<1>2. during.ever \subseteq during'.ever /\ during'.always \subseteq during.always
  BY DEF Watch
<1>3. UnderWay => /\ during'.always \subseteq Stored(files', objects')
                  /\ DOMAIN files' \subseteq during'.ever
  BY DEF Watch
<1>4. Stored(files, objects)' = Stored(files', objects')
  BY DEF Stored
<1> QED
  BY <1>1, <1>2, <1>3, <1>4 DEF CalculationFollowsRows, Asked, FoundIds

LEMMA AskFollowed ==
    ASSUME QueriesTypeOK, NEW ids, UNCHANGED <<files, objects>>, during' = NowThere,
           \/ calc' = NoCalc
           \/ calc' = [NoCalc EXCEPT !.asked = ids, !.todo = ids]
    PROVE  CalculationFollowsRows'
<1>1. /\ calc'.found = <<>> /\ calc'.by_file = <<>>
      /\ calc'.todo = calc'.asked
  <2>1. CASE calc' = NoCalc
    BY <2>1 DEF NoCalc
  <2>2. CASE calc' = [NoCalc EXCEPT !.asked = ids, !.todo = ids]
    BY <2>2 DEF NoCalc
  <2> QED
    BY <2>1, <2>2
<1>2. DOMAIN calc'.by_file = {}
  BY <1>1
<1>3. during'.always = Stored(files', objects') /\ during'.ever = DOMAIN files'
  BY DEF NowThere
<1> QED
  BY <1>1, <1>2, <1>3, EmptySet DEF CalculationFollowsRows, Asked, FoundIds, Stored

LEMMA ReadFollowed ==
    ASSUME QueriesTypeOK, RowsAreUploads, CalculationFollowsRows, ReadRow
    PROVE  CalculationFollowsRows'
<1> DEFINE i == Head(calc.todo)
<1>1. calc \in CalcType /\ calc.todo \in Seq(Ids) /\ calc.found \in Seq(Found)
  BY TypeParts DEF CalcType
<1>2. calc.todo # <<>> /\ UnderWay
  BY DEF ReadRow, Reading, UnderWay
<1>3. ToSet(calc.todo) = {i} \cup ToSet(Tail(calc.todo)) /\ i \in Ids
  BY <1>1, <1>2, HeadTailSet, HeadTailProperties
<1> HIDE DEF i
<1>4. /\ calc'.asked = calc.asked /\ calc'.by_file = calc.by_file
      /\ calc'.todo = Tail(calc.todo) /\ calc'.found = calc.found \o FoundAt(i)
      /\ during' = during /\ files' = files /\ objects' = objects
  BY <1>1 DEF ReadRow, CalcType, i
<1>5. FoundAt(i) \in Seq(Found)
  BY <1>3, FoundAtType
<1>6. ToSet(calc'.found) = ToSet(calc.found) \cup ToSet(FoundAt(i))
  BY <1>1, <1>4, <1>5, ConcatSet
<1>7. ToSet(FoundAt(i)) \subseteq {[id |-> i, file |-> GetById(i)]}
  BY DEF FoundAt, ToSet
<1>8. ToSet(FoundAt(i)) # {} => i \in DOMAIN files
  BY EmptySet DEF FoundAt, GetById
<1>9. i \in during.always => ToSet(FoundAt(i)) = {[id |-> i, file |-> GetById(i)]}
  <2> SUFFICES ASSUME i \in during.always
               PROVE  FoundAt(i) = <<[id |-> i, file |-> GetById(i)]>>
    BY DEF ToSet
  <2>1. i \in DOMAIN files
    BY <1>2 DEF CalculationFollowsRows, Stored
  <2>2. GetById(i).storage_key \in Names /\ GetById(i).hash /\ GetById(i) \in File
    BY <1>3, <2>1, FileQueriesAssumption DEF GetById, RowsAreUploads, QueriesTypeOK
  <2> QED
    BY <2>2, FileQueriesAssumption DEF FoundAt
<1>10. ASSUME NEW f \in ToSet(FoundAt(i))
       PROVE  /\ f.id = i /\ i \in Asked \cap during.ever
              /\ f.file.filename = NameOf[i] /\ f.file.storage_key = NameOf[i]
  <2>1. f = [id |-> i, file |-> files[i]] /\ i \in DOMAIN files
    BY <1>7, <1>8 DEF GetById
  <2> QED
    BY <1>2, <1>3, <2>1 DEF CalculationFollowsRows, RowsAreUploads
<1>11. ASSUME NEW j \in Asked \cap during.always
       PROVE  \/ j \in ToSet(calc'.todo) \cup FoundIds'
              \/ NameOf[j] \in Empty \cup DOMAIN calc'.by_file
  <2>1. CASE j = i
    <3>1. [id |-> i, file |-> GetById(i)] \in ToSet(calc'.found)
      BY <1>6, <1>9, <2>1
    <3>2. i \in FoundIds'
      BY <3>1 DEF FoundIds
    <3> QED
      BY <2>1, <3>2
  <2>2. CASE j # i
    BY <1>3, <1>4, <1>6, <2>2 DEF CalculationFollowsRows, FoundIds
  <2> QED
    BY <2>1, <2>2
<1>12. Asked' = Asked /\ ToSet(calc'.todo) \subseteq Asked
  BY <1>3, <1>4 DEF Asked, CalculationFollowsRows
<1>13. \A f \in ToSet(calc'.found) :
         /\ f.id \in Asked \cap during.ever
         /\ f.file.filename = NameOf[f.id]
         /\ f.file.storage_key = NameOf[f.id]
  BY <1>6, <1>10 DEF CalculationFollowsRows
<1>14. UnderWay' => /\ during'.always \subseteq Stored(files, objects)'
                    /\ DOMAIN files' \subseteq during'.ever
  BY <1>2, <1>4 DEF CalculationFollowsRows, Stored
<1> QED
  BY <1>4, <1>11, <1>12, <1>13, <1>14 DEF CalculationFollowsRows
\* What is common to a file that is counted, or passed over, or fails.
LEMMA DownloadFollowed ==
    ASSUME QueriesTypeOK, CalculationFollowsRows, Downloading,
           UNCHANGED <<files, objects>>,
           calc'.asked = calc.asked, calc'.todo = calc.todo, calc'.found = Tail(calc.found),
           during'.ever = during.ever, during'.always \subseteq during.always,
           LET f == Head(calc.found) IN
           \/ /\ f.id \notin during'.always
              /\ calc'.by_file = calc.by_file
           \/ /\ NameOf[f.id] \in Empty
              /\ calc'.by_file = calc.by_file
           \/ DOMAIN calc'.by_file = DOMAIN calc.by_file \cup {NameOf[f.id]}
    PROVE  CalculationFollowsRows'
<1> DEFINE f == Head(calc.found)
<1>1. calc.found \in Seq(Found) /\ calc.found # <<>> /\ UnderWay
  BY TypeParts DEF CalcType, Downloading, UnderWay
<1>2. ToSet(calc.found) = {f} \cup ToSet(calc'.found)
  BY <1>1, HeadTailSet
<1> HIDE DEF f
<1>3. f.id \in Asked \cap during.ever
  BY <1>2 DEF CalculationFollowsRows
<1>4. Asked' = Asked /\ FoundIds = {f.id} \cup FoundIds'
  BY <1>2 DEF Asked, FoundIds
<1>5. DOMAIN calc.by_file \subseteq DOMAIN calc'.by_file
  BY DEF f
<1>6. DOMAIN calc'.by_file \subseteq DOMAIN calc.by_file \cup {NameOf[f.id]}
  BY DEF f
<1>7. DOMAIN calc'.by_file \subseteq {NameOf[i] : i \in Asked' \cap during'.ever}
  BY <1>3, <1>4, <1>6 DEF CalculationFollowsRows
<1>8. ASSUME NEW i \in Asked' \cap during'.always
      PROVE  \/ i \in ToSet(calc'.todo) \cup FoundIds'
             \/ NameOf[i] \in Empty \cup DOMAIN calc'.by_file
  <2>1. CASE i = f.id
    BY <1>8, <2>1 DEF f
  <2>2. CASE i # f.id
    BY <1>4, <1>5, <1>8, <2>2 DEF CalculationFollowsRows
  <2> QED
    BY <2>1, <2>2
<1>9. \A g \in ToSet(calc'.found) :
        /\ g.id \in Asked' \cap during'.ever
        /\ g.file.filename = NameOf[g.id]
        /\ g.file.storage_key = NameOf[g.id]
  BY <1>2, <1>4 DEF CalculationFollowsRows
<1>10. UnderWay' => /\ during'.always \subseteq Stored(files, objects)'
                    /\ DOMAIN files' \subseteq during'.ever
  BY <1>1 DEF CalculationFollowsRows, Stored
<1>11. ToSet(calc'.todo) \subseteq Asked'
  BY <1>4 DEF CalculationFollowsRows
<1> QED
  BY <1>7, <1>8, <1>9, <1>10, <1>11 DEF CalculationFollowsRows

LEMMA DownloadFileFollowed ==
    ASSUME QueriesTypeOK, CalculationFollowsRows, DownloadFile
    PROVE  CalculationFollowsRows'
<1> DEFINE f == Head(calc.found)
<1>1. calc \in CalcType /\ calc.found \in Seq(Found) /\ calc.found # <<>> /\ UnderWay
  BY TypeParts DEF CalcType, DownloadFile, Downloading, UnderWay
<1>2. f \in Found /\ f \in ToSet(calc.found)
  BY <1>1, HeadTailProperties, HeadTailSet
<1>3. f.file \in File /\ f.file.filename = NameOf[f.id] /\ f.file.storage_key = NameOf[f.id]
  BY <1>2 DEF CalculationFollowsRows, Found
<1>4. calc' = [(IF f.file.storage_key \in objects \ Empty THEN Counted(f.file) ELSE calc)
                   EXCEPT !.found = Tail(@)]
  BY DEF DownloadFile
<1>5. UNCHANGED <<files, objects, during>> /\ Downloading
  BY DEF DownloadFile
<1> HIDE DEF f
<1>6. CASE f.file.storage_key \in objects \ Empty
  <2>1. calc' = [Counted(f.file) EXCEPT !.found = Tail(@)] /\ Counted(f.file) \in CalcType
    BY <1>1, <1>3, <1>4, <1>6, CountedType
  <2>2. /\ calc'.asked = calc.asked /\ calc'.todo = calc.todo
        /\ calc'.found = Tail(calc.found)
        /\ DOMAIN calc'.by_file = DOMAIN calc.by_file \cup {NameOf[f.id]}
    BY <1>1, <1>3, <2>1, CountedType DEF CalcType
  <2> QED
    BY <1>5, <2>2, DownloadFollowed DEF f
<1>7. CASE f.file.storage_key \notin objects \ Empty
  <2>1. calc' = [calc EXCEPT !.found = Tail(@)]
    BY <1>4, <1>7
  <2>2. /\ calc'.asked = calc.asked /\ calc'.todo = calc.todo
        /\ calc'.found = Tail(calc.found) /\ calc'.by_file = calc.by_file
    BY <1>1, <2>1 DEF CalcType
  <2>3. NameOf[f.id] \in Empty \/ f.id \notin during'.always
    BY <1>1, <1>3, <1>5, <1>7 DEF CalculationFollowsRows, Stored
  <2> QED
    BY <1>5, <2>2, <2>3, DownloadFollowed DEF f
<1> QED
  BY <1>6, <1>7

LEMMA DownloadErrorFollowed ==
    ASSUME QueriesTypeOK, CalculationFollowsRows, DownloadError
    PROVE  CalculationFollowsRows'
<1>1. calc \in CalcType /\ during \in WindowType
  BY TypeParts
<1>2. /\ calc'.asked = calc.asked /\ calc'.todo = calc.todo
      /\ calc'.found = Tail(calc.found) /\ calc'.by_file = calc.by_file
  BY <1>1 DEF DownloadError, CalcType
<1>3. /\ during'.ever = during.ever
      /\ during'.always = during.always \ {Head(calc.found).id}
  BY <1>1 DEF DownloadError, WindowType
<1> QED
  BY <1>2, <1>3, DownloadFollowed DEF DownloadError

LEMMA FollowedNext ==
    ASSUME QueriesTypeOK, RowsAreUploads, CalculationFollowsRows, [QueriesNext]_queries
    PROVE  CalculationFollowsRows'
<1>1. CASE \/ \E n \in Names : UploadFile(n) \/ DeleteObject(n)
           \/ \E i \in Ids : RecordFile(i) \/ DeleteRecord(i)
  BY <1>1, WritersWatch, WritersFollowed
<1>2. CASE AskStatistics
  BY <1>2, AskFollowed DEF AskStatistics
<1>3. ASSUME NEW ids, AskCalculation(ids) PROVE CalculationFollowsRows'
  BY <1>3, AskFollowed DEF AskCalculation
<1>4. CASE CountTotal \/ CountUploaded \/ CountFailed
  <2>1. UnderWay /\ UNCHANGED <<files, objects, calc, during>>
    BY <1>4 DEF CountTotal, CountUploaded, CountFailed, UnderWay
  <2> QED
    BY <2>1 DEF CalculationFollowsRows, Asked, FoundIds, Stored
<1>5. CASE UNCHANGED queries
  BY <1>5 DEF queries, CalculationFollowsRows, Asked, FoundIds, Stored, UnderWay
<1> QED
  BY <1>1, <1>2, <1>3, <1>4, <1>5, ReadFollowed, DownloadFileFollowed, DownloadErrorFollowed
  DEF QueriesNext

LEMMA FollowedInit == QueriesInit => RowsAreUploads /\ CalculationFollowsRows
<1> SUFFICES ASSUME QueriesInit PROVE RowsAreUploads /\ CalculationFollowsRows
  OBVIOUS
<1>1. DOMAIN files = {} /\ during.always = {} /\ ~UnderWay
  BY DEF QueriesInit, NowThere, Stored, UnderWay, NoStat, NoCalc
<1>2. calc.asked = <<>> /\ calc.todo = <<>> /\ calc.found = <<>> /\ DOMAIN calc.by_file = {}
  BY DEF QueriesInit, NoCalc
<1> QED
  BY <1>1, <1>2, EmptySet DEF RowsAreUploads, CalculationFollowsRows, Asked

LEMMA FollowedNames == CalculationFollowsRows => NamesAreOfTheirTime
BY EmptySet DEF CalculationFollowsRows, NamesAreOfTheirTime, CalculationOver, Asked, FoundIds

\* A calculation names every file that was there throughout and has content,
\* and no file that was not there at any time, for any selection and whatever
\* is saved, cleaned up or cannot be read meanwhile.
THEOREM CalculationNamesRows == QueriesSpec => []NamesAreOfTheirTime
BY FollowedInit, FollowedNames, QueriesTypeInit, QueriesTypeNext, RowsNext, FollowedNext,
   PTL DEF QueriesSpec

-----------------------------------------------------------------------------
(* Sums over finite sets.  SumFunctionOnSet is a recursive function on the *)
(* subsets of its set; induction is that a set of subsets has a least one. *)

LEMMA SmallestSubset ==
    ASSUME NEW S, IsFiniteSet(S), NEW F, F \subseteq SUBSET S, F # {}
    PROVE  \E T \in F : \A U \in F : U \subseteq T => U = T
<1>1. IsWellFoundedOn(StrictSubsetOrdering(S), SUBSET S)
  BY FS_FiniteSubsetsOfFinite, FS_StrictSubsetOrderingWellFounded
<1>2. \E T \in F : \A U \in F : <<U, T>> \notin StrictSubsetOrdering(S)
  BY <1>1, WFMin
<1> QED
  BY <1>2 DEF StrictSubsetOrdering

\* The element that is added first, and what is left for the others.
First(T) == CHOOSE x \in T : TRUE
Rest(T) == T \ {First(T)}

\* g holds the sums of f over the subsets of S.
IsSums(g, f, S) ==
    g = [T \in SUBSET S |-> IF T = {} THEN 0 ELSE f[First(T)] + g[Rest(T)]]

LEMMA FirstOfSet ==
    ASSUME NEW T, T # {}
    PROVE  First(T) \in T /\ Rest(T) \subseteq T /\ Rest(T) # T
BY DEF First, Rest

LEMMA SumsAreUnique ==
    ASSUME NEW f, NEW S, IsFiniteSet(S), NEW g, NEW h, IsSums(g, f, S), IsSums(h, f, S)
    PROVE  g = h
<1> DEFINE Differ == {T \in SUBSET S : g[T] # h[T]}
<1>1. ASSUME Differ # {} PROVE FALSE
  <2>1. Differ \subseteq SUBSET S
    OBVIOUS
  <2> HIDE DEF Differ
  <2>2. PICK T \in Differ : \A U \in Differ : U \subseteq T => U = T
    BY <1>1, <2>1, SmallestSubset
  <2>3. T \in SUBSET S /\ g[T] # h[T]
    BY <2>2 DEF Differ
  <2>4. T # {}
    BY <2>3 DEF IsSums
  <2>5. Rest(T) \in SUBSET S /\ g[Rest(T)] = h[Rest(T)]
    BY <2>2, <2>3, <2>4, FirstOfSet DEF Differ
  <2> QED
    BY <2>3, <2>4, <2>5 DEF IsSums
<1>2. \A T \in SUBSET S : g[T] = h[T]
  BY <1>1
<1>3. g = [T \in SUBSET S |-> g[T]] /\ h = [T \in SUBSET S |-> h[T]]
  BY DEF IsSums
<1> QED
  BY <1>2, <1>3

LEMMA SumsOfSubset ==
    ASSUME NEW f, NEW S, NEW g, IsSums(g, f, S), NEW U \in SUBSET S
    PROVE  IsSums([T \in SUBSET U |-> g[T]], f, U)
<1> DEFINE h == [T \in SUBSET U |-> g[T]]
<1>1. ASSUME NEW T \in SUBSET U
      PROVE  h[T] = IF T = {} THEN 0 ELSE f[First(T)] + h[Rest(T)]
  <2>1. T \in SUBSET S /\ h[T] = g[T]
    OBVIOUS
  <2>2. g[T] = IF T = {} THEN 0 ELSE f[First(T)] + g[Rest(T)]
    BY <2>1 DEF IsSums
  <2>3. T # {} => Rest(T) \in SUBSET U
    BY FirstOfSet
  <2> QED
    BY <2>1, <2>2, <2>3
<1> HIDE DEF h
<1>2. h = [T \in SUBSET U |-> h[T]]
  BY DEF h
<1>3. h = [T \in SUBSET U |-> IF T = {} THEN 0 ELSE f[First(T)] + h[Rest(T)]]
  BY <1>1, <1>2
<1> QED
  BY <1>3 DEF IsSums, h

LEMMA SumsExist ==
    ASSUME NEW f, NEW S, IsFiniteSet(S)
    PROVE  \E g : IsSums(g, f, S)
<1> DEFINE Without == {T \in SUBSET S : ~ \E g : IsSums(g, f, T)}
<1>1. ASSUME NEW T \in SUBSET S, \A U \in SUBSET T : U # T => \E g : IsSums(g, f, U)
      PROVE  \E g : IsSums(g, f, T)
  <2> DEFINE Of(U) == CHOOSE g : IsSums(g, f, U)
  <2> DEFINE g == [U \in SUBSET T |->
                      IF U = {} THEN 0 ELSE f[First(U)] + Of(Rest(U))[Rest(U)]]
  <2>1. \A U \in SUBSET T : U # T => IsSums(Of(U), f, U)
    BY <1>1
  <2> HIDE DEF Of
  <2>2. ASSUME NEW U \in SUBSET T, U # T
        PROVE  Of(U)[U] = IF U = {} THEN 0 ELSE f[First(U)] + Of(Rest(U))[Rest(U)]
    <3>1. IsSums(Of(U), f, U) /\ IsFiniteSet(U)
      BY <2>1, <2>2, FS_Subset
    <3>2. CASE U = {}
      BY <3>1, <3>2 DEF IsSums
    <3>3. CASE U # {}
      <4>1. Rest(U) \in SUBSET U /\ Rest(U) \in SUBSET T /\ Rest(U) # T
        BY <3>3, FirstOfSet
      <4>2. IsSums(Of(Rest(U)), f, Rest(U)) /\ IsFiniteSet(Rest(U))
        BY <2>1, <3>1, <4>1, FS_Subset
      <4>3. IsSums([V \in SUBSET Rest(U) |-> Of(U)[V]], f, Rest(U))
        BY <3>1, <4>1, SumsOfSubset
      <4>4. Of(Rest(U)) = [V \in SUBSET Rest(U) |-> Of(U)[V]]
        BY <4>2, <4>3, SumsAreUnique
      <4>5. Of(Rest(U))[Rest(U)] = Of(U)[Rest(U)]
        BY <4>4
      <4> QED
        BY <3>1, <3>3, <4>5 DEF IsSums
    <3> QED
      BY <3>2, <3>3
  <2>3. ASSUME NEW U \in SUBSET T, U # {}
        PROVE  Of(Rest(U))[Rest(U)] = g[Rest(U)]
    <3>1. Rest(U) \in SUBSET T /\ Rest(U) # T
      BY <2>3, FirstOfSet
    <3> QED
      BY <2>2, <3>1
  <2>4. g = [U \in SUBSET T |-> IF U = {} THEN 0 ELSE f[First(U)] + g[Rest(U)]]
    BY <2>3
  <2> HIDE DEF g
  <2> QED
    BY <2>4 DEF IsSums
<1>2. ASSUME Without # {} PROVE FALSE
  <2>1. Without \subseteq SUBSET S
    OBVIOUS
  <2> HIDE DEF Without
  <2>2. PICK T \in Without : \A U \in Without : U \subseteq T => U = T
    BY <1>2, <2>1, SmallestSubset
  <2>3. T \in SUBSET S /\ ~ \E g : IsSums(g, f, T)
    BY <2>2 DEF Without
  <2>4. \A U \in SUBSET T : U # T => \E g : IsSums(g, f, U)
    BY <2>2, <2>3 DEF Without
  <2> QED
    BY <1>1, <2>3, <2>4
<1>3. S \notin Without
  BY <1>2
<1> QED
  BY <1>3

LEMMA SumIsOfSums ==
    ASSUME NEW f, NEW S, IsFiniteSet(S), NEW g, IsSums(g, f, S)
    PROVE  SumFunctionOnSet(f, S) = g[S]
<1> DEFINE iter == CHOOSE h : IsSums(h, f, S)
<1>1. SumFunctionOnSet(f, S) = iter[S]
  BY DEF SumFunctionOnSet, FoldFunctionOnSet, MapThenFoldSet, IsSums, First, Rest
<1>2. IsSums(iter, f, S)
  OBVIOUS
<1> HIDE DEF iter
<1>3. iter = g
  BY <1>2, SumsAreUnique
<1> QED
  BY <1>1, <1>3

\* The recursion of the sum.
LEMMA SumIsRecursive ==
    ASSUME NEW f, NEW S, IsFiniteSet(S)
    PROVE  SumFunctionOnSet(f, S)
             = IF S = {} THEN 0 ELSE f[First(S)] + SumFunctionOnSet(f, Rest(S))
<1>1. PICK g : IsSums(g, f, S)
  BY SumsExist
<1>2. SumFunctionOnSet(f, S) = g[S]
  BY <1>1, SumIsOfSums
<1>3. g[S] = IF S = {} THEN 0 ELSE f[First(S)] + g[Rest(S)]
  BY <1>1 DEF IsSums
<1>4. ASSUME S # {} PROVE SumFunctionOnSet(f, Rest(S)) = g[Rest(S)]
  <2>1. Rest(S) \in SUBSET S
    BY <1>4, FirstOfSet
  <2>2. IsSums([T \in SUBSET Rest(S) |-> g[T]], f, Rest(S))
    BY <1>1, <2>1, SumsOfSubset
  <2>3. IsFiniteSet(Rest(S))
    BY <2>1, FS_Subset
  <2>4. SumFunctionOnSet(f, Rest(S)) = [T \in SUBSET Rest(S) |-> g[T]][Rest(S)]
    BY <2>2, <2>3, SumIsOfSums
  <2> QED
    BY <2>4
<1> QED
  BY <1>2, <1>3, <1>4

LEMMA SumOfEmpty == \A f : SumFunctionOnSet(f, {}) = 0
BY SumIsRecursive, FS_EmptySet

LEMMA SumIsNat ==
    ASSUME NEW S, IsFiniteSet(S), NEW f, \A x \in S : f[x] \in Nat
    PROVE  SumFunctionOnSet(f, S) \in Nat
<1> DEFINE Not == {T \in SUBSET S : SumFunctionOnSet(f, T) \notin Nat}
<1>1. ASSUME Not # {} PROVE FALSE
  <2>1. Not \subseteq SUBSET S
    OBVIOUS
  <2> HIDE DEF Not
  <2>2. PICK T \in Not : \A U \in Not : U \subseteq T => U = T
    BY <1>1, <2>1, SmallestSubset
  <2>3. T \in SUBSET S /\ SumFunctionOnSet(f, T) \notin Nat /\ IsFiniteSet(T)
    BY <2>2, FS_Subset DEF Not
  <2>4. T # {}
    BY <2>3, SumOfEmpty
  <2>5. SumFunctionOnSet(f, Rest(T)) \in Nat
    BY <2>2, <2>3, <2>4, FirstOfSet DEF Not
  <2>6. SumFunctionOnSet(f, T) = f[First(T)] + SumFunctionOnSet(f, Rest(T))
    BY <2>3, <2>4, SumIsRecursive
  <2>7. f[First(T)] \in Nat
    BY <2>3, <2>4, FirstOfSet
  <2> QED
    BY <2>3, <2>5, <2>6, <2>7
<1> QED
  BY <1>1

\* Any element may be taken out first.
LEMMA SumWithout ==
    ASSUME NEW S, IsFiniteSet(S), NEW f, \A x \in S : f[x] \in Nat, NEW y \in S
    PROVE  SumFunctionOnSet(f, S) = f[y] + SumFunctionOnSet(f, S \ {y})
<1> DEFINE Sum(T) == SumFunctionOnSet(f, T)
<1> DEFINE Not == {T \in SUBSET S : \E x \in T : Sum(T) # f[x] + Sum(T \ {x})}
<1>1. ASSUME Not # {} PROVE FALSE
  <2>1. Not \subseteq SUBSET S
    OBVIOUS
  <2> HIDE DEF Not
  <2>2. PICK T \in Not : \A U \in Not : U \subseteq T => U = T
    BY <1>1, <2>1, SmallestSubset
  <2>3. T \in SUBSET S /\ IsFiniteSet(T)
    BY <2>1, <2>2, FS_Subset
  <2>4. PICK x \in T : Sum(T) # f[x] + Sum(T \ {x})
    BY <2>2 DEF Not
  <2> DEFINE c == First(T)
  <2>5. c \in T /\ Rest(T) = T \ {c} /\ Sum(T) = f[c] + Sum(T \ {c})
    BY <2>3, FirstOfSet, SumIsRecursive DEF Rest
  <2> HIDE DEF c
  <2>6. c # x
    BY <2>4, <2>5
  <2>7. T \ {c} \notin Not /\ T \ {x} \notin Not
    BY <2>2, <2>5
  <2>8. Sum(T \ {c}) = f[x] + Sum((T \ {c}) \ {x})
    BY <2>3, <2>6, <2>7 DEF Not
  <2>9. Sum(T \ {x}) = f[c] + Sum((T \ {x}) \ {c})
    BY <2>3, <2>5, <2>6, <2>7 DEF Not
  <2>10. (T \ {c}) \ {x} = (T \ {x}) \ {c}
    OBVIOUS
  <2>11. Sum((T \ {c}) \ {x}) \in Nat
    BY <2>3, FS_Subset, SumIsNat
  <2>12. f[c] \in Nat /\ f[x] \in Nat
    BY <2>3, <2>5
  <2>13. Sum((T \ {x}) \ {c}) = Sum((T \ {c}) \ {x})
    BY <2>10
  <2> HIDE DEF Sum
  <2>14. Sum(T) = f[c] + (f[x] + Sum((T \ {c}) \ {x}))
    BY <2>5, <2>8
  <2>15. Sum(T \ {x}) = f[c] + Sum((T \ {c}) \ {x})
    BY <2>9, <2>13
  <2>16. Sum(T) = f[x] + Sum(T \ {x})
    BY <2>11, <2>12, <2>14, <2>15
  <2> QED
    BY <2>4, <2>16
<1> QED
  BY <1>1

LEMMA SumWith ==
    ASSUME NEW S, IsFiniteSet(S), NEW y, y \notin S,
           NEW f, \A x \in S \cup {y} : f[x] \in Nat
    PROVE  SumFunctionOnSet(f, S \cup {y}) = f[y] + SumFunctionOnSet(f, S)
<1>1. IsFiniteSet(S \cup {y}) /\ (S \cup {y}) \ {y} = S
  BY FS_AddElement
<1>2. y \in S \cup {y}
  OBVIOUS
<1>3. SumFunctionOnSet(f, S \cup {y}) = f[y] + SumFunctionOnSet(f, (S \cup {y}) \ {y})
  BY <1>1, <1>2, SumWithout
<1> QED
  BY <1>1, <1>3

\* The sum is of the values on the set only.
LEMMA SumOfValues ==
    ASSUME NEW S, IsFiniteSet(S), NEW f, NEW h, \A x \in S : f[x] = h[x]
    PROVE  SumFunctionOnSet(f, S) = SumFunctionOnSet(h, S)
<1> DEFINE Not == {T \in SUBSET S : SumFunctionOnSet(f, T) # SumFunctionOnSet(h, T)}
<1>1. ASSUME Not # {} PROVE FALSE
  <2>1. Not \subseteq SUBSET S
    OBVIOUS
  <2> HIDE DEF Not
  <2>2. PICK T \in Not : \A U \in Not : U \subseteq T => U = T
    BY <1>1, <2>1, SmallestSubset
  <2>3. /\ T \in SUBSET S /\ IsFiniteSet(T)
        /\ SumFunctionOnSet(f, T) # SumFunctionOnSet(h, T)
    BY <2>2, FS_Subset DEF Not
  <2>4. T # {}
    BY <2>3, SumOfEmpty
  <2>5. SumFunctionOnSet(f, Rest(T)) = SumFunctionOnSet(h, Rest(T))
    BY <2>2, <2>3, <2>4, FirstOfSet DEF Not
  <2>6. f[First(T)] = h[First(T)]
    BY <2>3, <2>4, FirstOfSet
  <2> QED
    BY <2>3, <2>4, <2>5, <2>6, SumIsRecursive
<1> QED
  BY <1>1

LEMMA SumOfPart ==
    ASSUME NEW S, IsFiniteSet(S), NEW f, \A x \in S : f[x] \in Nat, NEW P \in SUBSET S
    PROVE  SumFunctionOnSet(f, P) <= SumFunctionOnSet(f, S)
<1> DEFINE Sum(T) == SumFunctionOnSet(f, T)
<1> DEFINE Not == {T \in SUBSET S : \E U \in SUBSET T : ~(Sum(U) <= Sum(T))}
<1>1. \A T \in SUBSET S : IsFiniteSet(T) /\ Sum(T) \in Nat
  BY FS_Subset, SumIsNat
<1>2. ASSUME Not # {} PROVE FALSE
  <2>1. Not \subseteq SUBSET S
    OBVIOUS
  <2> HIDE DEF Not
  <2>2. PICK T \in Not : \A U \in Not : U \subseteq T => U = T
    BY <1>2, <2>1, SmallestSubset
  <2>3. PICK U \in SUBSET T : ~(Sum(U) <= Sum(T))
    BY <2>2 DEF Not
  <2>4. T \in SUBSET S /\ U \in SUBSET S /\ IsFiniteSet(T)
    BY <1>1, <2>1, <2>2
  <2>5. U # T
    BY <1>1, <2>3, <2>4
  <2>6. PICK x \in T : x \notin U
    BY <2>5
  <2>7. Sum(T) = f[x] + Sum(T \ {x})
    BY <2>4, SumWithout
  <2>8. T \ {x} \notin Not /\ T \ {x} \in SUBSET S /\ U \in SUBSET (T \ {x})
    BY <2>2, <2>4, <2>6
  <2>9. Sum(U) <= Sum(T \ {x})
    BY <2>8 DEF Not
  <2>10. Sum(U) \in Nat /\ Sum(T \ {x}) \in Nat /\ f[x] \in Nat
    BY <1>1, <2>4, <2>8
  <2> HIDE DEF Sum
  <2> QED
    BY <2>3, <2>7, <2>9, <2>10
<1> QED
  BY <1>2

LEMMA SumOfZeros ==
    ASSUME NEW S, IsFiniteSet(S), NEW f, \A x \in S : f[x] \in Nat,
           NEW Z, \A x \in Z : f[x] = 0
    PROVE  SumFunctionOnSet(f, S \ Z) = SumFunctionOnSet(f, S)
<1> DEFINE Sum(T) == SumFunctionOnSet(f, T)
<1> DEFINE Not == {T \in SUBSET S : Sum(T \ Z) # Sum(T)}
<1>1. \A T \in SUBSET S : IsFiniteSet(T) /\ Sum(T) \in Nat
  BY FS_Subset, SumIsNat
<1>2. ASSUME Not # {} PROVE FALSE
  <2>1. Not \subseteq SUBSET S
    OBVIOUS
  <2> HIDE DEF Not
  <2>2. PICK T \in Not : \A U \in Not : U \subseteq T => U = T
    BY <1>2, <2>1, SmallestSubset
  <2>3. Sum(T \ Z) # Sum(T) /\ T \in SUBSET S /\ IsFiniteSet(T)
    BY <1>1, <2>1, <2>2 DEF Not
  <2>4. T \ Z # T
    BY <2>3
  <2>5. PICK x \in T : x \in Z
    BY <2>4
  <2>6. Sum(T) = f[x] + Sum(T \ {x}) /\ f[x] = 0
    BY <2>3, <2>5, SumWithout
  <2>7. T \ {x} \notin Not /\ T \ {x} \in SUBSET S
    BY <2>2, <2>3
  <2>8. Sum((T \ {x}) \ Z) = Sum(T \ {x}) /\ Sum(T \ {x}) \in Nat
    BY <1>1, <2>7 DEF Not
  <2>9. (T \ {x}) \ Z = T \ Z
    BY <2>5
  <2>10. Sum(T \ Z) = Sum(T \ {x})
    BY <2>8, <2>9
  <2> HIDE DEF Sum
  <2>11. Sum(T) = Sum(T \ {x})
    BY <2>6, <2>8
  <2> QED
    BY <2>3, <2>10, <2>11
<1>3. S \notin Not
  BY <1>2
<1> QED
  BY <1>3
-----------------------------------------------------------------------------
(* The sums of a calculation. *)

DigitsOfId == [i \in Ids |-> Digits[NameOf[i]]]

LEMMA DigitsOfIds ==
    ASSUME NEW C \in SUBSET Ids
    PROVE  /\ IsFiniteSet(C)
           /\ \A i \in C : DigitsOfId[i] = Digits[NameOf[i]] /\ DigitsOfId[i] \in Nat
           /\ DigitsOf(C) = SumFunctionOnSet(DigitsOfId, C)
           /\ DigitsOf(C) \in Nat
<1>1. IsFiniteSet(C)
  BY FS_Subset, FileQueriesAssumption
<1>2. \A i \in C : DigitsOfId[i] = Digits[NameOf[i]] /\ DigitsOfId[i] \in Nat
  BY FileQueriesAssumption DEF DigitsOfId
<1> DEFINE own == [i \in C |-> Digits[NameOf[i]]]
<1>3. \A i \in C : own[i] = DigitsOfId[i]
  BY <1>2
<1>4. DigitsOf(C) = SumFunctionOnSet(own, C)
  BY DEF DigitsOf
<1> HIDE DEF own
<1>5. DigitsOf(C) = SumFunctionOnSet(DigitsOfId, C)
  BY <1>1, <1>3, <1>4, SumOfValues
<1>6. SumFunctionOnSet(DigitsOfId, C) \in Nat
  BY <1>1, <1>2, SumIsNat
<1> QED
  BY <1>1, <1>2, <1>5, <1>6

\* The files asked for, still to be read and found are each there once.
EachOnce ==
    /\ IsInjective(calc.asked) /\ IsInjective(calc.todo)
    /\ \A j, k \in DOMAIN calc.found : calc.found[j].id = calc.found[k].id => j = k
    /\ ToSet(calc.todo) \cap FoundIds = {}

\* C are the files that were counted.
CountedAre(C) ==
    /\ C \subseteq Asked \cap during.ever
    /\ C \cap (ToSet(calc.todo) \cup FoundIds) = {}
    /\ \A i \in Asked \cap during.always :
          i \in ToSet(calc.todo) \cup FoundIds \cup C \/ NameOf[i] \in Empty
    /\ calc.total = DigitsOf(C)
    /\ DOMAIN calc.by_file = {NameOf[i] : i \in C}
    /\ \A i \in C : calc.by_file[NameOf[i]] = Digits[NameOf[i]]

SumsFollow ==
    /\ EachOnce
    /\ \E C \in SUBSET Ids : CountedAre(C)

LEMMA InjectiveTail ==
    ASSUME NEW S, NEW s \in Seq(S), s # <<>>, IsInjective(s)
    PROVE  IsInjective(Tail(s)) /\ Head(s) \notin ToSet(Tail(s))
<1>1. Len(s) \in Nat \ {0} /\ DOMAIN s = 1..Len(s) /\ Head(s) = s[1]
  BY EmptySeq, LenProperties
<1>2. DOMAIN Tail(s) = 1..(Len(s) - 1) /\ \A i \in 1..(Len(s) - 1) : Tail(s)[i] = s[i + 1]
  BY <1>1, HeadTailProperties, LenProperties
<1>3. \A i \in DOMAIN Tail(s) : i \in Int /\ i + 1 \in DOMAIN s /\ i + 1 # 1 /\ Tail(s)[i] = s[i + 1]
  BY <1>1, <1>2
<1>4. 1 \in DOMAIN s
  BY <1>1
<1>5. IsInjective(Tail(s))
  <2> SUFFICES ASSUME NEW i \in DOMAIN Tail(s), NEW j \in DOMAIN Tail(s),
                      Tail(s)[i] = Tail(s)[j]
               PROVE  i = j
    BY DEF IsInjective
  <2>1. i + 1 = j + 1 /\ i \in Int /\ j \in Int
    BY <1>3 DEF IsInjective
  <2> QED
    BY <2>1
<1>6. Head(s) \notin ToSet(Tail(s))
  BY <1>1, <1>3, <1>4 DEF IsInjective, ToSet
<1> QED
  BY <1>5, <1>6

LEMMA SumsOfWriters ==
    ASSUME SumsFollow, UNCHANGED calc,
           during.ever \subseteq during'.ever, during'.always \subseteq during.always
    PROVE  SumsFollow'
<1>1. EachOnce'
  BY DEF SumsFollow, EachOnce, FoundIds
<1>2. PICK C \in SUBSET Ids : CountedAre(C)
  BY DEF SumsFollow
<1>3. CountedAre(C)'
  BY <1>2 DEF CountedAre, Asked, FoundIds
<1> QED
  BY <1>1, <1>3 DEF SumsFollow

LEMMA EmptySetSeqs == <<>> \in SetToSeqs({})
<1>1. Cardinality({}) = 0
  BY FS_EmptySet
<1>2. <<>> \in [1..Cardinality({}) -> {}]
  BY <1>1
<1> QED
  BY <1>2 DEF SetToSeqs, IsInjective

LEMMA NothingCounted ==
    ASSUME NEW S \in SUBSET Ids, NEW ids \in SetToSeqs(S),
           \/ calc' = NoCalc
           \/ calc' = [NoCalc EXCEPT !.asked = ids, !.todo = ids]
    PROVE  SumsFollow'
<1>1. /\ calc'.found = <<>> /\ calc'.by_file = <<>> /\ calc'.total = 0
      /\ calc'.todo = calc'.asked /\ calc'.asked \in {<<>>, ids}
  <2>1. CASE calc' = NoCalc
    BY <2>1 DEF NoCalc
  <2>2. CASE calc' = [NoCalc EXCEPT !.asked = ids, !.todo = ids]
    BY <2>2 DEF NoCalc
  <2> QED
    BY <2>1, <2>2
<1>2. IsInjective(ids) /\ IsInjective(<<>>)
  BY DEF SetToSeqs, IsInjective
<1>3. DOMAIN calc'.by_file = {} /\ FoundIds' = {}
  BY <1>1, EmptySet DEF FoundIds
<1>4. EachOnce'
  BY <1>1, <1>2, <1>3 DEF EachOnce
<1>5. CountedAre({})'
  <2>1. DigitsOf({}) = 0
    BY SumOfEmpty DEF DigitsOf
  <2> QED
    BY <1>1, <1>3, <2>1 DEF CountedAre, Asked
<1> QED
  BY <1>4, <1>5 DEF SumsFollow

LEMMA FoundAtIs ==
    ASSUME QueriesTypeOK, RowsAreUploads, CalculationFollowsRows, UnderWay, NEW i \in Ids
    PROVE  LET one == <<[id |-> i, file |-> GetById(i)]>> IN
           /\ FoundAt(i) \in {<<>>, one}
           /\ i \in during.always => FoundAt(i) = one
<1>1. ASSUME i \in during.always
      PROVE  FoundAt(i) = <<[id |-> i, file |-> GetById(i)]>>
  <2>1. i \in DOMAIN files
    BY <1>1 DEF CalculationFollowsRows, Stored
  <2>2. GetById(i).storage_key \in Names /\ GetById(i).hash /\ GetById(i) \in File
    BY <2>1, FileQueriesAssumption DEF GetById, RowsAreUploads, QueriesTypeOK
  <2> QED
    BY <2>2, FileQueriesAssumption DEF FoundAt
<1> QED
  BY <1>1 DEF FoundAt

LEMMA AppendOnce ==
    ASSUME NEW s \in Seq(Found), NEW f \in Found, f.id \notin {g.id : g \in ToSet(s)},
           \A j, k \in DOMAIN s : s[j].id = s[k].id => j = k
    PROVE  LET r == s \o <<f>> IN
           /\ \A j, k \in DOMAIN r : r[j].id = r[k].id => j = k
           /\ {g.id : g \in ToSet(r)} = {g.id : g \in ToSet(s)} \cup {f.id}
<1> DEFINE r == s \o <<f>>
<1>1. Len(s) \in Nat /\ DOMAIN s = 1..Len(s)
  BY LenProperties
<1>2. /\ DOMAIN r = 1..(Len(s) + 1)
      /\ \A i \in DOMAIN r : r[i] = IF i = Len(s) + 1 THEN f ELSE s[i]
  BY <1>1
<1> HIDE DEF r
<1>3. \A i \in DOMAIN r : i # Len(s) + 1 => i \in DOMAIN s /\ r[i] = s[i]
  BY <1>1, <1>2
<1>4. \A i \in DOMAIN s : i \in DOMAIN r /\ r[i] = s[i]
  BY <1>1, <1>2
<1>5. Len(s) + 1 \in DOMAIN r /\ r[Len(s) + 1] = f
  BY <1>1, <1>2
<1>6. ToSet(r) = ToSet(s) \cup {f}
  BY <1>3, <1>4, <1>5 DEF ToSet
<1>7. ASSUME NEW j \in DOMAIN r, NEW k \in DOMAIN r, r[j].id = r[k].id
      PROVE  j = k
  <2>1. ASSUME NEW i \in DOMAIN s PROVE s[i].id # f.id
    BY DEF ToSet
  <2> QED
    BY <1>3, <1>5, <1>7, <2>1
<1> QED
  BY <1>6, <1>7 DEF r

LEMMA ReadSums ==
    ASSUME QueriesTypeOK, RowsAreUploads, CalculationFollowsRows, SumsFollow, ReadRow
    PROVE  SumsFollow'
<1> DEFINE i == Head(calc.todo)
<1> DEFINE one == [id |-> i, file |-> GetById(i)]
<1>1. calc \in CalcType /\ calc.todo \in Seq(Ids) /\ calc.found \in Seq(Found)
  BY TypeParts DEF CalcType
<1>2. calc.todo # <<>> /\ UnderWay
  BY DEF ReadRow, Reading, UnderWay
<1>3. ToSet(calc.todo) = {i} \cup ToSet(Tail(calc.todo)) /\ i \in Ids
  BY <1>1, <1>2, HeadTailSet, HeadTailProperties
<1>4. IsInjective(Tail(calc.todo)) /\ i \notin ToSet(Tail(calc.todo))
  BY <1>1, <1>2, InjectiveTail DEF SumsFollow, EachOnce
<1>5. FoundAt(i) \in {<<>>, <<one>>} /\ (i \in during.always => FoundAt(i) = <<one>>)
  BY <1>2, <1>3, FoundAtIs
<1>6. FoundAt(i) \in Seq(Found)
  BY <1>3, FoundAtType
<1> HIDE DEF i
<1>7. /\ calc'.asked = calc.asked /\ calc'.by_file = calc.by_file /\ calc'.total = calc.total
      /\ calc'.todo = Tail(calc.todo) /\ calc'.found = calc.found \o FoundAt(i)
      /\ during' = during
  BY <1>1 DEF ReadRow, CalcType, i
<1>8. i \notin FoundIds
  BY <1>3 DEF SumsFollow, EachOnce
<1>9. /\ \A j, k \in DOMAIN calc'.found : calc'.found[j].id = calc'.found[k].id => j = k
      /\ FoundIds' = FoundIds \/ FoundIds' = FoundIds \cup {i}
      /\ i \in during.always => FoundIds' = FoundIds \cup {i}
  <2>1. CASE FoundAt(i) = <<>>
    <3>1. calc'.found = calc.found
      BY <1>1, <1>7, <2>1, ConcatEmptySeq
    <3>2. <<>> # <<one>>
      OBVIOUS
    <3> QED
      BY <1>5, <2>1, <3>1, <3>2 DEF SumsFollow, EachOnce, FoundIds
  <2>2. CASE FoundAt(i) = <<one>>
    <3>1. one \in Found /\ one.id = i
      <4>1. <<one>>[1] \in Found
        BY <1>6, <2>2
      <4> QED
        BY <4>1
    <3> HIDE DEF one
    <3>2. calc'.found = calc.found \o <<one>>
      BY <1>7, <2>2
    <3> QED
      BY <1>1, <1>8, <3>1, <3>2, AppendOnce DEF SumsFollow, EachOnce, FoundIds
  <2> QED
    BY <1>5, <2>1, <2>2
<1> HIDE DEF one
<1>10. EachOnce'
  BY <1>3, <1>4, <1>7, <1>9 DEF SumsFollow, EachOnce
<1>11. PICK C \in SUBSET Ids : CountedAre(C)
  BY DEF SumsFollow
<1>12. ToSet(calc'.todo) \cup FoundIds' \subseteq ToSet(calc.todo) \cup FoundIds
  BY <1>3, <1>7, <1>9
<1>13. \A j \in during.always :
          j \in ToSet(calc.todo) \cup FoundIds => j \in ToSet(calc'.todo) \cup FoundIds'
  BY <1>3, <1>7, <1>9
<1>14. CountedAre(C)'
  BY <1>7, <1>11, <1>12, <1>13 DEF CountedAre, Asked
<1> QED
  BY <1>7, <1>10, <1>14 DEF SumsFollow

\* A found file is taken.
LEMMA TakenOnce ==
    ASSUME QueriesTypeOK, CalculationFollowsRows, EachOnce, Downloading,
           calc'.asked = calc.asked, calc'.todo = calc.todo, calc'.found = Tail(calc.found)
    PROVE  LET f == Head(calc.found) IN
           /\ EachOnce'
           /\ FoundIds = FoundIds' \cup {f.id} /\ f.id \notin FoundIds'
           /\ f.id \in Asked \cap during.ever /\ f.id \in Ids /\ f.id \notin ToSet(calc.todo)
           /\ f.file.filename = NameOf[f.id] /\ f.file.storage_key = NameOf[f.id]
           /\ f.file \in File
<1> DEFINE s == calc.found
<1> DEFINE f == Head(s)
<1>1. s \in Seq(Found) /\ s # <<>>
  BY TypeParts DEF CalcType, Downloading
<1> HIDE DEF s
<1>2. Len(s) \in Nat \ {0} /\ DOMAIN s = 1..Len(s) /\ f = s[1]
  BY <1>1, EmptySeq, LenProperties
<1>3. DOMAIN Tail(s) = 1..(Len(s) - 1) /\ \A i \in 1..(Len(s) - 1) : Tail(s)[i] = s[i + 1]
  BY <1>1, <1>2, HeadTailProperties, LenProperties
<1>4. \A i \in DOMAIN Tail(s) : i \in Int /\ i + 1 \in DOMAIN s /\ i + 1 # 1 /\ Tail(s)[i] = s[i + 1]
  BY <1>2, <1>3
<1>5. 1 \in DOMAIN s
  BY <1>2
<1>6. \A j, k \in DOMAIN s : s[j].id = s[k].id => j = k
  BY DEF s, EachOnce
<1>7. ToSet(s) = {f} \cup ToSet(Tail(s)) /\ f \in Found
  BY <1>1, HeadTailSet, HeadTailProperties
<1>8. \A g \in ToSet(Tail(s)) : g.id # f.id
  BY <1>2, <1>4, <1>5, <1>6 DEF ToSet
<1>9. ASSUME NEW j \in DOMAIN Tail(s), NEW k \in DOMAIN Tail(s), Tail(s)[j].id = Tail(s)[k].id
      PROVE  j = k
  <2>1. j + 1 = k + 1 /\ j \in Int /\ k \in Int
    BY <1>4, <1>6, <1>9
  <2> QED
    BY <2>1
<1> HIDE DEF f
<1>10. FoundIds = FoundIds' \cup {f.id} /\ f.id \notin FoundIds'
  BY <1>7, <1>8 DEF FoundIds, s
<1>11. EachOnce'
  BY <1>9, <1>10 DEF EachOnce, s
<1>12. /\ f.id \in Asked \cap during.ever /\ f.file.filename = NameOf[f.id]
       /\ f.file.storage_key = NameOf[f.id]
  BY <1>7 DEF CalculationFollowsRows, s
<1>13. f.id \in Ids /\ f.file \in File
  BY <1>7 DEF Found
<1>14. f.id \notin ToSet(calc.todo)
  BY <1>10 DEF EachOnce
<1> QED
  BY <1>10, <1>11, <1>12, <1>13, <1>14 DEF f, s

LEMMA TakenHead ==
    ASSUME QueriesTypeOK, CalculationFollowsRows, Downloading
    PROVE  LET f == Head(calc.found) IN
           /\ f.file \in File /\ f.file.filename = NameOf[f.id]
           /\ f.file.storage_key = NameOf[f.id]
<1> DEFINE f == Head(calc.found)
<1>1. calc.found \in Seq(Found) /\ calc.found # <<>>
  BY TypeParts DEF CalcType, Downloading
<1>2. f \in Found /\ f \in ToSet(calc.found)
  BY <1>1, HeadTailProperties, HeadTailSet
<1> HIDE DEF f
<1>3. f.file \in File /\ f.file.filename = NameOf[f.id] /\ f.file.storage_key = NameOf[f.id]
  BY <1>2 DEF CalculationFollowsRows, Found
<1> QED
  BY <1>3 DEF f

LEMMA PassedSums ==
    ASSUME QueriesTypeOK, CalculationFollowsRows, SumsFollow, Downloading,
           calc'.asked = calc.asked, calc'.todo = calc.todo, calc'.found = Tail(calc.found),
           calc'.total = calc.total, calc'.by_file = calc.by_file,
           during'.ever = during.ever, during'.always \subseteq during.always,
           LET i == Head(calc.found).id IN i \notin during'.always \/ NameOf[i] \in Empty
    PROVE  SumsFollow'
<1> DEFINE i == Head(calc.found).id
<1>1. EachOnce' /\ FoundIds = FoundIds' \cup {i}
  BY TakenOnce DEF SumsFollow
<1>2. i \notin during'.always \/ NameOf[i] \in Empty
  OBVIOUS
<1> HIDE DEF i
<1>3. PICK C \in SUBSET Ids : CountedAre(C)
  BY DEF SumsFollow
<1>4. CountedAre(C)'
  BY <1>1, <1>2, <1>3 DEF CountedAre, Asked
<1> QED
  BY <1>1, <1>4 DEF SumsFollow

LEMMA CountedSums ==
    ASSUME QueriesTypeOK, CalculationFollowsRows, SumsFollow, Downloading,
           LET n == NameOf[Head(calc.found).id] IN
           /\ calc'.total = calc.total + Digits[n]
           /\ calc'.by_file = Put(calc.by_file, n, Digits[n]),
           calc'.asked = calc.asked, calc'.todo = calc.todo, calc'.found = Tail(calc.found),
           during' = during
    PROVE  SumsFollow'
<1>0. PICK i : i = Head(calc.found).id
  OBVIOUS
<1>1. /\ EachOnce' /\ FoundIds = FoundIds' \cup {i} /\ i \notin FoundIds'
      /\ i \in Asked \cap during.ever /\ i \in Ids /\ i \notin ToSet(calc.todo)
  BY <1>0, TakenOnce DEF SumsFollow
<1> DEFINE n == NameOf[i]
<1>2. calc'.total = calc.total + Digits[n] /\ calc'.by_file = Put(calc.by_file, n, Digits[n])
  BY <1>0
<1>3. n = NameOf[i]
  OBVIOUS
<1> HIDE DEF n
<1>4. PICK C \in SUBSET Ids : CountedAre(C)
  BY DEF SumsFollow
<1>5. /\ C \subseteq Asked \cap during.ever
      /\ C \cap (ToSet(calc.todo) \cup FoundIds) = {}
      /\ \A j \in Asked \cap during.always :
            j \in ToSet(calc.todo) \cup FoundIds \cup C \/ NameOf[j] \in Empty
      /\ calc.total = DigitsOf(C)
      /\ DOMAIN calc.by_file = {NameOf[j] : j \in C}
      /\ \A j \in C : calc.by_file[NameOf[j]] = Digits[NameOf[j]]
  BY <1>4 DEF CountedAre
<1> DEFINE D == C \cup {i}
<1>6. i \notin C /\ D \in SUBSET Ids
  BY <1>1, <1>5
<1>7. /\ DOMAIN calc'.by_file = DOMAIN calc.by_file \cup {n}
      /\ calc'.by_file[n] = Digits[n]
      /\ \A m \in DOMAIN calc.by_file : m # n => calc'.by_file[m] = calc.by_file[m]
  BY <1>2 DEF Put
<1>8. DigitsOf(D) = Digits[n] + DigitsOf(C)
  <2>1. /\ DigitsOf(C) = SumFunctionOnSet(DigitsOfId, C) /\ IsFiniteSet(C)
    BY DigitsOfIds
  <2>2. /\ DigitsOf(D) = SumFunctionOnSet(DigitsOfId, D)
        /\ \A x \in D : DigitsOfId[x] \in Nat
        /\ DigitsOfId[i] = Digits[n]
    BY <1>3, <1>6, DigitsOfIds
  <2> QED
    BY <1>6, <2>1, <2>2, SumWith
<1>9. DigitsOf(C) \in Nat /\ Digits[n] \in Nat
  BY <1>1, <1>3, DigitsOfIds, FileQueriesAssumption
<1>10. \A j \in D : j \in C \/ j = i
  OBVIOUS
<1>11. C \subseteq D /\ i \in D
  OBVIOUS
<1> HIDE DEF D
<1>12. CountedAre(D)'
  <2>1. calc'.total = DigitsOf(D)
    BY <1>2, <1>5, <1>8, <1>9
  <2>2. DOMAIN calc'.by_file = {NameOf[j] : j \in D}
    <3>1. \A m \in DOMAIN calc'.by_file : \E j \in D : m = NameOf[j]
      BY <1>3, <1>5, <1>7, <1>11
    <3>2. \A j \in D : NameOf[j] \in DOMAIN calc'.by_file
      BY <1>3, <1>5, <1>7, <1>10
    <3> QED
      BY <3>1, <3>2
  <2>3. \A j \in D : calc'.by_file[NameOf[j]] = Digits[NameOf[j]]
    <3>1. ASSUME NEW j \in D PROVE calc'.by_file[NameOf[j]] = Digits[NameOf[j]]
      <4>1. CASE NameOf[j] = n
        BY <1>7, <4>1
      <4>2. CASE NameOf[j] # n
        BY <1>3, <1>5, <1>7, <1>10, <4>2
      <4> QED
        BY <4>1, <4>2
    <3> QED
      BY <3>1
  <2>4. D \subseteq Asked' \cap during'.ever
    BY <1>1, <1>5, <1>10 DEF Asked
  <2>5. D \cap (ToSet(calc'.todo) \cup FoundIds') = {}
    BY <1>1, <1>5, <1>10
  <2>6. \A j \in Asked' \cap during'.always :
           j \in ToSet(calc'.todo) \cup FoundIds' \cup D \/ NameOf[j] \in Empty
    BY <1>1, <1>5, <1>11 DEF Asked
  <2> QED
    BY <2>1, <2>2, <2>3, <2>4, <2>5, <2>6 DEF CountedAre
<1> QED
  BY <1>1, <1>6, <1>12 DEF SumsFollow

LEMMA SumsNext ==
    ASSUME QueriesTypeOK, RowsAreUploads, CalculationFollowsRows, SumsFollow,
           [QueriesNext]_queries
    PROVE  SumsFollow'
<1>1. CASE \/ \E n \in Names : UploadFile(n) \/ DeleteObject(n)
           \/ \E i \in Ids : RecordFile(i) \/ DeleteRecord(i)
  <2>1. UNCHANGED calc /\ Watch
    BY <1>1, WritersWatch
  <2>2. during.ever \subseteq during'.ever /\ during'.always \subseteq during.always
    BY <2>1 DEF Watch
  <2> QED
    BY <2>1, <2>2, SumsOfWriters
<1>2. CASE AskStatistics
  <2>1. <<>> \in SetToSeqs({})
    BY EmptySetSeqs
  <2> QED
    BY <1>2, <2>1, NothingCounted DEF AskStatistics
<1>3. ASSUME NEW S \in SUBSET Ids, NEW ids \in SetToSeqs(S), AskCalculation(ids)
      PROVE  SumsFollow'
  BY <1>3, NothingCounted DEF AskCalculation
<1>4. CASE CountTotal \/ CountUploaded \/ CountFailed \/ UNCHANGED queries
  <2>1. UNCHANGED calc /\ UNCHANGED during
    BY <1>4 DEF CountTotal, CountUploaded, CountFailed, queries
  <2> QED
    BY <2>1, SumsOfWriters
<1>5. CASE DownloadFile
  <2> DEFINE f == Head(calc.found)
  <2>1. calc \in CalcType /\ UNCHANGED <<objects, during>> /\ Downloading /\ UnderWay
    BY <1>5, TypeParts DEF DownloadFile, Downloading, UnderWay
  <2>2. f.file \in File /\ f.file.filename = NameOf[f.id] /\ f.file.storage_key = NameOf[f.id]
    BY <2>1, TakenHead
  <2>3. calc' = [(IF f.file.storage_key \in objects \ Empty THEN Counted(f.file) ELSE calc)
                   EXCEPT !.found = Tail(@)]
    BY <1>5 DEF DownloadFile
  <2> HIDE DEF f
  <2>4. CASE f.file.storage_key \in objects \ Empty
    <3>1. calc' = [Counted(f.file) EXCEPT !.found = Tail(@)]
      BY <2>3, <2>4
    <3>2. /\ calc'.asked = calc.asked /\ calc'.todo = calc.todo
          /\ calc'.found = Tail(calc.found)
          /\ calc'.total = calc.total + Digits[NameOf[f.id]]
          /\ calc'.by_file = Put(calc.by_file, NameOf[f.id], Digits[NameOf[f.id]])
      BY <2>1, <2>2, <3>1 DEF Counted, CalcType
    <3> QED
      BY <2>1, <3>2, CountedSums DEF f
  <2>5. CASE f.file.storage_key \notin objects \ Empty
    <3>1. calc' = [calc EXCEPT !.found = Tail(@)]
      BY <2>3, <2>5
    <3>2. /\ calc'.asked = calc.asked /\ calc'.todo = calc.todo
          /\ calc'.found = Tail(calc.found)
          /\ calc'.total = calc.total /\ calc'.by_file = calc.by_file
      BY <2>1, <3>1 DEF CalcType
    <3>3. f.id \notin during'.always \/ NameOf[f.id] \in Empty
      BY <2>1, <2>2, <2>5 DEF CalculationFollowsRows, Stored
    <3> QED
      BY <2>1, <3>2, <3>3, PassedSums DEF f
  <2> QED
    BY <2>4, <2>5
<1>6. CASE DownloadError
  <2>1. calc \in CalcType /\ during \in WindowType /\ Downloading
    BY <1>6, TypeParts DEF DownloadError
  <2>2. /\ calc'.asked = calc.asked /\ calc'.todo = calc.todo
        /\ calc'.found = Tail(calc.found)
        /\ calc'.total = calc.total /\ calc'.by_file = calc.by_file
    BY <1>6, <2>1 DEF DownloadError, CalcType
  <2>3. /\ during'.ever = during.ever
        /\ during'.always = during.always \ {Head(calc.found).id}
    BY <1>6, <2>1 DEF DownloadError, WindowType
  <2> QED
    BY <2>1, <2>2, <2>3, PassedSums
<1> QED
  BY <1>1, <1>2, <1>3, <1>4, <1>5, <1>6, ReadSums DEF QueriesNext

LEMMA SumsInit == QueriesInit => SumsFollow
<1> SUFFICES ASSUME QueriesInit PROVE SumsFollow
  OBVIOUS
<1>1. /\ calc.asked = <<>> /\ calc.todo = <<>> /\ calc.found = <<>> /\ calc.total = 0
      /\ DOMAIN calc.by_file = {}
  BY DEF QueriesInit, NoCalc
<1>2. Asked = {} /\ FoundIds = {} /\ IsInjective(<<>>)
  BY <1>1, EmptySet DEF Asked, FoundIds, IsInjective
<1>3. EachOnce
  BY <1>1, <1>2 DEF EachOnce
<1>4. DigitsOf({}) = 0
  BY SumOfEmpty DEF DigitsOf
<1>5. CountedAre({})
  BY <1>1, <1>2, <1>4 DEF CountedAre
<1> QED
  BY <1>3, <1>5 DEF SumsFollow

LEMMA SumsAreRight ==
    QueriesTypeOK /\ CalculationFollowsRows /\ SumsFollow => CalculationIsOfItsTime
<1> SUFFICES ASSUME QueriesTypeOK, CalculationFollowsRows, SumsFollow, CalculationOver
             PROVE  calc.total \in DigitsOf(Asked \cap during.always)
                                 ..DigitsOf(Asked \cap during.ever)
  BY FollowedNames DEF CalculationIsOfItsTime, Asked
<1>1. PICK C \in SUBSET Ids : CountedAre(C)
  BY DEF SumsFollow
<1>2. ToSet(calc.todo) = {} /\ FoundIds = {}
  BY EmptySet DEF CalculationOver, FoundIds
<1> DEFINE always == Asked \cap during.always
<1> DEFINE ever == Asked \cap during.ever
<1> DEFINE Z == {i \in Ids : NameOf[i] \in Empty}
<1>3. C \subseteq ever /\ always \ Z \subseteq C /\ calc.total = DigitsOf(C)
  BY <1>1, <1>2, TypeParts DEF CountedAre, WindowType
<1>4. always \in SUBSET Ids /\ ever \in SUBSET Ids
  BY TypeParts DEF WindowType
<1>5. \A x \in Z : DigitsOfId[x] = 0
  BY FileQueriesAssumption DEF DigitsOfId
<1> HIDE DEF always, ever, Z
<1>6. /\ IsFiniteSet(C) /\ IsFiniteSet(always) /\ IsFiniteSet(ever)
      /\ DigitsOf(C) = SumFunctionOnSet(DigitsOfId, C) /\ DigitsOf(C) \in Nat
      /\ DigitsOf(always) = SumFunctionOnSet(DigitsOfId, always) /\ DigitsOf(always) \in Nat
      /\ DigitsOf(ever) = SumFunctionOnSet(DigitsOfId, ever) /\ DigitsOf(ever) \in Nat
      /\ \A i \in Ids : DigitsOfId[i] \in Nat
  <2>1. \A i \in Ids : DigitsOfId[i] \in Nat
    BY DigitsOfIds
  <2> QED
    BY <1>4, <2>1, DigitsOfIds
<1>7. DigitsOf(C) <= DigitsOf(ever)
  BY <1>3, <1>4, <1>6, SumOfPart
<1>8. SumFunctionOnSet(DigitsOfId, always \ Z) = DigitsOf(always)
  BY <1>4, <1>5, <1>6, SumOfZeros
<1>9. SumFunctionOnSet(DigitsOfId, always \ Z) <= DigitsOf(C)
  BY <1>3, <1>6, SumOfPart
<1> QED
  BY <1>3, <1>6, <1>7, <1>8, <1>9 DEF always, ever

\* Every digit of a calculation's total comes from a file that was there, and
\* every file that was there throughout is counted, for any selection and
\* whatever is saved, cleaned up or cannot be read meanwhile.
THEOREM CalculationsAreRight == QueriesSpec => []CalculationIsOfItsTime
BY SumsAreRight, FollowedInit, SumsInit, QueriesTypeInit, QueriesTypeNext, RowsNext,
   FollowedNext, SumsNext, PTL DEF QueriesSpec

LEMMA AnswersAreOfSets == QueriesTypeOK /\ SumsFollow => AnswerIsOfOneSet
<1> SUFFICES ASSUME QueriesTypeOK, SumsFollow, CalculationOver
             PROVE  \E C \in SUBSET (Asked \cap during.ever) :
                        /\ {i \in Asked \cap during.always : NameOf[i] \notin Empty} \subseteq C
                        /\ calc.total = DigitsOf(C)
                        /\ DOMAIN calc.by_file = {NameOf[i] : i \in C}
                        /\ \A i \in C : calc.by_file[NameOf[i]] = Digits[NameOf[i]]
  BY DEF AnswerIsOfOneSet, Asked
<1>1. PICK C \in SUBSET Ids : CountedAre(C)
  BY DEF SumsFollow
<1>2. ToSet(calc.todo) = {} /\ FoundIds = {}
  BY EmptySet DEF CalculationOver, FoundIds
<1>3. {i \in Asked \cap during.always : NameOf[i] \notin Empty} \subseteq C
  BY <1>1, <1>2 DEF CountedAre
<1> QED
  BY <1>1, <1>3 DEF CountedAre

\* Total and entries of a calculation are of one set of rows, for any files,
\* names and selections, rows of one name included, whatever is saved, cleaned
\* up or cannot be read meanwhile.
THEOREM AnswersAreOfOneSet == QueriesSpec => []AnswerIsOfOneSet
BY AnswersAreOfSets, FollowedInit, SumsInit, QueriesTypeInit, QueriesTypeNext, RowsNext,
   FollowedNext, SumsNext, PTL DEF QueriesSpec
=============================================================================
