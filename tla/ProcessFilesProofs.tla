------------------------- MODULE ProcessFilesProofs -------------------------
(***************************************************************************)
(* Proofs about ProcessFiles for every value of its constants, concurrent  *)
(* tasks and every kind of fault included: types, counters and contract.  *)
(***************************************************************************)
EXTENDS ProcessFiles, SequenceTheorems, FiniteSetTheorems, TLAPS

-----------------------------------------------------------------------------
(* Types. *)

Statuses == {"PENDING", "RUNNING", "SUCCESS", "FAILED", "BLOCKED"}

RowType == [status : Statuses, attempts : Nat, received : Nat, processed : Nat]

LEMMA PlaceNames ==
    /\ "idle" \in Places /\ "loop" \in Places /\ "received" \in Places
    /\ "batch" \in Places /\ "request" \in Places /\ "extract" \in Places
    /\ "uploaded" \in Places /\ "processed" \in Places
    /\ "cleanup" \in Places /\ "unrecord" \in Places /\ "settle" \in Places
BY DEF Places

LEMMA OutcomeNames ==
    "RUNNING" \in Outcomes /\ {"SUCCESS", "FAILED", "BLOCKED"} \subseteq Outcomes
BY DEF Outcomes

LEMMA FaultType ==
    ASSUME NEW kind, faults \in 0..MaxFaults, Fault(kind)
    PROVE  faults' \in 0..MaxFaults
BY ProcessFilesAssumption DEF Fault

LEMMA RunFieldsType ==
    ASSUME TypeOK, NEW t \in Tasks
    PROVE  /\ run[t] \in RunType
           /\ run[t].pending \in Seq(Names) /\ run[t].batch \in Seq(Names)
           /\ run[t].todo \in SUBSET Names /\ run[t].kept \in SUBSET Names
           /\ run[t].file \in Names \cup {""}
           /\ run[t].received \in Nat /\ run[t].processed \in Nat
           /\ Len(run[t].pending) \in Nat /\ Len(run[t].batch) \in Nat
<1>1. run[t] \in RunType
  BY DEF TypeOK
<1>2. /\ run[t].pending \in Seq(Names) /\ run[t].batch \in Seq(Names)
      /\ run[t].todo \in SUBSET Names /\ run[t].kept \in SUBSET Names
      /\ run[t].file \in Names \cup {""}
      /\ run[t].received \in Nat /\ run[t].processed \in Nat
  BY <1>1 DEF RunType
<1>3. \A s \in Seq(Names) : Len(s) \in Nat
  OBVIOUS
<1> QED
  BY <1>1, <1>2, <1>3

LEMMA GoOnType ==
    ASSUME TypeOK, NEW t \in Tasks, NEW r \in RunType, GoOn(t, r)
    PROVE  run' \in [Tasks -> RunType]
BY DEF GoOn, TypeOK

LEMMA ListedType ==
    ASSUME TypeOK, NEW t \in Tasks
    PROVE  Listed(t) \in SUBSET Names
BY ProcessFilesAssumption DEF TypeOK, Listed

LEMMA PageType ==
    ASSUME NEW S \in SUBSET Names, NEW page \in SetToAllKPermutations(S)
    PROVE  page \in Seq(Names) /\ Len(page) \in Nat
<1>1. PICK s \in SUBSET S : page \in SetToSeqs(s)
  BY DEF SetToAllKPermutations
<1>2. Cardinality(s) \in Nat
  <2>1. s \in SUBSET Names
    OBVIOUS
  <2> QED
    BY <2>1, ProcessFilesAssumption, FS_Subset, FS_CardinalityType
<1>3. page \in [1..Cardinality(s) -> s]
  BY <1>1 DEF SetToSeqs
<1> QED
  BY <1>2, <1>3

LEMMA NotListedType ==
    ASSUME TypeOK, NEW t \in Tasks
    PROVE  NotListed(t) \in [Candidates -> SUBSET Names]
BY ProcessFilesAssumption DEF NotListed, TypeOK

LEMMA SaveCountersType ==
    ASSUME TypeOK, NEW t \in Tasks, SaveCounters(t)
    PROVE  row' \in [Tasks -> [status : Statuses, attempts : Nat,
                               received : Nat, processed : Nat]]
<1>1. run[t].received \in Nat /\ run[t].processed \in Nat
  BY RunFieldsType
<1> QED
  BY <1>1 DEF SaveCounters, TypeOK, Statuses

LEMMA LessReceivedType ==
    ASSUME NEW count \in Nat, NEW less \in Nat
    PROVE  LessReceived(count, less) \in Nat
BY DEF LessReceived

LEMMA SettleType ==
    ASSUME TypeOK, NEW t \in Tasks,
           NEW outcome \in {"SUCCESS", "FAILED", "BLOCKED"},
           Settle(t, outcome) \/ Abort(t, outcome)
    PROVE  run' \in [Tasks -> RunType]
<1>1. \A r \in RunType :
         /\ [r EXCEPT !.pc = "settle", !.outcome = outcome] \in RunType
         /\ [r EXCEPT !.pc = "cleanup", !.outcome = outcome] \in RunType
  BY PlaceNames, OutcomeNames DEF RunType
<1> QED
  BY <1>1, GoOnType, RunFieldsType DEF Settle, Abort

LEMMA PcType ==
    ASSUME TypeOK, NEW t \in Tasks,
           NEW pc \in {"loop", "batch", "cleanup"},
           GoOn(t, [run[t] EXCEPT !.pc = pc])
    PROVE  run' \in [Tasks -> RunType]
<1>1. pc \in Places
  BY PlaceNames
<1>2. \A r \in RunType : [r EXCEPT !.pc = pc] \in RunType
  BY <1>1 DEF RunType
<1> QED
  BY <1>2, GoOnType, RunFieldsType

LEMMA NoRunType == NoRun \in RunType
<1>1. <<>> \in Seq(Names)
  OBVIOUS
<1> QED
  BY <1>1, PlaceNames, OutcomeNames DEF NoRun, RunType

LEMMA InitFilesType == Init => TypeOK
BY ProcessFilesAssumption, NoRunType DEF Init, TypeOK

\* The task around an execution.
LEMMA AroundType ==
    ASSUME TypeOK, NEW t \in Tasks,
           \/ Claim(t) \/ Reclaim(t) \/ Crash(t)
           \/ SaveOutcome(t) \/ SaveOutcomeError(t) \/ SaveRefused(t)
    PROVE  TypeOK'
<1>1. CASE Claim(t)
  <2>1. row[t].received \in Nat /\ row[t].processed \in Nat
        /\ row[t].attempts \in Nat
    BY DEF TypeOK
  <2>2. \A r \in RunType :
           [r EXCEPT !.pc = "loop", !.received = row[t].received,
                     !.processed = row[t].processed] \in RunType
    BY <2>1, PlaceNames DEF RunType
  <2>3. run' \in [Tasks -> RunType]
    BY <1>1, <2>2, NoRunType, GoOnType DEF Claim
  <2> QED
    BY <1>1, <2>1, <2>3 DEF Claim, TypeOK
<1>2. CASE Reclaim(t)
  BY <1>2 DEF Reclaim, TypeOK
<1>3. CASE Crash(t)
  BY <1>3, NoRunType, GoOnType, FaultType DEF Crash, RolledBack, TypeOK
<1>4. CASE SaveOutcome(t)
  <2>1. /\ run[t].received \in Nat /\ run[t].processed \in Nat
        /\ run[t].outcome \in {"RUNNING", "SUCCESS", "FAILED", "BLOCKED"}
    BY DEF TypeOK, RunType, Outcomes
  <2>2. run' \in [Tasks -> RunType]
    BY <1>4, NoRunType, GoOnType DEF SaveOutcome
  <2>3. \A r \in RowType, o \in Statuses, a, b \in Nat :
           [r EXCEPT !.status = o, !.received = a, !.processed = b] \in RowType
    BY DEF RowType
  <2>4. row \in [Tasks -> RowType]
    BY DEF TypeOK, RowType, Statuses
  <2>5. row' = [row EXCEPT ![t] = [row[t] EXCEPT !.status = run[t].outcome,
                                                 !.received = run[t].received,
                                                 !.processed = run[t].processed]]
    BY <1>4, <2>4 DEF SaveOutcome
  <2>6. row' \in [Tasks -> RowType]
    <3>1. [row[t] EXCEPT !.status = run[t].outcome,
                         !.received = run[t].received,
                         !.processed = run[t].processed] \in RowType
      BY <2>1, <2>3, <2>4 DEF Statuses
    <3> QED
      BY <2>4, <2>5, <3>1
  <2>7. UNCHANGED <<recorded, objects, listed, aborted, faults>>
    BY <1>4 DEF SaveOutcome
  <2> QED
    BY <2>2, <2>6, <2>7 DEF TypeOK, RowType, Statuses
<1>5. CASE SaveOutcomeError(t)
  BY <1>5, NoRunType, GoOnType, FaultType DEF SaveOutcomeError, TypeOK
<1>6. CASE SaveRefused(t)
  BY <1>6, NoRunType, GoOnType DEF SaveRefused, RolledBack, TypeOK
<1> QED
  BY <1>1, <1>2, <1>3, <1>4, <1>5, <1>6

LEMMA NamesType ==
    ASSUME TypeOK, NEW t \in Tasks,
           \/ GetNames(t) \/ NoMoreNames(t) \/ GetNamesError(t)
           \/ SaveReceived(t) \/ SaveProcessed(t) \/ SaveCountersError(t)
    PROVE  TypeOK'
<1>1. CASE GetNames(t)
  <2>1. PICK page \in SetToAllKPermutations(Listed(t)) :
           GoOn(t, [run[t] EXCEPT !.pc = "received",
                                  !.pending = @ \o page,
                                  !.received = @ + Len(page)])
    BY <1>1 DEF GetNames
  <2>2. page \in Seq(Names) /\ Len(page) \in Nat
    BY PageType, ListedType
  <2>3. /\ run[t].pending \o page \in Seq(Names)
        /\ run[t].received + Len(page) \in Nat
    <3>1. run[t].pending \in Seq(Names) /\ run[t].received \in Nat
      BY RunFieldsType
    <3>2. run[t].pending \o page \in Seq(Names)
      BY <2>2, <3>1
    <3> QED
      BY <2>2, <3>1, <3>2
  <2>4. [run[t] EXCEPT !.pc = "received", !.pending = @ \o page,
                       !.received = @ + Len(page)] \in RunType
    BY <2>3, RunFieldsType, PlaceNames DEF RunType
  <2>5. run' \in [Tasks -> RunType]
    BY <2>1, <2>4, GoOnType
  <2> QED
    BY <1>1, <2>5 DEF GetNames, TypeOK
<1>2. CASE NoMoreNames(t)
  BY <1>2, SettleType DEF NoMoreNames, TypeOK
<1>3. CASE GetNamesError(t)
  BY <1>3, SettleType, FaultType DEF GetNamesError, TypeOK
<1>4. CASE SaveReceived(t)
  BY <1>4, SaveCountersType, PcType DEF SaveReceived, TypeOK, Statuses
<1>5. CASE SaveProcessed(t)
  BY <1>5, SaveCountersType, PcType DEF SaveProcessed, TypeOK, Statuses
<1>6. CASE SaveCountersError(t)
  BY <1>6, SettleType, FaultType DEF SaveCountersError, TypeOK
<1> QED
  BY <1>1, <1>2, <1>3, <1>4, <1>5, <1>6

LEMMA BatchType ==
    ASSUME TypeOK, NEW t \in Tasks, TakeBatch(t)
    PROVE  TypeOK'
<1> DEFINE p == run[t].pending
           k == IF Len(p) < BATCH_SIZE THEN Len(p) ELSE BATCH_SIZE
<1>1. p \in Seq(Names) /\ Len(p) \in Nat
  BY RunFieldsType
<1>2. k \in 0..Len(p)
  BY <1>1, ProcessFilesAssumption
<1>3. SubSeq(p, 1, k) \in Seq(Names) /\ SubSeq(p, k + 1, Len(p)) \in Seq(Names)
  <2>1. \A i \in 1..Len(p) : p[i] \in Names
    BY <1>1
  <2> HIDE DEF p, k
  <2>2. SubSeq(p, 1, k) \in Seq(Names)
    BY <1>1, <1>2, <2>1, SubSeqProperties
  <2>3. SubSeq(p, k + 1, Len(p)) \in Seq(Names)
    BY <1>1, <1>2, <2>1, SubSeqProperties
  <2> QED
    BY <2>2, <2>3
<1>4. \A b \in Seq(Names), rest \in Seq(Names), r \in RunType :
         [r EXCEPT !.pc = "request", !.batch = b, !.pending = rest,
                   !.kept = {}] \in RunType
  BY PlaceNames, OutcomeNames DEF RunType
<1>5. GoOn(t, [run[t] EXCEPT !.pc = "request",
                             !.batch = SubSeq(p, 1, k),
                             !.pending = SubSeq(p, k + 1, Len(p)),
                             !.kept = {}])
  BY DEF TakeBatch
<1>6. run' \in [Tasks -> RunType]
  <2> HIDE DEF k
  <2> QED
    BY <1>3, <1>4, <1>5, GoOnType, RunFieldsType
<1> QED
  BY <1>6 DEF TakeBatch, TypeOK

\* A file that was uploaded has a name.
FileInHand == \A t \in Tasks : run[t].pc = "uploaded" => run[t].file \in Names

LEMMA ArchiveType ==
    ASSUME TypeOK, FileInHand, NEW t \in Tasks,
           \/ RequestArchive(t) \/ RequestOtherArchive(t)
           \/ RequestArchiveError(t) \/ RecordFile(t) \/ ExtractError(t)
           \/ \E n \in Names : SkipFile(t, n) \/ UploadFile(t, n)
    PROVE  TypeOK'
<1>0. \A r \in RunType, S \in SUBSET Names :
         [r EXCEPT !.pc = "extract", !.todo = S] \in RunType
  BY PlaceNames, OutcomeNames DEF RunType
<1>1. CASE RequestArchive(t)
  <2>1. ToSet(run[t].batch) \in SUBSET Names
    <3>1. run[t].batch \in Seq(Names)
      BY RunFieldsType
    <3> QED
      BY <3>1 DEF ToSet
  <2>2. run' \in [Tasks -> RunType]
    BY <1>0, <1>1, <2>1, GoOnType, RunFieldsType DEF RequestArchive
  <2> QED
    BY <1>1, <2>2 DEF RequestArchive, TypeOK
<1>7. CASE RequestOtherArchive(t)
  <2>1. PICK held \in SUBSET Names :
           GoOn(t, [run[t] EXCEPT !.pc = "extract", !.todo = held])
    BY <1>7 DEF RequestOtherArchive
  <2>2. run' \in [Tasks -> RunType]
    BY <1>0, <2>1, GoOnType, RunFieldsType
  <2>3. faults' \in 0..MaxFaults
    BY <1>7, FaultType DEF RequestOtherArchive, TypeOK
  <2> QED
    BY <1>7, <2>2, <2>3 DEF RequestOtherArchive, TypeOK
<1>2. CASE RequestArchiveError(t)
  BY <1>2, SettleType, FaultType DEF RequestArchiveError, TypeOK
<1>3. CASE RecordFile(t)
  <2>1. \A r \in RunType, n \in Names :
           [r EXCEPT !.pc = "extract", !.kept = @ \cup {n}] \in RunType
    BY PlaceNames, OutcomeNames DEF RunType
  <2>2. run[t].file \in Names
    BY <1>3 DEF RecordFile, FileInHand
  <2>3. run' \in [Tasks -> RunType]
    BY <1>3, <2>1, <2>2, GoOnType, RunFieldsType DEF RecordFile
  <2> QED
    BY <1>3, <2>2, <2>3 DEF RecordFile, TypeOK
<1>4. CASE ExtractError(t)
  <2>1. run' \in [Tasks -> RunType]
    BY <1>4, SettleType DEF ExtractError
  <2>2. faults' \in 0..MaxFaults
    BY <1>4, FaultType DEF ExtractError, TypeOK
  <2>3. objects' \subseteq Names
    <3>1. run[t].todo \subseteq Names /\ objects \subseteq Names
      BY RunFieldsType DEF TypeOK
    <3> QED
      BY <1>4, <3>1 DEF ExtractError
  <2> QED
    BY <1>4, <2>1, <2>2, <2>3 DEF ExtractError, TypeOK
<1>5. ASSUME NEW n \in Names, SkipFile(t, n)
      PROVE  TypeOK'
  <2>1. \A r \in RunType : [r EXCEPT !.todo = @ \ {n}] \in RunType
    BY PlaceNames, OutcomeNames DEF RunType
  <2>2. run' \in [Tasks -> RunType]
    BY <1>5, <2>1, GoOnType, RunFieldsType DEF SkipFile
  <2> QED
    BY <1>5, <2>2 DEF SkipFile, TypeOK
<1>6. ASSUME NEW n \in Names, UploadFile(t, n)
      PROVE  TypeOK'
  <2>1. \A r \in RunType :
           [r EXCEPT !.pc = "uploaded", !.todo = @ \ {n}, !.file = n] \in RunType
    BY PlaceNames, OutcomeNames DEF RunType
  <2>2. run' \in [Tasks -> RunType]
    BY <1>6, <2>1, GoOnType, RunFieldsType DEF UploadFile
  <2> QED
    BY <1>6, <2>2 DEF UploadFile, TypeOK
<1> QED
  BY <1>1, <1>2, <1>3, <1>4, <1>5, <1>6, <1>7

LEMMA EndType ==
    ASSUME TypeOK, NEW t \in Tasks,
           \/ MarkDownloaded(t) \/ MarkError(t)
           \/ \E n \in Names : DeleteObject(t, n)
           \/ DeleteRecord(t) \/ CleanupDone(t)
    PROVE  TypeOK'
<1>1. CASE MarkDownloaded(t)
  <2>1. run[t].processed + BatchCount(t) \in Nat
    <3>1. run[t].processed \in Nat /\ Len(run[t].batch) \in Nat
      BY RunFieldsType
    <3> QED
      BY <3>1 DEF BatchCount
  <2>2. \A r \in RunType, p \in Nat :
           [r EXCEPT !.pc = "processed", !.processed = p] \in RunType
    BY PlaceNames, OutcomeNames DEF RunType
  <2>3. run' \in [Tasks -> RunType]
    BY <1>1, <2>1, <2>2, GoOnType, RunFieldsType DEF MarkDownloaded
  <2> QED
    BY <1>1, <2>3, NotListedType DEF MarkDownloaded, TypeOK
<1>2. CASE MarkError(t)
  <2>1. run' \in [Tasks -> RunType]
    BY <1>2, SettleType DEF MarkError
  <2>2. faults' \in 0..MaxFaults
    BY <1>2, FaultType DEF MarkError, TypeOK
  <2> QED
    BY <1>2, <2>1, <2>2, NotListedType DEF MarkError, TypeOK
<1>3. ASSUME NEW n \in Names, DeleteObject(t, n)
      PROVE  TypeOK'
  <2>1. \A r \in RunType :
           [r EXCEPT !.pc = "unrecord", !.kept = @ \ {n}, !.file = n] \in RunType
    BY PlaceNames, OutcomeNames DEF RunType
  <2>2. run' \in [Tasks -> RunType]
    BY <1>3, <2>1, GoOnType, RunFieldsType DEF DeleteObject
  <2> QED
    BY <1>3, <2>2, FaultType DEF DeleteObject, TypeOK
<1>4. CASE DeleteRecord(t)
  <2>1. run' \in [Tasks -> RunType]
    BY <1>4, PcType DEF DeleteRecord
  <2> QED
    BY <1>4, <2>1, FaultType DEF DeleteRecord, RolledBack, TypeOK
<1>5. CASE CleanupDone(t)
  <2> DEFINE less == BatchCount(t) + Len(run[t].pending)
  <2>1. LessReceived(run[t].received, less) \in Nat
    <3>1. run[t].received \in Nat /\ Len(run[t].pending) \in Nat
      BY RunFieldsType
    <3>2. BatchCount(t) \in Nat
      BY RunFieldsType DEF BatchCount
    <3>3. \A a, b \in Nat : a + b \in Nat
      OBVIOUS
    <3>4. less \in Nat
      BY <3>1, <3>2, <3>3
    <3> HIDE DEF less
    <3> QED
      BY <3>1, <3>4, LessReceivedType
  <2>2. \A r \in RunType, n \in Nat :
           [r EXCEPT !.pc = "settle", !.received = n] \in RunType
    BY PlaceNames, OutcomeNames DEF RunType
  <2>3. run' \in [Tasks -> RunType]
    BY <1>5, <2>1, <2>2, GoOnType, RunFieldsType DEF CleanupDone
  <2> QED
    BY <1>5, <2>3 DEF CleanupDone, TypeOK
<1> QED
  BY <1>1, <1>2, <1>3, <1>4, <1>5

-----------------------------------------------------------------------------
(* What each step does to the handler's files. *)

Moves(t, pc, batch, todo, kept, file, outcome) ==
    /\ \A u \in Tasks \ {t} : run'[u] = run[u]
    /\ run'[t].pc = pc
    /\ run'[t].batch = batch
    /\ run'[t].todo = todo
    /\ run'[t].kept = kept
    /\ run'[t].file = file
    /\ run'[t].outcome = outcome

\* The handler goes on with the same files.
EndsWith(t, pc, outcome) ==
    Moves(t, pc, run[t].batch, run[t].todo, run[t].kept, run[t].file, outcome)

\* And with the same outcome.
MovesTo(t, pc) ==
    EndsWith(t, pc, run[t].outcome)

LEMMA GoOnFields ==
    ASSUME TypeOK, NEW t \in Tasks, NEW r, GoOn(t, r)
    PROVE  Moves(t, r.pc, r.batch, r.todo, r.kept, r.file, r.outcome)
BY DEF GoOn, TypeOK, Moves

LEMMA SettleMoves ==
    ASSUME TypeOK, NEW t \in Tasks, NEW outcome, Settle(t, outcome)
    PROVE  EndsWith(t, "settle", outcome)
<1> DEFINE r == run[t]
           q == [r EXCEPT !.pc = "settle", !.outcome = outcome]
<1>1. GoOn(t, q)
  BY DEF Settle
<1>2. r \in RunType
  BY RunFieldsType
<1> HIDE DEF r
<1>3. /\ q.pc = "settle" /\ q.batch = r.batch
      /\ q.todo = r.todo /\ q.kept = r.kept
      /\ q.file = r.file /\ q.outcome = outcome
  BY <1>2 DEF RunType
<1> HIDE DEF q
<1>4. Moves(t, q.pc, q.batch, q.todo, q.kept, q.file, q.outcome)
  BY <1>1, GoOnFields
<1> QED
  BY <1>3, <1>4 DEF r, EndsWith

LEMMA AbortMoves ==
    ASSUME TypeOK, NEW t \in Tasks, NEW outcome, Abort(t, outcome)
    PROVE  EndsWith(t, "cleanup", outcome)
<1> DEFINE r == run[t]
           q == [r EXCEPT !.pc = "cleanup", !.outcome = outcome]
<1>1. GoOn(t, q)
  BY DEF Abort
<1>2. r \in RunType
  BY RunFieldsType
<1> HIDE DEF r
<1>3. /\ q.pc = "cleanup" /\ q.batch = r.batch
      /\ q.todo = r.todo /\ q.kept = r.kept
      /\ q.file = r.file /\ q.outcome = outcome
  BY <1>2 DEF RunType
<1> HIDE DEF q
<1>4. Moves(t, q.pc, q.batch, q.todo, q.kept, q.file, q.outcome)
  BY <1>1, GoOnFields
<1> QED
  BY <1>3, <1>4 DEF r, EndsWith

LEMMA PcMoves ==
    ASSUME TypeOK, NEW t \in Tasks, NEW pc, GoOn(t, [run[t] EXCEPT !.pc = pc])
    PROVE  MovesTo(t, pc)
<1> DEFINE r == run[t]
           q == [r EXCEPT !.pc = pc]
<1>1. GoOn(t, q)
  OBVIOUS
<1>2. r \in RunType
  BY RunFieldsType
<1> HIDE DEF r
<1>3. /\ q.pc = pc /\ q.batch = r.batch
      /\ q.todo = r.todo /\ q.kept = r.kept
      /\ q.file = r.file /\ q.outcome = r.outcome
  BY <1>2 DEF RunType
<1> HIDE DEF q
<1>4. Moves(t, q.pc, q.batch, q.todo, q.kept, q.file, q.outcome)
  BY <1>1, GoOnFields
<1> QED
  BY <1>3, <1>4 DEF r, EndsWith, MovesTo

LEMMA IdleMoves ==
    ASSUME TypeOK, NEW t \in Tasks, GoOn(t, NoRun)
    PROVE  Moves(t, "idle", <<>>, {}, {}, "", "RUNNING")
<1>1. /\ NoRun.pc = "idle" /\ NoRun.batch = <<>> /\ NoRun.todo = {}
      /\ NoRun.kept = {} /\ NoRun.file = "" /\ NoRun.outcome = "RUNNING"
  BY DEF NoRun
<1>2. Moves(t, NoRun.pc, NoRun.batch, NoRun.todo, NoRun.kept, NoRun.file,
             NoRun.outcome)
  BY GoOnFields
<1> QED
  BY <1>1, <1>2

LEMMA ClaimMoves ==
    ASSUME TypeOK, NEW t \in Tasks, Claim(t)
    PROVE  Moves(t, "loop", <<>>, {}, {}, "", "RUNNING")
<1> DEFINE q == [NoRun EXCEPT !.pc = "loop",
                              !.received = row[t].received,
                              !.processed = row[t].processed]
<1>1. GoOn(t, q)
  BY DEF Claim
<1>2. /\ q.pc = "loop" /\ q.batch = <<>> /\ q.todo = {}
      /\ q.kept = {} /\ q.file = "" /\ q.outcome = "RUNNING"
  BY DEF NoRun
<1> HIDE DEF q
<1>3. Moves(t, q.pc, q.batch, q.todo, q.kept, q.file, q.outcome)
  BY <1>1, GoOnFields
<1> QED
  BY <1>2, <1>3

LEMMA GetNamesMoves ==
    ASSUME TypeOK, NEW t \in Tasks, GetNames(t)
    PROVE  MovesTo(t, "received")
<1>1. PICK page :
         GoOn(t, [run[t] EXCEPT !.pc = "received",
                                !.pending = @ \o page,
                                !.received = @ + Len(page)])
  BY DEF GetNames
<1> DEFINE r == run[t]
           q == [r EXCEPT !.pc = "received", !.pending = @ \o page,
                          !.received = @ + Len(page)]
<1>2. GoOn(t, q)
  BY <1>1
<1>3. r \in RunType
  BY RunFieldsType
<1> HIDE DEF r
<1>4. /\ q.pc = "received" /\ q.batch = r.batch /\ q.todo = r.todo
      /\ q.kept = r.kept /\ q.file = r.file /\ q.outcome = r.outcome
  BY <1>3 DEF RunType
<1> HIDE DEF q
<1>5. Moves(t, q.pc, q.batch, q.todo, q.kept, q.file, q.outcome)
  BY <1>2, GoOnFields
<1> QED
  BY <1>4, <1>5 DEF r, EndsWith, MovesTo

LEMMA TakeBatchMoves ==
    ASSUME TypeOK, NEW t \in Tasks, TakeBatch(t)
    PROVE  \E batch : Moves(t, "request", batch, run[t].todo, {}, run[t].file, run[t].outcome)
<1>1. PICK a, b :
         GoOn(t, [run[t] EXCEPT !.pc = "request", !.batch = a, !.pending = b,
                                !.kept = {}])
  BY DEF TakeBatch
<1> DEFINE r == run[t]
           q == [r EXCEPT !.pc = "request", !.batch = a, !.pending = b,
                          !.kept = {}]
<1>2. GoOn(t, q)
  BY <1>1
<1>3. r \in RunType
  BY RunFieldsType
<1> HIDE DEF r
<1>4. /\ q.pc = "request" /\ q.batch = a /\ q.todo = r.todo
      /\ q.kept = {} /\ q.file = r.file /\ q.outcome = r.outcome
  BY <1>3 DEF RunType
<1> HIDE DEF q
<1>5. Moves(t, q.pc, q.batch, q.todo, q.kept, q.file, q.outcome)
  BY <1>2, GoOnFields
<1> QED
  BY <1>4, <1>5 DEF r

LEMMA ArchiveMoves ==
    ASSUME TypeOK, NEW t \in Tasks, RequestArchive(t)
    PROVE  Moves(t, "extract", run[t].batch, ToSet(run[t].batch),
                 run[t].kept, run[t].file, run[t].outcome)
<1> DEFINE r == run[t]
           q == [r EXCEPT !.pc = "extract", !.todo = ToSet(run[t].batch)]
<1>1. GoOn(t, q)
  BY DEF RequestArchive
<1>2. r \in RunType
  BY RunFieldsType
<1> HIDE DEF r
<1>3. /\ q.pc = "extract" /\ q.batch = r.batch
      /\ q.todo = ToSet(run[t].batch) /\ q.kept = r.kept
      /\ q.file = r.file /\ q.outcome = r.outcome
  BY <1>2 DEF RunType
<1> HIDE DEF q
<1>4. Moves(t, q.pc, q.batch, q.todo, q.kept, q.file, q.outcome)
  BY <1>1, GoOnFields
<1> QED
  BY <1>3, <1>4 DEF r

LEMMA OtherArchiveMoves ==
    ASSUME TypeOK, NEW t \in Tasks, RequestOtherArchive(t)
    PROVE  \E held \in SUBSET Names :
             Moves(t, "extract", run[t].batch, held,
                   run[t].kept, run[t].file, run[t].outcome)
<1>1. PICK held \in SUBSET Names :
         GoOn(t, [run[t] EXCEPT !.pc = "extract", !.todo = held])
  BY DEF RequestOtherArchive
<1> DEFINE r == run[t]
           q == [r EXCEPT !.pc = "extract", !.todo = held]
<1>2. GoOn(t, q)
  BY <1>1
<1>3. r \in RunType
  BY RunFieldsType
<1> HIDE DEF r
<1>4. /\ q.pc = "extract" /\ q.batch = r.batch /\ q.todo = held
      /\ q.kept = r.kept /\ q.file = r.file /\ q.outcome = r.outcome
  BY <1>3 DEF RunType
<1> HIDE DEF q
<1>5. Moves(t, q.pc, q.batch, q.todo, q.kept, q.file, q.outcome)
  BY <1>2, GoOnFields
<1> QED
  BY <1>4, <1>5 DEF r

LEMMA SkipMoves ==
    ASSUME TypeOK, NEW t \in Tasks, NEW n, SkipFile(t, n)
    PROVE  Moves(t, "extract", run[t].batch, run[t].todo \ {n},
                 run[t].kept, run[t].file, run[t].outcome)
<1> DEFINE r == run[t]
           q == [r EXCEPT !.todo = @ \ {n}]
<1>1. GoOn(t, q)
  BY DEF SkipFile
<1>2. r \in RunType
  BY RunFieldsType
<1> HIDE DEF r
<1>3. /\ q.pc = r.pc /\ q.batch = r.batch
      /\ q.todo = r.todo \ {n} /\ q.kept = r.kept
      /\ q.file = r.file /\ q.outcome = r.outcome
  BY <1>2 DEF RunType
<1> HIDE DEF q
<1>4. Moves(t, q.pc, q.batch, q.todo, q.kept, q.file, q.outcome)
  BY <1>1, GoOnFields
<1> QED
  BY <1>3, <1>4 DEF r, SkipFile

LEMMA UploadMoves ==
    ASSUME TypeOK, NEW t \in Tasks, NEW n, UploadFile(t, n)
    PROVE  Moves(t, "uploaded", run[t].batch, run[t].todo \ {n},
                 run[t].kept, n, run[t].outcome)
<1> DEFINE r == run[t]
           q == [r EXCEPT !.pc = "uploaded", !.todo = @ \ {n},
                          !.file = n]
<1>1. GoOn(t, q)
  BY DEF UploadFile
<1>2. r \in RunType
  BY RunFieldsType
<1> HIDE DEF r
<1>3. /\ q.pc = "uploaded" /\ q.batch = r.batch
      /\ q.todo = r.todo \ {n} /\ q.kept = r.kept
      /\ q.file = n /\ q.outcome = r.outcome
  BY <1>2 DEF RunType
<1> HIDE DEF q
<1>4. Moves(t, q.pc, q.batch, q.todo, q.kept, q.file, q.outcome)
  BY <1>1, GoOnFields
<1> QED
  BY <1>3, <1>4 DEF r

LEMMA RecordMoves ==
    ASSUME TypeOK, NEW t \in Tasks, RecordFile(t)
    PROVE  Moves(t, "extract", run[t].batch, run[t].todo,
                 run[t].kept \cup {run[t].file}, run[t].file, run[t].outcome)
<1> DEFINE r == run[t]
           q == [r EXCEPT !.pc = "extract",
                          !.kept = @ \cup {run[t].file}]
<1>1. GoOn(t, q)
  BY DEF RecordFile
<1>2. r \in RunType
  BY RunFieldsType
<1> HIDE DEF r
<1>3. /\ q.pc = "extract" /\ q.batch = r.batch
      /\ q.todo = r.todo /\ q.kept = r.kept \cup {run[t].file}
      /\ q.file = r.file /\ q.outcome = r.outcome
  BY <1>2 DEF RunType
<1> HIDE DEF q
<1>4. Moves(t, q.pc, q.batch, q.todo, q.kept, q.file, q.outcome)
  BY <1>1, GoOnFields
<1> QED
  BY <1>3, <1>4 DEF r

LEMMA MarkMoves ==
    ASSUME TypeOK, NEW t \in Tasks, MarkDownloaded(t)
    PROVE  MovesTo(t, "processed")
<1> DEFINE r == run[t]
           q == [r EXCEPT !.pc = "processed",
                          !.processed = @ + BatchCount(t)]
<1>1. GoOn(t, q)
  BY DEF MarkDownloaded
<1>2. r \in RunType
  BY RunFieldsType
<1> HIDE DEF r
<1>3. /\ q.pc = "processed" /\ q.batch = r.batch
      /\ q.todo = r.todo /\ q.kept = r.kept
      /\ q.file = r.file /\ q.outcome = r.outcome
  BY <1>2 DEF RunType
<1> HIDE DEF q
<1>4. Moves(t, q.pc, q.batch, q.todo, q.kept, q.file, q.outcome)
  BY <1>1, GoOnFields
<1> QED
  BY <1>3, <1>4 DEF r, EndsWith, MovesTo

LEMMA DeleteMoves ==
    ASSUME TypeOK, NEW t \in Tasks, NEW n, DeleteObject(t, n)
    PROVE  Moves(t, "unrecord", run[t].batch, run[t].todo,
                 run[t].kept \ {n}, n, run[t].outcome)
<1> DEFINE r == run[t]
           q == [r EXCEPT !.pc = "unrecord", !.kept = @ \ {n},
                          !.file = n]
<1>1. GoOn(t, q)
  BY DEF DeleteObject
<1>2. r \in RunType
  BY RunFieldsType
<1> HIDE DEF r
<1>3. /\ q.pc = "unrecord" /\ q.batch = r.batch
      /\ q.todo = r.todo /\ q.kept = r.kept \ {n}
      /\ q.file = n /\ q.outcome = r.outcome
  BY <1>2 DEF RunType
<1> HIDE DEF q
<1>4. Moves(t, q.pc, q.batch, q.todo, q.kept, q.file, q.outcome)
  BY <1>1, GoOnFields
<1> QED
  BY <1>3, <1>4 DEF r

LEMMA CleanupDoneMoves ==
    ASSUME TypeOK, NEW t \in Tasks, CleanupDone(t)
    PROVE  MovesTo(t, "settle")
<1> DEFINE r == run[t]
           q == [r EXCEPT !.pc = "settle",
                          !.received = LessReceived(@, BatchCount(t)
                                                        + Len(run[t].pending))]
<1>1. GoOn(t, q)
  BY DEF CleanupDone
<1>2. r \in RunType
  BY RunFieldsType
<1> HIDE DEF r
<1>3. /\ q.pc = "settle" /\ q.batch = r.batch
      /\ q.todo = r.todo /\ q.kept = r.kept
      /\ q.file = r.file /\ q.outcome = r.outcome
  BY <1>2 DEF RunType
<1> HIDE DEF q
<1>4. Moves(t, q.pc, q.batch, q.todo, q.kept, q.file, q.outcome)
  BY <1>1, GoOnFields
<1> QED
  BY <1>3, <1>4 DEF r, EndsWith, MovesTo

LEMMA FailureMoves ==
    ASSUME TypeOK, NEW t \in Tasks, Failure(t)
    PROVE  \/ \E outcome \in {"FAILED", "BLOCKED"} :
                 EndsWith(t, "settle", outcome) \/ EndsWith(t, "cleanup", outcome)
           \/ Moves(t, "idle", <<>>, {}, {}, "", "RUNNING")
           \/ \E held \in SUBSET Names :
                 Moves(t, "extract", run[t].batch, held,
                       run[t].kept, run[t].file, run[t].outcome)
BY SettleMoves, AbortMoves, IdleMoves, OtherArchiveMoves
   DEF Failure, GetNamesError, SaveCountersError, RequestArchiveError,
       ExtractError, MarkError, SaveOutcomeError

-----------------------------------------------------------------------------
(* Type correctness. *)

TypesInv == TypeOK /\ FileInHand

LEMMA FileInHandNext ==
    ASSUME TypesInv, NEW t \in Tasks, Work(t) \/ Failure(t) \/ Claim(t) \/ Crash(t)
    PROVE  FileInHand'
<1> USE DEF TypesInv
<1>1. CASE \E n \in Names : UploadFile(t, n)
  <2>1. PICK n \in Names : UploadFile(t, n)
    BY <1>1
  <2> QED
    BY <2>1, UploadMoves DEF FileInHand, Moves
<1>2. CASE Work(t) /\ ~\E n \in Names : UploadFile(t, n)
  <2>1. /\ run'[t].pc # "uploaded"
        /\ \A u \in Tasks \ {t} : run'[u] = run[u]
    <3>1. CASE \/ SaveOutcome(t) \/ SaveRefused(t) \/ NoMoreNames(t)
               \/ SaveReceived(t) \/ SaveProcessed(t) \/ DeleteRecord(t)
      BY <3>1, IdleMoves, SettleMoves, PcMoves
         DEF SaveOutcome, SaveRefused, NoMoreNames, SaveReceived, SaveProcessed, DeleteRecord,
             Moves, EndsWith, MovesTo
    <3>2. CASE GetNames(t) \/ TakeBatch(t) \/ RequestArchive(t)
      BY <3>2, GetNamesMoves, TakeBatchMoves, ArchiveMoves DEF Moves, EndsWith, MovesTo
    <3>3. CASE RecordFile(t) \/ MarkDownloaded(t) \/ CleanupDone(t)
      BY <3>3, RecordMoves, MarkMoves, CleanupDoneMoves DEF Moves, EndsWith, MovesTo
    <3>4. CASE \E n \in Names : SkipFile(t, n) \/ DeleteObject(t, n)
      BY <3>4, SkipMoves, DeleteMoves DEF Moves
    <3> QED
      BY <1>2, <3>1, <3>2, <3>3, <3>4 DEF Work
  <2> QED
    BY <2>1 DEF FileInHand
<1>3. CASE Failure(t)
  BY <1>3, FailureMoves DEF FileInHand, Moves, EndsWith
<1>4. CASE Claim(t)
  BY <1>4, ClaimMoves DEF FileInHand, Moves
<1>5. CASE Crash(t)
  BY <1>5, IdleMoves DEF FileInHand, Moves, Crash
<1> QED
  BY <1>1, <1>2, <1>3, <1>4, <1>5

LEMMA TypesNext == TypesInv /\ [Next]_vars => TypesInv'
<1> SUFFICES ASSUME TypesInv, [Next]_vars PROVE TypesInv'
  OBVIOUS
<1> USE DEF TypesInv
<1>1. ASSUME NEW t \in Tasks, Reclaim(t)
      PROVE  TypesInv'
  BY <1>1, AroundType DEF Reclaim, FileInHand
<1>2. ASSUME NEW t \in Tasks, Work(t) \/ Failure(t) \/ Claim(t) \/ Crash(t)
      PROVE  TypesInv'
  <2>1. FileInHand'
    BY <1>2, FileInHandNext
  <2>2. TypeOK'
    <3>1. CASE \/ Claim(t) \/ Crash(t) \/ SaveOutcome(t) \/ SaveOutcomeError(t)
               \/ SaveRefused(t)
      BY <3>1, AroundType
    <3>2. CASE \/ GetNames(t) \/ NoMoreNames(t) \/ GetNamesError(t)
               \/ SaveReceived(t) \/ SaveProcessed(t) \/ SaveCountersError(t)
      BY <3>2, NamesType
    <3>3. CASE TakeBatch(t)
      BY <3>3, BatchType
    <3>4. CASE \/ RequestArchive(t) \/ RequestOtherArchive(t)
               \/ RequestArchiveError(t) \/ RecordFile(t) \/ ExtractError(t)
               \/ \E n \in Names : SkipFile(t, n) \/ UploadFile(t, n)
      BY <3>4, ArchiveType
    <3>5. CASE \/ MarkDownloaded(t) \/ MarkError(t)
               \/ \E n \in Names : DeleteObject(t, n)
               \/ DeleteRecord(t) \/ CleanupDone(t)
      BY <3>5, EndType
    <3> QED
      BY <1>2, <3>1, <3>2, <3>3, <3>4, <3>5 DEF Work, Failure
  <2> QED
    BY <2>1, <2>2
<1>3. CASE UNCHANGED vars
  BY <1>3 DEF vars, TypeOK, FileInHand
<1> QED
  BY <1>1, <1>2, <1>3 DEF Next

LEMMA InitTypes == Init => TypesInv
<1>1. Init => TypeOK
  BY InitFilesType
<1>2. NoRun.pc = "idle"
  BY DEF NoRun
<1>3. Init => \A t \in Tasks : run[t] = NoRun
  BY DEF Init
<1> QED
  BY <1>1, <1>2, <1>3 DEF TypesInv, FileInHand

\* The tables, the store and the handlers' objects keep their types, for any
\* tasks, names, batch size and faults.
THEOREM FilesTypeCorrect == Spec => []TypeOK
<1>1. TypesInv => TypeOK
  BY DEF TypesInv
<1> QED
  BY <1>1, InitTypes, TypesNext, PTL DEF Spec
-----------------------------------------------------------------------------
(* The counters.                                                           *)

\* What each step does to the names that the counters count.
Counts(t, pc, pending, batch, received, processed) ==
    /\ \A u \in Tasks \ {t} : run'[u] = run[u]
    /\ run'[t].pc = pc
    /\ Len(run'[t].pending) = pending /\ Len(run'[t].batch) = batch
    /\ run'[t].received = received /\ run'[t].processed = processed

KeepsCounts(t) ==
    Counts(t, run'[t].pc, Len(run[t].pending), Len(run[t].batch),
           run[t].received, run[t].processed)

LEMMA GoOnCounts ==
    ASSUME TypeOK, NEW t \in Tasks, NEW r, GoOn(t, r)
    PROVE  Counts(t, r.pc, Len(r.pending), Len(r.batch), r.received, r.processed)
BY DEF GoOn, TypeOK, Counts

SameCounts(q, r) ==
    /\ q.pending = r.pending /\ q.batch = r.batch
    /\ q.received = r.received /\ q.processed = r.processed

LEMMA GoOnKeepsCounts ==
    ASSUME TypeOK, NEW t \in Tasks, NEW q, GoOn(t, q), SameCounts(q, run[t])
    PROVE  KeepsCounts(t)
BY DEF GoOn, TypeOK, Counts, SameCounts, KeepsCounts

LEMMA PlaceCounts ==
    ASSUME NEW r \in RunType, NEW pc, NEW value, NEW file
    PROVE  /\ SameCounts([r EXCEPT !.pc = pc], r)
           /\ SameCounts([r EXCEPT !.pc = pc, !.outcome = value], r)
           /\ SameCounts([r EXCEPT !.pc = pc, !.todo = value], r)
           /\ SameCounts([r EXCEPT !.todo = value], r)
           /\ SameCounts([r EXCEPT !.pc = pc, !.todo = value, !.file = file], r)
           /\ SameCounts([r EXCEPT !.pc = pc, !.kept = value], r)
           /\ SameCounts([r EXCEPT !.pc = pc, !.kept = value, !.file = file], r)
BY DEF RunType, SameCounts

LEMMA PcCounts ==
    ASSUME TypeOK, NEW t \in Tasks, NEW pc, GoOn(t, [run[t] EXCEPT !.pc = pc])
    PROVE  KeepsCounts(t)
BY RunFieldsType, PlaceCounts, GoOnKeepsCounts

LEMMA SettleCounts ==
    ASSUME TypeOK, NEW t \in Tasks, NEW outcome,
           Settle(t, outcome) \/ Abort(t, outcome)
    PROVE  KeepsCounts(t)
<1>1. run[t] \in RunType
  BY RunFieldsType
<1>2. CASE Settle(t, outcome)
  BY <1>1, <1>2, PlaceCounts, GoOnKeepsCounts, Zenon DEF Settle
<1>3. CASE Abort(t, outcome)
  BY <1>1, <1>3, PlaceCounts, GoOnKeepsCounts, Zenon DEF Abort
<1> QED
  BY <1>2, <1>3

LEMMA FileCounts ==
    ASSUME TypeOK, NEW t \in Tasks,
           \/ RequestArchive(t) \/ RequestOtherArchive(t) \/ RecordFile(t)
           \/ \E n \in Names : SkipFile(t, n) \/ UploadFile(t, n) \/ DeleteObject(t, n)
    PROVE  KeepsCounts(t)
<1>0. run[t] \in RunType
  BY RunFieldsType
<1> USE <1>0, PlaceCounts, GoOnKeepsCounts
<1>1. CASE RequestArchive(t)
  BY <1>1, Zenon DEF RequestArchive
<1>2. CASE RequestOtherArchive(t)
  BY <1>2, Zenon DEF RequestOtherArchive
<1>3. CASE RecordFile(t)
  BY <1>3, Zenon DEF RecordFile
<1>4. CASE \E n \in Names : SkipFile(t, n)
  BY <1>4, Zenon DEF SkipFile
<1>5. CASE \E n \in Names : UploadFile(t, n)
  BY <1>5, Zenon DEF UploadFile
<1>6. CASE \E n \in Names : DeleteObject(t, n)
  BY <1>6, Zenon DEF DeleteObject
<1> QED
  BY <1>1, <1>2, <1>3, <1>4, <1>5, <1>6

LEMMA IdleCounts ==
    ASSUME TypeOK, NEW t \in Tasks, GoOn(t, NoRun)
    PROVE  Counts(t, "idle", 0, 0, 0, 0)
<1>1. /\ NoRun.pc = "idle" /\ NoRun.pending = <<>> /\ NoRun.batch = <<>>
      /\ NoRun.received = 0 /\ NoRun.processed = 0
  BY DEF NoRun
<1>2. Counts(t, NoRun.pc, Len(NoRun.pending), Len(NoRun.batch),
             NoRun.received, NoRun.processed)
  BY GoOnCounts
<1> QED
  BY <1>1, <1>2

LEMMA ClaimCounts ==
    ASSUME TypeOK, NEW t \in Tasks, Claim(t)
    PROVE  Counts(t, "loop", 0, 0, row[t].received, row[t].processed)
<1> DEFINE q == [NoRun EXCEPT !.pc = "loop",
                              !.received = row[t].received,
                              !.processed = row[t].processed]
<1>1. GoOn(t, q)
  BY DEF Claim
<1>2. /\ q.pc = "loop" /\ q.pending = <<>> /\ q.batch = <<>>
      /\ q.received = row[t].received /\ q.processed = row[t].processed
  BY DEF NoRun
<1> HIDE DEF q
<1>3. Counts(t, q.pc, Len(q.pending), Len(q.batch), q.received, q.processed)
  BY <1>1, GoOnCounts
<1> QED
  BY <1>2, <1>3

\* A page adds as many names to pending as to received.
LEMMA GetNamesCounts ==
    ASSUME TypeOK, NEW t \in Tasks, GetNames(t)
    PROVE  \E n \in Nat :
             Counts(t, "received", Len(run[t].pending) + n, Len(run[t].batch),
                    run[t].received + n, run[t].processed)
<1>1. PICK page \in SetToAllKPermutations(Listed(t)) :
         GoOn(t, [run[t] EXCEPT !.pc = "received",
                                !.pending = @ \o page,
                                !.received = @ + Len(page)])
  BY DEF GetNames
<1> DEFINE r == run[t]
           q == [r EXCEPT !.pc = "received", !.pending = @ \o page,
                          !.received = @ + Len(page)]
<1>2. GoOn(t, q)
  BY <1>1
<1>3. r \in RunType /\ r.pending \in Seq(Names)
  BY RunFieldsType
<1>4. page \in Seq(Names) /\ Len(page) \in Nat
  BY PageType, ListedType
<1> HIDE DEF r
<1>5. /\ q.pc = "received" /\ q.pending = r.pending \o page /\ q.batch = r.batch
      /\ q.received = r.received + Len(page) /\ q.processed = r.processed
  BY <1>3 DEF RunType
<1>6. Len(r.pending \o page) = Len(r.pending) + Len(page)
  BY <1>3, <1>4
<1> HIDE DEF q
<1>7. Counts(t, q.pc, Len(q.pending), Len(q.batch), q.received, q.processed)
  BY <1>2, GoOnCounts
<1> QED
  BY <1>4, <1>5, <1>6, <1>7 DEF r

\* Names of a batch leave pending.
LEMMA TakeBatchCounts ==
    ASSUME TypeOK, NEW t \in Tasks, TakeBatch(t)
    PROVE  \E k \in 0..Len(run[t].pending) :
             Counts(t, "request", Len(run[t].pending) - k, k,
                    run[t].received, run[t].processed)
<1> DEFINE r == run[t]
           p == r.pending
           k == IF Len(p) < BATCH_SIZE THEN Len(p) ELSE BATCH_SIZE
           a == SubSeq(p, 1, k)
           b == SubSeq(p, k + 1, Len(p))
           q == [r EXCEPT !.pc = "request", !.batch = a, !.pending = b, !.kept = {}]
<1>1. GoOn(t, q)
  BY DEF TakeBatch
<1>2. r \in RunType /\ p \in Seq(Names) /\ Len(p) \in Nat
  BY RunFieldsType
<1>3. k \in 0..Len(p)
  BY <1>2, ProcessFilesAssumption
<1> HIDE DEF r, p, k
<1>4. Len(a) = k /\ Len(b) = Len(p) - k
  BY <1>2, <1>3, SubSeqProperties
<1> HIDE DEF a, b
<1>5. /\ q.pc = "request" /\ q.pending = b /\ q.batch = a
      /\ q.received = r.received /\ q.processed = r.processed
  BY <1>2 DEF RunType
<1> HIDE DEF q
<1>6. Counts(t, q.pc, Len(q.pending), Len(q.batch), q.received, q.processed)
  BY <1>1, GoOnCounts
<1> QED
  BY <1>3, <1>4, <1>5, <1>6 DEF r, p

LEMMA MarkCounts ==
    ASSUME TypeOK, NEW t \in Tasks, MarkDownloaded(t)
    PROVE  Counts(t, "processed", Len(run[t].pending), Len(run[t].batch),
                  run[t].received, run[t].processed + Len(run[t].batch))
<1> DEFINE r == run[t]
           q == [r EXCEPT !.pc = "processed", !.processed = @ + BatchCount(t)]
<1>1. GoOn(t, q)
  BY DEF MarkDownloaded
<1>2. r \in RunType /\ BatchCount(t) = Len(r.batch)
  BY RunFieldsType DEF BatchCount
<1> HIDE DEF r
<1>3. /\ q.pc = "processed" /\ q.pending = r.pending /\ q.batch = r.batch
      /\ q.received = r.received /\ q.processed = r.processed + Len(r.batch)
  BY <1>2 DEF RunType
<1> HIDE DEF q
<1>4. Counts(t, q.pc, Len(q.pending), Len(q.batch), q.received, q.processed)
  BY <1>1, GoOnCounts
<1> QED
  BY <1>3, <1>4 DEF r

LEMMA CleanupCounts ==
    ASSUME TypeOK, NEW t \in Tasks, CleanupDone(t)
    PROVE  Counts(t, "settle", Len(run[t].pending), Len(run[t].batch),
                  LessReceived(run[t].received, Len(run[t].batch) + Len(run[t].pending)),
                  run[t].processed)
<1> DEFINE r == run[t]
           less == Len(r.batch) + Len(r.pending)
           q == [r EXCEPT !.pc = "settle", !.received = LessReceived(@, less)]
<1>1. GoOn(t, q)
  BY DEF CleanupDone, BatchCount
<1>2. r \in RunType
  BY RunFieldsType
<1> HIDE DEF r
<1>3. /\ q.pc = "settle" /\ q.pending = r.pending /\ q.batch = r.batch
      /\ q.received = LessReceived(r.received, less) /\ q.processed = r.processed
  BY <1>2 DEF RunType
<1> HIDE DEF q
<1>4. Counts(t, q.pc, Len(q.pending), Len(q.batch), q.received, q.processed)
  BY <1>1, GoOnCounts
<1> QED
  BY <1>3, <1>4 DEF r

\* What each step does to the task's row.
Saves(t, status, attempts, received, processed) ==
    /\ \A u \in Tasks \ {t} : row'[u] = row[u]
    /\ row'[t].status = status /\ row'[t].attempts = attempts
    /\ row'[t].received = received /\ row'[t].processed = processed

LEMMA RowSaves ==
    ASSUME TypeOK, NEW t \in Tasks
    PROVE  /\ SaveCounters(t) => Saves(t, row[t].status, row[t].attempts,
                                       run[t].received, run[t].processed)
           /\ Claim(t) => Saves(t, "RUNNING", row[t].attempts + 1,
                                row[t].received, row[t].processed)
           /\ Reclaim(t) => Saves(t, "PENDING", row[t].attempts,
                                  row[t].received, row[t].processed)
           /\ SaveOutcome(t) => Saves(t, run[t].outcome, row[t].attempts,
                                      run[t].received, run[t].processed)
BY DEF TypeOK, SaveCounters, Claim, Reclaim, SaveOutcome, Saves

LEMMA CountTypes ==
    ASSUME TypeOK, NEW t \in Tasks
    PROVE  /\ row[t].attempts \in Nat /\ row[t].received \in Nat
           /\ row[t].processed \in Nat /\ row[t].status \in Statuses
           /\ run[t].received \in Nat /\ run[t].processed \in Nat
           /\ Len(run[t].pending) \in Nat /\ Len(run[t].batch) \in Nat
BY RunFieldsType DEF TypeOK, Statuses

\* A row that was never claimed counts nothing, and no handler has it.
UnclaimedIsEmpty(t) ==
    row[t].attempts = 0 =>
        row[t].status = "PENDING" /\ row[t].received = 0 /\ row[t].processed = 0

\* A task in the hands of a handler is not claimed again.
HeldIsRunning(t) == run[t].pc # "idle" => row[t].status = "RUNNING"

LoopPlaces == {"loop", "received", "batch", "processed"}
BatchPlaces == {"request", "extract", "uploaded", "cleanup", "unrecord"}

\* The handler has received what it processed and what it has in hand, and in
\* the first execution nothing else.
InHand(t) ==
    Len(run[t].pending) + (IF run[t].pc \in BatchPlaces THEN Len(run[t].batch) ELSE 0)

HandIsReceived(t) ==
    run[t].pc \in LoopPlaces \cup BatchPlaces =>
        /\ run[t].processed + InHand(t) <= run[t].received
        /\ row[t].attempts = 1 => run[t].processed + InHand(t) = run[t].received

OutcomeAgrees(t) ==
    run[t].pc = "settle" =>
        /\ run[t].processed <= run[t].received
        /\ run[t].outcome = "SUCCESS" /\ row[t].attempts = 1
               => run[t].processed = run[t].received

RowAgrees(t) ==
    /\ row[t].processed <= row[t].received
    /\ row[t].status = "SUCCESS" /\ row[t].attempts = 1
           => row[t].processed = row[t].received

TaskCounters(t) ==
    /\ UnclaimedIsEmpty(t) /\ HeldIsRunning(t)
    /\ HandIsReceived(t) /\ OutcomeAgrees(t) /\ RowAgrees(t)

CountersInv == TypesInv /\ \A t \in Tasks : TaskCounters(t)

LEMMA HandCounts ==
    ASSUME NEW t \in Tasks
    PROVE  /\ run[t].pc \in LoopPlaces => InHand(t) = Len(run[t].pending) + 0
           /\ run[t].pc \in BatchPlaces
                  => InHand(t) = Len(run[t].pending) + Len(run[t].batch)
BY DEF InHand, LoopPlaces, BatchPlaces

LEMMA HandCountsNext ==
    ASSUME NEW t \in Tasks
    PROVE  /\ run'[t].pc \in LoopPlaces => InHand(t)' = Len(run'[t].pending) + 0
           /\ run'[t].pc \in BatchPlaces
                  => InHand(t)' = Len(run'[t].pending) + Len(run'[t].batch)
BY DEF InHand, LoopPlaces, BatchPlaces

\* A step of the loop that leaves status and attempts alone: what remains to
\* show is the account.
LEMMA LoopStep ==
    ASSUME CountersInv, NEW t \in Tasks,
           run[t].pc # "idle",
           run'[t].pc \in LoopPlaces \cup BatchPlaces,
           row'[t].status = row[t].status, row'[t].attempts = row[t].attempts,
           RowAgrees(t)', HandIsReceived(t)'
    PROVE  TaskCounters(t)'
<1>1. TaskCounters(t)
  BY DEF CountersInv
<1>2. run'[t].pc \notin {"idle", "settle"}
  BY DEF LoopPlaces, BatchPlaces
<1> QED
  BY <1>1, <1>2
     DEF TaskCounters, UnclaimedIsEmpty, HeldIsRunning, OutcomeAgrees

LEMMA InitCounters == Init => CountersInv
<1> SUFFICES ASSUME Init PROVE CountersInv
  OBVIOUS
<1>1. \A t \in Tasks : run[t].pc = "idle"
  BY DEF Init, NoRun
<1>2. \A t \in Tasks : row[t].status = "PENDING" /\ row[t].received = 0
                       /\ row[t].processed = 0
  BY DEF Init
<1>3. \A t \in Tasks : TaskCounters(t)
  BY <1>1, <1>2
     DEF TaskCounters, UnclaimedIsEmpty, HeldIsRunning, HandIsReceived,
         OutcomeAgrees, RowAgrees, LoopPlaces, BatchPlaces
<1> QED
  BY <1>3, InitTypes DEF CountersInv

\* A step that counts nothing and leaves the row alone.
LEMMA KeptCounters ==
    ASSUME CountersInv, NEW t \in Tasks, KeepsCounts(t), UNCHANGED row,
           \/ run[t].pc \in LoopPlaces /\ run'[t].pc \in LoopPlaces
           \/ run[t].pc \in BatchPlaces /\ run'[t].pc \in BatchPlaces
           \/ /\ run[t].pc \in LoopPlaces /\ run'[t].pc = "settle"
              /\ run'[t].outcome # "SUCCESS" \/ Len(run[t].pending) = 0
    PROVE  TaskCounters(t)'
<1> USE DEF CountersInv, TypesInv
<1>1. TaskCounters(t)
  OBVIOUS
<1>2. /\ Len(run'[t].pending) = Len(run[t].pending)
      /\ Len(run'[t].batch) = Len(run[t].batch)
      /\ run'[t].received = run[t].received /\ run'[t].processed = run[t].processed
  BY DEF KeepsCounts, Counts
<1>3. RowAgrees(t)' /\ run[t].pc # "idle"
  BY <1>1 DEF TaskCounters, RowAgrees, LoopPlaces, BatchPlaces
<1>4. CASE run'[t].pc = "settle"
  <2>1. run[t].pc \in LoopPlaces
        /\ (run'[t].outcome # "SUCCESS" \/ Len(run[t].pending) = 0)
    BY <1>4 DEF LoopPlaces, BatchPlaces
  <2>2. /\ run[t].processed + Len(run[t].pending) <= run[t].received
        /\ row[t].attempts = 1
              => run[t].processed + Len(run[t].pending) = run[t].received
    <3>1. InHand(t) = Len(run[t].pending) + 0
      BY <2>1, HandCounts
    <3>2. InHand(t) = Len(run[t].pending)
      BY <3>1, CountTypes
    <3> QED
      BY <1>1, <2>1, <3>2 DEF TaskCounters, HandIsReceived
  <2>3. OutcomeAgrees(t)'
    BY <1>2, <2>1, <2>2, CountTypes DEF OutcomeAgrees
  <2> QED
    BY <1>1, <1>3, <1>4, <2>3
       DEF TaskCounters, UnclaimedIsEmpty, HeldIsRunning, HandIsReceived,
           LoopPlaces, BatchPlaces
<1>5. CASE run'[t].pc # "settle"
  <2>1. InHand(t)' = InHand(t) /\ run[t].pc \in LoopPlaces \cup BatchPlaces
    BY <1>2, <1>5, HandCounts, HandCountsNext
  <2>2. HandIsReceived(t)'
    BY <1>1, <1>2, <2>1 DEF TaskCounters, HandIsReceived
  <2> QED
    BY <1>3, <1>5, <2>2, LoopStep
<1> QED
  BY <1>4, <1>5

\* The end of an execution, and what comes around it.
LEMMA AroundCounters ==
    ASSUME CountersInv, NEW t \in Tasks,
           \/ Claim(t) \/ Reclaim(t) \/ Crash(t) \/ SaveOutcome(t)
           \/ SaveOutcomeError(t) \/ SaveRefused(t)
    PROVE  TaskCounters(t)'
<1> USE DEF CountersInv, TypesInv, LoopPlaces, BatchPlaces
<1>1. TaskCounters(t)
  OBVIOUS
<1>2. CASE Claim(t)
  <2>1. /\ run'[t].pc = "loop" /\ Len(run'[t].pending) = 0
        /\ run'[t].received = row[t].received /\ run'[t].processed = row[t].processed
    BY <1>2, ClaimCounts DEF Counts
  <2>2. /\ row'[t].status = "RUNNING" /\ row'[t].attempts = row[t].attempts + 1
        /\ row'[t].received = row[t].received /\ row'[t].processed = row[t].processed
    BY <1>2, RowSaves DEF Saves
  <2>3. InHand(t)' = 0
    <3>1. InHand(t)' = Len(run'[t].pending) + 0
      BY <2>1, HandCountsNext
    <3> QED
      BY <2>1, <3>1
  <2>4. /\ row[t].processed <= row[t].received
        /\ row[t].attempts = 0 => row[t].processed = row[t].received
    BY <1>1 DEF TaskCounters, UnclaimedIsEmpty, RowAgrees
  <2>5. HandIsReceived(t)' /\ RowAgrees(t)' /\ UnclaimedIsEmpty(t)'
    BY <2>1, <2>2, <2>3, <2>4, CountTypes
       DEF HandIsReceived, RowAgrees, UnclaimedIsEmpty
  <2> QED
    BY <2>1, <2>2, <2>5 DEF TaskCounters, HeldIsRunning, OutcomeAgrees
<1>3. CASE Reclaim(t)
  <2>1. /\ row'[t].status = "PENDING" /\ row'[t].attempts = row[t].attempts
        /\ row'[t].received = row[t].received /\ row'[t].processed = row[t].processed
        /\ run'[t].pc = "idle"
    BY <1>3, RowSaves DEF Saves, Reclaim
  <2> QED
    BY <1>1, <2>1
       DEF TaskCounters, UnclaimedIsEmpty, HeldIsRunning, HandIsReceived,
           OutcomeAgrees, RowAgrees
<1>4. CASE Crash(t) \/ SaveOutcomeError(t) \/ SaveRefused(t)
  <2>1. run'[t].pc = "idle" /\ UNCHANGED row
    BY <1>4, IdleCounts DEF Crash, SaveOutcomeError, SaveRefused, Counts
  <2> QED
    BY <1>1, <2>1
       DEF TaskCounters, UnclaimedIsEmpty, HeldIsRunning, HandIsReceived,
           OutcomeAgrees, RowAgrees
<1>5. CASE SaveOutcome(t)
  <2>1. run'[t].pc = "idle" /\ run[t].pc = "settle"
    BY <1>5, IdleCounts DEF SaveOutcome, Counts
  <2>2. /\ row'[t].status = run[t].outcome /\ row'[t].attempts = row[t].attempts
        /\ row'[t].received = run[t].received /\ row'[t].processed = run[t].processed
    BY <1>5, RowSaves DEF Saves
  <2> QED
    BY <1>1, <2>1, <2>2, CountTypes
       DEF TaskCounters, UnclaimedIsEmpty, HeldIsRunning, HandIsReceived,
           OutcomeAgrees, RowAgrees
<1> QED
  BY <1>2, <1>3, <1>4, <1>5

\* What is marked moves from the hand to processed.
LEMMA MarkSum ==
    ASSUME NEW processed \in Nat, NEW pending \in Nat, NEW batch \in Nat
    PROVE  (processed + batch) + (pending + 0) = processed + (pending + batch)
OBVIOUS

\* The steps that count names, and those that save the counters.
LEMMA CountingSteps ==
    ASSUME CountersInv, NEW t \in Tasks,
           \/ GetNames(t) \/ TakeBatch(t) \/ MarkDownloaded(t) \/ CleanupDone(t)
           \/ SaveReceived(t) \/ SaveProcessed(t)
    PROVE  TaskCounters(t)'
<1> USE DEF CountersInv, TypesInv, LoopPlaces, BatchPlaces
<1>0. /\ run[t].received \in Nat /\ run[t].processed \in Nat
      /\ Len(run[t].pending) \in Nat /\ Len(run[t].batch) \in Nat
  BY CountTypes
<1>1. TaskCounters(t)
  OBVIOUS
<1>2. CASE GetNames(t)
  <2>1. PICK n \in Nat :
           Counts(t, "received", Len(run[t].pending) + n, Len(run[t].batch),
                  run[t].received + n, run[t].processed)
    BY <1>2, GetNamesCounts
  <2>2. run[t].pc = "loop" /\ UNCHANGED row
    BY <1>2 DEF GetNames
  <2>3. InHand(t)' = InHand(t) + n /\ InHand(t) \in Nat
    <3>1. /\ InHand(t) = Len(run[t].pending) + 0
          /\ InHand(t)' = Len(run'[t].pending) + 0
      BY <2>1, <2>2, HandCounts, HandCountsNext DEF Counts
    <3> QED
      BY <2>1, <3>1, CountTypes DEF Counts
  <2>4. HandIsReceived(t)'
    <3>1. /\ run[t].processed + InHand(t) <= run[t].received
          /\ row[t].attempts = 1 => run[t].processed + InHand(t) = run[t].received
      BY <1>1, <2>2 DEF TaskCounters, HandIsReceived
    <3> QED
      BY <2>1, <2>2, <2>3, <3>1, CountTypes DEF Counts, HandIsReceived
  <2> QED
    BY <1>1, <2>1, <2>2, <2>4, LoopStep DEF Counts, TaskCounters, RowAgrees
<1>3. CASE TakeBatch(t)
  <2>1. PICK k \in 0..Len(run[t].pending) :
           Counts(t, "request", Len(run[t].pending) - k, k,
                  run[t].received, run[t].processed)
    BY <1>3, TakeBatchCounts
  <2>2. run[t].pc \in {"batch", "loop"} /\ UNCHANGED row
    BY <1>3 DEF TakeBatch, BatchReady
  <2>3. InHand(t)' = InHand(t)
    <3>1. /\ InHand(t) = Len(run[t].pending) + 0
          /\ InHand(t)' = Len(run'[t].pending) + Len(run'[t].batch)
      BY <2>1, <2>2, HandCounts, HandCountsNext DEF Counts
    <3> QED
      BY <2>1, <3>1, CountTypes DEF Counts
  <2>4. HandIsReceived(t)'
    BY <1>1, <2>1, <2>2, <2>3 DEF Counts, TaskCounters, HandIsReceived
  <2> QED
    BY <1>1, <2>1, <2>2, <2>4, LoopStep DEF Counts, TaskCounters, RowAgrees
<1>4. CASE MarkDownloaded(t)
  <2>1. run[t].pc = "extract" /\ UNCHANGED row
    BY <1>4 DEF MarkDownloaded
  <2>2. Counts(t, "processed", Len(run[t].pending), Len(run[t].batch),
               run[t].received, run[t].processed + Len(run[t].batch))
    BY <1>4, MarkCounts
  <2>3. run'[t].processed + InHand(t)' = run[t].processed + InHand(t)
    <3>1. /\ InHand(t) = Len(run[t].pending) + Len(run[t].batch)
          /\ InHand(t)' = Len(run'[t].pending) + 0
      BY <2>1, <2>2, HandCounts, HandCountsNext DEF Counts
    <3>2. /\ run'[t].processed = run[t].processed + Len(run[t].batch)
          /\ Len(run'[t].pending) = Len(run[t].pending)
      BY <2>2 DEF Counts
    <3>3. (run[t].processed + Len(run[t].batch)) + (Len(run[t].pending) + 0)
            = run[t].processed + (Len(run[t].pending) + Len(run[t].batch))
      BY <1>0, MarkSum, Zenon
    <3> QED
      BY <3>1, <3>2, <3>3, Zenon
  <2>4. HandIsReceived(t)'
    BY <1>1, <2>1, <2>2, <2>3 DEF Counts, TaskCounters, HandIsReceived
  <2> QED
    BY <1>1, <2>1, <2>2, <2>4, LoopStep DEF Counts, TaskCounters, RowAgrees
<1>5. CASE CleanupDone(t)
  <2>1. run[t].pc = "cleanup" /\ UNCHANGED row
    BY <1>5 DEF CleanupDone
  <2>2. /\ run'[t].pc = "settle" /\ run'[t].processed = run[t].processed
        /\ run'[t].received
             = LessReceived(run[t].received, Len(run[t].batch) + Len(run[t].pending))
    BY <1>5, CleanupCounts DEF Counts
  <2>3. /\ run[t].processed + (Len(run[t].pending) + Len(run[t].batch))
             <= run[t].received
        /\ row[t].attempts = 1
             => run[t].processed + (Len(run[t].pending) + Len(run[t].batch))
                  = run[t].received
    BY <1>1, <2>1, HandCounts DEF TaskCounters, HandIsReceived
  <2>4. OutcomeAgrees(t)'
    <3>1. /\ run'[t].processed <= run'[t].received
          /\ row[t].attempts = 1 => run'[t].processed = run'[t].received
      <4> DEFINE p == run[t].processed
                 a == Len(run[t].pending)
                 b == Len(run[t].batch)
                 r == run[t].received
      <4>1. /\ p \in Nat /\ a \in Nat /\ b \in Nat /\ r \in Nat
            /\ p + (a + b) <= r
            /\ row[t].attempts = 1 => p + (a + b) = r
            /\ run'[t].processed = p
            /\ run'[t].received = LessReceived(r, b + a)
        BY <1>0, <2>2, <2>3
      <4> HIDE DEF p, a, b, r
      <4>2. /\ p <= LessReceived(r, b + a)
            /\ p + (a + b) = r => p = LessReceived(r, b + a)
        BY <4>1 DEF LessReceived
      <4> QED
        BY <4>1, <4>2
    <3> QED
      BY <2>1, <3>1 DEF OutcomeAgrees
  <2> QED
    BY <1>1, <2>1, <2>2, <2>4
       DEF TaskCounters, UnclaimedIsEmpty, HeldIsRunning, HandIsReceived, RowAgrees
<1>6. CASE SaveReceived(t) \/ SaveProcessed(t)
  <2>1. KeepsCounts(t) /\ run'[t].pc \in {"batch", "loop"}
    BY <1>6, PcCounts, PcMoves DEF SaveReceived, SaveProcessed, MovesTo, EndsWith, Moves
  <2>2. Saves(t, row[t].status, row[t].attempts, run[t].received, run[t].processed)
    BY <1>6, RowSaves DEF SaveReceived, SaveProcessed
  <2>3. run[t].pc \in {"received", "processed"}
    BY <1>6 DEF SaveReceived, SaveProcessed
  <2>4. InHand(t)' = InHand(t) /\ InHand(t) \in Nat
    <3>1. /\ InHand(t) = Len(run[t].pending) + 0
          /\ InHand(t)' = Len(run'[t].pending) + 0
      BY <2>1, <2>3, HandCounts, HandCountsNext
    <3> QED
      BY <2>1, <3>1, CountTypes DEF KeepsCounts, Counts
  <2>5. HandIsReceived(t)'
    BY <1>1, <2>1, <2>2, <2>3, <2>4
       DEF KeepsCounts, Counts, Saves, TaskCounters, HandIsReceived
  <2>6. RowAgrees(t)'
    <3>1. run[t].processed <= run[t].received
      BY <1>1, <2>3, <2>4, CountTypes DEF TaskCounters, HandIsReceived
    <3>2. row[t].status = "RUNNING"
      BY <1>1, <2>3 DEF TaskCounters, HeldIsRunning
    <3> QED
      BY <2>2, <3>1, <3>2 DEF Saves, RowAgrees
  <2> QED
    BY <2>1, <2>2, <2>3, <2>5, <2>6, LoopStep DEF Saves
<1> QED
  BY <1>2, <1>3, <1>4, <1>5, <1>6

\* The other steps: files come and go, or something fails.
LEMMA KeepingSteps ==
    ASSUME CountersInv, NEW t \in Tasks,
           \/ RequestArchive(t) \/ RecordFile(t) \/ DeleteRecord(t) \/ NoMoreNames(t)
           \/ \E n \in Names : SkipFile(t, n) \/ UploadFile(t, n) \/ DeleteObject(t, n)
           \/ GetNamesError(t) \/ SaveCountersError(t) \/ RequestArchiveError(t)
           \/ RequestOtherArchive(t) \/ ExtractError(t) \/ MarkError(t)
    PROVE  TaskCounters(t)'
<1> USE DEF CountersInv, TypesInv
<1>1. CASE \/ RequestArchive(t) \/ RequestOtherArchive(t) \/ RecordFile(t)
           \/ DeleteRecord(t)
  <2>1. KeepsCounts(t) /\ UNCHANGED row
    BY <1>1, FileCounts, PcCounts
       DEF RequestArchive, RequestOtherArchive, RecordFile, DeleteRecord
  <2>2. run[t].pc \in BatchPlaces /\ run'[t].pc \in BatchPlaces
    BY <1>1, ArchiveMoves, OtherArchiveMoves, RecordMoves, PcMoves
       DEF RequestArchive, RequestOtherArchive, RecordFile, DeleteRecord,
           MovesTo, EndsWith, Moves, BatchPlaces
  <2> QED
    BY <2>1, <2>2, KeptCounters
<1>2. ASSUME NEW n \in Names, SkipFile(t, n) \/ UploadFile(t, n) \/ DeleteObject(t, n)
      PROVE  TaskCounters(t)'
  <2>1. KeepsCounts(t) /\ UNCHANGED row
    BY <1>2, FileCounts DEF SkipFile, UploadFile, DeleteObject
  <2>2. run[t].pc \in BatchPlaces /\ run'[t].pc \in BatchPlaces
    BY <1>2, SkipMoves, UploadMoves, DeleteMoves
       DEF SkipFile, UploadFile, DeleteObject, Moves, BatchPlaces
  <2> QED
    BY <2>1, <2>2, KeptCounters
<1>3. CASE RequestArchiveError(t) \/ ExtractError(t) \/ MarkError(t)
  <2>1. KeepsCounts(t) /\ UNCHANGED row
    BY <1>3, SettleCounts DEF RequestArchiveError, ExtractError, MarkError
  <2>2. run[t].pc \in BatchPlaces /\ run'[t].pc \in BatchPlaces
    BY <1>3, AbortMoves
       DEF RequestArchiveError, ExtractError, MarkError, EndsWith, Moves, BatchPlaces
  <2> QED
    BY <2>1, <2>2, KeptCounters
<1>4. CASE GetNamesError(t) \/ SaveCountersError(t)
  <2>1. KeepsCounts(t) /\ UNCHANGED row
    BY <1>4, SettleCounts DEF GetNamesError, SaveCountersError
  <2>2. /\ run[t].pc \in LoopPlaces /\ run'[t].pc = "settle"
        /\ run'[t].outcome # "SUCCESS"
    BY <1>4, SettleMoves
       DEF GetNamesError, SaveCountersError, EndsWith, Moves, LoopPlaces
  <2> QED
    BY <2>1, <2>2, KeptCounters
<1>5. CASE NoMoreNames(t)
  <2>1. KeepsCounts(t) /\ UNCHANGED row /\ Len(run[t].pending) = 0
    BY <1>5, SettleCounts DEF NoMoreNames
  <2>2. run[t].pc \in LoopPlaces /\ run'[t].pc = "settle"
    BY <1>5, SettleMoves DEF NoMoreNames, EndsWith, Moves, LoopPlaces
  <2> QED
    BY <2>1, <2>2, KeptCounters
<1> QED
  BY <1>1, <1>2, <1>3, <1>4, <1>5

\* A step of one task leaves the others alone.
LEMMA OtherTasks ==
    ASSUME TypesInv, NEW t \in Tasks, NEW u \in Tasks \ {t},
           Claim(t) \/ Reclaim(t) \/ Work(t) \/ Failure(t) \/ Crash(t)
    PROVE  row'[u] = row[u] /\ run'[u] = run[u]
<1> USE DEF TypesInv
<1>1. row'[u] = row[u]
  BY RowSaves
     DEF Saves, Crash, Work, Failure, GetNames, NoMoreNames, SaveReceived,
         SaveProcessed, TakeBatch, RequestArchive, RecordFile, MarkDownloaded,
         SkipFile, UploadFile, DeleteObject, DeleteRecord, CleanupDone,
         GetNamesError, SaveCountersError, RequestArchiveError,
         RequestOtherArchive, ExtractError, MarkError, SaveOutcomeError, SaveRefused
<1>2. run'[u] = run[u]
  <2>1. Reclaim(t) \/ \E r : GoOn(t, r)
    BY DEF Claim, Reclaim, Crash, Work, Failure, Settle, Abort, GetNames,
           NoMoreNames, SaveReceived, SaveProcessed, SaveOutcome, TakeBatch,
           RequestArchive, RecordFile, MarkDownloaded, SkipFile, UploadFile,
           DeleteObject, DeleteRecord, CleanupDone, GetNamesError,
           SaveCountersError, RequestArchiveError, RequestOtherArchive,
           ExtractError, MarkError, SaveOutcomeError, SaveRefused
  <2> QED
    BY <2>1 DEF Reclaim, GoOn, TypeOK
<1> QED
  BY <1>1, <1>2

LEMMA CountersNext == CountersInv /\ [Next]_vars => CountersInv'
<1> SUFFICES ASSUME CountersInv, [Next]_vars PROVE CountersInv'
  OBVIOUS
<1>1. TypesInv'
  BY TypesNext DEF CountersInv
<1>2. ASSUME NEW t \in Tasks,
             Claim(t) \/ Reclaim(t) \/ Work(t) \/ Failure(t) \/ Crash(t)
      PROVE  \A u \in Tasks : TaskCounters(u)'
  <2>1. TaskCounters(t)'
    BY <1>2, AroundCounters, CountingSteps, KeepingSteps DEF Work, Failure
  <2>2. ASSUME NEW u \in Tasks \ {t}
        PROVE  TaskCounters(u)'
    <3>1. row'[u] = row[u] /\ run'[u] = run[u] /\ TaskCounters(u)
      BY <1>2, OtherTasks DEF CountersInv
    <3> QED
      BY <3>1
         DEF TaskCounters, UnclaimedIsEmpty, HeldIsRunning, HandIsReceived, InHand,
             OutcomeAgrees, RowAgrees
  <2> QED
    BY <2>1, <2>2
<1>3. ASSUME NEW u \in Tasks, UNCHANGED vars
      PROVE  TaskCounters(u)'
  BY <1>3
     DEF vars, CountersInv, TaskCounters, UnclaimedIsEmpty, HeldIsRunning,
         HandIsReceived, InHand, OutcomeAgrees, RowAgrees
<1> QED
  BY <1>1, <1>2, <1>3 DEF Next, CountersInv

\* For any tasks, names, batch size and faults, concurrent tasks included:
\* processed_files never exceeds received_files, and a task that succeeds in
\* its first execution has processed what it received.
THEOREM CountersAlwaysAgree == Spec => []CountersAgree
<1>1. CountersInv => CountersAgree
  BY DEF CountersInv, TaskCounters, RowAgrees, CountersAgree
<1> QED
  BY <1>1, InitCounters, CountersNext, PTL DEF Spec

-----------------------------------------------------------------------------
(* The contract. *)

\* What a handler saves at its end was decided when it left the loop.
OutcomeIsDecided(t) ==
    run[t].pc \in {"cleanup", "unrecord", "settle"} =>
        run[t].outcome \in {"SUCCESS", "FAILED", "BLOCKED"}

ContractInv == CountersInv /\ \A t \in Tasks : OutcomeIsDecided(t)

LEMMA StatusTypes ==
    ASSUME TypeOK, NEW t \in Tasks
    PROVE  /\ SaveCounters(t) => row'[t].status = row[t].status
           /\ Claim(t) => row'[t].status = "RUNNING"
           /\ Reclaim(t) => row'[t].status = "PENDING"
           /\ SaveOutcome(t) => row'[t].status = run[t].outcome
BY DEF TypeOK, SaveCounters, Claim, Reclaim, SaveOutcome

\* Inside an execution the status of the row stays, and what is decided.
StaysInside(t) ==
    /\ run[t].pc # "idle"
    /\ row'[t].status = row[t].status
    /\ OutcomeIsDecided(t) => OutcomeIsDecided(t)'

LEMMA UndecidedStep ==
    ASSUME NEW t \in Tasks, run[t].pc # "idle", row'[t].status = row[t].status,
           \/ run'[t].pc \notin {"cleanup", "unrecord", "settle"}
           \/ run'[t].outcome \in {"SUCCESS", "FAILED", "BLOCKED"}
           \/ /\ run[t].pc \in {"cleanup", "unrecord", "settle"}
              /\ run'[t].outcome = run[t].outcome
    PROVE  StaysInside(t)
BY DEF StaysInside, OutcomeIsDecided

LEMMA FailureStays ==
    ASSUME TypesInv, NEW t \in Tasks, Failure(t)
    PROVE  StaysInside(t)
<1>1. run[t].pc # "idle" /\ row' = row
  BY DEF Failure, GetNamesError, SaveCountersError, RequestArchiveError,
         RequestOtherArchive, ExtractError, MarkError, SaveOutcomeError
<1>2. \/ run'[t].pc \notin {"cleanup", "unrecord", "settle"}
      \/ run'[t].outcome \in {"SUCCESS", "FAILED", "BLOCKED"}
  <2>1. CASE \E outcome \in {"FAILED", "BLOCKED"} :
                EndsWith(t, "settle", outcome) \/ EndsWith(t, "cleanup", outcome)
    BY <2>1 DEF EndsWith, Moves
  <2>2. CASE Moves(t, "idle", <<>>, {}, {}, "", "RUNNING")
    BY <2>2 DEF Moves
  <2>3. CASE \E held \in SUBSET Names :
                Moves(t, "extract", run[t].batch, held,
                      run[t].kept, run[t].file, run[t].outcome)
    BY <2>3 DEF Moves
  <2> QED
    BY <2>1, <2>2, <2>3, FailureMoves DEF TypesInv
<1> QED
  BY <1>1, <1>2, UndecidedStep

LEMMA WorkStays ==
    ASSUME TypesInv, NEW t \in Tasks, Work(t), ~SaveOutcome(t)
    PROVE  StaysInside(t)
<1> USE DEF TypesInv
<1>1. CASE SaveReceived(t) \/ SaveProcessed(t)
  <2>1. run'[t].pc \in {"batch", "loop"}
    BY <1>1, PcMoves DEF SaveReceived, SaveProcessed, MovesTo, EndsWith, Moves
  <2>2. row'[t].status = row[t].status /\ run[t].pc # "idle"
    BY <1>1, StatusTypes DEF SaveReceived, SaveProcessed
  <2> QED
    BY <2>1, <2>2, UndecidedStep
<1>2. CASE NoMoreNames(t)
  <2>1. run'[t].outcome = "SUCCESS"
    BY <1>2, SettleMoves DEF NoMoreNames, EndsWith, Moves
  <2>2. row' = row /\ run[t].pc # "idle"
    BY <1>2 DEF NoMoreNames
  <2> QED
    BY <2>1, <2>2, UndecidedStep
<1>3. CASE GetNames(t) \/ TakeBatch(t) \/ RequestArchive(t) \/ RecordFile(t) \/ MarkDownloaded(t)
  <2>1. run'[t].pc \in {"received", "request", "extract", "processed"}
    BY <1>3, GetNamesMoves, TakeBatchMoves, ArchiveMoves, RecordMoves, MarkMoves
       DEF MovesTo, EndsWith, Moves
  <2>2. run[t].pc # "idle" /\ row' = row
    BY <1>3 DEF GetNames, TakeBatch, BatchReady, RequestArchive, RecordFile, MarkDownloaded
  <2> QED
    BY <2>1, <2>2, UndecidedStep
<1>4. ASSUME NEW n \in Names, SkipFile(t, n) \/ UploadFile(t, n)
      PROVE  StaysInside(t)
  <2>1. run'[t].pc \in {"extract", "uploaded"}
    BY <1>4, SkipMoves, UploadMoves DEF Moves
  <2>2. run[t].pc # "idle" /\ row' = row
    BY <1>4 DEF SkipFile, UploadFile
  <2> QED
    BY <2>1, <2>2, UndecidedStep
<1>5. ASSUME NEW n \in Names, DeleteObject(t, n)
      PROVE  StaysInside(t)
  <2>1. run'[t].outcome = run[t].outcome
    BY <1>5, DeleteMoves DEF Moves
  <2>2. run[t].pc = "cleanup" /\ row' = row
    BY <1>5 DEF DeleteObject
  <2> QED
    BY <2>1, <2>2, UndecidedStep
<1>6. CASE DeleteRecord(t) \/ CleanupDone(t)
  <2>1. run'[t].outcome = run[t].outcome
    BY <1>6, PcMoves, CleanupDoneMoves DEF DeleteRecord, MovesTo, EndsWith, Moves
  <2>2. run[t].pc \in {"cleanup", "unrecord"} /\ row' = row
    BY <1>6 DEF DeleteRecord, CleanupDone
  <2> QED
    BY <2>1, <2>2, UndecidedStep
<1>7. CASE SaveRefused(t)
  <2>1. run'[t].pc = "idle"
    BY <1>7, IdleMoves DEF SaveRefused, Moves
  <2>2. run[t].pc # "idle" /\ row' = row
    BY <1>7 DEF SaveRefused
  <2> QED
    BY <2>1, <2>2, UndecidedStep
<1> QED
  BY <1>1, <1>2, <1>3, <1>4, <1>5, <1>6, <1>7 DEF Work

\* The state of the contract.
StatusNow == [t \in Tasks |-> row[t].status]
OwnerNow == [t \in Tasks |-> IF row[t].status = "PENDING" THEN "none" ELSE "worker"]
ExecutorsNow == [t \in Tasks |-> IF run[t].pc = "idle" THEN {} ELSE {"worker"}]

LEMMA ViewVars ==
    UNCHANGED <<StatusNow, OwnerNow, ExecutorsNow>> => UNCHANGED Contract!vars
BY DEF Contract!vars, StatusNow, OwnerNow, ExecutorsNow

LEMMA ViewNext ==
    ASSUME NEW t \in Tasks,
           \A u \in Tasks \ {t} : row'[u] = row[u] /\ run'[u] = run[u]
    PROVE  /\ StatusNow' = [StatusNow EXCEPT ![t] = row'[t].status]
           /\ row'[t].status = row[t].status => OwnerNow' = OwnerNow
           /\ OwnerNow' = [OwnerNow EXCEPT ![t] =
                               IF row'[t].status = "PENDING" THEN "none" ELSE "worker"]
           /\ ExecutorsNow' = [ExecutorsNow EXCEPT ![t] =
                                   IF run'[t].pc = "idle" THEN {} ELSE {"worker"}]
BY DEF StatusNow, OwnerNow, ExecutorsNow

LEMMA ClaimContract ==
    ASSUME ContractInv, NEW t \in Tasks, Claim(t),
           \A u \in Tasks \ {t} : row'[u] = row[u] /\ run'[u] = run[u]
    PROVE  Contract!Next
<1> USE DEF ContractInv, CountersInv, TypesInv
<1>1. row[t].status = "PENDING" /\ run[t].pc = "idle"
  BY DEF Claim, TaskCounters, HeldIsRunning
<1>2. row'[t].status = "RUNNING" /\ run'[t].pc = "loop"
  BY StatusTypes, ClaimMoves DEF Moves
<1>3. /\ StatusNow[t] = "PENDING" /\ ExecutorsNow[t] = {}
      /\ StatusNow' = [StatusNow EXCEPT ![t] = "RUNNING"]
      /\ OwnerNow' = [OwnerNow EXCEPT ![t] = "worker"]
      /\ ExecutorsNow' = [ExecutorsNow EXCEPT ![t] = {"worker"}]
  BY <1>1, <1>2, ViewNext DEF StatusNow, ExecutorsNow
<1>4. Contract!Claim(t, "worker")
  BY <1>3 DEF Contract!Claim, StatusNow, OwnerNow, ExecutorsNow
<1> QED
  BY <1>4 DEF Contract!Next

LEMMA ReclaimContract ==
    ASSUME ContractInv, NEW t \in Tasks, Reclaim(t),
           \A u \in Tasks \ {t} : row'[u] = row[u] /\ run'[u] = run[u]
    PROVE  Contract!Next
<1> USE DEF ContractInv, CountersInv, TypesInv
<1>1. row[t].status \in {"RUNNING", "BLOCKED"} /\ run[t].pc = "idle" /\ run' = run
  BY DEF Reclaim
<1>2. row'[t].status = "PENDING"
  BY StatusTypes
<1>3. /\ StatusNow[t] \in {"RUNNING", "BLOCKED"} /\ ExecutorsNow[t] = {}
      /\ StatusNow' = [StatusNow EXCEPT ![t] = "PENDING"]
      /\ OwnerNow' = [OwnerNow EXCEPT ![t] = "none"]
      /\ ExecutorsNow' = ExecutorsNow
  BY <1>1, <1>2, ViewNext DEF StatusNow, ExecutorsNow
<1>4. /\ \A u \in {t} : StatusNow[u] \in {"RUNNING", "BLOCKED"} /\ ExecutorsNow[u] = {}
      /\ StatusNow' = [u \in Tasks |-> IF u \in {t} THEN "PENDING" ELSE StatusNow[u]]
      /\ OwnerNow' = [u \in Tasks |-> IF u \in {t} THEN "none" ELSE OwnerNow[u]]
  BY <1>3 DEF StatusNow, OwnerNow
<1>5. Contract!Return({t})
  BY <1>3, <1>4 DEF Contract!Return, StatusNow, OwnerNow, ExecutorsNow
<1> QED
  BY <1>5 DEF Contract!Next

LEMMA OutcomeContract ==
    ASSUME ContractInv, NEW t \in Tasks, SaveOutcome(t),
           \A u \in Tasks \ {t} : row'[u] = row[u] /\ run'[u] = run[u]
    PROVE  Contract!Next
<1> USE DEF ContractInv, CountersInv, TypesInv
<1>1. /\ row[t].status = "RUNNING" /\ run[t].pc # "idle"
      /\ run[t].outcome \in {"SUCCESS", "FAILED", "BLOCKED"}
  BY DEF SaveOutcome, TaskCounters, HeldIsRunning, OutcomeIsDecided
<1> PICK outcome \in {"SUCCESS", "FAILED", "BLOCKED"} : run[t].outcome = outcome
  BY <1>1
<1>2. row'[t].status = outcome /\ run'[t].pc = "idle"
  BY StatusTypes, IdleMoves DEF SaveOutcome, Moves
<1>3. /\ StatusNow[t] = "RUNNING" /\ OwnerNow[t] = "worker" /\ ExecutorsNow[t] = {"worker"}
      /\ StatusNow' = [StatusNow EXCEPT ![t] = outcome]
      /\ ExecutorsNow' = [ExecutorsNow EXCEPT ![t] = {}]
  BY <1>1, <1>2, ViewNext DEF StatusNow, OwnerNow, ExecutorsNow
<1>4. OwnerNow' = OwnerNow
  <2>1. OwnerNow' = [OwnerNow EXCEPT ![t] = "worker"]
    BY <1>1, <1>2, ViewNext
  <2> QED
    BY <1>3, <2>1 DEF OwnerNow
<1>5. Contract!Settle(t, "worker", outcome)
  BY <1>3, <1>4 DEF Contract!Settle, StatusNow, OwnerNow, ExecutorsNow
<1> QED
  BY <1>5 DEF Contract!Next

LEMMA InsideContract ==
    ASSUME ContractInv, NEW t \in Tasks, StaysInside(t),
           \A u \in Tasks \ {t} : row'[u] = row[u] /\ run'[u] = run[u]
    PROVE  Contract!Next \/ UNCHANGED Contract!vars
<1> USE DEF ContractInv, CountersInv, TypesInv
<1>1. row[t].status = "RUNNING" /\ run[t].pc # "idle" /\ row'[t].status = row[t].status
  BY DEF StaysInside, TaskCounters, HeldIsRunning
<1>2. /\ StatusNow[t] = "RUNNING" /\ OwnerNow[t] = "worker" /\ ExecutorsNow[t] = {"worker"}
      /\ StatusNow' = StatusNow /\ OwnerNow' = OwnerNow
  BY <1>1, ViewNext DEF StatusNow, OwnerNow, ExecutorsNow
<1>3. CASE run'[t].pc = "idle"
  <2>1. ExecutorsNow' = [ExecutorsNow EXCEPT ![t] = {}]
    BY <1>3, ViewNext
  <2>2. Contract!Abandon(t, "worker")
    BY <1>2, <2>1 DEF Contract!Abandon, StatusNow, OwnerNow, ExecutorsNow
  <2> QED
    BY <2>2 DEF Contract!Next
<1>4. CASE run'[t].pc # "idle"
  <2>1. ExecutorsNow' = [ExecutorsNow EXCEPT ![t] = {"worker"}]
    BY <1>4, ViewNext
  <2>2. ExecutorsNow' = ExecutorsNow
    BY <1>2, <2>1 DEF ExecutorsNow
  <2> QED
    BY <1>2, <2>2, ViewVars
<1> QED
  BY <1>3, <1>4

LEMMA ContractInvNext == ContractInv /\ [Next]_vars => ContractInv'
<1> SUFFICES ASSUME ContractInv, [Next]_vars PROVE ContractInv'
  OBVIOUS
<1>1. CountersInv'
  BY CountersNext DEF ContractInv
<1>2. ASSUME NEW t \in Tasks,
             Claim(t) \/ Reclaim(t) \/ Work(t) \/ Failure(t) \/ Crash(t)
      PROVE  \A u \in Tasks : OutcomeIsDecided(u)'
  <2>1. OutcomeIsDecided(t)'
    <3>1. CASE Claim(t)
      BY <3>1, ClaimMoves DEF ContractInv, CountersInv, TypesInv, Moves, OutcomeIsDecided
    <3>2. CASE SaveOutcome(t) \/ Crash(t)
      BY <3>2, IdleMoves
         DEF ContractInv, CountersInv, TypesInv, Moves, SaveOutcome, Crash, OutcomeIsDecided
    <3>3. CASE Reclaim(t)
      BY <3>3 DEF Reclaim, ContractInv, OutcomeIsDecided
    <3>4. CASE (Work(t) /\ ~SaveOutcome(t)) \/ Failure(t)
      BY <3>4, WorkStays, FailureStays DEF ContractInv, CountersInv, StaysInside
    <3> QED
      BY <1>2, <3>1, <3>2, <3>3, <3>4
  <2>2. ASSUME NEW u \in Tasks \ {t}
        PROVE  OutcomeIsDecided(u)'
    BY <1>2, OtherTasks DEF ContractInv, CountersInv, OutcomeIsDecided
  <2> QED
    BY <2>1, <2>2
<1>3. ASSUME NEW u \in Tasks, UNCHANGED vars
      PROVE  OutcomeIsDecided(u)'
  BY <1>3 DEF vars, ContractInv, OutcomeIsDecided
<1> QED
  BY <1>1, <1>2, <1>3 DEF Next, ContractInv

LEMMA NextContract ==
    ASSUME ContractInv, [Next]_vars
    PROVE  Contract!Next \/ UNCHANGED Contract!vars
<1>1. ASSUME NEW t \in Tasks,
             Claim(t) \/ Reclaim(t) \/ Work(t) \/ Failure(t) \/ Crash(t)
      PROVE  Contract!Next \/ UNCHANGED Contract!vars
  <2>1. \A u \in Tasks \ {t} : row'[u] = row[u] /\ run'[u] = run[u]
    BY <1>1, OtherTasks DEF ContractInv, CountersInv
  <2>2. Crash(t) => StaysInside(t)
    <3> SUFFICES ASSUME Crash(t) PROVE StaysInside(t)
      OBVIOUS
    <3>1. run'[t].pc = "idle"
      BY IdleMoves DEF Crash, Moves, ContractInv, CountersInv, TypesInv
    <3>2. run[t].pc # "idle" /\ row' = row
      BY DEF Crash
    <3> QED
      BY <3>1, <3>2, UndecidedStep
  <2>3. CASE StaysInside(t)
    BY <2>1, <2>3, InsideContract
  <2>4. Work(t) => SaveOutcome(t) \/ StaysInside(t)
    BY WorkStays DEF ContractInv, CountersInv
  <2>5. Failure(t) => StaysInside(t)
    BY FailureStays DEF ContractInv, CountersInv
  <2> QED
    BY <1>1, <2>1, <2>2, <2>3, <2>4, <2>5, ClaimContract, ReclaimContract, OutcomeContract
<1>2. CASE UNCHANGED vars
  BY <1>2 DEF vars, Contract!vars
<1> QED
  BY <1>1, <1>2 DEF Next

\* For any tasks, names, batch size and faults: an execution is to the task
\* what the contract of TaskLifecycle says, one claim, no change of the status
\* while it lasts, and one outcome or none.
THEOREM ExecutionsKeepContract == Spec => KeepsContract
<1>1. Init => ContractInv
  <2>1. NoRun.pc = "idle"
    BY DEF NoRun
  <2> QED
    BY <2>1, InitCounters DEF Init, ContractInv, OutcomeIsDecided
<1>2. ContractInv /\ [Next]_vars => [Contract!Next]_(Contract!vars)
  BY NextContract
<1> QED
  BY <1>1, <1>2, ContractInvNext, PTL DEF Spec, KeepsContract
=============================================================================
