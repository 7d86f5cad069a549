----------------------------- MODULE PagesProofs -----------------------------
(***************************************************************************)
(* Proofs about the two pages.                                             *)
(*                                                                         *)
(* DownloadPage, for any set of tasks and any number of polls under way:   *)
(* its types, and that after one press of the button no interval runs that *)
(* the page does not know.  FilesPage, for any files, page sizes and       *)
(* number of loads under way: its types, that a quiet page shows the page  *)
(* its controls name, that a page's selection is shown, and that the       *)
(* window shows the numbers that were asked for last.                      *)
(***************************************************************************)
EXTENDS DownloadPage, FilesPage, SequenceTheorems, TLAPS

-----------------------------------------------------------------------------
(* Sequences. *)

\* An element removed from a sequence leaves a sequence of the same kind.
LEMMA RemoveAtType ==
    ASSUME NEW S, NEW s \in Seq(S), NEW k \in DOMAIN s
    PROVE  RemoveAt(s, k) \in Seq(S)
<1>1. k \in 1..Len(s) /\ Len(s) \in Nat
  OBVIOUS
<1>2. SubSeq(s, 1, k - 1) \in Seq(S)
  BY <1>1, SubSeqProperties
<1>3. SubSeq(s, k + 1, Len(s)) \in Seq(S)
  BY <1>1, SubSeqProperties
<1> QED
  BY <1>2, <1>3, ConcatProperties DEF RemoveAt

LEMMA InsertAtType ==
    ASSUME NEW S, NEW s \in Seq(S), NEW k \in 0..Len(s), NEW e \in S
    PROVE  InsertAt(s, k + 1, e) \in Seq(S)
<1>1. SubSeq(s, 1, (k + 1) - 1) \in Seq(S)
  BY SubSeqProperties
<1>2. SubSeq(s, k + 1, Len(s)) \in Seq(S)
  BY SubSeqProperties
<1>3. <<e>> \in Seq(S)
  OBVIOUS
<1> QED
  BY <1>1, <1>2, <1>3, ConcatProperties DEF InsertAt

LEMMA ToSetType ==
    ASSUME NEW S, NEW s \in Seq(S)
    PROVE  ToSet(s) \subseteq S
BY DEF ToSet

\* A page of a table holds rows of it, and may be empty.
LEMMA PageType ==
    ASSUME NEW S, NEW s \in Seq(S), NEW p \in Nat \ {0}, NEW n \in Nat \ {0}
    PROVE  Page(s, p, n) \in Seq(S)
<1> DEFINE last == IF p * n < Len(s) THEN p * n ELSE Len(s)
<1>1. (p - 1) * n \in Nat /\ p * n \in Nat /\ Len(s) \in Nat
  OBVIOUS
<1>2. (p - 1) * n + 1 \in Nat \ {0} /\ last \in Int /\ last <= Len(s)
  BY <1>1
<1>3. \A i \in ((p - 1) * n + 1)..last : s[i] \in S
  BY <1>2
<1> HIDE DEF last
<1>4. SubSeq(s, (p - 1) * n + 1, last) \in Seq(S)
  BY <1>2, <1>3, SubSeqProperties
<1> QED
  BY <1>4 DEF Page, last

-----------------------------------------------------------------------------
(* The download page: types. *)

\* The tasks that have a row.
InTable == {t \in Tasks : row[t] \in Statuses}

PollsOf(S) == [task : S, answer : Statuses \cup {"sent"}]

\* A task is in the table before its start is answered, and so before any
\* poll of it is sent.
PolledIsInTable ==
    /\ \A t \in Tasks : start[t] = "created" => t \in InTable
    /\ intervals \subseteq InTable
    /\ polls \in Seq(PollsOf(InTable))

TypeInv == DownloadPageTypeOK /\ PolledIsInTable

LEMMA MorePolls ==
    ASSUME NEW S, NEW T, S \subseteq T, NEW s \in Seq(PollsOf(S))
    PROVE  s \in Seq(PollsOf(T))
<1>1. PollsOf(S) \subseteq PollsOf(T)
  BY DEF PollsOf
<1>2. \A i \in 1..Len(s) : s[i] \in PollsOf(T)
  BY <1>1
<1>3. s = [i \in 1..Len(s) |-> s[i]] /\ Len(s) \in Nat
  BY SeqDef
<1> QED
  BY <1>2, <1>3

LEMMA TypeInit == DownloadPageInit => TypeInv
BY DownloadPageAssumption, EmptySeq
DEF DownloadPageInit, TypeInv, DownloadPageTypeOK, PolledIsInTable

LEMMA TypeNext == TypeInv /\ [DownloadPageNext]_downloadPage => TypeInv'
<1> SUFFICES ASSUME TypeInv, [DownloadPageNext]_downloadPage PROVE TypeInv'
  OBVIOUS
<1> USE DownloadPageAssumption DEF TypeInv, PolledIsInTable, DownloadPageTypeOK
<1>1. CASE Render
  BY <1>1 DEF Render, ClearPoll, InTable
<1>2. CASE Leave
  <2>1. intervals' \subseteq intervals /\ InTable' = InTable /\ start' = start
    BY <1>2 DEF Leave, Cleanup, InTable
  <2>2. <<>> \in Seq(PollsOf(InTable)) /\ <<>> \in Seq(PollsOf(Tasks))
    BY EmptySeq
  <2> QED
    BY <1>2, <2>1, <2>2 DEF Leave, PollsOf
<1>3. CASE ReadTask
  <2>1. PICK k \in DOMAIN polls : polls' = [polls EXCEPT ![k].answer = row[polls[k].task]]
    BY <1>3 DEF ReadTask
  <2>2. InTable' = InTable
    BY <1>3 DEF ReadTask, InTable
  <2>3. polls[k] \in PollsOf(InTable)
    BY <2>1
  <2>4. [polls[k] EXCEPT !.answer = row[polls[k].task]] \in PollsOf(InTable)
    BY <2>3 DEF PollsOf, InTable
  <2>5. polls' \in Seq(PollsOf(InTable))
    BY <2>1, <2>4, ExceptSeq
  <2>6. polls' \in Seq(PollsOf(Tasks))
    BY <2>5, MorePolls DEF InTable
  <2> QED
    BY <1>3, <2>2, <2>5, <2>6 DEF ReadTask, page, PollsOf
<1>4. CASE AnswerPoll
  <2>1. PICK k \in DOMAIN polls :
          /\ polls' = RemoveAt(polls, k)
          /\ shown' = Shows(polls[k].answer)
          /\ IF polls[k].answer \in {"COMPLETED", "FAILED"}
             THEN ClearPoll(Known(polls[k].task))
             ELSE UNCHANGED <<intervals, pollInterval>>
    BY <1>4 DEF AnswerPoll
  <2>2. InTable' = InTable
    BY <1>4 DEF AnswerPoll, InTable
  <2>3. polls' \in Seq(PollsOf(InTable))
    BY <2>1, RemoveAtType
  <2>4. polls' \in Seq(PollsOf(Tasks))
    BY <2>3, MorePolls DEF InTable
  <2>5. shown' \in {"running", "blocked", "completed", "error"}
    BY <2>1 DEF Shows
  <2>6. intervals' \subseteq intervals /\ pollInterval' \in Tasks \cup {None}
    BY <2>1 DEF ClearPoll
  <2> QED
    BY <1>4, <2>2, <2>3, <2>4, <2>5, <2>6 DEF AnswerPoll, PollsOf
<1>5. CASE PollFails
  <2>1. PICK k \in DOMAIN polls : polls' = RemoveAt(polls, k)
    BY <1>5 DEF PollFails
  <2>2. InTable' = InTable
    BY <1>5 DEF PollFails, InTable
  <2>3. polls' \in Seq(PollsOf(InTable))
    BY <2>1, RemoveAtType
  <2>4. polls' \in Seq(PollsOf(Tasks))
    BY <2>3, MorePolls DEF InTable
  <2> QED
    BY <1>5, <2>2, <2>3, <2>4 DEF PollFails, page, PollsOf
<1>6. ASSUME NEW t \in Tasks, TaskMoves(t) PROVE TypeInv'
  <2>1. row' \in [Tasks -> Statuses \cup {"none"}] /\ InTable' = InTable
    BY <1>6 DEF TaskMoves, Successors, InTable, Statuses
  <2> QED
    BY <1>6, <2>1 DEF TaskMoves, page, PollsOf
<1>7. ASSUME NEW t \in Tasks, CreateTask(t) PROVE TypeInv'
  <2>1. InTable \subseteq InTable' /\ t \in InTable'
    BY <1>7 DEF CreateTask, InTable, Statuses
  <2>2. polls' \in Seq(PollsOf(InTable'))
    BY <1>7, <2>1, MorePolls DEF CreateTask
  <2>3. row' \in [Tasks -> Statuses \cup {"none"}]
    BY <1>7 DEF CreateTask, Statuses
  <2> QED
    BY <1>7, <2>1, <2>2, <2>3 DEF CreateTask, page, PollsOf
<1>8. ASSUME NEW t \in Tasks, Poll(t) PROVE TypeInv'
  <2>1. InTable' = InTable
    BY <1>8 DEF Poll, InTable
  <2>2. [task |-> t, answer |-> "sent"] \in PollsOf(InTable)
    BY <1>8 DEF Poll, PollsOf
  <2>3. polls' \in Seq(PollsOf(InTable))
    BY <1>8, <2>2, AppendProperties DEF Poll
  <2>4. polls' \in Seq(PollsOf(Tasks))
    BY <2>3, MorePolls DEF InTable
  <2> QED
    BY <1>8, <2>1, <2>3, <2>4 DEF Poll, page, PollsOf
<1>9. ASSUME NEW t \in Tasks, StartDownload(t) PROVE TypeInv'
  BY <1>9 DEF StartDownload, ClearPoll, InTable
<1>10. ASSUME NEW t \in Tasks, StartAnswered(t) PROVE TypeInv'
  BY <1>10 DEF StartAnswered, Set, InTable
<1>11. ASSUME NEW t \in Tasks, StartFails(t) PROVE TypeInv'
  BY <1>11 DEF StartFails, Set, InTable
<1>12. CASE UNCHANGED downloadPage
  BY <1>12 DEF downloadPage, page, InTable, PollsOf
<1> QED
  BY <1>1, <1>2, <1>3, <1>4, <1>5, <1>6, <1>7, <1>8, <1>9, <1>10, <1>11, <1>12
  DEF DownloadPageNext

\* The page, the tasks and the polls keep their types, whoever wins the
\* races between answers, renders and the user.
THEOREM DownloadPageTypeCorrect == DownloadPageSpec => []DownloadPageTypeOK
<1>1. TypeInv => DownloadPageTypeOK
  BY DEF TypeInv
<1> QED
  BY <1>1, TypeInit, TypeNext, PTL DEF DownloadPageSpec

-----------------------------------------------------------------------------
(* The download page: intervals. *)

\* What holds while no second press was made.  No clearPoll knows an
\* interval: the only press was made before there was one.  The mounted
\* effect knows none or that of the page, which its next render or its
\* cleanup decides.
OnePress ==
    /\ \A t \in Tasks : seen[t] = None
    /\ pollInterval # None => start[pollInterval] = "over"
    /\ open => /\ rendered \in {None, pollInterval}
               /\ intervals = {pollInterval} \ {None}
    /\ ~open => /\ pollInterval = None
                /\ early \/ /\ intervals = {}
                            /\ \A t \in Tasks : start[t] \in {"none", "over"}

PageInv == TypeInv /\ (PressedOnce => OnePress)

LEMMA PolledTask ==
    ASSUME TypeInv, NEW k \in DOMAIN polls
    PROVE  polls[k].task \in Tasks
<1>1. polls \in Seq(PollsOf(InTable))
  BY DEF TypeInv, PolledIsInTable
<1>2. polls[k] \in PollsOf(InTable)
  BY <1>1
<1> QED
  BY <1>2 DEF PollsOf, InTable

\* The one press makes the one interval, unless the page is left before.
LEMMA OnePressNext ==
    ASSUME PageInv, [DownloadPageNext]_downloadPage, PressedOnce'
    PROVE  OnePress'
<1> USE DownloadPageAssumption DEF PageInv, TypeInv, DownloadPageTypeOK, OnePress
<1>1. CASE Render
  BY <1>1 DEF Render, ClearPoll, PressedOnce
<1>2. CASE Leave
  BY <1>2 DEF Leave, Cleanup, PressedOnce
<1>3. CASE ReadTask
  BY <1>3 DEF ReadTask, page, PressedOnce
<1>4. CASE AnswerPoll
  <2>1. PressedOnce
    BY <1>4 DEF AnswerPoll, PressedOnce
  <2>2. PICK k \in DOMAIN polls :
          IF polls[k].answer \in {"COMPLETED", "FAILED"}
          THEN ClearPoll(Known(polls[k].task))
          ELSE UNCHANGED <<intervals, pollInterval>>
    BY <1>4 DEF AnswerPoll
  <2>3. Known(polls[k].task) = None
    BY <2>1, PolledTask DEF Known
  <2>4. None \notin intervals
    OBVIOUS
  <2>5. intervals' = intervals \/ intervals' = intervals \ {None}
    BY <2>2, <2>3 DEF ClearPoll, Known
  <2>6. pollInterval' = pollInterval
    BY <2>2, <2>3 DEF ClearPoll, Known
  <2> QED
    BY <1>4, <2>1, <2>4, <2>5, <2>6 DEF AnswerPoll
<1>5. CASE PollFails
  BY <1>5 DEF PollFails, page, PressedOnce
<1>6. ASSUME NEW t \in Tasks, TaskMoves(t) PROVE OnePress'
  BY <1>6 DEF TaskMoves, page, PressedOnce
<1>7. ASSUME NEW t \in Tasks, CreateTask(t) PROVE OnePress'
  <2>1. PressedOnce
    BY <1>7 DEF CreateTask, PressedOnce
  <2> QED
    BY <1>7, <2>1 DEF CreateTask, page
<1>8. ASSUME NEW t \in Tasks, Poll(t) PROVE OnePress'
  BY <1>8 DEF Poll, page, PressedOnce
<1>9. ASSUME NEW t \in Tasks, StartDownload(t) PROVE OnePress'
  <2>1. \A u \in Tasks : start[u] = "none"
    BY <1>9 DEF StartDownload, PressedOnce
  <2>2. PressedOnce /\ pollInterval = None /\ rendered = None
    BY <1>9, <2>1 DEF StartDownload, PressedOnce
  <2>3. intervals = {} /\ intervals' = {} /\ pollInterval' = None
    BY <1>9, <2>2 DEF StartDownload, ClearPoll
  <2>4. seen' = seen
    BY <1>9, <2>2 DEF StartDownload
  <2> QED
    BY <1>9, <2>2, <2>3, <2>4 DEF StartDownload
<1>10. ASSUME NEW t \in Tasks, StartAnswered(t) PROVE OnePress'
  <2>1. PressedOnce
    BY <1>10 DEF StartAnswered, PressedOnce
  <2>2. pollInterval = None
    BY <1>10, <2>1 DEF StartAnswered, PressedOnce
  <2> QED
    BY <1>10, <2>1, <2>2 DEF StartAnswered, Set
<1>11. ASSUME NEW t \in Tasks, StartFails(t) PROVE OnePress'
  <2>1. PressedOnce
    BY <1>11 DEF StartFails, PressedOnce
  <2> QED
    BY <1>11, <2>1 DEF StartFails, Set
<1>12. CASE UNCHANGED downloadPage
  BY <1>12 DEF downloadPage, page, PressedOnce
<1> QED
  BY <1>1, <1>2, <1>3, <1>4, <1>5, <1>6, <1>7, <1>8, <1>9, <1>10, <1>11, <1>12
  DEF DownloadPageNext

LEMMA PageInit == DownloadPageInit => PageInv
BY TypeInit, DownloadPageAssumption DEF DownloadPageInit, PageInv, OnePress

LEMMA PageNext == PageInv /\ [DownloadPageNext]_downloadPage => PageInv'
BY TypeNext, OnePressNext DEF PageInv

LEMMA PageShows == PageInv => IntervalIsKnown
BY DEF PageInv, OnePress, IntervalIsKnown

\* After one press, and unless the page is left before its answer, the
\* interval that runs is the one the page knows, and none outlives the page:
\* for any tasks, whatever answers are lost or overtaken.
THEOREM IntervalsAreKnown == DownloadPageSpec => []IntervalIsKnown
BY PageInit, PageNext, PageShows, PTL DEF DownloadPageSpec

-----------------------------------------------------------------------------
(* The files page: types. *)

ListState ==
    [files : Seq(Files), total : Nat, page : Nat \ {0},
     perPage : PerPages, loading : BOOLEAN, error : BOOLEAN]

StatsWindow == [show : BOOLEAN, result : (SUBSET Files) \cup {Nothing}, loading : BOOLEAN]

LEMMA EffectType ==
    ASSUME NEW s \in ListState, NEW others \in Seq(Load), Effect(s, others)
    PROVE  state' \in ListState /\ loads' \in Seq(Load)
<1>1. Loading(s) \in ListState
  BY DEF Loading, ListState
<1>2. <<>> \in Seq(Files)
  BY EmptySeq
<1>3. Request(s) \in Load
  BY <1>2 DEF Request, Load, ListState
<1> QED
  BY <1>1, <1>3, AppendProperties DEF Effect

LEMMA NumberType ==
    ASSUME NEW s \in ListState, NEW p \in Nat \ {0}
    PROVE  [s EXCEPT !.page = p] \in ListState
<1>1. s = [files |-> s.files, total |-> s.total, page |-> s.page,
           perPage |-> s.perPage, loading |-> s.loading, error |-> s.error]
  BY DEF ListState
<1> QED
  BY <1>1 DEF ListState

LEMMA SizeType ==
    ASSUME NEW s \in ListState, NEW n \in PerPages
    PROVE  [s EXCEPT !.page = 1, !.perPage = n] \in ListState
<1>1. s = [files |-> s.files, total |-> s.total, page |-> s.page,
           perPage |-> s.perPage, loading |-> s.loading, error |-> s.error]
  BY DEF ListState
<1>2. 1 \in Nat \ {0}
  OBVIOUS
<1> QED
  BY <1>1, <1>2 DEF ListState

LEMMA StatsType ==
    ASSUME NEW w \in StatsWindow, NEW b \in BOOLEAN
    PROVE  /\ [w EXCEPT !.loading = b] \in StatsWindow
           /\ [w EXCEPT !.show = b, !.result = Nothing] \in StatsWindow
<1>1. w = [show |-> w.show, result |-> w.result, loading |-> w.loading]
  BY DEF StatsWindow
<1> QED
  BY <1>1 DEF StatsWindow

LEMMA LoadsTyped ==
    ASSUME FilesPageTypeOK, NEW k \in DOMAIN loads
    PROVE  k \in 1..Len(loads) /\ loads[k] \in Load
BY ElementOfSeq DEF FilesPageTypeOK

LEMMA PageNumber ==
    ASSUME FilesPageTypeOK, NEW p \in 1..TotalPages
    PROVE  p \in Nat \ {0}
<1>1. state.total \in Nat /\ state.perPage \in Nat \ {0}
  BY FilesPageAssumption DEF FilesPageTypeOK
<1>2. TotalPages \in Int
  BY <1>1 DEF TotalPages
<1> QED
  BY <1>2

LEMMA FilesPageTypeInit == FilesPageInit => FilesPageTypeOK
<1> SUFFICES ASSUME FilesPageInit PROVE FilesPageTypeOK
  OBVIOUS
<1>1. <<>> \in Seq(Files)
  BY EmptySeq
<1>2. FirstState \in ListState
  BY <1>1, FilesPageAssumption DEF FirstState, ListState
<1>3. Request(FirstState) \in Load
  BY <1>1, FilesPageAssumption DEF FirstState, Request, Load
<1>4. <<Request(FirstState)>> \in Seq(Load)
  BY <1>3
<1>5. stats \in StatsWindow
  BY DEF FilesPageInit, StatsWindow
<1>6. rows \in Seq(Files)
  BY FilesPageAssumption DEF FilesPageInit
<1>7. selection \in [page : SUBSET Files, individual : SUBSET Files]
  BY DEF FilesPageInit
<1> QED
  BY <1>2, <1>4, <1>5, <1>6, <1>7 DEF FilesPageInit, FilesPageTypeOK, ListState, StatsWindow

LEMMA FilesPageTypeNext == FilesPageTypeOK /\ [FilesPageNext]_filesPage => FilesPageTypeOK'
<1> SUFFICES ASSUME FilesPageTypeOK, [FilesPageNext]_filesPage PROVE FilesPageTypeOK'
  OBVIOUS
<1> USE DEF FilesPageTypeOK
<1>1. CASE AddFile
  BY <1>1, InsertAtType DEF AddFile, calculation
<1>2. CASE DeleteFile
  BY <1>2, RemoveAtType DEF DeleteFile, calculation
<1>3. ASSUME NEW k \in DOMAIN loads, CountRows(k) PROVE FilesPageTypeOK'
  <2>1. loads[k] \in Load /\ Len(rows) \in Nat
    BY LoadsTyped
  <2>2. [loads[k] EXCEPT !.at = "counted", !.total = Len(rows)] \in Load
    BY <2>1 DEF Load
  <2>3. loads' = [loads EXCEPT ![k] = [loads[k] EXCEPT !.at = "counted", !.total = Len(rows)]]
    BY <1>3 DEF CountRows
  <2>4. loads' \in Seq(Load)
    BY <2>2, <2>3, LoadsTyped, ExceptSeq
  <2> QED
    BY <1>3, <2>4 DEF CountRows, table, calculation
<1>4. ASSUME NEW k \in DOMAIN loads, SelectRows(k) PROVE FilesPageTypeOK'
  <2> DEFINE items == Page(rows, loads[k].page, loads[k].perPage)
  <2>1. loads[k].page \in Nat \ {0} /\ loads[k].perPage \in Nat \ {0}
    BY LoadsTyped, FilesPageAssumption DEF Load
  <2>2. items \in Seq(Files)
    BY <2>1, PageType
  <2> HIDE DEF items
  <2>3. [loads[k] EXCEPT !.at = "answered", !.items = items] \in Load
    BY <2>2, LoadsTyped DEF Load
  <2>4. loads' = [loads EXCEPT ![k] = [loads[k] EXCEPT !.at = "answered", !.items = items]]
    BY <1>4 DEF SelectRows, items
  <2>5. loads' \in Seq(Load)
    BY <2>3, <2>4, LoadsTyped, ExceptSeq
  <2> QED
    BY <1>4, <2>5 DEF SelectRows, table, calculation
<1>5. ASSUME NEW k \in DOMAIN loads, LoadAnswered(k) PROVE FilesPageTypeOK'
  <2>1. Applied(loads[k]) \in ListState
    BY LoadsTyped DEF Applied, ListState, Load
  <2>2. RemoveAt(loads, k) \in Seq(Load)
    BY RemoveAtType
  <2>3. state' \in ListState /\ loads' \in Seq(Load)
    BY <1>5, <2>1, <2>2, EffectType DEF LoadAnswered
  <2> QED
    BY <1>5, <2>3 DEF LoadAnswered, Reselected, table, calculation, ListState
<1>6. ASSUME NEW k \in DOMAIN loads, LoadFails(k) PROVE FilesPageTypeOK'
  BY <1>6, RemoveAtType DEF LoadFails, table, calculation
<1>7. ASSUME NEW ids \in calcs, CalculationAnswered(ids) PROVE FilesPageTypeOK'
  BY <1>7 DEF CalculationAnswered, table
<1>8. ASSUME NEW ids \in calcs, CalculationFails(ids) PROVE FilesPageTypeOK'
  <2>1. stats \in StatsWindow
    BY DEF StatsWindow
  <2>2. stats' \in StatsWindow
    BY <1>8, <2>1, StatsType DEF CalculationFails
  <2>3. calcs' \subseteq SUBSET Files /\ askedFor' = Nothing
    BY <1>8 DEF CalculationFails
  <2> QED
    BY <1>8, <2>2, <2>3 DEF CalculationFails, table, StatsWindow
<1>9. ASSUME NEW checked \in BOOLEAN, SelectPage(checked) PROVE FilesPageTypeOK'
  <2>1. ToSet(state.files) \subseteq Files
    BY ToSetType
  <2> QED
    BY <1>9, <2>1 DEF SelectPage, table, calculation
<1>10. ASSUME NEW checked \in BOOLEAN, NEW f \in Files, SelectOne(f, checked)
       PROVE  FilesPageTypeOK'
  BY <1>10 DEF SelectOne, table, calculation
<1>11. ASSUME NEW p \in 1..TotalPages, PageChange(p) PROVE FilesPageTypeOK'
  <2>1. state \in ListState
    BY DEF ListState
  <2>2. [state EXCEPT !.page = p] \in ListState
    BY <2>1, PageNumber, NumberType
  <2>3. state' \in ListState /\ loads' \in Seq(Load)
    BY <1>11, <2>2, EffectType DEF PageChange
  <2> QED
    BY <1>11, <2>3 DEF PageChange, table, calculation, ListState
<1>12. ASSUME NEW n \in PerPages, PerPageChange(n) PROVE FilesPageTypeOK'
  <2>1. state \in ListState
    BY DEF ListState
  <2>2. [state EXCEPT !.page = 1, !.perPage = n] \in ListState
    BY <2>1, SizeType
  <2>3. state' \in ListState /\ loads' \in Seq(Load)
    BY <1>12, <2>2, EffectType DEF PerPageChange
  <2> QED
    BY <1>12, <2>3 DEF PerPageChange, table, calculation, ListState
<1>13. CASE CalculateStats
  BY <1>13 DEF CalculateStats, SelectedIds, table
<1>14. CASE CloseStats
  <2>1. stats \in StatsWindow
    BY DEF StatsWindow
  <2>2. stats' \in StatsWindow
    BY <1>14, <2>1, StatsType DEF CloseStats
  <2> QED
    BY <1>14, <2>2 DEF CloseStats, table, StatsWindow
<1>15. CASE UNCHANGED filesPage
  BY <1>15 DEF filesPage, table, calculation
<1> QED
  BY <1>1, <1>2, <1>3, <1>4, <1>5, <1>6, <1>7, <1>8, <1>9, <1>10, <1>11, <1>12, <1>13,
     <1>14, <1>15
  DEF FilesPageNext, Workers, LoadMoves, CalculationEnds, User

\* The page keeps its types, whatever order the answers come in.
THEOREM FilesPageTypeCorrect == FilesPageSpec => []FilesPageTypeOK
BY FilesPageTypeInit, FilesPageTypeNext, PTL DEF FilesPageSpec
-----------------------------------------------------------------------------
(* The files page: what is shown. *)

LEMMA ShownInit == FilesPageInit => QuietPageIsChosen /\ PageSelectionIsShown
BY DEF FilesPageInit, QuietPageIsChosen, PageSelectionIsShown

\* A change of the page or of its size starts a load.
LEMMA EffectLoads ==
    ASSUME NEW s \in ListState, NEW others \in Seq(Load), Effect(s, others)
    PROVE  \/ loads' # <<>>
           \/ /\ loads' = others /\ state' = s
              /\ <<s.page, s.perPage>> = <<state.page, state.perPage>>
<1>1. Request(s) \in Load
  BY EmptySeq DEF Request, Load, ListState
<1> QED
  BY <1>1, AppendProperties DEF Effect

\* Whatever a load brings, it is not quiet until the last load is over; the
\* last one over leaves the page it loaded, or a load of another.
LEMMA QuietNext ==
    ASSUME FilesPageTypeOK, QuietPageIsChosen, [FilesPageNext]_filesPage
    PROVE  QuietPageIsChosen'
<1> USE DEF QuietPageIsChosen
<1>1. CASE AddFile \/ DeleteFile
  BY <1>1 DEF AddFile, DeleteFile, calculation
<1>2. ASSUME NEW k \in DOMAIN loads, CountRows(k) \/ SelectRows(k) PROVE QuietPageIsChosen'
  <2>1. loads # <<>> /\ DOMAIN loads' = DOMAIN loads
    BY <1>2 DEF CountRows, SelectRows, FilesPageTypeOK
  <2> QED
    BY <2>1
<1>3. ASSUME NEW k \in DOMAIN loads, LoadAnswered(k) PROVE QuietPageIsChosen'
  <2>1. state \in ListState /\ loads[k] \in Load
    BY LoadsTyped DEF FilesPageTypeOK, ListState
  <2>2. Applied(loads[k]) \in ListState
    BY <2>1 DEF Applied, ListState, Load
  <2>3. RemoveAt(loads, k) \in Seq(Load)
    BY RemoveAtType DEF FilesPageTypeOK
  <2>4. CASE loads' # <<>>
    BY <2>4
  <2>5. CASE state' = Applied(loads[k])
    <3>1. ~state'.loading /\ state'.page = loads[k].page /\ state'.perPage = loads[k].perPage
      BY <2>1, <2>5 DEF Applied, ListState
    <3> QED
      BY <1>3, <3>1 DEF LoadAnswered
  <2> QED
    BY <1>3, <2>2, <2>3, <2>4, <2>5, EffectLoads DEF LoadAnswered
<1>4. ASSUME NEW k \in DOMAIN loads, LoadFails(k) PROVE QuietPageIsChosen'
  BY <1>4 DEF LoadFails, FilesPageTypeOK
<1>5. ASSUME NEW p \in 1..TotalPages, PageChange(p) PROVE QuietPageIsChosen'
  <2>1. state \in ListState /\ p \in Nat \ {0}
    BY PageNumber DEF FilesPageTypeOK, ListState
  <2>2. [state EXCEPT !.page = p] \in ListState /\ p # state.page
    BY <1>5, <2>1, NumberType DEF PageChange, ListState
  <2>3. [state EXCEPT !.page = p].page = p
    BY <2>1 DEF ListState
  <2> QED
    BY <1>5, <2>2, <2>3, EffectLoads DEF PageChange, FilesPageTypeOK
<1>6. ASSUME NEW n \in PerPages, PerPageChange(n) PROVE QuietPageIsChosen'
  <2>1. state \in ListState
    BY DEF FilesPageTypeOK, ListState
  <2>2. [state EXCEPT !.page = 1, !.perPage = n] \in ListState
    BY <2>1, SizeType
  <2>3. [state EXCEPT !.page = 1, !.perPage = n].perPage = n
    BY <2>1 DEF ListState
  <2> QED
    BY <1>6, <2>2, <2>3, EffectLoads DEF PerPageChange, FilesPageTypeOK
<1>7. CASE CalculationEnds
  BY <1>7 DEF CalculationEnds, CalculationAnswered, CalculationFails
<1>8. ASSUME NEW checked \in BOOLEAN,
             SelectPage(checked) \/ \E f \in Files : SelectOne(f, checked)
      PROVE  QuietPageIsChosen'
  BY <1>8 DEF SelectPage, SelectOne
<1>9. CASE CalculateStats \/ CloseStats
  BY <1>9 DEF CalculateStats, CloseStats
<1>10. CASE UNCHANGED filesPage
  BY <1>10 DEF filesPage
<1> QED
  BY <1>1, <1>2, <1>3, <1>4, <1>5, <1>6, <1>7, <1>8, <1>9, <1>10
  DEF FilesPageNext, Workers, LoadMoves, User

\* When no load is under way and none failed, the files shown are those of
\* the page and the size that the controls name: for any number of loads
\* under way, answered in any order.
THEOREM QuietPageIsRight == FilesPageSpec => []QuietPageIsChosen
BY ShownInit, FilesPageTypeInit, FilesPageTypeNext, QuietNext, PTL DEF FilesPageSpec

\* A change of the page or of its size leaves the files as they were.
LEMMA EffectFiles ==
    ASSUME NEW s \in ListState, NEW others, Effect(s, others)
    PROVE  state'.files = s.files
BY DEF Effect, Loading, ListState

LEMMA SelectionNext ==
    ASSUME FilesPageTypeOK, PageSelectionIsShown, [FilesPageNext]_filesPage
    PROVE  PageSelectionIsShown'
<1> USE DEF PageSelectionIsShown
<1>1. CASE AddFile \/ DeleteFile
  BY <1>1 DEF AddFile, DeleteFile, calculation
<1>2. ASSUME NEW k \in DOMAIN loads, CountRows(k) \/ SelectRows(k) PROVE PageSelectionIsShown'
  BY <1>2 DEF CountRows, SelectRows
<1>3. ASSUME NEW k \in DOMAIN loads, LoadAnswered(k) PROVE PageSelectionIsShown'
  BY <1>3 DEF LoadAnswered, Reselected, FilesPageTypeOK
<1>4. ASSUME NEW k \in DOMAIN loads, LoadFails(k) PROVE PageSelectionIsShown'
  BY <1>4 DEF LoadFails, FilesPageTypeOK
<1>5. ASSUME NEW p \in 1..TotalPages, PageChange(p) PROVE PageSelectionIsShown'
  <2>1. state \in ListState /\ p \in Nat \ {0}
    BY PageNumber DEF FilesPageTypeOK, ListState
  <2>2. [state EXCEPT !.page = p] \in ListState
    BY <2>1, NumberType
  <2>3. state'.files = [state EXCEPT !.page = p].files
    BY <1>5, <2>2, EffectFiles DEF PageChange
  <2> QED
    BY <1>5, <2>1, <2>3 DEF PageChange, ListState
<1>6. ASSUME NEW n \in PerPages, PerPageChange(n) PROVE PageSelectionIsShown'
  <2>1. state \in ListState
    BY DEF FilesPageTypeOK, ListState
  <2>2. [state EXCEPT !.page = 1, !.perPage = n] \in ListState
    BY <2>1, SizeType
  <2>3. state'.files = [state EXCEPT !.page = 1, !.perPage = n].files
    BY <1>6, <2>2, EffectFiles DEF PerPageChange
  <2> QED
    BY <1>6, <2>1, <2>3 DEF PerPageChange, ListState
<1>7. CASE CalculationEnds
  BY <1>7 DEF CalculationEnds, CalculationAnswered, CalculationFails
<1>8. ASSUME NEW checked \in BOOLEAN,
             SelectPage(checked) \/ \E f \in Files : SelectOne(f, checked)
      PROVE  PageSelectionIsShown'
  <2>1. state' = state
    BY <1>8 DEF SelectPage, SelectOne
  <2>2. selection'.page \subseteq ToSet(state.files)
    BY <1>8 DEF SelectPage, SelectOne, FilesPageTypeOK
  <2> QED
    BY <2>1, <2>2
<1>9. CASE CalculateStats \/ CloseStats
  BY <1>9 DEF CalculateStats, CloseStats
<1>10. CASE UNCHANGED filesPage
  BY <1>10 DEF filesPage
<1> QED
  BY <1>1, <1>2, <1>3, <1>4, <1>5, <1>6, <1>7, <1>8, <1>9, <1>10
  DEF FilesPageNext, Workers, LoadMoves, User

\* The files selected as a page are among those shown, whatever answers
\* change the page.
THEOREM PageSelectionIsAlwaysShown == FilesPageSpec => []PageSelectionIsShown
BY ShownInit, FilesPageTypeInit, FilesPageTypeNext, SelectionNext, PTL DEF FilesPageSpec

-----------------------------------------------------------------------------
(* What is calculated. *)

\* The button is disabled while a calculation is under way, and the window
\* that covers it is closed when one starts: so there is one calculation at a
\* time, for what was asked last, and no older result is left.
OneCalculation ==
    /\ stats.loading => calcs = {askedFor} /\ ~stats.show
    /\ ~stats.loading => calcs = {}
    /\ stats.result # Nothing => stats.show /\ stats.result = askedFor

LEMMA CalculationInit == FilesPageInit => OneCalculation
BY DEF FilesPageInit, OneCalculation

LEMMA CalculationShows == OneCalculation => ResultIsOfLatest
BY DEF OneCalculation, ResultIsOfLatest

LEMMA CalculationNext ==
    ASSUME FilesPageTypeOK, OneCalculation, [FilesPageNext]_filesPage
    PROVE  OneCalculation'
<1> USE DEF OneCalculation
<1>1. stats \in StatsWindow
  BY DEF FilesPageTypeOK, StatsWindow
<1>2. CASE CalculateStats
  <2>1. ~stats.show /\ stats.result = Nothing /\ calcs = {}
    BY <1>2 DEF CalculateStats, CalculateIdle, TableShown, Reachable
  <2>2. stats'.loading /\ ~stats'.show /\ stats'.result = Nothing
    BY <1>1, <1>2, <2>1 DEF CalculateStats, StatsWindow
  <2> QED
    BY <1>2, <2>1, <2>2 DEF CalculateStats
<1>3. CASE CalculationEnds
  <2>1. PICK ids \in calcs : CalculationAnswered(ids) \/ CalculationFails(ids)
    BY <1>3 DEF CalculationEnds
  <2>2. calcs = {ids} /\ ids = askedFor /\ stats.result = Nothing
    BY <1>1, <2>1 DEF StatsWindow
  <2> QED
    BY <1>1, <2>1, <2>2 DEF CalculationAnswered, CalculationFails, StatsWindow
<1>4. CASE CloseStats
  <2>1. ~stats.loading /\ calcs = {}
    BY <1>1, <1>4 DEF CloseStats, StatsWindow
  <2>2. stats'.loading = FALSE /\ stats'.result = Nothing
    BY <1>1, <1>4, <2>1 DEF CloseStats, StatsWindow
  <2> QED
    BY <1>4, <2>1, <2>2 DEF CloseStats
<1>5. CASE Workers
  BY <1>5 DEF Workers, AddFile, DeleteFile, calculation
<1>6. CASE LoadMoves
  BY <1>6 DEF LoadMoves, CountRows, SelectRows, LoadAnswered, LoadFails, calculation
<1>7. CASE User
  BY <1>2, <1>4, <1>7
  DEF User, SelectPage, SelectOne, PageChange, PerPageChange, calculation
<1>8. CASE UNCHANGED filesPage
  BY <1>8 DEF filesPage, calculation
<1> QED
  BY <1>3, <1>5, <1>6, <1>7, <1>8 DEF FilesPageNext

\* The window shows the numbers of the selection that was asked for last.
THEOREM LatestResultIsShown == FilesPageSpec => []ResultIsOfLatest
BY CalculationInit, CalculationShows, FilesPageTypeInit, FilesPageTypeNext, CalculationNext,
   PTL DEF FilesPageSpec
=============================================================================
