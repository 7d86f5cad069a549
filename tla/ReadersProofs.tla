---------------------------- MODULE ReadersProofs ----------------------------
(***************************************************************************)
(* Proofs about Readers: each of its steps is a step of one reader, so     *)
(* what is proved of each reader holds of the three as they are composed.  *)
(***************************************************************************)
EXTENDS Readers, PagesProofs, FileQueriesProofs

LEMMA ReadersStep ==
    ASSUME [Next]_readers
    PROVE  /\ [DownloadPageNext]_downloadPage
           /\ [FilesPageNext]_filesPage
           /\ [QueriesNext]_queries
BY DEF Next, readers, DownloadPageMoves, FilesPageMoves, QueriesMove

LEMMA ReadersInit ==
    ASSUME Init
    PROVE  DownloadPageInit /\ FilesPageInit /\ QueriesInit
BY DEF Init

\* Whichever reader a behaviour is of, all keep their types.
THEOREM ReadersTypeCorrect == Spec => []TypeOK
<1> DEFINE I == TypeInv /\ FilesPageTypeOK /\ QueriesTypeOK
<1>1. Init => I
  BY ReadersInit, TypeInit, FilesPageTypeInit, QueriesTypeInit
<1>2. I /\ [Next]_readers => I'
  BY ReadersStep, TypeNext, FilesPageTypeNext, QueriesTypeNext
<1>3. I => TypeOK
  BY DEF TypeInv, TypeOK
<1> QED
  BY <1>1, <1>2, <1>3, PTL DEF Spec

\* What the two pages show is right when they are composed with the queries.
THEOREM PagesAreRight ==
    Spec => []IntervalIsKnown /\ []QuietPageIsChosen
            /\ []PageSelectionIsShown /\ []ResultIsOfLatest
<1> DEFINE I == /\ PageInv
                /\ FilesPageTypeOK /\ QuietPageIsChosen /\ PageSelectionIsShown
                /\ OneCalculation
<1>1. Init => I
  BY ReadersInit, PageInit, FilesPageTypeInit, ShownInit, CalculationInit
<1>2. I /\ [Next]_readers => I'
  <2> SUFFICES ASSUME I, [Next]_readers PROVE I'
    OBVIOUS
  <2>1. PageInv'
    BY ReadersStep, PageNext
  <2>2. FilesPageTypeOK' /\ QuietPageIsChosen' /\ PageSelectionIsShown' /\ OneCalculation'
    BY ReadersStep, FilesPageTypeNext, QuietNext, SelectionNext, CalculationNext
  <2> QED
    BY <2>1, <2>2
<1>3. I => IntervalIsKnown /\ QuietPageIsChosen /\ PageSelectionIsShown /\ ResultIsOfLatest
  BY PageShows, CalculationShows
<1> QED
  BY <1>1, <1>2, <1>3, PTL DEF Spec

\* What the queries answer is right when they are composed with the pages.
THEOREM AnswersAreRight ==
    Spec => []StatisticsAreOfTheirTime /\ []CalculationIsOfItsTime
            /\ []AnswerIsOfOneSet
<1> DEFINE I == /\ QueriesTypeOK /\ RowsAreUploads /\ CountsAreOfRows
                /\ CalculationFollowsRows /\ SumsFollow
<1>1. Init => I
  BY ReadersInit, QueriesTypeInit, CountsInit, FollowedInit, SumsInit
<1>2. I /\ [Next]_readers => I'
  BY ReadersStep, QueriesTypeNext, RowsNext, CountsNext, FollowedNext, SumsNext
<1>3. I => StatisticsAreOfTheirTime /\ CalculationIsOfItsTime /\ AnswerIsOfOneSet
  BY CountsAreRight, SumsAreRight, AnswersAreOfSets
<1> QED
  BY <1>1, <1>2, <1>3, PTL DEF Spec
=============================================================================
