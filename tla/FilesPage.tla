----------------------------- MODULE FilesPage -----------------------------
(***************************************************************************)
(* FilesPage: the page that lists the saved files, over the table `files'  *)
(* that the workers write meanwhile.                                       *)
(*                                                                         *)
(* A load is sent when the page, or the page size, changes; the backend    *)
(* counts the rows, then selects a page of them, and the answers arrive in *)
(* any order, or not at all.  The effect that loads again runs with the    *)
(* change that causes it.                                                  *)
(*                                                                         *)
(* selection.all is never true in the code and left out, and statsError is *)
(* only shown in a window that is not open when it is set.  The numbers of *)
(* a calculation are FileQueries's: here a result is the set of ids it is  *)
(* for.                                                                    *)
(***************************************************************************)
EXTENDS Naturals, Sequences, SequencesExt

CONSTANTS
    Files,       \* ids
    Saved,       \* the tables on which the page may be opened
    PerPages,    \* the page sizes to choose from
    FirstSize,   \* 20
    Nothing,     \* null
    MaxLoads,    \* bound: the user waits when so many loads are under way
    MaxChanges   \* bound: on the changes the workers make

ASSUME FilesPageAssumption ==
    /\ Saved \subseteq Seq(Files)
    /\ PerPages \subseteq Nat \ {0}
    /\ FirstSize \in PerPages
    /\ MaxLoads \in Nat \ {0}
    /\ MaxChanges \in Nat

VARIABLES
    rows,       \* the table, in the order of the query
    changes,    \* bound: how often it has changed
    state,      \* the state of the list
    selection,  \* selection.page and selection.individual
    stats,      \* the calculation and the window that shows it
    loads,      \* the loads under way
    calcs,      \* the calculations under way
    shownFor,   \* history: the page and size whose files are shown
    askedFor    \* history: the ids of the latest calculation, until it fails
                \* or its window is closed

table == <<rows, changes>>
calculation == <<stats, calcs, askedFor>>
filesPage == <<table, state, selection, calculation, loads, shownFor>>

\* loadFiles: what it sets at once, and its request.
Loading(s) == [s EXCEPT !.loading = TRUE, !.error = FALSE]

Request(s) ==
    [page |-> s.page, perPage |-> s.perPage, at |-> "sent", total |-> 0, items |-> <<>>]

FirstState ==
    [files |-> <<>>, total |-> 0, page |-> 1, perPage |-> FirstSize,
     loading |-> TRUE, error |-> FALSE]

FilesPageInit ==
    /\ rows \in Saved
    /\ changes = 0
    /\ state = FirstState
    /\ selection = [page |-> {}, individual |-> {}]
    /\ stats = [show |-> FALSE, result |-> Nothing, loading |-> FALSE]
    /\ loads = <<Request(FirstState)>>
    /\ calcs = {}
    /\ shownFor = Nothing
    /\ askedFor = Nothing

-----------------------------------------------------------------------------
(* The backend. *)

\* A worker saves a file, or cleans one up.  The order is by creation: a row
\* may come in behind one that was created later and saved before it.
AddFile ==
    /\ changes < MaxChanges
    /\ \E f \in Files \ ToSet(rows), k \in 0..Len(rows) : rows' = InsertAt(rows, k + 1, f)
    /\ changes' = changes + 1
    /\ UNCHANGED <<state, selection, calculation, loads, shownFor>>

DeleteFile ==
    /\ changes < MaxChanges
    /\ \E k \in DOMAIN rows : rows' = RemoveAt(rows, k)
    /\ changes' = changes + 1
    /\ UNCHANGED <<state, selection, calculation, loads, shownFor>>

\* SQLAlchemyFileRepository.list: the count,
CountRows(k) ==
    /\ loads[k].at = "sent"
    /\ loads' = [loads EXCEPT ![k].at = "counted", ![k].total = Len(rows)]
    /\ UNCHANGED <<table, state, selection, calculation, shownFor>>

Page(s, page, perPage) ==
    SubSeq(s, (page - 1) * perPage + 1,
           IF page * perPage < Len(s) THEN page * perPage ELSE Len(s))

\* and the page.
SelectRows(k) ==
    /\ loads[k].at = "counted"
    /\ loads' = [loads EXCEPT ![k].at = "answered",
                              ![k].items = Page(rows, loads[k].page, loads[k].perPage)]
    /\ UNCHANGED <<table, state, selection, calculation, shownFor>>

-----------------------------------------------------------------------------
(* Loads. *)

\* The effect on [state.page, state.perPage]: a state in which they changed
\* starts a load, in addition to those in `others'.
Effect_OnAnyChange(s, others) == state' = Loading(s) /\ loads' = Append(others, Request(s))

Effect(s, others) ==
    IF <<s.page, s.perPage>> # <<state.page, state.perPage>>
    THEN state' = Loading(s) /\ loads' = Append(others, Request(s))
    ELSE state' = s /\ loads' = others

Applied_PageKept(res) ==
    [state EXCEPT !.files = res.items, !.total = res.total, !.loading = FALSE]

Applied(res) ==
    [state EXCEPT !.files = res.items, !.total = res.total,
                  !.page = res.page, !.perPage = res.perPage, !.loading = FALSE]

Reselected_All(s) == s

\* Reset page selection on page change.
Reselected(s) == [s EXCEPT !.page = {}]

LoadAnswered(k) ==
    /\ loads[k].at = "answered"
    /\ Effect(Applied(loads[k]), RemoveAt(loads, k))
    /\ selection' = Reselected(selection)
    /\ shownFor' = <<loads[k].page, loads[k].perPage>>
    /\ UNCHANGED <<table, calculation>>

LoadFails(k) ==
    /\ state' = [state EXCEPT !.loading = FALSE, !.error = TRUE]
    /\ loads' = RemoveAt(loads, k)
    /\ UNCHANGED <<table, selection, calculation, shownFor>>

-----------------------------------------------------------------------------
(* The user. *)

\* The window with the results covers the page.
Reachable == ~stats.show

\* The table and what is below it are rendered.
TableShown == Reachable /\ ~state.loading /\ state.files # <<>>

SelectPage(checked) ==
    /\ TableShown
    /\ selection' = [selection EXCEPT !.page = IF checked THEN ToSet(state.files) ELSE {}]
    /\ UNCHANGED <<table, state, calculation, loads, shownFor>>

SelectOne(f, checked) ==
    /\ TableShown
    /\ f \in ToSet(state.files)
    /\ selection' =
          IF checked
          THEN [page |-> selection.page \cup {f}, individual |-> selection.individual \cup {f}]
          ELSE [page |-> selection.page \ {f}, individual |-> selection.individual \ {f}]
    /\ UNCHANGED <<table, state, calculation, loads, shownFor>>

TotalPages == (state.total + state.perPage - 1) \div state.perPage

PageChange(page) ==
    /\ TableShown
    /\ TotalPages > 1
    /\ \/ page = state.page - 1
       \/ page = state.page + 1 /\ state.page # TotalPages
    /\ page \in 1..TotalPages
    /\ Len(loads) < MaxLoads
    /\ Effect([state EXCEPT !.page = page], loads)
    /\ UNCHANGED <<table, selection, calculation, shownFor>>

\* The choice is there while the page is loading, too.
PerPageChange(n) ==
    /\ Reachable
    /\ n # state.perPage
    /\ Len(loads) < MaxLoads
    /\ Effect([state EXCEPT !.page = 1, !.perPage = n], loads)
    /\ UNCHANGED <<table, selection, calculation, shownFor>>

SelectedIds == selection.page \cup selection.individual

CalculateIdle_Always == TRUE

\* The button is disabled while a calculation is under way.
CalculateIdle == ~stats.loading

CalculateStats ==
    /\ TableShown
    /\ SelectedIds # {}
    /\ CalculateIdle
    /\ stats' = [stats EXCEPT !.loading = TRUE]
    /\ calcs' = calcs \cup {SelectedIds}
    /\ askedFor' = SelectedIds
    /\ UNCHANGED <<table, state, selection, loads, shownFor>>

CalculationAnswered(ids) ==
    /\ calcs' = calcs \ {ids}
    /\ stats' = [show |-> TRUE, result |-> ids, loading |-> FALSE]
    /\ UNCHANGED <<table, state, selection, loads, shownFor, askedFor>>

CalculationFails(ids) ==
    /\ calcs' = calcs \ {ids}
    /\ stats' = [stats EXCEPT !.loading = FALSE]
    /\ askedFor' = Nothing
    /\ UNCHANGED <<table, state, selection, loads, shownFor>>

CloseStats ==
    /\ stats.show
    /\ stats' = [stats EXCEPT !.show = FALSE, !.result = Nothing]
    /\ askedFor' = Nothing
    /\ UNCHANGED <<table, state, selection, loads, shownFor, calcs>>

-----------------------------------------------------------------------------

Workers == AddFile \/ DeleteFile

LoadMoves ==
    \E k \in DOMAIN loads : CountRows(k) \/ SelectRows(k) \/ LoadAnswered(k) \/ LoadFails(k)

CalculationEnds == \E ids \in calcs : CalculationAnswered(ids) \/ CalculationFails(ids)

User ==
    \/ \E checked \in BOOLEAN :
          SelectPage(checked) \/ \E f \in Files : SelectOne(f, checked)
    \/ \E page \in 1..TotalPages : PageChange(page)
    \/ \E n \in PerPages : PerPageChange(n)
    \/ CalculateStats \/ CloseStats

FilesPageNext == Workers \/ LoadMoves \/ CalculationEnds \/ User

\* Every request is answered or fails.  Nothing is assumed of the user.
FilesPageFairness == WF_filesPage(LoadMoves) /\ WF_filesPage(CalculationEnds)

FilesPageSpec == FilesPageInit /\ [][FilesPageNext]_filesPage /\ FilesPageFairness

-----------------------------------------------------------------------------

Load == [page : Nat \ {0}, perPage : PerPages, at : {"sent", "counted", "answered"},
         total : Nat, items : Seq(Files)]

\* The type invariant.
FilesPageTypeOK ==
    /\ rows \in Seq(Files)
    /\ changes \in Nat
    /\ state \in [files : Seq(Files), total : Nat, page : Nat \ {0},
                  perPage : PerPages, loading : BOOLEAN, error : BOOLEAN]
    /\ selection \in [page : SUBSET Files, individual : SUBSET Files]
    /\ stats \in [show : BOOLEAN, result : (SUBSET Files) \cup {Nothing}, loading : BOOLEAN]
    /\ loads \in Seq(Load)
    /\ calcs \subseteq SUBSET Files
    /\ askedFor \in (SUBSET Files) \cup {Nothing}

\* When no load is under way and none failed, what is shown are the files of
\* the page and the size that the controls name, and the page does not wait
\* (FilesPage.tsx, loadFiles and its effect): an answer that was overtaken
\* cannot stay under another page's number.
QuietPageIsChosen ==
    loads = <<>> /\ ~state.error =>
        ~state.loading /\ shownFor = <<state.page, state.perPage>>

\* What is selected as a page is shown: a page that was left, by whatever
\* answer, takes its selection with it (FilesPage.tsx, setSelection in
\* loadFiles).
PageSelectionIsShown == selection.page \subseteq ToSet(state.files)

\* The window never shows the numbers of an older selection than the one the
\* user asked for last (FilesPage.tsx, handleCalculateStats).
ResultIsOfLatest == stats.result # Nothing => stats.result = askedFor

\* Loads come to an end, however often the page is changed, as long as no
\* more than one is under way at a time: with two, each may undo the other's
\* choice and start a load, for ever (FilesPage.tsx, the effect on page and
\* page size).
LoadsEnd == <>[](Len(loads) <= 1) => []<>(loads = <<>>)
=============================================================================
