------------------------------ MODULE Readers ------------------------------
(***************************************************************************)
(* Readers: the three parts that show what the workers write, the download *)
(* page, the files page and the queries behind the API.                    *)
(*                                                                         *)
(* A behaviour is one of one reader: App mounts one page at a time, each   *)
(* mounted anew, the two queries are stateless, and none of the three      *)
(* writes what another reads.  What a page leaves behind when it is left   *)
(* is in its own module.  So the specification is a sum, not a product.    *)
(***************************************************************************)
EXTENDS DownloadPage, FilesPage, FileQueries

VARIABLE reader  \* the one that this behaviour is of

readers == <<reader, downloadPage, filesPage, queries>>

Init ==
    /\ reader \in {"/", "/files", "queries"}
    /\ DownloadPageInit
    /\ FilesPageInit
    /\ QueriesInit
    /\ reader # "/files" => rows = CHOOSE s \in Saved : TRUE

DownloadPageMoves ==
    /\ reader = "/"
    /\ DownloadPageNext
    /\ UNCHANGED <<reader, filesPage, queries>>

FilesPageMoves ==
    /\ reader = "/files"
    /\ FilesPageNext
    /\ UNCHANGED <<reader, downloadPage, queries>>

QueriesMove ==
    /\ reader = "queries"
    /\ QueriesNext
    /\ UNCHANGED <<reader, downloadPage, filesPage>>

Next == DownloadPageMoves \/ FilesPageMoves \/ QueriesMove

\* That of the pages.  The download page asks for nothing until it moves;
\* the files page loads when it is mounted.
Fairness ==
    /\ DownloadPageFairness
    /\ WF_filesPage(reader = "/files" /\ LoadMoves)
    /\ WF_filesPage(reader = "/files" /\ CalculationEnds)

Spec == Init /\ [][Next]_readers /\ Fairness

-----------------------------------------------------------------------------

\* The type invariant of each reader.
TypeOK == DownloadPageTypeOK /\ FilesPageTypeOK /\ QueriesTypeOK

\* Loads end, for the reader that has them (FilesPage.tsx, the effect on page
\* and page size).
ShownLoadsEnd == reader = "/files" => LoadsEnd
=============================================================================
