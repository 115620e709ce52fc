---------------------------- MODULE ResultsPreview ----------------------------
(***************************************************************************)
(* The pages of a query's results (queryeditor/components/ResultsTable.jsx *)
(* and RunsTable.jsx, stores/ResultsPreviewStore.js, actions/              *)
(* ResultsPreviewActions.js).  A run has one file of results; a preview is *)
(* one page of it, for a size of the pages.  The table of results is       *)
(* mounted when its tab is selected, and then starts from nothing.         *)
(***************************************************************************)
EXTENDS EditorClient

\* ui is the table, the store and the requests; server is not used, because files of
\* results do not change.

Nothing == {}
firstPage(file) == [file |-> file, page |-> 1, size |-> 1]

\* getStateFromStore, in _onChange: the page and the size of the table stay as they are.
_onChange(u) == IF u.tab = "RESULTS_PREVIEW"
                THEN [u EXCEPT !.table = u.preview, !.query = u.previewQuery] ELSE u

onClearPreview(u) == _onChange([u EXCEPT !.preview = Nothing])
onSelectPreviewQuery(u, query) == _onChange([u EXCEPT !.previewQuery = query])
onLoadResultsPreview(u, preview) == _onChange([u EXCEPT !.preview = {preview}, !.resized = FALSE])

mountResults(u) == [u EXCEPT !.tab = "RESULTS_PREVIEW", !.table = Nothing, !.query = "",
                             !.currentPage = 1, !.pageSize = 1]

constructorResults == [tab |-> "ALL_QUERIES", table |-> Nothing, query |-> "", currentPage |-> 1, pageSize |-> 1,
                       preview |-> Nothing, previewQuery |-> "", requests |-> <<>>, resized |-> FALSE,
                       disturbed |-> FALSE, currentErrorMessage |-> "", showModal |-> FALSE, clicks |-> 0]
InitResults == ui = constructorResults /\ server = {}

-----------------------------------------------------------------------------

\* RunsTable: the query of the preview is selected before its rows are there.
previewQueryResult(file) ==
    /\ ui.tab = "ALL_QUERIES" /\ ~ui.showModal
    /\ does(mountResults([onSelectPreviewQuery(ui, file) EXCEPT
                       !.requests = Append(@, firstPage(file)),
                       !.disturbed = ui.requests # <<>>]))

\* RunsTable: the message of a failed run.
toggleModal(message) ==
    /\ ui.tab = "ALL_QUERIES"
    /\ IF ui.showModal
       THEN does([ui EXCEPT !.showModal = FALSE, !.currentErrorMessage = ""])
       ELSE does([ui EXCEPT !.showModal = TRUE, !.currentErrorMessage = message])

\* The next page is asked for, the one that is there stays until it comes.
onResultsPageChange_Unasked(current, pageSize) ==
    /\ ui.tab = "RESULTS_PREVIEW" /\ ui.table # Nothing
    /\ does([ui EXCEPT !.currentPage = current, !.pageSize = pageSize, !.table = ui.preview])
onResultsPageChange(current, pageSize) ==
    /\ ui.tab = "RESULTS_PREVIEW" /\ ui.table # Nothing
    /\ \E preview \in ui.preview :
          does([ui EXCEPT !.requests = Append(@, [file |-> preview.file, page |-> current, size |-> pageSize]),
                          !.currentPage = current, !.pageSize = pageSize,
                          !.table = ui.preview, !.query = ui.previewQuery])

onSetResultsColumnWidth ==
    /\ ui.tab = "RESULTS_PREVIEW" /\ ui.table # Nothing
    /\ does(_onChange([ui EXCEPT !.resized = TRUE]))

\* QueryInformation's tabs.
onTabSelect(tab) ==
    /\ tab # ui.tab /\ ~ui.showModal
    /\ does(IF tab = "RESULTS_PREVIEW"
            THEN [mountResults(ui) EXCEPT !.disturbed = ui.requests # <<>>] ELSE [ui EXCEPT !.tab = tab])

\* handleRun of the editor; the run's acceptance selects the tab of the runs.
handleRunClears == does(onClearPreview(ui))
onExecute == ui.tab # "ALL_QUERIES" /\ ui' = [ui EXCEPT !.tab = "ALL_QUERIES"] /\ UNCHANGED server

PageArrives(i) ==
    /\ ui' = [onLoadResultsPreview(ui, ui.requests[i]) EXCEPT
                !.requests = RemoveAt(@, i), !.disturbed = @ \/ i # 1]
    /\ UNCHANGED server
ResultsRequestFails(i) ==
    ui' = [ui EXCEPT !.requests = RemoveAt(@, i), !.disturbed = TRUE] /\ UNCHANGED server

NextResults == \/ \E file \in File : previewQueryResult(file) \/ toggleModal(file)
               \/ \E page \in 1..MaxPage, size \in PageSize : onResultsPageChange(page, size)
               \/ onSetResultsColumnWidth \/ handleRunClears \/ onExecute
               \/ \E tab \in {"ALL_QUERIES", "RESULTS_PREVIEW"} : onTabSelect(tab)
               \/ \E i \in DOMAIN ui.requests : PageArrives(i) \/ ResultsRequestFails(i)

-----------------------------------------------------------------------------

\* When no answer is due, the rows on the screen are the page that the table says, of the
\* query that stands above them, as long as no request failed, no answer overtook another
\* and the tab was not entered while one was due.
RowsOfShownPage ==
    ui.tab = "RESULTS_PREVIEW" /\ ui.requests = <<>> /\ ~ui.disturbed =>
        \A table \in ui.table :
            table = [file |-> ui.query, page |-> ui.currentPage, size |-> ui.pageSize]
=============================================================================
