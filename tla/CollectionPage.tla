---------------------------- MODULE CollectionPage ----------------------------
(***************************************************************************)
(* The user's collection of queries (queryeditor/components/               *)
(* CollectionTable.jsx, MyCollection.jsx, actions/CollectionActions.js,    *)
(* and the star of RunsTable.jsx).  The runs and the collection are tabs:  *)
(* only one of them is mounted.                                            *)
(***************************************************************************)
EXTENDS EditorClient

\* ui is the table and its requests; server is the collection, a sequence of different
\* queries.

Collections == {s \in UNION {[1..n -> Collected] : n \in 0..MaxCollected} : IsInjective(s)}

\* A page of the collection as the server cuts it.
pageOf(collection, asked) ==
    SubSeq(collection, (asked.page - 1) * asked.size + 1,
           IF asked.page * asked.size < Len(collection) THEN asked.page * asked.size ELSE Len(collection))

choice(u) == [page |-> u.currentPage, size |-> u.pageSize]
refreshData(u) == [u EXCEPT !.requests = Append(@, choice(u))]

\* render: the number of rows comes from the choice of now, the rows from the last
\* answer; a row that is not there throws, and React drops the page.
rowsCount_FullPage(u) == IF u.total = 0 THEN 0 ELSE u.pageSize
rowsCount(u) == LET compare == u.total - (u.currentPage - 1) * u.pageSize
                IN IF compare < u.pageSize THEN compare ELSE u.pageSize
rendered(u) == [u EXCEPT !.mounted = @ /\ rowsCount(u) <= Len(u.allCollection),
                         !.overtaken = @ \/ u.answered # choice(u)]

table == [mounted |-> TRUE, tab |-> "MY_COLLECTION", pageSize |-> 1, currentPage |-> 1, total |-> 0,
          allCollection |-> <<>>, deferred |-> 0, requests |-> <<>>, changes |-> <<>>,
          isCollected |-> {}, answered |-> [page |-> 1, size |-> 1], overtaken |-> FALSE, clicks |-> 0]
InitCollection == ui = refreshData(table) /\ server \in Collections

-----------------------------------------------------------------------------

onPage(u) == ui.mounted /\ does(u)
inTable == ui.tab = "MY_COLLECTION"

onPageChange(current) ==
    inTable /\ onPage([ui EXCEPT !.currentPage = current, !.deferred = @ + 1])
onPageSizeChange(pageSize) ==
    inTable /\ onPage([ui EXCEPT !.pageSize = pageSize, !.deferred = @ + 1])

\* The request to delete and the refresh go out together.  A click on the icon in the
\* button has no number of a row; the handler throws and nothing happens.
handleDeleteButton(i) ==
    /\ inTable /\ i \in 1..rowsCount(ui)
    /\ onPage([ui EXCEPT !.changes = Append(@, [query |-> ui.allCollection[i], add |-> FALSE]),
                         !.deferred = @ + 1])

\* QueryInformation draws its tabs anew with the size of the window.
redraw == inTable /\ onPage(rendered(ui))

DeferredRefresh ==
    /\ ui.deferred > 0
    /\ ui' = refreshData([ui EXCEPT !.deferred = @ - 1]) /\ UNCHANGED server

\* The star of a run: what it does depends on a mark at the row of the run.
handleCollection(query) ==
    /\ ui.tab = "ALL_QUERIES"
    /\ LET add == query \notin ui.isCollected
       IN onPage([ui EXCEPT !.isCollected = IF add THEN @ \cup {query} ELSE @ \ {query},
                            !.changes = Append(@, [query |-> query, add |-> add])])

onCollectionTabSelect(tab) ==
    /\ tab # ui.tab
    /\ onPage(IF tab = "ALL_QUERIES" THEN [ui EXCEPT !.tab = tab, !.isCollected = {}]
              ELSE refreshData([table EXCEPT !.changes = ui.changes, !.clicks = ui.clicks]))

AnswerArrives(i) ==
    /\ i \in DOMAIN ui.requests
    /\ ui' = LET answered == [ui EXCEPT !.allCollection = pageOf(server, ui.requests[i]),
                                        !.total = Len(server), !.answered = ui.requests[i]]
             IN [IF inTable THEN rendered(answered) ELSE ui EXCEPT !.requests = RemoveAt(@, i)]
    /\ UNCHANGED server
CollectionRequestFails(i) ==
    i \in DOMAIN ui.requests /\ ui' = [ui EXCEPT !.requests = RemoveAt(@, i)] /\ UNCHANGED server

\* The server adds a query once and refuses more than it has room for.
CollectionChanges(i) ==
    /\ i \in DOMAIN ui.changes
    /\ ui' = [ui EXCEPT !.changes = RemoveAt(@, i)]
    /\ LET change == ui.changes[i]
           present == Contains(server, change.query)
       IN server' \in {server, CASE change.add /\ ~present -> Append(server, change.query)
                                 [] ~change.add /\ present -> Remove(server, change.query)
                                 [] OTHER -> server}

NextCollection == \/ \E page \in 1..MaxPage : onPageChange(page)
                  \/ \E size \in PageSize : onPageSizeChange(size)
                  \/ \E i \in DOMAIN ui.allCollection : handleDeleteButton(i)
                  \/ \E query \in Collected : handleCollection(query)
                  \/ \E tab \in {"ALL_QUERIES", "MY_COLLECTION"} : onCollectionTabSelect(tab)
                  \/ redraw \/ DeferredRefresh
                  \/ \E i \in DOMAIN ui.requests : AnswerArrives(i) \/ CollectionRequestFails(i)
                  \/ \E i \in DOMAIN ui.changes : CollectionChanges(i)

-----------------------------------------------------------------------------

\* The rows that the table of the collection draws are there, whatever is added to or
\* deleted from the collection meanwhile, as long as it is not drawn
\* with the answer to an earlier choice of the page or its size, which may be too short.
DrawsOnlyRowsThereAre == ~ui.overtaken => ui.mounted
=============================================================================
