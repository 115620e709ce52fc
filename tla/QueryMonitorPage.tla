-------------------------- MODULE QueryMonitorPage --------------------------
(***************************************************************************)
(* The query monitor of the web UI (components/QueryMonitor.jsx): a list   *)
(* of queries that follows the filters, the order, the search text and the *)
(* page that the user chooses, and is polled again one second after each   *)
(* answer.                                                                 *)
(*                                                                         *)
(* A step is one callback of the browser's event loop.  The variable ui is *)
(* the component: this.state and its timers, with the requests that it has *)
(* sent, in a pool because answers may overtake each other.  The functions *)
(* of the code map a component to the component they leave behind.         *)
(* What the list shows is abstracted to the request it answers and the     *)
(* number of its rows.                                                     *)
(***************************************************************************)
EXTENDS Collections

CONSTANTS FilterType, ErrorType, SortType,  \* what the menus offer
          SearchString, PageSize,           \* what the user may type and pick
          MaxRows,                          \* bound: queries that the coordinator knows
          MaxClicks,                        \* bound: actions of the user
          MaxChanges                        \* bound: changes on the coordinator

VARIABLES ui,       \* the React component
          server    \* the coordinator: how many queries match, and how often that changed

SELECT_ALL == "all"
NoList == {}     \* otherwise shown is the set of the one answer on the screen

\* The request that refreshData puts together from the state at the time it runs.
queryString(u) ==
    [state |-> u.stateFilters, failed |-> u.errorTypeFilters, sort |-> u.currentSortType,
     sortOrder |-> u.currentSortOrder, search |-> u.searchString,
     pageNum |-> u.currentPage, pageSize |-> u.pageSize]

refreshData(u) == [u EXCEPT !.requests = with(@, queryString(u))]

\* state.ended is never set on this page, so the timer is always armed again.
resetTimer_Once(u) == [u EXCEPT !.timer = u.shown = NoList]
resetTimer(u) == [u EXCEPT !.timer = TRUE]

\* A refresh by the timer; clearTimeout comes first.
refreshLoop_KeepsTimer(u) == refreshData(u)
refreshLoop(u) == refreshData([u EXCEPT !.timer = FALSE])

constructor ==
    [currentSortType |-> "creation", currentSortOrder |-> "descending",
     stateFilters |-> FilterType, errorTypeFilters |-> ErrorType,
     stateSelectAll |-> TRUE, errorSelectAll |-> TRUE,
     searchString |-> "", currentPage |-> 1, pageSize |-> 1,
     shown |-> NoList, total |-> 0,
     timer |-> FALSE, debounce |-> FALSE, deferred |-> 0, requests |-> emptyPool, clicks |-> 0]

\* componentDidMount starts the first refresh.
Init == /\ ui = refreshLoop(constructor)
        /\ server \in [rows : 0..MaxRows, changes : {0}]

-----------------------------------------------------------------------------
(* What render shows, as far as it decides what the user can do. *)

rowsShown(u) == IF u.shown = NoList THEN 0 ELSE (CHOOSE answer \in u.shown : TRUE).rows
offersErrorTypes(u) == "failed" \in u.stateFilters
offersPages(u) == rowsShown(u) > 0
pagesOffered(u) == {n \in 1..MaxRows : (n - 1) * u.pageSize < u.total}

stateChecked(u, filter) == filter \in u.stateFilters \/ (filter = SELECT_ALL /\ u.stateSelectAll)
errorChecked(u, type) == type \in u.errorTypeFilters \/ (type = SELECT_ALL /\ u.errorSelectAll)

-----------------------------------------------------------------------------
(* The user *)

mayClick(u) == u.clicks < MaxClicks
clicked(u) == [u EXCEPT !.clicks = @ + 1]
defer(u) == [u EXCEPT !.deferred = @ + 1]

\* The filters after a click on one of them or on "Select All", and whether all are chosen.
toggled(all, chosen, selectAll, filter) ==
    IF filter = SELECT_ALL
    THEN [filters |-> IF selectAll THEN {} ELSE all, all |-> ~selectAll]
    ELSE LET new == IF filter \in chosen THEN chosen \ {filter} ELSE chosen \cup {filter}
         IN  [filters |-> new, all |-> Cardinality(new) = Cardinality(all)]

handleStateFilterClick_KeepsSelectAll(filter) ==
    LET new == toggled(FilterType, ui.stateFilters, ui.stateSelectAll, filter)
    IN  /\ mayClick(ui)
        /\ ui' = defer([clicked(ui) EXCEPT !.currentPage = 1, !.stateFilters = new.filters,
                            !.stateSelectAll = IF filter = SELECT_ALL THEN new.all ELSE @])
        /\ UNCHANGED server
handleStateFilterClick(filter) ==
    LET new == toggled(FilterType, ui.stateFilters, ui.stateSelectAll, filter)
    IN  /\ mayClick(ui)
        /\ ui' = defer([clicked(ui) EXCEPT !.currentPage = 1, !.stateFilters = new.filters,
                                           !.stateSelectAll = new.all])
        /\ UNCHANGED server

handleErrorTypeFilterClick(type) ==
    LET new == toggled(ErrorType, ui.errorTypeFilters, ui.errorSelectAll, type)
    IN  /\ mayClick(ui) /\ offersErrorTypes(ui)
        /\ ui' = defer([clicked(ui) EXCEPT !.currentPage = 1, !.errorTypeFilters = new.filters,
                                           !.errorSelectAll = new.all])
        /\ UNCHANGED server

handleSortClick(type) ==
    /\ mayClick(ui)
    /\ ui' = defer([clicked(ui) EXCEPT
                !.currentPage = 1, !.currentSortType = type,
                !.currentSortOrder = IF ui.currentSortType = type /\ @ = "descending"
                                     THEN "ascending" ELSE "descending"])
    /\ UNCHANGED server

\* Each key stroke starts the 200 ms of debounceSearch again.
handleSearchStringChange(text) ==
    /\ mayClick(ui)
    /\ ui' = [clicked(ui) EXCEPT !.currentPage = 1, !.searchString = text, !.debounce = TRUE]
    /\ UNCHANGED server

onPageChange(page) ==
    /\ mayClick(ui) /\ offersPages(ui)
    /\ ui' = defer([clicked(ui) EXCEPT !.currentPage = page])
    /\ UNCHANGED server

\* The page number stays, although it may lie behind the last page of the new size.
onPageSizeChange(size) ==
    /\ mayClick(ui) /\ offersPages(ui)
    /\ ui' = defer([clicked(ui) EXCEPT !.pageSize = size])
    /\ UNCHANGED server

User == \/ \E filter \in FilterType \cup {SELECT_ALL} : handleStateFilterClick(filter)
        \/ \E type \in ErrorType \cup {SELECT_ALL} : handleErrorTypeFilterClick(type)
        \/ \E type \in SortType : handleSortClick(type)
        \/ \E text \in SearchString : handleSearchStringChange(text)
        \/ \E page \in pagesOffered(ui) : onPageChange(page)
        \/ \E size \in PageSize : onPageSizeChange(size)

-----------------------------------------------------------------------------
(* Timers and answers *)

TimerFires == ui.timer /\ ui' = refreshLoop(ui) /\ UNCHANGED server

\* debounceSearch does not refresh itself: it defers refreshData once more.
DebounceFires == ui.debounce /\ ui' = defer([ui EXCEPT !.debounce = FALSE]) /\ UNCHANGED server

DeferredRefresh ==
    /\ ui.deferred > 0
    /\ ui' = refreshData([ui EXCEPT !.deferred = @ - 1])
    /\ UNCHANGED server

answered(u, request) == [u EXCEPT !.requests = without(@, request)]

\* The coordinator rejects a page behind the last one (QueryResource.getAllQueryInfo).
rowsOfPage(request) == server.rows - request.pageSize * (request.pageNum - 1)
inRange(request) == server.rows = 0 \/ rowsOfPage(request) > 0

AnswerArrives(request) ==
    /\ request \in DOMAIN ui.requests /\ inRange(request)
    /\ ui' = resetTimer([answered(ui, request) EXCEPT
                !.shown = {[for |-> request, rows |-> Max({0, Min({rowsOfPage(request), request.pageSize})})]},
                !.total = server.rows])
    /\ UNCHANGED server

RequestFails(request) ==
    /\ request \in DOMAIN ui.requests
    /\ ui' = resetTimer(answered(ui, request))
    /\ UNCHANGED server

QueriesChange == /\ server.changes < MaxChanges
                 /\ \E n \in 0..MaxRows : server' = [rows |-> n, changes |-> server.changes + 1]
                 /\ UNCHANGED ui

AnyAnswer == \E request \in DOMAIN ui.requests : AnswerArrives(request) \/ RequestFails(request)
Browser == TimerFires \/ DebounceFires \/ DeferredRefresh \/ AnyAnswer

Next == User \/ Browser \/ QueriesChange

-----------------------------------------------------------------------------

\* The polling never multiplies: what may still lead to a request (a timer, a
\* deferred call, a debounced search) and the requests on their way are together at
\* most one more than the user's actions, whatever overtakes what.  refreshLoop's
\* clearTimeout and resetTimer's keep it so.
PollingDoesNotMultiply ==
    countAll(ui.requests) + ui.deferred + (IF ui.timer THEN 1 ELSE 0)
        + (IF ui.debounce THEN 1 ELSE 0) <= 1 + ui.clicks

\* The page never falls silent: a timer is armed or an answer that arms it is due.
PollingAlive == ui.timer \/ DOMAIN ui.requests # {}

\* "Select All" is marked exactly when every filter of its menu is marked.
SelectAllMeansAll ==
    /\ stateChecked(ui, SELECT_ALL) <=> \A filter \in FilterType : stateChecked(ui, filter)
    /\ errorChecked(ui, SELECT_ALL) <=> \A type \in ErrorType : errorChecked(ui, type)

\* The list shows what the user chose last, unless the page chosen no longer exists.
ShowsChosen == \/ \E answer \in ui.shown : answer.for = queryString(ui)
               \/ ~inRange(queryString(ui))
=============================================================================
