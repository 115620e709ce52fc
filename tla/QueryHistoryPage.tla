-------------------------- MODULE QueryHistoryPage --------------------------
(***************************************************************************)
(* The query history of the web UI (components/QueryList.jsx).  It looks   *)
(* like the query monitor, but a refresh asks only for the number of       *)
(* queries in the history, and fetches the list when that number or its    *)
(* own request (queryString) has changed since the last time.              *)
(*                                                                         *)
(* The conventions are those of QueryMonitorPage.  Requests are kept in    *)
(* the order in which they were sent.  The coordinator works on one at     *)
(* some time between its sending and its answer, and sees the history of   *)
(* that time.  The filters are sequences: a filter that is taken out and   *)
(* put back ends up last, which makes another queryString.                 *)
(***************************************************************************)
EXTENDS Collections

CONSTANTS FilterType, ErrorType, SortType,  \* what the menus offer
          Field,                            \* the input fields, "Date" among them
          SearchString, PageSize,           \* what the user may type and pick
          MaxRequests,                      \* bound: requests on their way
          MaxClicks,                        \* bound: actions of the user
          MaxChanges                        \* bound: queries that finish meanwhile

VARIABLES ui,       \* the React component
          server    \* the number of queries in the history

SELECT_ALL == "all"
NoList == {}
NoString == <<>>

queryParam(u) ==
    <<u.stateFilters, u.errorTypeFilters, u.currentSortType, u.currentSortOrder,
      u.search, u.currentPage, u.pageSize>>

get(u, kind, params) ==
    [u EXCEPT !.requests = Append(@, [kind |-> kind, params |-> params, since |-> server])]
isAsked(u, params) == \E i \in DOMAIN u.requests : u.requests[i].kind = "queryNums" /\ u.requests[i].params # params

\* Ask for the number of queries; fetch the list at once if the request is a new one.
refreshData_NumberOnly(u) == [get(u, "queryNums", queryParam(u)) EXCEPT !.queryString = queryParam(u)]
refreshData(u) ==
    LET nums == get(u, "queryNums", queryParam(u))
        info == IF queryParam(u) # u.queryString
                THEN get(nums, "queryInfo", queryParam(u)) ELSE nums
    IN  [info EXCEPT !.queryString = queryParam(u), !.crossed = @ \/ isAsked(u, queryParam(u))]

resetTimer(u) == [u EXCEPT !.timer = TRUE]

refreshLoop(u) == refreshData([u EXCEPT !.timer = FALSE])

constructor ==
    [currentSortType |-> "creation", currentSortOrder |-> "descending",
     stateFilters |-> SetToSeq(FilterType), errorTypeFilters |-> SetToSeq(ErrorType),
     stateSelectAll |-> TRUE, errorSelectAll |-> TRUE,
     search |-> [f \in Field |-> ""], currentPage |-> 1, pageSize |-> 1,
     queryString |-> NoString, queryNums |-> -1, shown |-> NoList,
     timer |-> FALSE, debounce |-> FALSE, deferred |-> 0, requests |-> <<>>,
     clicks |-> 0, numsFailed |-> FALSE, infoFailed |-> FALSE, overtaken |-> FALSE, crossed |-> FALSE]

\* componentDidMount asks for the type of the metastore and starts the first refresh.
componentDidMount(u) == refreshLoop(get(u, "hetuMetastoreType", NoString))

Init == /\ server = 0
        /\ ui = componentDidMount(constructor)

-----------------------------------------------------------------------------
(* The user *)

mayClick(u) == u.clicks < MaxClicks
clicked(u) == [u EXCEPT !.clicks = @ + 1]
defer(u) == [u EXCEPT !.deferred = @ + 1]

offersErrorTypes(u) == Contains(u.stateFilters, "failed")

stateChecked(u, filter) ==
    Contains(u.stateFilters, filter) \/ (filter = SELECT_ALL /\ u.stateSelectAll)
errorChecked(u, type) ==
    Contains(u.errorTypeFilters, type) \/ (type = SELECT_ALL /\ u.errorSelectAll)

toggled(all, chosen, selectAll, filter) ==
    IF filter = SELECT_ALL
    THEN [filters |-> IF selectAll THEN <<>> ELSE SetToSeq(all), all |-> ~selectAll]
    ELSE LET new == IF Contains(chosen, filter) THEN Remove(chosen, filter)
                    ELSE Append(chosen, filter)
         IN  [filters |-> new, all |-> Len(new) = Cardinality(all)]

handleStateFilterClick(filter) ==
    LET new == toggled(FilterType, ui.stateFilters, ui.stateSelectAll, filter)
    IN  /\ mayClick(ui)
        /\ ui' = defer([clicked(ui) EXCEPT !.currentPage = 1, !.stateFilters = new.filters,
                                           !.stateSelectAll = new.all])
        /\ UNCHANGED server

handleErrorTypeFilterClick(type) ==
    LET new == toggled(ErrorType, ui.errorTypeFilters, ui.errorSelectAll, type)
    IN  /\ mayClick(ui) /\ offersErrorTypes(ui)
        /\ ui' = defer([clicked(ui) EXCEPT !.currentPage = 1, !.errorTypeFilters = new.filters,
                                           !.errorSelectAll = new.all])
        /\ UNCHANGED server

handleSortClick(type) ==
    /\ mayClick(ui)
    /\ ui' = defer([clicked(ui) EXCEPT
                !.currentPage = 1, !.currentSortType = type,
                !.currentSortOrder = IF ui.currentSortType = type /\ @ = "descending"
                                     THEN "ascending" ELSE "descending"])
    /\ UNCHANGED server

handleSearchStringChange(field, text) ==
    /\ mayClick(ui)
    /\ ui' = [clicked(ui) EXCEPT !.currentPage = 1, !.search[field] = text, !.debounce = TRUE]
    /\ UNCHANGED server

\* The handlers that renderDateRangePicker binds to the picker: they change the field
\* without going back to the first page.
datePicked(text) ==
    /\ mayClick(ui)
    /\ ui' = [clicked(ui) EXCEPT !.search["Date"] = text, !.debounce = TRUE]
    /\ UNCHANGED server

\* Pagination is always there on this page.
onPageChange(page) ==
    /\ mayClick(ui)
    /\ ui' = defer([clicked(ui) EXCEPT !.currentPage = page])
    /\ UNCHANGED server

onPageSizeChange(size) ==
    /\ mayClick(ui)
    /\ ui' = defer([clicked(ui) EXCEPT !.pageSize = size])
    /\ UNCHANGED server

User == \/ \E filter \in FilterType \cup {SELECT_ALL} : handleStateFilterClick(filter)
        \/ \E type \in ErrorType \cup {SELECT_ALL} : handleErrorTypeFilterClick(type)
        \/ \E type \in SortType : handleSortClick(type)
        \/ \E field \in Field, text \in SearchString : handleSearchStringChange(field, text)
        \/ \E text \in SearchString : datePicked(text)
        \/ \E page \in 1..2 : onPageChange(page)
        \/ \E size \in PageSize : onPageSizeChange(size)

-----------------------------------------------------------------------------
(* Timers, the coordinator and its answers *)

room(u) == Len(u.requests) + 2 <= MaxRequests

TimerFires == ui.timer /\ room(ui) /\ ui' = refreshLoop(ui) /\ UNCHANGED server

DebounceFires == ui.debounce /\ ui' = defer([ui EXCEPT !.debounce = FALSE]) /\ UNCHANGED server

DeferredRefresh ==
    /\ ui.deferred > 0 /\ room(ui)
    /\ ui' = refreshData([ui EXCEPT !.deferred = @ - 1])
    /\ UNCHANGED server

answered(u, i) == [u EXCEPT !.requests = RemoveAt(@, i), !.overtaken = @ \/ i > 1]

\* The first callback of refreshData: a new number is stored, and the list is fetched
\* for the parameters of the time when the number was asked for.
queryNumsArrives(i, num) ==
    LET request == ui.requests[i]
        u == [answered(ui, i) EXCEPT !.queryNums = num]
    IN  /\ request.kind = "queryNums"
        /\ ui' = resetTimer(IF ui.queryNums # num THEN get(u, "queryInfo", request.params) ELSE u)

queryInfoArrives(i, num) ==
    /\ ui.requests[i].kind = "queryInfo"
    /\ ui' = resetTimer([answered(ui, i) EXCEPT
                !.shown = {[for |-> ui.requests[i].params, num |-> num]}])

metastoreTypeArrives(i) ==
    /\ ui.requests[i].kind = "hetuMetastoreType"
    /\ ui' = resetTimer(answered(ui, i))

AnswerArrives(i) ==
    /\ \/ \E num \in ui.requests[i].since..server : queryNumsArrives(i, num) \/ queryInfoArrives(i, num)
       \/ metastoreTypeArrives(i)
    /\ UNCHANGED server

\* Only the request for the number has no handler for its failure.
RequestFails(i) ==
    /\ LET kind == ui.requests[i].kind
           u == answered(ui, i)
       IN  ui' = IF kind = "queryNums" THEN [u EXCEPT !.numsFailed = TRUE]
                 ELSE resetTimer([u EXCEPT !.infoFailed = @ \/ kind = "queryInfo"])
    /\ UNCHANGED server

QueryFinishes == server < MaxChanges /\ server' = server + 1 /\ UNCHANGED ui

Browser == \/ TimerFires \/ DebounceFires \/ DeferredRefresh
           \/ \E i \in DOMAIN ui.requests : AnswerArrives(i) \/ RequestFails(i)

Next == User \/ Browser \/ QueryFinishes

-----------------------------------------------------------------------------

\* The page falls silent only after a request for the number failed: refreshData gives
\* it no failure handler, while every other request arms the timer in both cases.
PollingAlive == ui.timer \/ ui.requests # <<>> \/ ui.numsFailed

\* "Select All" is marked exactly when every filter of its menu is marked.
SelectAllMeansAll ==
    /\ stateChecked(ui, SELECT_ALL) <=> \A filter \in FilterType : stateChecked(ui, filter)
    /\ errorChecked(ui, SELECT_ALL) <=> \A type \in ErrorType : errorChecked(ui, type)

\* When nothing is on its way, the list is the one that the user chose last and is as
\* recent as the number that the page remembers, provided that answers came in the
\* order of their requests, none failed, and the user changed the request at no time
\* when the number was being asked for (crossed): its callback fetches the list with
\* the old parameters.  Nothing repairs a stale list, as the page skips fetching it
\* when neither the number nor the request changed.
QuietMeansFresh ==
    ui.requests = <<>> /\ ui.deferred = 0 /\ ~ui.debounce
        /\ ~(ui.overtaken \/ ui.numsFailed \/ ui.infoFailed \/ ui.crossed)
    => \E answer \in ui.shown : answer.for = queryParam(ui) /\ answer.num >= ui.queryNums
=============================================================================
