---------------------------- MODULE OverviewPage ----------------------------
(***************************************************************************)
(* The overview dashboard (overview/OverviewMain.jsx, EchartPart.jsx,      *)
(* OverviewStore.js and OverviewActions.js) and the list of the nodes,     *)
(* another page with the same store (NodesMain.jsx).  An interval timer    *)
(* sends two requests every second, one for the lines of the charts and    *)
(* one for the memory of the workers, without waiting for earlier answers. *)
(* The store counts the answers, and the charts take a sample with every   *)
(* second answer, whichever two these were.                                *)
(*                                                                         *)
(* A chart is abstracted to the number of its samples, which stays what    *)
(* setXAxis filled in; the charts other than that of the CPU are alike.    *)
(* The memory of the workers is abstracted to the pools a worker reports.  *)
(***************************************************************************)
EXTENDS Integers

CONSTANTS Window,       \* samples of a chart: 30*60 in the code
          Chart,        \* the charts that can be selected
          MaxRequests,  \* bound: requests of a kind on their way
          MaxAnswers,   \* bound: answers that are counted
          MaxClicks     \* bound: actions of the user

VARIABLES ui,       \* the React components and their store
          server    \* not looked at

Request == {"line", "memory"}
Pools == {{}, {"general"}, {"general", "reserved"}}

getData(u) == [u EXCEPT !.requests["line"] = @ + 1]
getMemoryData(u) == [u EXCEPT !.requests["memory"] = @ + 1]

\* setXAxis fills every chart with zeros.
constructor(page) ==
    [page |-> page, lineData |-> FALSE, memoryData |-> {}, requestNum |-> 0, memoryInit |-> FALSE,
     chartCpu |-> Window, charts |-> Window, step |-> 10,
     checkStatus |-> Chart, selectedItemList |-> Chart,
     tableData |-> {}, summary |-> FALSE, early |-> 0,
     timer |-> TRUE, requests |-> [request \in Request |-> 0], clicks |-> 0]

\* The list of the nodes waits for its interval timer, the charts do not.
Init == /\ ui \in {getMemoryData(getData(constructor("overview"))), constructor("nodes")}
        /\ server = 0

-----------------------------------------------------------------------------
(* An answer: the store, then its listeners in the order in which they were mounted *)

\* delete takes the first sample out of the chart in place, before the new one is there.
delete_Copies(n) == n
delete(n) == n - (IF n = 0 THEN 0 ELSE 1)

\* EchartPart: without line data it throws, after the CPU's chart has lost its first sample.
chartsChanged(u) ==
    LET init == [u EXCEPT !.memoryInit = @ \/ u.memoryData # {}]
    IN  IF u.requestNum % 2 # 0 THEN u
        ELSE IF u.lineData
             THEN [init EXCEPT !.chartCpu = delete(@) + 1, !.charts = delete(@) + 1]
             ELSE [init EXCEPT !.chartCpu = delete(@), !.early = @ + 1]

\* The free memory of a node: that of its pools, or all it has if there is no general pool.
row(pools) == IF "general" \in pools THEN pools ELSE {"totalNodeMemory"}

\* OverviewMain, which the exception of the listener before it does not reach, would throw
\* itself without line data.
summaryChanged(u) ==
    IF u.lineData THEN [u EXCEPT !.tableData = {row(pools) : pools \in u.memoryData}, !.summary = TRUE]
    ELSE u

nodesChanged(u) == [u EXCEPT !.tableData = {row(pools) : pools \in u.memoryData}]

changed(u) == IF u.page = "nodes" THEN nodesChanged(u) ELSE summaryChanged(chartsChanged(u))

mayAnswer == ui.requestNum < MaxAnswers

onReceiveData ==
    /\ ui.requests["line"] > 0 /\ mayAnswer
    /\ ui' = changed([ui EXCEPT !.requests["line"] = @ - 1, !.lineData = TRUE, !.requestNum = @ + 1])
    /\ UNCHANGED server

onMemoryData ==
    /\ ui.requests["memory"] > 0 /\ mayAnswer
    /\ \E pools \in Pools :
          ui' = changed([ui EXCEPT !.requests["memory"] = @ - 1, !.memoryData = {pools}, !.requestNum = @ + 1])
    /\ UNCHANGED server

\* The actions do not handle a rejected promise.
RequestFails(request) ==
    /\ ui.requests[request] > 0
    /\ ui' = [ui EXCEPT !.requests[request] = @ - 1]
    /\ UNCHANGED server

\* lineDatas
IntervalFires ==
    /\ ui.timer /\ \A request \in Request : ui.requests[request] < MaxRequests
    /\ ui' = getMemoryData(getData(ui))
    /\ UNCHANGED server

-----------------------------------------------------------------------------
(* The user *)

changeList(list) ==
    /\ ui.clicks < MaxClicks /\ ui.page = "overview"
    /\ ui' = [ui EXCEPT !.checkStatus = list, !.selectedItemList = list, !.clicks = @ + 1]
    /\ UNCHANGED server

\* Another window of time: the interval is started again.
selected(step) ==
    /\ ui.clicks < MaxClicks /\ ui.page = "overview" /\ ui.requests["line"] < MaxRequests
    /\ ui' = getData([ui EXCEPT !.step = step, !.timer = TRUE, !.clicks = @ + 1])
    /\ UNCHANGED server

User == (\E list \in SUBSET Chart : changeList(list)) \/ (\E step \in {10, 20, 30} : selected(step))
Browser == onReceiveData \/ onMemoryData \/ IntervalFires
               \/ \E request \in Request : RequestFails(request)
Next == User \/ Browser

-----------------------------------------------------------------------------

\* The charts always cover the same window of time: a new sample drops the oldest.  Only
\* the chart of the CPU is shorter, by one sample for every pair of answers that arrived
\* before any line data did.
ChartsCoverWindow ==
    /\ ui.charts = Window
    /\ ui.chartCpu = Window - ui.early \/ (ui.early >= Window /\ ui.chartCpu \in 0..1)
    /\ ui.early * 2 <= ui.requestNum

\* The table names every node of the last answer about memory with the free memory of all
\* its pools, on the nodes page at once and on the overview from the first line data on.
SummaryComplete ==
    ui.page = "nodes" \/ ui.lineData =>
        /\ ui.tableData = {IF pools = {} THEN {"totalNodeMemory"} ELSE pools : pools \in ui.memoryData}
        /\ ui.page = "overview" => ui.summary
=============================================================================
