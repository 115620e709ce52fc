------------------------------ MODULE QueryLook ------------------------------
(***************************************************************************)
(* How the web UI shows a query, a stage, a task and a run: colours,       *)
(* titles, progress bars and the buttons that are offered (utils.js,       *)
(* newUtils.js, QueryHeader.jsx, QueryMonitor.jsx, QueryDetail.jsx and     *)
(* RunsTable.jsx).  All of it is computed afresh from what the coordinator *)
(* last said, a record of which only the fields that are read are kept:    *)
(*   state; errorType ("" when there is none) and canceled, that the code  *)
(*   of the error is USER_CANCELED; fullyBlocked, scheduled, totalDrivers, *)
(*   runningDrivers, queuedDrivers; reserved, the pool it runs in;         *)
(*   progress, in tenths of a percent (0 is also an absent value);         *)
(*   recoveryEnabled.                                                      *)
(***************************************************************************)
EXTENDS Integers

ErrorType == {"", "USER_ERROR", "INTERNAL_ERROR", "INSUFFICIENT_RESOURCES", "EXTERNAL"}
Ended == {"FINISHED", "FAILED", "CANCELED"}

isQueryEnded(query) == query.state \in Ended

failureColor(query) ==
    CASE query.errorType = "USER_ERROR" -> IF query.canceled THEN "CANCELED" ELSE "USER_ERROR"
      [] query.errorType = "EXTERNAL" -> "EXTERNAL_ERROR"
      [] query.errorType = "INSUFFICIENT_RESOURCES" -> "INSUFFICIENT_RESOURCES"
      [] OTHER -> "UNKNOWN_ERROR"

getQueryStateColor(query) ==
    CASE query.state = "PLANNING" -> "PLANNING"
      [] query.state = "SUSPENDED" -> "BLOCKED"
      [] query.state \in {"STARTING", "FINISHING", "RUNNING"} ->
           IF query.fullyBlocked THEN "BLOCKED" ELSE "RUNNING"
      [] query.state = "FAILED" -> failureColor(query)
      [] query.state = "FINISHED" -> "FINISHED"
      [] OTHER -> "QUEUED"

getStageStateColor(stage) ==
    CASE stage.state = "PLANNED" -> "QUEUED"
      [] stage.state = "SUSPENDED" -> "BLOCKED"
      [] stage.state \in {"SCHEDULING", "SCHEDULING_SPLITS", "SCHEDULED"} -> "PLANNING"
      [] stage.state = "RUNNING" -> IF stage.fullyBlocked THEN "BLOCKED" ELSE "RUNNING"
      [] stage.state = "FINISHED" -> "FINISHED"
      [] stage.state \in {"CANCELED", "ABORTED"} -> "CANCELED"
      [] stage.state = "FAILED" -> "UNKNOWN_ERROR"
      [] OTHER -> "grey"

\* A task of a stage: the list of tasks says BLOCKED, and the filter of the list lets it pass.
formatState(task) == IF task.fullyBlocked /\ task.state = "RUNNING" THEN "BLOCKED" ELSE task.state
TASK_FILTER(filter, task) ==
    CASE filter = "ALL" -> TRUE
      [] filter = "FAILED" -> task.state \in {"FAILED", "ABORTED", "CANCELED"}
      [] OTHER -> task.state = filter

-----------------------------------------------------------------------------

failureTitle(query) ==
    CASE query.errorType = "USER_ERROR" -> IF query.canceled THEN "USER CANCELED" ELSE "USER ERROR"
      [] query.errorType = "INTERNAL_ERROR" -> "INTERNAL ERROR"
      [] query.errorType = "INSUFFICIENT_RESOURCES" -> "INSUFFICIENT RESOURCES"
      [] query.errorType = "EXTERNAL" -> "EXTERNAL ERROR"
      [] OTHER -> "FAILED"

\* The title has the word and whether "(RESERVED)" follows it.
getHumanReadableState(query) ==
    LET started == query.scheduled /\ query.totalDrivers > 0 /\ query.runningDrivers >= 0
        says(word, reserved) == [word |-> word, reserved |-> reserved]
    IN  CASE query.state = "RUNNING" /\ started ->
               says(IF query.fullyBlocked THEN "BLOCKED" ELSE "RUNNING", query.reserved)
          [] query.state = "FAILED" -> says(failureTitle(query), FALSE)
          [] OTHER -> says(query.state, FALSE)

\* The functions of newUtils.js look for the type of the error in a field that only the query
\* history has, and know no cancellation.  A query of the history has no statistics.
ofHistory(query) == [query EXCEPT !.canceled = FALSE, !.fullyBlocked = FALSE, !.scheduled = FALSE]
historyColor(query) == getQueryStateColor(ofHistory(query))
historyTitle(query) == getHumanReadableState(ofHistory(query))

\* The list of queries heads the dialog with the whole text of a query by newUtils.js, too.
dialogTitle(query) == getHumanReadableState([query EXCEPT !.errorType = ""])

getProgressBarPercentage(query) ==
    IF query.progress = 0 \/ query.state # "RUNNING" THEN 100 ELSE (query.progress + 5) \div 10

\* The percentages that the title mentions: none or one.
getProgressBarTitle(query) ==
    [state |-> getHumanReadableState(query),
     percent |-> IF query.progress # 0 /\ query.state = "RUNNING" THEN {getProgressBarPercentage(query)} ELSE {}]

isSuspendable_AnyState(query) == query.recoveryEnabled
isSuspendable(query) == query.state = "RUNNING" /\ query.recoveryEnabled
isResumable(query) == query.state = "SUSPENDED" /\ query.recoveryEnabled

\* What the header of the pages of one query offers.
renderProgressBar(query) ==
    [width |-> getProgressBarPercentage(query), color |-> getQueryStateColor(query),
     title |-> getProgressBarTitle(query),
     buttons |-> IF isQueryEnded(query) THEN {}
                 ELSE {"Preempt", "Kill"}
                        \cup (IF isSuspendable(query) THEN {"Suspend"} ELSE {})
                        \cup (IF isResumable(query) THEN {"Resume"} ELSE {})]

\* The row of the list of queries: no split runs or waits once the query is over.
renderRow(query) ==
    LET over == query.state \in {"FINISHED", "FAILED"}
    IN  [width |-> getProgressBarPercentage(query), color |-> getQueryStateColor(query),
         title |-> getProgressBarTitle(query), dialog |-> dialogTitle(query),
         running |-> IF over THEN 0 ELSE query.runningDrivers,
         queued |-> IF over THEN 0 ELSE query.queuedDrivers]

renderHistoryRow(query) ==
    LET over == query.state \in {"FINISHED", "FAILED"}
    IN  [width |-> 100, color |-> historyColor(query), title |-> historyTitle(query), dialog |-> historyTitle(query),
         running |-> IF over THEN 0 ELSE query.runningDrivers,
         queued |-> IF over THEN 0 ELSE query.queuedDrivers]

-----------------------------------------------------------------------------
(* A run in the editor: its state; whose it is; where its output went      *)
(* ("nowhere", a "file" or a "table"); its progress.                       *)

Active == {"RUNNING", "QUEUED", "RESCHEDULING", "RESUMING"}

statusCell(run) ==
    CASE run.state = "FAILED" -> "danger"
      [] run.state = "FINISHED" -> "success"
      [] run.state = "QUEUED" -> "default"
      [] OTHER -> "info"

outputCell_LocationFirst(run) ==
    CASE run.output = "file" -> {"download", "preview"}
      [] run.output = "table" -> {"select table"}
      [] run.output = "nowhere" /\ run.state \in Active -> {"progress"} \cup (IF run.mine THEN {"kill"} ELSE {})
      [] run.output = "nowhere" /\ run.state = "FAILED" -> {"error"}
      [] OTHER -> {}
outputCell(run) ==
    LET delivered == run.output # "nowhere" /\ run.state # "FAILED"
    IN  CASE delivered -> IF run.output = "file" THEN {"download", "preview"} ELSE {"select table"}
          [] ~delivered /\ run.state \in Active -> {"progress"} \cup (IF run.mine THEN {"kill"} ELSE {})
          [] ~delivered /\ run.state = "FAILED" -> {"error"}
          [] OTHER -> {}
=============================================================================
