--------------------------- MODULE QueryDetailPage ---------------------------
(***************************************************************************)
(* The page of one query (components/QueryDetail.jsx): it polls the query  *)
(* every three seconds until it has the final information, keeps snapshots *)
(* of stages and tasks that the user may freeze, and collects samples for  *)
(* its sparklines, which are drawn at most once a second.                  *)
(*                                                                         *)
(* A step is one callback of the event loop.  Outside an event handler of  *)
(* React, setState renders at once, so componentDidUpdate is part of the   *)
(* step.  Time passes in ticks of one second that are not aligned with the *)
(* callbacks: what happened before the last tick may be less than a second *)
(* old, what happened before the one before that is not.                   *)
(* The answer of the coordinator is abstracted to its version (of stages   *)
(* and tasks), its state and whether it is final.                          *)
(***************************************************************************)
EXTENDS Integers, FiniteSetsExt

CONSTANTS MaxHistory,   \* MAX_HISTORY: samples of a sparkline that are kept
          MaxChanges,   \* bound: changes of the query on the coordinator
          MaxClicks     \* bound: actions of the user

VARIABLES ui,       \* the React component
          server    \* the query on the coordinator

Unknown == {}       \* null; otherwise a field holds the set of one value
Never == -1         \* no timer

\* addToHistory (utils.js): the oldest sample goes when there were more than MAX_HISTORY.
addToHistory(n) == n + 1 - Max({n - MaxHistory, 0})

-----------------------------------------------------------------------------

\* componentDidUpdate: draw the sparklines, unless they were drawn in the last second.
mayDraw(u, draw) == IF draw THEN u.sinceDraw >= 1 ELSE u.sinceDraw <= 1
componentDidUpdate(u, draw) == IF draw THEN [u EXCEPT !.undrawn = 0, !.sinceDraw = 0] ELSE u

resetTimer_Always(u) == [u EXCEPT !.timer = 3]
resetTimer(u) == [u EXCEPT !.timer = IF u.query = Unknown \/ ~u.ended THEN 3 ELSE Never]

refreshLoop(u) == [u EXCEPT !.timer = Never, !.requests = @ + 1]

constructor ==
    [query |-> Unknown, lastSnapshotStage |-> Unknown, lastSnapshotTasks |-> Unknown,
     samples |-> 0, undrawn |-> 0, sinceDraw |-> 2,
     initialized |-> FALSE, ended |-> FALSE, lastRefresh |-> FALSE,
     stageRefresh |-> TRUE, taskRefresh |-> TRUE, taskFilter |-> "ALL",
     timer |-> Never, requests |-> 0, clicks |-> 0]

Init == /\ ui = refreshLoop(constructor)
        /\ server \in [version : {0}, state : {"QUEUED", "RUNNING", "FINISHED"}, final : {FALSE}]

-----------------------------------------------------------------------------
(* The callback of refreshLoop's request *)

\* The first setState: a snapshot that is frozen stays.
received_Thaws(u, query) ==
    [u EXCEPT !.query = {query},
              !.lastSnapshotStage = IF u.stageRefresh THEN {query.version} ELSE @,
              !.lastSnapshotTasks = {query.version},
              !.initialized = TRUE, !.ended = query.final, !.lastRefresh = TRUE]
received(u, query) ==
    [u EXCEPT !.query = {query},
              !.lastSnapshotStage = IF u.stageRefresh THEN {query.version} ELSE @,
              !.lastSnapshotTasks = IF u.taskRefresh THEN {query.version} ELSE @,
              !.initialized = TRUE, !.ended = query.final, !.lastRefresh = TRUE]

\* The second setState, and its componentDidUpdate, which comes right after the first.
\* A clock that was set back (elapsed < 0) costs the sample.
takesSample(u, query, elapsed) ==
    ~(u.ended \/ (~u.lastRefresh /\ query.state = "RUNNING")) /\ elapsed >= 0
sampled(u) == [u EXCEPT !.samples = addToHistory(@), !.undrawn = @ + 1]

AnswerArrives ==
    /\ ui.requests > 0
    /\ \E draw \in BOOLEAN, elapsed \in {-1, 0, 3} :
          LET u == componentDidUpdate([received(ui, server) EXCEPT !.requests = @ - 1], draw)
          IN  /\ mayDraw(ui, draw)
              /\ ui' = resetTimer(IF takesSample(ui, server, elapsed) THEN sampled(u) ELSE u)
    /\ UNCHANGED server

RequestFails ==
    /\ ui.requests > 0
    /\ \E draw \in BOOLEAN :
          /\ mayDraw(ui, draw)
          /\ ui' = resetTimer(componentDidUpdate(
                       [ui EXCEPT !.requests = @ - 1, !.initialized = TRUE], draw))
    /\ UNCHANGED server

-----------------------------------------------------------------------------
(* The user.  The buttons are rendered once there is a snapshot. *)

click(u) == \E draw \in BOOLEAN :
    /\ ui.clicks < MaxClicks
    /\ mayDraw(ui, draw)
    /\ ui' = componentDidUpdate([u EXCEPT !.clicks = @ + 1], draw)
    /\ UNCHANGED server

shownVersion(u) == {q.version : q \in u.query}

handleTaskRefreshClick ==
    /\ ui.lastSnapshotTasks # Unknown
    /\ click([ui EXCEPT !.taskRefresh = ~@,
                        !.lastSnapshotTasks = IF ui.taskRefresh THEN shownVersion(ui) ELSE @])

\* The snapshot of the stages is stored under another name (lastSnapshotStages) and
\* never used; the one that is shown stays what the last answer brought.
handleStageRefreshClick ==
    /\ ui.lastSnapshotStage # Unknown
    /\ click([ui EXCEPT !.stageRefresh = ~@])

handleTaskFilterClick ==
    /\ ui.lastSnapshotTasks # Unknown
    /\ \E filter \in {"ALL", "RUNNING"} : click([ui EXCEPT !.taskFilter = filter])

-----------------------------------------------------------------------------

\* A second passes.  A timer fires before the second after its end is over.
Tick == /\ ui.timer # 0
        /\ ui' = [ui EXCEPT !.timer = IF @ = Never THEN Never ELSE @ - 1,
                            !.sinceDraw = Min({@ + 1, 2})]
        /\ UNCHANGED server

TimerFires == ui.timer = 0 /\ ui' = refreshLoop(ui) /\ UNCHANGED server

\* The query moves on; the information is final some time after it has finished.
QueryAdvances ==
    /\ server.version < MaxChanges /\ ~server.final
    /\ \E state \in {"RUNNING", "FINISHED"} :
          /\ server.state = "FINISHED" => state = "FINISHED"
          /\ server' = [version |-> server.version + 1, state |-> state,
                        final |-> server.state = "FINISHED"]
    /\ UNCHANGED ui

User == handleTaskRefreshClick \/ handleStageRefreshClick \/ handleTaskFilterClick
Browser == AnswerArrives \/ RequestFails \/ TimerFires
Next == User \/ Browser \/ Tick \/ QueryAdvances

-----------------------------------------------------------------------------

\* With auto-refresh off, the tasks on the screen do not change under the reader's
\* eyes, whatever answers come in; nor do the stages.
FrozenMeansFrozen ==
    /\ ~ui.taskRefresh /\ ~ui'.taskRefresh => ui'.lastSnapshotTasks = ui.lastSnapshotTasks
    /\ ~ui.stageRefresh /\ ~ui'.stageRefresh => ui'.lastSnapshotStage = ui.lastSnapshotStage

\* The sparklines miss at most the last sample: it is added right after they were
\* drawn, and an answer whose drawing is suppressed follows a drawing by less than a
\* second.  With the final answer nothing draws it any more.
SparklinesLagByOne == ui.undrawn <= 1 /\ ui.samples <= MaxHistory + 1

\* Once the information is final the page has it.
ShowsFinal == server.final => ui.query = {server}
=============================================================================
