----------------------------- MODULE LivePlanPage -----------------------------
(***************************************************************************)
(* The live plan of a query (the class LivePlan of                         *)
(* components/LivePlan.jsx): it polls the query every second until the     *)
(* information is final, and draws the graph of its stages after every     *)
(* answer.  A query that has not been planned yet has no output stage.     *)
(*                                                                         *)
(* The drawing is done in componentDidUpdate.  An exception there makes    *)
(* React remove the page (there is no error boundary); the promise that    *)
(* called setState is rejected, and its handler arms the timer all the     *)
(* same.  What the graph holds is abstracted to the answers it comes from: *)
(* the boxes of the stages are set again at every drawing, the plan nodes  *)
(* and the remote edges that lead to them, with the sizes on their labels, *)
(* only when they are not there yet.  A query keeps its plan once it has   *)
(* one, so all of them come with one answer.  The graph itself is the      *)
(* subject of PlanGraphs.                                                  *)
(***************************************************************************)
EXTENDS Integers

CONSTANT MaxChanges     \* bound: changes of the query on the coordinator

VARIABLES ui,       \* the React component
          server    \* the query on the coordinator

Unknown == {}

resetTimer(u) == [u EXCEPT !.timer = u.query = Unknown \/ ~u.ended]

refreshLoop(u) == [u EXCEPT !.timer = FALSE, !.requests = @ + 1]

constructor == [initialized |-> FALSE, ended |-> FALSE, query |-> Unknown, svg |-> FALSE,
                canvas |-> FALSE, boxes |-> {}, labels |-> {}, mounted |-> TRUE,
                failedFirst |-> FALSE, first |-> {}, timer |-> FALSE, requests |-> 0]

Init == /\ ui = refreshLoop(constructor)
        /\ server \in [version : {0}, planned : BOOLEAN, final : {FALSE}]

-----------------------------------------------------------------------------

\* getStages dereferences the output stage without asking whether there is one.
throws(u) == \E q \in u.query : ~q.planned

versions(query) == {q.version : q \in query}

\* The first call attaches the drawing to the canvas, and the setState that stores it
\* leads to the second call.  A page whose query is unknown renders no canvas, and what
\* is attached to nothing then draws into nothing.  The boxes of the stages are those of
\* the query at hand; a label that is there stays.
updateD3Graph_EveryTime(u) ==
    LET canvas == IF u.svg THEN u.canvas ELSE u.query # Unknown
    IN  IF throws(u) THEN [u EXCEPT !.svg = TRUE, !.mounted = FALSE]
        ELSE [u EXCEPT !.svg = TRUE, !.canvas = canvas,
                       !.boxes = IF @ = {} THEN versions(u.query) ELSE @,
                       !.labels = IF @ = {} THEN versions(u.query) ELSE @]
updateD3Graph(u) ==
    LET canvas == IF u.svg THEN u.canvas ELSE u.query # Unknown
    IN  IF throws(u) THEN [u EXCEPT !.svg = TRUE, !.mounted = FALSE]
        ELSE [u EXCEPT !.svg = TRUE, !.canvas = canvas, !.boxes = versions(u.query),
                       !.labels = IF @ = {} THEN versions(u.query) ELSE @]

\* setState and the componentDidUpdate that it causes.
setState(u) == IF u.mounted THEN updateD3Graph(u) ELSE u

AnswerArrives ==
    /\ ui.requests > 0
    /\ LET received == [ui EXCEPT !.query = IF ui.mounted THEN {server} ELSE @,
                                  !.initialized = TRUE,
                                  !.ended = IF ui.mounted THEN server.final ELSE @,
                                  !.first = IF @ = {} THEN {server.version} ELSE @,
                                  !.requests = @ - 1]
       IN  ui' = resetTimer(setState(received))
    /\ UNCHANGED server

RequestFails ==
    /\ ui.requests > 0
    /\ ui' = resetTimer(setState([ui EXCEPT !.initialized = TRUE, !.requests = @ - 1,
                                           !.failedFirst = @ \/ ui.query = Unknown]))
    /\ UNCHANGED server

TimerFires == ui.timer /\ ui' = refreshLoop(ui) /\ UNCHANGED server

QueryAdvances ==
    /\ server.version < MaxChanges /\ ~server.final
    /\ \E final, planned \in BOOLEAN :
          /\ server.planned \/ ~final => planned     \* a query that fails early is never planned
          /\ server' = [version |-> server.version + 1, planned |-> planned, final |-> final]
    /\ UNCHANGED ui

\* A page that shows the final information has come to its end.
Final == ui.ended /\ ui.requests = 0 /\ UNCHANGED <<ui, server>>

Browser == AnswerArrives \/ RequestFails \/ TimerFires
Next == Browser \/ QueryAdvances \/ Final

-----------------------------------------------------------------------------

\* What render shows.
view(u) ==
    CASE ~u.mounted -> "nothing"
      [] u.mounted /\ u.query = Unknown -> IF u.initialized THEN "Query not found" ELSE "Loading"
      [] OTHER -> IF \E q \in u.query : ~q.planned THEN "will appear" ELSE "graph"

\* The page says "Live plan graph will appear automatically when query starts running"
\* while the query has no output stage, so it must not lose the canvas before that.
PlanWillAppear == view(ui) # "nothing"

\* A page that is there, and whose first request was answered, has on its canvas the
\* statistics of the last answer in the boxes of the stages (componentDidUpdate follows
\* every setState), and those of the first answer on the remote edges: the sizes between
\* two stages are never brought up to date.
DrawnIsCurrent ==
    ui.mounted /\ ~ui.failedFirst /\ ui.query # Unknown =>
        ui.canvas /\ ui.boxes = versions(ui.query) /\ ui.labels = ui.first

\* Once the information is final a page that is still there shows it.
ShowsFinal == server.final /\ ui.mounted => ui.query = {server}
=============================================================================
