--------------------------- MODULE StageDetailPage ---------------------------
(***************************************************************************)
(* The page of one stage (the class StageDetail of                         *)
(* components/StageDetail.jsx): it polls the whole query every second      *)
(* until the information is final, and shows the operators of the stage    *)
(* that the user selected.  A request takes the selection along and its    *)
(* answer writes it back, so a selection made meanwhile is undone.         *)
(* The operator graph itself is the subject of PlanGraphs.                 *)
(***************************************************************************)
EXTENDS Integers, Sequences, FiniteSets

CONSTANTS Stage,        \* stage numbers; 0 is the output stage
          MaxChanges,   \* bound: changes of the query on the coordinator
          MaxClicks     \* bound: selections of the user

VARIABLES ui,       \* the React component
          server    \* the query on the coordinator

NoStage == -1
Unknown == {}

resetTimer_FirstAnswer(u) == [u EXCEPT !.timer = u.query = Unknown]
resetTimer(u) == [u EXCEPT !.timer = u.query = Unknown \/ ~u.ended]

\* The selection that the answer will set: the first time it comes from the URL.
refreshLoop(u) ==
    LET selected == IF u.selectedStageId = NoStage THEN u.url ELSE u.selectedStageId
    IN  [u EXCEPT !.timer = FALSE, !.requests = Append(@, selected)]

constructor(url) ==
    [initialized |-> FALSE, ended |-> FALSE, selectedStageId |-> NoStage, query |-> Unknown,
     url |-> url, timer |-> FALSE, requests |-> <<>>, clicks |-> 0,
     picked |-> NoStage, undisturbed |-> FALSE]

\* The query has no stages before it is planned.
Init == /\ \E url \in Stage : ui = refreshLoop(constructor(url))
        /\ server = [stages |-> {}, isEnded |-> FALSE, final |-> FALSE, changes |-> 0]

-----------------------------------------------------------------------------

AnswerArrives ==
    /\ ui.requests # <<>>
    /\ ui' = resetTimer([ui EXCEPT !.initialized = TRUE, !.ended = server.final,
                                   !.selectedStageId = Head(ui.requests), !.query = {server},
                                   !.requests = Tail(@)])
    /\ UNCHANGED server

RequestFails ==
    /\ ui.requests # <<>>
    /\ ui' = resetTimer([ui EXCEPT !.initialized = TRUE, !.requests = Tail(@)])
    /\ UNCHANGED server

TimerFires == ui.timer /\ ui' = refreshLoop(ui) /\ UNCHANGED server

\* What render shows.
stagesShown(u) == UNION {q.stages : q \in u.query}
view(u) ==
    CASE u.query = Unknown -> IF u.initialized THEN "Query not found" ELSE "Loading"
      [] stagesShown(u) = {} /\ u.query # Unknown -> "no output stage"
      [] stagesShown(u) # {} /\ u.selectedStageId \notin stagesShown(u) -> "Stage not found"
      [] OTHER -> IF \E q \in u.query : q.isEnded THEN "operator graph" ELSE "will appear"

\* The menu of the stages is there when the selected stage is.
select_Later(stage) ==
    /\ ui.clicks < MaxClicks /\ view(ui) \in {"operator graph", "will appear"}
    /\ stage \in stagesShown(ui)
    /\ ui' = [ui EXCEPT !.url = stage, !.clicks = @ + 1,
                        !.picked = stage, !.undisturbed = ui.requests = <<>>]
    /\ UNCHANGED server
select(stage) ==
    /\ ui.clicks < MaxClicks /\ view(ui) \in {"operator graph", "will appear"}
    /\ stage \in stagesShown(ui)
    /\ ui' = [ui EXCEPT !.selectedStageId = stage, !.clicks = @ + 1,
                        !.picked = stage, !.undisturbed = ui.requests = <<>>]
    /\ UNCHANGED server

\* The query is planned, ends, and some time later its information is final.
QueryAdvances ==
    /\ ~server.final /\ server.changes < MaxChanges
    /\ \/ server.stages = {} /\ server' = [server EXCEPT !.stages = Stage, !.changes = @ + 1]
       \/ ~server.isEnded /\ server' = [server EXCEPT !.isEnded = TRUE, !.changes = @ + 1]
       \/ server.isEnded /\ server' = [server EXCEPT !.final = TRUE, !.changes = @ + 1]
    /\ UNCHANGED ui

User == \E stage \in Stage : select(stage)
Browser == AnswerArrives \/ RequestFails \/ TimerFires

\* A page that shows the final information has come to its end.
Final == ui.ended /\ ui.requests = <<>> /\ UNCHANGED <<ui, server>>

Next == User \/ Browser \/ QueryAdvances \/ Final

-----------------------------------------------------------------------------

\* A stage that the user selected while no request was on its way stays selected until
\* the next selection: later requests carry it along.  refreshLoop reads the selection
\* when it sends, so a selection during a request is lost when the answer arrives.
SelectionKept == ui.undisturbed => ui.selectedStageId = ui.picked

\* Once the information is final the page shows it, and with it the operator graph of the
\* selected stage: polling ends no earlier.
ShowsFinal == server.final => ui.query = {server}
=============================================================================
