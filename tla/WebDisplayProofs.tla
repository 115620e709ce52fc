---------------------------- MODULE WebDisplayProofs ----------------------------
(***************************************************************************)
(* What every step of a page that displays a query, a worker or the        *)
(* cluster preserves: the series of its requests, what the user selected   *)
(* or froze, its charts, its dialog and what it shows of the last answer.  *)
(* Each page is treated alone; WebPagesProofs puts the pages together.     *)
(***************************************************************************)
EXTENDS WebDisplays, TLAPS

-----------------------------------------------------------------------------
(* A page is seen through three values: the number of its requests on their way, whether *)
(* its timer is armed, and whether it has been told the end.                             *)

One(sent, armed, ended) ==
    \/ sent = 1 /\ ~armed /\ ended = FALSE
    \/ sent = 0 /\ armed /\ ended = FALSE
    \/ sent = 0 /\ ~armed /\ ended = TRUE
Starts(sent, armed, ended) == sent = 1 /\ ~armed /\ ended = FALSE

Answers(sent, sentNew, armedNew, endedNew) ==
    sent = 1 /\ sentNew = 0 /\ endedNew \in BOOLEAN /\ (armedNew <=> ~endedNew)
Fires(sent, armed, ended, sentNew, armedNew, endedNew) ==
    sent = 0 /\ armed /\ sentNew = 1 /\ ~armedNew /\ endedNew = ended

Moves(sent, armed, ended, sentNew, armedNew, endedNew) ==
    \/ sentNew = sent /\ endedNew = ended /\ (armedNew <=> armed)
    \/ Answers(sent, sentNew, armedNew, endedNew)
    \/ Fires(sent, armed, ended, sentNew, armedNew, endedNew)

phaseOf(sent, armed) ==
    IF sent = 1 /\ ~armed THEN "waiting"
    ELSE IF sent = 0 THEN IF armed THEN "armed" ELSE "stopped" ELSE "two series"

SeriesStep(before, ended, after, endedNew) ==
    \/ /\ before = "waiting" /\ endedNew \in BOOLEAN
       /\ after = IF endedNew THEN "stopped" ELSE "armed"
    \/ before = "armed" /\ after = "waiting" /\ endedNew = ended
    \/ after = before /\ endedNew = ended

\* An answer and a firing timer keep one of the three forms, and are steps of the series.
LEMMA MovesAreSteps ==
    ASSUME NEW sent, NEW armed, NEW ended, NEW sentNew, NEW armedNew, NEW endedNew,
           One(sent, armed, ended), Moves(sent, armed, ended, sentNew, armedNew, endedNew)
    PROVE  /\ One(sentNew, armedNew, endedNew)
           /\ SeriesStep(phaseOf(sent, armed), ended, phaseOf(sentNew, armedNew), endedNew)
  <1>0. 0 # 1
    OBVIOUS
  <1>1. CASE sentNew = sent /\ endedNew = ended /\ (armedNew <=> armed)
    BY <1>1, Zenon DEF One, SeriesStep, phaseOf
  <1>2. CASE Answers(sent, sentNew, armedNew, endedNew)
    <2>1. ~armed
      BY <1>0, <1>2, Zenon DEF One, Answers
    <2>2. phaseOf(sent, armed) = "waiting"
      BY <1>2, <2>1, Zenon DEF Answers, phaseOf
    <2>3. phaseOf(sentNew, armedNew) = IF endedNew THEN "stopped" ELSE "armed"
      BY <1>0, <1>2, Zenon DEF Answers, phaseOf
    <2> QED
      BY <1>2, <2>2, <2>3, Zenon DEF One, SeriesStep, Answers
  <1>3. CASE Fires(sent, armed, ended, sentNew, armedNew, endedNew)
    <2>1. phaseOf(sent, armed) = "armed" /\ phaseOf(sentNew, armedNew) = "waiting"
      BY <1>0, <1>3, Zenon DEF Fires, phaseOf
    <2>2. ended = FALSE
      BY <1>0, <1>3, Zenon DEF One, Fires
    <2> QED
      BY <1>3, <2>1, <2>2, Zenon DEF One, SeriesStep, Fires
  <1> QED
    BY <1>1, <1>2, <1>3, Zenon DEF Moves

-----------------------------------------------------------------------------
(* The page of a query *)

DetailFields == {"timer", "requests", "ended", "query", "taskRefresh", "stageRefresh",
                 "lastSnapshotTasks", "lastSnapshotStage"}

DetailType(u) ==
    /\ DetailFields \subseteq DOMAIN u
    /\ u.timer \in Int /\ u.timer >= Detail!Never
    /\ u.ended \in BOOLEAN
    /\ u.ended => u.query # Detail!Unknown

DetailInv ==
    /\ DetailType(ui)
    /\ server.final \in BOOLEAN
    /\ One(ui.requests, ui.timer # Detail!Never, ui.ended)

SameDetail(u, v) == DetailFields \subseteq DOMAIN v /\ \A f \in DetailFields : v[f] = u[f]

DetailMoves ==
    Moves(ui.requests, ui.timer # Detail!Never, ui.ended,
          ui'.requests, ui'.timer # Detail!Never, ui'.ended)

\* Drawing the sparklines and sampling leave the fields of the series alone.
LEMMA DrawingApart ==
    ASSUME NEW u, DetailFields \subseteq DOMAIN u, NEW draw
    PROVE  /\ SameDetail(u, Detail!componentDidUpdate(u, draw))
           /\ SameDetail(u, Detail!sampled(u))
  BY Zenon DEF SameDetail, DetailFields, Detail!componentDidUpdate, Detail!sampled

\* Two states of the query page that agree on the fields of the invariant.
LEMMA SameDetailSame ==
    ASSUME NEW u, NEW v, SameDetail(u, v)
    PROVE  /\ DetailFields \subseteq DOMAIN v
           /\ v.timer = u.timer /\ v.requests = u.requests /\ v.ended = u.ended /\ v.query = u.query
           /\ v.taskRefresh = u.taskRefresh /\ v.stageRefresh = u.stageRefresh
           /\ v.lastSnapshotTasks = u.lastSnapshotTasks /\ v.lastSnapshotStage = u.lastSnapshotStage
  BY Zenon DEF SameDetail, DetailFields

\* The query page opens with one request and no timer.
LEMMA DetailStart ==
    Detail!Init => DetailInv /\ Starts(ui.requests, ui.timer # Detail!Never, ui.ended)
  <1> SUFFICES ASSUME Detail!Init
               PROVE  /\ DetailType(ui) /\ server.final \in BOOLEAN
                      /\ Starts(ui.requests, ui.timer # Detail!Never, ui.ended)
    BY Zenon DEF DetailInv, One, Starts
  <1>1. Detail!Init
    OBVIOUS
  <1>2. /\ DetailFields \subseteq DOMAIN ui /\ ui.timer = Detail!Never /\ ui.requests = 0 + 1
        /\ ui.ended = FALSE
    BY <1>1, Zenon DEF DetailFields, Detail!Init, Detail!refreshLoop, Detail!constructor
  <1>3. server.final \in {FALSE}
    BY <1>1, Zenon DEF Detail!Init
  <1>4. ui.requests = 1 /\ ui.timer \in Int /\ ui.timer >= Detail!Never
    BY <1>2 DEF Detail!Never
  <1> QED
    BY <1>2, <1>3, <1>4, Zenon DEF DetailType, Starts

\* Every step of the page is a step of the series or none, and changes nothing frozen.
LEMMA DetailStep ==
    ASSUME DetailType(ui), server.final \in BOOLEAN,
           One(ui.requests, ui.timer # Detail!Never, ui.ended), Detail!Next
    PROVE  /\ DetailType(ui') /\ server'.final \in BOOLEAN
           /\ DetailMoves
           /\ Detail!FrozenMeansFrozen
  <1> USE DEF Detail!Next
  <1>1. CASE Detail!AnswerArrives
    <2>1. PICK draw \in BOOLEAN, elapsed \in {-1, 0, 3} :
            LET u == Detail!componentDidUpdate([Detail!received(ui, server) EXCEPT !.requests = @ - 1], draw)
            IN  ui' = Detail!resetTimer(IF Detail!takesSample(ui, server, elapsed)
                                        THEN Detail!sampled(u) ELSE u)
      BY <1>1, Zenon DEF Detail!AnswerArrives
    <2> DEFINE w == [Detail!received(ui, server) EXCEPT !.requests = @ - 1]
               u == Detail!componentDidUpdate(w, draw)
               x == IF Detail!takesSample(ui, server, elapsed) THEN Detail!sampled(u) ELSE u
    <2>2. /\ DetailFields \subseteq DOMAIN w /\ w.query = {server} /\ w.ended = server.final
          /\ w.requests = ui.requests - 1
          /\ w.taskRefresh = ui.taskRefresh /\ w.stageRefresh = ui.stageRefresh
          /\ ~ui.taskRefresh => w.lastSnapshotTasks = ui.lastSnapshotTasks
          /\ ~ui.stageRefresh => w.lastSnapshotStage = ui.lastSnapshotStage
      BY Zenon DEF DetailType, DetailFields, Detail!received
    <2>3. ui' = Detail!resetTimer(x)
      BY <2>1, Zenon
    <2> HIDE DEF w
    <2>4. SameDetail(w, u)
      BY <2>2, DrawingApart, Zenon
    <2> HIDE DEF u
    <2>5. SameDetail(u, x)
      BY <2>4, DrawingApart, Zenon DEF SameDetail
    <2> HIDE DEF x
    <2>6. /\ DetailFields \subseteq DOMAIN x /\ x.query = {server} /\ x.ended = server.final
          /\ x.requests = ui.requests - 1
          /\ x.taskRefresh = ui.taskRefresh /\ x.stageRefresh = ui.stageRefresh
          /\ ~ui.taskRefresh => x.lastSnapshotTasks = ui.lastSnapshotTasks
          /\ ~ui.stageRefresh => x.lastSnapshotStage = ui.lastSnapshotStage
      <3>1. SameDetail(w, x)
        BY <2>4, <2>5, Zenon DEF SameDetail
      <3>2. /\ DetailFields \subseteq DOMAIN x
            /\ x.requests = w.requests /\ x.ended = w.ended /\ x.query = w.query
            /\ x.taskRefresh = w.taskRefresh /\ x.stageRefresh = w.stageRefresh
            /\ x.lastSnapshotTasks = w.lastSnapshotTasks /\ x.lastSnapshotStage = w.lastSnapshotStage
        BY <3>1, SameDetailSame, Zenon
      <3> QED
        BY <2>2, <3>2, Zenon
    <2>7. /\ DetailFields \subseteq DOMAIN ui' /\ ui'.query = x.query /\ ui'.ended = x.ended
          /\ ui'.requests = x.requests
          /\ ui'.taskRefresh = x.taskRefresh /\ ui'.stageRefresh = x.stageRefresh
          /\ ui'.lastSnapshotTasks = x.lastSnapshotTasks /\ ui'.lastSnapshotStage = x.lastSnapshotStage
          /\ ui'.timer = IF x.query = Detail!Unknown \/ ~x.ended THEN 3 ELSE Detail!Never
      BY <2>3, <2>6, Zenon DEF DetailFields, Detail!resetTimer
    <2>8. ui.requests = 1 /\ server' = server
      BY <1>1 DEF Detail!AnswerArrives, One
    <2>9. /\ ui'.requests = 0 /\ ui'.timer \in Int /\ ui'.timer >= Detail!Never
          /\ (ui'.timer # Detail!Never) <=> ~ui'.ended
      BY <2>6, <2>7, <2>8 DEF Detail!Never, Detail!Unknown
    <2>10. DetailType(ui') /\ DetailMoves
      BY <2>6, <2>7, <2>8, <2>9, Zenon DEF DetailType, DetailMoves, Moves, Answers, Detail!Unknown
    <2> QED
      BY <2>6, <2>7, <2>8, <2>10, Zenon DEF Detail!FrozenMeansFrozen
  <1>2. CASE Detail!RequestFails
    <2>1. PICK draw \in BOOLEAN :
            ui' = Detail!resetTimer(Detail!componentDidUpdate(
                      [ui EXCEPT !.requests = @ - 1, !.initialized = TRUE], draw))
      BY <1>2, Zenon DEF Detail!RequestFails
    <2> DEFINE w == [ui EXCEPT !.requests = @ - 1, !.initialized = TRUE]
               x == Detail!componentDidUpdate(w, draw)
    <2>2. /\ DetailFields \subseteq DOMAIN w /\ w.query = ui.query /\ w.ended = ui.ended
          /\ w.requests = ui.requests - 1
          /\ w.lastSnapshotTasks = ui.lastSnapshotTasks /\ w.lastSnapshotStage = ui.lastSnapshotStage
      BY Zenon DEF DetailType, DetailFields
    <2>3. ui' = Detail!resetTimer(x)
      BY <2>1, Zenon
    <2> HIDE DEF w
    <2>4. SameDetail(w, x)
      BY <2>2, DrawingApart, Zenon
    <2> HIDE DEF x
    <2>5. /\ DetailFields \subseteq DOMAIN ui' /\ ui'.query = x.query /\ ui'.ended = x.ended
          /\ ui'.requests = x.requests
          /\ ui'.lastSnapshotTasks = x.lastSnapshotTasks /\ ui'.lastSnapshotStage = x.lastSnapshotStage
          /\ ui'.timer = IF x.query = Detail!Unknown \/ ~x.ended THEN 3 ELSE Detail!Never
      BY <2>3, <2>4, Zenon DEF DetailFields, SameDetail, Detail!resetTimer
    <2>6. ui.requests = 1 /\ ui.ended = FALSE /\ server' = server
      BY <1>2 DEF Detail!RequestFails, One
    <2>7. /\ ui'.query = ui.query /\ ui'.ended = FALSE /\ ui'.requests = 0 /\ ui'.timer = 3
          /\ ui'.lastSnapshotTasks = ui.lastSnapshotTasks /\ ui'.lastSnapshotStage = ui.lastSnapshotStage
      BY <2>2, <2>4, <2>5, <2>6, SameDetailSame
    <2>8. DetailType(ui') /\ DetailMoves
      <3>1. ui'.timer \in Int /\ ui'.timer >= Detail!Never /\ ui'.timer # Detail!Never
        BY <2>7 DEF Detail!Never
      <3> QED
        BY <2>5, <2>6, <2>7, <3>1, Zenon DEF DetailType, DetailMoves, Moves, Answers
    <2> QED
      BY <2>6, <2>7, <2>8, Zenon DEF Detail!FrozenMeansFrozen
  <1>3. ASSUME NEW u, Detail!click(u), DetailFields \subseteq DOMAIN u,
               u.timer = ui.timer, u.requests = ui.requests, u.ended = ui.ended, u.query = ui.query,
               ~ui.taskRefresh /\ ~u.taskRefresh => u.lastSnapshotTasks = ui.lastSnapshotTasks,
               ~ui.stageRefresh /\ ~u.stageRefresh => u.lastSnapshotStage = ui.lastSnapshotStage
        PROVE  /\ DetailType(ui') /\ server'.final \in BOOLEAN
               /\ DetailMoves
               /\ Detail!FrozenMeansFrozen
    <2> DEFINE w == [u EXCEPT !.clicks = @ + 1]
    <2>1. PICK draw \in BOOLEAN : ui' = Detail!componentDidUpdate(w, draw)
      BY <1>3, Zenon DEF Detail!click
    <2>2. SameDetail(u, w)
      BY <1>3, Zenon DEF SameDetail, DetailFields
    <2> HIDE DEF w
    <2>3. SameDetail(w, ui')
      BY <2>1, <2>2, DrawingApart, Zenon DEF SameDetail
    <2>4. /\ DetailFields \subseteq DOMAIN ui'
          /\ ui'.timer = u.timer /\ ui'.requests = u.requests /\ ui'.ended = u.ended
          /\ ui'.query = u.query
          /\ ui'.taskRefresh = u.taskRefresh /\ ui'.stageRefresh = u.stageRefresh
          /\ ui'.lastSnapshotTasks = u.lastSnapshotTasks /\ ui'.lastSnapshotStage = u.lastSnapshotStage
      <3>1. SameDetail(u, ui')
        BY <2>2, <2>3, Zenon DEF SameDetail
      <3> QED
        BY <3>1, SameDetailSame, Zenon
    <2>5. server' = server
      BY <1>3 DEF Detail!click
    <2>6. DetailType(ui') /\ DetailMoves
      BY <1>3, <2>4 DEF DetailType, DetailMoves, Moves
    <2> QED
      BY <1>3, <2>4, <2>5, <2>6 DEF Detail!FrozenMeansFrozen
  <1>4. CASE Detail!handleTaskRefreshClick
    <2> DEFINE u == [ui EXCEPT !.taskRefresh = ~@,
                       !.lastSnapshotTasks = IF ui.taskRefresh THEN Detail!shownVersion(ui) ELSE @]
    <2>1. Detail!click(u)
      BY <1>4 DEF Detail!handleTaskRefreshClick
    <2>2. /\ DetailFields \subseteq DOMAIN u /\ u.timer = ui.timer /\ u.requests = ui.requests
          /\ u.ended = ui.ended /\ u.query = ui.query /\ u.taskRefresh = ~ui.taskRefresh
          /\ u.stageRefresh = ui.stageRefresh /\ u.lastSnapshotStage = ui.lastSnapshotStage
      BY Zenon DEF DetailType, DetailFields
    <2> HIDE DEF u
    <2> QED
      BY <1>3, <2>1, <2>2, Zenon
  <1>5. CASE Detail!handleStageRefreshClick
    <2> DEFINE u == [ui EXCEPT !.stageRefresh = ~@]
    <2>1. Detail!click(u)
      BY <1>5 DEF Detail!handleStageRefreshClick
    <2>2. /\ DetailFields \subseteq DOMAIN u /\ u.timer = ui.timer /\ u.requests = ui.requests
          /\ u.ended = ui.ended /\ u.query = ui.query
          /\ u.lastSnapshotTasks = ui.lastSnapshotTasks /\ u.lastSnapshotStage = ui.lastSnapshotStage
      BY Zenon DEF DetailType, DetailFields
    <2> HIDE DEF u
    <2> QED
      BY <1>3, <2>1, <2>2, Zenon
  <1>6. CASE Detail!handleTaskFilterClick
    <2>1. PICK filter \in {"ALL", "RUNNING"} : Detail!click([ui EXCEPT !.taskFilter = filter])
      BY <1>6 DEF Detail!handleTaskFilterClick
    <2> DEFINE u == [ui EXCEPT !.taskFilter = filter]
    <2>2. /\ DetailFields \subseteq DOMAIN u /\ u.timer = ui.timer /\ u.requests = ui.requests
          /\ u.ended = ui.ended /\ u.query = ui.query
          /\ u.lastSnapshotTasks = ui.lastSnapshotTasks /\ u.lastSnapshotStage = ui.lastSnapshotStage
      BY Zenon DEF DetailType, DetailFields
    <2>3. Detail!click(u)
      BY <2>1
    <2> HIDE DEF u
    <2> QED
      BY <1>3, <2>2, <2>3, Zenon
  <1>7. CASE Detail!Tick
    <2>1. /\ DetailFields \subseteq DOMAIN ui' /\ ui'.requests = ui.requests
          /\ ui'.ended = ui.ended /\ ui'.query = ui.query
          /\ ui'.lastSnapshotTasks = ui.lastSnapshotTasks /\ ui'.lastSnapshotStage = ui.lastSnapshotStage
          /\ ui'.timer = IF ui.timer = Detail!Never THEN Detail!Never ELSE ui.timer - 1
      BY <1>7, Zenon DEF DetailType, DetailFields, Detail!Tick
    <2>2. ui.timer # 0 /\ server' = server
      BY <1>7 DEF Detail!Tick
    <2> QED
      BY <2>1, <2>2 DEF DetailType, DetailMoves, Moves, Detail!Never, Detail!FrozenMeansFrozen
  <1>8. CASE Detail!TimerFires
    <2>1. /\ DetailFields \subseteq DOMAIN ui' /\ ui'.requests = ui.requests + 1
          /\ ui'.ended = ui.ended /\ ui'.query = ui.query /\ ui'.timer = Detail!Never
          /\ ui'.lastSnapshotTasks = ui.lastSnapshotTasks /\ ui'.lastSnapshotStage = ui.lastSnapshotStage
      BY <1>8, Zenon DEF DetailType, DetailFields, Detail!TimerFires, Detail!refreshLoop
    <2>2. ui.timer = 0 /\ server' = server
      BY <1>8 DEF Detail!TimerFires
    <2>3. ui.requests = 0
      BY <2>2 DEF One, Detail!Never
    <2> QED
      BY <2>1, <2>2, <2>3 DEF DetailType, DetailMoves, Moves, Fires, Detail!Never, Detail!FrozenMeansFrozen
  <1>9. CASE Detail!QueryAdvances
    <2>1. ui' = ui /\ server'.final \in BOOLEAN
      BY <1>9 DEF Detail!QueryAdvances
    <2> QED
      BY <2>1 DEF DetailType, DetailMoves, Moves, Detail!FrozenMeansFrozen
  <1> QED
    BY <1>1, <1>2, <1>4, <1>5, <1>6, <1>7, <1>8, <1>9 DEF Detail!User, Detail!Browser

-----------------------------------------------------------------------------
(* The page of a stage.  A selection that no request was under way for is carried by all *)
(* later requests, so their answers write back what is selected already.                 *)

StageFields == {"timer", "requests", "ended", "query", "selectedStageId", "url", "picked",
                "undisturbed"}

StageType(u) ==
    /\ StageFields \subseteq DOMAIN u
    /\ u.requests \in Seq(Stage) /\ u.url \in Stage
    /\ u.selectedStageId \in Stage \cup {StageDetail!NoStage}
    /\ u.timer \in BOOLEAN /\ u.ended \in BOOLEAN
    /\ u.ended => u.query # StageDetail!Unknown

Carried(u) ==
    u.undisturbed => /\ u.selectedStageId = u.picked /\ u.picked \in Stage
                     /\ \A i \in DOMAIN u.requests : u.requests[i] = u.picked

KnowsFinal == "final" \in DOMAIN server /\ server.final \in BOOLEAN

StageInv ==
    /\ StageType(ui) /\ Carried(ui) /\ KnowsFinal
    /\ One(Len(ui.requests), ui.timer, ui.ended)

StageMoves ==
    Moves(Len(ui.requests), ui.timer, ui.ended, Len(ui'.requests), ui'.timer, ui'.ended)

\* What is left of a single request when it is answered, and what sending the only one gives.
LEMMA TakenOut ==
    ASSUME NEW S, NEW q \in Seq(S), Len(q) = 1
    PROVE  /\ Tail(q) \in Seq(S) /\ Len(Tail(q)) = 0 /\ DOMAIN Tail(q) = {}
           /\ Head(q) = q[1] /\ 1 \in DOMAIN q
  <1>1. q # <<>> /\ DOMAIN q = 1..1
    OBVIOUS
  <1>2. Tail(q) \in Seq(S) /\ Len(Tail(q)) = 0
    BY <1>1
  <1>3. DOMAIN Tail(q) = 1..0
    <2>1. \A t \in Seq(S) : DOMAIN t = 1..Len(t)
      OBVIOUS
    <2> QED
      BY <1>2, <2>1, Zenon
  <1>4. Head(q) = q[1] /\ 1 \in DOMAIN q
    BY <1>1
  <1> QED
    BY <1>2, <1>3, <1>4

\* The only element of a queue that was empty.
LEMMA PutIn ==
    ASSUME NEW S, NEW q \in Seq(S), Len(q) = 0, NEW e \in S
    PROVE  /\ Append(q, e) \in Seq(S) /\ Len(Append(q, e)) = 1
           /\ \A i \in DOMAIN Append(q, e) : Append(q, e)[i] = e
  OBVIOUS

\* The stage page opens with one request and no timer.
LEMMA StageStart ==
    StageDetail!Init => StageInv /\ Starts(Len(ui.requests), ui.timer, ui.ended)
  <1> SUFFICES ASSUME StageDetail!Init
               PROVE  /\ StageType(ui) /\ Carried(ui) /\ KnowsFinal
                      /\ Starts(Len(ui.requests), ui.timer, ui.ended)
    BY Zenon DEF StageInv, One, Starts
  <1>1. StageDetail!Init
    OBVIOUS
  <1>2. PICK url \in Stage : ui = StageDetail!refreshLoop(StageDetail!constructor(url))
    BY <1>1, Zenon DEF StageDetail!Init
  <1>3. /\ StageFields \subseteq DOMAIN ui /\ ui.timer = FALSE /\ ui.requests = Append(<<>>, url)
        /\ ui.ended = FALSE /\ ui.url = url /\ ui.undisturbed = FALSE
        /\ ui.selectedStageId = StageDetail!NoStage
    BY <1>2, Zenon DEF StageFields, StageDetail!refreshLoop, StageDetail!constructor
  <1>4. ui.requests \in Seq(Stage) /\ Len(ui.requests) = 1
    BY <1>3
  <1>5. KnowsFinal
    <2>1. server = [stages |-> {}, isEnded |-> FALSE, final |-> FALSE, changes |-> 0]
      BY <1>1, Zenon DEF StageDetail!Init
    <2> QED
      BY <2>1, Zenon DEF KnowsFinal
  <1> QED
    BY <1>3, <1>4, <1>5, Zenon DEF StageType, Carried, Starts

\* A step of the stage page keeps its invariant and moves its series by the rules.
LEMMA StageStep ==
    ASSUME StageType(ui), Carried(ui), KnowsFinal, One(Len(ui.requests), ui.timer, ui.ended),
           StageDetail!Next
    PROVE  StageType(ui') /\ Carried(ui') /\ KnowsFinal' /\ StageMoves
  <1> USE DEF StageDetail!Next
  <1>1. CASE StageDetail!AnswerArrives
    <2>1. /\ StageFields \subseteq DOMAIN ui' /\ ui'.requests = Tail(ui.requests)
          /\ ui'.url = ui.url /\ ui'.query = {server} /\ ui'.ended = server.final
          /\ ui'.selectedStageId = Head(ui.requests) /\ ui'.picked = ui.picked
          /\ ui'.undisturbed = ui.undisturbed
          /\ ui'.timer = (({server} = StageDetail!Unknown) \/ ~server.final)
      BY <1>1, Zenon DEF StageType, StageFields, StageDetail!AnswerArrives, StageDetail!resetTimer
    <2>2. ui.requests # <<>> /\ server' = server
      BY <1>1 DEF StageDetail!AnswerArrives
    <2>3. Len(ui.requests) = 1
      BY <2>2 DEF StageType, One
    <2>4. /\ ui'.requests \in Seq(Stage) /\ Len(ui'.requests) = 0 /\ DOMAIN ui'.requests = {}
          /\ Head(ui.requests) = ui.requests[1] /\ 1 \in DOMAIN ui.requests
      <3>1. ui.requests \in Seq(Stage)
        BY DEF StageType
      <3>2. /\ Tail(ui.requests) \in Seq(Stage) /\ Len(Tail(ui.requests)) = 0
            /\ DOMAIN Tail(ui.requests) = {}
            /\ Head(ui.requests) = ui.requests[1] /\ 1 \in DOMAIN ui.requests
        BY <2>3, <3>1, TakenOut
      <3> QED
        BY <2>1, <3>2, Zenon
    <2>5. {server} # StageDetail!Unknown
      BY DEF StageDetail!Unknown
    <2>6. ui'.timer = ~server.final
      BY <2>1, <2>5, Zenon
    <2>7. StageType(ui') /\ KnowsFinal'
      <3>1. Head(ui.requests) \in Stage
        BY <2>3 DEF StageType
      <3> QED
        BY <2>1, <2>2, <2>4, <2>5, <2>6, <3>1, Zenon DEF StageType, KnowsFinal
    <2>8. Carried(ui')
      BY <2>1, <2>4, Zenon DEF Carried
    <2> QED
      BY <2>1, <2>3, <2>4, <2>6, <2>7, <2>8, Zenon DEF StageType, StageMoves, Moves, Answers
  <1>2. CASE StageDetail!RequestFails
    <2>1. /\ StageFields \subseteq DOMAIN ui' /\ ui'.requests = Tail(ui.requests)
          /\ ui'.url = ui.url /\ ui'.query = ui.query /\ ui'.ended = ui.ended
          /\ ui'.selectedStageId = ui.selectedStageId /\ ui'.picked = ui.picked
          /\ ui'.undisturbed = ui.undisturbed
          /\ ui'.timer = (ui.query = StageDetail!Unknown \/ ~ui.ended)
      BY <1>2, Zenon DEF StageType, StageFields, StageDetail!RequestFails, StageDetail!resetTimer
    <2>2. ui.requests # <<>> /\ server' = server
      BY <1>2 DEF StageDetail!RequestFails
    <2>3. Len(ui.requests) = 1 /\ ui.ended = FALSE
      BY <2>2 DEF StageType, One
    <2>4. ui'.requests \in Seq(Stage) /\ Len(ui'.requests) = 0 /\ DOMAIN ui'.requests = {}
      <3>1. ui.requests \in Seq(Stage)
        BY DEF StageType
      <3>2. /\ Tail(ui.requests) \in Seq(Stage) /\ Len(Tail(ui.requests)) = 0
            /\ DOMAIN Tail(ui.requests) = {}
            /\ Head(ui.requests) = ui.requests[1] /\ 1 \in DOMAIN ui.requests
        BY <2>3, <3>1, TakenOut
      <3> QED
        BY <2>1, <3>2, Zenon
    <2>5. ui'.timer = TRUE
      BY <2>1, <2>3, Zenon
    <2> QED
      BY <2>1, <2>2, <2>3, <2>4, <2>5, Zenon
         DEF StageType, Carried, KnowsFinal, StageMoves, Moves, Answers
  <1>3. CASE StageDetail!TimerFires
    <2> DEFINE selected == IF ui.selectedStageId = StageDetail!NoStage THEN ui.url
                           ELSE ui.selectedStageId
    <2>1. /\ StageFields \subseteq DOMAIN ui' /\ ui'.requests = Append(ui.requests, selected)
          /\ ui'.url = ui.url /\ ui'.query = ui.query /\ ui'.ended = ui.ended
          /\ ui'.selectedStageId = ui.selectedStageId /\ ui'.picked = ui.picked
          /\ ui'.undisturbed = ui.undisturbed /\ ui'.timer = FALSE
      BY <1>3, Zenon DEF StageType, StageFields, StageDetail!TimerFires, StageDetail!refreshLoop
    <2>2. ui.timer /\ server' = server
      BY <1>3 DEF StageDetail!TimerFires
    <2>3. Len(ui.requests) = 0
      BY <2>2, Zenon DEF One
    <2>4. ASSUME ui.undisturbed PROVE selected = ui.picked
      BY <2>4, StagesAssumption DEF Carried, StageDetail!NoStage
    <2>5. selected \in Stage
      BY DEF StageType
    <2> HIDE DEF selected
    <2>6. /\ ui'.requests \in Seq(Stage) /\ Len(ui'.requests) = 1
          /\ \A i \in DOMAIN ui'.requests : ui'.requests[i] = selected
      <3>1. ui.requests \in Seq(Stage)
        BY DEF StageType
      <3>2. /\ Append(ui.requests, selected) \in Seq(Stage)
            /\ Len(Append(ui.requests, selected)) = 1
            /\ \A i \in DOMAIN Append(ui.requests, selected) :
                   Append(ui.requests, selected)[i] = selected
        BY <2>3, <2>5, <3>1, PutIn
      <3> QED
        BY <2>1, <3>2, Zenon
    <2> QED
      BY <2>1, <2>2, <2>3, <2>4, <2>6, Zenon
         DEF StageType, Carried, KnowsFinal, StageMoves, Moves, Fires
  <1>4. ASSUME NEW stage \in Stage, StageDetail!select(stage)
        PROVE  StageType(ui') /\ Carried(ui') /\ KnowsFinal' /\ StageMoves
    <2>1. /\ StageFields \subseteq DOMAIN ui' /\ ui'.requests = ui.requests
          /\ ui'.url = ui.url /\ ui'.query = ui.query /\ ui'.ended = ui.ended
          /\ ui'.selectedStageId = stage /\ ui'.picked = stage /\ ui'.timer = ui.timer
          /\ ui'.undisturbed = (ui.requests = <<>>)
      BY <1>4, Zenon DEF StageType, StageFields, StageDetail!select
    <2>2. server' = server
      BY <1>4, Zenon DEF StageDetail!select
    <2>3. ui.requests = <<>> => DOMAIN ui.requests = {}
      OBVIOUS
    <2> QED
      BY <2>1, <2>2, <2>3, Zenon DEF StageType, Carried, KnowsFinal, StageMoves, Moves
  <1>5. CASE StageDetail!QueryAdvances \/ StageDetail!Final
    <2>1. ui' = ui /\ KnowsFinal'
      BY <1>5, Zenon DEF StageDetail!QueryAdvances, StageDetail!Final, KnowsFinal
    <2> QED
      BY <2>1, Zenon DEF StageType, Carried, StageMoves, Moves
  <1> QED
    BY <1>1, <1>2, <1>3, <1>4, <1>5, Zenon DEF StageDetail!User, StageDetail!Browser

-----------------------------------------------------------------------------
(* The live plan.  A page that React has removed keeps what it knew, which was not the    *)
(* end: its timer is armed by every answer.                                               *)

PlanFields == {"timer", "requests", "ended", "query", "mounted"}

PlanType(u) ==
    /\ PlanFields \subseteq DOMAIN u
    /\ u.timer \in BOOLEAN /\ u.ended \in BOOLEAN /\ u.mounted \in BOOLEAN
    /\ u.ended => u.query # LivePlan!Unknown

PlanInv ==
    PlanType(ui) /\ KnowsFinal /\ One(ui.requests, ui.timer, ui.ended)

PlanMoves ==
    Moves(ui.requests, ui.timer, ui.ended, ui'.requests, ui'.timer, ui'.ended)

\* Drawing the graph touches neither the series nor what the page was told.
LEMMA GraphApart ==
    ASSUME NEW u, PlanFields \subseteq DOMAIN u, u.mounted \in BOOLEAN
    PROVE  LET v == LivePlan!setState(u)
           IN  /\ PlanFields \subseteq DOMAIN v /\ v.mounted \in BOOLEAN
               /\ v.requests = u.requests /\ v.ended = u.ended /\ v.query = u.query
  BY Zenon DEF PlanFields, LivePlan!setState, LivePlan!updateD3Graph

\* The live plan opens with one request and no timer.
LEMMA PlanStart ==
    LivePlan!Init => PlanInv /\ Starts(ui.requests, ui.timer, ui.ended)
  <1> SUFFICES ASSUME LivePlan!Init
               PROVE  PlanType(ui) /\ KnowsFinal /\ Starts(ui.requests, ui.timer, ui.ended)
    BY Zenon DEF PlanInv, One, Starts
  <1>1. LivePlan!Init
    OBVIOUS
  <1>2. /\ PlanFields \subseteq DOMAIN ui /\ ui.timer = FALSE /\ ui.requests = 0 + 1
        /\ ui.ended = FALSE /\ ui.mounted = TRUE
    BY <1>1, Zenon DEF PlanFields, LivePlan!Init, LivePlan!refreshLoop, LivePlan!constructor
  <1>3. KnowsFinal
    <2>1. server \in [version : {0}, planned : BOOLEAN, final : {FALSE}]
      BY <1>1, Zenon DEF LivePlan!Init
    <2> QED
      BY <2>1, Zenon DEF KnowsFinal
  <1>4. ui.requests = 1
    BY <1>2
  <1> QED
    BY <1>2, <1>3, <1>4, Zenon DEF PlanType, Starts

\* A step of the live plan keeps its invariant and moves its series by the rules.
LEMMA PlanStep ==
    ASSUME PlanType(ui), KnowsFinal, One(ui.requests, ui.timer, ui.ended), LivePlan!Next
    PROVE  PlanType(ui') /\ KnowsFinal' /\ PlanMoves
  <1> USE DEF LivePlan!Next
  <1>1. ASSUME NEW w, PlanFields \subseteq DOMAIN w, w.mounted \in BOOLEAN,
               w.ended \in BOOLEAN, w.ended => w.query # LivePlan!Unknown,
               w.requests = ui.requests - 1, ui.requests > 0,
               ui' = LivePlan!resetTimer(LivePlan!setState(w))
        PROVE  PlanType(ui') /\ PlanMoves
    <2> DEFINE x == LivePlan!setState(w)
    <2>1. /\ PlanFields \subseteq DOMAIN x /\ x.mounted \in BOOLEAN
          /\ x.requests = w.requests /\ x.ended = w.ended /\ x.query = w.query
      BY <1>1, GraphApart, Zenon
    <2> HIDE DEF x
    <2>2. /\ PlanFields \subseteq DOMAIN ui' /\ ui'.mounted = x.mounted
          /\ ui'.requests = x.requests /\ ui'.ended = x.ended /\ ui'.query = x.query
          /\ ui'.timer = (x.query = LivePlan!Unknown \/ ~x.ended)
      <3>1. ui' = LivePlan!resetTimer(x)
        BY <1>1, Zenon DEF x
      <3> QED
        BY <2>1, <3>1, Zenon DEF PlanFields, LivePlan!resetTimer
    <2>3. ui.requests = 1
      BY <1>1 DEF One
    <2>4. ui'.requests = 0
      BY <1>1, <2>1, <2>2, <2>3
    <2> QED
      BY <1>1, <2>1, <2>2, <2>3, <2>4, Zenon DEF PlanType, PlanMoves, Moves, Answers
  <1>2. CASE LivePlan!AnswerArrives
    <2> DEFINE w == [ui EXCEPT !.query = IF ui.mounted THEN {server} ELSE @,
                               !.initialized = TRUE,
                               !.ended = IF ui.mounted THEN server.final ELSE @,
                               !.first = IF @ = {} THEN {server.version} ELSE @,
                               !.requests = @ - 1]
    <2>1. /\ ui.requests > 0 /\ server' = server
          /\ ui' = LivePlan!resetTimer(LivePlan!setState(w))
      BY <1>2, Zenon DEF LivePlan!AnswerArrives
    <2>2. /\ PlanFields \subseteq DOMAIN w /\ w.mounted = ui.mounted
          /\ w.requests = ui.requests - 1
          /\ w.query = IF ui.mounted THEN {server} ELSE ui.query
          /\ w.ended = IF ui.mounted THEN server.final ELSE ui.ended
      BY Zenon DEF PlanType, PlanFields
    <2> HIDE DEF w
    <2>3. {server} # LivePlan!Unknown
      BY DEF LivePlan!Unknown
    <2>4. w.mounted \in BOOLEAN /\ w.ended \in BOOLEAN /\ (w.ended => w.query # LivePlan!Unknown)
      BY <2>2, <2>3, Zenon DEF PlanType, KnowsFinal
    <2>5. PlanType(ui') /\ PlanMoves
      BY <1>1, <2>1, <2>2, <2>4, Zenon
    <2> QED
      BY <2>1, <2>5, Zenon DEF KnowsFinal
  <1>3. CASE LivePlan!RequestFails
    <2> DEFINE w == [ui EXCEPT !.initialized = TRUE, !.requests = @ - 1,
                               !.failedFirst = @ \/ ui.query = LivePlan!Unknown]
    <2>1. /\ ui.requests > 0 /\ server' = server
          /\ ui' = LivePlan!resetTimer(LivePlan!setState(w))
      BY <1>3, Zenon DEF LivePlan!RequestFails
    <2>2. /\ PlanFields \subseteq DOMAIN w /\ w.mounted = ui.mounted
          /\ w.requests = ui.requests - 1 /\ w.query = ui.query /\ w.ended = ui.ended
      BY Zenon DEF PlanType, PlanFields
    <2> HIDE DEF w
    <2>3. w.mounted \in BOOLEAN /\ w.ended \in BOOLEAN /\ (w.ended => w.query # LivePlan!Unknown)
      BY <2>2, Zenon DEF PlanType
    <2>4. PlanType(ui') /\ PlanMoves
      BY <1>1, <2>1, <2>2, <2>3, Zenon
    <2> QED
      BY <2>1, <2>4, Zenon DEF KnowsFinal
  <1>4. CASE LivePlan!TimerFires
    <2>1. /\ ui.timer /\ server' = server
          /\ PlanFields \subseteq DOMAIN ui' /\ ui'.mounted = ui.mounted
          /\ ui'.requests = ui.requests + 1 /\ ui'.ended = ui.ended /\ ui'.query = ui.query
          /\ ui'.timer = FALSE
      BY <1>4, Zenon DEF PlanType, PlanFields, LivePlan!TimerFires, LivePlan!refreshLoop
    <2>2. ui.requests = 0
      BY <2>1, Zenon DEF One
    <2>3. ui'.requests = 1
      BY <2>1, <2>2
    <2> QED
      BY <2>1, <2>2, <2>3, Zenon DEF PlanType, KnowsFinal, PlanMoves, Moves, Fires
  <1>5. CASE LivePlan!QueryAdvances \/ LivePlan!Final
    <2>1. ui' = ui /\ KnowsFinal'
      <3>1. CASE LivePlan!QueryAdvances
        <4>1. PICK final \in BOOLEAN, planned \in BOOLEAN :
                server' = [version |-> server.version + 1, planned |-> planned, final |-> final]
          BY <3>1, Zenon DEF LivePlan!QueryAdvances
        <4> QED
          BY <3>1, <4>1, Zenon DEF LivePlan!QueryAdvances, KnowsFinal
      <3> QED
        BY <1>5, <3>1, Zenon DEF LivePlan!Final, KnowsFinal
    <2> QED
      BY <2>1, Zenon DEF PlanType, PlanMoves, Moves
  <1> QED
    BY <1>2, <1>3, <1>4, <1>5, Zenon DEF LivePlan!Browser

-----------------------------------------------------------------------------
(* The panels, which never end *)

PanelFields == {"timer", "requests"}

PanelType(u) == PanelFields \subseteq DOMAIN u /\ u.timer \in Int /\ u.timer >= Panels!Never

PanelsInv ==
    PanelType(ui) /\ One(ui.requests, ui.timer # Panels!Never, FALSE)

PanelMoves ==
    Moves(ui.requests, ui.timer # Panels!Never, FALSE,
          ui'.requests, ui'.timer # Panels!Never, FALSE)

\* The answer to v's only request: one request less, and the timer at a second.
Settled(u, v) ==
    PanelFields \subseteq DOMAIN v /\ v.requests = u.requests - 1 /\ v.timer = Panels!Second
OneLess(u, v) == PanelFields \subseteq DOMAIN v /\ v.requests = u.requests - 1

\* Samples, drawings and lights leave the series alone.
LEMMA PanelsApart ==
    ASSUME NEW u, NEW v, OneLess(u, v)
    PROVE  /\ OneLess(u, Panels!sampled(v)) /\ OneLess(u, Panels!clusterDidUpdate(v))
           /\ OneLess(u, Panels!footerDidUpdate(v)) /\ OneLess(u, Panels!workerDidUpdate(v))
           /\ OneLess(u, Panels!connected(v)) /\ OneLess(u, Panels!blinks(v))
           /\ Settled(u, Panels!resetTimer(v))
  <1>1. OneLess(u, Panels!sampled(v))
    BY Zenon DEF OneLess, PanelFields, Panels!sampled
  <1>2. OneLess(u, Panels!draws(v))
    BY Zenon DEF OneLess, PanelFields, Panels!draws
  <1>3. OneLess(u, Panels!connected(v)) /\ OneLess(u, Panels!blinks(v))
    BY Zenon DEF OneLess, PanelFields, Panels!connected, Panels!blinks
  <1>4. Settled(u, Panels!resetTimer(v))
    BY Zenon DEF OneLess, Settled, PanelFields, Panels!resetTimer
  <1> QED
    BY <1>1, <1>2, <1>3, <1>4, Zenon
       DEF Panels!clusterDidUpdate, Panels!footerDidUpdate, Panels!workerDidUpdate

\* A panel opens with one request and no timer.
LEMMA PanelsStart ==
    Panels!Init => PanelsInv /\ Starts(ui.requests, ui.timer # Panels!Never, FALSE)
  <1> SUFFICES ASSUME Panels!Init
               PROVE  PanelType(ui) /\ Starts(ui.requests, ui.timer # Panels!Never, FALSE)
    BY Zenon DEF PanelsInv, One, Starts
  <1>1. PICK kind \in Panels!Kind : ui = Panels!refreshLoop(Panels!constructor(kind))
    <2>1. Panels!Init
      OBVIOUS
    <2> QED
      BY <2>1, Zenon DEF Panels!Init
  <1>2. PanelFields \subseteq DOMAIN ui /\ ui.timer = Panels!Never /\ ui.requests = 0 + 1
    BY <1>1, Zenon DEF PanelFields, Panels!refreshLoop, Panels!constructor
  <1> QED
    BY <1>2 DEF PanelType, Starts, Panels!Never

\* Every answer and every failure of a panel settles its request.
LEMMA PanelsSettle ==
    ASSUME PanelType(ui), Panels!Answered \/ Panels!Fails
    PROVE  Settled(ui, ui') /\ ui.requests > 0
  <1> DEFINE a == Panels!answered(ui)
  <1>1. OneLess(ui, a)
    BY Zenon DEF PanelType, OneLess, PanelFields, Panels!answered
  <1> HIDE DEF a
  <1>2. ui.requests > 0
    BY Zenon DEF Panels!Answered, Panels!Fails, Panels!arrives, Panels!ClusterHUDAnswered,
       Panels!StatusFooterAnswered, Panels!WorkerStatusAnswered, Panels!PageTitleAnswered,
       Panels!HeaderAnswered, Panels!ChartsFail, Panels!WorkerStatusFails,
       Panels!PageTitleFails, Panels!HeaderFails
  <1>3. CASE Panels!ClusterHUDAnswered
    <2>1. ui' = Panels!resetTimer(Panels!clusterDidUpdate(Panels!sampled(a)))
      BY <1>3, Zenon DEF a, Panels!ClusterHUDAnswered
    <2> QED
      BY <1>1, <1>2, <2>1, PanelsApart, Zenon
  <1>4. CASE Panels!StatusFooterAnswered
    <2>1. ui' = Panels!resetTimer(Panels!footerDidUpdate(Panels!sampled(a)))
      BY <1>4, Zenon DEF a, Panels!StatusFooterAnswered
    <2> QED
      BY <1>1, <1>2, <2>1, PanelsApart, Zenon
  <1>5. CASE Panels!WorkerStatusAnswered
    <2> DEFINE i == [a EXCEPT !.info = TRUE]
    <2>1. OneLess(ui, i)
      BY <1>1, Zenon DEF OneLess, PanelFields
    <2>2. ui' = Panels!resetTimer(Panels!workerDidUpdate(Panels!sampled(i)))
      BY <1>5, Zenon DEF a, Panels!WorkerStatusAnswered
    <2> HIDE DEF i
    <2> QED
      BY <1>2, <2>1, <2>2, PanelsApart, Zenon
  <1>6. CASE Panels!ChartsFail
    <2>1. ui' = Panels!resetTimer(a)
      BY <1>6, Zenon DEF a, Panels!ChartsFail
    <2> QED
      BY <1>1, <1>2, <2>1, PanelsApart, Zenon
  <1>7. CASE Panels!WorkerStatusFails
    <2> DEFINE i == [a EXCEPT !.initialized = TRUE]
    <2>1. OneLess(ui, i)
      BY <1>1, Zenon DEF OneLess, PanelFields
    <2>2. ui' = Panels!resetTimer(Panels!workerDidUpdate(i))
      BY <1>7, Zenon DEF a, Panels!WorkerStatusFails
    <2> HIDE DEF i
    <2> QED
      BY <1>2, <2>1, <2>2, PanelsApart, Zenon
  <1>8. CASE Panels!PageTitleAnswered
    <2> DEFINE i == [Panels!connected(a) EXCEPT !.dialog = FALSE, !.announced = FALSE]
    <2>1. OneLess(ui, Panels!connected(a))
      BY <1>1, PanelsApart, Zenon
    <2>2. OneLess(ui, i)
      BY <2>1, Zenon DEF OneLess, PanelFields
    <2>3. ui' = Panels!resetTimer(i)
      BY <1>8, Zenon DEF a, Panels!PageTitleAnswered
    <2> HIDE DEF i
    <2> QED
      BY <1>2, <2>2, <2>3, PanelsApart, Zenon
  <1>9. CASE Panels!PageTitleFails
    <2> DEFINE u == Panels!resetTimer(Panels!blinks(a))
    <2>1. Settled(ui, u)
      BY <1>1, PanelsApart, Zenon
    <2>2. ui' = IF ui.modalShown THEN u
                ELSE [u EXCEPT !.modalShown = TRUE, !.dialog = u.info, !.announced = u.info]
      BY <1>9, Zenon DEF a, Panels!PageTitleFails
    <2> HIDE DEF u
    <2> QED
      BY <1>2, <2>1, <2>2, Zenon DEF Settled, PanelFields
  <1>10. CASE Panels!HeaderAnswered
    <2>1. ui' = Panels!resetTimer(Panels!connected(a))
      BY <1>10, Zenon DEF a, Panels!HeaderAnswered
    <2> QED
      BY <1>1, <1>2, <2>1, PanelsApart, Zenon
  <1>11. CASE Panels!HeaderFails
    <2>1. ui' = Panels!resetTimer(Panels!blinks(a))
      BY <1>11, Zenon DEF a, Panels!HeaderFails
    <2> QED
      BY <1>1, <1>2, <2>1, PanelsApart, Zenon
  <1> QED
    BY <1>3, <1>4, <1>5, <1>6, <1>7, <1>8, <1>9, <1>10, <1>11, Zenon
       DEF Panels!Answered, Panels!Fails

\* A step of the panels keeps their invariant and moves their series by the rules.
LEMMA PanelsStep ==
    ASSUME PanelType(ui), One(ui.requests, ui.timer # Panels!Never, FALSE), Panels!Next
    PROVE  PanelType(ui') /\ PanelMoves
  <1>1. CASE Panels!Answered \/ Panels!Fails
    <2>1. Settled(ui, ui') /\ ui.requests > 0
      BY <1>1, PanelsSettle, Zenon
    <2>2. ui.requests = 1
      BY <2>1 DEF One
    <2> QED
      BY <2>1, <2>2 DEF Settled, PanelType, PanelMoves, Moves, Answers, Panels!Never, Panels!Second
  <1>2. CASE Panels!TimerFires
    <2>1. /\ ui.timer = 0 /\ PanelFields \subseteq DOMAIN ui'
          /\ ui'.timer = Panels!Never /\ ui'.requests = ui.requests + 1
      BY <1>2, Zenon DEF PanelType, PanelFields, Panels!TimerFires, Panels!refreshLoop
    <2>2. ui.requests = 0
      BY <2>1 DEF One, Panels!Never
    <2> QED
      BY <2>1, <2>2 DEF PanelType, PanelMoves, Moves, Fires, Panels!Never
  <1>3. CASE Panels!Tick
    <2>1. /\ ui.timer # 0 /\ PanelFields \subseteq DOMAIN ui' /\ ui'.requests = ui.requests
          /\ ui'.timer = IF ui.timer = Panels!Never THEN Panels!Never ELSE ui.timer - 1
      BY <1>3, Zenon DEF PanelType, PanelFields, Panels!Tick
    <2>2. /\ ui'.timer \in Int /\ ui'.timer >= Panels!Never
          /\ (ui'.timer # Panels!Never) <=> (ui.timer # Panels!Never)
      BY <2>1 DEF PanelType, Panels!Never
    <2> QED
      BY <2>1, <2>2, Zenon DEF PanelType, PanelMoves, Moves
  <1>4. CASE Panels!closeDialog
    <2>1. PanelFields \subseteq DOMAIN ui' /\ ui'.requests = ui.requests /\ ui'.timer = ui.timer
      BY <1>4, Zenon DEF PanelType, PanelFields, Panels!closeDialog
    <2> QED
      BY <2>1, Zenon DEF PanelType, PanelMoves, Moves
  <1> QED
    BY <1>1, <1>2, <1>3, <1>4, Zenon DEF Panels!Next, Panels!Browser
-----------------------------------------------------------------------------
(* The sparklines of a query.  A sample that was not drawn waits for the next answer, and *)
(* the timer before that answer is longer than the second in which nothing is drawn.      *)

\* addToHistory keeps at most one sample more than MAX_HISTORY.
LEMMA HistoryBounded ==
    ASSUME NEW n \in 0..(MaxHistory + 1)
    PROVE  /\ Detail!addToHistory(n) = IF n <= MaxHistory THEN n + 1 ELSE n
           /\ Detail!addToHistory(n) \in 0..(MaxHistory + 1)
  <1> DEFINE m == n - MaxHistory
  <1>1. m \in Int /\ n \in Int
    BY ChartsAssumption
  <1>2. Detail!Max({m, 0}) \in {m, 0} /\ Detail!Max({m, 0}) >= m /\ Detail!Max({m, 0}) >= 0
    <2>1. \E x \in {m, 0} : \A y \in {m, 0} : x >= y
      BY <1>1
    <2> HIDE DEF m
    <2>2. Detail!Max({m, 0}) \in {m, 0} /\ \A y \in {m, 0} : Detail!Max({m, 0}) >= y
      BY <2>1, Zenon DEF Detail!Max
    <2> QED
      BY <2>2
  <1> QED
    BY <1>1, <1>2, ChartsAssumption DEF Detail!addToHistory

SparkFields == {"undrawn", "samples", "sinceDraw", "timer", "requests"}

Draws(requests, timer, undrawn, sinceDraw) ==
    /\ requests \in {0, 1} /\ timer \in -1..3 /\ undrawn \in {0, 1} /\ sinceDraw \in 0..2
    /\ requests = 1 => timer = -1
    /\ undrawn = 1 /\ requests = 1 => sinceDraw = 2
    /\ undrawn = 1 /\ timer # -1 => sinceDraw = 2 \/ sinceDraw + timer >= 3

SparkInv(u) == /\ SparkFields \subseteq DOMAIN u /\ u.samples \in 0..(MaxHistory + 1)
               /\ Draws(u.requests, u.timer, u.undrawn, u.sinceDraw)

\* v is u after a callback that may have drawn.
Drawn(u, v, draw) ==
    /\ SparkFields \subseteq DOMAIN v /\ v.samples = u.samples /\ v.timer = u.timer
    /\ v.undrawn = IF draw THEN 0 ELSE u.undrawn
    /\ v.sinceDraw = IF draw THEN 0 ELSE u.sinceDraw

\* The sparklines of the query page start without samples.
LEMMA SparkStart ==
    ASSUME Detail!Init
    PROVE  SparkInv(ui)
  <1>1. /\ SparkFields \subseteq DOMAIN ui /\ ui.samples = 0 /\ ui.requests = 0 + 1
        /\ ui.timer = -1 /\ ui.undrawn = 0 /\ ui.sinceDraw = 2
    BY Zenon DEF Detail!Init, Detail!refreshLoop, Detail!constructor, Detail!Never, SparkFields
  <1> QED
    BY <1>1, ChartsAssumption DEF SparkInv, Draws

\* Every step of the query page keeps the samples bounded and the draws in time.
LEMMA SparkStep ==
    ASSUME SparkInv(ui), Detail!Next
    PROVE  SparkInv(ui')
  <1> USE DEF Detail!Never
  <1>1. ASSUME NEW u, SparkFields \subseteq DOMAIN u, NEW draw \in BOOLEAN
        PROVE  /\ Drawn(u, Detail!componentDidUpdate(u, draw), draw)
               /\ Detail!componentDidUpdate(u, draw).requests = u.requests
    BY <1>1, Zenon DEF SparkFields, Drawn, Detail!componentDidUpdate
  <1>2. CASE Detail!AnswerArrives
    <2>1. PICK draw \in BOOLEAN, elapsed \in {-1, 0, 3} :
              LET u == Detail!componentDidUpdate(
                           [Detail!received(ui, server) EXCEPT !.requests = @ - 1], draw)
              IN  /\ Detail!mayDraw(ui, draw)
                  /\ ui' = Detail!resetTimer(IF Detail!takesSample(ui, server, elapsed)
                                             THEN Detail!sampled(u) ELSE u)
      BY <1>2, Zenon DEF Detail!AnswerArrives
    <2> DEFINE r == [Detail!received(ui, server) EXCEPT !.requests = @ - 1]
               u == Detail!componentDidUpdate(r, draw)
               w == IF Detail!takesSample(ui, server, elapsed) THEN Detail!sampled(u) ELSE u
    <2>2. /\ SparkFields \subseteq DOMAIN r /\ r.requests = ui.requests - 1
          /\ r.samples = ui.samples /\ r.timer = ui.timer
          /\ r.undrawn = ui.undrawn /\ r.sinceDraw = ui.sinceDraw
      BY Zenon DEF SparkInv, SparkFields, Detail!received
    <2> HIDE DEF r
    <2>3. Drawn(r, u, draw) /\ u.requests = r.requests
      BY <1>1, <2>2, Zenon
    <2> HIDE DEF u
    <2>4. /\ SparkFields \subseteq DOMAIN w /\ w.requests = u.requests /\ w.sinceDraw = u.sinceDraw
          /\ w.samples \in {u.samples, Detail!addToHistory(u.samples)}
          /\ w.undrawn \in {u.undrawn, u.undrawn + 1}
      BY <2>3, Zenon DEF Drawn, SparkFields, Detail!sampled
    <2> HIDE DEF w
    <2>5. ui' = Detail!resetTimer(w)
      BY <2>1, Zenon DEF r, u, w
    <2>6. /\ SparkFields \subseteq DOMAIN ui' /\ ui'.requests = w.requests
          /\ ui'.sinceDraw = w.sinceDraw /\ ui'.samples = w.samples /\ ui'.undrawn = w.undrawn
          /\ ui'.timer \in {3, -1}
      BY <2>4, <2>5, Zenon DEF SparkFields, Detail!resetTimer
    <2>7. ui'.samples \in 0..(MaxHistory + 1)
      <3>1. ui.samples \in 0..(MaxHistory + 1) /\ u.samples = ui.samples
        BY <2>2, <2>3, Zenon DEF SparkInv, Drawn
      <3>2. Detail!addToHistory(u.samples) \in 0..(MaxHistory + 1)
        BY <3>1, HistoryBounded
      <3> QED
        BY <2>4, <2>6, <3>1, <3>2, Zenon
    <2>8. ui.requests = 1 /\ Draws(1, -1, ui.undrawn, ui.sinceDraw)
      <3>1. ui.requests > 0 /\ Draws(ui.requests, ui.timer, ui.undrawn, ui.sinceDraw)
        BY <1>2, Zenon DEF SparkInv, Detail!AnswerArrives
      <3> QED
        BY <3>1 DEF Draws
    <2>9. IF draw THEN ui.sinceDraw >= 1 ELSE ui.sinceDraw <= 1
      BY <2>1, Zenon DEF Detail!mayDraw
    <2>10. /\ u.undrawn = IF draw THEN 0 ELSE ui.undrawn
           /\ u.sinceDraw = IF draw THEN 0 ELSE ui.sinceDraw
      BY <2>2, <2>3, Zenon DEF Drawn
    <2>11. Draws(ui'.requests, ui'.timer, ui'.undrawn, ui'.sinceDraw)
      BY <2>2, <2>3, <2>4, <2>6, <2>8, <2>9, <2>10 DEF Draws
    <2> QED
      BY <2>6, <2>7, <2>11 DEF SparkInv
  <1>3. CASE Detail!RequestFails
    <2>1. PICK draw \in BOOLEAN :
              /\ Detail!mayDraw(ui, draw)
              /\ ui' = Detail!resetTimer(Detail!componentDidUpdate(
                           [ui EXCEPT !.requests = @ - 1, !.initialized = TRUE], draw))
      BY <1>3, Zenon DEF Detail!RequestFails
    <2> DEFINE r == [ui EXCEPT !.requests = @ - 1, !.initialized = TRUE]
               u == Detail!componentDidUpdate(r, draw)
    <2>2. /\ SparkFields \subseteq DOMAIN r /\ r.requests = ui.requests - 1
          /\ r.samples = ui.samples /\ r.timer = ui.timer
          /\ r.undrawn = ui.undrawn /\ r.sinceDraw = ui.sinceDraw
      BY Zenon DEF SparkInv, SparkFields
    <2> HIDE DEF r
    <2>3. Drawn(r, u, draw) /\ u.requests = r.requests
      BY <1>1, <2>2, Zenon
    <2> HIDE DEF u
    <2>4. ui' = Detail!resetTimer(u)
      BY <2>1, Zenon DEF r, u
    <2>5. /\ SparkFields \subseteq DOMAIN ui' /\ ui'.requests = ui.requests - 1
          /\ ui'.samples = ui.samples /\ ui'.timer \in {3, -1}
          /\ ui'.undrawn = IF draw THEN 0 ELSE ui.undrawn
          /\ ui'.sinceDraw = IF draw THEN 0 ELSE ui.sinceDraw
      BY <2>2, <2>3, <2>4, Zenon DEF Drawn, SparkFields, Detail!resetTimer
    <2>6. IF draw THEN ui.sinceDraw >= 1 ELSE ui.sinceDraw <= 1
      BY <2>1, Zenon DEF Detail!mayDraw
    <2>7. ui.requests > 0 /\ Draws(ui.requests, ui.timer, ui.undrawn, ui.sinceDraw)
      BY <1>3, Zenon DEF SparkInv, Detail!RequestFails
    <2>8. Draws(ui'.requests, ui'.timer, ui'.undrawn, ui'.sinceDraw)
      BY <2>5, <2>6, <2>7 DEF Draws
    <2> QED
      BY <2>5, <2>8 DEF SparkInv
  <1>4. ASSUME NEW v, /\ SparkFields \subseteq DOMAIN v /\ v.requests = ui.requests
                      /\ Drawn(ui, v, FALSE),
               Detail!click(v)
        PROVE  SparkInv(ui')
    <2>1. PICK draw \in BOOLEAN : ui' = Detail!componentDidUpdate([v EXCEPT !.clicks = @ + 1], draw)
      BY <1>4, Zenon DEF Detail!click
    <2> DEFINE r == [v EXCEPT !.clicks = @ + 1]
    <2>2. /\ SparkFields \subseteq DOMAIN r /\ r.requests = ui.requests
          /\ r.samples = ui.samples /\ r.timer = ui.timer
          /\ r.undrawn = ui.undrawn /\ r.sinceDraw = ui.sinceDraw
      BY <1>4, Zenon DEF Drawn, SparkFields
    <2> HIDE DEF r
    <2>3. Drawn(r, ui', draw) /\ ui'.requests = r.requests
      BY <1>1, <2>1, <2>2, Zenon DEF r
    <2>4. /\ SparkFields \subseteq DOMAIN ui' /\ ui'.requests = ui.requests
          /\ ui'.samples = ui.samples /\ ui'.timer = ui.timer
          /\ ui'.undrawn = IF draw THEN 0 ELSE ui.undrawn
          /\ ui'.sinceDraw = IF draw THEN 0 ELSE ui.sinceDraw
      BY <2>2, <2>3, Zenon DEF Drawn
    <2>5. Draws(ui'.requests, ui'.timer, ui'.undrawn, ui'.sinceDraw)
      BY <2>4 DEF SparkInv, Draws
    <2> QED
      BY <2>4, <2>5 DEF SparkInv
  <1>5. CASE Detail!User
    <2>1. CASE Detail!handleTaskRefreshClick
      <3> DEFINE v == [ui EXCEPT !.taskRefresh = ~@,
                           !.lastSnapshotTasks = IF ui.taskRefresh THEN Detail!shownVersion(ui) ELSE @]
      <3>1. SparkFields \subseteq DOMAIN v /\ v.requests = ui.requests /\ Drawn(ui, v, FALSE)
        BY Zenon DEF SparkInv, SparkFields, Drawn
      <3> QED
        BY <1>4, <2>1, <3>1, Zenon DEF Detail!handleTaskRefreshClick
    <2>2. CASE Detail!handleStageRefreshClick
      <3> DEFINE v == [ui EXCEPT !.stageRefresh = ~@]
      <3>1. SparkFields \subseteq DOMAIN v /\ v.requests = ui.requests /\ Drawn(ui, v, FALSE)
        BY Zenon DEF SparkInv, SparkFields, Drawn
      <3> QED
        BY <1>4, <2>2, <3>1, Zenon DEF Detail!handleStageRefreshClick
    <2>3. CASE Detail!handleTaskFilterClick
      <3>1. PICK filter : Detail!click([ui EXCEPT !.taskFilter = filter])
        BY <2>3, Zenon DEF Detail!handleTaskFilterClick
      <3> DEFINE v == [ui EXCEPT !.taskFilter = filter]
      <3>2. SparkFields \subseteq DOMAIN v /\ v.requests = ui.requests /\ Drawn(ui, v, FALSE)
        BY Zenon DEF SparkInv, SparkFields, Drawn
      <3> QED
        BY <1>4, <3>1, <3>2, Zenon
    <2> QED
      BY <1>5, <2>1, <2>2, <2>3, Zenon DEF Detail!User
  <1>6. CASE Detail!Tick
    <2>1. /\ SparkFields \subseteq DOMAIN ui' /\ ui'.requests = ui.requests /\ ui.timer # 0
          /\ ui'.samples = ui.samples /\ ui'.undrawn = ui.undrawn
          /\ ui'.timer = IF ui.timer = -1 THEN -1 ELSE ui.timer - 1
          /\ ui'.sinceDraw = Detail!Min({ui.sinceDraw + 1, 2})
      BY <1>6, Zenon DEF SparkInv, SparkFields, Detail!Tick
    <2>2. Draws(ui.requests, ui.timer, ui.undrawn, ui.sinceDraw)
      BY Zenon DEF SparkInv
    <2>3. ui'.sinceDraw = IF ui.sinceDraw = 2 THEN 2 ELSE ui.sinceDraw + 1
      <3> DEFINE a == ui.sinceDraw + 1
      <3>1. a \in 1..3
        BY <2>2 DEF Draws
      <3> HIDE DEF a
      <3>2. \E x \in {a, 2} : \A y \in {a, 2} : x =< y
        BY <3>1
      <3>3. Detail!Min({a, 2}) \in {a, 2} /\ \A y \in {a, 2} : Detail!Min({a, 2}) =< y
        BY <3>2, Zenon DEF Detail!Min
      <3>4. Detail!Min({a, 2}) = IF a = 3 THEN 2 ELSE a
        BY <3>1, <3>3
      <3> QED
        BY <2>1, <2>2, <3>4 DEF Draws, a
    <2>4. Draws(ui'.requests, ui'.timer, ui'.undrawn, ui'.sinceDraw)
      BY <2>1, <2>2, <2>3 DEF Draws
    <2> QED
      BY <2>1, <2>4 DEF SparkInv
  <1>7. CASE Detail!TimerFires
    <2>1. /\ SparkFields \subseteq DOMAIN ui' /\ ui'.requests = ui.requests + 1 /\ ui.timer = 0
          /\ ui'.samples = ui.samples /\ ui'.undrawn = ui.undrawn
          /\ ui'.timer = -1 /\ ui'.sinceDraw = ui.sinceDraw
      BY <1>7, Zenon DEF SparkInv, SparkFields, Detail!TimerFires, Detail!refreshLoop
    <2>2. Draws(ui'.requests, ui'.timer, ui'.undrawn, ui'.sinceDraw)
      BY <2>1 DEF SparkInv, Draws
    <2> QED
      BY <2>1, <2>2 DEF SparkInv
  <1>8. CASE Detail!QueryAdvances
    BY <1>8, Zenon DEF Detail!QueryAdvances
  <1> QED
    BY <1>2, <1>3, <1>5, <1>6, <1>7, <1>8, Zenon DEF Detail!Next, Detail!Browser

-----------------------------------------------------------------------------
(* The charts of a panel.  The timer is armed after the drawing and runs as long as the *)
(* second in which nothing is drawn, so a chart is drawn with every sample.             *)

ChartFields == {"kind", "lastRefresh", "history", "drawn", "sinceDraw", "timer", "requests"}

DrawnInTime(requests, timer, sinceDraw) ==
    /\ requests \in {0, 1} /\ timer \in -1..2 /\ sinceDraw \in 0..2
    /\ requests = 1 => timer = -1 /\ sinceDraw = 2
    /\ timer # -1 => timer + sinceDraw >= 2

\* Every chart has n samples, but a rate lacks the first one as long as it is kept.
InStep(history, rates, begun, n) ==
    /\ n \in 0..(MaxHistory + 1) /\ (begun <=> n # 0)
    /\ \A chart \in DOMAIN history \ rates : history[chart] = n
    /\ \A rate \in rates : history[rate] = n - 1 \/ (history[rate] = n /\ n \in {0, MaxHistory + 1})

Rates(u) == Panels!panel(u.kind).rates

PanelsInStep(u) ==
    /\ ChartFields \subseteq DOMAIN u
    /\ DOMAIN u.history = Panels!charts(u.kind) /\ u.lastRefresh \in BOOLEAN
    /\ \E n : InStep(u.history, Rates(u), u.lastRefresh, n)

PanelsDrawn(u) == /\ PanelsInStep(u) /\ u.drawn = u.history
                  /\ DrawnInTime(u.requests, u.timer, u.sinceDraw)

\* addToHistory drops the oldest sample once the history is full.
LEMMA PanelHistoryBounded ==
    ASSUME NEW n \in 0..(MaxHistory + 1)
    PROVE  Panels!addToHistory(n) = IF n <= MaxHistory THEN n + 1 ELSE n
  <1> DEFINE m == n - MaxHistory
  <1>1. m \in Int /\ n \in Int
    BY ChartsAssumption
  <1>2. Panels!Max({m, 0}) \in {m, 0} /\ Panels!Max({m, 0}) >= m /\ Panels!Max({m, 0}) >= 0
    <2>1. \E x \in {m, 0} : \A y \in {m, 0} : x >= y
      BY <1>1
    <2> HIDE DEF m
    <2>2. Panels!Max({m, 0}) \in {m, 0} /\ \A y \in {m, 0} : Panels!Max({m, 0}) >= y
      BY <2>1, Zenon DEF Panels!Max
    <2> QED
      BY <2>2
  <1> QED
    BY <1>1, <1>2, ChartsAssumption DEF Panels!addToHistory

\* The rates a panel samples are charts it draws.
LEMMA RatesAreCharts ==
    ASSUME NEW kind
    PROVE  Panels!panel(kind).rates \subseteq Panels!charts(kind)
  BY Zenon DEF Panels!charts

\* A sample keeps the charts in step.
LEMMA SampledInStep ==
    ASSUME NEW u, PanelsInStep(u)
    PROVE  LET v == Panels!sampled(u)
           IN  /\ PanelsInStep(v) /\ v.sinceDraw = u.sinceDraw
               /\ v.timer = u.timer /\ v.requests = u.requests
  <1> DEFINE v == Panels!sampled(u)
             R == Rates(u)
  <1>1. /\ ChartFields \subseteq DOMAIN v /\ v.kind = u.kind /\ v.sinceDraw = u.sinceDraw
        /\ v.timer = u.timer /\ v.requests = u.requests /\ v.lastRefresh = TRUE
        /\ v.history = [chart \in DOMAIN u.history |->
                           IF chart \in R /\ ~u.lastRefresh THEN 0
                           ELSE Panels!addToHistory(u.history[chart])]
    BY Zenon DEF PanelsInStep, ChartFields, Rates, Panels!sampled
  <1>2. DOMAIN v.history = Panels!charts(v.kind) /\ Rates(v) = R
    BY <1>1, Zenon DEF PanelsInStep, Rates
  <1>3. R \subseteq DOMAIN u.history
    BY RatesAreCharts, Zenon DEF PanelsInStep, Rates
  <1> HIDE DEF v, R
  <1>4. PICK n : InStep(u.history, R, u.lastRefresh, n)
    BY Zenon DEF PanelsInStep, R
  <1> DEFINE h == u.history
             k == v.history
             b == u.lastRefresh
  <1>5. b \in BOOLEAN
    BY DEF PanelsInStep
  <1> HIDE DEF h, k, b
  <1>6. n \in 0..(MaxHistory + 1) /\ (b <=> n # 0)
    BY <1>4, Zenon DEF InStep, b
  <1> DEFINE m == IF n <= MaxHistory THEN n + 1 ELSE n
  <1>7. ASSUME NEW chart \in DOMAIN h \ R PROVE k[chart] = m
    <2>1. k[chart] = Panels!addToHistory(h[chart]) /\ h[chart] = n
      BY <1>1, <1>4, <1>7, Zenon DEF InStep, h, k
    <2> QED
      BY <1>6, <2>1, PanelHistoryBounded, Zenon
  <1>8. ASSUME NEW rate \in R
        PROVE  k[rate] = m - 1 \/ (k[rate] = m /\ m \in {0, MaxHistory + 1})
    <2>1. /\ k[rate] = IF ~b THEN 0 ELSE Panels!addToHistory(h[rate])
          /\ h[rate] = n - 1 \/ (h[rate] = n /\ n \in {0, MaxHistory + 1})
      BY <1>1, <1>3, <1>4, <1>8, Zenon DEF InStep, h, k, b
    <2>2. CASE ~b
      BY <1>6, <2>1, <2>2, ChartsAssumption
    <2>3. CASE b
      <3>1. h[rate] \in 0..(MaxHistory + 1)
        BY <1>6, <2>1, <2>3, ChartsAssumption
      <3>2. k[rate] = IF h[rate] <= MaxHistory THEN h[rate] + 1 ELSE h[rate]
        BY <2>1, <2>3, <3>1, PanelHistoryBounded, Zenon
      <3> QED
        BY <1>6, <2>1, <2>3, <3>2, ChartsAssumption
    <2> QED
      BY <1>5, <2>2, <2>3
  <1>9. m \in 0..(MaxHistory + 1) /\ m # 0
    BY <1>6, ChartsAssumption
  <1> HIDE DEF m
  <1>10. DOMAIN k = DOMAIN h
    BY <1>1, Zenon DEF h, k
  <1>11. InStep(v.history, R, v.lastRefresh, m)
    BY <1>1, <1>7, <1>8, <1>9, <1>10, Zenon DEF InStep, k
  <1>12. PanelsInStep(v)
    BY <1>1, <1>2, <1>11, Zenon DEF PanelsInStep
  <1> QED
    BY <1>1, <1>12, Zenon DEF v

\* The charts of the panels start in step.
LEMMA ChartsStart ==
    ASSUME Panels!Init
    PROVE  PanelsDrawn(ui)
  <1>1. PICK kind \in Panels!Kind : ui = Panels!refreshLoop(Panels!constructor(kind))
    BY Zenon DEF Panels!Init
  <1>2. /\ ChartFields \subseteq DOMAIN ui /\ ui.kind = kind /\ ui.lastRefresh = FALSE
        /\ ui.history = [chart \in Panels!charts(kind) |-> 0] /\ ui.drawn = ui.history
        /\ ui.requests = 0 + 1 /\ ui.timer = -1 /\ ui.sinceDraw = 2
    BY <1>1, Zenon DEF ChartFields, Panels!refreshLoop, Panels!constructor, Panels!Never, Panels!Second
  <1>3. 0 \in 0..(MaxHistory + 1)
    BY ChartsAssumption
  <1>4. Rates(ui) \subseteq Panels!charts(kind)
    BY <1>2, RatesAreCharts, Zenon DEF Rates
  <1>5. InStep(ui.history, Rates(ui), ui.lastRefresh, 0)
    BY <1>2, <1>3, <1>4, Zenon DEF InStep
  <1>6. PanelsInStep(ui)
    BY <1>2, <1>5, Zenon DEF PanelsInStep
  <1> QED
    BY <1>2, <1>6 DEF PanelsDrawn, DrawnInTime

\* What leaves the fields of the charts alone.
SameCharts(u, v) ==
    /\ ChartFields \subseteq DOMAIN v /\ v.kind = u.kind /\ v.lastRefresh = u.lastRefresh
    /\ v.history = u.history /\ v.drawn = u.drawn /\ v.sinceDraw = u.sinceDraw

\* States that agree on the charts are in step together.
LEMMA SameChartsInStep ==
    ASSUME NEW u, NEW v, PanelsInStep(u), SameCharts(u, v)
    PROVE  PanelsInStep(v)
  BY Zenon DEF PanelsInStep, SameCharts, Rates

\* An answer and a draw keep the charts of a panel in step.
LEMMA ChartsStep ==
    ASSUME PanelsDrawn(ui), Panels!Next
    PROVE  PanelsDrawn(ui')
  <1> USE DEF Panels!Never, Panels!Second
  <1> DEFINE a == Panels!answered(ui)
  <1>1. SameCharts(ui, a) /\ a.requests = ui.requests - 1 /\ a.timer = ui.timer
    BY Zenon DEF PanelsDrawn, PanelsInStep, ChartFields, SameCharts, Panels!answered
  <1>2. DrawnInTime(ui.requests, ui.timer, ui.sinceDraw) /\ ui.drawn = ui.history /\ PanelsInStep(ui)
    BY Zenon DEF PanelsDrawn
  <1> HIDE DEF a
  \* The answer to the only request, once the charts are drawn or are as they were.
  <1>3. ASSUME NEW u, PanelsInStep(u), u.drawn = u.history, u.sinceDraw \in {0, 2},
               u.requests = ui.requests - 1, ui.requests > 0
        PROVE  PanelsDrawn(Panels!resetTimer(u))
    <2> DEFINE v == Panels!resetTimer(u)
    <2>1. SameCharts(u, v) /\ v.requests = ui.requests - 1 /\ v.timer = 2
      BY <1>3, Zenon DEF PanelsInStep, ChartFields, SameCharts, Panels!resetTimer
    <2> HIDE DEF v
    <2>2. PanelsInStep(v)
      BY <1>3, <2>1, SameChartsInStep
    <2>3. v.drawn = v.history /\ v.sinceDraw \in {0, 2}
      BY <1>3, <2>1, Zenon DEF SameCharts
    <2>4. DrawnInTime(v.requests, v.timer, v.sinceDraw)
      BY <1>2, <1>3, <2>1, <2>3 DEF DrawnInTime
    <2> QED
      BY <2>2, <2>3, <2>4 DEF PanelsDrawn, v
  <1>4. ASSUME NEW u, PanelsInStep(u)
        PROVE  LET v == Panels!draws(u)
               IN  /\ PanelsInStep(v) /\ v.drawn = v.history /\ v.sinceDraw = 0
                   /\ v.requests = u.requests
    <2> DEFINE v == Panels!draws(u)
    <2>1. /\ ChartFields \subseteq DOMAIN v /\ v.kind = u.kind /\ v.lastRefresh = u.lastRefresh
          /\ v.history = u.history /\ v.drawn = u.history /\ v.sinceDraw = 0
          /\ v.requests = u.requests
      BY <1>4, Zenon DEF PanelsInStep, ChartFields, Panels!draws
    <2> HIDE DEF v
    <2>2. PanelsInStep(v)
      BY <1>4, <2>1, Zenon DEF PanelsInStep, Rates
    <2> QED
      BY <2>1, <2>2, Zenon DEF v
  <1>5. ASSUME NEW kind, Panels!arrives(kind)
        PROVE  ui.requests > 0 /\ ui.sinceDraw = 2
    <2>1. ui.requests > 0
      BY <1>5, Zenon DEF Panels!arrives
    <2> QED
      BY <1>2, <2>1 DEF DrawnInTime
  <1>6. PanelsInStep(a) /\ a.drawn = a.history
    BY <1>1, <1>2, SameChartsInStep, Zenon DEF SameCharts
  <1>7. CASE Panels!ClusterHUDAnswered \/ Panels!StatusFooterAnswered
    <2> DEFINE s == Panels!sampled(a)
               d == Panels!draws(s)
    <2>1. ui.requests > 0 /\ ui.sinceDraw = 2
      BY <1>5, <1>7, Zenon DEF Panels!ClusterHUDAnswered, Panels!StatusFooterAnswered
    <2>2. PanelsInStep(s) /\ s.sinceDraw = 2 /\ s.requests = ui.requests - 1
      BY <1>1, <1>6, <2>1, SampledInStep, Zenon DEF SameCharts
    <2> HIDE DEF s
    <2>3. PanelsInStep(d) /\ d.drawn = d.history /\ d.sinceDraw = 0 /\ d.requests = ui.requests - 1
      BY <1>4, <2>2, Zenon
    <2>4. ~(s.sinceDraw < 2)
      BY <2>2
    <2>5. ui' = Panels!resetTimer(d)
      BY <1>7, <2>4, Zenon DEF a, s, Panels!ClusterHUDAnswered, Panels!StatusFooterAnswered,
         Panels!clusterDidUpdate, Panels!footerDidUpdate
    <2> QED
      BY <1>3, <2>1, <2>3, <2>5, Zenon
  <1>8. CASE Panels!WorkerStatusAnswered \/ Panels!WorkerStatusFails
    <2> DEFINE i == [a EXCEPT !.info = TRUE]
               f == [a EXCEPT !.initialized = TRUE]
               s == Panels!sampled(i)
               d == Panels!draws(s)
               e == Panels!draws(f)
    <2>1. ui.requests > 0
      BY <1>5, <1>8, Zenon DEF Panels!WorkerStatusAnswered, Panels!WorkerStatusFails
    <2>2. SameCharts(a, i) /\ SameCharts(a, f) /\ i.requests = a.requests /\ f.requests = a.requests
      BY <1>6, Zenon DEF PanelsInStep, SameCharts, ChartFields
    <2> HIDE DEF i, f
    <2>3. PanelsInStep(i) /\ PanelsInStep(f)
      BY <1>6, <2>2, SameChartsInStep, Zenon
    <2>4. PanelsInStep(s) /\ s.requests = ui.requests - 1
      BY <1>1, <2>2, <2>3, SampledInStep, Zenon
    <2> HIDE DEF s
    <2>5. PanelsInStep(d) /\ d.drawn = d.history /\ d.sinceDraw \in {0, 2} /\ d.requests = ui.requests - 1
      BY <1>4, <2>4, Zenon
    <2>6. PanelsInStep(e) /\ e.drawn = e.history /\ e.sinceDraw \in {0, 2} /\ e.requests = ui.requests - 1
      BY <1>1, <1>4, <2>2, <2>3, Zenon
    <2>7. ui' = Panels!resetTimer(d) \/ ui' = Panels!resetTimer(e)
      BY <1>8, Zenon DEF a, i, f, s, Panels!WorkerStatusAnswered, Panels!WorkerStatusFails,
         Panels!workerDidUpdate
    <2> HIDE DEF d, e
    <2> QED
      BY <1>3, <2>1, <2>5, <2>6, <2>7, Zenon
  <1>9. ASSUME NEW u, SameCharts(ui, u), u.requests = ui.requests - 1, ui.requests > 0,
               ui.sinceDraw = 2
        PROVE  PanelsDrawn(Panels!resetTimer(u))
    <2>1. PanelsInStep(u) /\ u.drawn = u.history /\ u.sinceDraw \in {0, 2}
      BY <1>2, <1>9, SameChartsInStep, Zenon DEF SameCharts
    <2> QED
      BY <1>3, <1>9, <2>1, Zenon
  <1>10. CASE Panels!ChartsFail
    BY <1>1, <1>5, <1>9, <1>10, Zenon DEF a, Panels!ChartsFail
  <1>11. CASE \/ Panels!PageTitleAnswered \/ Panels!PageTitleFails
              \/ Panels!HeaderAnswered \/ Panels!HeaderFails
    <2> DEFINE c == Panels!connected(a)
               p == [c EXCEPT !.dialog = FALSE, !.announced = FALSE]
               b == Panels!blinks(a)
               r == Panels!resetTimer(b)
               q == [r EXCEPT !.modalShown = TRUE, !.dialog = r.info, !.announced = r.info]
    <2>1. ui.requests > 0 /\ ui.sinceDraw = 2
      BY <1>5, <1>11, Zenon DEF Panels!PageTitleAnswered, Panels!PageTitleFails,
         Panels!HeaderAnswered, Panels!HeaderFails
    <2>2. /\ SameCharts(ui, c) /\ c.requests = ui.requests - 1
          /\ SameCharts(ui, b) /\ b.requests = ui.requests - 1
      BY <1>1, Zenon DEF SameCharts, ChartFields, Panels!connected, Panels!blinks
    <2> HIDE DEF c, b
    <2>3. SameCharts(ui, p) /\ p.requests = ui.requests - 1
      BY <2>2, Zenon DEF SameCharts, ChartFields
    <2> HIDE DEF p
    <2>4. PanelsDrawn(r) /\ PanelsDrawn(Panels!resetTimer(c)) /\ PanelsDrawn(Panels!resetTimer(p))
      BY <1>9, <2>1, <2>2, <2>3, Zenon
    <2> HIDE DEF r
    <2>5. SameCharts(r, q) /\ q.requests = r.requests /\ q.timer = r.timer
      BY <2>4, Zenon DEF PanelsDrawn, PanelsInStep, SameCharts, ChartFields
    <2> HIDE DEF q
    <2>6. PanelsDrawn(q)
      BY <2>4, <2>5, SameChartsInStep, Zenon DEF PanelsDrawn, SameCharts
    <2>7. \/ ui' = Panels!resetTimer(c) \/ ui' = Panels!resetTimer(p)
          \/ ui' = r \/ ui' = q
      BY <1>11, Zenon DEF a, c, p, b, r, q, Panels!PageTitleAnswered, Panels!PageTitleFails,
         Panels!HeaderAnswered, Panels!HeaderFails
    <2> QED
      BY <2>4, <2>6, <2>7, Zenon
  <1>12. CASE Panels!TimerFires
    <2>1. SameCharts(ui, ui') /\ ui'.timer = -1 /\ ui'.requests = ui.requests + 1 /\ ui.timer = 0
      BY <1>2, <1>12, Zenon DEF PanelsInStep, SameCharts, ChartFields, Panels!TimerFires,
         Panels!refreshLoop
    <2>2. DrawnInTime(ui'.requests, ui'.timer, ui'.sinceDraw)
      <3>1. ui'.sinceDraw = ui.sinceDraw
        BY <2>1, Zenon DEF SameCharts
      <3> QED
        BY <1>2, <2>1, <3>1 DEF DrawnInTime
    <2> QED
      BY <1>2, <2>1, <2>2, SameChartsInStep, Zenon DEF PanelsDrawn, SameCharts
  <1>13. CASE Panels!Tick
    <2>1. /\ ChartFields \subseteq DOMAIN ui' /\ ui'.kind = ui.kind
          /\ ui'.lastRefresh = ui.lastRefresh /\ ui'.history = ui.history /\ ui'.drawn = ui.drawn
          /\ ui'.timer = (IF ui.timer = -1 THEN -1 ELSE ui.timer - 1) /\ ui.timer # 0
          /\ ui'.sinceDraw = Panels!Min({ui.sinceDraw + 1, 2}) /\ ui'.requests = ui.requests
      BY <1>2, <1>13, Zenon DEF PanelsInStep, ChartFields, Panels!Tick
    <2>2. ui'.sinceDraw = IF ui.sinceDraw = 2 THEN 2 ELSE ui.sinceDraw + 1
      <3> DEFINE b == ui.sinceDraw + 1
      <3>1. b \in 1..3 /\ ui.sinceDraw \in 0..2
        BY <1>2 DEF DrawnInTime
      <3> HIDE DEF b
      <3>2. \E x \in {b, 2} : \A y \in {b, 2} : x =< y
        BY <3>1
      <3>3. Panels!Min({b, 2}) \in {b, 2} /\ \A y \in {b, 2} : Panels!Min({b, 2}) =< y
        BY <3>2, Zenon DEF Panels!Min
      <3>4. Panels!Min({b, 2}) = IF b = 3 THEN 2 ELSE b
        BY <3>1, <3>3
      <3> QED
        BY <2>1, <3>1, <3>4 DEF b
    <2>3. DrawnInTime(ui'.requests, ui'.timer, ui'.sinceDraw)
      BY <1>2, <2>1, <2>2 DEF DrawnInTime
    <2>4. PanelsInStep(ui')
      BY <1>2, <2>1, Zenon DEF PanelsInStep, Rates
    <2> QED
      BY <1>2, <2>1, <2>3, <2>4, Zenon DEF PanelsDrawn
  <1>14. CASE Panels!closeDialog
    <2>1. SameCharts(ui, ui') /\ ui'.timer = ui.timer /\ ui'.requests = ui.requests
      BY <1>2, <1>14, Zenon DEF PanelsInStep, SameCharts, ChartFields, Panels!closeDialog
    <2> QED
      BY <1>2, <2>1, SameChartsInStep, Zenon DEF PanelsDrawn, SameCharts
  <1> QED
    BY <1>7, <1>8, <1>10, <1>11, <1>12, <1>13, <1>14, Zenon
       DEF Panels!Next, Panels!Browser, Panels!Answered, Panels!Fails

-----------------------------------------------------------------------------
(* The dialog of the title bar: a connection that is lost is announced once, when the *)
(* title bar is there to announce it.                                                 *)

DialogFields == {"kind", "info", "noConnection", "modalShown", "dialog", "announced"}

LightInv(u) ==
    /\ DialogFields \subseteq DOMAIN u
    /\ u.dialog => u.kind = "PageTitle" /\ u.noConnection /\ u.announced
    /\ u.kind = "PageTitle" /\ u.info /\ (u.noConnection \/ u.modalShown) => u.announced

SameDialog(u, v) ==
    /\ DialogFields \subseteq DOMAIN v /\ v.kind = u.kind /\ v.info = u.info
    /\ v.noConnection = u.noConnection /\ v.modalShown = u.modalShown
    /\ v.dialog = u.dialog /\ v.announced = u.announced

\* States that agree on the dialog satisfy its invariant together.
LEMMA SameDialogSame ==
    ASSUME NEW u, NEW v, LightInv(u), SameDialog(u, v)
    PROVE  LightInv(v)
  BY Zenon DEF LightInv, SameDialog

\* No dialog is open at the start.
LEMMA LightStart ==
    ASSUME Panels!Init
    PROVE  LightInv(ui)
  <1>1. PICK kind \in Panels!Kind : ui = Panels!refreshLoop(Panels!constructor(kind))
    BY Zenon DEF Panels!Init
  <1>2. /\ DialogFields \subseteq DOMAIN ui /\ ui.dialog = FALSE
        /\ ui.noConnection = FALSE /\ ui.modalShown = FALSE
    BY <1>1, Zenon DEF DialogFields, Panels!refreshLoop, Panels!constructor
  <1> QED
    BY <1>2 DEF LightInv

\* Samples, draws and timers leave the dialog alone.
LEMMA DialogLeftAlone ==
    ASSUME NEW u, DialogFields \subseteq DOMAIN u
    PROVE  /\ SameDialog(u, Panels!answered(u)) /\ SameDialog(u, Panels!sampled(u))
           /\ SameDialog(u, Panels!draws(u)) /\ SameDialog(u, Panels!resetTimer(u))
           /\ SameDialog(u, Panels!clusterDidUpdate(u)) /\ SameDialog(u, Panels!footerDidUpdate(u))
           /\ SameDialog(u, Panels!workerDidUpdate(u)) /\ SameDialog(u, Panels!refreshLoop(u))
  <1> USE DEF SameDialog, DialogFields
  <1>1. SameDialog(u, Panels!draws(u)) /\ SameDialog(u, u)
    BY Zenon DEF Panels!draws
  <1>2. SameDialog(u, Panels!answered(u)) /\ SameDialog(u, Panels!resetTimer(u))
    BY Zenon DEF Panels!answered, Panels!resetTimer
  <1>3. SameDialog(u, Panels!sampled(u)) /\ SameDialog(u, Panels!refreshLoop(u))
    BY Zenon DEF Panels!sampled, Panels!refreshLoop
  <1> HIDE DEF SameDialog
  <1> QED
    BY <1>1, <1>2, <1>3, Zenon
       DEF Panels!clusterDidUpdate, Panels!footerDidUpdate, Panels!workerDidUpdate

\* Every step of the panels keeps the invariant of the dialog.
LEMMA LightStep ==
    ASSUME LightInv(ui), Panels!Next
    PROVE  LightInv(ui')
  <1> DEFINE a == Panels!answered(ui)
  <1>1. ASSUME NEW u, LightInv(u)
        PROVE  /\ LightInv(Panels!sampled(u)) /\ LightInv(Panels!resetTimer(u))
               /\ LightInv(Panels!clusterDidUpdate(u)) /\ LightInv(Panels!footerDidUpdate(u))
               /\ LightInv(Panels!workerDidUpdate(u)) /\ LightInv(Panels!refreshLoop(u))
               /\ LightInv(Panels!answered(u))
    <2>1. DialogFields \subseteq DOMAIN u
      BY <1>1 DEF LightInv
    <2> QED
      BY <1>1, <2>1, DialogLeftAlone, SameDialogSame, Zenon
  <1>2. LightInv(a) /\ SameDialog(ui, a)
    BY <1>1, DialogLeftAlone, Zenon DEF LightInv
  <1>3. CASE Panels!ClusterHUDAnswered \/ Panels!StatusFooterAnswered \/ Panels!ChartsFail
    BY <1>1, <1>2, <1>3, Zenon DEF Panels!ClusterHUDAnswered, Panels!StatusFooterAnswered, Panels!ChartsFail
  <1> HIDE DEF a
  <1>4. CASE Panels!WorkerStatusAnswered \/ Panels!WorkerStatusFails
    <2> DEFINE i == [a EXCEPT !.info = TRUE]
               f == [a EXCEPT !.initialized = TRUE]
    <2>1. SameDialog(a, f)
      BY <1>2, Zenon DEF LightInv, SameDialog, DialogFields
    <2>2. LightInv(f)
      BY <1>2, <2>1, SameDialogSame
    <2>3. ui.kind = "WorkerStatus"
      BY <1>4, Zenon DEF Panels!WorkerStatusAnswered, Panels!WorkerStatusFails, Panels!arrives
    <2>4. a.kind = "WorkerStatus" /\ "WorkerStatus" # "PageTitle"
      BY <1>2, <2>3 DEF SameDialog
    <2>5. /\ DialogFields \subseteq DOMAIN i /\ i.kind = a.kind /\ i.dialog = a.dialog
          /\ i.noConnection = a.noConnection /\ i.announced = a.announced
      BY <1>2, Zenon DEF LightInv, DialogFields
    <2> HIDE DEF i, f
    <2>6. LightInv(i)
      BY <1>2, <2>4, <2>5, Zenon DEF LightInv
    <2> QED
      BY <1>1, <1>4, <2>2, <2>6, Zenon
         DEF Panels!WorkerStatusAnswered, Panels!WorkerStatusFails, a, i, f
  <1>5. CASE Panels!PageTitleAnswered \/ Panels!HeaderAnswered
    <2> DEFINE c == Panels!connected(a)
               p == [c EXCEPT !.dialog = FALSE, !.announced = FALSE]
    <2>1. /\ DialogFields \subseteq DOMAIN c /\ c.kind = a.kind /\ c.noConnection = FALSE
          /\ c.modalShown = FALSE /\ c.dialog = a.dialog /\ c.announced = a.announced
      BY <1>2, Zenon DEF LightInv, DialogFields, Panels!connected
    <2> HIDE DEF c
    <2>2. /\ DialogFields \subseteq DOMAIN p /\ p.dialog = FALSE /\ p.noConnection = FALSE
          /\ p.modalShown = FALSE
      BY <2>1, Zenon DEF DialogFields
    <2> HIDE DEF p
    <2>3. LightInv(p)
      BY <2>2 DEF LightInv
    <2>4. CASE Panels!PageTitleAnswered
      BY <1>1, <2>3, <2>4, Zenon DEF Panels!PageTitleAnswered, a, c, p
    <2>5. CASE Panels!HeaderAnswered
      <3>1. a.kind = "Header" /\ "Header" # "PageTitle"
        BY <1>2, <2>5, Zenon DEF SameDialog, Panels!HeaderAnswered, Panels!arrives
      <3>2. LightInv(c)
        BY <1>2, <2>1, <3>1, Zenon DEF LightInv
      <3> QED
        BY <1>1, <2>5, <3>2, Zenon DEF Panels!HeaderAnswered, a, c
    <2> QED
      BY <1>5, <2>4, <2>5
  <1>6. CASE Panels!PageTitleFails \/ Panels!HeaderFails
    <2> DEFINE b == Panels!blinks(a)
               r == Panels!resetTimer(b)
               q == [r EXCEPT !.modalShown = TRUE, !.dialog = r.info, !.announced = r.info]
    <2>1. /\ DialogFields \subseteq DOMAIN b /\ b.kind = ui.kind /\ b.noConnection = TRUE
          /\ b.modalShown = ui.modalShown /\ b.dialog = ui.dialog /\ b.announced = ui.announced
          /\ b.info = ui.info
      BY <1>2, Zenon DEF SameDialog, DialogFields, Panels!blinks
    <2> HIDE DEF b
    <2>2. SameDialog(b, r)
      BY <2>1, DialogLeftAlone
    <2> HIDE DEF r
    <2>3. CASE ui' = r /\ (ui.kind = "PageTitle" => ui.modalShown)
      BY <2>1, <2>2, <2>3, Zenon DEF LightInv, SameDialog
    <2>4. CASE ui' = q /\ ui.kind = "PageTitle"
      <3>1. /\ DialogFields \subseteq DOMAIN q /\ q.kind = r.kind /\ q.dialog = r.info
            /\ q.announced = r.info /\ q.info = r.info /\ q.noConnection = r.noConnection
        BY <2>2, Zenon DEF SameDialog, DialogFields
      <3> HIDE DEF q
      <3> QED
        BY <2>1, <2>2, <2>4, <3>1, Zenon DEF LightInv, SameDialog
    <2>5. CASE Panels!HeaderFails
      <3>1. ui.kind = "Header" /\ "Header" # "PageTitle" /\ ui' = r
        BY <2>5, Zenon DEF Panels!HeaderFails, Panels!arrives, a, b, r
      <3> QED
        BY <2>3, <3>1, Zenon
    <2> QED
      BY <1>6, <2>3, <2>4, <2>5, Zenon DEF Panels!PageTitleFails, Panels!arrives, a, b, r, q
  <1>7. CASE Panels!TimerFires
    BY <1>1, <1>7, Zenon DEF Panels!TimerFires
  <1>8. CASE Panels!Tick
    <2>1. SameDialog(ui, ui')
      BY <1>8, Zenon DEF LightInv, SameDialog, DialogFields, Panels!Tick
    <2> QED
      BY <2>1, SameDialogSame
  <1>9. CASE Panels!closeDialog
    <2>1. /\ DialogFields \subseteq DOMAIN ui' /\ ui'.dialog = FALSE /\ ui'.kind = ui.kind
          /\ ui'.info = ui.info /\ ui'.noConnection = ui.noConnection
          /\ ui'.modalShown = ui.modalShown /\ ui'.announced = ui.announced
      BY <1>9, Zenon DEF LightInv, DialogFields, Panels!closeDialog
    <2> QED
      BY <2>1, Zenon DEF LightInv
  <1> QED
    BY <1>3, <1>4, <1>5, <1>6, <1>7, <1>8, <1>9, Zenon
       DEF Panels!Next, Panels!Browser, Panels!Answered, Panels!Fails

\* While the dialog is open the light is not green.
LEMMA DialogTrue ==
    ASSUME LightInv(ui)
    PROVE  Panels!DialogTellsTheTruth
  BY DEF LightInv, Panels!DialogTellsTheTruth, Panels!renderStatusLight

-----------------------------------------------------------------------------
(* The live plan: the boxes on the canvas follow every answer, the labels stay. *)

GraphFields == {"query", "svg", "canvas", "boxes", "labels", "first", "mounted", "failedFirst",
                "requests"}

GraphInv(u) ==
    /\ GraphFields \subseteq DOMAIN u
    /\ u.query # {} /\ u.mounted => u.first # {}
    /\ u.mounted /\ ~u.failedFirst =>
         /\ u.boxes = LivePlan!versions(u.query) /\ u.labels = u.first
         /\ IF u.svg THEN u.canvas ELSE u.query = {}

\* The graph of the plan starts empty.
LEMMA GraphStart ==
    ASSUME LivePlan!Init
    PROVE  GraphInv(ui)
  <1>1. /\ GraphFields \subseteq DOMAIN ui /\ ui.query = {} /\ ui.boxes = {} /\ ui.labels = {}
        /\ ui.first = {} /\ ui.svg = FALSE
    BY Zenon DEF LivePlan!Init, LivePlan!refreshLoop, LivePlan!constructor, LivePlan!Unknown, GraphFields
  <1> QED
    BY <1>1 DEF GraphInv, LivePlan!versions

\* setState sets the boxes of what it stores, if there is a canvas or a query to draw on it,
\* and the labels that are not there yet.
LEMMA GraphDrawn ==
    ASSUME NEW u, GraphFields \subseteq DOMAIN u, u.mounted,
           u.query # {} => u.first # {},
           ~u.failedFirst =>
              /\ IF u.svg THEN u.canvas ELSE u.query # {}
              /\ (IF u.labels = {} THEN LivePlan!versions(u.query) ELSE u.labels) = u.first
    PROVE  GraphInv(LivePlan!resetTimer(LivePlan!setState(u)))
  <1> DEFINE d == LivePlan!updateD3Graph(u)
             s == LivePlan!setState(u)
             v == LivePlan!resetTimer(s)
             canvas == IF u.svg THEN u.canvas ELSE u.query # {}
  <1>1. s = d
    BY Zenon DEF LivePlan!setState
  <1>2. CASE LivePlan!throws(u)
    <2>1. GraphFields \subseteq DOMAIN d /\ d.mounted = FALSE
      BY <1>2, Zenon DEF GraphFields, LivePlan!updateD3Graph
    <2> HIDE DEF d
    <2>2. GraphFields \subseteq DOMAIN v /\ v.mounted = FALSE
      BY <1>1, <2>1, Zenon DEF GraphFields, LivePlan!resetTimer
    <2> QED
      BY <2>2 DEF GraphInv
  <1>3. CASE ~LivePlan!throws(u)
    <2>1. /\ GraphFields \subseteq DOMAIN d /\ d.query = u.query /\ d.canvas = canvas
          /\ d.failedFirst = u.failedFirst /\ d.first = u.first /\ d.svg = TRUE
          /\ d.boxes = LivePlan!versions(u.query)
          /\ d.labels = IF u.labels = {} THEN LivePlan!versions(u.query) ELSE u.labels
      BY <1>3, Zenon DEF GraphFields, LivePlan!updateD3Graph, LivePlan!Unknown
    <2> HIDE DEF d
    <2>2. /\ GraphFields \subseteq DOMAIN v /\ v.query = d.query /\ v.canvas = d.canvas
          /\ v.failedFirst = d.failedFirst /\ v.boxes = d.boxes /\ v.labels = d.labels
          /\ v.first = d.first /\ v.svg = d.svg
      BY <1>1, <2>1, Zenon DEF GraphFields, LivePlan!resetTimer
    <2> HIDE DEF v
    <2>3. ASSUME ~v.failedFirst PROVE canvas /\ v.labels = v.first
      BY <2>1, <2>2, <2>3, Zenon
    <2>4. v.query # {} => v.first # {}
      BY <2>1, <2>2, Zenon
    <2>5. v.boxes = LivePlan!versions(v.query) /\ v.svg = TRUE /\ v.canvas = canvas
      BY <2>1, <2>2, Zenon
    <2>6. GraphInv(v)
      BY <2>2, <2>3, <2>4, <2>5, Zenon DEF GraphInv
    <2> QED
      BY <2>6 DEF v, s
  <1> QED
    BY <1>2, <1>3

\* Every step of the live plan leaves the graph that of the query shown.
LEMMA GraphStep ==
    ASSUME GraphInv(ui), LivePlan!Next
    PROVE  GraphInv(ui')
  <1>1. ASSUME NEW u, GraphFields \subseteq DOMAIN u, u.mounted = ui.mounted, ~ui.mounted
        PROVE  GraphInv(LivePlan!resetTimer(LivePlan!setState(u)))
    <2> DEFINE v == LivePlan!resetTimer(LivePlan!setState(u))
    <2>1. LivePlan!setState(u) = u
      BY <1>1, Zenon DEF LivePlan!setState
    <2>2. GraphFields \subseteq DOMAIN v /\ v.mounted = u.mounted
      BY <1>1, <2>1, Zenon DEF GraphFields, LivePlan!resetTimer
    <2> HIDE DEF v
    <2>3. GraphInv(v)
      BY <1>1, <2>2, Zenon DEF GraphInv
    <2> QED
      BY <2>3 DEF v
  <1>2. CASE LivePlan!AnswerArrives
    <2> DEFINE r == [ui EXCEPT !.query = IF ui.mounted THEN {server} ELSE @,
                               !.initialized = TRUE,
                               !.ended = IF ui.mounted THEN server.final ELSE @,
                               !.first = IF @ = {} THEN {server.version} ELSE @,
                               !.requests = @ - 1]
    <2>1. /\ GraphFields \subseteq DOMAIN r /\ r.mounted = ui.mounted /\ r.svg = ui.svg
          /\ r.failedFirst = ui.failedFirst /\ r.canvas = ui.canvas /\ r.labels = ui.labels
          /\ r.first = IF ui.first = {} THEN {server.version} ELSE ui.first
          /\ ui.mounted => r.query = {server}
      BY Zenon DEF GraphInv, GraphFields
    <2>2. ui' = LivePlan!resetTimer(LivePlan!setState(r))
      BY <1>2, Zenon DEF LivePlan!AnswerArrives
    <2> HIDE DEF r
    <2>3. {server} # {} /\ {server.version} # {} /\ LivePlan!versions({server}) = {server.version}
      BY DEF LivePlan!versions
    <2>4. r.mounted /\ ~r.failedFirst =>
             /\ IF r.svg THEN r.canvas ELSE r.query # {}
             /\ (IF r.labels = {} THEN LivePlan!versions(r.query) ELSE r.labels) = r.first
      BY <2>1, <2>3, Zenon DEF GraphInv
    <2>5. r.first # {}
      BY <2>1, <2>3, Zenon
    <2> QED
      BY <1>1, <2>1, <2>2, <2>4, <2>5, GraphDrawn, Zenon
  <1>3. CASE LivePlan!RequestFails
    <2> DEFINE r == [ui EXCEPT !.initialized = TRUE, !.requests = @ - 1,
                               !.failedFirst = @ \/ ui.query = LivePlan!Unknown]
    <2>1. /\ GraphFields \subseteq DOMAIN r /\ r.mounted = ui.mounted /\ r.svg = ui.svg
          /\ r.canvas = ui.canvas /\ r.query = ui.query /\ r.labels = ui.labels
          /\ r.first = ui.first
          /\ r.failedFirst = (ui.failedFirst \/ ui.query = {})
      BY Zenon DEF GraphInv, GraphFields, LivePlan!Unknown
    <2>2. ui' = LivePlan!resetTimer(LivePlan!setState(r))
      BY <1>3, Zenon DEF LivePlan!RequestFails
    <2> HIDE DEF r
    <2>3. r.mounted /\ ~r.failedFirst =>
             /\ IF r.svg THEN r.canvas ELSE r.query # {}
             /\ (IF r.labels = {} THEN LivePlan!versions(r.query) ELSE r.labels) = r.first
      BY <2>1, Zenon DEF GraphInv
    <2>4. r.mounted /\ r.query # {} => r.first # {}
      BY <2>1, Zenon DEF GraphInv
    <2> QED
      BY <1>1, <2>1, <2>2, <2>3, <2>4, GraphDrawn, Zenon
  <1>4. CASE LivePlan!TimerFires
    <2>1. /\ GraphFields \subseteq DOMAIN ui' /\ ui'.mounted = ui.mounted /\ ui'.svg = ui.svg
          /\ ui'.canvas = ui.canvas /\ ui'.query = ui.query /\ ui'.failedFirst = ui.failedFirst
          /\ ui'.boxes = ui.boxes /\ ui'.labels = ui.labels /\ ui'.first = ui.first
      BY <1>4, Zenon DEF GraphInv, GraphFields, LivePlan!TimerFires, LivePlan!refreshLoop
    <2> QED
      BY <2>1, Zenon DEF GraphInv
  <1>5. CASE LivePlan!QueryAdvances \/ LivePlan!Final
    BY <1>5, Zenon DEF LivePlan!QueryAdvances, LivePlan!Final
  <1> QED
    BY <1>2, <1>3, <1>4, <1>5, Zenon DEF LivePlan!Next, LivePlan!Browser

-----------------------------------------------------------------------------
(* The thread snapshots: what is on the screen is made of the last snapshot taken. *)

ThreadFields == {"threads", "taken", "selectedGroup", "requests"}

SnapshotInv ==
    /\ ThreadFields \subseteq DOMAIN ui /\ server \subseteq Threads!Thread
    /\ ui.taken \subseteq Threads!Thread /\ ui.threads \subseteq {Threads!processThreads(ui.taken)}

\* The page of a worker's threads has no snapshot at the start.
LEMMA SnapshotStart ==
    ASSUME Threads!Init
    PROVE  SnapshotInv
  <1>1. ThreadFields \subseteq DOMAIN ui /\ ui.taken = {} /\ ui.threads = {}
    BY Zenon DEF Threads!Init, Threads!constructor, Threads!Unknown, ThreadFields
  <1>2. server \subseteq Threads!Thread
    BY Zenon DEF Threads!Init, Threads!Threads, Threads!kSubset
  <1> QED
    BY <1>1, <1>2 DEF SnapshotInv

\* The groups shown stay those of the snapshot that was taken.
LEMMA SnapshotStep ==
    ASSUME SnapshotInv, Threads!Next
    PROVE  SnapshotInv'
  <1> DEFINE Same == /\ ThreadFields \subseteq DOMAIN ui' /\ ui'.taken = ui.taken
                     /\ ui'.threads = ui.threads /\ server' = server
  <1>1. ASSUME Same PROVE SnapshotInv'
    BY <1>1, Zenon DEF SnapshotInv
  <1>2. CASE Threads!handleNewSnapshotClick
    <2>1. Same
      BY <1>2, Zenon DEF SnapshotInv, ThreadFields, Threads!handleNewSnapshotClick
    <2> QED
      BY <1>1, <2>1
  <1>3. ASSUME NEW group, Threads!handleGroupClick(group) PROVE Same
    BY <1>3, Zenon DEF SnapshotInv, ThreadFields, Threads!handleGroupClick
  <1>4. ASSUME NEW state, Threads!handleThreadStateClick(state) PROVE Same
    BY <1>4, Zenon DEF SnapshotInv, ThreadFields, Threads!handleThreadStateClick
  <1>5. ASSUME NEW u, ThreadFields \subseteq DOMAIN u
        PROVE  LET v == Threads!rendered(u)
               IN  ThreadFields \subseteq DOMAIN v /\ v.taken = u.taken /\ v.threads = u.threads
    BY <1>5, Zenon DEF ThreadFields, Threads!rendered
  <1>6. CASE Threads!SnapshotArrives
    <2> DEFINE u == [ui EXCEPT !.threads = {Threads!processThreads(server)}, !.taken = server,
                               !.initialized = TRUE, !.requests = @ - 1]
    <2>1. CASE ui' = [ui EXCEPT !.requests = @ - 1]
      <3>1. Same
        BY <1>6, <2>1, Zenon DEF SnapshotInv, ThreadFields, Threads!SnapshotArrives
      <3> QED
        BY <1>1, <3>1
    <2>2. CASE ui' = Threads!rendered(u)
      <3>1. /\ ThreadFields \subseteq DOMAIN u /\ u.taken = server
            /\ u.threads = {Threads!processThreads(server)}
        BY Zenon DEF SnapshotInv, ThreadFields
      <3> HIDE DEF u
      <3>2. /\ ThreadFields \subseteq DOMAIN ui' /\ ui'.taken = server
            /\ ui'.threads = {Threads!processThreads(server)} /\ server' = server
        BY <1>5, <1>6, <2>2, <3>1, Zenon DEF Threads!SnapshotArrives
      <3> QED
        BY <3>2, Zenon DEF SnapshotInv
    <2> QED
      BY <1>6, <2>1, <2>2, Zenon DEF Threads!SnapshotArrives
  <1>7. CASE Threads!RequestFails
    <2> DEFINE u == [ui EXCEPT !.initialized = TRUE, !.requests = @ - 1]
    <2>1. ThreadFields \subseteq DOMAIN u /\ u.taken = ui.taken /\ u.threads = ui.threads
      BY Zenon DEF SnapshotInv, ThreadFields
    <2>2. ui' = Threads!rendered(u) /\ server' = server
      BY <1>7, Zenon DEF Threads!RequestFails
    <2> HIDE DEF u
    <2>3. Same
      BY <1>5, <2>1, <2>2, Zenon
    <2> QED
      BY <1>1, <2>3
  <1>8. CASE Threads!ThreadsChange
    <2>1. ui' = ui /\ server' \subseteq Threads!Thread
      BY <1>8, Zenon DEF Threads!ThreadsChange, Threads!Threads, Threads!kSubset
    <2> QED
      BY <2>1, Zenon DEF SnapshotInv
  <1> HIDE DEF Same
  <1> QED
    BY <1>1, <1>2, <1>3, <1>4, <1>6, <1>7, <1>8, Zenon DEF Threads!Next, Threads!User

\* A snapshot that processThreads sorted is whole.
LEMMA SnapshotWhole ==
    ASSUME SnapshotInv
    PROVE  Threads!SnapshotComplete
  <1> SUFFICES ASSUME NEW groups \in ui.threads
               PROVE  /\ groups[Threads!ALL_THREADS] = ui.taken
                      /\ \A thread \in ui.taken :
                            {group \in DOMAIN groups : thread \in groups[group]}
                                = {Threads!ALL_THREADS, thread.group}
                      /\ ui.selectedGroup \in DOMAIN groups =>
                            UNION {Threads!filterThreads(ui, ui.selectedGroup, state) :
                                       state \in Threads!ThreadState}
                                = Threads!filterThreads(ui, ui.selectedGroup, Threads!ALL_THREAD_STATE)
    BY Zenon DEF Threads!SnapshotComplete
  <1> DEFINE all == Threads!ALL_THREADS
             taken == ui.taken
             names == {all} \cup {thread.group : thread \in taken}
  <1>1. groups = [group \in names |-> {thread \in taken : group \in {all, thread.group}}]
    BY Zenon DEF SnapshotInv, Threads!processThreads
  <1>2. ui.threads = {groups} /\ \A thread \in taken : thread.state \in Threads!ThreadState
    BY DEF SnapshotInv, Threads!Thread
  <1> HIDE DEF all, taken
  <1>3. groups[all] = taken
    BY <1>1
  <1>4. ASSUME NEW thread \in taken
        PROVE  {group \in DOMAIN groups : thread \in groups[group]} = {all, thread.group}
    BY <1>1
  <1>5. UNION {Threads!filterThreads(ui, ui.selectedGroup, state) : state \in Threads!ThreadState}
            = Threads!filterThreads(ui, ui.selectedGroup, Threads!ALL_THREAD_STATE)
        \/ ui.selectedGroup \notin DOMAIN groups
    <2> DEFINE g == ui.selectedGroup
               inGroup == UNION {some[g] : some \in ui.threads}
    <2> SUFFICES ASSUME g \in DOMAIN groups
                 PROVE  UNION {Threads!filterThreads(ui, g, state) : state \in Threads!ThreadState}
                            = Threads!filterThreads(ui, g, Threads!ALL_THREAD_STATE)
      OBVIOUS
    <2>1. inGroup = groups[g]
      BY <1>2
    <2>2. \A thread \in inGroup : thread.state \in Threads!ThreadState
      BY <1>1, <1>2, <2>1
    <2>3. \A state : Threads!filterThreads(ui, g, state) =
              {thread \in inGroup : state \in {thread.state, Threads!ALL_THREAD_STATE}}
      BY Zenon DEF Threads!filterThreads
    <2> HIDE DEF inGroup, g
    <2>4. Threads!filterThreads(ui, g, Threads!ALL_THREAD_STATE) = inGroup
      BY <2>3
    <2>5. \A state \in Threads!ThreadState : Threads!filterThreads(ui, g, state) \subseteq inGroup
      BY <2>3
    <2>6. \A thread \in inGroup : thread \in Threads!filterThreads(ui, g, thread.state)
      BY <2>3
    <2> QED
      BY <2>2, <2>4, <2>5, <2>6
  <1> QED
    BY <1>3, <1>4, <1>5, Zenon DEF all, taken

-----------------------------------------------------------------------------
(* The overview.  Only the answers change the charts and the table. *)

OverviewFields == {"page", "lineData", "memoryData", "requestNum", "chartCpu", "charts",
                   "tableData", "summary", "early", "requests"}

\* The charts, and the number of pairs of answers that came before any line data.
Covers(requestNum, chartCpu, charts, early, lineData) ==
    /\ requestNum \in Nat /\ early \in Nat /\ early * 2 <= requestNum
    /\ charts = Window
    /\ IF early <= Window
       THEN chartCpu = Window - early \/ (early = Window /\ chartCpu = 1)
       ELSE chartCpu \in 0..1
    /\ ~lineData => chartCpu = IF early <= Window THEN Window - early ELSE 0

\* The table of the last answer about memory.
Rows(memoryData) ==
    {IF pools = {} THEN {"totalNodeMemory"} ELSE pools : pools \in memoryData}

Tabled(page, lineData, memoryData, tableData, summary) ==
    /\ page \in {"overview", "nodes"} /\ lineData \in BOOLEAN
    /\ memoryData \subseteq Overview!Pools
    /\ page = "nodes" \/ lineData => /\ tableData = Rows(memoryData)
                                     /\ page = "overview" => summary

OverviewInv(u) ==
    /\ OverviewFields \subseteq DOMAIN u
    /\ Covers(u.requestNum, u.chartCpu, u.charts, u.early, u.lineData)
    /\ Tabled(u.page, u.lineData, u.memoryData, u.tableData, u.summary)

\* The rows of the table are those of the members' pools.
LEMMA RowsOfPools ==
    ASSUME NEW M, M \subseteq Overview!Pools
    PROVE  {Overview!row(pools) : pools \in M} = Rows(M)
  <1>1. ASSUME NEW pools \in M
        PROVE  Overview!row(pools) = IF pools = {} THEN {"totalNodeMemory"} ELSE pools
    BY DEF Overview!Pools, Overview!row
  <1> QED
    BY <1>1, Zenon DEF Rows

\* The overview opens with its invariant.
LEMMA OverviewStart ==
    ASSUME Overview!Init
    PROVE  OverviewInv(ui)
  <1>1. /\ OverviewFields \subseteq DOMAIN ui /\ ui.lineData = FALSE /\ ui.memoryData = {}
        /\ ui.page \in {"overview", "nodes"} /\ ui.requestNum = 0 /\ ui.tableData = {}
        /\ ui.chartCpu = Window /\ ui.charts = Window /\ ui.early = 0
    <2>1. CASE ui = Overview!constructor("nodes")
      BY <2>1, Zenon DEF Overview!constructor, OverviewFields
    <2>2. CASE ui = Overview!getMemoryData(Overview!getData(Overview!constructor("overview")))
      BY <2>2, Zenon DEF Overview!constructor, Overview!getData, Overview!getMemoryData, OverviewFields
    <2> QED
      BY <2>1, <2>2, Zenon DEF Overview!Init
  <1>2. Covers(ui.requestNum, ui.chartCpu, ui.charts, ui.early, ui.lineData)
    BY <1>1, ChartsAssumption DEF Covers
  <1>3. Rows({}) = {}
    BY DEF Rows
  <1>4. Tabled(ui.page, ui.lineData, ui.memoryData, ui.tableData, ui.summary)
    BY <1>1, <1>3, Zenon DEF Tabled
  <1> QED
    BY <1>1, <1>2, <1>4 DEF OverviewInv

\* The store has counted an answer, and its listeners have not seen it.
Heard(u) ==
    /\ OverviewFields \subseteq DOMAIN u /\ u.memoryData \subseteq Overview!Pools
    /\ u.page \in {"overview", "nodes"} /\ u.lineData \in BOOLEAN
    /\ \E before \in Nat, lineData \in BOOLEAN :
          /\ u.requestNum = before + 1
          /\ Covers(before, u.chartCpu, u.charts, u.early, lineData)
          /\ lineData => u.lineData

\* The listener of the store brings table and charts up to what the store heard.
LEMMA ChangedKeeps ==
    ASSUME NEW u, Heard(u)
    PROVE  OverviewInv(Overview!changed(u))
  <1> DEFINE rows == {Overview!row(pools) : pools \in u.memoryData}
  <1>1. rows = Rows(u.memoryData)
    BY RowsOfPools, Zenon DEF Heard
  <1> HIDE DEF rows
  <1>2. PICK before \in Nat, lineData \in BOOLEAN :
            /\ u.requestNum = before + 1
            /\ Covers(before, u.chartCpu, u.charts, u.early, lineData)
            /\ lineData => u.lineData
    BY Zenon DEF Heard
  <1>3. CASE u.page = "nodes"
    <2> DEFINE v == Overview!changed(u)
    <2>1. /\ OverviewFields \subseteq DOMAIN v /\ v.page = "nodes" /\ v.tableData = rows
          /\ v.lineData = u.lineData /\ v.memoryData = u.memoryData /\ v.requestNum = u.requestNum
          /\ v.chartCpu = u.chartCpu /\ v.charts = u.charts /\ v.early = u.early
      BY <1>3, Zenon DEF Heard, OverviewFields, Overview!changed, Overview!nodesChanged, rows
    <2> HIDE DEF v
    <2>2. Covers(v.requestNum, v.chartCpu, v.charts, v.early, v.lineData)
      BY <1>2, <2>1 DEF Covers
    <2>3. v.page # "overview"
      BY <2>1
    <2>4. Tabled(v.page, v.lineData, v.memoryData, v.tableData, v.summary)
      BY <1>1, <2>1, <2>3, Zenon DEF Heard, Tabled
    <2> QED
      BY <2>1, <2>2, <2>4, Zenon DEF OverviewInv, v
  <1>4. CASE u.page = "overview"
    <2> DEFINE c == Overview!chartsChanged(u)
               v == Overview!summaryChanged(c)
               even == u.requestNum % 2 = 0
    <2>1. /\ OverviewFields \subseteq DOMAIN c /\ c.page = u.page /\ c.lineData = u.lineData
          /\ c.memoryData = u.memoryData /\ c.requestNum = u.requestNum
          /\ c.tableData = u.tableData /\ c.summary = u.summary
      BY Zenon DEF Heard, OverviewFields, Overview!chartsChanged
    <2>2. /\ c.chartCpu = IF ~even THEN u.chartCpu
                          ELSE IF u.lineData THEN Overview!delete(u.chartCpu) + 1
                          ELSE Overview!delete(u.chartCpu)
          /\ c.charts = IF even /\ u.lineData THEN Overview!delete(u.charts) + 1 ELSE u.charts
          /\ c.early = IF even /\ ~u.lineData THEN u.early + 1 ELSE u.early
      BY Zenon DEF Heard, OverviewFields, Overview!chartsChanged
    <2> HIDE DEF c
    <2>3. /\ OverviewFields \subseteq DOMAIN v /\ v.page = u.page /\ v.lineData = u.lineData
          /\ v.memoryData = u.memoryData /\ v.requestNum = u.requestNum
          /\ v.chartCpu = c.chartCpu /\ v.charts = c.charts /\ v.early = c.early
          /\ u.lineData => v.tableData = rows /\ v.summary = TRUE
      BY <2>1, Zenon DEF OverviewFields, Overview!summaryChanged, rows
    <2> HIDE DEF v
    <2>4. Covers(v.requestNum, v.chartCpu, v.charts, v.early, v.lineData)
      <3>1. even => before % 2 = 1
        BY <1>2
      <3>2. CASE ~even
        BY <1>2, <2>2, <2>3, <3>2 DEF Covers
      <3>3. CASE even /\ u.lineData
        <4>1. Overview!delete(u.charts) + 1 = Window
          BY <1>2, ChartsAssumption DEF Covers, Overview!delete
        <4>2. Overview!delete(u.chartCpu) + 1 = IF u.chartCpu = 0 THEN 1 ELSE u.chartCpu
          BY <1>2, ChartsAssumption DEF Covers, Overview!delete
        <4> QED
          BY <1>2, <2>2, <2>3, <3>3, <4>1, <4>2, ChartsAssumption DEF Covers
      <3>4. CASE even /\ ~u.lineData
        <4>1. u.early * 2 <= before /\ before % 2 = 1 /\ u.early \in Nat
          BY <1>2, <3>1, <3>4 DEF Covers
        <4>2. (u.early + 1) * 2 <= before + 1
          BY <1>2, <4>1
        <4>3. u.chartCpu = IF u.early <= Window THEN Window - u.early ELSE 0
          BY <1>2, <3>4 DEF Covers
        <4>4. Overview!delete(u.chartCpu) = IF u.early + 1 <= Window THEN Window - (u.early + 1) ELSE 0
          BY <4>1, <4>3, ChartsAssumption DEF Overview!delete
        <4> QED
          BY <1>2, <2>2, <2>3, <3>4, <4>1, <4>2, <4>4, ChartsAssumption DEF Covers
      <3> QED
        BY <3>2, <3>3, <3>4
    <2>5. Tabled(v.page, v.lineData, v.memoryData, v.tableData, v.summary)
      <3>1. v.page # "nodes"
        BY <1>4, <2>3
      <3> QED
        BY <1>1, <2>3, <3>1, Zenon DEF Heard, Tabled
    <2>6. Overview!changed(u) = v
      <3>1. u.page # "nodes"
        BY <1>4
      <3> QED
        BY <3>1, Zenon DEF Overview!changed, c, v
    <2> QED
      BY <2>3, <2>4, <2>5, <2>6, Zenon DEF OverviewInv
  <1> QED
    BY <1>3, <1>4, Zenon DEF Heard

\* Every step of the overview keeps its table and its charts those of its data.
LEMMA OverviewStep ==
    ASSUME OverviewInv(ui), Overview!Next
    PROVE  OverviewInv(ui')
  <1> DEFINE Same == /\ OverviewFields \subseteq DOMAIN ui' /\ ui'.page = ui.page
                     /\ ui'.lineData = ui.lineData /\ ui'.memoryData = ui.memoryData
                     /\ ui'.requestNum = ui.requestNum /\ ui'.chartCpu = ui.chartCpu
                     /\ ui'.charts = ui.charts /\ ui'.tableData = ui.tableData
                     /\ ui'.summary = ui.summary /\ ui'.early = ui.early
  <1>1. ASSUME Same PROVE OverviewInv(ui')
    BY <1>1, Zenon DEF OverviewInv
  <1>2. CASE Overview!onReceiveData
    <2> DEFINE u == [ui EXCEPT !.requests["line"] = @ - 1, !.lineData = TRUE, !.requestNum = @ + 1]
    <2>1. /\ OverviewFields \subseteq DOMAIN u /\ u.page = ui.page /\ u.lineData = TRUE
          /\ u.memoryData = ui.memoryData /\ u.requestNum = ui.requestNum + 1
          /\ u.chartCpu = ui.chartCpu /\ u.charts = ui.charts /\ u.early = ui.early
      BY Zenon DEF OverviewInv, OverviewFields
    <2>2. ui' = Overview!changed(u)
      BY <1>2, Zenon DEF Overview!onReceiveData
    <2> HIDE DEF u
    <2>3. Heard(u)
      <3>1. /\ ui.requestNum \in Nat /\ ui.lineData \in BOOLEAN
            /\ Covers(ui.requestNum, u.chartCpu, u.charts, u.early, ui.lineData)
        BY <2>1, Zenon DEF OverviewInv, Covers, Tabled
      <3> QED
        BY <2>1, <3>1, Zenon DEF Heard, OverviewInv, Tabled
    <2> QED
      BY <2>2, <2>3, ChangedKeeps
  <1>3. CASE Overview!onMemoryData
    <2>1. PICK pools \in Overview!Pools :
              ui' = Overview!changed([ui EXCEPT !.requests["memory"] = @ - 1,
                                                !.memoryData = {pools}, !.requestNum = @ + 1])
      BY <1>3, Zenon DEF Overview!onMemoryData
    <2> DEFINE u == [ui EXCEPT !.requests["memory"] = @ - 1,
                               !.memoryData = {pools}, !.requestNum = @ + 1]
    <2>2. /\ OverviewFields \subseteq DOMAIN u /\ u.page = ui.page /\ u.lineData = ui.lineData
          /\ u.memoryData = {pools} /\ u.requestNum = ui.requestNum + 1
          /\ u.chartCpu = ui.chartCpu /\ u.charts = ui.charts /\ u.early = ui.early
      BY Zenon DEF OverviewInv, OverviewFields
    <2>3. ui' = Overview!changed(u)
      BY <2>1
    <2> HIDE DEF u
    <2>4. Heard(u)
      <3>1. /\ ui.requestNum \in Nat /\ ui.lineData \in BOOLEAN
            /\ Covers(ui.requestNum, u.chartCpu, u.charts, u.early, ui.lineData)
        BY <2>2, Zenon DEF OverviewInv, Covers, Tabled
      <3> QED
        BY <2>2, <3>1, Zenon DEF Heard, OverviewInv, Tabled
    <2> QED
      BY <2>3, <2>4, ChangedKeeps
  <1>4. ASSUME NEW request, Overview!RequestFails(request) PROVE Same
    BY <1>4, Zenon DEF OverviewInv, OverviewFields, Overview!RequestFails
  <1>5. CASE Overview!IntervalFires
    <2>1. Same
      BY <1>5, Zenon DEF OverviewInv, OverviewFields, Overview!IntervalFires, Overview!getData,
         Overview!getMemoryData
    <2> QED
      BY <1>1, <2>1
  <1>6. ASSUME NEW list, Overview!changeList(list) PROVE Same
    BY <1>6, Zenon DEF OverviewInv, OverviewFields, Overview!changeList
  <1>7. ASSUME NEW step, Overview!selected(step) PROVE Same
    BY <1>7, Zenon DEF OverviewInv, OverviewFields, Overview!selected, Overview!getData
  <1> HIDE DEF Same
  <1> QED
    BY <1>1, <1>2, <1>3, <1>4, <1>5, <1>6, <1>7, Zenon DEF Overview!Next, Overview!User, Overview!Browser

-----------------------------------------------------------------------------
(* Each page alone: what it keeps, from the start and with every step, and what that *)
(* promises.                                                                         *)

DetailKeeps == DetailInv /\ SparkInv(ui)
PlanKeeps == PlanInv /\ GraphInv(ui)
PanelsKeep == PanelsInv /\ PanelsDrawn(ui) /\ LightInv(ui)

\* Every page starts with its invariant, and a series with one request.
LEMMA DisplaysBegin ==
    /\ Detail!Init => DetailKeeps /\ Starts(ui.requests, ui.timer # Detail!Never, ui.ended)
    /\ StageDetail!Init => StageInv /\ Starts(Len(ui.requests), ui.timer, ui.ended)
    /\ LivePlan!Init => PlanKeeps /\ Starts(ui.requests, ui.timer, ui.ended)
    /\ Panels!Init => PanelsKeep /\ Starts(ui.requests, ui.timer # Panels!Never, FALSE)
    /\ Threads!Init => SnapshotInv
    /\ Overview!Init => OverviewInv(ui)
  <1>1. Detail!Init => DetailKeeps /\ Starts(ui.requests, ui.timer # Detail!Never, ui.ended)
    BY DetailStart, SparkStart, Zenon DEF DetailKeeps
  <1>2. LivePlan!Init => PlanKeeps /\ Starts(ui.requests, ui.timer, ui.ended)
    BY PlanStart, GraphStart, Zenon DEF PlanKeeps
  <1>3. Panels!Init => PanelsKeep /\ Starts(ui.requests, ui.timer # Panels!Never, FALSE)
    BY PanelsStart, ChartsStart, LightStart, Zenon DEF PanelsKeep
  <1> QED
    BY <1>1, <1>2, <1>3, StageStart, SnapshotStart, OverviewStart, Zenon

\* What a step of the detail page does to its series and to what is frozen.
LEMMA DetailKept ==
    ASSUME DetailKeeps, Detail!Next
    PROVE  /\ DetailKeeps' /\ Detail!FrozenMeansFrozen
           /\ SeriesStep(phaseOf(ui.requests, ui.timer # Detail!Never), ui.ended,
                         phaseOf(ui'.requests, ui'.timer # Detail!Never), ui'.ended)
  <1>1. /\ DetailType(ui) /\ server.final \in BOOLEAN /\ SparkInv(ui)
        /\ One(ui.requests, ui.timer # Detail!Never, ui.ended)
    BY Zenon DEF DetailKeeps, DetailInv
  <1>2. DetailType(ui') /\ server'.final \in BOOLEAN /\ DetailMoves /\ Detail!FrozenMeansFrozen
    BY <1>1, DetailStep, Zenon
  <1> DEFINE armed == ui.timer # Detail!Never
             armedNew == ui'.timer # Detail!Never
  <1>3. /\ One(ui.requests, armed, ui.ended)
        /\ Moves(ui.requests, armed, ui.ended, ui'.requests, armedNew, ui'.ended)
    BY <1>1, <1>2, Zenon DEF DetailMoves
  <1> HIDE DEF armed, armedNew
  <1>4. /\ One(ui'.requests, armedNew, ui'.ended)
        /\ SeriesStep(phaseOf(ui.requests, armed), ui.ended,
                      phaseOf(ui'.requests, armedNew), ui'.ended)
    BY <1>3, MovesAreSteps, Zenon
  <1>5. SparkInv(ui')
    BY <1>1, SparkStep, Zenon
  <1> QED
    BY <1>2, <1>4, <1>5, Zenon DEF armed, armedNew, DetailKeeps, DetailInv

\* The stage page keeps its invariant and its series moves by the rules.
LEMMA StageKept ==
    ASSUME StageInv, StageDetail!Next
    PROVE  /\ StageInv'
           /\ SeriesStep(phaseOf(Len(ui.requests), ui.timer), ui.ended,
                         phaseOf(Len(ui'.requests), ui'.timer), ui'.ended)
  <1>1. /\ StageType(ui) /\ Carried(ui) /\ KnowsFinal
        /\ One(Len(ui.requests), ui.timer, ui.ended)
    BY Zenon DEF StageInv
  <1>2. StageType(ui') /\ Carried(ui') /\ KnowsFinal' /\ StageMoves
    BY <1>1, StageStep, Zenon
  <1>3. /\ One(Len(ui'.requests), ui'.timer, ui'.ended)
        /\ SeriesStep(phaseOf(Len(ui.requests), ui.timer), ui.ended,
                      phaseOf(Len(ui'.requests), ui'.timer), ui'.ended)
    BY <1>1, <1>2, MovesAreSteps, Zenon DEF StageMoves
  <1> QED
    BY <1>2, <1>3, Zenon DEF StageInv

\* The live plan keeps its invariants and its series moves by the rules.
LEMMA PlanKept ==
    ASSUME PlanKeeps, LivePlan!Next
    PROVE  /\ PlanKeeps'
           /\ SeriesStep(phaseOf(ui.requests, ui.timer), ui.ended,
                         phaseOf(ui'.requests, ui'.timer), ui'.ended)
  <1>1. PlanType(ui) /\ KnowsFinal /\ One(ui.requests, ui.timer, ui.ended) /\ GraphInv(ui)
    BY Zenon DEF PlanKeeps, PlanInv
  <1>2. PlanType(ui') /\ KnowsFinal' /\ PlanMoves
    BY <1>1, PlanStep, Zenon
  <1>3. /\ One(ui'.requests, ui'.timer, ui'.ended)
        /\ SeriesStep(phaseOf(ui.requests, ui.timer), ui.ended,
                      phaseOf(ui'.requests, ui'.timer), ui'.ended)
    BY <1>1, <1>2, MovesAreSteps, Zenon DEF PlanMoves
  <1>4. GraphInv(ui')
    BY <1>1, GraphStep, Zenon
  <1> QED
    BY <1>2, <1>3, <1>4, Zenon DEF PlanKeeps, PlanInv

\* The panels keep their invariants and their series moves by the rules.
LEMMA PanelsKept ==
    ASSUME PanelsKeep, Panels!Next
    PROVE  /\ PanelsKeep'
           /\ SeriesStep(phaseOf(ui.requests, ui.timer # Panels!Never), FALSE,
                         phaseOf(ui'.requests, ui'.timer # Panels!Never), FALSE)
  <1>1. PanelType(ui) /\ One(ui.requests, ui.timer # Panels!Never, FALSE)
        /\ PanelsDrawn(ui) /\ LightInv(ui)
    BY Zenon DEF PanelsKeep, PanelsInv
  <1>2. PanelType(ui') /\ PanelMoves
    BY <1>1, PanelsStep, Zenon
  <1>3. /\ One(ui'.requests, ui'.timer # Panels!Never, FALSE)
        /\ SeriesStep(phaseOf(ui.requests, ui.timer # Panels!Never), FALSE,
                      phaseOf(ui'.requests, ui'.timer # Panels!Never), FALSE)
    BY <1>1, <1>2, MovesAreSteps, Zenon DEF PanelMoves
  <1>4. PanelsDrawn(ui') /\ LightInv(ui')
    BY <1>1, ChartsStep, LightStep, Zenon
  <1> QED
    BY <1>2, <1>3, <1>4, Zenon DEF PanelsKeep, PanelsInv

\* The charts of a page, and what it shows of the last answer.
LEMMA DisplaysPromise ==
    /\ DetailKeeps => Detail!SparklinesLagByOne
    /\ StageInv => StageDetail!SelectionKept
    /\ PlanKeeps => LivePlan!DrawnIsCurrent
    /\ PanelsKeep => Panels!ChartsInStep /\ Panels!DialogTellsTheTruth
    /\ OverviewInv(ui) => Overview!ChartsCoverWindow /\ Overview!SummaryComplete
  <1>1. ASSUME DetailKeeps PROVE Detail!SparklinesLagByOne
    <2>1. ui.undrawn \in {0, 1} /\ ui.samples \in 0..(MaxHistory + 1) /\ MaxHistory \in Nat
      BY <1>1, ChartsAssumption, Zenon DEF DetailKeeps, SparkInv, Draws
    <2>2. ui.undrawn <= 1 /\ ui.samples <= MaxHistory + 1
      BY <2>1
    <2> QED
      BY <2>2, Zenon DEF Detail!SparklinesLagByOne
  <1>2. StageInv => StageDetail!SelectionKept
    BY Zenon DEF StageInv, Carried, StageDetail!SelectionKept
  <1>3. PlanKeeps => LivePlan!DrawnIsCurrent
    BY Zenon DEF PlanKeeps, GraphInv, LivePlan!Unknown, LivePlan!DrawnIsCurrent
  <1>4. ASSUME PanelsKeep PROVE Panels!ChartsInStep
    <2>1. ui.drawn = ui.history /\ DOMAIN ui.history = Panels!charts(ui.kind)
      BY <1>4, Zenon DEF PanelsKeep, PanelsDrawn, PanelsInStep
    <2>2. PICK n : InStep(ui.history, Rates(ui), ui.lastRefresh, n)
      BY <1>4, Zenon DEF PanelsKeep, PanelsDrawn, PanelsInStep
    <2>3. /\ n \in 0..(MaxHistory + 1)
          /\ \A chart \in Panels!charts(ui.kind) \ Panels!panel(ui.kind).rates : ui.history[chart] = n
          /\ \A rate \in Panels!panel(ui.kind).rates :
                ui.history[rate] = n - 1 \/ (ui.history[rate] = n /\ n \in {0, MaxHistory + 1})
      BY <2>1, <2>2, Zenon DEF InStep, Rates
    <2> QED
      BY <2>1, <2>3, Zenon DEF Panels!ChartsInStep
  <1>5. ASSUME OverviewInv(ui) PROVE Overview!ChartsCoverWindow
    <2>1. Covers(ui.requestNum, ui.chartCpu, ui.charts, ui.early, ui.lineData) /\ Window \in Nat
      BY <1>5, ChartsAssumption DEF OverviewInv
    <2>2. /\ ui.requestNum \in Nat /\ ui.early \in Nat /\ ui.early * 2 <= ui.requestNum
          /\ ui.charts = Window
          /\ IF ui.early <= Window
             THEN ui.chartCpu = Window - ui.early \/ (ui.early = Window /\ ui.chartCpu = 1)
             ELSE ui.chartCpu \in 0..1
      BY <2>1 DEF Covers
    <2>3. ui.chartCpu = Window - ui.early \/ (ui.early >= Window /\ ui.chartCpu \in 0..1)
      BY <2>1, <2>2
    <2> QED
      BY <2>2, <2>3, Zenon DEF Overview!ChartsCoverWindow
  <1>6. OverviewInv(ui) => Overview!SummaryComplete
    BY Zenon DEF OverviewInv, Tabled, Rows, Overview!SummaryComplete
  <1> QED
    BY <1>1, <1>2, <1>3, <1>4, <1>5, <1>6, DialogTrue, Zenon DEF PanelsKeep

-----------------------------------------------------------------------------
(* The pages together, and the series seen through the refinement mapping *)

DisplaysKeep ==
    /\ open = "detail" => DetailKeeps
    /\ open = "stage" => StageInv
    /\ open = "plan" => PlanKeeps
    /\ open = "panels" => PanelsKeep
    /\ open = "threads" => SnapshotInv
    /\ open = "overview" => OverviewInv(ui)

DisplayPage == {"detail", "stage", "plan", "panels", "threads", "overview"}

\* What the refinement mapping is on each page.
LEMMA PhaseDetail ==
    open = "detail" => /\ phase = phaseOf(ui.requests, ui.timer # Detail!Never)
                       /\ seriesEnded = ui.ended
  <1> SUFFICES ASSUME open = "detail"
               PROVE  phase = phaseOf(ui.requests, ui.timer # Detail!Never) /\ seriesEnded = ui.ended
    OBVIOUS
  <1>1. requestsSent = ui.requests /\ (timerArmed <=> ui.timer # Detail!Never)
    BY DEF requestsSent, timerArmed
  <1>2. open \in {"detail", "stage", "plan", "panels"} /\ open \in {"detail", "stage", "plan"}
    OBVIOUS
  <1> QED
    BY <1>1, <1>2, Zenon DEF phase, phaseOf, seriesEnded

\* The phase of the open page when it is the stage page.
LEMMA PhaseStage ==
    open = "stage" => /\ phase = phaseOf(Len(ui.requests), ui.timer)
                      /\ seriesEnded = ui.ended
  <1> SUFFICES ASSUME open = "stage"
               PROVE  phase = phaseOf(Len(ui.requests), ui.timer) /\ seriesEnded = ui.ended
    OBVIOUS
  <1>1. requestsSent = Len(ui.requests) /\ timerArmed = ui.timer
    BY DEF requestsSent, timerArmed
  <1>2. open \in {"detail", "stage", "plan", "panels"} /\ open \in {"detail", "stage", "plan"}
    OBVIOUS
  <1> QED
    BY <1>1, <1>2, Zenon DEF phase, phaseOf, seriesEnded

\* The phase of the open page when it is the live plan.
LEMMA PhasePlan ==
    open = "plan" => /\ phase = phaseOf(ui.requests, ui.timer)
                     /\ seriesEnded = ui.ended
  <1> SUFFICES ASSUME open = "plan"
               PROVE  phase = phaseOf(ui.requests, ui.timer) /\ seriesEnded = ui.ended
    OBVIOUS
  <1>1. requestsSent = ui.requests /\ timerArmed = ui.timer
    BY DEF requestsSent, timerArmed
  <1>2. open \in {"detail", "stage", "plan", "panels"} /\ open \in {"detail", "stage", "plan"}
    OBVIOUS
  <1> QED
    BY <1>1, <1>2, Zenon DEF phase, phaseOf, seriesEnded

\* The phase of the open page when it is a panel.
LEMMA PhasePanels ==
    open = "panels" => /\ phase = phaseOf(ui.requests, ui.timer # Panels!Never)
                       /\ seriesEnded = FALSE
  <1> SUFFICES ASSUME open = "panels"
               PROVE  phase = phaseOf(ui.requests, ui.timer # Panels!Never) /\ seriesEnded = FALSE
    OBVIOUS
  <1>1. requestsSent = ui.requests /\ (timerArmed <=> ui.timer # Panels!Never)
    BY DEF requestsSent, timerArmed
  <1>2. open \in {"detail", "stage", "plan", "panels"} /\ open \notin {"detail", "stage", "plan"}
    OBVIOUS
  <1> QED
    BY <1>1, <1>2, Zenon DEF phase, phaseOf, seriesEnded

\* A page without a series is waiting for ever.
LEMMA PhaseOther ==
    open \notin {"detail", "stage", "plan", "panels"} => phase = "waiting" /\ seriesEnded = FALSE
  BY DEF phase, seriesEnded

\* Every step of a page is a step of the series or none, and keeps what is frozen.
LEMMA DisplaysStep ==
    ASSUME DisplaysKeep, NextDisplays
    PROVE  /\ DisplaysKeep' /\ open' = open /\ open \in DisplayPage
           /\ SeriesStep(phase, seriesEnded, phase', seriesEnded')
           /\ open = "detail" => Detail!FrozenMeansFrozen
  <1> DEFINE Goal == /\ DisplaysKeep' /\ open' = open /\ open \in DisplayPage
                     /\ SeriesStep(phase, seriesEnded, phase', seriesEnded')
                     /\ open = "detail" => Detail!FrozenMeansFrozen
  <1>1. ASSUME on("detail"), Detail!Next PROVE Goal
    <2>1. open = "detail" /\ open' = "detail" /\ open \in DisplayPage
      BY <1>1 DEF on, DisplayPage
    <2>2. DetailKeeps
      BY <2>1, Zenon DEF DisplaysKeep
    <2>3. /\ DetailKeeps' /\ Detail!FrozenMeansFrozen
          /\ SeriesStep(phaseOf(ui.requests, ui.timer # Detail!Never), ui.ended,
                        phaseOf(ui'.requests, ui'.timer # Detail!Never), ui'.ended)
      BY <1>1, <2>2, DetailKept, Zenon
    <2>4. DisplaysKeep'
      BY <2>1, <2>3, Zenon DEF DisplaysKeep
    <2>5. (open = "detail" => phase = phaseOf(ui.requests, ui.timer # Detail!Never) /\ seriesEnded = ui.ended)'
      BY PhaseDetail, PTL
    <2> QED
      BY <2>1, <2>3, <2>4, <2>5, PhaseDetail, Zenon
  <1>2. ASSUME on("stage"), StageDetail!Next PROVE Goal
    <2>1. open = "stage" /\ open' = "stage" /\ open \in DisplayPage
      BY <1>2 DEF on, DisplayPage
    <2>2. StageInv
      BY <2>1, Zenon DEF DisplaysKeep
    <2>3. /\ StageInv'
          /\ SeriesStep(phaseOf(Len(ui.requests), ui.timer), ui.ended,
                        phaseOf(Len(ui'.requests), ui'.timer), ui'.ended)
      BY <1>2, <2>2, StageKept, Zenon
    <2>4. DisplaysKeep'
      BY <2>1, <2>3, Zenon DEF DisplaysKeep
    <2>5. (open = "stage" => phase = phaseOf(Len(ui.requests), ui.timer) /\ seriesEnded = ui.ended)'
      BY PhaseStage, PTL
    <2> QED
      BY <2>1, <2>3, <2>4, <2>5, PhaseStage, Zenon
  <1>3. ASSUME on("plan"), LivePlan!Next PROVE Goal
    <2>1. open = "plan" /\ open' = "plan" /\ open \in DisplayPage
      BY <1>3 DEF on, DisplayPage
    <2>2. PlanKeeps
      BY <2>1, Zenon DEF DisplaysKeep
    <2>3. /\ PlanKeeps'
          /\ SeriesStep(phaseOf(ui.requests, ui.timer), ui.ended,
                        phaseOf(ui'.requests, ui'.timer), ui'.ended)
      BY <1>3, <2>2, PlanKept, Zenon
    <2>4. DisplaysKeep'
      BY <2>1, <2>3, Zenon DEF DisplaysKeep
    <2>5. (open = "plan" => phase = phaseOf(ui.requests, ui.timer) /\ seriesEnded = ui.ended)'
      BY PhasePlan, PTL
    <2> QED
      BY <2>1, <2>3, <2>4, <2>5, PhasePlan, Zenon
  <1>4. ASSUME on("panels"), Panels!Next PROVE Goal
    <2>1. open = "panels" /\ open' = "panels" /\ open \in DisplayPage
      BY <1>4 DEF on, DisplayPage
    <2>2. PanelsKeep
      BY <2>1, Zenon DEF DisplaysKeep
    <2>3. /\ PanelsKeep'
          /\ SeriesStep(phaseOf(ui.requests, ui.timer # Panels!Never), FALSE,
                        phaseOf(ui'.requests, ui'.timer # Panels!Never), FALSE)
      BY <1>4, <2>2, PanelsKept, Zenon
    <2>4. DisplaysKeep'
      BY <2>1, <2>3, Zenon DEF DisplaysKeep
    <2>5. (open = "panels" => phase = phaseOf(ui.requests, ui.timer # Panels!Never) /\ seriesEnded = FALSE)'
      BY PhasePanels, PTL
    <2> QED
      BY <2>1, <2>3, <2>4, <2>5, PhasePanels, Zenon
  <1>5. ASSUME NEW page \in {"threads", "overview"}, on(page),
               page = "threads" => SnapshotInv', page = "overview" => OverviewInv(ui')
        PROVE  Goal
    <2>1. /\ open = page /\ open' = page /\ open \in DisplayPage
          /\ page # "detail" /\ page # "stage" /\ page # "plan" /\ page # "panels"
      BY <1>5 DEF on, DisplayPage
    <2>2. DisplaysKeep'
      BY <1>5, <2>1, Zenon DEF DisplaysKeep
    <2>3. page \notin {"detail", "stage", "plan", "panels"}
      BY <2>1
    <2>4. (open \notin {"detail", "stage", "plan", "panels"}
             => phase = "waiting" /\ seriesEnded = FALSE)'
      BY PhaseOther, PTL
    <2>5. SeriesStep(phase, seriesEnded, phase', seriesEnded')
      BY <2>1, <2>3, <2>4, PhaseOther, Zenon DEF SeriesStep
    <2> QED
      BY <2>1, <2>2, <2>5, Zenon
  <1>6. ASSUME on("threads"), Threads!Next PROVE Goal
    <2>1. SnapshotInv'
      BY <1>6, SnapshotStep, Zenon DEF DisplaysKeep, on
    <2> QED
      BY <1>5, <1>6, <2>1, Zenon
  <1>7. ASSUME on("overview"), Overview!Next PROVE Goal
    <2>1. OverviewInv(ui')
      BY <1>7, OverviewStep, Zenon DEF DisplaysKeep, on
    <2> QED
      BY <1>5, <1>7, <2>1, Zenon
  <1> HIDE DEF Goal
  <1>8. Goal
    BY <1>1, <1>2, <1>3, <1>4, <1>6, <1>7, Zenon DEF NextDisplays
  <1> QED
    BY <1>8, Zenon DEF Goal

\* Nothing happens to them while another page is open, or when nothing happens.
LEMMA DisplaysRest ==
    ASSUME DisplaysKeep, UNCHANGED vars \/ (UNCHANGED open /\ open \notin DisplayPage)
    PROVE  DisplaysKeep' /\ SeriesStep(phase, seriesEnded, phase', seriesEnded')
  <1>1. CASE UNCHANGED vars
    <2>1. open' = open /\ ui' = ui /\ server' = server
      BY <1>1, Zenon DEF vars
    <2>2. DisplaysKeep'
      BY <2>1, Zenon DEF DisplaysKeep, DetailKeeps, DetailInv, StageInv, PlanKeeps, PlanInv, KnowsFinal,
         PanelsKeep, PanelsInv, SnapshotInv
    <2>3. phase' = phase /\ seriesEnded' = seriesEnded
      BY <2>1, Zenon DEF phase, seriesEnded, requestsSent, timerArmed
    <2> QED
      BY <2>2, <2>3, Zenon DEF SeriesStep
  <1>2. CASE UNCHANGED open /\ open \notin DisplayPage
    <2>1. open \notin {"detail", "stage", "plan", "panels"}
      BY <1>2, Zenon DEF DisplayPage
    <2>2. (open \notin {"detail", "stage", "plan", "panels"}
             => phase = "waiting" /\ seriesEnded = FALSE)'
      BY PhaseOther, PTL
    <2>3. DisplaysKeep'
      BY <1>2, Zenon DEF DisplaysKeep, DisplayPage
    <2> QED
      BY <1>2, <2>1, <2>2, <2>3, PhaseOther, Zenon DEF SeriesStep
  <1> QED
    BY <1>1, <1>2

\* Whichever page opens, its invariant holds and its series waits.
LEMMA DisplaysStart == ASSUME InitDisplays PROVE DisplaysKeep /\ phase = "waiting" /\ seriesEnded = FALSE
  <1>1. DisplaysKeep
    BY DisplaysBegin, Zenon DEF DisplaysKeep, InitDisplays
  <1>2. ASSUME NEW sent, NEW armed, NEW ended, Starts(sent, armed, ended)
        PROVE  phaseOf(sent, armed) = "waiting" /\ ended = FALSE
    BY <1>2, Zenon DEF Starts, phaseOf
  <1>3. CASE open = "detail"
    BY <1>1, <1>2, <1>3, DisplaysBegin, PhaseDetail, Zenon DEF InitDisplays
  <1>4. CASE open = "stage"
    BY <1>1, <1>2, <1>4, DisplaysBegin, PhaseStage, Zenon DEF InitDisplays
  <1>5. CASE open = "plan"
    BY <1>1, <1>2, <1>5, DisplaysBegin, PhasePlan, Zenon DEF InitDisplays
  <1>6. CASE open = "panels"
    BY <1>1, <1>2, <1>6, DisplaysBegin, PhasePanels, Zenon DEF InitDisplays
  <1>7. CASE open \notin {"detail", "stage", "plan", "panels"}
    BY <1>1, <1>7, PhaseOther, Zenon
  <1> QED
    BY <1>3, <1>4, <1>5, <1>6, <1>7, Zenon
=============================================================================
