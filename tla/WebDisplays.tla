----------------------------- MODULE WebDisplays -----------------------------
(***************************************************************************)
(* The pages that display a query, a worker or the cluster.                *)
(***************************************************************************)
EXTENDS WebClient

Detail == INSTANCE QueryDetailPage
StageDetail == INSTANCE StageDetailPage
LivePlan == INSTANCE LivePlanPage
Panels == INSTANCE StatusPanels
Threads == INSTANCE WorkerThreads
Overview == INSTANCE OverviewPage

InitDisplays ==
    /\ open = "detail" => Detail!Init
    /\ open = "stage" => StageDetail!Init
    /\ open = "plan" => LivePlan!Init
    /\ open = "panels" => Panels!Init
    /\ open = "threads" => Threads!Init
    /\ open = "overview" => Overview!Init

NextDisplays ==
    \/ on("detail") /\ Detail!Next
    \/ on("stage") /\ StageDetail!Next
    \/ on("plan") /\ LivePlan!Next
    \/ on("panels") /\ Panels!Next
    \/ on("threads") /\ Threads!Next
    \/ on("overview") /\ Overview!Next

-----------------------------------------------------------------------------
(* Four of them have one series of requests.  This is how far the series is, in the terms *)
(* of RefreshSeries; the other pages count as waiting.                                    *)

requestsSent ==
    CASE open \in {"detail", "plan", "panels"} -> ui.requests
      [] open = "stage" -> Len(ui.requests)
timerArmed ==
    CASE open = "detail" -> ui.timer # Detail!Never
      [] open = "panels" -> ui.timer # Panels!Never
      [] open \in {"stage", "plan"} -> ui.timer
phase ==
    IF open \notin {"detail", "stage", "plan", "panels"} \/ (requestsSent = 1 /\ ~timerArmed)
    THEN "waiting"
    ELSE IF requestsSent = 0 THEN IF timerArmed THEN "armed" ELSE "stopped" ELSE "two series"
seriesEnded == IF open \in {"detail", "stage", "plan"} THEN ui.ended ELSE FALSE
=============================================================================
