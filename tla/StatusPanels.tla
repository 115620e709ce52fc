----------------------------- MODULE StatusPanels -----------------------------
(***************************************************************************)
(* The parts of the web UI that poll the state of the cluster for as long  *)
(* as their page is open: the charts of ClusterHUD and of the editor's     *)
(* StatusFooter, the charts of one worker (WorkerStatus), and the title    *)
(* bars PageTitle and Header with their connection light.                  *)
(*                                                                         *)
(* Each is one component with a timer of one second; kind says which.  A   *)
(* history is abstracted to the number of its samples.  Time passes in     *)
(* ticks of half a second; what matters is the time since the charts were  *)
(* drawn, which is counted up to the second after which they may be drawn  *)
(* again.                                                                  *)
(***************************************************************************)
EXTENDS Integers, FiniteSetsExt

CONSTANTS MaxHistory,   \* MAX_HISTORY: samples of a sparkline that are kept
          MaxClicks     \* bound: actions of the user

VARIABLES ui,       \* the React component
          server    \* not looked at: every answer is fresh

Never == -1
Second == 2     \* half seconds

addToHistory(n) == n + 1 - Max({n - MaxHistory, 0})

\* state.ended is undefined or never set on these pages.
resetTimer_HalfASecond(u) == [u EXCEPT !.timer = 1]
resetTimer(u) == [u EXCEPT !.timer = Second]

refreshLoop(u) == [u EXCEPT !.timer = Never, !.requests = @ + 1]

-----------------------------------------------------------------------------
(* The histories of the panels: of values, of averages, of rates *)

ClusterHUD == [values |-> {"runningQueries", "queuedQueries", "blockedQueries", "activeWorkers"},
               averages |-> {"runningDrivers", "reservedMemory"},
               rates |-> {"rowInputRate", "byteInputRate", "perWorkerCpuTimeRate"}]
StatusFooter == [values |-> {"runningQueries", "queuedQueries", "blockedQueries", "activeWorkers"},
                 averages |-> {"runningDrivers", "reservedMemory", "cpuUsage"},
                 rates |-> {"perWorkerCpuTimeRate"}]
WorkerStatus == [values |-> {"processCpuLoad", "systemCpuLoad", "heapPercentUsed", "nonHeapUsed"},
                 averages |-> {}, rates |-> {}]
TitleBar == [values |-> {}, averages |-> {}, rates |-> {}]

panel(kind) == CASE kind = "ClusterHUD" -> ClusterHUD
                 [] kind = "StatusFooter" -> StatusFooter
                 [] kind = "WorkerStatus" -> WorkerStatus
                 [] OTHER -> TitleBar
charts(kind) == UNION {panel(kind)[part] : part \in {"values", "averages", "rates"}}

constructor(kind) ==
    [kind |-> kind, initialized |-> FALSE, info |-> FALSE, lastRefresh |-> FALSE,
     history |-> [chart \in charts(kind) |-> 0], drawn |-> [chart \in charts(kind) |-> 0],
     sinceDraw |-> Second, noConnection |-> FALSE, lightShown |-> FALSE, modalShown |-> FALSE,
     dialog |-> FALSE, announced |-> FALSE,
     timer |-> Never, requests |-> 0, clicks |-> 0]

Kind == {"ClusterHUD", "StatusFooter", "WorkerStatus", "PageTitle", "Header"}

Init == \E kind \in Kind : ui = refreshLoop(constructor(kind)) /\ server = 0

answered(u) == [u EXCEPT !.requests = @ - 1]
arrives(kind) == ui.kind = kind /\ ui.requests > 0 /\ UNCHANGED server

-----------------------------------------------------------------------------
(* Answers for the charts *)

\* The rates compare two answers: they start with the second one.
sampled_RatesToo(u) ==
    [u EXCEPT !.initialized = TRUE, !.lastRefresh = TRUE,
              !.history = [chart \in DOMAIN @ |-> addToHistory(@[chart])]]
sampled(u) ==
    [u EXCEPT !.initialized = TRUE, !.lastRefresh = TRUE,
              !.history = [chart \in DOMAIN @ |->
                  IF chart \in panel(u.kind).rates /\ ~u.lastRefresh THEN 0
                  ELSE addToHistory(@[chart])]]

\* componentDidUpdate: the charts of the cluster are drawn at most once a second.
draws(u) == [u EXCEPT !.sinceDraw = 0, !.drawn = u.history]
clusterDidUpdate(u) == IF u.sinceDraw < Second THEN u ELSE draws(u)
footerDidUpdate(u) == IF u.sinceDraw < Second THEN u ELSE draws(u)
workerDidUpdate(u) == draws(u)

ClusterHUDAnswered ==
    arrives("ClusterHUD") /\ ui' = resetTimer(clusterDidUpdate(sampled(answered(ui))))
StatusFooterAnswered ==
    arrives("StatusFooter") /\ ui' = resetTimer(footerDidUpdate(sampled(answered(ui))))
WorkerStatusAnswered ==
    arrives("WorkerStatus") /\ ui' = resetTimer(workerDidUpdate(sampled([answered(ui) EXCEPT !.info = TRUE])))

ChartsFail ==
    /\ \/ arrives("ClusterHUD") \/ arrives("StatusFooter")
    /\ ui' = resetTimer(answered(ui))
WorkerStatusFails ==
    arrives("WorkerStatus") /\ ui' = resetTimer(workerDidUpdate([answered(ui) EXCEPT !.initialized = TRUE]))

-----------------------------------------------------------------------------
(* Answers for the title bars *)

connected(u) == [u EXCEPT !.info = TRUE, !.noConnection = FALSE, !.modalShown = FALSE]
blinks(u) == [u EXCEPT !.noConnection = TRUE, !.lightShown = ~@]

PageTitleAnswered ==
    /\ arrives("PageTitle")
    /\ ui' = resetTimer([connected(answered(ui)) EXCEPT !.dialog = FALSE, !.announced = FALSE])

\* The failure is an object, hence true: the dialog does not wait for the 30 seconds.  The
\* title bar renders its dialog once it has information to show.
PageTitleFails ==
    LET u == resetTimer(blinks(answered(ui)))
    IN  /\ arrives("PageTitle")
        /\ ui' = IF ui.modalShown THEN u
                 ELSE [u EXCEPT !.modalShown = TRUE, !.dialog = u.info, !.announced = u.info]

HeaderAnswered == arrives("Header") /\ ui' = resetTimer(connected(answered(ui)))
HeaderFails == arrives("Header") /\ ui' = resetTimer(blinks(answered(ui)))

-----------------------------------------------------------------------------

\* A click beside the dialog closes it (Bootstrap); modalShown does not notice.
closeDialog ==
    /\ ui.dialog /\ ui.clicks < MaxClicks
    /\ ui' = [ui EXCEPT !.dialog = FALSE, !.clicks = @ + 1]
    /\ UNCHANGED server

\* Half a second passes.
Tick == /\ ui.timer # 0
        /\ ui' = [ui EXCEPT !.timer = IF @ = Never THEN Never ELSE @ - 1,
                            !.sinceDraw = Min({@ + 1, Second})]
        /\ UNCHANGED server

TimerFires == ui.timer = 0 /\ ui' = refreshLoop(ui) /\ UNCHANGED server

Answered == \/ ClusterHUDAnswered \/ StatusFooterAnswered \/ WorkerStatusAnswered
            \/ PageTitleAnswered \/ HeaderAnswered
Fails == ChartsFail \/ WorkerStatusFails \/ PageTitleFails \/ HeaderFails
Browser == Answered \/ Fails \/ TimerFires
Next == Browser \/ Tick \/ closeDialog

-----------------------------------------------------------------------------

renderStatusLight(u) ==
    IF ~u.noConnection THEN "green" ELSE IF u.lightShown THEN "red" ELSE "dark"

\* A chart shows every sample as soon as it arrives (the limit of one drawing a second
\* never suppresses one, because the timer is armed after the drawing), all charts of
\* a panel cover the same time, and the rates lack exactly the first sample.
ChartsInStep ==
    LET rates == panel(ui.kind).rates
    IN  /\ ui.drawn = ui.history
        /\ \E n \in 0..(MaxHistory + 1) :
              /\ \A chart \in charts(ui.kind) \ rates : ui.history[chart] = n
              /\ \A rate \in rates : \/ ui.history[rate] = n - 1
                                     \/ ui.history[rate] = n /\ n \in {0, MaxHistory + 1}

\* While the dialog about the lost connection is open, the connection is lost; and an
\* outage that began with the title bar on the screen was announced once.
DialogTellsTheTruth ==
    /\ ui.dialog => renderStatusLight(ui) # "green" /\ ui.announced
    /\ ui.kind = "PageTitle" /\ ui.noConnection /\ ui.info => ui.announced
=============================================================================
