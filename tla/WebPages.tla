------------------------------- MODULE WebPages -------------------------------
(***************************************************************************)
(* The pages of the web UI that live on polling.  Each is a document of    *)
(* its own, so a behaviour has one of them open and never another; what    *)
(* they have in common is stated here once, as properties of all of them.  *)
(***************************************************************************)
EXTENDS WebDisplays, WebLists, WebHistories

CONSTANT Page       \* the pages that may be open

ASSUME PageAssumption ==
    Page \subseteq {"monitor", "history", "detail", "stage", "plan", "panels", "threads",
                    "audit", "overview", "runs"}

Init == open \in Page /\ InitDisplays /\ InitLists /\ InitHistories

Next == NextDisplays \/ NextLists \/ NextHistories

Spec == Init /\ [][Next]_vars

-----------------------------------------------------------------------------
(* Safety *)

\* Polling does not multiply: the requests on their way and what may still lead to one
\* are at most one more than what the user did (QueryMonitor's and RunStore's timers).
PollingDoesNotMultiply ==
    /\ open = "monitor" => Monitor!PollingDoesNotMultiply
    /\ open = "runs" => Runs!PollingDoesNotMultiply

\* Polling does not die: a timer is armed or an answer is due that will arm it.  The
\* query history is the exception: it dies with a failed request for the number of queries.
PollingAlive ==
    /\ open = "monitor" => Monitor!PollingAlive
    /\ open = "history" => History!PollingAlive
    /\ open = "runs" => Runs!PollingAlive

\* The mark at "Select All" agrees with the marks at the filters below it.
SelectAllMeansAll ==
    /\ open = "monitor" => Monitor!SelectAllMeansAll
    /\ open = "history" => History!SelectAllMeansAll

\* A page that has nothing under way shows the answer to what the user chose, as far as
\* no request failed and no answer came out of order.
QuietMeansFresh ==
    /\ open = "history" => History!QuietMeansFresh
    /\ open = "audit" => AuditLog!QuietMeansFresh

\* The charts of a page agree with each other: none has a sample more or less than the
\* others, none grows without bound, none is drawn late by more than one sample.
ChartsInStep ==
    /\ open = "detail" => Detail!SparklinesLagByOne
    /\ open = "panels" => Panels!ChartsInStep
    /\ open = "overview" => Overview!ChartsCoverWindow

\* The stage that the user selected between two requests stays selected.
SelectionKept == open = "stage" => StageDetail!SelectionKept

\* What is on the screen follows the answers: the stages of the drawn plan have the
\* statistics of the last one and its remote edges those of the first, the groups of the
\* threads are all of the last snapshot, the summary of the cluster has every node.
ScreenFollowsAnswers ==
    /\ open = "plan" => LivePlan!DrawnIsCurrent
    /\ open = "threads" => Threads!SnapshotComplete
    /\ open = "overview" => Overview!SummaryComplete

\* The delay of the next poll stays between the fast delay and the limit.
BackoffBounded == open = "runs" => Runs!BackoffBounded

\* The live plan page keeps its promise that the graph will appear.
PlanWillAppear == open = "plan" => LivePlan!PlanWillAppear

\* With auto-refresh off, stages and tasks on the screen do not change.
FrozenMeansFrozen == [][open = "detail" => Detail!FrozenMeansFrozen]_vars

\* A dialog about an error is open only with an error to tell, and does not change its
\* text while it is read.
HonestDialogs == [][/\ open = "panels" => Panels!DialogTellsTheTruth
                    /\ open = "runs" => Runs!DialogHasText /\ Runs!DialogKept]_vars

-----------------------------------------------------------------------------
(* The pages with one series of requests implement RefreshSeries *)

Series == INSTANCE RefreshSeries WITH phase <- phase, ended <- seriesEnded

\* "to stop multiple series of refreshLoop from going on simultaneously", "stop refreshing
\* when query finishes or fails": the pages of a query and the panels send one request at
\* a time, and end with the final answer and no other.
ImplementsSeries == Series!Spec

-----------------------------------------------------------------------------
(* Liveness.  The browser runs the callbacks that are due, every request is answered or *)
(* fails, and a request that is sent over and over is answered now and then.            *)

Fairness ==
    /\ WF_vars(on("monitor") /\ (Monitor!TimerFires \/ Monitor!DebounceFires))
    /\ WF_vars(on("monitor") /\ Monitor!DeferredRefresh)
    /\ WF_vars(on("monitor") /\ Monitor!AnyAnswer)
    /\ SF_vars(on("monitor") /\ Monitor!AnswerArrives(Monitor!queryString(ui)))
    /\ WF_vars(on("detail") /\ (Detail!Browser \/ Detail!Tick))
    /\ SF_vars(on("detail") /\ Detail!AnswerArrives)
    /\ WF_vars(on("stage") /\ StageDetail!Browser)
    /\ SF_vars(on("stage") /\ StageDetail!AnswerArrives)
    /\ WF_vars(on("plan") /\ LivePlan!Browser)
    /\ SF_vars(on("plan") /\ LivePlan!AnswerArrives)

FairSpec == Spec /\ Fairness

\* The list of the query monitor comes to show what the user chose, and keeps to it,
\* whatever was overtaken on the way.
ShowsChosen == <>[](open = "monitor" => Monitor!ShowsChosen)

\* The final information about a query reaches the pages that show it.
FinalShown == <>[](/\ open = "detail" => Detail!ShowsFinal
                   /\ open = "stage" => StageDetail!ShowsFinal
                   /\ open = "plan" => LivePlan!ShowsFinal)
=============================================================================
