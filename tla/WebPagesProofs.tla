----------------------------- MODULE WebPagesProofs -----------------------------
(***************************************************************************)
(* The theorems about the pages of the web UI that live on polling.  What  *)
(* each page keeps is proved page by page in WebDisplayProofs,             *)
(* WebListProofs and WebHistoryProofs; here it becomes one invariant of    *)
(* the specification.                                                      *)
(***************************************************************************)
EXTENDS WebPages, WebDisplayProofs, WebListProofs, WebHistoryProofs

\* What the page that is open keeps.
PageKeeps == DisplaysKeep /\ ListsKeep /\ HistoriesKeep

\* Whichever page opens, its invariant holds and its series waits.
LEMMA PageStart == ASSUME Init PROVE PageKeeps /\ phase = "waiting" /\ seriesEnded = FALSE
  BY DisplaysStart, ListsStart, HistoriesStart, Zenon DEF PageKeeps, Init

\* A step of the open page keeps its invariant and moves its series by the rules.
LEMMA PageStep ==
    ASSUME PageKeeps, [Next]_vars
    PROVE  PageKeeps' /\ SeriesStep(phase, seriesEnded, phase', seriesEnded')
  <1>1. CASE UNCHANGED vars
    BY <1>1, DisplaysRest, ListsRest, HistoriesRest, Zenon DEF PageKeeps
  <1>2. CASE NextDisplays
    <2>1. open \notin {"monitor", "runs"} /\ open \notin {"history", "audit"}
      BY <1>2, DisplaysStep DEF PageKeeps, DisplayPage
    <2> QED
      BY <1>2, <2>1, DisplaysStep, ListsRest, HistoriesRest, Zenon DEF PageKeeps
  <1>3. CASE NextLists
    <2>1. open \notin DisplayPage /\ open \notin {"history", "audit"}
      BY <1>3, ListsStep DEF PageKeeps, DisplayPage
    <2> QED
      BY <1>3, <2>1, ListsStep, DisplaysRest, HistoriesRest, Zenon DEF PageKeeps
  <1>4. CASE NextHistories
    <2>1. open \notin DisplayPage /\ open \notin {"monitor", "runs"}
      BY <1>4, HistoriesStep DEF PageKeeps, DisplayPage
    <2> QED
      BY <1>4, <2>1, HistoriesStep, DisplaysRest, ListsRest, Zenon DEF PageKeeps
  <1> QED
    BY <1>1, <1>2, <1>3, <1>4, Zenon DEF Next

\* The invariant of the open page always holds.
LEMMA Inductive == Spec => []PageKeeps
  <1>1. Init => PageKeeps
    BY PageStart, Zenon
  <1>2. PageKeeps /\ [Next]_vars => PageKeeps'
    BY PageStep, Zenon
  <1> QED
    BY <1>1, <1>2, PTL DEF Spec

-----------------------------------------------------------------------------
(* Theorems about the pages that display a query, a worker or the cluster *)

\* The pages of a query, of a stage and of the live plan and the panels of the cluster send
\* one request at a time, the next when the timer fires that the last answer has armed,
\* and stop with the final answer and no other: refreshLoop and resetTimer keep the series
\* that their comments speak of, whatever the answers and whatever the user does.
THEOREM PagesKeepOneSeries == Spec => ImplementsSeries
  <1>1. Init => Series!Init
    BY PageStart, Zenon DEF Series!Init
  <1>2. PageKeeps /\ [Next]_vars => [Series!Next]_<<phase, seriesEnded>>
    <2> SUFFICES ASSUME PageKeeps, [Next]_vars
                 PROVE  [Series!Next]_<<phase, seriesEnded>>
      OBVIOUS
    <2>1. SeriesStep(phase, seriesEnded, phase', seriesEnded')
      BY PageStep, Zenon
    <2> QED
      BY <2>1, Zenon DEF SeriesStep, Series!Next, Series!Answer, Series!Fire
  <1> QED
    BY <1>1, <1>2, Inductive, PTL DEF Spec, ImplementsSeries, Series!Spec

\* A stage that was selected while no request was on its way stays selected: refreshLoop
\* takes it along, and setState writes it back.
THEOREM SelectionStays == Spec => []SelectionKept
  <1>1. PageKeeps => SelectionKept
    BY DisplaysPromise, Zenon DEF PageKeeps, DisplaysKeep, SelectionKept
  <1> QED
    BY <1>1, Inductive, PTL

\* With auto-refresh off, neither an answer nor a click nor the drawing of a sparkline
\* changes the stages or the tasks that the page of a query shows.
THEOREM FrozenStaysFrozen == Spec => FrozenMeansFrozen
  <1>1. PageKeeps /\ [Next]_vars => [open = "detail" => Detail!FrozenMeansFrozen]_vars
    <2> SUFFICES ASSUME PageKeeps, Next, open = "detail"
                 PROVE  Detail!FrozenMeansFrozen
      BY Zenon
    <2>1. open \notin {"monitor", "runs"} /\ open \notin {"history", "audit"}
      OBVIOUS
    <2> QED
      BY <2>1, DisplaysStep, ListsStep, HistoriesStep, Zenon DEF PageKeeps, Next
  <1> QED
    BY <1>1, Inductive, PTL DEF Spec, FrozenMeansFrozen

\* For any length of the history and any window: the sparklines of a query are drawn at most
\* one sample late, every chart of a panel has the samples of the others but for the first of
\* a rate, none grows past the history (addToHistory), and the charts of the overview cover
\* their window, the processor's less what came before the first line data (changed).
THEOREM ChartsStayInStep == Spec => []ChartsInStep
  <1>1. PageKeeps => ChartsInStep
    BY DisplaysPromise, Zenon DEF PageKeeps, DisplaysKeep, ChartsInStep
  <1> QED
    BY <1>1, Inductive, PTL

\* Whatever the answers and their order: the stages of the drawn plan have the statistics of
\* the last answer (componentDidUpdate) and its remote edges the sizes of the first, because
\* a plan node is drawn with its edges only once (updateD3Stage); each thread of a snapshot is in the group of all threads and in its
\* own and in no other (processThreads), and the table of the overview has a row for every
\* node of the last answer about memory.
THEOREM AnswersAreFollowed == Spec => []ScreenFollowsAnswers
  <1>1. PageKeeps => ScreenFollowsAnswers
    BY DisplaysPromise, SnapshotWhole, Zenon DEF PageKeeps, DisplaysKeep, ScreenFollowsAnswers
  <1> QED
    BY <1>1, Inductive, PTL

-----------------------------------------------------------------------------
(* Theorems about the pages that list what the user searches for *)

\* The poll of RunStore never waits less than the fast delay nor longer than the limit,
\* for any delays Fast <= Slow <= Limit and any number of failures, submissions and
\* reconnections (setupNextPoll, onAddMultipleRuns, onConnect, onDisconnect).
THEOREM PollDelayBounded == Spec => []BackoffBounded
  <1>1. PageKeeps => BackoffBounded
    BY RunsPromise, Zenon DEF PageKeeps, ListsKeep, BackoffBounded
  <1> QED
    BY <1>1, Inductive, PTL

\* The query monitor, the query history and the list of runs never stop polling without
\* a reason: a timer is armed or an answer is due that arms it, whatever the user does and
\* however many requests overlap (refreshLoop, resetTimer, setupNextPoll).
THEOREM PollingNeverDies == Spec => []PollingAlive
  <1>1. PageKeeps => PollingAlive
    BY RunsPromise, MonitorPromises, HistoryPromises, Zenon DEF PageKeeps, ListsKeep, HistoriesKeep, PollingAlive
  <1> QED
    BY <1>1, Inductive, PTL

\* The requests of the query monitor and the polls of the runs that are on their way, due or
\* deferred are never more than one and the user's clicks: no timer, no late answer and no
\* reconnection starts a second series (refreshLoop, resetTimer, setupNextPoll).
THEOREM PollingStaysSingle == Spec => []PollingDoesNotMultiply
  <1>1. PageKeeps => PollingDoesNotMultiply
    BY RunsPromise, MonitorPromises, Zenon DEF PageKeeps, ListsKeep, PollingDoesNotMultiply
  <1> QED
    BY <1>1, Inductive, PTL

\* For any menu: after any clicks at the filters and at "Select All", the mark at "Select All"
\* is set exactly when every filter is, although the code compares lengths only
\* (handleStateFilterClick, handleErrorTypeFilterClick).
THEOREM SelectAllStaysRight == Spec => []SelectAllMeansAll
  <1>1. PageKeeps => SelectAllMeansAll
    BY MonitorPromises, HistoryPromises, Zenon DEF PageKeeps, ListsKeep, HistoriesKeep, SelectAllMeansAll
  <1> QED
    BY <1>1, Inductive, PTL

\* Once the query history or the audit log has nothing under way, it shows the answer to what
\* the user chose last, provided that no request failed, no answer was overtaken and, in the
\* history, the user changed nothing while the number was being asked for (refreshData).
THEOREM QuietShowsTheChosen == Spec => []QuietMeansFresh
  <1>1. PageKeeps => QuietMeansFresh
    BY HistoryPromises, AuditFresh, Zenon DEF PageKeeps, HistoriesKeep, QuietMeansFresh
  <1> QED
    BY <1>1, Inductive, PTL

\* The dialog about a lost connection is open only while the connection is lost, and every
\* outage is announced; the dialog about the runs is never empty, and what it says stays until
\* the user closes it (renderStatusLight, RunStore's error handling).
THEOREM DialogsAreHonest == Spec => HonestDialogs
  <1>1. PageKeeps /\ [Next]_vars => [/\ open = "panels" => Panels!DialogTellsTheTruth
                                     /\ open = "runs" => Runs!DialogHasText /\ Runs!DialogKept]_vars
    <2> SUFFICES ASSUME PageKeeps, Next
                 PROVE  /\ open = "panels" => Panels!DialogTellsTheTruth
                        /\ open = "runs" => Runs!DialogHasText /\ Runs!DialogKept
      BY Zenon
    <2>1. open = "panels" => Panels!DialogTellsTheTruth
      BY DisplaysPromise, Zenon DEF PageKeeps, DisplaysKeep
    <2>2. ASSUME open = "runs" PROVE Runs!DialogHasText /\ Runs!DialogKept
      <3>1. open \notin DisplayPage /\ open \notin {"history", "audit"}
        BY <2>2 DEF DisplayPage
      <3>2. Runs!DialogKept
        BY <2>2, <3>1, DisplaysStep, ListsStep, HistoriesStep, Zenon DEF PageKeeps, Next
      <3> QED
        BY <2>2, <3>2, RunsPromise, Zenon DEF PageKeeps, ListsKeep
    <2> QED
      BY <2>1, <2>2, Zenon
  <1> QED
    BY <1>1, Inductive, PTL DEF Spec, HonestDialogs
=============================================================================
