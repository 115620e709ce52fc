------------------------------ MODULE RunPolling ------------------------------
(***************************************************************************)
(* The query editor keeps its list of runs up to date by polling           *)
(* (queryeditor/stores/RunStore.js, actions/RunActions.js), slowly when no *)
(* run is active, fast when one is or was just submitted, and with         *)
(* exponential back-off after errors.  CnxnMonitorStore collects the       *)
(* errors, and the editor (components/QueryEditor.jsx) shows them in a     *)
(* dialog, one at a time.                                                  *)
(*                                                                         *)
(* A request in flight is not cancelled by anything, so the browser going  *)
(* offline and online, and a run submitted meanwhile, interleave with it.  *)
(* Delays are in seconds.  An error text is a number: the count of the     *)
(* error; 0 is the empty text.                                             *)
(***************************************************************************)
EXTENDS Integers

CONSTANTS Fast, Slow, Limit,    \* 1000, 10000 and 60000 ms in the code
          Attempts,             \* 5: failures that are ignored, plus one
          MaxPolls,             \* bound: requests in flight
          MaxFailures,          \* bound: failures that are counted
          MaxClicks             \* bound: actions of the user and of the network

VARIABLES ui,       \* the two stores and the editor
          server    \* not looked at: runs of other users come and go

Never == 0          \* no timer

constructor ==
    [online |-> FALSE, offline |-> FALSE, timer |-> Never, polls |-> 0, submissions |-> 0,
     currentPollDelay |-> Slow, pollErrorDelay |-> Fast, anyRunning |-> FALSE,
     pollingFailureCount |-> 0, lastPollingError |-> 0, lastSubmissionResult |-> 0,
     errorDialog |-> FALSE, shownSubmission |-> 0, shownPolling |-> 0,
     buttonState |-> FALSE, toggles |-> 0, failures |-> 0, clicks |-> 0]

\* setupNextPoll: one timer, whoever asks for it.
setupNextPoll_Doubles(u, hasError, fastRefresh) ==
    LET current == IF fastRefresh THEN Fast ELSE u.currentPollDelay
        error == IF hasError THEN u.pollErrorDelay * 2 ELSE current
    IN  [u EXCEPT !.currentPollDelay = current, !.pollErrorDelay = error,
                  !.timer = IF hasError THEN error ELSE current]
setupNextPoll(u, hasError, fastRefresh) ==
    LET current == IF fastRefresh THEN Fast ELSE u.currentPollDelay
        error == IF hasError
                 THEN IF u.pollErrorDelay * 2 < Limit THEN u.pollErrorDelay * 2 ELSE Limit
                 ELSE current
    IN  [u EXCEPT !.currentPollDelay = current, !.pollErrorDelay = error,
                  !.timer = IF hasError THEN error ELSE current]

poll(u) == [u EXCEPT !.polls = @ + 1]

onDisconnect(u) == [u EXCEPT !.timer = Never, !.online = FALSE, !.offline = TRUE]
onConnect(u) == poll([onDisconnect(u) EXCEPT !.online = TRUE, !.offline = FALSE])

onAddMultipleRuns(u, anyRunning) ==
    [u EXCEPT !.anyRunning = anyRunning, !.currentPollDelay = IF anyRunning THEN Fast ELSE Slow]

\* onAddRun
onAddRun(u) == setupNextPoll(u, FALSE, TRUE)

-----------------------------------------------------------------------------
(* CnxnMonitorStore and the editor, which is its listener *)

\* errorHandler
errorHandler_Latest(u) ==
    [u EXCEPT !.shownSubmission = u.lastSubmissionResult, !.shownPolling = u.lastPollingError,
              !.errorDialog = u.lastSubmissionResult # 0 \/ u.lastPollingError # 0]
errorHandler(u) ==
    IF u.errorDialog THEN u
    ELSE [u EXCEPT !.shownSubmission = u.lastSubmissionResult, !.shownPolling = u.lastPollingError,
                   !.errorDialog = u.lastSubmissionResult # 0 \/ u.lastPollingError # 0]

onSubmitSuccess(u) == errorHandler([u EXCEPT !.lastSubmissionResult = 0])
onSubmitFailure(u) == errorHandler([u EXCEPT !.lastSubmissionResult = u.failures])
onPollingFailure(u) ==
    LET count == u.pollingFailureCount + 1
    IN  errorHandler([u EXCEPT !.pollingFailureCount = count,
                               !.lastPollingError = IF count < Attempts THEN @ ELSE u.failures])
onClear(u) == errorHandler([u EXCEPT !.pollingFailureCount = 0, !.lastSubmissionResult = 0,
                                     !.lastPollingError = 0])

-----------------------------------------------------------------------------

\* QueryInformation connects when it is mounted.
Init == ui = onConnect(constructor) /\ server = 0

failed(u) == [u EXCEPT !.failures = @ + 1]

\* fetchHistory's two outcomes
PollSucceeds ==
    /\ ui.polls > 0
    /\ \E anyRunning \in BOOLEAN :
          ui' = setupNextPoll(onAddMultipleRuns([ui EXCEPT !.polls = @ - 1], anyRunning), FALSE, FALSE)
    /\ UNCHANGED server

PollFails ==
    /\ ui.polls > 0 /\ ui.failures < MaxFailures
    /\ ui' = setupNextPoll(onPollingFailure(failed([ui EXCEPT !.polls = @ - 1])), TRUE, FALSE)
    /\ UNCHANGED server

TimerFires ==
    /\ ui.timer # Never /\ ui.polls < MaxPolls
    /\ ui' = poll([ui EXCEPT !.timer = Never])
    /\ UNCHANGED server

\* The browser's events online and offline, and the page being left.
mayAct == ui.clicks < MaxClicks
acted(u) == [u EXCEPT !.clicks = @ + 1]
WentOnline == mayAct /\ ui.polls < MaxPolls /\ ui' = acted(onConnect(ui)) /\ UNCHANGED server
WentOffline == mayAct /\ ui' = acted(onDisconnect(ui)) /\ UNCHANGED server

\* handleRun, and the timer of the button that it disables for a second.
handleRun == /\ mayAct /\ ~ui.buttonState
             /\ ui' = acted([ui EXCEPT !.buttonState = TRUE, !.toggles = @ + 1, !.submissions = @ + 1])
             /\ UNCHANGED server
ButtonTimerFires == /\ ui.toggles > 0
                    /\ ui' = [ui EXCEPT !.buttonState = ~@, !.toggles = @ - 1]
                    /\ UNCHANGED server

\* execute's two outcomes
SubmissionSucceeds == /\ ui.submissions > 0
                      /\ ui' = onSubmitSuccess(onAddRun([ui EXCEPT !.submissions = @ - 1]))
                      /\ UNCHANGED server
SubmissionFails == /\ ui.submissions > 0 /\ ui.failures < MaxFailures
                   /\ ui' = onSubmitFailure(failed([ui EXCEPT !.submissions = @ - 1]))
                   /\ UNCHANGED server

\* The store is cleared while the dialog is still open, so errorHandler does not react.
closeErrorDialog ==
    /\ ui.errorDialog
    /\ ui' = [onClear(ui) EXCEPT !.shownSubmission = 0, !.shownPolling = 0, !.errorDialog = FALSE]
    /\ UNCHANGED server

User == WentOnline \/ WentOffline \/ handleRun \/ closeErrorDialog
Browser == PollSucceeds \/ PollFails \/ TimerFires
               \/ ButtonTimerFires \/ SubmissionSucceeds \/ SubmissionFails
Next == User \/ Browser

vars == <<ui, server>>
Spec == Init /\ [][Next]_vars

-----------------------------------------------------------------------------

\* "use exponential back off, with a limit of 1 minute": the page never waits less than
\* the fast delay nor longer than the limit for its next poll, in whatever order answers,
\* failures, submissions and reconnections come.
BackoffBounded ==
    /\ ui.pollErrorDelay \in Fast..Limit /\ ui.currentPollDelay \in {Fast, Slow}
    /\ ui.timer = Never \/ ui.timer \in Fast..Limit

\* Polls do not multiply: what is in flight and the timer are at most one more than the
\* submissions and reconnections, although nothing cancels a poll.
PollingDoesNotMultiply ==
    ui.polls + (IF ui.timer = Never THEN 0 ELSE 1) <= 1 + ui.clicks

\* The list of runs goes on being polled: while the page is connected, a poll is in
\* flight or its timer is armed.
PollingAlive == ui.online => ui.polls > 0 \/ ui.timer # Never

\* "If error dialog is already opened, we can ignore further notices until action is
\* taken": an open dialog has a text, and the text does not change while it is read.
DialogHasText == ui.errorDialog => ui.shownSubmission # 0 \/ ui.shownPolling # 0
DialogKept == ui.errorDialog /\ ui'.errorDialog =>
                 ui'.shownSubmission = ui.shownSubmission /\ ui'.shownPolling = ui.shownPolling
=============================================================================
