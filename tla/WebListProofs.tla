----------------------------- MODULE WebListProofs -----------------------------
(***************************************************************************)
(* What every step of the query monitor and of the list of runs preserves: *)
(* that polling goes on and does not multiply, that the marks of the menus *)
(* are right and that the dialog has something to tell.  Each page is      *)
(* treated alone; WebPagesProofs puts the pages together.                  *)
(***************************************************************************)
EXTENDS WebLists, TLAPS

-----------------------------------------------------------------------------
(* The polling of the runs.  Poller is what the poll timer is about; the rest of the *)
(* record belongs to the dialog, the button and the bounds.                          *)

Poller == {"online", "polls", "timer", "currentPollDelay", "pollErrorDelay"}

Delays(u) ==
    /\ Poller \subseteq DOMAIN u
    /\ u.polls \in Nat
    /\ u.pollErrorDelay \in Fast..Limit
    /\ u.currentPollDelay \in {Fast, Slow}
    /\ u.timer = Runs!Never \/ u.timer \in Fast..Limit

Alive(u) == u.online => u.polls > 0 \/ u.timer # Runs!Never

SamePoller(u, v) == Poller \subseteq DOMAIN v /\ \A f \in Poller : v[f] = u[f]

\* setupNextPoll keeps every delay in its range and leaves a timer armed.
LEMMA NextPollArmed ==
    ASSUME NEW u, Delays(u), NEW hasError \in BOOLEAN, NEW fastRefresh \in BOOLEAN
    PROVE  Delays(Runs!setupNextPoll(u, hasError, fastRefresh))
           /\ Alive(Runs!setupNextPoll(u, hasError, fastRefresh))
  <1> DEFINE v == Runs!setupNextPoll(u, hasError, fastRefresh)
  <1>1. Poller \subseteq DOMAIN v /\ v.polls = u.polls /\ v.online = u.online
    BY Zenon DEF Delays, Poller, Runs!setupNextPoll
  <1>2. v.currentPollDelay = IF fastRefresh THEN Fast ELSE u.currentPollDelay
    BY Zenon DEF Delays, Poller, Runs!setupNextPoll
  <1>3. v.pollErrorDelay = IF hasError
                           THEN IF u.pollErrorDelay * 2 < Limit THEN u.pollErrorDelay * 2 ELSE Limit
                           ELSE v.currentPollDelay
    BY Zenon, <1>2 DEF Delays, Poller, Runs!setupNextPoll
  <1>4. v.timer = IF hasError THEN v.pollErrorDelay ELSE v.currentPollDelay
    BY Zenon, <1>2, <1>3 DEF Delays, Poller, Runs!setupNextPoll
  <1> HIDE DEF v
  <1>5. v.currentPollDelay \in {Fast, Slow}
    BY <1>2 DEF Delays
  <1>6. v.pollErrorDelay \in Fast..Limit
    BY <1>3, <1>5, DelaysAssumption DEF Delays
  <1>7. v.timer \in Fast..Limit
    BY <1>4, <1>5, <1>6, DelaysAssumption
  <1>8. v.timer # Runs!Never
    BY <1>7, DelaysAssumption DEF Runs!Never
  <1>9. Delays(v) /\ Alive(v)
    BY <1>1, <1>5, <1>6, <1>7, <1>8 DEF Delays, Alive
  <1> QED
    BY <1>9 DEF v

\* What happens to the dialog and to the counters leaves the poller alone.
LEMMA DialogApart ==
    ASSUME NEW u, Poller \subseteq DOMAIN u
    PROVE  /\ SamePoller(u, Runs!errorHandler(u))
           /\ SamePoller(u, Runs!failed(u))
           /\ SamePoller(u, Runs!acted(u))
           /\ SamePoller(u, Runs!onPollingFailure(u))
           /\ SamePoller(u, Runs!onSubmitSuccess(u))
           /\ SamePoller(u, Runs!onSubmitFailure(u))
           /\ SamePoller(u, Runs!onClear(u))
  <1>1. ASSUME NEW v, Poller \subseteq DOMAIN v
        PROVE  SamePoller(v, Runs!errorHandler(v))
    BY <1>1 DEF SamePoller, Poller, Runs!errorHandler
  <1>2. SamePoller(u, Runs!failed(u)) /\ SamePoller(u, Runs!acted(u))
    BY DEF SamePoller, Poller, Runs!failed, Runs!acted
  <1>3. SamePoller(u, Runs!onPollingFailure(u))
    <2> DEFINE count == u.pollingFailureCount + 1
               v == [u EXCEPT !.pollingFailureCount = count,
                              !.lastPollingError = IF count < Attempts THEN @ ELSE u.failures]
    <2>1. SamePoller(u, v)
      BY Zenon DEF SamePoller, Poller
    <2>2. Runs!onPollingFailure(u) = Runs!errorHandler(v)
      BY Zenon DEF Runs!onPollingFailure
    <2> HIDE DEF v
    <2> QED
      BY <1>1, <2>1, <2>2 DEF SamePoller
  <1>4. SamePoller(u, Runs!onSubmitSuccess(u)) /\ SamePoller(u, Runs!onSubmitFailure(u))
    BY <1>1 DEF SamePoller, Poller, Runs!onSubmitSuccess, Runs!onSubmitFailure
  <1>5. SamePoller(u, Runs!onClear(u))
    <2> DEFINE v == [u EXCEPT !.pollingFailureCount = 0, !.lastSubmissionResult = 0,
                              !.lastPollingError = 0]
    <2>1. SamePoller(u, v)
      BY Zenon DEF SamePoller, Poller
    <2>2. Runs!onClear(u) = Runs!errorHandler(v)
      BY Zenon DEF Runs!onClear
    <2> HIDE DEF v
    <2> QED
      BY <1>1, <2>1, <2>2 DEF SamePoller
  <1> QED
    BY <1>1, <1>2, <1>3, <1>4, <1>5

\* What leaves the poller alone leaves its delays and its life alone.
LEMMA SamePollerSameDelays ==
    ASSUME NEW u, NEW v, SamePoller(u, v)
    PROVE  (Delays(u) => Delays(v)) /\ (Alive(u) => Alive(v))
  <1>1. /\ v.online = u.online /\ v.polls = u.polls /\ v.timer = u.timer
        /\ v.currentPollDelay = u.currentPollDelay /\ v.pollErrorDelay = u.pollErrorDelay
    BY Zenon DEF SamePoller, Poller
  <1>2. Poller \subseteq DOMAIN v
    BY DEF SamePoller
  <1> QED
    BY <1>1, <1>2 DEF Delays, Alive

\* The list of runs opens with a request or a timer.
LEMMA RunsStart == ASSUME Runs!Init PROVE Delays(ui) /\ Alive(ui)
  <1>1. ui = Runs!onConnect(Runs!constructor)
    BY DEF Runs!Init
  <1>2. /\ Poller \subseteq DOMAIN ui /\ ui.polls = 0 + 1 /\ ui.timer = Runs!Never
        /\ ui.currentPollDelay = Slow /\ ui.pollErrorDelay = Fast
    BY <1>1, Zenon DEF Poller, Runs!onConnect, Runs!onDisconnect, Runs!poll, Runs!constructor
  <1> QED
    BY <1>2, DelaysAssumption DEF Delays, Alive

\* Every step of the page keeps the delays in range and the polling alive.
LEMMA RunsStep ==
    ASSUME Delays(ui), Alive(ui), Runs!Next
    PROVE  Delays(ui') /\ Alive(ui')
  <1> USE DEF Runs!Next, Runs!User, Runs!Browser
  <1>1. CASE Runs!WentOnline
    <2>1. SamePoller(Runs!onConnect(ui), ui')
      <3>1. Poller \subseteq DOMAIN Runs!onConnect(ui)
        BY DEF Delays, Runs!onConnect, Runs!onDisconnect, Runs!poll
      <3> QED
        BY <1>1, <3>1, DialogApart DEF Runs!WentOnline
    <2>2. LET u == Runs!onConnect(ui)
          IN  /\ Poller \subseteq DOMAIN u /\ u.polls = ui.polls + 1 /\ u.timer = Runs!Never
              /\ u.currentPollDelay = ui.currentPollDelay /\ u.pollErrorDelay = ui.pollErrorDelay
      BY Zenon DEF Delays, Poller, Runs!onConnect, Runs!onDisconnect, Runs!poll
    <2>3. Delays(Runs!onConnect(ui)) /\ Alive(Runs!onConnect(ui))
      BY <2>2 DEF Delays, Alive
    <2> QED
      BY <2>1, <2>3, SamePollerSameDelays
  <1>2. CASE Runs!WentOffline
    <2>1. SamePoller(Runs!onDisconnect(ui), ui')
      <3>1. Poller \subseteq DOMAIN Runs!onDisconnect(ui)
        BY DEF Delays, Runs!onDisconnect
      <3> QED
        BY <1>2, <3>1, DialogApart DEF Runs!WentOffline
    <2>2. LET u == Runs!onDisconnect(ui)
          IN  /\ Poller \subseteq DOMAIN u /\ u.polls = ui.polls /\ u.timer = Runs!Never
              /\ u.currentPollDelay = ui.currentPollDelay /\ u.pollErrorDelay = ui.pollErrorDelay
              /\ u.online = FALSE
      BY Zenon DEF Delays, Poller, Runs!onDisconnect
    <2>3. Delays(Runs!onDisconnect(ui)) /\ Alive(Runs!onDisconnect(ui))
      BY <2>2 DEF Delays, Alive
    <2> QED
      BY <2>1, <2>3, SamePollerSameDelays
  <1>3. CASE Runs!handleRun \/ Runs!ButtonTimerFires
    <2>1. SamePoller(ui, ui')
      <3>1. CASE Runs!handleRun
        BY <3>1, Zenon DEF Delays, SamePoller, Poller, Runs!handleRun, Runs!acted
      <3>2. CASE Runs!ButtonTimerFires
        BY <3>2, Zenon DEF Delays, SamePoller, Poller, Runs!ButtonTimerFires
      <3> QED
        BY <1>3, <3>1, <3>2
    <2> QED
      BY <2>1, SamePollerSameDelays
  <1>4. CASE Runs!closeErrorDialog
    <2>1. SamePoller(ui, Runs!onClear(ui))
      BY DialogApart DEF Delays
    <2>2. SamePoller(Runs!onClear(ui), ui')
      BY <1>4, <2>1, Zenon DEF SamePoller, Poller, Runs!closeErrorDialog
    <2> QED
      BY <2>1, <2>2, SamePollerSameDelays
  <1>5. CASE Runs!PollSucceeds
    <2> DEFINE u == [ui EXCEPT !.polls = @ - 1]
    <2>1. PICK anyRunning \in BOOLEAN :
              ui' = Runs!setupNextPoll(Runs!onAddMultipleRuns(u, anyRunning), FALSE, FALSE)
      BY <1>5, Zenon DEF Runs!PollSucceeds
    <2> DEFINE v == Runs!onAddMultipleRuns(u, anyRunning)
    <2>2. /\ Poller \subseteq DOMAIN v /\ v.polls = ui.polls - 1 /\ v.timer = ui.timer
          /\ v.pollErrorDelay = ui.pollErrorDelay /\ v.currentPollDelay \in {Fast, Slow}
      BY Zenon DEF Delays, Poller, Runs!onAddMultipleRuns
    <2> HIDE DEF v
    <2>3. Delays(v)
      BY <1>5, <2>2 DEF Delays, Runs!PollSucceeds
    <2> QED
      BY <2>1, <2>3, NextPollArmed, Zenon DEF v
  <1>6. CASE Runs!PollFails
    <2> DEFINE u == [ui EXCEPT !.polls = @ - 1]
               v == Runs!onPollingFailure(Runs!failed(u))
    <2>1. /\ Poller \subseteq DOMAIN u /\ u.polls = ui.polls - 1 /\ u.timer = ui.timer
          /\ u.pollErrorDelay = ui.pollErrorDelay /\ u.currentPollDelay = ui.currentPollDelay
      BY Zenon DEF Delays, Poller
    <2>2. ui' = Runs!setupNextPoll(v, TRUE, FALSE) /\ ui.polls > 0
      BY <1>6 DEF Runs!PollFails
    <2> HIDE DEF u
    <2>3. Delays(u)
      BY <2>1, <2>2 DEF Delays
    <2>4. SamePoller(u, Runs!failed(u)) /\ SamePoller(Runs!failed(u), v)
      BY <2>1, DialogApart DEF SamePoller
    <2> HIDE DEF v
    <2>5. Delays(v)
      BY <2>3, <2>4, SamePollerSameDelays
    <2> QED
      BY <2>2, <2>5, NextPollArmed, Zenon
  <1>7. CASE Runs!TimerFires
    <2>1. /\ Poller \subseteq DOMAIN ui' /\ ui'.polls = ui.polls + 1 /\ ui'.timer = Runs!Never
          /\ ui'.currentPollDelay = ui.currentPollDelay /\ ui'.pollErrorDelay = ui.pollErrorDelay
      BY <1>7, Zenon DEF Delays, Poller, Runs!TimerFires, Runs!poll
    <2> QED
      BY <2>1 DEF Delays, Alive
  <1>8. CASE Runs!SubmissionSucceeds
    <2> DEFINE u == [ui EXCEPT !.submissions = @ - 1]
               v == Runs!setupNextPoll(u, FALSE, TRUE)
    <2>1. SamePoller(ui, u)
      BY Zenon DEF Delays, SamePoller, Poller
    <2>2. ui' = Runs!onSubmitSuccess(v)
      BY <1>8 DEF Runs!SubmissionSucceeds, Runs!onAddRun
    <2> HIDE DEF u
    <2>3. Delays(v) /\ Alive(v)
      BY <2>1, SamePollerSameDelays, NextPollArmed, Zenon
    <2> HIDE DEF v
    <2>4. SamePoller(v, ui')
      BY <2>2, <2>3, DialogApart DEF Delays
    <2> QED
      BY <2>3, <2>4, SamePollerSameDelays
  <1>9. CASE Runs!SubmissionFails
    <2> DEFINE u == [ui EXCEPT !.submissions = @ - 1]
    <2>1. SamePoller(ui, u)
      BY Zenon DEF Delays, SamePoller, Poller
    <2>2. ui' = Runs!onSubmitFailure(Runs!failed(u))
      BY <1>9 DEF Runs!SubmissionFails
    <2> HIDE DEF u
    <2>3. SamePoller(u, Runs!failed(u)) /\ SamePoller(Runs!failed(u), ui')
      BY <2>1, <2>2, DialogApart DEF SamePoller
    <2> QED
      BY <2>1, <2>3, SamePollerSameDelays
  <1> QED
    BY <1>1, <1>2, <1>3, <1>4, <1>5, <1>6, <1>7, <1>8, <1>9

-----------------------------------------------------------------------------
(* The runs again: how many polls there may be, and what the dialog tells.  A submission *)
(* that is on its way may still arm the timer, so it is counted with the polls.          *)

RunCounts == {"polls", "timer", "submissions", "clicks"}
DialogText == {"errorDialog", "shownSubmission", "shownPolling", "lastSubmissionResult",
               "lastPollingError", "pollingFailureCount", "failures"}

armed(timer) == IF timer = Runs!Never THEN 0 ELSE 1

Paced(u) ==
    /\ RunCounts \subseteq DOMAIN u
    /\ u.polls \in Nat /\ u.submissions \in Nat /\ u.clicks \in Nat
    /\ u.polls + armed(u.timer) + u.submissions <= 1 + u.clicks

Told(u) ==
    /\ DialogText \subseteq DOMAIN u
    /\ u.errorDialog => u.shownSubmission # 0 \/ u.shownPolling # 0

\* An open dialog stays as it is.
StaysTold(u, v) ==
    /\ DialogText \subseteq DOMAIN v
    /\ Told(u) => Told(v)
    /\ u.errorDialog => /\ v.errorDialog
                        /\ v.shownSubmission = u.shownSubmission /\ v.shownPolling = u.shownPolling

SameCounts(u, v) == RunCounts \subseteq DOMAIN v /\ \A f \in RunCounts : v[f] = u[f]
SameText(u, v) == DialogText \subseteq DOMAIN v
                  /\ \A f \in {"errorDialog", "shownSubmission", "shownPolling"} : v[f] = u[f]

\* States that agree on the dialog tell the same.
LEMMA SameTextTold ==
    ASSUME NEW u, NEW v, SameText(u, v)
    PROVE  StaysTold(u, v)
  BY Zenon DEF SameText, StaysTold, Told

\* A dialog kept over two steps is kept over both.
LEMMA StaysToldTwice ==
    ASSUME NEW u, NEW v, NEW w, StaysTold(u, v), StaysTold(v, w)
    PROVE  StaysTold(u, w)
  BY Zenon DEF StaysTold

\* errorHandler leaves an open dialog alone, and opens one only with a text.
LEMMA ErrorsHandled ==
    ASSUME NEW u, DialogText \subseteq DOMAIN u
    PROVE  StaysTold(u, Runs!errorHandler(u))
  <1> DEFINE v == Runs!errorHandler(u)
  <1>1. CASE u.errorDialog
    <2>1. v = u
      BY <1>1, Zenon DEF Runs!errorHandler
    <2> QED
      BY <2>1, Zenon DEF StaysTold
  <1>2. CASE ~u.errorDialog
    <2>1. /\ DialogText \subseteq DOMAIN v
          /\ v.shownSubmission = u.lastSubmissionResult /\ v.shownPolling = u.lastPollingError
          /\ v.errorDialog = (u.lastSubmissionResult # 0 \/ u.lastPollingError # 0)
      BY <1>2, Zenon DEF DialogText, Runs!errorHandler
    <2> HIDE DEF v
    <2>2. StaysTold(u, v)
      BY <1>2, <2>1, Zenon DEF StaysTold, Told
    <2> QED
      BY <2>2 DEF v
  <1> QED
    BY <1>1, <1>2

\* What the store of the errors does leaves an open dialog alone.
LEMMA StoreKeepsText ==
    ASSUME NEW u, DialogText \subseteq DOMAIN u
    PROVE  /\ StaysTold(u, Runs!onPollingFailure(u)) /\ StaysTold(u, Runs!onSubmitSuccess(u))
           /\ StaysTold(u, Runs!onSubmitFailure(u)) /\ SameText(u, Runs!failed(u))
  <1>1. ASSUME NEW v, SameText(u, v)
        PROVE  StaysTold(u, Runs!errorHandler(v))
    <2>1. DialogText \subseteq DOMAIN v
      BY <1>1, Zenon DEF SameText
    <2>2. StaysTold(v, Runs!errorHandler(v))
      BY <2>1, ErrorsHandled
    <2>3. StaysTold(u, v)
      BY <1>1, SameTextTold
    <2> QED
      BY <2>2, <2>3, StaysToldTwice
  <1>2. StaysTold(u, Runs!onPollingFailure(u))
    <2> DEFINE count == u.pollingFailureCount + 1
               v == [u EXCEPT !.pollingFailureCount = count,
                              !.lastPollingError = IF count < Attempts THEN @ ELSE u.failures]
    <2>1. SameText(u, v)
      BY Zenon DEF SameText, DialogText
    <2>2. Runs!onPollingFailure(u) = Runs!errorHandler(v)
      BY Zenon DEF Runs!onPollingFailure
    <2> HIDE DEF v
    <2> QED
      BY <1>1, <2>1, <2>2
  <1>3. StaysTold(u, Runs!onSubmitSuccess(u))
    <2> DEFINE v == [u EXCEPT !.lastSubmissionResult = 0]
    <2>1. SameText(u, v)
      BY Zenon DEF SameText, DialogText
    <2>2. Runs!onSubmitSuccess(u) = Runs!errorHandler(v)
      BY Zenon DEF Runs!onSubmitSuccess
    <2> HIDE DEF v
    <2> QED
      BY <1>1, <2>1, <2>2
  <1>4. StaysTold(u, Runs!onSubmitFailure(u))
    <2> DEFINE v == [u EXCEPT !.lastSubmissionResult = u.failures]
    <2>1. SameText(u, v)
      BY Zenon DEF SameText, DialogText
    <2>2. Runs!onSubmitFailure(u) = Runs!errorHandler(v)
      BY Zenon DEF Runs!onSubmitFailure
    <2> HIDE DEF v
    <2> QED
      BY <1>1, <2>1, <2>2
  <1>5. SameText(u, Runs!failed(u))
    BY Zenon DEF SameText, DialogText, Runs!failed
  <1> QED
    BY <1>2, <1>3, <1>4, <1>5

\* What happens to the dialog leaves the counts alone.
LEMMA StoreKeepsCounts ==
    ASSUME NEW u, RunCounts \subseteq DOMAIN u
    PROVE  /\ SameCounts(u, Runs!onPollingFailure(u)) /\ SameCounts(u, Runs!onSubmitSuccess(u))
           /\ SameCounts(u, Runs!onSubmitFailure(u)) /\ SameCounts(u, Runs!onClear(u))
           /\ SameCounts(u, Runs!failed(u))
  <1>1. ASSUME NEW v, SameCounts(u, v)
        PROVE  SameCounts(u, Runs!errorHandler(v))
    BY <1>1, Zenon DEF SameCounts, RunCounts, Runs!errorHandler
  <1>2. SameCounts(u, Runs!onPollingFailure(u))
    <2> DEFINE count == u.pollingFailureCount + 1
               v == [u EXCEPT !.pollingFailureCount = count,
                              !.lastPollingError = IF count < Attempts THEN @ ELSE u.failures]
    <2>1. SameCounts(u, v)
      BY Zenon DEF SameCounts, RunCounts
    <2>2. Runs!onPollingFailure(u) = Runs!errorHandler(v)
      BY Zenon DEF Runs!onPollingFailure
    <2> HIDE DEF v
    <2> QED
      BY <1>1, <2>1, <2>2
  <1>3. SameCounts(u, Runs!onSubmitSuccess(u)) /\ SameCounts(u, Runs!onSubmitFailure(u))
    <2>1. ASSUME NEW e PROVE SameCounts(u, [u EXCEPT !.lastSubmissionResult = e])
      BY Zenon DEF SameCounts, RunCounts
    <2> QED
      BY <1>1, <2>1, Zenon DEF Runs!onSubmitSuccess, Runs!onSubmitFailure
  <1>4. SameCounts(u, Runs!onClear(u))
    <2> DEFINE v == [u EXCEPT !.pollingFailureCount = 0, !.lastSubmissionResult = 0,
                              !.lastPollingError = 0]
    <2>1. SameCounts(u, v)
      BY Zenon DEF SameCounts, RunCounts
    <2>2. Runs!onClear(u) = Runs!errorHandler(v)
      BY Zenon DEF Runs!onClear
    <2> HIDE DEF v
    <2> QED
      BY <1>1, <2>1, <2>2
  <1>5. SameCounts(u, Runs!failed(u))
    BY Zenon DEF SameCounts, RunCounts, Runs!failed
  <1> QED
    BY <1>2, <1>3, <1>4, <1>5

\* setupNextPoll arms the one timer and leaves the counters and the dialog alone.
OnlyTimer(u, v) ==
    /\ RunCounts \subseteq DOMAIN v /\ v.polls = u.polls
    /\ v.submissions = u.submissions /\ v.clicks = u.clicks
    /\ DialogText \subseteq DOMAIN u => SameText(u, v)

\* setupNextPoll changes the timer alone.
LEMMA NextPollCounts ==
    ASSUME NEW u, RunCounts \subseteq DOMAIN u, NEW hasError, NEW fastRefresh
    PROVE  OnlyTimer(u, Runs!setupNextPoll(u, hasError, fastRefresh))
  BY Zenon DEF OnlyTimer, RunCounts, DialogText, SameText, Runs!setupNextPoll

\* The list of runs opens with one request and no dialog.
LEMMA RunsStartPaced == ASSUME Runs!Init PROVE Paced(ui) /\ Told(ui)
  <1>1. ui = Runs!onConnect(Runs!constructor)
    BY DEF Runs!Init
  <1>2. /\ RunCounts \subseteq DOMAIN ui /\ ui.polls = 0 + 1 /\ ui.timer = Runs!Never
        /\ ui.submissions = 0 /\ ui.clicks = 0
        /\ DialogText \subseteq DOMAIN ui /\ ui.errorDialog = FALSE
    BY <1>1, Zenon DEF RunCounts, DialogText, Runs!onConnect, Runs!onDisconnect, Runs!poll,
                       Runs!constructor
  <1> QED
    BY <1>2 DEF Paced, Told, armed

\* A step of the counts: what it adds to the polls, the timer and the submissions is paid
\* for by an action of the user.
LEMMA PacedBy ==
    ASSUME Paced(ui), NEW u, RunCounts \subseteq DOMAIN u,
           u.polls \in Nat, u.submissions \in Nat, u.clicks \in Nat,
           u.polls + armed(u.timer) + u.submissions
               <= ui.polls + armed(ui.timer) + ui.submissions + u.clicks - ui.clicks
    PROVE  Paced(u)
  <1>1. armed(u.timer) \in Nat /\ armed(ui.timer) \in Nat
    BY DEF armed
  <1> QED
    BY <1>1 DEF Paced

\* No step multiplies the polls.
LEMMA RunsStepPaced ==
    ASSUME Paced(ui), Told(ui), Runs!Next
    PROVE  Paced(ui')
  <1> USE DEF Runs!Next, Runs!User, Runs!Browser
  <1>0. /\ RunCounts \subseteq DOMAIN ui
        /\ ui.polls \in Nat /\ ui.submissions \in Nat /\ ui.clicks \in Nat
        /\ armed(ui.timer) \in 0..1 /\ armed(ui'.timer) \in 0..1 /\ armed(Runs!Never) = 0
    BY DEF Paced, armed
  <1>1. CASE Runs!WentOnline
    <2>1. /\ RunCounts \subseteq DOMAIN ui' /\ ui'.polls = ui.polls + 1 /\ ui'.timer = Runs!Never
          /\ ui'.submissions = ui.submissions /\ ui'.clicks = ui.clicks + 1
      BY <1>0, <1>1, Zenon DEF RunCounts, Runs!WentOnline, Runs!acted, Runs!onConnect, Runs!onDisconnect,
                         Runs!poll
    <2> QED
      BY <1>0, <2>1, PacedBy
  <1>2. CASE Runs!WentOffline
    <2>1. /\ RunCounts \subseteq DOMAIN ui' /\ ui'.polls = ui.polls /\ ui'.timer = Runs!Never
          /\ ui'.submissions = ui.submissions /\ ui'.clicks = ui.clicks + 1
      BY <1>0, <1>2, Zenon DEF RunCounts, Runs!WentOffline, Runs!acted, Runs!onDisconnect
    <2> QED
      BY <1>0, <2>1, PacedBy
  <1>3. CASE Runs!handleRun
    <2>1. /\ RunCounts \subseteq DOMAIN ui' /\ ui'.polls = ui.polls /\ ui'.timer = ui.timer
          /\ ui'.submissions = ui.submissions + 1 /\ ui'.clicks = ui.clicks + 1
      BY <1>0, <1>3, Zenon DEF RunCounts, Runs!handleRun, Runs!acted
    <2> QED
      BY <1>0, <2>1, PacedBy
  <1>4. CASE Runs!ButtonTimerFires
    <2>1. SameCounts(ui, ui')
      BY <1>0, <1>4, Zenon DEF SameCounts, RunCounts, Runs!ButtonTimerFires
    <2> QED
      BY <2>1 DEF Paced, SameCounts, RunCounts
  <1>5. CASE Runs!closeErrorDialog
    <2> DEFINE c == Runs!onClear(ui)
    <2>1. SameCounts(ui, c)
      BY <1>0, StoreKeepsCounts
    <2>2. ui' = [c EXCEPT !.shownSubmission = 0, !.shownPolling = 0, !.errorDialog = FALSE]
      BY <1>5, Zenon DEF Runs!closeErrorDialog
    <2> HIDE DEF c
    <2>3. SameCounts(ui, ui')
      BY <2>1, <2>2, Zenon DEF SameCounts, RunCounts
    <2> QED
      BY <2>3 DEF Paced, SameCounts, RunCounts
  <1>6. CASE Runs!PollSucceeds
    <2> DEFINE u == [ui EXCEPT !.polls = @ - 1]
    <2>1. PICK anyRunning \in BOOLEAN :
              ui' = Runs!setupNextPoll(Runs!onAddMultipleRuns(u, anyRunning), FALSE, FALSE)
      BY <1>6, Zenon DEF Runs!PollSucceeds
    <2> DEFINE v == Runs!onAddMultipleRuns(u, anyRunning)
    <2>2. /\ RunCounts \subseteq DOMAIN v /\ v.polls = ui.polls - 1
          /\ v.submissions = ui.submissions /\ v.clicks = ui.clicks
      BY <1>0, Zenon DEF RunCounts, Runs!onAddMultipleRuns
    <2> HIDE DEF v
    <2>3. /\ RunCounts \subseteq DOMAIN ui' /\ ui'.polls = ui.polls - 1
          /\ ui'.submissions = ui.submissions /\ ui'.clicks = ui.clicks
      <3>1. OnlyTimer(v, ui')
        BY <2>1, <2>2, NextPollCounts, Zenon DEF v
      <3> QED
        BY <2>2, <3>1 DEF OnlyTimer
    <2>4. ui.polls > 0
      BY <1>6 DEF Runs!PollSucceeds
    <2> QED
      BY <1>0, <2>3, <2>4, PacedBy
  <1>7. CASE Runs!PollFails
    <2> DEFINE u == [ui EXCEPT !.polls = @ - 1]
               f == Runs!failed(u)
               v == Runs!onPollingFailure(f)
    <2>1. ui' = Runs!setupNextPoll(v, TRUE, FALSE) /\ ui.polls > 0
      BY <1>7, Zenon DEF Runs!PollFails
    <2>2. /\ RunCounts \subseteq DOMAIN f /\ f.polls = ui.polls - 1
          /\ f.submissions = ui.submissions /\ f.clicks = ui.clicks
      BY <1>0, Zenon DEF RunCounts, Runs!failed
    <2> HIDE DEF f
    <2>3. SameCounts(f, v)
      BY <2>2, StoreKeepsCounts
    <2> HIDE DEF v
    <2>4. /\ RunCounts \subseteq DOMAIN v /\ v.polls = ui.polls - 1
          /\ v.submissions = ui.submissions /\ v.clicks = ui.clicks
      BY <2>2, <2>3, Zenon DEF SameCounts, RunCounts
    <2>5. /\ RunCounts \subseteq DOMAIN ui' /\ ui'.polls = ui.polls - 1
          /\ ui'.submissions = ui.submissions /\ ui'.clicks = ui.clicks
      <3>1. OnlyTimer(v, ui')
        BY <2>1, <2>4, NextPollCounts, Zenon
      <3> QED
        BY <2>4, <3>1 DEF OnlyTimer
    <2>6. ui.polls > 0
      BY <2>1
    <2> QED
      BY <1>0, <2>5, <2>6, PacedBy
  <1>8. CASE Runs!TimerFires
    <2>1. /\ RunCounts \subseteq DOMAIN ui' /\ ui'.polls = ui.polls + 1 /\ ui'.timer = Runs!Never
          /\ ui'.submissions = ui.submissions /\ ui'.clicks = ui.clicks
      BY <1>0, <1>8, Zenon DEF RunCounts, Runs!TimerFires, Runs!poll
    <2>2. armed(ui.timer) = 1
      BY <1>8 DEF armed, Runs!TimerFires
    <2> QED
      BY <1>0, <2>1, <2>2, PacedBy
  <1>9. CASE Runs!SubmissionSucceeds
    <2> DEFINE u == [ui EXCEPT !.submissions = @ - 1]
               v == Runs!setupNextPoll(u, FALSE, TRUE)
    <2>1. ui' = Runs!onSubmitSuccess(v) /\ ui.submissions > 0
      BY <1>9 DEF Runs!SubmissionSucceeds, Runs!onAddRun
    <2>2. /\ RunCounts \subseteq DOMAIN u /\ u.polls = ui.polls
          /\ u.submissions = ui.submissions - 1 /\ u.clicks = ui.clicks
      BY <1>0, Zenon DEF RunCounts
    <2> HIDE DEF u
    <2>3. /\ RunCounts \subseteq DOMAIN v /\ v.polls = ui.polls
          /\ v.submissions = ui.submissions - 1 /\ v.clicks = ui.clicks
      <3>1. OnlyTimer(u, v)
        BY <2>2, NextPollCounts, Zenon
      <3> HIDE DEF v
      <3> QED
        BY <2>2, <3>1 DEF OnlyTimer
    <2> HIDE DEF v
    <2>4. SameCounts(v, ui')
      BY <2>1, <2>3, StoreKeepsCounts
    <2>5. /\ RunCounts \subseteq DOMAIN ui' /\ ui'.polls = ui.polls
          /\ ui'.submissions = ui.submissions - 1 /\ ui'.clicks = ui.clicks
      BY <2>3, <2>4, Zenon DEF SameCounts, RunCounts
    <2> QED
      BY <1>0, <2>1, <2>5, PacedBy
  <1>10. CASE Runs!SubmissionFails
    <2> DEFINE u == [ui EXCEPT !.submissions = @ - 1]
               f == Runs!failed(u)
    <2>1. ui' = Runs!onSubmitFailure(f) /\ ui.submissions > 0
      BY <1>10 DEF Runs!SubmissionFails
    <2>2. /\ RunCounts \subseteq DOMAIN f /\ f.polls = ui.polls /\ f.timer = ui.timer
          /\ f.submissions = ui.submissions - 1 /\ f.clicks = ui.clicks
      BY <1>0, Zenon DEF RunCounts, Runs!failed
    <2> HIDE DEF f
    <2>3. SameCounts(f, ui')
      BY <2>1, <2>2, StoreKeepsCounts
    <2>4. /\ RunCounts \subseteq DOMAIN ui' /\ ui'.polls = ui.polls /\ ui'.timer = ui.timer
          /\ ui'.submissions = ui.submissions - 1 /\ ui'.clicks = ui.clicks
      BY <2>2, <2>3, Zenon DEF SameCounts, RunCounts
    <2> QED
      BY <1>0, <2>1, <2>4, PacedBy
  <1> QED
    BY <1>1, <1>2, <1>3, <1>4, <1>5, <1>6, <1>7, <1>8, <1>9, <1>10

\* No step opens an empty dialog or changes the text of an open one.
LEMMA RunsStepTold ==
    ASSUME Paced(ui), Told(ui), Runs!Next
    PROVE  Told(ui') /\ Runs!DialogKept
  <1> USE DEF Runs!Next, Runs!User, Runs!Browser
  <1>0. RunCounts \subseteq DOMAIN ui /\ DialogText \subseteq DOMAIN ui
    BY DEF Paced, Told
  <1>a. ASSUME StaysTold(ui, ui') PROVE Told(ui') /\ Runs!DialogKept
    BY <1>a, Zenon DEF StaysTold, Runs!DialogKept
  <1>b. ASSUME NEW u, SameText(ui, u), NEW v, StaysTold(u, v) PROVE StaysTold(ui, v)
    BY <1>b, SameTextTold, StaysToldTwice
  <1>1. CASE Runs!WentOnline \/ Runs!WentOffline \/ Runs!handleRun \/ Runs!ButtonTimerFires
              \/ Runs!TimerFires
    <2>1. SameText(ui, ui')
      <3> USE <1>0 DEF SameText, DialogText, Runs!acted
      <3>1. CASE Runs!WentOnline
        BY <3>1, Zenon DEF Runs!WentOnline, Runs!onConnect, Runs!onDisconnect, Runs!poll
      <3>2. CASE Runs!WentOffline
        BY <3>2, Zenon DEF Runs!WentOffline, Runs!onDisconnect
      <3>3. CASE Runs!handleRun
        BY <3>3, Zenon DEF Runs!handleRun
      <3>4. CASE Runs!ButtonTimerFires
        BY <3>4, Zenon DEF Runs!ButtonTimerFires
      <3>5. CASE Runs!TimerFires
        BY <3>5, Zenon DEF Runs!TimerFires, Runs!poll
      <3> QED
        BY <1>1, <3>1, <3>2, <3>3, <3>4, <3>5
    <2> QED
      BY <1>a, <2>1, SameTextTold
  <1>2. CASE Runs!closeErrorDialog
    <2> DEFINE v == [ui EXCEPT !.pollingFailureCount = 0, !.lastSubmissionResult = 0,
                               !.lastPollingError = 0]
    <2>1. ui.errorDialog /\ ui' = [Runs!errorHandler(v) EXCEPT !.shownSubmission = 0,
                                       !.shownPolling = 0, !.errorDialog = FALSE]
      BY <1>2, Zenon DEF Runs!closeErrorDialog, Runs!onClear
    <2>2. v.errorDialog = ui.errorDialog /\ DialogText \subseteq DOMAIN v
      BY <1>0, Zenon DEF DialogText
    <2> HIDE DEF v
    <2>3. Runs!errorHandler(v) = v
      BY <2>1, <2>2, Zenon DEF Runs!errorHandler
    <2>4. ui'.errorDialog = FALSE /\ DialogText \subseteq DOMAIN ui'
      BY <2>1, <2>2, <2>3, Zenon DEF DialogText
    <2> QED
      BY <2>4, Zenon DEF Told, Runs!DialogKept
  <1>3. CASE Runs!PollSucceeds
    <2> DEFINE u == [ui EXCEPT !.polls = @ - 1]
    <2>1. PICK anyRunning \in BOOLEAN :
              ui' = Runs!setupNextPoll(Runs!onAddMultipleRuns(u, anyRunning), FALSE, FALSE)
      BY <1>3, Zenon DEF Runs!PollSucceeds
    <2> DEFINE v == Runs!onAddMultipleRuns(u, anyRunning)
    <2>2. RunCounts \subseteq DOMAIN v /\ SameText(ui, v)
      BY <1>0, Zenon DEF RunCounts, SameText, DialogText, Runs!onAddMultipleRuns
    <2> HIDE DEF v
    <2>3. SameText(v, ui')
      <3>1. OnlyTimer(v, ui')
        BY <2>1, <2>2, NextPollCounts, Zenon DEF v
      <3> QED
        BY <2>2, <3>1 DEF OnlyTimer, SameText
    <2> QED
      BY <1>a, <1>b, <2>2, <2>3, SameTextTold
  <1>4. CASE Runs!PollFails
    <2> DEFINE u == [ui EXCEPT !.polls = @ - 1]
               f == Runs!failed(u)
               v == Runs!onPollingFailure(f)
    <2>1. ui' = Runs!setupNextPoll(v, TRUE, FALSE)
      BY <1>4, Zenon DEF Runs!PollFails
    <2>2. RunCounts \subseteq DOMAIN f /\ DialogText \subseteq DOMAIN f /\ SameText(ui, f)
      BY <1>0, Zenon DEF RunCounts, SameText, DialogText, Runs!failed
    <2> HIDE DEF f
    <2>3. SameCounts(f, v) /\ StaysTold(f, v)
      BY <2>2, StoreKeepsCounts, StoreKeepsText
    <2> HIDE DEF v
    <2>4. SameText(v, ui')
      <3>1. OnlyTimer(v, ui')
        BY <2>1, <2>3, NextPollCounts, Zenon DEF SameCounts
      <3> QED
        BY <2>3, <3>1 DEF OnlyTimer, StaysTold
    <2> QED
      BY <1>a, <1>b, <2>2, <2>3, <2>4, SameTextTold, StaysToldTwice
  <1>5. CASE Runs!SubmissionSucceeds
    <2> DEFINE u == [ui EXCEPT !.submissions = @ - 1]
               v == Runs!setupNextPoll(u, FALSE, TRUE)
    <2>1. ui' = Runs!onSubmitSuccess(v)
      BY <1>5 DEF Runs!SubmissionSucceeds, Runs!onAddRun
    <2>2. RunCounts \subseteq DOMAIN u /\ DialogText \subseteq DOMAIN u /\ SameText(ui, u)
      BY <1>0, Zenon DEF RunCounts, SameText, DialogText
    <2> HIDE DEF u
    <2>3. SameText(u, v)
      BY <2>2, NextPollCounts, Zenon DEF OnlyTimer
    <2> HIDE DEF v
    <2>4. StaysTold(v, ui')
      BY <2>1, <2>3, StoreKeepsText DEF SameText
    <2> QED
      BY <1>a, <1>b, <2>2, <2>3, <2>4, SameTextTold, StaysToldTwice
  <1>6. CASE Runs!SubmissionFails
    <2> DEFINE f == Runs!failed([ui EXCEPT !.submissions = @ - 1])
    <2>1. ui' = Runs!onSubmitFailure(f)
      BY <1>6 DEF Runs!SubmissionFails
    <2>2. DialogText \subseteq DOMAIN f /\ SameText(ui, f)
      BY <1>0, Zenon DEF SameText, DialogText, Runs!failed
    <2> HIDE DEF f
    <2> QED
      BY <1>a, <1>b, <2>1, <2>2, StoreKeepsText
  <1> QED
    BY <1>1, <1>2, <1>3, <1>4, <1>5, <1>6

-----------------------------------------------------------------------------
(* The query monitor.  Its timer is cleared only by the refresh that sends a request, and *)
(* a request leaves only with an answer or a failure, which arm the timer.                *)

PollFields == {"timer", "requests"}

MonitorAlive(u) ==
    PollFields \subseteq DOMAIN u /\ (u.timer \/ DOMAIN u.requests # {})

\* refreshData leaves a request on its way.
LEMMA MonitorSends ==
    ASSUME NEW u, PollFields \subseteq DOMAIN u
    PROVE  MonitorAlive(Monitor!refreshData(u))
  BY DEF MonitorAlive, PollFields, Monitor!refreshData, Monitor!with

\* A component that has the fields of another, and its timer and requests.
SamePolling(u, v) ==
    PollFields \subseteq DOMAIN v /\ v.timer = u.timer /\ v.requests = u.requests

\* The monitor opens with a request or a timer.
LEMMA MonitorStart == ASSUME Monitor!Init PROVE MonitorAlive(ui)
  <1>1. ui = Monitor!refreshData([Monitor!constructor EXCEPT !.timer = FALSE])
    BY DEF Monitor!Init, Monitor!refreshLoop
  <1>2. PollFields \subseteq DOMAIN [Monitor!constructor EXCEPT !.timer = FALSE]
    BY Zenon DEF PollFields, Monitor!constructor
  <1> QED
    BY <1>1, <1>2, MonitorSends

\* Every step of the monitor leaves it a request or a timer.
LEMMA MonitorStep ==
    ASSUME MonitorAlive(ui), Monitor!Next
    PROVE  MonitorAlive(ui')
  <1> USE DEF Monitor!Next
  <1>1. CASE Monitor!User
    <2> USE DEF MonitorAlive, SamePolling, PollFields, Monitor!clicked, Monitor!defer
    <2>1. SamePolling(ui, ui')
      <3>1. ASSUME NEW filter, Monitor!handleStateFilterClick(filter) PROVE SamePolling(ui, ui')
        BY <3>1, Zenon DEF Monitor!handleStateFilterClick
      <3>2. ASSUME NEW type, Monitor!handleErrorTypeFilterClick(type) PROVE SamePolling(ui, ui')
        BY <3>2, Zenon DEF Monitor!handleErrorTypeFilterClick
      <3>3. ASSUME NEW type, Monitor!handleSortClick(type) PROVE SamePolling(ui, ui')
        BY <3>3, Zenon DEF Monitor!handleSortClick
      <3>4. ASSUME NEW text, Monitor!handleSearchStringChange(text) PROVE SamePolling(ui, ui')
        BY <3>4, Zenon DEF Monitor!handleSearchStringChange
      <3>5. ASSUME NEW page, Monitor!onPageChange(page) PROVE SamePolling(ui, ui')
        BY <3>5, Zenon DEF Monitor!onPageChange
      <3>6. ASSUME NEW size, Monitor!onPageSizeChange(size) PROVE SamePolling(ui, ui')
        BY <3>6, Zenon DEF Monitor!onPageSizeChange
      <3> QED
        BY <1>1, <3>1, <3>2, <3>3, <3>4, <3>5, <3>6, Zenon DEF Monitor!User
    <2> QED
      BY <2>1
  <1>2. CASE Monitor!TimerFires
    <2>1. PollFields \subseteq DOMAIN [ui EXCEPT !.timer = FALSE]
      BY DEF MonitorAlive
    <2> QED
      BY <1>2, <2>1, MonitorSends, Zenon DEF Monitor!TimerFires, Monitor!refreshLoop
  <1>3. CASE Monitor!DebounceFires
    BY <1>3, Zenon DEF Monitor!DebounceFires, Monitor!defer, MonitorAlive, PollFields
  <1>4. CASE Monitor!DeferredRefresh
    <2>1. PollFields \subseteq DOMAIN [ui EXCEPT !.deferred = @ - 1]
      BY DEF MonitorAlive
    <2> QED
      BY <1>4, <2>1, MonitorSends, Zenon DEF Monitor!DeferredRefresh
  <1>5. CASE Monitor!AnyAnswer
    <2>1. PICK request : Monitor!AnswerArrives(request) \/ Monitor!RequestFails(request)
      BY <1>5, Zenon DEF Monitor!AnyAnswer
    <2>2. CASE Monitor!AnswerArrives(request)
      BY <2>2, Zenon DEF Monitor!AnswerArrives, Monitor!resetTimer, Monitor!answered,
                         MonitorAlive, PollFields
    <2>3. CASE Monitor!RequestFails(request)
      BY <2>3, Zenon DEF Monitor!RequestFails, Monitor!resetTimer, Monitor!answered,
                         MonitorAlive, PollFields
    <2> QED
      BY <2>1, <2>2, <2>3
  <1>6. CASE Monitor!QueriesChange
    BY <1>6 DEF Monitor!QueriesChange, MonitorAlive
  <1> QED
    BY <1>1, <1>2, <1>3, <1>4, <1>5, <1>6 DEF Monitor!Browser

-----------------------------------------------------------------------------
(* Counting.  The copies of a request in a pool are numbered, so that one more request is *)
(* one more token; the theorems about finite sets then count the tokens.                  *)

Tokens(pool) == UNION {{e} \X (1..pool[e]) : e \in DOMAIN pool}
IsPool(pool) == /\ \A e \in DOMAIN pool : pool[e] \in Nat \ {0}
                /\ IsFiniteSet(Tokens(pool))

INSTANCE FiniteSetTheorems

\* The module of the page counts as the library does.
LEMMA SameCardinality == \A S : Monitor!Cardinality(S) = Cardinality(S)
  BY Zenon DEF Monitor!Cardinality, Cardinality

\* A pool counts as many as it has tokens.
LEMMA CountsTokens ==
    ASSUME NEW pool PROVE Monitor!countAll(pool) = Cardinality(Tokens(pool))
  BY SameCardinality DEF Monitor!countAll, Tokens

\* The tokens of a pool are its entries, numbered.
LEMMA TokensOf ==
    ASSUME NEW pool, NEW t
    PROVE  t \in Tokens(pool) <=> \E e \in DOMAIN pool : \E n \in 1..pool[e] : t = <<e, n>>
  BY DEF Tokens

\* One more request is one more token.
LEMMA OneMore ==
    ASSUME NEW pool, IsPool(pool), NEW e
    PROVE  /\ IsPool(Monitor!with(pool, e))
           /\ Monitor!countAll(Monitor!with(pool, e)) = Monitor!countAll(pool) + 1
           /\ Monitor!countAll(pool) \in Nat
  <1> DEFINE p == Monitor!with(pool, e)
             n == Monitor!copies(pool, e) + 1
  <1>1. n \in Nat \ {0} /\ (e \in DOMAIN pool => n = pool[e] + 1) /\ (e \notin DOMAIN pool => n = 1)
    BY DEF IsPool, Monitor!copies
  <1>2. DOMAIN p = DOMAIN pool \cup {e}
    BY DEF Monitor!with
  <1>3. p[e] = n /\ \A x \in DOMAIN pool \ {e} : p[x] = pool[x]
    BY DEF IsPool, Monitor!with, Monitor!copies
  <1> HIDE DEF p, n
  <1>4. <<e, n>> \notin Tokens(pool)
    BY <1>1, TokensOf DEF IsPool
  <1>5. Tokens(p) = Tokens(pool) \cup {<<e, n>>}
    <2>1. ASSUME NEW t \in Tokens(p) PROVE t \in Tokens(pool) \cup {<<e, n>>}
      <3>0. PICK x \in DOMAIN p : \E k \in 1..p[x] : t = <<x, k>>
        BY TokensOf
      <3>1. PICK k \in 1..p[x] : t = <<x, k>>
        BY <3>0
      <3>2. CASE x # e
        BY <1>2, <1>3, <3>1, <3>2, TokensOf
      <3>3. CASE x = e /\ k = n
        BY <3>1, <3>3
      <3>4. CASE x = e /\ k # n
        <4>1. k \in 1..(n - 1) /\ e \in DOMAIN pool /\ pool[e] = n - 1
          BY <1>1, <1>3, <3>1, <3>4 DEF IsPool
        <4> QED
          BY <3>1, <3>4, <4>1, TokensOf
      <3> QED
        BY <3>2, <3>3, <3>4
    <2>2. ASSUME NEW t \in Tokens(pool) PROVE t \in Tokens(p)
      <3>0. PICK x \in DOMAIN pool : \E k \in 1..pool[x] : t = <<x, k>>
        BY TokensOf
      <3>1. PICK k \in 1..pool[x] : t = <<x, k>>
        BY <3>0
      <3>2. x \in DOMAIN p /\ k \in 1..p[x]
        BY <1>1, <1>2, <1>3, <3>1 DEF IsPool
      <3> QED
        BY <3>1, <3>2, TokensOf, Zenon
    <2>3. <<e, n>> \in Tokens(p)
      <3>1. e \in DOMAIN p /\ n \in 1..p[e]
        BY <1>1, <1>2, <1>3
      <3> QED
        BY <3>1, TokensOf, Zenon
    <2> QED
      BY <2>1, <2>2, <2>3
  <1>6. IsPool(p)
    <2>1. \A x \in DOMAIN p : p[x] \in Nat \ {0}
      BY <1>1, <1>2, <1>3 DEF IsPool
    <2>2. IsFiniteSet(Tokens(p))
      BY <1>5, FS_AddElement DEF IsPool
    <2> QED
      BY <2>1, <2>2 DEF IsPool
  <1>7. Cardinality(Tokens(p)) = Cardinality(Tokens(pool)) + 1 /\ Cardinality(Tokens(pool)) \in Nat
    <2>1. IsFiniteSet(Tokens(pool))
      BY DEF IsPool
    <2> QED
      BY <1>4, <1>5, <2>1, FS_AddElement, FS_CardinalityType, Zenon
  <1> QED
    BY <1>6, <1>7, CountsTokens DEF p

\* One request less is one token less.
LEMMA OneFewer ==
    ASSUME NEW pool, IsPool(pool), NEW e \in DOMAIN pool
    PROVE  /\ IsPool(Monitor!without(pool, e))
           /\ Monitor!countAll(Monitor!without(pool, e)) = Monitor!countAll(pool) - 1
           /\ Monitor!countAll(pool) \in Nat
           /\ Monitor!countAll(pool) - 1 \in Nat
  <1> DEFINE p == Monitor!without(pool, e)
             n == pool[e]
  <1>1. n \in Nat \ {0} /\ Monitor!copies(pool, e) = n
    BY DEF IsPool, Monitor!copies
  <1>2. DOMAIN p = IF n <= 1 THEN DOMAIN pool \ {e} ELSE DOMAIN pool
    BY <1>1, Zenon DEF Monitor!without
  <1>3. \A x \in DOMAIN p : p[x] = IF x = e THEN n - 1 ELSE pool[x]
    BY <1>2, <1>1, Zenon DEF Monitor!without
  <1> HIDE DEF p, n
  <1>4. <<e, n>> \in Tokens(pool)
    <2>1. n \in 1..pool[e]
      BY <1>1 DEF n
    <2> QED
      BY <2>1, TokensOf, Zenon
  <1>5. Tokens(p) = Tokens(pool) \ {<<e, n>>}
    <2>1. ASSUME NEW t \in Tokens(p) PROVE t \in Tokens(pool) \ {<<e, n>>}
      <3>0. PICK x \in DOMAIN p : \E k \in 1..p[x] : t = <<x, k>>
        BY TokensOf
      <3>1. PICK k \in 1..p[x] : t = <<x, k>>
        BY <3>0
      <3>2. x \in DOMAIN pool /\ k \in 1..pool[x] /\ (x = e => k # n)
        BY <1>1, <1>2, <1>3, <3>1 DEF n, IsPool
      <3>3. t \in Tokens(pool)
        BY <3>1, <3>2, TokensOf, Zenon
      <3> QED
        BY <3>1, <3>2, <3>3
    <2>2. ASSUME NEW t \in Tokens(pool) \ {<<e, n>>} PROVE t \in Tokens(p)
      <3>0. PICK x \in DOMAIN pool : \E k \in 1..pool[x] : t = <<x, k>>
        BY TokensOf
      <3>1. PICK k \in 1..pool[x] : t = <<x, k>>
        BY <3>0
      <3>2. x = e => k # n
        BY <2>2, <3>1
      <3>3. x \in DOMAIN p
        BY <1>1, <1>2, <3>1, <3>2 DEF n
      <3>4. k \in 1..p[x]
        BY <1>1, <1>3, <3>1, <3>2, <3>3 DEF n, IsPool
      <3> QED
        BY <3>1, <3>3, <3>4, TokensOf, Zenon
    <2> QED
      BY <2>1, <2>2
  <1>6. IsPool(p)
    <2>1. \A x \in DOMAIN p : p[x] \in Nat \ {0}
      BY <1>1, <1>2, <1>3 DEF IsPool
    <2>2. IsFiniteSet(Tokens(pool))
      BY DEF IsPool
    <2>3. IsFiniteSet(Tokens(pool) \ {<<e, n>>})
      BY <2>2, FS_RemoveElement, Zenon
    <2> QED
      BY <1>5, <2>1, <2>3 DEF IsPool
  <1>7. /\ Cardinality(Tokens(p)) = Cardinality(Tokens(pool)) - 1 /\ Cardinality(Tokens(pool)) \in Nat
        /\ Cardinality(Tokens(p)) \in Nat
    <2>1. IsFiniteSet(Tokens(pool)) /\ IsFiniteSet(Tokens(p))
      BY <1>6 DEF IsPool
    <2> QED
      BY <1>4, <1>5, <2>1, FS_RemoveElement, FS_CardinalityType
  <1> QED
    BY <1>6, <1>7, CountsTokens DEF p

\* The empty pool counts zero.
LEMMA NoneYet == IsPool(Monitor!emptyPool) /\ Monitor!countAll(Monitor!emptyPool) = 0
  <1>1. DOMAIN Monitor!emptyPool = {}
    BY DEF Monitor!emptyPool
  <1>2. Tokens(Monitor!emptyPool) = {}
    BY <1>1 DEF Tokens
  <1> QED
    BY <1>1, <1>2, FS_EmptySet, CountsTokens DEF IsPool

-----------------------------------------------------------------------------
(* The query monitor again: how many requests there may be, and its menus *)

CountFields == {"timer", "debounce", "deferred", "requests", "clicks"}
MenuFields == {"stateFilters", "errorTypeFilters", "stateSelectAll", "errorSelectAll"}

one(b) == IF b THEN 1 ELSE 0

MonitorPaced(u) ==
    /\ CountFields \subseteq DOMAIN u
    /\ IsPool(u.requests) /\ u.deferred \in Nat /\ u.clicks \in Nat
    /\ u.timer \in BOOLEAN /\ u.debounce \in BOOLEAN
    /\ Monitor!countAll(u.requests) + u.deferred + one(u.timer) + one(u.debounce) <= 1 + u.clicks

\* The mark of "Select All" for the filters chosen from a menu.
Marked(all, chosen, selectAll) ==
    chosen \in SUBSET all /\ selectAll \in BOOLEAN /\ (selectAll <=> chosen = all)

MonitorMarks(u) ==
    /\ MenuFields \subseteq DOMAIN u
    /\ Marked(FilterType, u.stateFilters, u.stateSelectAll)
    /\ Marked(ErrorType, u.errorTypeFilters, u.errorSelectAll)

SameCount(u, v) == CountFields \subseteq DOMAIN v /\ \A f \in CountFields : v[f] = u[f]
SameMenus(u, v) == MenuFields \subseteq DOMAIN v /\ \A f \in MenuFields : v[f] = u[f]

\* States that agree on the menus mark them together.
LEMMA SameMenusMarked ==
    ASSUME NEW u, NEW v, SameMenus(u, v), MonitorMarks(u)
    PROVE  MonitorMarks(v)
  BY DEF SameMenus, MonitorMarks, MenuFields

\* The mark of a menu is right when it says whether all is chosen.
LEMMA MarkRight ==
    ASSUME NEW all, NEW chosen \in SUBSET all
    PROVE  /\ chosen = all => Marked(all, chosen, TRUE)
           /\ chosen # all => Marked(all, chosen, FALSE)
  BY DEF Marked

\* The record of a click's outcome, with the mark as a truth value.
LEMMA Outcome ==
    ASSUME NEW filters, NEW mark \in BOOLEAN, NEW new, new = [filters |-> filters, all |-> mark]
    PROVE  new.filters = filters /\ new.all = mark
  OBVIOUS

\* A click at a filter or at "Select All" leaves the mark right.
LEMMA ToggledMarks ==
    ASSUME NEW all, IsFiniteSet(all), all # {}, NEW chosen, NEW selectAll,
           Marked(all, chosen, selectAll), NEW filter \in all \cup {Monitor!SELECT_ALL},
           NEW new, new = Monitor!toggled(all, chosen, selectAll, filter)
    PROVE  Marked(all, new.filters, new.all)
  <1>0. chosen \in SUBSET all /\ selectAll \in BOOLEAN
    BY DEF Marked
  <1>1. CASE filter = Monitor!SELECT_ALL
    <2>1. new = [filters |-> IF selectAll THEN {} ELSE all, all |-> ~selectAll]
      BY <1>1, Zenon DEF Monitor!toggled
    <2>2. new.filters = (IF selectAll THEN {} ELSE all) /\ new.all = ~selectAll
      BY <2>1, Outcome, Zenon
    <2>3. CASE selectAll = TRUE
      <3>1. new.filters = {} /\ new.all = FALSE
        BY <2>2, <2>3, Zenon
      <3> QED
        BY <3>1, MarkRight, Zenon
    <2>4. CASE selectAll = FALSE
      <3>1. new.filters = all /\ new.all = TRUE
        BY <2>2, <2>4, Zenon
      <3> QED
        BY <3>1, MarkRight, Zenon
    <2> QED
      BY <1>0, <2>3, <2>4, Zenon
  <1>2. CASE filter # Monitor!SELECT_ALL
    <2> DEFINE set == IF filter \in chosen THEN chosen \ {filter} ELSE chosen \cup {filter}
               mark == Cardinality(set) = Cardinality(all)
    <2>1. new = [filters |-> set, all |-> mark]
      BY <1>2, SameCardinality, Zenon DEF Monitor!toggled
    <2>2. set \in SUBSET all
      BY <1>0, <1>2
    <2> HIDE DEF set
    <2>3. mark <=> set = all
      BY <2>2, FS_Subset, Zenon
    <2>4. mark \in BOOLEAN
      OBVIOUS
    <2> HIDE DEF mark
    <2>5. new.filters = set /\ new.all = mark
      BY <2>1, <2>4, Outcome
    <2>6. (mark = TRUE /\ set = all) \/ (mark = FALSE /\ set # all)
      BY <2>3, <2>4
    <2> QED
      BY <2>2, <2>5, <2>6, MarkRight, Zenon
  <1> QED
    BY <1>1, <1>2

\* refreshData adds one request and nothing else.
SendsOne(u, v) ==
    /\ CountFields \subseteq DOMAIN v
    /\ \E request : v.requests = Monitor!with(u.requests, request)
    /\ v.timer = u.timer /\ v.debounce = u.debounce /\ v.deferred = u.deferred /\ v.clicks = u.clicks

\* refreshData sends one request and leaves the menus alone.
LEMMA RefreshSendsOne ==
    ASSUME NEW u, CountFields \subseteq DOMAIN u
    PROVE  /\ SendsOne(u, Monitor!refreshData(u))
           /\ MenuFields \subseteq DOMAIN u => SameMenus(u, Monitor!refreshData(u))
  BY Zenon DEF SendsOne, CountFields, MenuFields, SameMenus, Monitor!refreshData

\* What a step adds to the requests and to what leads to one is paid for by a click.
LEMMA MonitorPacedBy ==
    ASSUME MonitorPaced(ui), NEW u, CountFields \subseteq DOMAIN u, IsPool(u.requests),
           u.deferred \in Nat, u.clicks \in Nat, u.timer \in BOOLEAN, u.debounce \in BOOLEAN,
           Monitor!countAll(u.requests) \in Nat, Monitor!countAll(ui.requests) \in Nat,
           Monitor!countAll(u.requests) + u.deferred + one(u.timer) + one(u.debounce)
               <= Monitor!countAll(ui.requests) + ui.deferred + one(ui.timer) + one(ui.debounce)
                  + u.clicks - ui.clicks
    PROVE  MonitorPaced(u)
  <1>1. one(u.timer) \in Nat /\ one(ui.timer) \in Nat /\ one(u.debounce) \in Nat /\ one(ui.debounce) \in Nat
    BY DEF one
  <1> QED
    BY <1>1 DEF MonitorPaced

\* The monitor opens with one request and its menus marked.
LEMMA MonitorStartPaced == ASSUME Monitor!Init PROVE MonitorPaced(ui) /\ MonitorMarks(ui)
  <1> DEFINE c == [Monitor!constructor EXCEPT !.timer = FALSE]
  <1>1. ui = Monitor!refreshData(c)
    BY DEF Monitor!Init, Monitor!refreshLoop
  <1>2. /\ CountFields \subseteq DOMAIN c /\ MenuFields \subseteq DOMAIN c
        /\ c.timer = FALSE /\ c.debounce = FALSE /\ c.deferred = 0 /\ c.clicks = 0
        /\ c.requests = Monitor!emptyPool
        /\ c.stateFilters = FilterType /\ c.errorTypeFilters = ErrorType
        /\ c.stateSelectAll = TRUE /\ c.errorSelectAll = TRUE
    BY Zenon DEF CountFields, MenuFields, Monitor!constructor
  <1> HIDE DEF c
  <1>3. SendsOne(c, ui) /\ SameMenus(c, ui)
    BY <1>1, <1>2, RefreshSendsOne
  <1>4. PICK request : ui.requests = Monitor!with(Monitor!emptyPool, request)
    BY <1>2, <1>3, Zenon DEF SendsOne
  <1>5. IsPool(ui.requests) /\ Monitor!countAll(ui.requests) = 0 + 1
    BY <1>4, NoneYet, OneMore
  <1>6. /\ CountFields \subseteq DOMAIN ui
        /\ ui.timer = FALSE /\ ui.debounce = FALSE /\ ui.deferred = 0 /\ ui.clicks = 0
    BY <1>2, <1>3, Zenon DEF SendsOne
  <1>7. MonitorPaced(ui)
    <2>1. one(ui.timer) = 0 /\ one(ui.debounce) = 0 /\ ui.timer \in BOOLEAN /\ ui.debounce \in BOOLEAN
      BY <1>6, Zenon DEF one
    <2> QED
      BY <1>5, <1>6, <2>1 DEF MonitorPaced
  <1>8. MonitorMarks(c)
    BY <1>2, MarkRight, Zenon DEF MonitorMarks
  <1> QED
    BY <1>3, <1>7, <1>8, SameMenusMarked

\* No step multiplies the requests.
LEMMA MonitorStepPaced ==
    ASSUME MonitorPaced(ui), Monitor!Next
    PROVE  MonitorPaced(ui')
  <1> USE DEF Monitor!Next
  <1>0. /\ CountFields \subseteq DOMAIN ui /\ IsPool(ui.requests)
        /\ ui.deferred \in Nat /\ ui.clicks \in Nat /\ ui.timer \in BOOLEAN /\ ui.debounce \in BOOLEAN
        /\ one(ui.timer) \in 0..1 /\ one(ui.debounce) \in 0..1 /\ one(TRUE) = 1 /\ one(FALSE) = 0
    BY DEF MonitorPaced, one
  <1>n. Monitor!countAll(ui.requests) \in Nat
    BY <1>0, OneMore
  <1> DEFINE Clicked == /\ CountFields \subseteq DOMAIN ui' /\ ui'.requests = ui.requests
                        /\ ui'.timer = ui.timer /\ ui'.clicks = ui.clicks + 1
                        /\ \/ ui'.deferred = ui.deferred + 1 /\ ui'.debounce = ui.debounce
                           \/ ui'.deferred = ui.deferred /\ ui'.debounce = TRUE
  <1>1. CASE Monitor!User
    <2> USE <1>0 DEF CountFields, Monitor!clicked, Monitor!defer
    <2>1. Clicked
      <3>1. ASSUME NEW filter, Monitor!handleStateFilterClick(filter) PROVE Clicked
        BY <3>1, Zenon DEF Monitor!handleStateFilterClick
      <3>2. ASSUME NEW type, Monitor!handleErrorTypeFilterClick(type) PROVE Clicked
        BY <3>2, Zenon DEF Monitor!handleErrorTypeFilterClick
      <3>3. ASSUME NEW type, Monitor!handleSortClick(type) PROVE Clicked
        BY <3>3, Zenon DEF Monitor!handleSortClick
      <3>4. ASSUME NEW text, Monitor!handleSearchStringChange(text) PROVE Clicked
        BY <3>4, Zenon DEF Monitor!handleSearchStringChange
      <3>5. ASSUME NEW page, Monitor!onPageChange(page) PROVE Clicked
        BY <3>5, Zenon DEF Monitor!onPageChange
      <3>6. ASSUME NEW size, Monitor!onPageSizeChange(size) PROVE Clicked
        BY <3>6, Zenon DEF Monitor!onPageSizeChange
      <3> QED
        BY <1>1, <3>1, <3>2, <3>3, <3>4, <3>5, <3>6, Zenon DEF Monitor!User
    <2>2. ui'.timer \in BOOLEAN /\ ui'.debounce \in BOOLEAN /\ one(ui'.timer) = one(ui.timer)
          /\ (ui'.debounce = ui.debounce => one(ui'.debounce) = one(ui.debounce))
          /\ (ui'.debounce = TRUE => one(ui'.debounce) = 1)
      BY <2>1, Zenon
    <2>3. ui'.deferred \in Nat /\ ui'.clicks \in Nat
          /\ Monitor!countAll(ui'.requests) + ui'.deferred + one(ui'.timer) + one(ui'.debounce)
               <= Monitor!countAll(ui.requests) + ui.deferred + one(ui.timer) + one(ui.debounce)
                  + ui'.clicks - ui.clicks
      BY <1>n, <2>1, <2>2
    <2> QED
      BY <1>n, <2>1, <2>2, <2>3, MonitorPacedBy, Zenon
  <1>2. ASSUME NEW u, CountFields \subseteq DOMAIN u, u.requests = ui.requests, u.clicks = ui.clicks,
               u.timer \in BOOLEAN, u.debounce = ui.debounce, u.deferred \in Nat,
               u.deferred + one(u.timer) + 1 <= ui.deferred + one(ui.timer),
               ui' = Monitor!refreshData(u)
        PROVE  MonitorPaced(ui')
    <2>1. SendsOne(u, ui')
      BY <1>2, RefreshSendsOne
    <2>2. PICK request : ui'.requests = Monitor!with(ui.requests, request)
      BY <1>2, <2>1, Zenon DEF SendsOne
    <2>3. IsPool(ui'.requests) /\ Monitor!countAll(ui'.requests) = Monitor!countAll(ui.requests) + 1
      BY <1>0, <2>2, OneMore
    <2>4. /\ CountFields \subseteq DOMAIN ui' /\ ui'.timer = u.timer /\ ui'.debounce = ui.debounce
          /\ ui'.deferred = u.deferred /\ ui'.clicks = ui.clicks
      BY <1>2, <2>1, Zenon DEF SendsOne
    <2>5. one(u.timer) \in 0..1
      BY DEF one
    <2> QED
      BY <1>0, <1>n, <1>2, <2>3, <2>4, <2>5, MonitorPacedBy
  <1>3. CASE Monitor!TimerFires
    <2> DEFINE u == [ui EXCEPT !.timer = FALSE]
    <2>1. ui.timer /\ ui' = Monitor!refreshData(u)
      BY <1>3, Zenon DEF Monitor!TimerFires, Monitor!refreshLoop
    <2>2. /\ CountFields \subseteq DOMAIN u /\ u.requests = ui.requests /\ u.clicks = ui.clicks
          /\ u.timer = FALSE /\ u.debounce = ui.debounce /\ u.deferred = ui.deferred
      BY <1>0, Zenon DEF CountFields
    <2> HIDE DEF u
    <2>3. one(ui.timer) = 1 /\ one(u.timer) = 0
      BY <2>1, <2>2 DEF one
    <2>4. u.deferred + one(u.timer) + 1 <= ui.deferred + one(ui.timer) /\ u.deferred \in Nat
      BY <1>0, <2>2, <2>3
    <2>5. u.timer \in BOOLEAN
      BY <2>2, Zenon
    <2> QED
      BY <1>2, <2>1, <2>2, <2>4, <2>5, Zenon
  <1>4. CASE Monitor!DeferredRefresh
    <2> DEFINE u == [ui EXCEPT !.deferred = @ - 1]
    <2>1. ui.deferred > 0 /\ ui' = Monitor!refreshData(u)
      BY <1>4, Zenon DEF Monitor!DeferredRefresh
    <2>2. /\ CountFields \subseteq DOMAIN u /\ u.requests = ui.requests /\ u.clicks = ui.clicks
          /\ u.timer = ui.timer /\ u.debounce = ui.debounce /\ u.deferred = ui.deferred - 1
      BY <1>0, Zenon DEF CountFields
    <2> HIDE DEF u
    <2>3. u.deferred + one(u.timer) + 1 <= ui.deferred + one(ui.timer) /\ u.deferred \in Nat
      BY <1>0, <2>1, <2>2
    <2> QED
      BY <1>0, <1>2, <2>1, <2>2, <2>3
  <1>5. CASE Monitor!DebounceFires
    <2>1. /\ CountFields \subseteq DOMAIN ui' /\ ui'.requests = ui.requests /\ ui'.timer = ui.timer
          /\ ui'.clicks = ui.clicks /\ ui'.deferred = ui.deferred + 1 /\ ui'.debounce = FALSE
      BY <1>0, <1>5, Zenon DEF CountFields, Monitor!DebounceFires, Monitor!defer
    <2>2. one(ui.debounce) = 1 /\ one(ui'.debounce) = 0 /\ one(ui'.timer) = one(ui.timer)
          /\ ui'.timer \in BOOLEAN /\ ui'.debounce \in BOOLEAN
      BY <1>0, <1>5, <2>1, Zenon DEF one, Monitor!DebounceFires
    <2>3. ui'.deferred \in Nat /\ ui'.clicks \in Nat
          /\ Monitor!countAll(ui'.requests) + ui'.deferred + one(ui'.timer) + one(ui'.debounce)
               <= Monitor!countAll(ui.requests) + ui.deferred + one(ui.timer) + one(ui.debounce)
                  + ui'.clicks - ui.clicks
      BY <1>0, <1>n, <2>1, <2>2
    <2> QED
      BY <1>0, <1>n, <2>1, <2>2, <2>3, MonitorPacedBy, Zenon
  <1>6. CASE Monitor!AnyAnswer
    <2>1. PICK request \in DOMAIN ui.requests :
              Monitor!AnswerArrives(request) \/ Monitor!RequestFails(request)
      BY <1>6, Zenon DEF Monitor!AnyAnswer
    <2>2. /\ CountFields \subseteq DOMAIN ui' /\ ui'.requests = Monitor!without(ui.requests, request)
          /\ ui'.timer = TRUE /\ ui'.debounce = ui.debounce /\ ui'.deferred = ui.deferred
          /\ ui'.clicks = ui.clicks
      <3>1. CASE Monitor!AnswerArrives(request)
        BY <1>0, <3>1, Zenon DEF CountFields, Monitor!AnswerArrives, Monitor!resetTimer, Monitor!answered
      <3>2. CASE Monitor!RequestFails(request)
        BY <1>0, <3>2, Zenon DEF CountFields, Monitor!RequestFails, Monitor!resetTimer, Monitor!answered
      <3> QED
        BY <2>1, <3>1, <3>2, Zenon
    <2>3. /\ IsPool(ui'.requests) /\ Monitor!countAll(ui'.requests) \in Nat
          /\ Monitor!countAll(ui'.requests) = Monitor!countAll(ui.requests) - 1
      BY <1>0, <2>2, OneFewer
    <2>4. one(ui'.timer) = 1 /\ one(ui'.debounce) = one(ui.debounce)
          /\ ui'.timer \in BOOLEAN /\ ui'.debounce \in BOOLEAN
      BY <1>0, <2>2, Zenon
    <2>5. ui'.deferred \in Nat /\ ui'.clicks \in Nat
          /\ Monitor!countAll(ui'.requests) + ui'.deferred + one(ui'.timer) + one(ui'.debounce)
               <= Monitor!countAll(ui.requests) + ui.deferred + one(ui.timer) + one(ui.debounce)
                  + ui'.clicks - ui.clicks
      BY <1>0, <1>n, <2>2, <2>3, <2>4
    <2> QED
      BY <1>n, <2>2, <2>3, <2>4, <2>5, MonitorPacedBy, Zenon
  <1>7. CASE Monitor!QueriesChange
    BY <1>7 DEF Monitor!QueriesChange, MonitorPaced
  <1> QED
    BY <1>1, <1>3, <1>4, <1>5, <1>6, <1>7 DEF Monitor!Browser

\* No step leaves a wrong mark at "Select All".
LEMMA MonitorStepMarks ==
    ASSUME MonitorPaced(ui), MonitorMarks(ui), Monitor!Next
    PROVE  MonitorMarks(ui')
  <1> USE DEF Monitor!Next
  <1>0. /\ CountFields \subseteq DOMAIN ui /\ MenuFields \subseteq DOMAIN ui
        /\ Marked(FilterType, ui.stateFilters, ui.stateSelectAll)
        /\ Marked(ErrorType, ui.errorTypeFilters, ui.errorSelectAll)
        /\ IsFiniteSet(FilterType) /\ FilterType # {} /\ IsFiniteSet(ErrorType) /\ ErrorType # {}
    BY MenusAssumption, FiniteMenusAssumption, Zenon DEF MonitorPaced, MonitorMarks
  <1>1. ASSUME NEW filter \in FilterType \cup {Monitor!SELECT_ALL}, Monitor!handleStateFilterClick(filter)
        PROVE  MonitorMarks(ui')
    <2> DEFINE new == Monitor!toggled(FilterType, ui.stateFilters, ui.stateSelectAll, filter)
    <2>1. /\ MenuFields \subseteq DOMAIN ui'
          /\ ui'.stateFilters = new.filters /\ ui'.stateSelectAll = new.all
          /\ ui'.errorTypeFilters = ui.errorTypeFilters /\ ui'.errorSelectAll = ui.errorSelectAll
      BY <1>0, <1>1, Zenon DEF MenuFields, Monitor!handleStateFilterClick, Monitor!defer, Monitor!clicked
    <2>2. Marked(FilterType, new.filters, new.all)
      BY <1>0, <1>1, ToggledMarks, Zenon
    <2> HIDE DEF new
    <2> QED
      BY <1>0, <2>1, <2>2, Zenon DEF MonitorMarks
  <1>2. ASSUME NEW type \in ErrorType \cup {Monitor!SELECT_ALL}, Monitor!handleErrorTypeFilterClick(type)
        PROVE  MonitorMarks(ui')
    <2> DEFINE new == Monitor!toggled(ErrorType, ui.errorTypeFilters, ui.errorSelectAll, type)
    <2>1. /\ MenuFields \subseteq DOMAIN ui'
          /\ ui'.errorTypeFilters = new.filters /\ ui'.errorSelectAll = new.all
          /\ ui'.stateFilters = ui.stateFilters /\ ui'.stateSelectAll = ui.stateSelectAll
      BY <1>0, <1>2, Zenon DEF MenuFields, Monitor!handleErrorTypeFilterClick, Monitor!defer, Monitor!clicked
    <2>2. Marked(ErrorType, new.filters, new.all)
      BY <1>0, <1>2, ToggledMarks, Zenon
    <2> HIDE DEF new
    <2> QED
      BY <1>0, <2>1, <2>2, Zenon DEF MonitorMarks
  <1>3. ASSUME \/ \E type \in SortType : Monitor!handleSortClick(type)
               \/ \E text \in SearchString : Monitor!handleSearchStringChange(text)
               \/ \E page \in Monitor!pagesOffered(ui) : Monitor!onPageChange(page)
               \/ \E size \in PageSize : Monitor!onPageSizeChange(size)
               \/ Monitor!TimerFires \/ Monitor!DebounceFires \/ Monitor!DeferredRefresh
               \/ Monitor!AnyAnswer
        PROVE  SameMenus(ui, ui')
    <2> USE <1>0 DEF SameMenus, MenuFields, Monitor!clicked, Monitor!defer
    <2>1. ASSUME NEW type, Monitor!handleSortClick(type) PROVE SameMenus(ui, ui')
      BY <2>1, Zenon DEF Monitor!handleSortClick
    <2>2. ASSUME NEW text, Monitor!handleSearchStringChange(text) PROVE SameMenus(ui, ui')
      BY <2>2, Zenon DEF Monitor!handleSearchStringChange
    <2>3. ASSUME NEW page, Monitor!onPageChange(page) PROVE SameMenus(ui, ui')
      BY <2>3, Zenon DEF Monitor!onPageChange
    <2>4. ASSUME NEW size, Monitor!onPageSizeChange(size) PROVE SameMenus(ui, ui')
      BY <2>4, Zenon DEF Monitor!onPageSizeChange
    <2>5. ASSUME Monitor!TimerFires PROVE SameMenus(ui, ui')
      BY <2>5, Zenon DEF Monitor!TimerFires, Monitor!refreshLoop, Monitor!refreshData
    <2>6. ASSUME Monitor!DebounceFires PROVE SameMenus(ui, ui')
      BY <2>6, Zenon DEF Monitor!DebounceFires
    <2>7. ASSUME Monitor!DeferredRefresh PROVE SameMenus(ui, ui')
      BY <2>7, Zenon DEF Monitor!DeferredRefresh, Monitor!refreshData
    <2>8. ASSUME NEW request, Monitor!AnswerArrives(request) PROVE SameMenus(ui, ui')
      BY <2>8, Zenon DEF Monitor!AnswerArrives, Monitor!resetTimer, Monitor!answered
    <2>9. ASSUME NEW request, Monitor!RequestFails(request) PROVE SameMenus(ui, ui')
      BY <2>9, Zenon DEF Monitor!RequestFails, Monitor!resetTimer, Monitor!answered
    <2> QED
      BY <1>3, <2>1, <2>2, <2>3, <2>4, <2>5, <2>6, <2>7, <2>8, <2>9, Zenon DEF Monitor!AnyAnswer
  <1>4. CASE Monitor!QueriesChange
    BY <1>4 DEF Monitor!QueriesChange, MonitorMarks
  <1> QED
    BY <1>1, <1>2, <1>3, <1>4, SameMenusMarked, Zenon DEF Monitor!User, Monitor!Browser

\* The marks are those the page shows.
LEMMA MarksAreShown == ASSUME MonitorMarks(ui) PROVE Monitor!SelectAllMeansAll
  <1>1. "all" \notin FilterType /\ "all" \notin ErrorType
    BY MenusAssumption, Zenon
  <1>2. ASSUME NEW all, NEW chosen, NEW selectAll, Marked(all, chosen, selectAll), "all" \notin all
        PROVE  ("all" \in chosen \/ ("all" = "all" /\ selectAll))
                   <=> \A filter \in all : filter \in chosen \/ (filter = "all" /\ selectAll)
    BY <1>2, Zenon DEF Marked
  <1>3. /\ Marked(FilterType, ui.stateFilters, ui.stateSelectAll)
        /\ Marked(ErrorType, ui.errorTypeFilters, ui.errorSelectAll)
    BY DEF MonitorMarks
  <1>4. /\ ("all" \in ui.stateFilters \/ ("all" = "all" /\ ui.stateSelectAll))
             <=> \A filter \in FilterType : filter \in ui.stateFilters \/ (filter = "all" /\ ui.stateSelectAll)
        /\ ("all" \in ui.errorTypeFilters \/ ("all" = "all" /\ ui.errorSelectAll))
             <=> \A type \in ErrorType : type \in ui.errorTypeFilters \/ (type = "all" /\ ui.errorSelectAll)
    BY <1>1, <1>2, <1>3, Zenon
  <1> QED
    BY <1>4, Zenon DEF Monitor!SelectAllMeansAll, Monitor!stateChecked, Monitor!errorChecked, Monitor!SELECT_ALL

-----------------------------------------------------------------------------
(* The two pages together: what they keep, from the start and with every step, and what *)
(* that promises.                                                                       *)

RunsKeep(u) == Delays(u) /\ Alive(u) /\ Paced(u) /\ Told(u)
MonitorKeeps(u) == MonitorAlive(u) /\ MonitorPaced(u) /\ MonitorMarks(u)

ListsKeep == /\ open = "monitor" => MonitorKeeps(ui)
             /\ open = "runs" => RunsKeep(ui)

\* Whichever of the two pages opens, its invariant holds.
LEMMA ListsStart == ASSUME InitLists PROVE ListsKeep
  <1>1. Runs!Init => RunsKeep(ui)
    BY RunsStart, RunsStartPaced, Zenon DEF RunsKeep
  <1>2. Monitor!Init => MonitorKeeps(ui)
    BY MonitorStart, MonitorStartPaced, Zenon DEF MonitorKeeps
  <1> QED
    BY <1>1, <1>2, Zenon DEF InitLists, ListsKeep

\* A step of the open page keeps its invariant and leaves the other closed.
LEMMA ListsStep ==
    ASSUME ListsKeep, NextLists
    PROVE  /\ ListsKeep' /\ open' = open /\ open \in {"monitor", "runs"}
           /\ open = "runs" => Runs!DialogKept
  <1>1. ASSUME on("monitor"), Monitor!Next
        PROVE  MonitorKeeps(ui') /\ open = "monitor" /\ open' = "monitor"
    BY <1>1, MonitorStep, MonitorStepPaced, MonitorStepMarks, Zenon DEF ListsKeep, MonitorKeeps, on
  <1>2. ASSUME on("runs"), Runs!Next
        PROVE  RunsKeep(ui') /\ Runs!DialogKept /\ open = "runs" /\ open' = "runs"
    BY <1>2, RunsStep, RunsStepPaced, RunsStepTold, Zenon DEF ListsKeep, RunsKeep, on
  <1> QED
    BY <1>1, <1>2, Zenon DEF ListsKeep, NextLists

\* Nothing happens to them while another page is open, or when nothing happens.
LEMMA ListsRest ==
    ASSUME ListsKeep, UNCHANGED vars \/ (UNCHANGED open /\ open \notin {"monitor", "runs"})
    PROVE  ListsKeep'
  <1>1. CASE UNCHANGED vars
    BY <1>1, Zenon DEF ListsKeep, vars
  <1>2. CASE UNCHANGED open /\ open \notin {"monitor", "runs"}
    BY <1>2, Zenon DEF ListsKeep
  <1> QED
    BY <1>1, <1>2

\* What the invariant of the list of runs says of its properties.
LEMMA RunsPromise ==
    ASSUME RunsKeep(ui)
    PROVE  Runs!BackoffBounded /\ Runs!PollingAlive /\ Runs!PollingDoesNotMultiply /\ Runs!DialogHasText
  <1>1. Runs!BackoffBounded
    BY DEF RunsKeep, Delays, Runs!BackoffBounded
  <1>2. Runs!PollingDoesNotMultiply
    <2>1. /\ ui.polls \in Nat /\ ui.submissions \in Nat /\ ui.clicks \in Nat
          /\ ui.polls + armed(ui.timer) + ui.submissions <= 1 + ui.clicks
      BY DEF RunsKeep, Paced
    <2>2. armed(ui.timer) = IF ui.timer = Runs!Never THEN 0 ELSE 1
      BY DEF armed
    <2>3. armed(ui.timer) \in 0..1
      BY <2>2
    <2>4. ui.polls + armed(ui.timer) <= 1 + ui.clicks
      BY <2>1, <2>3
    <2> QED
      BY <2>2, <2>4, Zenon DEF Runs!PollingDoesNotMultiply
  <1> QED
    BY <1>1, <1>2, Zenon DEF RunsKeep, Alive, Told, Runs!PollingAlive, Runs!DialogHasText

\* What the invariant of the monitor says of its properties.
LEMMA MonitorPromises ==
    ASSUME MonitorKeeps(ui)
    PROVE  Monitor!PollingAlive /\ Monitor!PollingDoesNotMultiply /\ Monitor!SelectAllMeansAll
  <1>1. Monitor!PollingDoesNotMultiply
    BY Zenon DEF MonitorKeeps, MonitorPaced, one, Monitor!PollingDoesNotMultiply
  <1> QED
    BY <1>1, MarksAreShown, Zenon DEF MonitorKeeps, MonitorAlive, Monitor!PollingAlive
=============================================================================
