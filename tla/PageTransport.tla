---------------------------- MODULE PageTransport ----------------------------
(***************************************************************************)
(* How one consumer fetches the pages of one ClientBuffer over HTTP.       *)
(*                                                                         *)
(*  - The producer task appends pages to the buffer (ClientBuffer.java).   *)
(*  - TaskResource.java serves GET results/<buffer>/<token>, GET           *)
(*    .../<token>/acknowledge and DELETE results/<buffer>.                 *)
(*  - HttpPageBufferClient.java keeps at most one request outstanding,     *)
(*    retries a failed one, acknowledges what it accepted without waiting  *)
(*    for the answer, and deletes the buffer once the server said that it  *)
(*    is complete.                                                         *)
(*  - Its callback, ExchangeClient.java, takes the pages and decides when  *)
(*    the client may send again or must be closed.                         *)
(*                                                                         *)
(* A GET or DELETE is an HTTP exchange, a member of Request.  stage says   *)
(* where it is: on its way ("sent"), inside getPages after the             *)
(* acknowledgement ("acked"), waiting as the pending read ("pending"),     *)
(* taken from the buffer but not processed yet ("taken"), answered         *)
(* ("replied"), received by the HTTP client with its callback queued       *)
(* ("done"), and inside that callback ("accepted", "added").  A client     *)
(* that gives up on an exchange does not stop it: the server may still     *)
(* serve it, at any later time, and the answer is then thrown away.        *)
(***************************************************************************)
EXTENDS ClientBuffer, FiniteSets

CONSTANTS Page,              \* page objects; each is enqueued at most once
          Request,           \* HTTP exchanges; an idle one is reused
          AcknowledgePages,  \* exchange.acknowledge-pages
          RecoveryEnabled,   \* a QueryRecoveryManager is present (coordinator)
          MaxErrors          \* consecutive failures after which Backoff gives up

ASSUME NoneAssumption == None \notin Request
ASSUME MaxErrorsAssumption == MaxErrors \in Nat \ {0}
ASSUME FlagsAssumption == AcknowledgePages \in BOOLEAN /\ RecoveryEnabled \in BOOLEAN

VARIABLES
    buf,        \* the ClientBuffer
    added,      \* history: the pages the buffer ever accepted (pagesAdded)
    cancelled,  \* history: the producer task destroyed the buffer
    req,        \* the HTTP exchanges
    acks,       \* acknowledgements on their way
    token, future, scheduled, completed, closed,   \* HttpPageBufferClient fields
    errors,     \* Backoff.failureCount
    queued,     \* the client is in ExchangeClient.queuedClients
    received,   \* the pages ExchangeClient.addPages accepted from this client
    finished,   \* the client is in ExchangeClient.completedClients
    failed,     \* ExchangeClient.failure is set
    exClosed    \* ExchangeClient.closed

server == <<buf, added, cancelled>>
client == <<token, future, scheduled, completed, closed, errors>>
exchange == <<queued, received, finished, failed, exClosed>>
vars == <<buf, added, cancelled, req, acks, token, future, scheduled, completed,
          closed, errors, queued, received, finished, failed, exClosed>>

Stage == {"idle", "sent", "acked", "pending", "taken", "replied", "done",
          "accepted", "added"}

Result == [token : Nat, nextToken : Nat, complete : BOOLEAN, pages : Seq(Page)]

Exchanges == [stage : Stage, kind : {"get", "delete"}, token : Nat, result : Result]

Idle == [stage |-> "idle", kind |-> "get", token |-> 0, result |-> emptyResults(0, FALSE)]

Sent(kind, t) == [Idle EXCEPT !.stage = "sent", !.kind = kind, !.token = t]

TypeOK ==
    /\ buf \in BufferType(Page, Request)
    /\ added \in Seq(Page)
    /\ cancelled \in BOOLEAN
    /\ req \in [Request -> Exchanges]
    /\ acks \subseteq Nat
    /\ token \in Nat
    /\ future \in Request \cup {None}
    /\ scheduled \in BOOLEAN /\ completed \in BOOLEAN /\ closed \in BOOLEAN
    /\ errors \in 0 .. MaxErrors
    /\ received \in Seq(Page)
    /\ queued \in BOOLEAN /\ finished \in BOOLEAN /\ failed \in BOOLEAN /\ exClosed \in BOOLEAN

Init ==
    /\ buf = NewBuffer
    /\ added = <<>>
    /\ cancelled = FALSE
    /\ req = [r \in Request |-> Idle]
    /\ acks = {}
    /\ token = 0
    /\ future = None
    /\ scheduled = FALSE
    /\ completed = FALSE
    /\ closed = FALSE
    /\ errors = 0
    /\ queued = TRUE             \* ExchangeClient.addLocation
    /\ received = <<>>
    /\ finished = FALSE
    /\ failed = FALSE
    /\ exClosed = FALSE

-----------------------------------------------------------------------------
(* The producer task.                                                      *)

\* Lists of pages that enqueuePages is called with; an empty list occurs too
\* (BroadcastOutputBuffer.getBuffer, doEnqueue).
Batches == {<<>>} \cup {<<p>> : p \in Page} \cup {<<p, q>> : p, q \in Page}

Fresh(ps) ==
    /\ \A i, j \in DOMAIN ps : ps[i] = ps[j] => i = j
    /\ \A i \in DOMAIN ps, j \in DOMAIN added : ps[i] # added[j]

\* The taken read, if any, waits for its processRead outside the lock.
Take(r) == IF r = None THEN req ELSE [req EXCEPT ![r].stage = "taken"]

\* PendingRead.completeResultFutureWithEmpty
CompleteWithEmpty(rs, r) ==
    IF r = None THEN rs
    ELSE [rs EXCEPT ![r].stage = "replied", ![r].result = emptyResults(rs[r].token, FALSE)]

Enqueue(ps) ==
    /\ Fresh(ps)
    /\ buf' = enqueuePages(buf, ps)
    /\ added' = IF buf.noMorePages THEN added ELSE added \o ps
    /\ req' = Take(takenRead(buf))
    /\ UNCHANGED <<cancelled, acks, client, exchange>>

SetNoMorePages ==
    /\ buf' = setNoMorePages(buf)
    /\ req' = Take(takenRead(buf))
    /\ UNCHANGED <<added, cancelled, acks, client, exchange>>

\* The task is cancelled, or finished early: OutputBuffer.destroy() destroys
\* its client buffers (SqlTask.java:202).
CancelTask ==
    /\ ~buf.destroyed
    /\ buf' = destroy(buf)
    /\ cancelled' = TRUE
    /\ req' = CompleteWithEmpty(req, buf.pendingRead)
    /\ UNCHANGED <<added, acks, client, exchange>>

-----------------------------------------------------------------------------
(* The server: TaskResource and the reading side of ClientBuffer.          *)

\* getPages first acknowledges, in a critical section of its own.
ReceiveGet(r) ==
    /\ req[r].stage = "sent" /\ req[r].kind = "get"
    /\ validSequenceId(buf, req[r].token)
    /\ buf' = acknowledgePages(buf, req[r].token)
    /\ req' = [req EXCEPT ![r].stage = "acked"]
    /\ UNCHANGED <<added, cancelled, acks, client, exchange>>

\* The critical section of getPages: the read displaces a pending one, and is
\* answered at once or becomes the pending one itself.
ServeGet(r) ==
    /\ req[r].stage = "acked"
    /\ LET others == CompleteWithEmpty(req, buf.pendingRead)
       IN  IF readWaits(buf, req[r].token)
           THEN /\ buf' = [buf EXCEPT !.pendingRead = r]
                /\ req' = [others EXCEPT ![r].stage = "pending"]
           ELSE /\ buf' = [buf EXCEPT !.pendingRead = None]
                /\ readInRange(buf, req[r].token)
                /\ \E result \in ReadResults(buf, req[r].token) :
                       req' = [others EXCEPT ![r].stage = "replied", ![r].result = result]
    /\ UNCHANGED <<added, cancelled, acks, client, exchange>>

\* processRead of a taken read, after the lock was released and taken again.
ProcessRead(r) ==
    /\ req[r].stage = "taken"
    /\ readInRange(buf, req[r].token)
    /\ \E result \in ReadResults(buf, req[r].token) :
           req' = [req EXCEPT ![r].stage = "replied", ![r].result = result]
    /\ UNCHANGED <<server, acks, client, exchange>>

\* No data within the wait time: addTimeout answers with an empty result and
\* cancels the future of the read, wherever the read is (TaskResource.java:411).
ReadTimeout(r) ==
    /\ req[r].stage \in {"pending", "taken"}
    /\ buf' = IF buf.pendingRead = r THEN [buf EXCEPT !.pendingRead = None] ELSE buf
    /\ req' = CompleteWithEmpty(req, r)
    /\ UNCHANGED <<added, cancelled, acks, client, exchange>>

ReceiveAcknowledge(t) ==
    /\ t \in acks
    /\ validSequenceId(buf, t)
    /\ acks' = acks \ {t}
    /\ buf' = acknowledgePages(buf, t)
    /\ UNCHANGED <<added, cancelled, req, client, exchange>>

\* abortResults: destroy, and complete the pending read.
ReceiveDelete(r) ==
    /\ req[r].stage = "sent" /\ req[r].kind = "delete"
    /\ buf' = destroy(buf)
    /\ req' = [CompleteWithEmpty(req, buf.pendingRead) EXCEPT ![r].stage = "replied"]
    /\ UNCHANGED <<added, cancelled, acks, client, exchange>>

-----------------------------------------------------------------------------
(* The network: what nobody waits for any more may vanish.                 *)

Discard(r) ==
    /\ r # future
    /\ req[r].stage \in {"sent", "replied"}
    /\ req' = [req EXCEPT ![r] = Idle]
    /\ UNCHANGED <<server, acks, client, exchange>>

LoseAcknowledge(t) ==
    /\ t \in acks
    /\ acks' = acks \ {t}
    /\ UNCHANGED <<server, req, client, exchange>>

\* The answer reaches the client that waits for it: its future is done, and the
\* callback is queued on pageBufferClientCallbackExecutor.
ReceiveReply(r) ==
    /\ r = future
    /\ req[r].stage = "replied"
    /\ req' = [req EXCEPT ![r].stage = "done"]
    /\ UNCHANGED <<server, acks, client, exchange>>

\* An error status when a QueryRecoveryManager is present: the handler starts
\* the recovery and answers for the server (HttpPageBufferClient.java:684-690).
ReceiveErrorInRecovery(r) ==
    /\ RecoveryEnabled
    /\ r = future
    /\ req[r].stage = "sent" /\ req[r].kind = "get"
    /\ req' = [req EXCEPT ![r] = [ stage |-> "done", kind |-> "get", token |-> @.token,
                                   result |-> emptyResults(0, FALSE) ]]
    /\ UNCHANGED <<server, acks, client, exchange>>

-----------------------------------------------------------------------------
(* HttpPageBufferClient, and what its callbacks do in ExchangeClient.      *)

\* Mutant: every response is taken for the current token.
tokenMatches_Always(result) == TRUE

\* A response to another token than the current one carries nothing.
tokenMatches(result) == result.token = token

\* Mutant: the future of a completed request is kept.
releaseFuture_Kept(r) == future

\* "if (future == resultFuture) future = null"
releaseFuture(r) == IF future = r THEN None ELSE future

\* Mutant: a client whose request is over is not queued again.
requeue_Never == queued

\* ExchangeClient.requestComplete: the client is queued unless it is completed.
requeue == queued \/ ~finished

\* scheduleRequestIfNecessary polls the client from queuedClients, when the
\* page buffer has room, and calls scheduleRequest.
ScheduleRequest ==
    /\ queued
    /\ ~failed
    /\ ~(exClosed /\ finished)
    /\ queued' = FALSE
    /\ scheduled' = (scheduled \/ (~closed /\ future = None))
    /\ UNCHANGED <<server, req, acks, token, future, completed, closed, errors,
                   received, finished, failed, exClosed>>

\* initiateRequest, run by the scheduler after the backoff delay.
InitiateRequest ==
    /\ scheduled
    /\ scheduled' = FALSE
    /\ IF closed \/ future # None
       THEN UNCHANGED <<future, req>>
       ELSE \E r \in Request :
                /\ req[r].stage = "idle"
                /\ future' = r
                /\ req' = [req EXCEPT ![r] = Sent(IF completed THEN "delete" ELSE "get", token)]
    /\ UNCHANGED <<server, acks, token, completed, closed, errors, exchange>>

\* onSuccess of sendGetResults, first critical section: the token advances, and
\* accepted pages are acknowledged.
OnSuccess(r) ==
    /\ req[r].stage = "done" /\ req[r].kind = "get"
    /\ LET result == req[r].result
           matches == tokenMatches(result)
           pages == IF matches THEN result.pages ELSE <<>>
       IN  /\ token' = IF matches THEN result.nextToken ELSE token
           /\ acks' = IF pages # <<>> /\ AcknowledgePages
                      THEN acks \cup {result.nextToken} ELSE acks
           /\ req' = [req EXCEPT ![r] = [stage |-> "accepted", kind |-> "get", token |-> @.token,
                                         result |-> [result EXCEPT !.pages = pages]]]
    /\ errors' = 0
    /\ UNCHANGED <<server, future, scheduled, completed, closed, exchange>>

\* ExchangeClient.addPages: refused once the exchange is closed or failed.
AddPages(r) ==
    /\ req[r].stage = "accepted"
    /\ ~finished
    /\ received' = IF exClosed \/ failed THEN received ELSE received \o req[r].result.pages
    /\ req' = [req EXCEPT ![r].stage = "added"]
    /\ UNCHANGED <<server, acks, client, queued, finished, failed, exClosed>>

\* The first check of addPages, "client is already marked as completed": its
\* exception ends the callback.
AddPagesThrows(r) ==
    /\ req[r].stage = "accepted"
    /\ finished
    /\ req' = [req EXCEPT ![r] = Idle]
    /\ UNCHANGED <<server, acks, client, exchange>>

\* onSuccess, second critical section, and ExchangeClient.requestComplete.
RequestComplete(r) ==
    /\ req[r].stage = "added"
    /\ completed' = (completed \/ req[r].result.complete)
    /\ future' = releaseFuture(r)
    /\ req' = [req EXCEPT ![r] = Idle]
    /\ queued' = requeue
    /\ UNCHANGED <<server, acks, token, scheduled, closed, errors,
                   received, finished, failed, exClosed>>

\* onFailure and handleFailure.  An error status, or too many failures in a
\* row, is fatal: ExchangeClient.clientFailed, which a closed exchange ignores.
\* Otherwise the client is queued to try again.  The exchange goes on alone.
RequestFailed(r) ==
    /\ r = future
    /\ req[r].stage \in {"sent", "acked", "pending", "taken", "replied"}
    /\ \E fatal \in BOOLEAN :
           /\ errors + 1 >= MaxErrors => fatal
           /\ failed' = (failed \/ (fatal /\ ~exClosed))
    /\ errors' = IF errors < MaxErrors THEN errors + 1 ELSE errors
    /\ future' = None
    /\ queued' = requeue
    /\ UNCHANGED <<server, req, acks, token, scheduled, completed, closed,
                   received, finished, exClosed>>

\* onSuccess of sendDelete, and ExchangeClient.clientFinished.
DeleteSucceeded(r) ==
    /\ req[r].stage = "done" /\ req[r].kind = "delete"
    /\ closed' = TRUE
    /\ future' = releaseFuture(r)
    /\ errors' = 0
    /\ req' = [req EXCEPT ![r] = Idle]
    /\ finished' = TRUE
    /\ queued' = FALSE
    /\ UNCHANGED <<server, acks, token, scheduled, completed, received, failed, exClosed>>

\* ExchangeClient.close closes the client: the outstanding exchange is
\* cancelled and, unless the client was closed before, a DELETE is sent.  Its
\* answer counts, its failure is not retried.
Close ==
    /\ ~exClosed
    /\ exClosed' = TRUE
    /\ closed' = TRUE
    /\ IF closed
       THEN future' = None /\ UNCHANGED req
       ELSE \E r \in Request :
                /\ req[r].stage = "idle"
                /\ future' = r
                /\ req' = [req EXCEPT ![r] = Sent("delete", token)]
    /\ UNCHANGED <<server, acks, token, scheduled, completed, errors,
                   queued, received, finished, failed>>

-----------------------------------------------------------------------------
Exchange(r) ==
    \/ ReceiveGet(r) \/ ServeGet(r) \/ ProcessRead(r) \/ ReadTimeout(r)
    \/ ReceiveDelete(r) \/ Discard(r) \/ ReceiveReply(r) \/ ReceiveErrorInRecovery(r)
    \/ OnSuccess(r) \/ AddPages(r) \/ AddPagesThrows(r) \/ RequestComplete(r)
    \/ RequestFailed(r) \/ DeleteSucceeded(r)

Next ==
    \/ \E ps \in Batches : Enqueue(ps)
    \/ SetNoMorePages
    \/ CancelTask
    \/ \E r \in Request : Exchange(r)
    \/ \E t \in acks : ReceiveAcknowledge(t) \/ LoseAcknowledge(t)
    \/ ScheduleRequest
    \/ InitiateRequest
    \/ Close

Spec == Init /\ [][Next]_vars

\* Threads of the executors run, the scheduler fires, and an exchange never
\* hangs: the server answers within its wait time and the HTTP client has an
\* idle timeout.  Nothing is assumed of the producer, of the consumer closing
\* early, or of an acknowledgement.
Fairness ==
    /\ WF_vars(ScheduleRequest)
    /\ WF_vars(InitiateRequest)
    /\ \A r \in Request : WF_vars(Exchange(r))

FairSpec == Spec /\ Fairness

-----------------------------------------------------------------------------
(* What the transport promises.                                            *)

\* IsPrefix without the community modules, so that the provers can expand it.
PrefixOf(s, t) == Len(s) <= Len(t) /\ \A i \in 1 .. Len(s) : s[i] = t[i]

\* Whatever is retried, lost or late, the consumer takes each page the buffer
\* accepted at most once and in the buffer's order (HttpPageBufferClient.java
\* compares the token of a response with its own, ClientBuffer.java answers a
\* stale read with nothing).
DeliveredInOrder == PrefixOf(received, added)

\* The consumer believes that the buffer is complete only when it has every
\* page, unless the producer was cancelled or the exchange is being torn down.
CompleteMeansAll ==
    completed /\ ~cancelled /\ ~exClosed /\ ~failed => received = added /\ buf.noMorePages

\* A page leaves the buffer only after the client accepted it: acknowledging
\* and destroying never run ahead of the client (ClientBuffer.acknowledgePages,
\* destroy), unless the task was cancelled or the exchange is torn down.
NothingDropped ==
    ~cancelled /\ ~exClosed =>
        /\ buf.currentSequenceId <= token
        /\ buf.destroyed => completed /\ token = Len(added)

\* No request or acknowledgement that is under way, however stale, fails a
\* check "Invalid sequence id" of ClientBuffer (lines 386 and 348).
NoInvalidSequenceId ==
    /\ \A t \in acks : validSequenceId(buf, t)
    /\ \A r \in Request :
           /\ req[r].stage = "sent" /\ req[r].kind = "get"
                  => validSequenceId(buf, req[r].token)
           /\ req[r].stage \in {"acked", "taken"} => readInRange(buf, req[r].token)

\* The assertion of ExchangeClient.addPages (line 600): no pages arrive from a
\* client that is marked as completed.
NoPagesAfterCompleted ==
    \A r \in Request : req[r].stage = "accepted" => ~finished

\* Once there are no more pages, the consumer ends up with all of them and the
\* client finishes, or the exchange failed or was closed early, or the task was
\* cancelled: no lost wake-up of a pending read, no endless retry.
EventuallyDelivered ==
    buf.noMorePages ~> \/ finished /\ received = added
                       \/ failed \/ exClosed \/ cancelled

-----------------------------------------------------------------------------
(* The transport implements a stream.                                      *)

Stream == INSTANCE PageStream
    WITH sent <- added, got <- received, ended <- buf.noMorePages, done <- completed,
         broken <- cancelled \/ failed \/ exClosed

\* Every step of the HTTP exchange is a step of the abstract stream or none.
ImplementsStream == Stream!Spec

\* With the fairness of the executors, the stream keeps delivering.
ImplementsFairStream == Stream!FairSpec
=============================================================================
