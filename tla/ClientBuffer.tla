---------------------------- MODULE ClientBuffer ----------------------------
(***************************************************************************)
(* One consumer's buffer inside a task's output buffer                     *)
(* (execution/buffer/ClientBuffer.java).  The Java object is a record, and *)
(* each operator below is one synchronized block of the class: the buffer  *)
(* before the block goes in, the buffer after it comes out.  What the      *)
(* class does outside its lock (process a read it took, complete a read it *)
(* displaced, drop page references) is a step of its own in the modules    *)
(* that own buffers.                                                       *)
(*                                                                         *)
(* A page is an abstract value: its size only decides how many pages fit   *)
(* in a response, and that number is a choice (ReadResults).  A pending    *)
(* read is the identity of the request that waits.  A PendingRead whose    *)
(* future is already done behaves in every method like no pending read     *)
(* (ClientBuffer.java:296-298), so such a read is represented by None.   *)
(***************************************************************************)
EXTENDS Naturals, Sequences

CONSTANT None        \* Java null

\* The fields of the class; pagesAdded is kept by the owner as a history.
NewBuffer ==
    [ currentSequenceId |-> 0,
      pages             |-> <<>>,
      noMorePages       |-> FALSE,
      destroyed         |-> FALSE,
      pendingRead       |-> None ]

\* The type of a buffer over the pages Page and the requests Request.
BufferType(Page, Request) ==
    [ currentSequenceId : Nat,
      pages             : Seq(Page),
      noMorePages       : BOOLEAN,
      destroyed         : BOOLEAN,
      pendingRead       : Request \cup {None} ]

\* BufferResult.emptyResults(token, bufferComplete)
emptyResults(token, bufferComplete) ==
    [ token |-> token, nextToken |-> token, complete |-> bufferComplete, pages |-> <<>> ]

-----------------------------------------------------------------------------
\* Mutant: pages are accepted after noMorePages.
enqueuePages_AfterNoMorePages(b, newPages) ==
    [b EXCEPT !.pages = @ \o newPages, !.pendingRead = None]

\* enqueuePages, the synchronized block: pages that come after noMorePages are
\* ignored; otherwise they are appended and the pending read is taken away, to
\* be processed once the lock is released.
enqueuePages(b, newPages) ==
    IF b.noMorePages THEN b
    ELSE [b EXCEPT !.pages = @ \o newPages, !.pendingRead = None]

\* setNoMorePages, the synchronized block: a duplicate call is ignored.
setNoMorePages(b) ==
    IF b.noMorePages THEN b
    ELSE [b EXCEPT !.noMorePages = TRUE, !.pendingRead = None]

\* The read that enqueuePages or setNoMorePages took, None if none.
takenRead(b) == IF b.noMorePages THEN None ELSE b.pendingRead

\* Mutant: a destroyed buffer does not refuse pages.
destroy_StaysOpen(b) ==
    [b EXCEPT !.pages = <<>>, !.destroyed = TRUE, !.pendingRead = None]

\* destroy, the synchronized block; the caller completes b.pendingRead with an
\* empty, incomplete result.
destroy(b) ==
    [b EXCEPT !.pages = <<>>, !.noMorePages = TRUE, !.destroyed = TRUE,
              !.pendingRead = None]

\* The argument check of acknowledgePages: only pages the buffer holds can be
\* acknowledged ("Invalid sequence id").
validSequenceId(b, sequenceId) ==
    \/ b.destroyed
    \/ sequenceId <= b.currentSequenceId + Len(b.pages)

\* Mutant: the sequence id points at the last page dropped, not after it.
acknowledgePages_LastDropped(b, sequenceId) ==
    IF b.destroyed \/ sequenceId < b.currentSequenceId THEN b
    ELSE [b EXCEPT !.currentSequenceId = sequenceId - 1,
                   !.pages = SubSeq(@, sequenceId - b.currentSequenceId + 1, Len(@))]

\* Mutant: the page at sequenceId is dropped too.
acknowledgePages_Inclusive(b, sequenceId) ==
    IF b.destroyed \/ sequenceId < b.currentSequenceId \/ b.pages = <<>> THEN b
    ELSE [b EXCEPT !.currentSequenceId = sequenceId + 1,
                   !.pages = SubSeq(@, sequenceId - b.currentSequenceId + 2, Len(@))]

\* acknowledgePages: drop the pages below sequenceId.
acknowledgePages(b, sequenceId) ==
    IF b.destroyed \/ sequenceId < b.currentSequenceId THEN b
    ELSE [b EXCEPT !.currentSequenceId = sequenceId,
                   !.pages = SubSeq(@, sequenceId - b.currentSequenceId + 1, Len(@))]

\* getPages, its synchronized block: does the read wait for data?
readWaits(b, sequenceId) ==
    /\ b.pages = <<>>
    /\ ~b.noMorePages
    /\ sequenceId = b.currentSequenceId

\* The number of pages a response carries: the first page always fits, the
\* others as far as maxSize allows.
ResponseSizes(b) == {n \in 0 .. Len(b.pages) : n > 0 \/ b.pages = <<>>}

\* Mutant: noMorePages alone completes the buffer.
ReadResults_CompleteWithPages(b, sequenceId) ==
    IF sequenceId < b.currentSequenceId
    THEN {emptyResults(sequenceId, FALSE)}
    ELSE IF b.noMorePages
    THEN {emptyResults(b.currentSequenceId, TRUE)}
    ELSE {[ token |-> sequenceId, nextToken |-> sequenceId + n, complete |-> FALSE,
            pages |-> SubSeq(b.pages, 1, n) ] : n \in ResponseSizes(b)}

\* processRead(sequenceId, maxSize), one element for each number of pages that
\* maxSize may let through.
ReadResults(b, sequenceId) ==
    IF sequenceId < b.currentSequenceId
    THEN {emptyResults(sequenceId, FALSE)}
    ELSE IF b.pages = <<>> /\ b.noMorePages
    THEN {emptyResults(b.currentSequenceId, TRUE)}
    ELSE {[ token |-> sequenceId, nextToken |-> sequenceId + n, complete |-> FALSE,
            pages |-> SubSeq(b.pages, 1, n) ] : n \in ResponseSizes(b)}

\* The check of processRead that a read is never ahead of the buffer, unless
\* the buffer is finished ("Invalid sequence id", ClientBuffer.java:348).
readInRange(b, sequenceId) ==
    \/ sequenceId <= b.currentSequenceId
    \/ b.pages = <<>> /\ b.noMorePages
=============================================================================
