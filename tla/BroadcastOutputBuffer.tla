------------------------ MODULE BroadcastOutputBuffer ------------------------
(***************************************************************************)
(* The output buffer of a task that sends every page to every consumer     *)
(* (execution/buffer/BroadcastOutputBuffer.java).                          *)
(*                                                                         *)
(* Threads of four kinds work on it at the same time: drivers enqueue      *)
(* pages; the coordinator's updates declare consumers (setOutputBuffers);  *)
(* consumers read, acknowledge and abort; the task sets "no more pages",   *)
(* destroys or fails the buffer.  The object's lock guards buffers,        *)
(* initialPagesForNewBuffers and outputBuffers, but not the state machine, *)
(* which changes under a thread that holds the lock.  Client buffers have  *)
(* locks of their own.                                                     *)
(*                                                                         *)
(* A step is one access to the state machine, one critical section of the  *)
(* object or one of a client buffer.  A critical section that reads the    *)
(* state once is one step.  setOutputBuffers reads and sets it several     *)
(* times under the lock, so it holds the lock (variable lock) over several *)
(* steps.  References that are dropped after a critical section are        *)
(* dropped with it: they are decrements of an atomic counter that no other *)
(* step reads.  Reads that wait are the subject of PageTransport.          *)
(***************************************************************************)
EXTENDS ClientBuffer, FiniteSets

CONSTANTS Id,       \* OutputBufferId: the consumers
          Page,     \* pages; each is enqueued once
          Driver    \* threads that enqueue

\* The other threads: one abort of each consumer's buffer at a time, the
\* updates of the coordinator, checkTaskCompletion, and the end of the task.
Update == "update"
Finish == "finish"
Cancel == "cancel"
Thread == Driver \cup Id \cup {Update, Finish, Cancel}

\* A driver is none of the other threads, and null is no thread.
ASSUME ThreadsAssumption ==
    /\ Driver \cap (Id \cup {Update, Finish, Cancel}) = {}
    /\ None \notin Thread

\* Null is no page (doEnqueue wraps each page in a reference of its own).
ASSUME PagesAssumption == None \notin Page

VARIABLES
    state,         \* stateMachine
    declared,      \* outputBuffers.getBuffers()
    noMoreIds,     \* outputBuffers.isNoMoreBufferIds()
    buffers,       \* the client buffers created so far
    initialPages,  \* initialPagesForNewBuffers
    refs,          \* SerializedPageReference.referenceCount of each page
    lock,          \* the thread that keeps the object's lock between two steps
    pc, todo,      \* where each thread is, and the buffers it still has to visit
    page,          \* the page each driver is enqueuing
    seen,          \* the local bufferState of setOutputBuffers ("OPEN" outside its scope)
    enqueued,      \* history: the pages that enqueue accepted
    delivered,     \* history: the pages each client buffer accepted
    outputDone,    \* history: checkTaskCompletion saw that the drivers are done
    cancelled      \* history: the task ended before the buffer was flushed

declaration == <<declared, noMoreIds>>
store == <<buffers, initialPages, refs>>
locals == <<page, seen>>
thread == <<pc, todo, locals>>
task == <<enqueued, outputDone, cancelled>>
history == <<delivered, task>>
vars == <<state, declaration, store, lock, thread, history>>

State == {"OPEN", "NO_MORE_BUFFERS", "NO_MORE_PAGES", "FLUSHING", "FINISHED", "FAILED"}

canAddPages(s) == s \in {"OPEN", "NO_MORE_BUFFERS"}
canAddBuffers(s) == s \in {"OPEN", "NO_MORE_PAGES"}
isTerminal(s) == s \in {"FINISHED", "FAILED"}

Pc == {"idle", "reserve", "enqueue", "adding", "cas", "unlocked", "noMoreBuffers",
       "flush1", "flush2", "flushSnapshot", "flushDecide", "destroyNoMore",
       "destroySnapshot", "destroying", "completing", "noMorePages", "pagesSnapshot", "setting"}

TypeOK ==
    /\ state \in State
    /\ declared \subseteq Id
    /\ noMoreIds \in BOOLEAN
    /\ DOMAIN buffers \subseteq Id
    /\ \A id \in DOMAIN buffers : buffers[id] \in BufferType(Page, {})
    /\ initialPages \in Seq(Page)
    /\ refs \in [Page -> Nat]
    /\ lock \in {Update, None}
    /\ pc \in [Thread -> Pc]
    /\ todo \in [Thread -> SUBSET Id]
    /\ page \in [Driver -> Page \cup {None}]
    /\ seen \in State
    /\ enqueued \subseteq Page
    /\ delivered \in [Id -> Seq(Page)]
    /\ outputDone \in BOOLEAN
    /\ cancelled \in BOOLEAN

Init ==
    /\ state = "OPEN"
    /\ declared = {}
    /\ noMoreIds = FALSE
    /\ buffers = [id \in {} |-> NewBuffer]
    /\ initialPages = <<>>
    /\ refs = [p \in Page |-> 0]
    /\ lock = None
    /\ pc = [t \in Thread |-> "idle"]
    /\ todo = [t \in Thread |-> {}]
    /\ page = [d \in Driver |-> None]
    /\ seen = "OPEN"
    /\ enqueued = {}
    /\ delivered = [id \in Id |-> <<>>]
    /\ outputDone = FALSE
    /\ cancelled = FALSE

-----------------------------------------------------------------------------
(* Pieces of the operations.                                               *)

Go(t, label) == pc' = [pc EXCEPT ![t] = label]

\* Thread t has the buffers ids left in the loop it is in, and leaves the loop
\* when there are none.
Visit(t, ids, loop, next) ==
    /\ todo' = [todo EXCEPT ![t] = ids]
    /\ Go(t, IF ids = {} THEN next ELSE loop)

occurrences(ps, p) == Cardinality({i \in DOMAIN ps : ps[i] = p})

addReferences(ps) == [p \in Page |-> refs[p] + occurrences(ps, p)]

dereference(ps) == [p \in Page |-> refs[p] - occurrences(ps, p)]

\* StateMachine.compareAndSet
compareAndSet(old, new) == IF state = old THEN new ELSE state

\* ClientBuffer.enqueuePages on an existing buffer.
enqueueOn(id, ps) ==
    /\ buffers' = [buffers EXCEPT ![id] = enqueuePages(@, ps)]
    /\ IF buffers[id].noMorePages
       THEN UNCHANGED <<refs, delivered>>
       ELSE /\ refs' = addReferences(ps)
            /\ delivered' = [delivered EXCEPT ![id] = @ \o ps]

\* ClientBuffer.destroy on an existing buffer.
destroyOn(id) ==
    /\ buffers' = [buffers EXCEPT ![id] = destroy(@)]
    /\ refs' = dereference(buffers[id].pages)

\* getBuffer refuses a new buffer after the final declaration.
mayCreate == canAddBuffers(state) \/ ~noMoreIds

\* Mutant: a buffer that is created late starts empty.
initialPagesFor_None(id) == <<>>

\* The pages a new buffer starts with: none if the buffer already failed.
initialPagesFor(id) == IF state = "FAILED" THEN <<>> ELSE initialPages

\* getBuffer, a buffer that does not exist yet: it gets the pages so far, and
\* then the state of the others.  A buffer that finished before is destroyed.
newBuffer(id) ==
    LET filled == enqueuePages(NewBuffer, initialPagesFor(id))
    IN  CASE state = "FINISHED" -> destroy(filled)
          [] state \in {"NO_MORE_PAGES", "FLUSHING"} -> setNoMorePages(filled)
          [] OTHER -> filled

\* getBuffer puts a new buffer b into the map.
create(id, b) ==
    /\ buffers' = [i \in DOMAIN buffers \cup {id} |-> IF i = id THEN b ELSE buffers[i]]
    /\ refs' = addReferences(b.pages)
    /\ delivered' = [delivered EXCEPT ![id] = initialPagesFor(id)]

\* Mutant: the references are dropped but the pages stay in the list.
noMoreBuffers_KeepsPages == refs' = dereference(initialPages) /\ UNCHANGED initialPages

\* Mutant: the references of the initial pages are kept.
noMoreBuffers_KeepsReferences == initialPages' = <<>> /\ UNCHANGED refs

\* noMoreBuffers: the initial pages are of no use any more.
noMoreBuffers == initialPages' = <<>> /\ refs' = dereference(initialPages)

-----------------------------------------------------------------------------
(* A driver: enqueue and doEnqueue.                                        *)

\* enqueue returns at once when no pages can be added; otherwise doEnqueue
\* creates the reference count, which is one.
Enqueue(d, p) ==
    /\ pc[d] = "idle" /\ ~outputDone
    /\ p \notin enqueued
    /\ canAddPages(state)
    /\ refs' = [refs EXCEPT ![p] = 1]
    /\ page' = [page EXCEPT ![d] = p]
    /\ enqueued' = enqueued \cup {p}
    /\ Go(d, "reserve")
    /\ UNCHANGED <<state, declaration, buffers, initialPages, lock, todo, seen, delivered,
                    outputDone, cancelled>>

\* Mutant: pages are kept for new buffers even if none can come.
remembered_Always(d) == <<page[d]>>

\* What doEnqueue remembers for the buffers of the future.
remembered(d) == IF canAddBuffers(state) THEN <<page[d]>> ELSE <<>>

\* The critical section of doEnqueue.
Remember(d) ==
    /\ pc[d] = "reserve" /\ lock = None
    /\ initialPages' = initialPages \o remembered(d)
    /\ refs' = addReferences(remembered(d))
    /\ todo' = [todo EXCEPT ![d] = DOMAIN buffers]
    /\ Go(d, "enqueue")
    /\ UNCHANGED <<state, declaration, buffers, lock, locals, history>>

EnqueuePages(d, id) ==
    /\ pc[d] = "enqueue" /\ id \in todo[d]
    /\ enqueueOn(id, <<page[d]>>)
    /\ todo' = [todo EXCEPT ![d] = @ \ {id}]
    /\ UNCHANGED <<state, declaration, initialPages, lock, pc, locals, task>>

\* doEnqueue drops the initial reference and returns.
EnqueueReturns(d) ==
    /\ pc[d] = "enqueue" /\ todo[d] = {}
    /\ refs' = dereference(<<page[d]>>)
    /\ page' = [page EXCEPT ![d] = None]
    /\ Go(d, "idle")
    /\ UNCHANGED <<state, declaration, buffers, initialPages, lock, todo, seen, history>>

-----------------------------------------------------------------------------
(* An update from the coordinator: setOutputBuffers.                       *)

\* A newer version keeps the ids it had and ends with all of them
\* (OutputBuffers.checkValidTransition); an older one, or one that comes after
\* the end, is ignored.
SetOutputBuffers(ids, noMore) ==
    /\ pc[Update] = "idle" /\ lock = None
    /\ ~isTerminal(state)
    /\ ~noMoreIds
    /\ declared \subseteq ids /\ (noMore => ids = Id) /\ (noMore \/ ids # declared)
    /\ declared' = ids
    /\ noMoreIds' = noMore
    /\ seen' = state
    /\ todo' = [todo EXCEPT ![Update] = ids \ DOMAIN buffers]
    /\ lock' = Update
    /\ Go(Update, "adding")
    /\ UNCHANGED <<state, store, page, history>>

\* The loop over the new ids; the state is read again by getBuffer, while the
\* test after it uses the state that was read at the start.
AddBuffer(id) ==
    /\ pc[Update] = "adding" /\ id \in todo[Update]
    /\ mayCreate
    /\ create(id, IF canAddPages(seen) THEN newBuffer(id) ELSE setNoMorePages(newBuffer(id)))
    /\ todo' = [todo EXCEPT ![Update] = @ \ {id}]
    /\ UNCHANGED <<state, declaration, initialPages, lock, pc, locals, task>>

\* The task ended since the start of the update: "No more buffers already set".
AddBufferThrows ==
    /\ pc[Update] = "adding" /\ todo[Update] # {}
    /\ ~mayCreate
    /\ todo' = [todo EXCEPT ![Update] = {}]
    /\ lock' = None /\ seen' = "OPEN"
    /\ Go(Update, "idle")
    /\ UNCHANGED <<state, declaration, store, page, history>>

\* After the loop: the first compareAndSet, if this was the final declaration.
BuffersAdded ==
    /\ pc[Update] = "adding" /\ todo[Update] = {}
    /\ IF noMoreIds
       THEN /\ state' = compareAndSet("OPEN", "NO_MORE_BUFFERS")
            /\ UNCHANGED lock
            /\ Go(Update, "cas")
       ELSE /\ lock' = None
            /\ UNCHANGED state
            /\ Go(Update, "unlocked")
    /\ seen' = "OPEN"
    /\ UNCHANGED <<declaration, store, todo, page, history>>

\* The second compareAndSet and the end of the critical section.
BuffersFlushing ==
    /\ pc[Update] = "cas"
    /\ state' = compareAndSet("NO_MORE_PAGES", "FLUSHING")
    /\ lock' = None
    /\ Go(Update, "unlocked")
    /\ UNCHANGED <<declaration, store, todo, locals, history>>

\* Mutant: an update does not look for the end of the flush.
afterUpdate_NoFlush == "idle"

\* What setOutputBuffers does after its critical section.
afterUpdate == IF canAddBuffers(state) THEN "flush1" ELSE "noMoreBuffers"

BuffersUnlocked ==
    /\ pc[Update] = "unlocked"
    /\ Go(Update, afterUpdate)
    /\ UNCHANGED <<state, declaration, store, lock, todo, locals, history>>

NoMoreBuffers ==
    /\ pc[Update] = "noMoreBuffers" /\ lock = None
    /\ noMoreBuffers
    /\ Go(Update, "flush1")
    /\ UNCHANGED <<state, declaration, buffers, lock, todo, locals, history>>

-----------------------------------------------------------------------------
(* The consumers.                                                          *)

\* getBuffer on behalf of get, acknowledge or abort, for a consumer that comes
\* before its declaration.
GetBuffer(id) ==
    /\ lock = None
    /\ id \notin DOMAIN buffers
    /\ mayCreate
    /\ create(id, newBuffer(id))
    /\ UNCHANGED <<state, declaration, initialPages, lock, thread, task>>

\* get and acknowledge: pages that the consumer has are dropped.
Acknowledge(id, sequenceId) ==
    /\ id \in DOMAIN buffers
    /\ ~buffers[id].destroyed
    /\ buffers' = [buffers EXCEPT ![id] = acknowledgePages(@, sequenceId)]
    /\ refs' = dereference(SubSeq(buffers[id].pages, 1, sequenceId - buffers[id].currentSequenceId))
    /\ UNCHANGED <<state, declaration, initialPages, lock, thread, history>>

\* abort(bufferId), after getBuffer: the buffer is destroyed.
Abort(id) ==
    /\ pc[id] = "idle"
    /\ id \in DOMAIN buffers
    /\ destroyOn(id)
    /\ Go(id, "flush1")
    /\ UNCHANGED <<state, declaration, initialPages, lock, todo, locals, history>>

-----------------------------------------------------------------------------
(* checkFlushComplete and destroy, called by threads of several kinds.     *)

\* The state is read twice.
CheckFlushComplete(t) ==
    /\ \/ /\ pc[t] = "flush1"
          /\ Go(t, IF state = "FLUSHING" THEN "flushSnapshot" ELSE "flush2")
       \/ /\ pc[t] = "flush2"
          /\ Go(t, IF state = "NO_MORE_BUFFERS" THEN "flushSnapshot" ELSE "idle")
    /\ UNCHANGED <<state, declaration, store, lock, todo, locals, history>>

\* Mutant: one destroyed buffer is enough.
allDestroyed_Any(ids) == \E id \in ids : buffers[id].destroyed

allDestroyed(ids) == \A id \in ids : buffers[id].destroyed

\* safeGetBuffersSnapshot; then, later, the buffers of the snapshot are examined.
\* A buffer that is destroyed stays so, hence the examination and the setIf of
\* destroy are one step.
FlushSnapshot(t) ==
    /\ pc[t] = "flushSnapshot" /\ lock = None
    /\ todo' = [todo EXCEPT ![t] = DOMAIN buffers]
    /\ Go(t, "flushDecide")
    /\ UNCHANGED <<state, declaration, store, lock, locals, history>>

FlushDecide(t) ==
    /\ pc[t] = "flushDecide"
    /\ IF allDestroyed(todo[t]) /\ ~isTerminal(state)
       THEN state' = "FINISHED" /\ Go(t, "destroyNoMore")
       ELSE UNCHANGED state /\ Go(t, "idle")
    /\ todo' = [todo EXCEPT ![t] = {}]
    /\ UNCHANGED <<declaration, store, lock, locals, history>>

\* destroy after its setIf: noMoreBuffers, a snapshot, and the buffers of it.
DestroyNoMore(t) ==
    /\ pc[t] = "destroyNoMore" /\ lock = None
    /\ noMoreBuffers
    /\ Go(t, "destroySnapshot")
    /\ UNCHANGED <<state, declaration, buffers, lock, todo, locals, history>>

DestroySnapshot(t) ==
    /\ pc[t] = "destroySnapshot" /\ lock = None
    /\ Visit(t, DOMAIN buffers, "destroying", "idle")
    /\ UNCHANGED <<state, declaration, store, lock, locals, history>>

DestroyBuffer(t, id) ==
    /\ pc[t] = "destroying" /\ id \in todo[t]
    /\ destroyOn(id)
    /\ Visit(t, todo[t] \ {id}, "destroying", "idle")
    /\ UNCHANGED <<state, declaration, initialPages, lock, locals, history>>

-----------------------------------------------------------------------------
(* The task: setNoMorePages, destroy and fail.                             *)

\* Mutant: the two transitions of setNoMorePages in the other order.
transition_Swapped(n) ==
    IF n = 1 THEN compareAndSet("NO_MORE_BUFFERS", "FLUSHING")
             ELSE compareAndSet("OPEN", "NO_MORE_PAGES")

\* The two transitions of setNoMorePages.
transition(n) ==
    IF n = 1 THEN compareAndSet("OPEN", "NO_MORE_PAGES")
             ELSE compareAndSet("NO_MORE_BUFFERS", "FLUSHING")

\* checkTaskCompletion goes on when the task is not done and no driver is left.
\* It may run again, and the task may end before it calls setNoMorePages.
CheckTaskCompletion ==
    /\ pc[Finish] = "idle"
    /\ state # "FAILED" /\ ~cancelled
    /\ \A d \in Driver : pc[d] = "idle"
    /\ outputDone' = TRUE
    /\ Go(Finish, "completing")
    /\ UNCHANGED <<state, declaration, store, lock, todo, locals, enqueued, delivered, cancelled>>

SetNoMorePages ==
    /\ pc[Finish] = "completing"
    /\ state' = transition(1)
    /\ Go(Finish, "noMorePages")
    /\ UNCHANGED <<declaration, store, lock, todo, locals, history>>

PagesFlushing ==
    /\ pc[Finish] = "noMorePages"
    /\ state' = transition(2)
    /\ Go(Finish, "pagesSnapshot")
    /\ UNCHANGED <<declaration, store, lock, todo, locals, history>>

PagesSnapshot ==
    /\ pc[Finish] = "pagesSnapshot" /\ lock = None
    /\ Visit(Finish, DOMAIN buffers, "setting", "flush1")
    /\ UNCHANGED <<state, declaration, store, lock, locals, history>>

SetNoMorePagesOn(id) ==
    /\ pc[Finish] = "setting" /\ id \in todo[Finish]
    /\ buffers' = [buffers EXCEPT ![id] = setNoMorePages(@)]
    /\ Visit(Finish, todo[Finish] \ {id}, "setting", "flush1")
    /\ UNCHANGED <<state, declaration, initialPages, refs, lock, locals, history>>

\* The task ends (SqlTask.java:195-203): a failed one fails its buffer, any
\* other destroys it.
Fail ==
    /\ ~isTerminal(state)
    /\ state' = "FAILED"
    /\ UNCHANGED <<declaration, store, lock, thread, history>>

Destroy ==
    /\ pc[Cancel] = "idle"
    /\ ~isTerminal(state)
    /\ state' = "FINISHED"
    /\ cancelled' = TRUE
    /\ Go(Cancel, "destroyNoMore")
    /\ UNCHANGED <<declaration, store, lock, todo, locals, enqueued, delivered, outputDone>>

-----------------------------------------------------------------------------
DriverStep(d) ==
    \/ \E p \in Page : Enqueue(d, p)
    \/ Remember(d)
    \/ \E id \in Id : EnqueuePages(d, id)
    \/ EnqueueReturns(d)

UpdateStep ==
    \/ \E id \in Id : AddBuffer(id)
    \/ AddBufferThrows
    \/ BuffersAdded
    \/ BuffersFlushing
    \/ BuffersUnlocked
    \/ NoMoreBuffers

FinishStep ==
    \/ SetNoMorePages
    \/ PagesFlushing
    \/ PagesSnapshot
    \/ \E id \in Id : SetNoMorePagesOn(id)

FlushStep(t) ==
    \/ CheckFlushComplete(t)
    \/ FlushSnapshot(t)
    \/ FlushDecide(t)
    \/ DestroyNoMore(t)
    \/ DestroySnapshot(t)
    \/ \E id \in Id : DestroyBuffer(t, id)

Next ==
    \/ \E d \in Driver : DriverStep(d)
    \/ \E ids \in SUBSET Id, noMore \in BOOLEAN : SetOutputBuffers(ids, noMore)
    \/ UpdateStep
    \/ \E id \in Id : GetBuffer(id) \/ Abort(id)
    \/ \E id \in DOMAIN buffers :
           \E n \in 0 .. Len(buffers[id].pages) :
               Acknowledge(id, buffers[id].currentSequenceId + n)
    \/ CheckTaskCompletion
    \/ FinishStep
    \/ \E t \in Thread : FlushStep(t)
    \/ Fail
    \/ Destroy

Spec == Init /\ [][Next]_vars

\* A call that was made goes on: threads are scheduled and locks are fair
\* enough.  Nothing is assumed about calls that nobody has made.
Fairness ==
    /\ WF_vars(UpdateStep)
    /\ WF_vars(FinishStep)
    /\ \A t \in Thread : WF_vars(FlushStep(t))

FairSpec == Spec /\ Fairness

-----------------------------------------------------------------------------
(* What the buffer promises.                                               *)

Once(ps) == \A i, j \in DOMAIN ps : ps[i] = ps[j] => i = j

HasAllPages(id) == {delivered[id][i] : i \in DOMAIN delivered[id]} = enqueued

\* Each page goes into each consumer's buffer at most once, whether the buffer
\* was there when the page came (doEnqueue's snapshot) or came later (getBuffer's
\* initial pages), and a buffer whose reader may be told "complete" has had all
\* of them.  In the state FAILED see NoCompleteBufferLacksPages.
EveryBufferGetsEveryPage ==
    \A id \in DOMAIN buffers :
        /\ Once(delivered[id])
        /\ buffers[id].noMorePages /\ ~buffers[id].destroyed /\ state # "FAILED" => HasAllPages(id)

\* The comment of getBuffer (line 402), "set no more pages only if not FAILED,
\* because this allows clients to FINISH": no reader is ever told "complete" by
\* a buffer that lacks pages, failed or not.
NoCompleteBufferLacksPages ==
    \A id \in DOMAIN buffers :
        buffers[id].noMorePages /\ ~buffers[id].destroyed => HasAllPages(id)

\* The reference count of a page is the number of its holders: the driver that
\* enqueues it, initialPagesForNewBuffers and the client buffers.  So no page is
\* used after its release and no count goes below zero.
ReferencesCounted ==
    \A p \in Page :
        refs[p] = Cardinality({d \in Driver : page[d] = p})
                  + occurrences(initialPages, p)
                  + Cardinality({id \in DOMAIN buffers :
                                     occurrences(buffers[id].pages, p) > 0})

Quiet == \A t \in Thread : pc[t] = "idle"

\* When a finished buffer is quiet, every page was released: the memory that
\* doEnqueue reserved is given back, whatever was under way at the time.
NoPageLeaks == state = "FINISHED" /\ Quiet => \A p \in Page : refs[p] = 0

AllConsumed == noMoreIds /\ DOMAIN buffers = Id /\ \A id \in Id : buffers[id].destroyed

\* The buffer finishes by itself only when all consumers were declared and every
\* one of them has aborted its buffer (checkFlushComplete), although the buffers
\* are examined outside the lock while others may be created.
FinishedMeansConsumed ==
    [][state' = "FINISHED" /\ state # "FINISHED" /\ ~cancelled' => AllConsumed]_vars

\* The two compareAndSets of setOutputBuffers and of setNoMorePages meet in
\* FLUSHING in every order.
BothEndsMeanFlushing ==
    /\ noMoreIds /\ pc[Update] \notin {"adding", "cas"}
    /\ outputDone /\ pc[Finish] \notin {"completing", "noMorePages"}
    => state = "FLUSHING" \/ isTerminal(state)

\* When all consumers are declared and have aborted their buffers, the buffer
\* finishes, although the state is read twice and the buffers are examined
\* outside the lock.
EventuallyFinished ==
    AllConsumed ~> isTerminal(state)
=============================================================================
