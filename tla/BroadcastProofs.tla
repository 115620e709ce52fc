--------------------------- MODULE BroadcastProofs ---------------------------
(***************************************************************************)
(* Proofs about the broadcast buffer.  First its state machine: how it     *)
(* moves while several threads work on it, and what the place where each   *)
(* thread is tells about it.  Then its pages: every consumer gets every    *)
(* page, wherever the drivers, the updates of the coordinator, the         *)
(* consumers and the end of the task meet, and a finished buffer gives up  *)
(* its pages.  Then the counters: that of a page is the number of the      *)
(* driver, the list for new buffers and the client buffers that hold it,   *)
(* and it is zero when a finished buffer is quiet.                         *)
(***************************************************************************)
EXTENDS BroadcastOutputBuffer, TLAPS

-----------------------------------------------------------------------------
(* The state machine *)

\* The labels that say something about the state.
Meaningful == {"adding", "cas", "flushSnapshot", "flushDecide", "completing", "noMorePages"}

Shape ==
    /\ state \in State
    /\ pc \in [Thread -> Pc] /\ todo \in [Thread -> SUBSET Id]
    /\ DOMAIN buffers \subseteq Id
    /\ noMoreIds \in BOOLEAN /\ (noMoreIds => declared = Id)

\* The final declaration has created all buffers when the state tells of it.
AllCreated == noMoreIds /\ DOMAIN buffers = Id

Declaring ==
    /\ pc[Update] = "adding" => declared \subseteq DOMAIN buffers \cup todo[Update]
    /\ pc[Update] = "cas" => AllCreated
    /\ state \in {"NO_MORE_BUFFERS", "FLUSHING"} => AllCreated

\* checkFlushComplete looks at the buffers only once all exist.
Flushing == \A t \in Thread :
    /\ pc[t] = "flushSnapshot" => ~canAddBuffers(state)
    /\ pc[t] = "flushDecide" => isTerminal(state) \/ (~canAddBuffers(state) /\ todo[t] = Id)

\* How far setOutputBuffers and setNoMorePages have driven the state.
BuffersEnd ==
    noMoreIds => /\ pc[Update] # "adding" => state # "OPEN"
                 /\ pc[Update] \notin {"adding", "cas"} => ~canAddBuffers(state)
PagesEnd ==
    outputDone => /\ pc[Finish] # "completing" => state # "OPEN"
                  /\ pc[Finish] \notin {"completing", "noMorePages"} => ~canAddPages(state)

StateInv == Shape /\ Declaring /\ Flushing /\ BuffersEnd /\ PagesEnd

\* What a page loses when one of its three kinds of holders lets it go.
LEMMA Balance ==
    ASSUME NEW c \in {0, 1}, NEW k \in {0, 1}, NEW n \in Nat
    PROVE  /\ c + k + n \in Nat /\ (c + k + n) - 0 = c + k + n
           /\ 0 + k + n \in Nat /\ (c = 1 => (c + k + n) - 1 = 0 + k + n)
           /\ c + 0 + n \in Nat /\ (c + k + n) - k = c + 0 + n
  OBVIOUS

\* A token n pages ahead of a buffer's own.
LEMMA Ahead ==
    ASSUME NEW a \in Nat, NEW s \in Seq(Page), NEW n \in 0 .. Len(s)
    PROVE  /\ (a + n) - a = n /\ (a + n) - a + 1 = n + 1 /\ ~(a + n < a)
  OBVIOUS

\* A new buffer is open, and every thread idle.
LEMMA StateStart == Init => StateInv
  <1> SUFFICES ASSUME Init PROVE StateInv
    OBVIOUS
  <1>1. Shape
    BY Zenon DEF Init, Shape, State, Pc
  <1>2. \A t \in Thread : pc[t] = "idle"
    BY DEF Init
  <1>3. pc[Update] = "idle" /\ pc[Finish] = "idle"
    BY <1>2 DEF Thread
  <1> QED
    BY <1>1, <1>2, <1>3 DEF Init, StateInv, Declaring, Flushing, BuffersEnd, PagesEnd

\* Every step keeps the invariant of the state machine.
LEMMA NextKeepsState == StateInv /\ [Next]_vars => StateInv'
  \* Moving one thread keeps the labels and the work lists typed.
  <1>Typed.
        ASSUME Shape, NEW t \in Thread, NEW label \in Pc, NEW ids \in SUBSET Id
        PROVE  /\ [pc EXCEPT ![t] = label] \in [Thread -> Pc]
               /\ [todo EXCEPT ![t] = ids] \in [Thread -> SUBSET Id]
    BY <1>Typed, Zenon DEF Shape
  \* A step of thread t between labels that say nothing.
  <1>PlainStep.
        ASSUME StateInv, NEW t \in Thread,
               UNCHANGED <<state, declared, noMoreIds, outputDone>>,
               DOMAIN buffers' = DOMAIN buffers,
               pc[t] \notin {"adding", "cas", "completing", "noMorePages"},
               NEW label, pc' = [pc EXCEPT ![t] = label], label \in Pc \ Meaningful,
               todo' = todo \/ \E ids \in SUBSET Id : todo' = [todo EXCEPT ![t] = ids]
        PROVE  StateInv'
    <2> USE <1>PlainStep
    <2>1. Update \in Thread /\ Finish \in Thread
      BY DEF Thread
    <2>2. Shape'
      BY DEF StateInv, Shape
    <2>3. \A u \in Thread : u # t => pc'[u] = pc[u] /\ todo'[u] = todo[u]
      BY DEF StateInv, Shape
    <2>4. pc'[t] = label
      BY DEF StateInv, Shape
    <2>5. Declaring'
      BY <2>1, <2>3, <2>4 DEF StateInv, Declaring, AllCreated, Meaningful
    <2>6. Flushing'
      BY <2>3, <2>4 DEF StateInv, Flushing, Meaningful, canAddBuffers, isTerminal
    <2>7. BuffersEnd' /\ PagesEnd'
      BY <2>1, <2>3, <2>4 DEF StateInv, BuffersEnd, PagesEnd, Meaningful, canAddBuffers, canAddPages
    <2> QED
      BY <2>2, <2>5, <2>6, <2>7 DEF StateInv
  \* A step that changes nothing that StateInv is about but the buffers of the map.
  <1>QuietStep.
        ASSUME StateInv, UNCHANGED <<state, declared, noMoreIds, outputDone, pc, todo>>,
               DOMAIN buffers' = DOMAIN buffers
        PROVE  StateInv'
    BY <1>QuietStep DEF StateInv, Shape, Declaring, AllCreated, Flushing, BuffersEnd, PagesEnd,
       canAddBuffers, canAddPages, isTerminal
  \* A buffer that is created leaves the state as it is.
  <1>CreateStep.
        ASSUME StateInv, UNCHANGED <<state, declared, noMoreIds, outputDone, pc>>,
               NEW id \in Id, DOMAIN buffers' = DOMAIN buffers \cup {id},
               \/ todo' = todo
               \/ pc[Update] = "adding" /\ todo' = [todo EXCEPT ![Update] = @ \ {id}]
        PROVE  StateInv'
    <2> USE <1>CreateStep
    <2>1. Update \in Thread
      BY DEF Thread
    <2>2. Shape'
      BY DEF StateInv, Shape
    <2>3. \A u \in Thread : u # Update => todo'[u] = todo[u]
      BY DEF StateInv, Shape
    <2>4. \/ todo'[Update] = todo[Update]
          \/ pc[Update] = "adding" /\ todo'[Update] = todo[Update] \ {id}
      BY <2>1 DEF StateInv, Shape
    <2>5. Declaring'
      BY <2>1, <2>2, <2>4 DEF StateInv, Shape, Declaring, AllCreated
    <2>6. Flushing'
      BY <2>3, <2>4 DEF StateInv, Flushing, canAddBuffers, isTerminal
    <2>7. BuffersEnd' /\ PagesEnd'
      BY DEF StateInv, BuffersEnd, PagesEnd, canAddBuffers, canAddPages
    <2> QED
      BY <2>2, <2>5, <2>6, <2>7 DEF StateInv
  \* A step of thread t to a terminal state, to a label that says nothing.
  <1>EndStep.
        ASSUME StateInv, UNCHANGED <<declared, noMoreIds, outputDone, buffers>>,
               isTerminal(state'),
               \/ pc' = pc /\ todo' = todo
               \/ \E t \in Thread, label \in Pc \ Meaningful :
                     /\ pc' = [pc EXCEPT ![t] = label]
                     /\ pc[t] \notin {"adding", "cas", "completing", "noMorePages"}
                     /\ \/ todo' = todo \/ todo' = [todo EXCEPT ![t] = {}]
        PROVE  StateInv'
    <2> USE <1>EndStep
    <2>1. Update \in Thread /\ Finish \in Thread
      BY DEF Thread
    <2>2. Shape'
      BY DEF StateInv, Shape, State, isTerminal
    <2>3. \A u \in Thread : \/ pc'[u] = pc[u] /\ todo'[u] = todo[u]
                            \/ pc'[u] \notin Meaningful
      BY DEF StateInv, Shape
    <2>4. Declaring'
      BY <2>1, <2>3 DEF StateInv, Declaring, AllCreated, isTerminal, Meaningful
    <2>5. Flushing'
      BY <2>3 DEF StateInv, Flushing, isTerminal, canAddBuffers, Meaningful
    <2>6. BuffersEnd' /\ PagesEnd'
      BY DEF BuffersEnd, PagesEnd, isTerminal, canAddBuffers, canAddPages
    <2> QED
      BY <2>2, <2>4, <2>5, <2>6 DEF StateInv
  \* enqueue leaves the state of the buffer alone.
  <1>DriverKeepsState.
        ASSUME StateInv, NEW d \in Driver, DriverStep(d) PROVE StateInv'
    <2> USE <1>DriverKeepsState
    <2>1. d \in Thread
      BY DEF Thread
    <2>2. CASE \E p \in Page : Enqueue(d, p)
      BY <2>1, <2>2, <1>PlainStep, Zenon DEF Enqueue, Go, declaration, Meaningful, Pc
    <2>3. CASE Remember(d)
      <3>1. DOMAIN buffers \in SUBSET Id
        BY DEF StateInv, Shape
      <3> QED
        BY <2>1, <2>3, <3>1, <1>PlainStep, Zenon
           DEF Remember, Go, declaration, history, task, Meaningful, Pc
    <2>4. ASSUME NEW id \in Id, EnqueuePages(d, id) PROVE StateInv'
      <3>1. /\ UNCHANGED <<state, declared, noMoreIds, outputDone>> /\ DOMAIN buffers' = DOMAIN buffers
            /\ pc' = [pc EXCEPT ![d] = "enqueue"] /\ pc[d] = "enqueue"
            /\ todo' = [todo EXCEPT ![d] = todo[d] \ {id}] /\ todo[d] \ {id} \in SUBSET Id
        BY <2>1, <2>4 DEF EnqueuePages, enqueueOn, declaration, task, StateInv, Shape
      <3> QED
        BY <2>1, <3>1, <1>PlainStep, Zenon DEF Meaningful, Pc
    <2>5. CASE EnqueueReturns(d)
      BY <2>1, <2>5, <1>PlainStep, Zenon
         DEF EnqueueReturns, Go, declaration, history, task, Meaningful, Pc
    <2> QED
      BY <2>2, <2>3, <2>4, <2>5 DEF DriverStep
  \* setOutputBuffers takes over the ids and whether they are the last.
  <1>SetOutputBuffersKeepsState.
        ASSUME StateInv, NEW ids \in SUBSET Id, NEW noMore \in BOOLEAN, SetOutputBuffers(ids, noMore)
        PROVE  StateInv'
    <2> USE <1>SetOutputBuffersKeepsState
    <2> USE DEF SetOutputBuffers, Go, store, history, task, StateInv
    <2>1. Update \in Thread /\ Finish \in Thread /\ Update # Finish
      BY DEF Thread, Update, Finish
    <2>2. /\ pc'[Update] = "adding" /\ todo'[Update] = ids \ DOMAIN buffers
          /\ \A u \in Thread : u # Update => pc'[u] = pc[u] /\ todo'[u] = todo[u]
      BY <2>1 DEF Shape
    <2>3. /\ state' = state /\ buffers' = buffers /\ outputDone' = outputDone /\ declared' = ids
          /\ noMoreIds' = noMore /\ noMoreIds = FALSE /\ (noMore => ids = Id)
      BY DEF Shape
    <2>4. Shape'
      <3>1. ids \ DOMAIN buffers \in SUBSET Id /\ "adding" \in Pc
        BY DEF Pc
      <3>2. pc' \in [Thread -> Pc] /\ todo' \in [Thread -> SUBSET Id]
        BY <2>1, <3>1, <1>Typed, Zenon
      <3> HIDE DEF SetOutputBuffers
      <3> QED
        BY <2>3, <3>1, <3>2 DEF Shape
    <2>5. Declaring'
      BY <2>2, <2>3 DEF Declaring, AllCreated
    <2>6. Flushing'
      BY <2>2, <2>3 DEF Flushing, canAddBuffers, isTerminal
    <2>7. BuffersEnd' /\ PagesEnd'
      BY <2>1, <2>2, <2>3 DEF BuffersEnd, PagesEnd, canAddBuffers, canAddPages
    <2> QED
      BY <2>4, <2>5, <2>6, <2>7
  \* The rest of setOutputBuffers: the missing buffers, then the state, then the flush check.
  <1>UpdateKeepsState.
        ASSUME StateInv, UpdateStep PROVE StateInv'
    <2> USE <1>UpdateKeepsState
    <2>1. Update \in Thread /\ Finish \in Thread /\ Update # Finish
      BY DEF Thread, Update, Finish
    <2>2. ASSUME NEW id \in Id, AddBuffer(id) PROVE StateInv'
      BY <2>2, <1>CreateStep, Zenon DEF AddBuffer, create, declaration, task
    <2>3. CASE AddBufferThrows
      <3> USE <2>3 DEF AddBufferThrows, Go, declaration, store, history, task, mayCreate, StateInv
      <3>1. /\ pc'[Update] = "idle"
            /\ \A u \in Thread : u # Update => pc'[u] = pc[u] /\ todo'[u] = todo[u]
        BY <2>1 DEF Shape
      <3>2. Shape'
        BY Zenon DEF Shape, Pc
      <3>3. Declaring' /\ Flushing'
        BY <3>1 DEF Declaring, AllCreated, Flushing, canAddBuffers, isTerminal
      <3>4. BuffersEnd' /\ PagesEnd'
        BY <2>1, <3>1 DEF BuffersEnd, PagesEnd, canAddBuffers, canAddPages
      <3> QED
        BY <3>2, <3>3, <3>4
    <2>4. CASE BuffersAdded
      <3> USE <2>4 DEF BuffersAdded, Go, declaration, store, history, task, compareAndSet, StateInv
      <3>1. /\ pc'[Update] = IF noMoreIds THEN "cas" ELSE "unlocked"
            /\ \A u \in Thread : u # Update => pc'[u] = pc[u]
        BY <2>1 DEF Shape
      <3>2. state' = IF noMoreIds /\ state = "OPEN" THEN "NO_MORE_BUFFERS" ELSE state
        OBVIOUS
      <3>3. UNCHANGED <<buffers, todo, declared, noMoreIds, outputDone>>
        OBVIOUS
      <3>4. noMoreIds => AllCreated
        BY DEF Shape, Declaring, AllCreated
      <3>5. Shape'
        <4>1. pc' \in [Thread -> Pc]
          BY Zenon DEF Shape, Pc
        <4> QED
          BY <3>2, <3>3, <4>1 DEF Shape, State
      <3>6. Declaring'
        BY <3>1, <3>2, <3>3, <3>4 DEF Declaring, AllCreated
      <3>7. Flushing'
        BY <3>1, <3>2, <3>3 DEF Flushing, canAddBuffers, isTerminal
      <3>8. BuffersEnd' /\ PagesEnd'
        BY <2>1, <3>1, <3>2, <3>3 DEF BuffersEnd, PagesEnd, canAddBuffers, canAddPages
      <3> QED
        BY <3>5, <3>6, <3>7, <3>8
    <2>5. CASE BuffersFlushing
      <3> USE <2>5 DEF BuffersFlushing, Go, declaration, store, history, task, compareAndSet, StateInv
      <3>1. /\ pc'[Update] = "unlocked"
            /\ \A u \in Thread : u # Update => pc'[u] = pc[u]
        BY <2>1 DEF Shape
      <3>2. state' = IF state = "NO_MORE_PAGES" THEN "FLUSHING" ELSE state
        OBVIOUS
      <3>3. UNCHANGED <<buffers, todo, declared, noMoreIds, outputDone>>
        OBVIOUS
      <3>4. AllCreated
        BY DEF Declaring
      <3>5. Shape'
        <4>1. pc' \in [Thread -> Pc]
          BY Zenon DEF Shape, Pc
        <4> QED
          BY <3>2, <3>3, <4>1 DEF Shape, State
      <3>6. Declaring'
        BY <3>1, <3>3, <3>4 DEF Declaring, AllCreated
      <3>7. Flushing'
        BY <3>1, <3>2, <3>3 DEF Flushing, canAddBuffers, isTerminal
      <3>8. BuffersEnd' /\ PagesEnd'
        BY <2>1, <3>1, <3>2, <3>3 DEF BuffersEnd, PagesEnd, canAddBuffers, canAddPages
      <3> QED
        BY <3>5, <3>6, <3>7, <3>8
    <2>6. CASE BuffersUnlocked
      <3>1. afterUpdate \in Pc \ Meaningful
        BY DEF afterUpdate, Pc, Meaningful
      <3> QED
        BY <2>1, <2>6, <3>1, <1>PlainStep, Zenon
           DEF BuffersUnlocked, Go, declaration, store, history, task
    <2>7. CASE NoMoreBuffers
      BY <2>1, <2>7, <1>PlainStep, Zenon
         DEF NoMoreBuffers, Go, declaration, history, task, Pc, Meaningful
    <2> QED
      BY <2>2, <2>3, <2>4, <2>5, <2>6, <2>7, Zenon DEF UpdateStep
  \* get, acknowledge and abort do not move the state.
  <1>ConsumerKeepsState.
        ASSUME StateInv, NEW id \in Id,
               \/ GetBuffer(id) \/ Abort(id)
               \/ \E sequenceId : Acknowledge(id, sequenceId)
        PROVE  StateInv'
    <2> USE <1>ConsumerKeepsState
    <2>1. CASE GetBuffer(id)
      BY <2>1, <1>CreateStep, Zenon DEF GetBuffer, create, declaration, thread, task
    <2>2. CASE Abort(id)
      <3>1. id \in Thread /\ DOMAIN buffers' = DOMAIN buffers
        BY <2>2 DEF Thread, Abort, destroyOn
      <3> QED
        BY <2>2, <3>1, <1>PlainStep, Zenon DEF Abort, Go, declaration, history, task, Pc, Meaningful
    <2>3. CASE \E sequenceId : Acknowledge(id, sequenceId)
      <3>1. DOMAIN buffers' = DOMAIN buffers
        BY <2>3 DEF Acknowledge
      <3> QED
        BY <2>3, <3>1, <1>QuietStep, Zenon DEF Acknowledge, declaration, thread, history, task
    <2> QED
      BY <2>1, <2>2, <2>3
  \* checkFlushComplete and destroy: the buffers as they were read, then the decision.
  <1>FlushKeepsState.
        ASSUME StateInv, NEW t \in Thread, FlushStep(t) PROVE StateInv'
    <2> USE <1>FlushKeepsState
    <2>1. Update \in Thread /\ Finish \in Thread
      BY DEF Thread
    <2>2. CASE CheckFlushComplete(t)
      <3> USE <2>2 DEF CheckFlushComplete, Go, declaration, store, history, task
      <3>1. CASE pc' = [pc EXCEPT ![t] = "flushSnapshot"]
        <4> USE <3>1 DEF StateInv
        <4>1. pc[t] \in {"flush1", "flush2"} /\ state \in {"FLUSHING", "NO_MORE_BUFFERS"}
          <5>1. \/ /\ pc[t] = "flush1"
                   /\ pc'[t] = IF state = "FLUSHING" THEN "flushSnapshot" ELSE "flush2"
                \/ /\ pc[t] = "flush2"
                   /\ pc'[t] = IF state = "NO_MORE_BUFFERS" THEN "flushSnapshot" ELSE "idle"
            BY Zenon DEF Shape
          <5>2. pc'[t] = "flushSnapshot"
            BY Zenon DEF Shape
          <5> HIDE DEF CheckFlushComplete
          <5> QED
            BY <5>1, <5>2
        <4>2. \A u \in Thread : u # t => pc'[u] = pc[u]
          BY DEF Shape
        <4>3. pc'[t] = "flushSnapshot"
          BY DEF Shape
        <4>4. UNCHANGED <<state, declared, noMoreIds, outputDone, todo, buffers>>
          OBVIOUS
        <4>5. Shape'
          <5> HIDE DEF CheckFlushComplete
          <5>1. "flushSnapshot" \in Pc /\ {} \in SUBSET Id
            BY DEF Pc
          <5>2. [pc EXCEPT ![t] = "flushSnapshot"] \in [Thread -> Pc]
            BY <5>1, <1>Typed, Zenon
          <5> QED
            BY <3>1, <4>4, <5>2, Zenon DEF Shape
        <4>6. Declaring' /\ Flushing'
          BY <2>1, <4>1, <4>2, <4>3, <4>4
             DEF Declaring, AllCreated, Flushing, canAddBuffers, isTerminal
        <4>7. BuffersEnd' /\ PagesEnd'
          BY <2>1, <4>1, <4>2, <4>3, <4>4 DEF BuffersEnd, PagesEnd, canAddBuffers, canAddPages
        <4> QED
          BY <4>5, <4>6, <4>7
      <3>2. CASE pc' = [pc EXCEPT ![t] = "flush2"] \/ pc' = [pc EXCEPT ![t] = "idle"]
        BY <3>2, <1>PlainStep, Zenon DEF Pc, Meaningful
      <3> QED
        BY <3>1, <3>2, Zenon
    <2>3. CASE FlushSnapshot(t)
      <3> USE <2>3 DEF FlushSnapshot, Go, declaration, store, history, task, StateInv
      <3>1. /\ pc'[t] = "flushDecide" /\ todo'[t] = DOMAIN buffers
            /\ \A u \in Thread : u # t => pc'[u] = pc[u] /\ todo'[u] = todo[u]
        BY DEF Shape
      <3>2. UNCHANGED <<state, declared, noMoreIds, outputDone, buffers>>
        OBVIOUS
      <3>3. isTerminal(state) \/ (~canAddBuffers(state) /\ DOMAIN buffers = Id)
        BY DEF Shape, Flushing, Declaring, AllCreated, State, canAddBuffers, isTerminal
      <3>4. Shape'
        <4>1. DOMAIN buffers \in SUBSET Id /\ "flushDecide" \in Pc
          BY DEF Shape, Pc
        <4>2. pc' \in [Thread -> Pc] /\ todo' \in [Thread -> SUBSET Id]
          BY <4>1, <1>Typed, Zenon
        <4> HIDE DEF FlushSnapshot
        <4> QED
          BY <3>2, <4>2 DEF Shape
      <3>5. Declaring' /\ Flushing'
        BY <2>1, <3>1, <3>2, <3>3 DEF Declaring, AllCreated, Flushing, canAddBuffers, isTerminal
      <3>6. BuffersEnd' /\ PagesEnd'
        BY <2>1, <3>1, <3>2 DEF BuffersEnd, PagesEnd, canAddBuffers, canAddPages
      <3> QED
        BY <3>4, <3>5, <3>6
    <2>4. CASE FlushDecide(t)
      <3> USE <2>4 DEF FlushDecide, Go, declaration, store, history, task
      <3>1. CASE state' = "FINISHED" /\ pc' = [pc EXCEPT ![t] = "destroyNoMore"]
        BY <3>1, <1>EndStep, Zenon DEF isTerminal, Pc, Meaningful
      <3>2. CASE state' = state /\ pc' = [pc EXCEPT ![t] = "idle"]
        BY <3>2, <1>PlainStep, Zenon DEF Pc, Meaningful
      <3> QED
        BY <3>1, <3>2, Zenon
    <2>5. CASE DestroyNoMore(t)
      BY <2>5, <1>PlainStep, Zenon DEF DestroyNoMore, Go, declaration, history, task, Pc, Meaningful
    <2>6. CASE DestroySnapshot(t)
      <3>1. DOMAIN buffers \in SUBSET Id
        BY DEF StateInv, Shape
      <3>2. (IF DOMAIN buffers = {} THEN "idle" ELSE "destroying") \in Pc \ Meaningful
        BY DEF Pc, Meaningful
      <3> QED
        BY <2>6, <3>1, <3>2, <1>PlainStep, Zenon
           DEF DestroySnapshot, Visit, Go, declaration, store, history, task
    <2>7. ASSUME NEW id \in Id, DestroyBuffer(t, id) PROVE StateInv'
      <3>1. todo[t] \ {id} \in SUBSET Id
        BY DEF StateInv, Shape
      <3>2. (IF todo[t] \ {id} = {} THEN "idle" ELSE "destroying") \in Pc \ Meaningful
        BY DEF Pc, Meaningful
      <3>3. DOMAIN buffers' = DOMAIN buffers
        BY <2>7 DEF DestroyBuffer, destroyOn
      <3> QED
        BY <2>7, <3>1, <3>2, <3>3, <1>PlainStep, Zenon
           DEF DestroyBuffer, Visit, Go, declaration, history, task
    <2> QED
      BY <2>2, <2>3, <2>4, <2>5, <2>6, <2>7, Zenon DEF FlushStep
  \* The end of the task: completion, setNoMorePages, fail and destroy.
  <1>TaskKeepsState.
        ASSUME StateInv, CheckTaskCompletion \/ FinishStep \/ Fail \/ Destroy
        PROVE  StateInv'
    <2> USE <1>TaskKeepsState
    <2>1. Update \in Thread /\ Finish \in Thread /\ Cancel \in Thread /\ Update # Finish
      BY DEF Thread, Update, Finish
    <2>2. CASE CheckTaskCompletion
      <3> USE <2>2 DEF CheckTaskCompletion, Go, declaration, store, StateInv
      <3>1. pc'[Finish] = "completing" /\ \A u \in Thread : u # Finish => pc'[u] = pc[u]
        BY <2>1 DEF Shape
      <3>2. UNCHANGED <<state, declared, noMoreIds, todo, buffers>>
        OBVIOUS
      <3>3. pc' \in [Thread -> Pc]
        <4>1. "completing" \in Pc /\ {} \in SUBSET Id
          BY DEF Pc
        <4> QED
          BY <2>1, <4>1, <1>Typed, Zenon
      <3> HIDE DEF CheckTaskCompletion
      <3>4. Shape'
        BY <3>2, <3>3 DEF Shape
      <3>5. Declaring' /\ Flushing'
        BY <2>1, <3>1, <3>2 DEF Declaring, AllCreated, Flushing, canAddBuffers, isTerminal
      <3>6. BuffersEnd' /\ PagesEnd'
        BY <2>1, <3>1, <3>2 DEF BuffersEnd, PagesEnd, canAddBuffers, canAddPages
      <3> QED
        BY <3>4, <3>5, <3>6
    <2>3. CASE SetNoMorePages \/ PagesFlushing
      <3> USE <2>3 DEF SetNoMorePages, PagesFlushing, transition, compareAndSet, Go, declaration,
                       store, history, task, StateInv
      <3>1. \/ /\ pc[Finish] = "completing" /\ pc' = [pc EXCEPT ![Finish] = "noMorePages"]
               /\ state' = IF state = "OPEN" THEN "NO_MORE_PAGES" ELSE state
            \/ /\ pc[Finish] = "noMorePages" /\ pc' = [pc EXCEPT ![Finish] = "pagesSnapshot"]
               /\ state' = IF state = "NO_MORE_BUFFERS" THEN "FLUSHING" ELSE state
        OBVIOUS
      <3>2. UNCHANGED <<outputDone, declared, noMoreIds, todo, buffers>>
        OBVIOUS
      <3> HIDE DEF SetNoMorePages, PagesFlushing
      <3>3. pc' \in [Thread -> Pc]
        <4>1. "noMorePages" \in Pc /\ "pagesSnapshot" \in Pc /\ {} \in SUBSET Id
          BY DEF Pc
        <4>2. /\ [pc EXCEPT ![Finish] = "noMorePages"] \in [Thread -> Pc]
              /\ [pc EXCEPT ![Finish] = "pagesSnapshot"] \in [Thread -> Pc]
          BY <2>1, <4>1, <1>Typed, Zenon
        <4> QED
          BY <3>1, <4>2, Zenon
      <3>4. /\ \/ pc[Finish] = "completing" /\ pc'[Finish] = "noMorePages"
               \/ pc[Finish] = "noMorePages" /\ pc'[Finish] = "pagesSnapshot"
            /\ \A u \in Thread : u # Finish => pc'[u] = pc[u]
        BY <2>1, <3>1, Zenon DEF Shape
      <3>5. Shape'
        BY <3>1, <3>2, <3>3 DEF Shape, State
      <3>6. Declaring' /\ Flushing'
        BY <2>1, <3>1, <3>2, <3>4 DEF Declaring, AllCreated, Flushing, canAddBuffers, isTerminal
      <3>7. BuffersEnd'
        BY <2>1, <3>1, <3>2, <3>4 DEF BuffersEnd, canAddBuffers
      <3>8. PagesEnd'
        BY <3>1, <3>2, <3>4 DEF PagesEnd, canAddPages
      <3> QED
        BY <3>5, <3>6, <3>7, <3>8
    <2>4. CASE PagesSnapshot
      <3>1. DOMAIN buffers \in SUBSET Id
        BY DEF StateInv, Shape
      <3>2. (IF DOMAIN buffers = {} THEN "flush1" ELSE "setting") \in Pc \ Meaningful
        BY DEF Pc, Meaningful
      <3> QED
        BY <2>1, <2>4, <3>1, <3>2, <1>PlainStep, Zenon
           DEF PagesSnapshot, Visit, Go, declaration, store, history, task
    <2>5. ASSUME NEW id \in Id, SetNoMorePagesOn(id) PROVE StateInv'
      <3>1. todo[Finish] \ {id} \in SUBSET Id
        BY <2>1 DEF StateInv, Shape
      <3>2. (IF todo[Finish] \ {id} = {} THEN "flush1" ELSE "setting") \in Pc \ Meaningful
        BY DEF Pc, Meaningful
      <3>3. DOMAIN buffers' = DOMAIN buffers
        BY <2>5 DEF SetNoMorePagesOn
      <3> QED
        BY <2>1, <2>5, <3>1, <3>2, <3>3, <1>PlainStep, Zenon
           DEF SetNoMorePagesOn, Visit, Go, declaration, history, task
    <2>6. CASE Fail
      BY <2>6, <1>EndStep, Zenon DEF Fail, declaration, store, thread, history, task, isTerminal
    <2>7. CASE Destroy
      BY <2>1, <2>7, <1>EndStep, Zenon DEF Destroy, Go, declaration, store, isTerminal, Pc, Meaningful
    <2> QED
      BY <2>2, <2>3, <2>4, <2>5, <2>6, <2>7, Zenon DEF FinishStep
  <1>Together. StateInv /\ [Next]_vars => StateInv'
    <2> SUFFICES ASSUME StateInv, [Next]_vars PROVE StateInv'
      OBVIOUS
    <2>1. CASE Next
      <3>1. ASSUME NEW id \in DOMAIN buffers, NEW n \in 0 .. Len(buffers[id].pages),
                   Acknowledge(id, buffers[id].currentSequenceId + n)
            PROVE  StateInv'
        <4>1. id \in Id
          BY DEF StateInv, Shape
        <4> QED
          BY <3>1, <4>1, <1>ConsumerKeepsState, Zenon
      <3>2. ASSUME \/ \E d \in Driver : DriverStep(d)
                   \/ \E ids \in SUBSET Id, noMore \in BOOLEAN : SetOutputBuffers(ids, noMore)
            PROVE  StateInv'
        BY <3>2, <1>DriverKeepsState, <1>SetOutputBuffersKeepsState, Zenon
      <3>3. ASSUME NEW id \in Id, GetBuffer(id) \/ Abort(id) PROVE StateInv'
        BY <3>3, <1>ConsumerKeepsState, Zenon
      <3>4. ASSUME UpdateStep \/ \E t \in Thread : FlushStep(t) PROVE StateInv'
        BY <3>4, <1>UpdateKeepsState, <1>FlushKeepsState, Zenon
      <3>5. ASSUME CheckTaskCompletion \/ FinishStep \/ Fail \/ Destroy PROVE StateInv'
        BY <3>5, <1>TaskKeepsState, Zenon
      <3> QED
        BY <2>1, <3>1, <3>2, <3>3, <3>4, <3>5, Zenon DEF Next
    <2>2. CASE UNCHANGED vars
      BY <2>2, <1>QuietStep, Zenon DEF vars, declaration, store, thread, history, task
    <2> QED
      BY <2>1, <2>2
  <1> QED
    BY <1>Together

\* The invariant of the state machine always holds.
LEMMA StateInvariant == Spec => []StateInv
  <1>1. StateInv /\ [Next]_vars => StateInv'
    BY NextKeepsState
  <1> QED
    BY <1>1, StateStart, PTL DEF Spec

\* When the last declaration of consumers and the end of the pages have both been told, the
\* buffer flushes or has ended: the compareAndSets of setOutputBuffers and setNoMorePages
\* lose no transition, in whatever order the threads come, for any number of consumers.
THEOREM BothEndsMeet == Spec => []BothEndsMeanFlushing
  <1>1. StateInv => BothEndsMeanFlushing
    BY DEF StateInv, Shape, BuffersEnd, PagesEnd, BothEndsMeanFlushing, State, canAddBuffers,
       canAddPages, isTerminal
  <1> QED
    BY <1>1, StateInvariant, PTL

\* The buffer finishes by itself only when the last consumer was declared, every consumer's
\* buffer was created and all of them were destroyed: checkFlushComplete's examination
\* outside the lock misses no buffer.
THEOREM FinishesWhenConsumed == Spec => FinishedMeansConsumed
  <1> DEFINE Goal == state' = "FINISHED" /\ state # "FINISHED" /\ ~cancelled' => AllConsumed
  <1>1. ASSUME StateInv, NEW t \in Thread, FlushDecide(t) PROVE Goal
    <2>1. SUFFICES ASSUME allDestroyed(todo[t]), ~isTerminal(state) PROVE AllConsumed
      BY <1>1, Zenon DEF FlushDecide
    <2>2. todo[t] = Id /\ ~canAddBuffers(state)
      BY <1>1, <2>1 DEF StateInv, Flushing, FlushDecide
    <2>3. AllCreated
      BY <1>1, <2>1, <2>2 DEF StateInv, Shape, Declaring, State, canAddBuffers, isTerminal
    <2> QED
      BY <2>1, <2>2, <2>3 DEF AllCreated, AllConsumed, allDestroyed
  <1>2. ASSUME Next, ~(\E t \in Thread : FlushDecide(t)) PROVE Goal
    <2>1. CASE Destroy
      BY <2>1, Zenon DEF Destroy
    <2>2. CASE UpdateStep
      BY <2>2 DEF UpdateStep, AddBuffer, AddBufferThrows, BuffersAdded, BuffersFlushing,
         BuffersUnlocked, NoMoreBuffers, compareAndSet
    <2>3. CASE FinishStep
      BY <2>3, Zenon DEF FinishStep, SetNoMorePages, PagesFlushing, PagesSnapshot, SetNoMorePagesOn,
         transition, compareAndSet
    <2>4. CASE \E t \in Thread : FlushStep(t)
      BY <1>2, <2>4, Zenon DEF FlushStep, CheckFlushComplete, FlushSnapshot, DestroyNoMore,
         DestroySnapshot, DestroyBuffer
    <2>5. CASE \E d \in Driver : DriverStep(d)
      BY <2>5 DEF DriverStep, Enqueue, Remember, EnqueuePages, EnqueueReturns
    <2>6. CASE \E ids \in SUBSET Id, noMore \in BOOLEAN : SetOutputBuffers(ids, noMore)
      BY <2>6 DEF SetOutputBuffers
    <2>7. CASE \/ \E id \in Id : GetBuffer(id) \/ Abort(id)
               \/ \E id, sequenceId : Acknowledge(id, sequenceId)
      BY <2>7, Zenon DEF GetBuffer, Abort, Acknowledge
    <2>8. CASE CheckTaskCompletion \/ Fail
      BY <2>8 DEF CheckTaskCompletion, Fail
    <2> QED
      BY <1>2, <2>1, <2>2, <2>3, <2>4, <2>5, <2>6, <2>7, <2>8, Zenon DEF Next
  <1>3. StateInv /\ [Next]_vars => [Goal]_vars
    BY <1>1, <1>2, Zenon
  <1> QED
    BY <1>3, StateInvariant, PTL DEF Spec, FinishedMeansConsumed

-----------------------------------------------------------------------------
(* The threads and the pages: where a thread stands tells who may still add pages *)

LabelsInv ==
    /\ \A d \in Driver : pc[d] \in {"idle", "reserve", "enqueue"}
    /\ outputDone => \A d \in Driver : pc[d] = "idle"
    /\ state \in {"NO_MORE_PAGES", "FLUSHING"} => outputDone
    /\ pc[Finish] \in {"completing", "noMorePages", "pagesSnapshot", "setting"} => outputDone
    /\ pc[Update] = "adding" => /\ lock # None /\ todo[Update] \cap DOMAIN buffers = {}
                                /\ seen = "OPEN" \/ (seen = "NO_MORE_PAGES" /\ outputDone)
    /\ pc[Update] = "noMoreBuffers" => ~canAddBuffers(state)
    /\ \A t \in Thread : pc[t] = "destroyNoMore" => isTerminal(state)

Telling == {"completing", "noMorePages", "pagesSnapshot", "setting", "adding", "noMoreBuffers",
            "destroyNoMore"}

\* At the start no label says anything.
LEMMA LabelsStart == Init => LabelsInv
  <1> SUFFICES ASSUME Init PROVE LabelsInv
    OBVIOUS
  <1>1. \A t \in Thread : pc[t] = "idle"
    BY DEF Init
  <1>2. pc[Update] = "idle" /\ pc[Finish] = "idle" /\ \A d \in Driver : pc[d] = "idle"
    BY <1>1 DEF Thread
  <1> QED
    BY <1>1, <1>2 DEF Init, LabelsInv

\* The threads are of different kinds: the update, the end, the cancel, drivers and consumers.
LEMMA Kinds ==
    /\ Update \in Thread /\ Finish \in Thread /\ Cancel \in Thread /\ Update # Finish
    /\ Driver \subseteq Thread /\ Id \subseteq Thread
    /\ Update \notin Driver /\ Finish \notin Driver /\ Cancel \notin Driver
    /\ \A id \in Id : id \notin Driver
    /\ Update # None
  BY ThreadsAssumption DEF Thread, Update, Finish

-----------------------------------------------------------------------------
(* Sequences of pages, and the operations of a client buffer *)

Elements(s) == {s[i] : i \in DOMAIN s}

\* A list with one more page at its end.
LEMMA Added ==
    ASSUME NEW S, NEW s \in Seq(S), NEW p \in S
    PROVE  /\ s \o <<p>> \in Seq(S) /\ Elements(s \o <<p>>) = Elements(s) \cup {p}
           /\ Once(s) /\ p \notin Elements(s) => Once(s \o <<p>>)
  <1> DEFINE t == s \o <<p>>
  <1>1. /\ t \in Seq(S) /\ DOMAIN s = 1..Len(s) /\ DOMAIN t = 1..(Len(s) + 1)
        /\ \A i \in 1..Len(s) : t[i] = s[i]
        /\ t[Len(s) + 1] = p /\ Len(s) \in Nat
    OBVIOUS
  <1> HIDE DEF t
  <1>2. Elements(t) = Elements(s) \cup {p}
    BY <1>1 DEF Elements
  <1>3. ASSUME Once(s), p \notin Elements(s) PROVE Once(t)
    <2> SUFFICES ASSUME NEW i \in DOMAIN t, NEW j \in DOMAIN t, t[i] = t[j] PROVE i = j
      BY DEF Once
    <2>1. CASE i \in 1..Len(s) /\ j \in 1..Len(s)
      BY <1>1, <1>3, <2>1 DEF Once
    <2>2. CASE i \in 1..Len(s) /\ j = Len(s) + 1
      BY <1>1, <1>3, <2>2 DEF Elements
    <2>3. CASE j \in 1..Len(s) /\ i = Len(s) + 1
      BY <1>1, <1>3, <2>3 DEF Elements
    <2> QED
      BY <1>1, <2>1, <2>2, <2>3
  <1> QED
    BY <1>1, <1>2, <1>3 DEF t

\* A list with nothing added.
LEMMA AddedNothing ==
    ASSUME NEW S, NEW s \in Seq(S)
    PROVE  s \o <<>> = s
  OBVIOUS

\* The empty list.
LEMMA Nothing ==
    /\ <<>> \in Seq(Page) /\ Elements(<<>>) = {} /\ Once(<<>>)
  BY DEF Elements, Once

Buffer == BufferType(Page, {})

\* The operations of a client buffer, by their effect on its two flags.
LEMMA EnqueuedBuffer ==
    ASSUME NEW b \in Buffer, NEW ps \in Seq(Page)
    PROVE  /\ enqueuePages(b, ps) \in Buffer
           /\ enqueuePages(b, ps).noMorePages = b.noMorePages
           /\ enqueuePages(b, ps).destroyed = b.destroyed
  <1>1. b.pages \o ps \in Seq(Page)
    BY DEF Buffer, BufferType
  <1> QED
    BY <1>1, Zenon DEF enqueuePages, Buffer, BufferType

\* A client buffer told of the end or destroyed is still one.
LEMMA EndedBuffer ==
    ASSUME NEW b \in Buffer
    PROVE  /\ setNoMorePages(b) \in Buffer /\ setNoMorePages(b).destroyed = b.destroyed
           /\ destroy(b) \in Buffer /\ destroy(b).destroyed = TRUE
  <1> USE DEF Buffer, BufferType
  <1>1. setNoMorePages(b) \in Buffer /\ setNoMorePages(b).destroyed = b.destroyed
    BY Zenon DEF setNoMorePages
  <1>2. destroy(b) \in Buffer /\ destroy(b).destroyed = TRUE
    BY Nothing, Zenon DEF destroy
  <1> QED
    BY <1>1, <1>2

\* A client buffer that drops n acknowledged pages is still one, and as open as before.
LEMMA AcknowledgedBuffer ==
    ASSUME NEW b \in Buffer, NEW n \in 0 .. Len(b.pages),
           NEW m, m = b.currentSequenceId + n
    PROVE  /\ acknowledgePages(b, m) \in Buffer
           /\ acknowledgePages(b, m).noMorePages = b.noMorePages
           /\ acknowledgePages(b, m).destroyed = b.destroyed
  <1> USE DEF Buffer, BufferType
  <1>1. m \in Nat /\ m - b.currentSequenceId + 1 \in 1..(Len(b.pages) + 1)
    OBVIOUS
  <1>2. SubSeq(b.pages, m - b.currentSequenceId + 1, Len(b.pages)) \in Seq(Page)
    BY <1>1
  <1> QED
    BY <1>1, <1>2, Zenon DEF acknowledgePages

-----------------------------------------------------------------------------
(* Every page is in every buffer, or a driver will still put it there *)

StoreType ==
    /\ page \in [Driver -> Page \cup {None}] /\ enqueued \subseteq Page
    /\ initialPages \in Seq(Page) /\ delivered \in [Id -> Seq(Page)]
    /\ \A id \in DOMAIN buffers : buffers[id] \in Buffer

\* The drivers carry different pages, to buffers that exist.
Carrying ==
    /\ \A d \in Driver : pc[d] # "idle" => page[d] \in enqueued
    /\ \A d, e \in Driver :
          pc[d] # "idle" /\ pc[e] # "idle" /\ page[d] = page[e] => d = e
    /\ \A d \in Driver : pc[d] = "enqueue" => todo[d] \subseteq DOMAIN buffers

\* What a buffer of the future would get.
Initial ==
    /\ Once(initialPages) /\ Elements(initialPages) \subseteq enqueued
    /\ \A d \in Driver : pc[d] = "reserve" => page[d] \notin Elements(initialPages)
    /\ canAddBuffers(state) =>
          \A p \in enqueued : \/ p \in Elements(initialPages)
                              \/ \E d \in Driver : pc[d] = "reserve" /\ page[d] = p

Carries(d, id) == pc[d] = "reserve" \/ (pc[d] = "enqueue" /\ id \in todo[d])

Arrived(id) ==
    /\ Once(delivered[id]) /\ Elements(delivered[id]) \subseteq enqueued
    /\ \A d \in Driver : Carries(d, id) => page[d] \notin Elements(delivered[id])
    /\ state # "FAILED" /\ ~buffers[id].destroyed =>
          /\ buffers[id].noMorePages => outputDone
          /\ \A p \in enqueued : \/ p \in Elements(delivered[id])
                                 \/ \E d \in Driver : Carries(d, id) /\ page[d] = p

StoreInv == StoreType /\ Carrying /\ Initial /\ \A id \in DOMAIN buffers : Arrived(id)

\* At the start there are no pages and no client buffers.
LEMMA StoreStart == Init => StoreInv
  <1> SUFFICES ASSUME Init PROVE StoreInv
    OBVIOUS
  <1>1. DOMAIN buffers = {} /\ enqueued = {} /\ initialPages = <<>>
    BY DEF Init
  <1>2. \A d \in Driver : pc[d] = "idle"
    BY DEF Init, Thread
  <1>3. StoreType
    BY <1>1, Nothing DEF Init, StoreType
  <1>4. Carrying /\ Initial
    BY <1>1, <1>2, Nothing DEF Carrying, Initial
  <1> QED
    BY <1>1, <1>3, <1>4 DEF StoreInv

\* What getBuffer puts into the map.
LEMMA NewBufferType ==
    ASSUME NEW id \in Id, initialPages \in Seq(Page)
    PROVE  /\ newBuffer(id) \in Buffer /\ initialPagesFor(id) \in Seq(Page)
           /\ state = "FINISHED" => newBuffer(id).destroyed
           /\ state \notin {"FINISHED", "NO_MORE_PAGES", "FLUSHING"} => ~newBuffer(id).noMorePages
  <1> DEFINE filled == enqueuePages(NewBuffer, initialPagesFor(id))
  <1>1. initialPagesFor(id) \in Seq(Page)
    BY Nothing DEF initialPagesFor
  <1>2. NewBuffer \in Buffer /\ NewBuffer.noMorePages = FALSE
    BY Nothing, Zenon DEF NewBuffer, Buffer, BufferType
  <1>4. filled \in Buffer /\ filled.noMorePages = FALSE
    BY <1>1, <1>2, EnqueuedBuffer, Zenon
  <1> HIDE DEF filled
  <1>5. /\ destroy(filled) \in Buffer /\ destroy(filled).destroyed = TRUE
        /\ setNoMorePages(filled) \in Buffer
    BY <1>4, EndedBuffer, Zenon
  <1>6. newBuffer(id) = CASE state = "FINISHED" -> destroy(filled)
                          [] state \in {"NO_MORE_PAGES", "FLUSHING"} -> setNoMorePages(filled)
                          [] OTHER -> filled
    BY Zenon DEF newBuffer, filled
  <1>7. CASE state = "FINISHED"
    <2>1. newBuffer(id) = destroy(filled)
      BY <1>6, <1>7
    <2> QED
      BY <1>1, <1>5, <1>7, <2>1, Zenon
  <1>8. CASE state \in {"NO_MORE_PAGES", "FLUSHING"}
    <2>1. newBuffer(id) = setNoMorePages(filled) /\ state # "FINISHED"
      BY <1>6, <1>8
    <2> QED
      BY <1>1, <1>5, <1>8, <2>1, Zenon
  <1>9. CASE state \notin {"FINISHED", "NO_MORE_PAGES", "FLUSHING"}
    <2>1. newBuffer(id) = filled /\ state # "FINISHED"
      BY <1>6, <1>9
    <2> QED
      BY <1>1, <1>4, <1>9, <2>1, Zenon
  <1> QED
    BY <1>7, <1>8, <1>9

-----------------------------------------------------------------------------
(* The theorem about the pages *)

PagesInv == StateInv /\ LabelsInv /\ StoreInv

\* Every step keeps the invariant of the pages.
LEMMA NextKeepsPages == PagesInv /\ [Next]_vars => PagesInv'
  \* A step of thread t to a label that tells nothing about state and pages.
  <1>LabelStep.
        ASSUME StateInv, LabelsInv, NEW t \in Thread,
               UNCHANGED <<state, outputDone>>, DOMAIN buffers' = DOMAIN buffers,
               UNCHANGED <<seen, lock>> \/ t = Update,
               NEW label \in Pc \ Telling, pc' = [pc EXCEPT ![t] = label],
               t \in Driver => label \in {"idle", "reserve", "enqueue"} /\ (outputDone => label = "idle"),
               todo' = todo \/ \E ids \in SUBSET Id : todo' = [todo EXCEPT ![t] = ids]
        PROVE  LabelsInv'
    <2> USE <1>LabelStep
    <2>1. \A u \in Thread : u # t => pc'[u] = pc[u] /\ todo'[u] = todo[u]
      BY DEF StateInv, Shape
    <2>2. pc'[t] = label
      BY DEF StateInv, Shape
    <2>3. \A d \in Driver : pc'[d] \in {"idle", "reserve", "enqueue"} /\ (outputDone => pc'[d] = "idle")
      BY <2>1, <2>2, Kinds DEF LabelsInv
    <2>4. (pc[Finish] \in {"completing", "noMorePages", "pagesSnapshot", "setting"} => outputDone)'
      BY <2>1, <2>2, Kinds DEF LabelsInv, Telling
    <2>5. (pc[Update] = "adding" => /\ lock # None /\ todo[Update] \cap DOMAIN buffers = {}
                                    /\ seen = "OPEN" \/ (seen = "NO_MORE_PAGES" /\ outputDone))'
      BY <2>1, <2>2, Kinds DEF LabelsInv, Telling
    <2>6. (pc[Update] = "noMoreBuffers" => ~canAddBuffers(state))'
      BY <2>1, <2>2, Kinds DEF LabelsInv, Telling, canAddBuffers
    <2>7. (\A u \in Thread : pc[u] = "destroyNoMore" => isTerminal(state))'
      BY <2>1, <2>2 DEF LabelsInv, Telling, isTerminal
    <2> QED
      BY <2>3, <2>4, <2>5, <2>6, <2>7 DEF LabelsInv
  \* What the labels say survives the steps of enqueue.
  <1>DriverKeepsLabels.
        ASSUME StateInv, LabelsInv, NEW d \in Driver, DriverStep(d) PROVE LabelsInv'
    <2> USE <1>DriverKeepsLabels
    <2>1. d \in Thread /\ (pc[d] # "idle" => ~outputDone)
      BY Kinds DEF LabelsInv
    <2>2. {"idle", "reserve", "enqueue"} \subseteq Pc \ Telling
      BY DEF Pc, Telling
    <2>3. ASSUME NEW p \in Page, Enqueue(d, p) PROVE LabelsInv'
      BY <2>1, <2>2, <2>3, <1>LabelStep, Zenon DEF Enqueue, Go
    <2>4. CASE Remember(d)
      <3>1. DOMAIN buffers \in SUBSET Id
        BY DEF StateInv, Shape
      <3> QED
        BY <2>1, <2>2, <2>4, <3>1, <1>LabelStep, Zenon DEF Remember, Go, history, task, locals
    <2>5. ASSUME NEW id \in Id, EnqueuePages(d, id) PROVE LabelsInv'
      <3>1. /\ DOMAIN buffers' = DOMAIN buffers
            /\ pc' = [pc EXCEPT ![d] = "enqueue"] /\ pc[d] = "enqueue"
            /\ todo' = [todo EXCEPT ![d] = todo[d] \ {id}] /\ todo[d] \ {id} \in SUBSET Id
        BY <2>1, <2>5 DEF EnqueuePages, enqueueOn, StateInv, Shape
      <3>2. UNCHANGED <<state, outputDone, seen, lock>>
        BY <2>5 DEF EnqueuePages, task, locals
      <3> QED
        BY <2>1, <2>2, <3>1, <3>2, <1>LabelStep, Zenon
    <2>6. CASE EnqueueReturns(d)
      BY <2>1, <2>2, <2>6, <1>LabelStep, Zenon DEF EnqueueReturns, Go, history, task
    <2> QED
      BY <2>3, <2>4, <2>5, <2>6, Zenon DEF DriverStep
  \* What the labels say survives setOutputBuffers.
  <1>UpdateKeepsLabels.
        ASSUME StateInv, LabelsInv,
               UpdateStep \/ \E ids \in SUBSET Id, noMore \in BOOLEAN : SetOutputBuffers(ids, noMore)
        PROVE  LabelsInv'
    <2> USE <1>UpdateKeepsLabels
    <2>0. {"idle", "unlocked", "cas", "flush1"} \subseteq Pc \ Telling
      BY DEF Pc, Telling
    <2>1. ASSUME NEW ids \in SUBSET Id, NEW noMore \in BOOLEAN, SetOutputBuffers(ids, noMore)
          PROVE  LabelsInv'
      <3> USE <2>1 DEF SetOutputBuffers, Go, store, history, task
      <3>1. /\ pc'[Update] = "adding" /\ todo'[Update] = ids \ DOMAIN buffers
            /\ \A u \in Thread : u # Update => pc'[u] = pc[u]
        BY Kinds DEF StateInv, Shape
      <3>2. /\ UNCHANGED <<state, outputDone, buffers>> /\ lock' = Update /\ seen' = state
        OBVIOUS
      <3>3. state = "OPEN" \/ (state = "NO_MORE_PAGES" /\ outputDone)
        BY DEF StateInv, Shape, Declaring, AllCreated, State, isTerminal, LabelsInv
      <3> HIDE DEF SetOutputBuffers
      <3> QED
        BY <3>1, <3>2, <3>3, Kinds DEF LabelsInv, canAddBuffers, isTerminal
    <2>2. ASSUME NEW id \in Id, AddBuffer(id) PROVE LabelsInv'
      <3>1. /\ todo'[Update] = todo[Update] \ {id} /\ DOMAIN buffers' = DOMAIN buffers \cup {id}
            /\ UNCHANGED <<pc, state, outputDone, lock, seen>>
        BY <2>2, Kinds DEF AddBuffer, create, locals, task, StateInv, Shape
      <3> QED
        BY <3>1 DEF LabelsInv, canAddBuffers, isTerminal
    <2>3. CASE AddBufferThrows
      BY <2>0, <2>3, Kinds, <1>LabelStep, Zenon DEF AddBufferThrows, Go, store, history, task
    <2>4. CASE BuffersAdded
      <3> USE <2>4 DEF BuffersAdded, Go, store, history, task, compareAndSet
      <3>1. /\ pc'[Update] = IF noMoreIds THEN "cas" ELSE "unlocked"
            /\ \A u \in Thread : u # Update => pc'[u] = pc[u]
        BY Kinds DEF StateInv, Shape
      <3>2. state' = state \/ (state = "OPEN" /\ state' = "NO_MORE_BUFFERS")
        OBVIOUS
      <3>3. UNCHANGED outputDone
        OBVIOUS
      <3> HIDE DEF BuffersAdded
      <3> QED
        BY <3>1, <3>2, <3>3, Kinds DEF LabelsInv, canAddBuffers, isTerminal
    <2>5. CASE BuffersFlushing
      <3> USE <2>5 DEF BuffersFlushing, Go, store, history, task, compareAndSet
      <3>1. /\ pc'[Update] = "unlocked"
            /\ \A u \in Thread : u # Update => pc'[u] = pc[u]
        BY Kinds DEF StateInv, Shape
      <3>2. state' = state \/ (state = "NO_MORE_PAGES" /\ state' = "FLUSHING")
        OBVIOUS
      <3>3. UNCHANGED outputDone
        OBVIOUS
      <3> HIDE DEF BuffersFlushing
      <3> QED
        BY <3>1, <3>2, <3>3, Kinds DEF LabelsInv, canAddBuffers, isTerminal
    <2>6. CASE BuffersUnlocked
      <3> USE <2>6 DEF BuffersUnlocked, Go, history, task
      <3>1. /\ pc'[Update] = IF canAddBuffers(state) THEN "flush1" ELSE "noMoreBuffers"
            /\ \A u \in Thread : u # Update => pc'[u] = pc[u]
        BY Kinds DEF StateInv, Shape, afterUpdate
      <3>2. UNCHANGED <<state, outputDone>>
        OBVIOUS
      <3> HIDE DEF BuffersUnlocked
      <3> QED
        BY <3>1, <3>2, Kinds DEF LabelsInv, canAddBuffers, isTerminal
    <2>7. CASE NoMoreBuffers
      BY <2>0, <2>7, Kinds, <1>LabelStep, Zenon DEF NoMoreBuffers, Go, history, task
    <2> QED
      BY <2>1, <2>2, <2>3, <2>4, <2>5, <2>6, <2>7, Zenon DEF UpdateStep
  \* What the labels say survives get, acknowledge and abort.
  <1>ConsumerKeepsLabels.
        ASSUME StateInv, LabelsInv, NEW id \in Id,
               \/ GetBuffer(id) \/ Abort(id)
               \/ \E sequenceId : Acknowledge(id, sequenceId)
        PROVE  LabelsInv'
    <2> USE <1>ConsumerKeepsLabels
    <2>1. CASE GetBuffer(id)
      <3>1. lock = None /\ UNCHANGED <<pc, todo, state, outputDone, lock, seen>>
        BY <2>1 DEF GetBuffer, thread, locals, task
      <3> QED
        BY <3>1 DEF LabelsInv, canAddBuffers, isTerminal
    <2>2. CASE Abort(id)
      <3>1. id \in Thread /\ id \notin Driver /\ DOMAIN buffers' = DOMAIN buffers
        BY <2>2, Kinds DEF Abort, destroyOn
      <3>2. "flush1" \in Pc \ Telling
        BY DEF Pc, Telling
      <3> QED
        BY <2>2, <3>1, <3>2, <1>LabelStep, Zenon DEF Abort, Go, history, task, locals
    <2>3. CASE \E sequenceId : Acknowledge(id, sequenceId)
      <3>1. DOMAIN buffers' = DOMAIN buffers /\ UNCHANGED <<pc, todo, state, outputDone, lock, seen>>
        BY <2>3, Zenon DEF Acknowledge, thread, locals, history, task
      <3> QED
        BY <3>1 DEF LabelsInv, canAddBuffers, isTerminal
    <2> QED
      BY <2>1, <2>2, <2>3
  \* What the labels say survives checkFlushComplete.
  <1>FlushKeepsLabels.
        ASSUME StateInv, LabelsInv, NEW t \in Thread, FlushStep(t) PROVE LabelsInv'
    <2> USE <1>FlushKeepsLabels
    <2>0. /\ {"idle", "flush2", "flushSnapshot", "flushDecide", "destroySnapshot", "destroying"}
               \subseteq Pc \ Telling
          /\ DOMAIN buffers \in SUBSET Id /\ {} \in SUBSET Id /\ todo[t] \in SUBSET Id
      BY DEF Pc, Telling, StateInv, Shape
    <2>1. t \notin Driver
      BY Zenon DEF FlushStep, CheckFlushComplete, FlushSnapshot, FlushDecide, DestroyNoMore,
         DestroySnapshot, DestroyBuffer, LabelsInv
    <2>2. CASE CheckFlushComplete(t)
      <3>1. \E label \in Pc \ Telling : pc' = [pc EXCEPT ![t] = label]
        BY <2>0, <2>2, Zenon DEF CheckFlushComplete, Go
      <3> QED
        BY <2>1, <2>2, <3>1, <1>LabelStep, Zenon
           DEF CheckFlushComplete, store, history, task, locals
    <2>3. CASE FlushSnapshot(t)
      BY <2>0, <2>1, <2>3, <1>LabelStep, Zenon DEF FlushSnapshot, Go, store, history, task, locals
    <2>4. CASE FlushDecide(t)
      <3> USE <2>4 DEF FlushDecide, Go, store, history, task, locals
      <3>1. CASE state' = "FINISHED" /\ pc' = [pc EXCEPT ![t] = "destroyNoMore"]
        <4>1. /\ pc'[t] = "destroyNoMore" /\ \A u \in Thread : u # t => pc'[u] = pc[u]
              /\ pc[t] = "flushDecide"
          BY <3>1 DEF StateInv, Shape
        <4>2. UNCHANGED <<buffers, outputDone, lock, seen>>
          BY <3>1
        <4>3. \A u \in Thread : u # t => todo'[u] = todo[u]
          BY DEF StateInv, Shape
        <4> HIDE DEF FlushDecide
        <4> QED
          BY <2>1, <3>1, <4>1, <4>2, <4>3, Kinds DEF LabelsInv, canAddBuffers, isTerminal
      <3>2. CASE state' = state /\ pc' = [pc EXCEPT ![t] = "idle"]
        BY <2>0, <2>1, <3>2, <1>LabelStep, Zenon
      <3> QED
        BY <3>1, <3>2, Zenon
    <2>5. CASE DestroyNoMore(t)
      BY <2>0, <2>1, <2>5, <1>LabelStep, Zenon DEF DestroyNoMore, Go, history, task, locals
    <2>6. CASE DestroySnapshot(t)
      <3>1. (IF DOMAIN buffers = {} THEN "idle" ELSE "destroying") \in Pc \ Telling
        BY <2>0
      <3> QED
        BY <2>0, <2>1, <2>6, <3>1, <1>LabelStep, Zenon
           DEF DestroySnapshot, Visit, Go, store, history, task, locals
    <2>7. ASSUME NEW id \in Id, DestroyBuffer(t, id) PROVE LabelsInv'
      <3>1. /\ (IF todo[t] \ {id} = {} THEN "idle" ELSE "destroying") \in Pc \ Telling
            /\ todo[t] \ {id} \in SUBSET Id
        BY <2>0
      <3>2. DOMAIN buffers' = DOMAIN buffers
        BY <2>7 DEF DestroyBuffer, destroyOn
      <3> QED
        BY <2>1, <2>7, <3>1, <3>2, <1>LabelStep, Zenon
           DEF DestroyBuffer, Visit, Go, history, task, locals
    <2> QED
      BY <2>2, <2>3, <2>4, <2>5, <2>6, <2>7, Zenon DEF FlushStep
  \* What the labels say survives the end of the task.
  <1>TaskKeepsLabels.
        ASSUME StateInv, LabelsInv, CheckTaskCompletion \/ FinishStep \/ Fail \/ Destroy
        PROVE  LabelsInv'
    <2> USE <1>TaskKeepsLabels
    <2>1. CASE CheckTaskCompletion
      <3> USE <2>1 DEF CheckTaskCompletion, Go, store, locals
      <3>1. pc'[Finish] = "completing" /\ \A u \in Thread : u # Finish => pc'[u] = pc[u]
        BY Kinds DEF StateInv, Shape
      <3>2. /\ UNCHANGED <<state, todo, buffers, lock, seen>> /\ outputDone' = TRUE
            /\ \A d \in Driver : pc[d] = "idle"
        OBVIOUS
      <3> HIDE DEF CheckTaskCompletion
      <3> QED
        BY <3>1, <3>2, Kinds DEF LabelsInv, canAddBuffers, isTerminal
    <2>2. CASE FinishStep
      <3>1. outputDone
        BY <2>2, Zenon
           DEF FinishStep, SetNoMorePages, PagesFlushing, PagesSnapshot, SetNoMorePagesOn, LabelsInv
      <3>2. /\ \E label \in {"noMorePages", "pagesSnapshot", "setting", "flush1"} :
                  pc' = [pc EXCEPT ![Finish] = label]
            /\ todo' = todo \/ \E ids : todo' = [todo EXCEPT ![Finish] = ids]
        BY <2>2, Zenon DEF FinishStep, SetNoMorePages, PagesFlushing, PagesSnapshot,
           SetNoMorePagesOn, Visit, Go
      <3>3. /\ \A u \in Thread : u # Finish => pc'[u] = pc[u] /\ todo'[u] = todo[u]
            /\ pc'[Finish] \in {"noMorePages", "pagesSnapshot", "setting", "flush1"}
        BY <3>2, Kinds DEF StateInv, Shape
      <3>4. \/ state' = state
            \/ state = "OPEN" /\ state' = "NO_MORE_PAGES"
            \/ state = "NO_MORE_BUFFERS" /\ state' = "FLUSHING"
        BY <2>2, Zenon DEF FinishStep, SetNoMorePages, PagesFlushing, PagesSnapshot,
           SetNoMorePagesOn, transition, compareAndSet
      <3>5. DOMAIN buffers' = DOMAIN buffers /\ UNCHANGED <<outputDone, lock, seen>>
        BY <2>2, Zenon DEF FinishStep, SetNoMorePages, PagesFlushing, PagesSnapshot,
           SetNoMorePagesOn, store, history, task, locals
      <3> QED
        BY <3>1, <3>3, <3>4, <3>5, Kinds DEF LabelsInv, canAddBuffers, isTerminal
    <2>3. CASE Fail
      BY <2>3, Kinds, SMTT(30)
         DEF Fail, store, thread, locals, history, task, LabelsInv, canAddBuffers, isTerminal
    <2>4. CASE Destroy
      <3> USE <2>4 DEF Destroy, Go, store, locals
      <3>1. pc'[Cancel] = "destroyNoMore" /\ \A u \in Thread : u # Cancel => pc'[u] = pc[u]
        BY Kinds DEF StateInv, Shape
      <3>2. UNCHANGED <<outputDone, todo, buffers, lock, seen>> /\ state' = "FINISHED"
        OBVIOUS
      <3>3. Cancel # Update /\ Cancel # Finish
        BY DEF Cancel, Update, Finish
      <3> HIDE DEF Destroy
      <3> QED
        BY <3>1, <3>2, <3>3, Kinds DEF LabelsInv, canAddBuffers, isTerminal
    <2> QED
      BY <2>1, <2>2, <2>3, <2>4
  \* A step that leaves the pages and the drivers alone.  Buffers may be destroyed or told
  \* that there are no more pages, when that is so.
  <1>StoreStep.
        ASSUME StoreInv, UNCHANGED <<page, enqueued, initialPages, delivered>>,
               \A d \in Driver : pc'[d] = pc[d] /\ todo'[d] = todo[d],
               canAddBuffers(state') => canAddBuffers(state),
               state = "FAILED" => state' = "FAILED",
               outputDone => outputDone',
               DOMAIN buffers' = DOMAIN buffers,
               \A id \in DOMAIN buffers :
                  /\ buffers'[id] \in Buffer
                  /\ buffers[id].destroyed => buffers'[id].destroyed
                  /\ buffers'[id].noMorePages /\ ~buffers'[id].destroyed
                        => buffers[id].noMorePages \/ outputDone'
        PROVE  StoreInv'
    <2> USE <1>StoreStep
    <2>1. StoreType'
      BY DEF StoreInv, StoreType
    <2>2. Carrying'
      BY DEF StoreInv, Carrying
    <2>3. Initial'
      BY DEF StoreInv, Initial
    <2>4. ASSUME NEW id \in DOMAIN buffers PROVE Arrived(id)'
      <3>1. \A d \in Driver : Carries(d, id)' <=> Carries(d, id)
        BY DEF Carries
      <3>2. Arrived(id)
        BY DEF StoreInv
      <3> QED
        BY <3>1, <3>2 DEF Arrived
    <2> QED
      BY <2>1, <2>2, <2>3, <2>4, Zenon DEF StoreInv
  \* A driver enters enqueue with a page nobody holds.
  <1>EnqueueKeepsStore.
        ASSUME StateInv, LabelsInv, StoreInv, NEW d \in Driver, NEW p \in Page, Enqueue(d, p)
        PROVE  StoreInv'
    <2> USE <1>EnqueueKeepsStore
    <2> USE DEF Enqueue, Go
    <2>1. /\ pc'[d] = "reserve" /\ page'[d] = p /\ pc[d] = "idle"
          /\ \A e \in Driver : e # d => pc'[e] = pc[e] /\ page'[e] = page[e]
      BY Kinds DEF StateInv, Shape, StoreInv, StoreType
    <2>2. /\ UNCHANGED <<state, buffers, initialPages, todo, delivered, outputDone>>
          /\ enqueued' = enqueued \cup {p} /\ p \notin enqueued
      OBVIOUS
    <2>3. StoreType'
      BY <2>2 DEF StoreInv, StoreType
    <2> HIDE DEF Enqueue
    <2>4. Carrying'
      BY <2>1, <2>2 DEF StoreInv, Carrying
    <2>5. Initial'
      BY <2>1, <2>2 DEF StoreInv, Initial, canAddBuffers
    <2>6. ASSUME NEW id \in DOMAIN buffers PROVE Arrived(id)'
      <3>1. /\ \A e \in Driver : e # d => (Carries(e, id)' <=> Carries(e, id))
            /\ Carries(d, id)' /\ ~Carries(d, id)
        BY <2>1, <2>2 DEF Carries
      <3>2. Arrived(id)
        BY DEF StoreInv
      <3> QED
        BY <2>1, <2>2, <3>1, <3>2 DEF Arrived
    <2> QED
      BY <2>2, <2>3, <2>4, <2>5, <2>6, Zenon DEF StoreInv
  \* The page goes to the list for new buffers, and the buffers that exist are read.
  <1>RememberKeepsStore.
        ASSUME StateInv, LabelsInv, StoreInv, NEW d \in Driver, Remember(d)
        PROVE  StoreInv'
    <2> USE <1>RememberKeepsStore
    <2> USE DEF Remember, Go, history, task, locals
    <2>1. /\ pc'[d] = "enqueue" /\ pc[d] = "reserve" /\ todo'[d] = DOMAIN buffers
          /\ \A e \in Driver : e # d => pc'[e] = pc[e] /\ todo'[e] = todo[e]
      BY Kinds DEF StateInv, Shape
    <2>2. UNCHANGED <<state, buffers, page, delivered, enqueued, outputDone>>
      OBVIOUS
    <2>3. initialPages' = initialPages \o remembered(d)
      OBVIOUS
    <2> HIDE DEF Remember
    <2>4. page[d] \in enqueued /\ page[d] \in Page
      BY <2>1 DEF StoreInv, Carrying, StoreType
    <2>5. \/ initialPages' = initialPages /\ ~canAddBuffers(state)
          \/ initialPages' = initialPages \o <<page[d]>>
      <3>1. initialPages \o <<>> = initialPages
        BY AddedNothing DEF StoreInv, StoreType
      <3> QED
        BY <2>3, <3>1, Zenon DEF remembered
    <2>6. /\ initialPages' \in Seq(Page) /\ Once(initialPages')
          /\ \/ Elements(initialPages') = Elements(initialPages) \cup {page[d]}
             \/ Elements(initialPages') = Elements(initialPages) /\ ~canAddBuffers(state)
      <3>1. initialPages \in Seq(Page) /\ Once(initialPages) /\ page[d] \notin Elements(initialPages)
        BY <2>1 DEF StoreInv, StoreType, Initial
      <3> QED
        <4>1. /\ initialPages \o <<page[d]>> \in Seq(Page)
              /\ Elements(initialPages \o <<page[d]>>) = Elements(initialPages) \cup {page[d]}
              /\ Once(initialPages \o <<page[d]>>)
          BY <2>4, <3>1, Added
        <4> QED
          BY <2>5, <3>1, <4>1, Zenon
    <2>7. StoreType'
      BY <2>2, <2>6 DEF StoreInv, StoreType
    <2>8. Carrying'
      BY <2>1, <2>2 DEF StoreInv, Carrying
    <2>9. Initial'
      <3>1. Initial /\ Carrying
        BY DEF StoreInv
      <3>2. Elements(initialPages') \subseteq enqueued'
        BY <2>2, <2>4, <2>6, <3>1 DEF Initial
      <3>3. ASSUME NEW e \in Driver, pc'[e] = "reserve" PROVE page'[e] \notin Elements(initialPages')
        <4>1. e # d /\ pc[e] = "reserve" /\ page'[e] = page[e]
          BY <2>1, <2>2, <3>3
        <4>2. page[e] # page[d] /\ page[e] \notin Elements(initialPages)
          BY <2>1, <3>1, <4>1 DEF Carrying, Initial
        <4> QED
          BY <2>6, <4>1, <4>2
      <3>4. ASSUME canAddBuffers(state'), NEW p \in enqueued'
            PROVE  \/ p \in Elements(initialPages')
                   \/ \E e \in Driver : pc'[e] = "reserve" /\ page'[e] = p
        <4>1. /\ canAddBuffers(state) /\ p \in enqueued
              /\ Elements(initialPages') = Elements(initialPages) \cup {page[d]}
          BY <2>2, <2>6, <3>4
        <4>2. \/ p \in Elements(initialPages)
              \/ \E e \in Driver : pc[e] = "reserve" /\ page[e] = p
          BY <3>1, <4>1 DEF Initial
        <4> QED
          BY <2>1, <2>2, <4>1, <4>2
      <3> QED
        BY <2>6, <3>2, <3>3, <3>4 DEF Initial
    <2>10. ASSUME NEW id \in DOMAIN buffers PROVE Arrived(id)'
      <3>1. \A e \in Driver : Carries(e, id)' <=> Carries(e, id)
        BY <2>1 DEF Carries
      <3>2. Arrived(id)
        BY DEF StoreInv
      <3> QED
        BY <2>2, <3>1, <3>2 DEF Arrived
    <2> QED
      BY <2>2, <2>7, <2>8, <2>9, <2>10, Zenon DEF StoreInv
  \* A page that is in a buffer or on its way to it stays so when only others move.
  <1>ArrivalStays.
        ASSUME NEW id, Arrived(id), UNCHANGED <<state, page, enqueued, outputDone>>,
               delivered'[id] = delivered[id],
               buffers'[id].destroyed = buffers[id].destroyed,
               buffers'[id].noMorePages = buffers[id].noMorePages,
               \A d \in Driver : Carries(d, id)' => Carries(d, id),
               \/ state = "FAILED" \/ buffers[id].destroyed
               \/ \A d \in Driver : Carries(d, id) => Carries(d, id)'
        PROVE  Arrived(id)'
    <2> USE <1>ArrivalStays
    <2>1. Once(delivered[id])' /\ (Elements(delivered[id]) \subseteq enqueued)'
      BY Zenon DEF Arrived
    <2>2. (\A d \in Driver : Carries(d, id) => page[d] \notin Elements(delivered[id]))'
      BY Zenon DEF Arrived
    <2>3. (state # "FAILED" /\ ~buffers[id].destroyed => (buffers[id].noMorePages => outputDone))'
      BY Zenon DEF Arrived
    <2>4. (state # "FAILED" /\ ~buffers[id].destroyed =>
             \A p \in enqueued : \/ p \in Elements(delivered[id])
                                 \/ \E d \in Driver : Carries(d, id) /\ page[d] = p)'
      BY Zenon DEF Arrived
    <2> QED
      BY <2>1, <2>2, <2>3, <2>4, Zenon DEF Arrived
  \* The page goes to one of the buffers that were read.
  <1>EnqueuePagesKeepsStore.
        ASSUME StateInv, LabelsInv, StoreInv, NEW d \in Driver, NEW id \in Id, EnqueuePages(d, id)
        PROVE  StoreInv'
    <2> USE <1>EnqueuePagesKeepsStore
    <2> USE DEF EnqueuePages, enqueueOn, task, locals
    <2>1. /\ pc[d] = "enqueue" /\ id \in todo[d] /\ todo'[d] = todo[d] \ {id}
          /\ \A e \in Driver : e # d => todo'[e] = todo[e]
      BY Kinds DEF StateInv, Shape
    <2>2. UNCHANGED <<state, initialPages, pc, page, enqueued, outputDone>>
      OBVIOUS
    <2>3. /\ page[d] \in enqueued /\ page[d] \in Page /\ id \in DOMAIN buffers
          /\ buffers[id] \in Buffer /\ ~outputDone /\ <<page[d]>> \in Seq(Page)
      BY <2>1 DEF StoreInv, Carrying, StoreType, LabelsInv
    <2>4. /\ DOMAIN buffers' = DOMAIN buffers
          /\ \A i \in DOMAIN buffers : i # id => buffers'[i] = buffers[i]
          /\ buffers'[id] = enqueuePages(buffers[id], <<page[d]>>)
      BY <2>3
    <2>5. /\ buffers[id].noMorePages => delivered' = delivered
          /\ ~buffers[id].noMorePages =>
                delivered' = [delivered EXCEPT ![id] = delivered[id] \o <<page[d]>>]
      OBVIOUS
    <2> HIDE DEF EnqueuePages
    <2>6. /\ buffers'[id] \in Buffer /\ buffers'[id].noMorePages = buffers[id].noMorePages
          /\ buffers'[id].destroyed = buffers[id].destroyed
      <3>1. /\ enqueuePages(buffers[id], <<page[d]>>) \in Buffer
            /\ enqueuePages(buffers[id], <<page[d]>>).noMorePages = buffers[id].noMorePages
            /\ enqueuePages(buffers[id], <<page[d]>>).destroyed = buffers[id].destroyed
        BY <2>3, EnqueuedBuffer, Zenon
      <3> QED
        BY <2>4, <3>1, Zenon
    <2>7. Arrived(id) /\ delivered[id] \in Seq(Page) /\ Carries(d, id)
      BY <2>1, <2>3 DEF StoreInv, StoreType, Carries
    <2>8. /\ delivered[id] \o <<page[d]>> \in Seq(Page) /\ Once(delivered[id] \o <<page[d]>>)
          /\ Elements(delivered[id] \o <<page[d]>>) = Elements(delivered[id]) \cup {page[d]}
      <3>1. Once(delivered[id]) /\ page[d] \notin Elements(delivered[id])
        BY <2>7 DEF Arrived
      <3> QED
        BY <2>3, <2>7, <3>1, Added
    <2>9. StoreType'
      <3>1. delivered' \in [Id -> Seq(Page)]
        <4>1. delivered \in [Id -> Seq(Page)]
          BY DEF StoreInv, StoreType
        <4> QED
          BY <2>5, <2>8, <4>1, Zenon
      <3> QED
        BY <2>2, <2>4, <2>6, <3>1, Zenon DEF StoreInv, StoreType
    <2>10. Carrying'
      BY <2>1, <2>2, <2>4, Zenon DEF StoreInv, Carrying
    <2>11. Initial'
      BY <2>2 DEF StoreInv, Initial, canAddBuffers
    <2>12. Arrived(id)'
      <3>1. /\ \A e \in Driver : e # d => (Carries(e, id)' <=> Carries(e, id))
            /\ ~Carries(d, id)'
        BY <2>1, <2>2 DEF Carries
      <3>2. \A e \in Driver : e # d /\ Carries(e, id) => page[e] # page[d]
        BY <2>1 DEF Carries, StoreInv, Carrying
      <3>3. CASE buffers[id].noMorePages
        <4>1. state = "FAILED" \/ buffers[id].destroyed
          BY <2>3, <2>7, <3>3, SMTT(30) DEF Arrived
        <4> QED
          BY <2>2, <2>5, <2>6, <2>7, <3>1, <3>3, <4>1, <1>ArrivalStays, Zenon
      <3>4. CASE ~buffers[id].noMorePages
        <4>1. delivered'[id] = delivered[id] \o <<page[d]>>
          BY <2>5, <3>4, SMTT(30) DEF StoreInv, StoreType
        <4>2. Once(delivered'[id]) /\ Elements(delivered'[id]) = Elements(delivered[id]) \cup {page[d]}
          BY <2>8, <4>1, Zenon
        <4> QED
          BY <2>2, <2>3, <2>6, <2>7, <3>1, <3>2, <4>2, Zenon DEF Arrived
      <3> QED
        BY <3>3, <3>4
    <2>13. ASSUME NEW i \in DOMAIN buffers, i # id PROVE Arrived(i)'
      <3>1. \A e \in Driver : Carries(e, i)' <=> Carries(e, i)
        BY <2>1, <2>2, <2>13, Zenon DEF Carries
      <3>2. delivered'[i] = delivered[i]
        <4>1. delivered \in [Id -> Seq(Page)] /\ i \in Id
          BY DEF StoreInv, StoreType, StateInv, Shape
        <4> QED
          BY <2>5, <2>13, <4>1
      <3>3. Arrived(i)
        BY DEF StoreInv
      <3> QED
        BY <2>2, <2>4, <2>13, <3>1, <3>2, <3>3, Zenon DEF Arrived
    <2> QED
      BY <2>4, <2>9, <2>10, <2>11, <2>12, <2>13, Zenon DEF StoreInv
  \* The driver leaves enqueue and lets go of its page.
  <1>EnqueueReturnsKeepsStore.
        ASSUME StateInv, LabelsInv, StoreInv, NEW d \in Driver, EnqueueReturns(d)
        PROVE  StoreInv'
    <2> USE <1>EnqueueReturnsKeepsStore
    <2> USE DEF EnqueueReturns, Go, history, task
    <2>1. /\ pc'[d] = "idle" /\ pc[d] = "enqueue" /\ todo[d] = {}
          /\ \A e \in Driver : e # d => pc'[e] = pc[e] /\ page'[e] = page[e]
          /\ page' \in [Driver -> Page \cup {None}]
      BY Kinds, Zenon DEF StateInv, Shape, StoreInv, StoreType
    <2>2. UNCHANGED <<state, buffers, initialPages, todo, delivered, enqueued, outputDone>>
      OBVIOUS
    <2> HIDE DEF EnqueueReturns
    <2>3. StoreType'
      BY <2>1, <2>2 DEF StoreInv, StoreType
    <2>4. Carrying'
      BY <2>1, <2>2 DEF StoreInv, Carrying
    <2>5. Initial'
      BY <2>1, <2>2, SMTT(30) DEF StoreInv, Initial, canAddBuffers
    <2>6. ASSUME NEW id \in DOMAIN buffers PROVE Arrived(id)'
      <3>1. /\ \A e \in Driver : e # d => (Carries(e, id)' <=> Carries(e, id))
            /\ ~Carries(d, id)' /\ ~Carries(d, id)
        BY <2>1, <2>2 DEF Carries
      <3>2. Arrived(id)
        BY DEF StoreInv
      <3> QED
        BY <2>1, <2>2, <3>1, <3>2, ZenonT(30) DEF Arrived
    <2> QED
      BY <2>2, <2>3, <2>4, <2>5, <2>6, Zenon DEF StoreInv
  \* Every step of enqueue keeps the pages where they belong.
  <1>DriverKeepsStore.
        ASSUME StateInv, LabelsInv, StoreInv, NEW d \in Driver, DriverStep(d) PROVE StoreInv'
    BY <1>DriverKeepsStore, <1>EnqueueKeepsStore, <1>RememberKeepsStore,
       <1>EnqueuePagesKeepsStore, <1>EnqueueReturnsKeepsStore
       DEF DriverStep
  \* noMoreBuffers: the pages for new buffers go, and no buffer can come any more.
  <1>ClearStep.
        ASSUME StoreInv, noMoreBuffers, ~canAddBuffers(state),
               UNCHANGED <<state, buffers, page, enqueued, delivered, outputDone>>,
               \A d \in Driver : pc'[d] = pc[d] /\ todo'[d] = todo[d]
        PROVE  StoreInv'
    <2> USE <1>ClearStep
    <2>1. initialPages' = <<>>
      BY Zenon DEF noMoreBuffers
    <2>2. StoreType'
      BY <2>1, Nothing DEF StoreInv, StoreType
    <2>3. Carrying'
      BY DEF StoreInv, Carrying
    <2>4. Initial'
      BY <2>1, Nothing DEF Initial
    <2>5. ASSUME NEW id \in DOMAIN buffers PROVE Arrived(id)'
      <3>1. \A d \in Driver : Carries(d, id)' <=> Carries(d, id)
        BY DEF Carries
      <3>2. Arrived(id)
        BY DEF StoreInv
      <3> QED
        BY <3>1, <3>2 DEF Arrived
    <2> QED
      BY <2>2, <2>3, <2>4, <2>5, Zenon DEF StoreInv
  \* A new buffer b with what a buffer of the future gets.
  <1>CreatedStep.
        ASSUME StateInv, LabelsInv, StoreInv, NEW id \in Id, id \notin DOMAIN buffers, mayCreate,
               NEW b \in Buffer, create(id, b),
               UNCHANGED <<state, initialPages, page, enqueued, outputDone, pc>>,
               \A d \in Driver : todo'[d] = todo[d],
               state = "FINISHED" => b.destroyed,
               b.noMorePages /\ ~b.destroyed /\ state # "FAILED" => outputDone
        PROVE  StoreInv'
    <2> USE <1>CreatedStep
    <2>1. /\ DOMAIN buffers' = DOMAIN buffers \cup {id} /\ buffers'[id] = b
          /\ \A i \in DOMAIN buffers : buffers'[i] = buffers[i]
      BY DEF create
    <2>2. delivered \in [Id -> Seq(Page)] /\ initialPages \in Seq(Page)
      BY DEF StoreInv, StoreType
    <2>3. initialPagesFor(id) \in Seq(Page)
      BY <2>2, Nothing, Zenon DEF initialPagesFor
    <2>4. /\ delivered'[id] = initialPagesFor(id) /\ delivered' \in [Id -> Seq(Page)]
          /\ \A i \in DOMAIN buffers : delivered'[i] = delivered[i]
      <3>1. delivered' = [delivered EXCEPT ![id] = initialPagesFor(id)] /\ DOMAIN buffers \subseteq Id
        BY Zenon DEF create, StateInv, Shape
      <3>2. delivered'[id] = initialPagesFor(id)
        BY <2>2, <3>1, Zenon
      <3>3. \A i \in DOMAIN buffers : delivered'[i] = delivered[i]
        BY <2>2, <3>1, Zenon
      <3>4. delivered' \in [Id -> Seq(Page)]
        BY <2>2, <2>3, <3>1, Zenon
      <3> QED
        BY <3>2, <3>3, <3>4
    <2>5. StoreType'
      BY <2>1, <2>4 DEF StoreInv, StoreType
    <2>6. Carrying'
      BY <2>1, Zenon DEF StoreInv, Carrying
    <2>7. Initial'
      BY DEF StoreInv, Initial, canAddBuffers
    <2>8. ASSUME NEW i \in DOMAIN buffers PROVE Arrived(i)'
      <3>1. \A d \in Driver : Carries(d, i)' <=> Carries(d, i)
        BY DEF Carries
      <3>2. Arrived(i)
        BY DEF StoreInv
      <3> QED
        BY <2>1, <2>4, <3>1, <3>2, <1>ArrivalStays, Zenon
    <2>9. Arrived(id)'
      <3>1. \A d \in Driver : Carries(d, id)' <=> pc[d] = "reserve"
        BY DEF Carries, StoreInv, Carrying
      <3>2. CASE state = "FAILED"
        BY <2>4, <3>2, Nothing, Zenon DEF Arrived, initialPagesFor
      <3>3. CASE state # "FAILED"
        <4>1. delivered'[id] = initialPages
          BY <2>4, <3>3 DEF initialPagesFor
        <4>2. ~b.destroyed => canAddBuffers(state)
          BY <3>3 DEF mayCreate, StateInv, Shape, State, Declaring, AllCreated, canAddBuffers
        <4> QED
          <5>1. Initial
            BY Zenon DEF StoreInv
          <5>2. b.destroyed \/ (b.noMorePages => outputDone)
            BY <3>3
          <5>3. (~b.destroyed => canAddBuffers(state)) /\ delivered'[id] = initialPages /\ buffers'[id] = b
            BY <2>1, <4>1, <4>2
          <5> QED
            BY <3>1, <5>1, <5>2, <5>3, Zenon DEF Arrived, Initial
      <3> QED
        BY <3>2, <3>3
    <2> QED
      BY <2>1, <2>5, <2>6, <2>7, <2>8, <2>9 DEF StoreInv
  \* A step of a thread that is not a driver leaves the drivers where they are.
  <1>DriversStay.
        ASSUME StateInv, NEW t \in Thread \ Driver,
               pc' = pc \/ \E label \in Pc : pc' = [pc EXCEPT ![t] = label],
               todo' = todo \/ \E ids \in SUBSET Id : todo' = [todo EXCEPT ![t] = ids]
        PROVE  \A d \in Driver : pc'[d] = pc[d] /\ todo'[d] = todo[d]
    BY <1>DriversStay, Kinds DEF StateInv, Shape
  \* A step of such a thread that leaves the buffers alone as well.
  <1>OtherStep.
        ASSUME StateInv, StoreInv, NEW t \in Thread \ Driver,
               UNCHANGED <<page, enqueued, initialPages, delivered, buffers>>,
               canAddBuffers(state') => canAddBuffers(state),
               state = "FAILED" => state' = "FAILED",
               outputDone => outputDone',
               pc' = pc \/ \E label \in Pc : pc' = [pc EXCEPT ![t] = label],
               todo' = todo \/ \E ids \in SUBSET Id : todo' = [todo EXCEPT ![t] = ids]
        PROVE  StoreInv'
    <2> USE <1>OtherStep
    <2>1. \A d \in Driver : pc'[d] = pc[d] /\ todo'[d] = todo[d]
      BY <1>DriversStay, Zenon
    <2>2. \A id \in DOMAIN buffers : buffers[id] \in Buffer
      BY DEF StoreInv, StoreType
    <2> QED
      BY <2>1, <2>2, <1>StoreStep
  \* A step of such a thread that changes one buffer, to b.
  <1>BufferStep.
        ASSUME StateInv, StoreInv, NEW t \in Thread \ Driver,
               UNCHANGED <<page, enqueued, initialPages, delivered, state, outputDone>>,
               pc' = pc \/ \E label \in Pc : pc' = [pc EXCEPT ![t] = label],
               todo' = todo \/ \E ids \in SUBSET Id : todo' = [todo EXCEPT ![t] = ids],
               NEW id, NEW b, buffers' = [buffers EXCEPT ![id] = b],
               id \in DOMAIN buffers =>
                  /\ b \in Buffer /\ (buffers[id].destroyed => b.destroyed)
                  /\ b.noMorePages /\ ~b.destroyed => buffers[id].noMorePages \/ outputDone
        PROVE  StoreInv'
    <2> USE <1>BufferStep
    <2>1. \A d \in Driver : pc'[d] = pc[d] /\ todo'[d] = todo[d]
      BY <1>DriversStay, Zenon
    <2>2. \A i \in DOMAIN buffers : buffers[i] \in Buffer
      BY DEF StoreInv, StoreType
    <2>3. /\ DOMAIN buffers' = DOMAIN buffers /\ (id \in DOMAIN buffers => buffers'[id] = b)
          /\ \A i \in DOMAIN buffers : i # id => buffers'[i] = buffers[i]
      OBVIOUS
    <2>4. ASSUME NEW i \in DOMAIN buffers
          PROVE  /\ buffers'[i] \in Buffer
                 /\ buffers[i].destroyed => buffers'[i].destroyed
                 /\ buffers'[i].noMorePages /\ ~buffers'[i].destroyed
                       => buffers[i].noMorePages \/ outputDone'
      <3>1. CASE i = id
        BY <2>3, <3>1
      <3>2. CASE i # id
        BY <2>2, <2>3, <3>2
      <3> QED
        BY <3>1, <3>2
    <2> QED
      BY <2>1, <2>3, <2>4, <1>StoreStep
  \* setOutputBuffers keeps the pages where they belong.
  <1>UpdateKeepsStore.
        ASSUME StateInv, LabelsInv, StoreInv,
               UpdateStep \/ \E ids \in SUBSET Id, noMore \in BOOLEAN : SetOutputBuffers(ids, noMore)
        PROVE  StoreInv'
    <2> USE <1>UpdateKeepsStore
    <2>1. Update \in Thread \ Driver
      BY Kinds
    <2>2. /\ {"idle", "adding", "cas", "unlocked", "noMoreBuffers", "flush1"} \subseteq Pc
          /\ {} \in SUBSET Id
      BY DEF Pc
    <2> USE DEF Go, store, declaration, locals, task, history, thread
    <2>3. ASSUME NEW ids \in SUBSET Id, NEW noMore \in BOOLEAN, SetOutputBuffers(ids, noMore)
          PROVE  StoreInv'
      <3>1. /\ UNCHANGED <<page, enqueued, initialPages, delivered, buffers, state, outputDone>>
            /\ pc' = [pc EXCEPT ![Update] = "adding"]
            /\ todo' = [todo EXCEPT ![Update] = ids \ DOMAIN buffers]
            /\ ids \ DOMAIN buffers \in SUBSET Id
        BY <2>3 DEF SetOutputBuffers
      <3>2. \E l \in Pc : pc' = [pc EXCEPT ![Update] = l]
        BY <2>2, <3>1, Zenon
      <3>3. \E s \in SUBSET Id : todo' = [todo EXCEPT ![Update] = s]
        BY <3>1, Zenon
      <3> QED
        BY <2>1, <3>1, <3>2, <3>3, <1>OtherStep, Zenon
    <2>4. ASSUME NEW id \in Id, AddBuffer(id) PROVE StoreInv'
      <3>1. /\ mayCreate /\ pc[Update] = "adding" /\ id \in todo[Update]
            /\ create(id, IF canAddPages(seen) THEN newBuffer(id) ELSE setNoMorePages(newBuffer(id)))
            /\ UNCHANGED <<state, initialPages, page, enqueued, outputDone, pc>>
            /\ todo' = [todo EXCEPT ![Update] = todo[Update] \ {id}]
        BY <2>4 DEF AddBuffer
      <3>2. /\ id \notin DOMAIN buffers /\ (canAddPages(seen) \/ outputDone)
            /\ \A d \in Driver : todo'[d] = todo[d]
        BY <2>1, <3>1, Kinds DEF LabelsInv, canAddPages, StateInv, Shape
      <3> DEFINE n == newBuffer(id)
                 b == IF canAddPages(seen) THEN n ELSE setNoMorePages(n)
      <3>3. /\ n \in Buffer /\ (state = "FINISHED" => n.destroyed)
            /\ state \notin {"FINISHED", "NO_MORE_PAGES", "FLUSHING"} => ~n.noMorePages
        BY NewBufferType, Zenon DEF StoreInv, StoreType
      <3> HIDE DEF n
      <3>4. setNoMorePages(n) \in Buffer /\ setNoMorePages(n).destroyed = n.destroyed
        BY <3>3, EndedBuffer, Zenon
      <3>5. b \in Buffer /\ (state = "FINISHED" => b.destroyed)
        BY <3>3, <3>4
      <3>6. b.noMorePages /\ ~b.destroyed /\ state # "FAILED" => outputDone
        BY <3>2, <3>3 DEF LabelsInv
      <3>7. create(id, b)
        BY <3>1, Zenon DEF n
      <3> HIDE DEF b
      <3> QED
        BY <3>1, <3>2, <3>5, <3>6, <3>7, <1>CreatedStep, Zenon
    <2>5. ASSUME AddBufferThrows \/ BuffersAdded \/ BuffersFlushing \/ BuffersUnlocked
          PROVE  StoreInv'
      <3>1. UNCHANGED <<page, enqueued, initialPages, delivered, buffers, outputDone>>
        BY <2>5 DEF AddBufferThrows, BuffersAdded, BuffersFlushing, BuffersUnlocked
      <3>2. /\ canAddBuffers(state') => canAddBuffers(state)
            /\ state = "FAILED" => state' = "FAILED"
        BY <2>5 DEF AddBufferThrows, BuffersAdded, BuffersFlushing, BuffersUnlocked, compareAndSet,
           canAddBuffers
      <3>3. \E l \in Pc : pc' = [pc EXCEPT ![Update] = l]
        BY <2>2, <2>5, Zenon DEF AddBufferThrows, BuffersAdded, BuffersFlushing, BuffersUnlocked,
           afterUpdate
      <3>4. todo' = todo \/ \E ids \in SUBSET Id : todo' = [todo EXCEPT ![Update] = ids]
        BY <2>2, <2>5, Zenon DEF AddBufferThrows, BuffersAdded, BuffersFlushing, BuffersUnlocked
      <3> QED
        BY <2>1, <3>1, <3>2, <3>3, <3>4, <1>OtherStep, Zenon
    <2>6. ASSUME NoMoreBuffers PROVE StoreInv'
      <3>1. /\ UNCHANGED <<state, buffers, page, enqueued, delivered, outputDone>>
            /\ noMoreBuffers /\ ~canAddBuffers(state)
            /\ pc' = [pc EXCEPT ![Update] = "flush1"] /\ todo' = todo
        BY <2>6, Zenon DEF NoMoreBuffers, LabelsInv
      <3>2. \A d \in Driver : pc'[d] = pc[d] /\ todo'[d] = todo[d]
        BY <2>1, <3>1, Kinds DEF StateInv, Shape
      <3> QED
        BY <3>1, <3>2, <1>ClearStep, ZenonT(30)
    <2> QED
      BY <2>3, <2>4, <2>5, <2>6, Zenon DEF UpdateStep
  \* get, acknowledge and abort keep the pages where they belong.
  <1>ConsumerKeepsStore.
        ASSUME StateInv, LabelsInv, StoreInv, NEW id \in Id,
               \/ GetBuffer(id) \/ Abort(id)
               \/ /\ id \in DOMAIN buffers
                  /\ \E n \in 0 .. Len(buffers[id].pages) :
                        Acknowledge(id, buffers[id].currentSequenceId + n)
        PROVE  StoreInv'
    <2> USE <1>ConsumerKeepsStore
    <2>1. id \in Thread \ Driver
      BY Kinds
    <2> USE DEF Go, store, declaration, locals, task, history, thread
    <2>2. ASSUME GetBuffer(id) PROVE StoreInv'
      <3>1. /\ mayCreate /\ id \notin DOMAIN buffers /\ create(id, newBuffer(id))
            /\ UNCHANGED <<state, initialPages, page, enqueued, outputDone, pc, todo>>
        BY <2>2 DEF GetBuffer
      <3>2. /\ newBuffer(id) \in Buffer /\ (state = "FINISHED" => newBuffer(id).destroyed)
            /\ state \notin {"FINISHED", "NO_MORE_PAGES", "FLUSHING"} => ~newBuffer(id).noMorePages
        BY NewBufferType, Zenon DEF StoreInv, StoreType
      <3>3. /\ newBuffer(id).noMorePages /\ ~newBuffer(id).destroyed /\ state # "FAILED" => outputDone
            /\ \A d \in Driver : todo'[d] = todo[d]
        BY <3>1, <3>2 DEF LabelsInv
      <3> QED
        BY <3>1, <3>2, <3>3, <1>CreatedStep, Zenon
    <2>3. ASSUME Abort(id) PROVE StoreInv'
      <3>1. /\ UNCHANGED <<page, enqueued, initialPages, delivered, state, outputDone, todo>>
            /\ pc' = [pc EXCEPT ![id] = "flush1"] /\ id \in DOMAIN buffers
            /\ buffers' = [buffers EXCEPT ![id] = destroy(buffers[id])]
        BY <2>3 DEF Abort, destroyOn
      <3>2. destroy(buffers[id]) \in Buffer /\ destroy(buffers[id]).destroyed = TRUE
        BY <3>1, EndedBuffer, Zenon DEF StoreInv, StoreType
      <3>3. \E l \in Pc : pc' = [pc EXCEPT ![id] = l]
        <4>1. "flush1" \in Pc
          BY DEF Pc
        <4> QED
          BY <3>1, <4>1, Zenon
      <3> QED
        BY <2>1, <3>1, <3>2, <3>3, <1>BufferStep, Zenon
    <2>4. ASSUME id \in DOMAIN buffers, NEW n \in 0 .. Len(buffers[id].pages),
                 Acknowledge(id, buffers[id].currentSequenceId + n)
          PROVE  StoreInv'
      <3> DEFINE m == buffers[id].currentSequenceId + n
                 b == acknowledgePages(buffers[id], m)
      <3>1. /\ UNCHANGED <<page, enqueued, initialPages, delivered, state, outputDone, todo, pc>>
            /\ buffers' = [buffers EXCEPT ![id] = b]
        BY <2>4 DEF Acknowledge
      <3>2. /\ b \in Buffer /\ b.noMorePages = buffers[id].noMorePages
            /\ b.destroyed = buffers[id].destroyed
        BY <2>4, AcknowledgedBuffer, Zenon DEF StoreInv, StoreType
      <3> HIDE DEF b, m
      <3> QED
        BY <2>1, <2>4, <3>1, <3>2, <1>BufferStep, Zenon
    <2> QED
      BY <2>2, <2>3, <2>4, Zenon
  \* checkFlushComplete keeps the pages where they belong.
  <1>FlushKeepsStore.
        ASSUME StateInv, LabelsInv, StoreInv, NEW t \in Thread, FlushStep(t) PROVE StoreInv'
    <2> USE <1>FlushKeepsStore
    <2>1. t \in Thread \ Driver
      BY Zenon DEF FlushStep, CheckFlushComplete, FlushSnapshot, FlushDecide, DestroyNoMore,
         DestroySnapshot, DestroyBuffer, LabelsInv
    <2>2. /\ {"idle", "flush2", "flushSnapshot", "flushDecide", "destroyNoMore", "destroySnapshot",
              "destroying"} \subseteq Pc
          /\ DOMAIN buffers \in SUBSET Id /\ {} \in SUBSET Id
          /\ \A id \in Id : todo[t] \ {id} \in SUBSET Id
      BY DEF Pc, StateInv, Shape
    <2> USE DEF Go, Visit, store, declaration, locals, task, history, thread
    <2>3. ASSUME \/ CheckFlushComplete(t) \/ FlushSnapshot(t) \/ FlushDecide(t) \/ DestroySnapshot(t)
          PROVE  StoreInv'
      <3>1. UNCHANGED <<page, enqueued, initialPages, delivered, buffers, outputDone>>
        BY <2>3 DEF CheckFlushComplete, FlushSnapshot, FlushDecide, DestroySnapshot
      <3>2. /\ canAddBuffers(state') => canAddBuffers(state)
            /\ state = "FAILED" => state' = "FAILED"
        BY <2>3 DEF CheckFlushComplete, FlushSnapshot, FlushDecide, DestroySnapshot, canAddBuffers,
           isTerminal
      <3>3. \E l \in Pc : pc' = [pc EXCEPT ![t] = l]
        BY <2>2, <2>3, Zenon DEF CheckFlushComplete, FlushSnapshot, FlushDecide, DestroySnapshot
      <3>4. todo' = todo \/ \E ids \in SUBSET Id : todo' = [todo EXCEPT ![t] = ids]
        BY <2>2, <2>3, Zenon DEF CheckFlushComplete, FlushSnapshot, FlushDecide, DestroySnapshot
      <3> QED
        BY <2>1, <3>1, <3>2, <3>3, <3>4, <1>OtherStep, Zenon
    <2>4. ASSUME DestroyNoMore(t) PROVE StoreInv'
      <3>1. /\ UNCHANGED <<state, buffers, page, enqueued, delivered, outputDone>>
            /\ noMoreBuffers /\ ~canAddBuffers(state)
            /\ pc' = [pc EXCEPT ![t] = "destroySnapshot"] /\ todo' = todo
        BY <2>4, Zenon DEF DestroyNoMore, LabelsInv, isTerminal, canAddBuffers
      <3>2. \A d \in Driver : pc'[d] = pc[d] /\ todo'[d] = todo[d]
        BY <2>1, <3>1, Kinds DEF StateInv, Shape
      <3> QED
        BY <3>1, <3>2, <1>ClearStep, ZenonT(30)
    <2>5. ASSUME NEW id \in Id, DestroyBuffer(t, id) PROVE StoreInv'
      <3>1. /\ UNCHANGED <<page, enqueued, initialPages, delivered, state, outputDone>>
            /\ buffers' = [buffers EXCEPT ![id] = destroy(buffers[id])]
        BY <2>5 DEF DestroyBuffer, destroyOn
      <3>2. id \in DOMAIN buffers =>
               destroy(buffers[id]) \in Buffer /\ destroy(buffers[id]).destroyed = TRUE
        BY <3>1, EndedBuffer, Zenon DEF StoreInv, StoreType
      <3>3. \E l \in Pc : pc' = [pc EXCEPT ![t] = l]
        BY <2>2, <2>5, Zenon DEF DestroyBuffer
      <3>4. \E ids \in SUBSET Id : todo' = [todo EXCEPT ![t] = ids]
        BY <2>2, <2>5, Zenon DEF DestroyBuffer
      <3> QED
        BY <2>1, <3>1, <3>2, <3>3, <3>4, <1>BufferStep, Zenon
    <2> QED
      BY <2>3, <2>4, <2>5, Zenon DEF FlushStep
  \* The end of the task keeps the pages where they belong.
  <1>TaskKeepsStore.
        ASSUME StateInv, LabelsInv, StoreInv, CheckTaskCompletion \/ FinishStep \/ Fail \/ Destroy
        PROVE  StoreInv'
    <2> USE <1>TaskKeepsStore
    <2>1. /\ Finish \in Thread \ Driver /\ Cancel \in Thread \ Driver
          /\ {"completing", "noMorePages", "pagesSnapshot", "setting", "flush1", "destroyNoMore"} \subseteq Pc
          /\ DOMAIN buffers \in SUBSET Id
          /\ \A id \in Id : todo[Finish] \ {id} \in SUBSET Id
      BY Kinds DEF Pc, StateInv, Shape
    <2> USE DEF Go, Visit, store, declaration, locals, task, history, thread
    <2>2. ASSUME CheckTaskCompletion \/ SetNoMorePages \/ PagesFlushing \/ PagesSnapshot
          PROVE  StoreInv'
      <3> USE DEF CheckTaskCompletion, SetNoMorePages, PagesFlushing, PagesSnapshot
      <3>1. UNCHANGED <<page, enqueued, initialPages, delivered, buffers>> /\ (outputDone => outputDone')
        BY <2>2
      <3>2. /\ canAddBuffers(state') => canAddBuffers(state)
            /\ state = "FAILED" => state' = "FAILED"
        BY <2>2 DEF transition, compareAndSet, canAddBuffers
      <3>3. \E l \in Pc : pc' = [pc EXCEPT ![Finish] = l]
        BY <2>1, <2>2, Zenon
      <3>4. todo' = todo \/ \E ids \in SUBSET Id : todo' = [todo EXCEPT ![Finish] = ids]
        BY <2>1, <2>2, Zenon
      <3> HIDE DEF CheckTaskCompletion, SetNoMorePages, PagesFlushing, PagesSnapshot
      <3> QED
        BY <2>1, <3>1, <3>2, <3>3, <3>4, <1>OtherStep, Zenon
    <2>3. ASSUME NEW id \in Id, SetNoMorePagesOn(id) PROVE StoreInv'
      <3>1. /\ UNCHANGED <<page, enqueued, initialPages, delivered, state, outputDone>>
            /\ buffers' = [buffers EXCEPT ![id] = setNoMorePages(buffers[id])] /\ outputDone
        BY <2>3 DEF SetNoMorePagesOn, LabelsInv
      <3>2. id \in DOMAIN buffers => /\ setNoMorePages(buffers[id]) \in Buffer
                                     /\ setNoMorePages(buffers[id]).destroyed = buffers[id].destroyed
        BY <3>1, EndedBuffer, Zenon DEF StoreInv, StoreType
      <3>3. \E l \in Pc : pc' = [pc EXCEPT ![Finish] = l]
        BY <2>1, <2>3, Zenon DEF SetNoMorePagesOn
      <3>4. \E ids \in SUBSET Id : todo' = [todo EXCEPT ![Finish] = ids]
        BY <2>1, <2>3, Zenon DEF SetNoMorePagesOn
      <3> QED
        BY <2>1, <3>1, <3>2, <3>3, <3>4, <1>BufferStep, Zenon
    <2>4. ASSUME Fail \/ Destroy PROVE StoreInv'
      <3>1. UNCHANGED <<page, enqueued, initialPages, delivered, buffers, outputDone, todo>>
        BY <2>4 DEF Fail, Destroy
      <3>2. /\ canAddBuffers(state') => canAddBuffers(state)
            /\ state = "FAILED" => state' = "FAILED"
        BY <2>4 DEF Fail, Destroy, canAddBuffers, isTerminal
      <3>3. pc' = pc \/ \E l \in Pc : pc' = [pc EXCEPT ![Cancel] = l]
        BY <2>1, <2>4, Zenon DEF Fail, Destroy
      <3> QED
        BY <2>1, <3>1, <3>2, <3>3, <1>OtherStep, Zenon
    <2> QED
      BY <2>2, <2>3, <2>4, Zenon DEF FinishStep
  <1>Together. PagesInv /\ [Next]_vars => PagesInv'
    <2> SUFFICES ASSUME PagesInv, [Next]_vars PROVE PagesInv'
      OBVIOUS
    <2>1. StateInv /\ LabelsInv /\ StoreInv /\ StateInv'
      BY NextKeepsState DEF PagesInv
    <2>2. CASE Next
      <3>1. ASSUME NEW id \in DOMAIN buffers, NEW n \in 0 .. Len(buffers[id].pages),
                   Acknowledge(id, buffers[id].currentSequenceId + n)
            PROVE  LabelsInv' /\ StoreInv'
        <4>1. id \in Id
          BY <2>1 DEF StateInv, Shape
        <4> QED
          BY <2>1, <3>1, <4>1, <1>ConsumerKeepsLabels, <1>ConsumerKeepsStore, Zenon
      <3>2. ASSUME \/ UpdateStep
                   \/ \E ids \in SUBSET Id, noMore \in BOOLEAN : SetOutputBuffers(ids, noMore)
            PROVE  LabelsInv' /\ StoreInv'
        BY <2>1, <3>2, <1>UpdateKeepsLabels, <1>UpdateKeepsStore, Zenon
      <3>3. ASSUME NEW id \in Id, GetBuffer(id) \/ Abort(id) PROVE LabelsInv' /\ StoreInv'
        BY <2>1, <3>3, <1>ConsumerKeepsLabels, <1>ConsumerKeepsStore, Zenon
      <3>4. ASSUME \/ \E d \in Driver : DriverStep(d)
                   \/ \E t \in Thread : FlushStep(t)
            PROVE  LabelsInv' /\ StoreInv'
        BY <2>1, <3>4, <1>DriverKeepsLabels, <1>DriverKeepsStore, <1>FlushKeepsLabels,
           <1>FlushKeepsStore, Zenon
      <3>5. ASSUME CheckTaskCompletion \/ FinishStep \/ Fail \/ Destroy
            PROVE  LabelsInv' /\ StoreInv'
        BY <2>1, <3>5, <1>TaskKeepsLabels, <1>TaskKeepsStore, Zenon
      <3> QED
        BY <2>1, <2>2, <3>1, <3>2, <3>3, <3>4, <3>5, Zenon DEF Next, PagesInv
    <2>3. CASE UNCHANGED vars
      <3> USE <2>1, <2>3 DEF vars, declaration, store, thread, locals, history, task
      <3>1. LabelsInv'
        BY DEF LabelsInv, canAddBuffers, isTerminal
      <3>2. \A id \in DOMAIN buffers : buffers[id] \in Buffer
        BY DEF StoreInv, StoreType
      <3>3. StoreInv'
        BY <3>2, <1>StoreStep
      <3> QED
        BY <3>1, <3>3 DEF PagesInv
    <2> QED
      BY <2>2, <2>3
  <1> QED
    BY <1>Together

\* Each page goes into each consumer's buffer at most once, and a buffer that tells its reader
\* "complete" has had every page that was enqueued: for any number of drivers, consumers and
\* pages, wherever doEnqueue, getBuffer, setOutputBuffers and setNoMorePages meet.
THEOREM EveryPageToEveryBuffer == Spec => []EveryBufferGetsEveryPage
  <1>1. Init => PagesInv
    BY StateStart, LabelsStart, StoreStart DEF PagesInv
  <1>2. PagesInv /\ [Next]_vars => PagesInv'
    BY NextKeepsPages
  <1>3. PagesInv => EveryBufferGetsEveryPage
    <2> SUFFICES ASSUME PagesInv, NEW id \in DOMAIN buffers
                 PROVE  /\ Once(delivered[id])
                        /\ buffers[id].noMorePages /\ ~buffers[id].destroyed /\ state # "FAILED"
                              => HasAllPages(id)
      BY DEF EveryBufferGetsEveryPage
    <2>1. Arrived(id)
      BY DEF PagesInv, StoreInv
    <2>2. outputDone => \A d \in Driver : ~Carries(d, id)
      BY DEF PagesInv, LabelsInv, Carries
    <2>3. HasAllPages(id) <=> Elements(delivered[id]) = enqueued
      BY DEF HasAllPages, Elements
    <2>4. Once(delivered[id]) /\ Elements(delivered[id]) \subseteq enqueued
      BY <2>1, Zenon DEF Arrived
    <2>5. ASSUME buffers[id].noMorePages, ~buffers[id].destroyed, state # "FAILED"
          PROVE  HasAllPages(id)
      <3>1. \A p \in enqueued : p \in Elements(delivered[id])
        BY <2>1, <2>2, <2>5, Zenon DEF Arrived
      <3>2. Elements(delivered[id]) = enqueued
        BY <2>4, <3>1
      <3> QED
        BY <2>3, <3>2, Zenon
    <2> QED
      BY <2>4, <2>5, Zenon
  <1> QED
    BY <1>1, <1>2, <1>3, PTL DEF Spec

-----------------------------------------------------------------------------
(* A finished buffer gives up its pages, or a thread is about to make it do so *)

\* The labels of destroy after its setIf.
Ends == {"destroyNoMore", "destroySnapshot", "destroying"}

Visits(t) == \A id \in DOMAIN buffers : buffers[id].destroyed \/ id \in todo[t]

Released ==
    state = "FINISHED" =>
       \/ \E t \in Thread : pc[t] = "destroyNoMore"
       \/ /\ initialPages = <<>>
          /\ \/ \E t \in Thread : pc[t] = "destroySnapshot"
             \/ \E t \in Thread : pc[t] = "destroying" /\ Visits(t)
             \/ \A id \in DOMAIN buffers : buffers[id].destroyed

\* Every step keeps the invariant of the release.
LEMMA NextReleases == PagesInv /\ Released /\ [Next]_vars => Released'
  \* A step that neither finishes the buffer nor moves a thread that destroys it.
  <1>ReleasedStep.
        ASSUME Released, \A t \in Thread : pc[t] \in Ends => pc'[t] = pc[t] /\ todo'[t] = todo[t],
               state' = "FINISHED" => state = "FINISHED",
               state = "FINISHED" /\ initialPages = <<>> => initialPages' = <<>>,
               state = "FINISHED" =>
                  \A id \in DOMAIN buffers' :
                     \/ buffers'[id].destroyed
                     \/ id \in DOMAIN buffers /\ ~buffers[id].destroyed
        PROVE  Released'
    <2> USE <1>ReleasedStep
    <2> SUFFICES ASSUME state' = "FINISHED" PROVE Released'
      BY Zenon DEF Released
    <2>1. CASE \E t \in Thread : pc[t] = "destroyNoMore"
      BY <2>1 DEF Released, Ends
    <2>2. CASE initialPages = <<>> /\ \E t \in Thread : pc[t] = "destroySnapshot"
      BY <2>2 DEF Released, Ends
    <2>3. CASE initialPages = <<>> /\ \E t \in Thread : pc[t] = "destroying" /\ Visits(t)
      <3>1. PICK t \in Thread : pc[t] = "destroying" /\ Visits(t)
        BY <2>3
      <3>2. pc'[t] = "destroying" /\ todo'[t] = todo[t]
        BY <3>1 DEF Ends
      <3>3. Visits(t)'
        BY <3>1, <3>2 DEF Visits
      <3> QED
        BY <2>3, <3>2, <3>3 DEF Released
    <2>4. CASE initialPages = <<>> /\ \A id \in DOMAIN buffers : buffers[id].destroyed
      BY <2>4, Zenon DEF Released
    <2> QED
      BY <2>1, <2>2, <2>3, <2>4, Zenon DEF Released
  \* A step of a thread that is not destroying the buffer leaves those that are where they are.
  <1>EndsStay.
        ASSUME PagesInv, NEW t \in Thread, pc[t] \notin Ends,
               pc' = pc \/ \E label \in Pc : pc' = [pc EXCEPT ![t] = label],
               todo' = todo \/ \E ids \in SUBSET Id : todo' = [todo EXCEPT ![t] = ids]
        PROVE  \A u \in Thread : pc[u] \in Ends => pc'[u] = pc[u] /\ todo'[u] = todo[u]
    BY <1>EndsStay DEF PagesInv, StateInv, Shape
  \* enqueue gives no page to a finished buffer that has given its pages up.
  <1>DriverReleases.
        ASSUME PagesInv, Released, NEW d \in Driver, DriverStep(d) PROVE Released'
    <2> USE <1>DriverReleases
    <2> USE DEF Go, history, task, locals
    <2>1. d \in Thread /\ pc[d] \notin Ends
      BY Kinds DEF PagesInv, LabelsInv, Ends
    <2>2. /\ {"idle", "reserve", "enqueue"} \subseteq Pc /\ DOMAIN buffers \in SUBSET Id
          /\ \A id \in Id : todo[d] \ {id} \in SUBSET Id
      BY <2>1 DEF Pc, PagesInv, StateInv, Shape
    <2>3. pc' = pc \/ \E label \in Pc : pc' = [pc EXCEPT ![d] = label]
      BY <2>2, Zenon DEF DriverStep, Enqueue, Remember, EnqueuePages, EnqueueReturns
    <2>4. todo' = todo \/ \E ids \in SUBSET Id : todo' = [todo EXCEPT ![d] = ids]
      BY <2>2, Zenon DEF DriverStep, Enqueue, Remember, EnqueuePages, EnqueueReturns
    <2>5. \A u \in Thread : pc[u] \in Ends => pc'[u] = pc[u] /\ todo'[u] = todo[u]
      BY <2>1, <2>3, <2>4, <1>EndsStay, Zenon
    <2>6. state' = state
      BY DEF DriverStep, Enqueue, Remember, EnqueuePages, EnqueueReturns
    <2>7. state = "FINISHED" /\ initialPages = <<>> => initialPages' = <<>>
      <3>1. state = "FINISHED" => remembered(d) = <<>>
        BY DEF remembered, canAddBuffers
      <3>2. initialPages = <<>> => initialPages \o <<>> = <<>>
        OBVIOUS
      <3>3. UNCHANGED initialPages \/ initialPages' = initialPages \o remembered(d)
        BY DEF DriverStep, Enqueue, Remember, EnqueuePages, EnqueueReturns
      <3> QED
        BY <3>1, <3>2, <3>3, Zenon
    <2>8. ASSUME NEW id \in DOMAIN buffers'
          PROVE  buffers'[id].destroyed \/ (id \in DOMAIN buffers /\ ~buffers[id].destroyed)
      <3>1. \/ UNCHANGED buffers
            \/ \E i \in Id : buffers' = [buffers EXCEPT ![i] = enqueuePages(buffers[i], <<page[d]>>)]
        BY Zenon DEF DriverStep, Enqueue, Remember, EnqueuePages, EnqueueReturns, enqueueOn
      <3>2. /\ id \in DOMAIN buffers
            /\ buffers'[id] = buffers[id] \/ buffers'[id] = enqueuePages(buffers[id], <<page[d]>>)
        BY <3>1
      <3>3. enqueuePages(buffers[id], <<page[d]>>).destroyed = buffers[id].destroyed
        <4>1. buffers[id] \in Buffer
          BY <3>2 DEF PagesInv, StoreInv, StoreType
        <4> QED
          BY <4>1, Zenon DEF enqueuePages, Buffer, BufferType
      <3> QED
        BY <3>2, <3>3, Zenon
    <2> QED
      BY <2>5, <2>6, <2>7, <2>8, <1>ReleasedStep, Zenon
  \* setOutputBuffers gives no page back to a finished buffer.
  <1>UpdateReleases.
        ASSUME PagesInv, Released,
               UpdateStep \/ \E ids \in SUBSET Id, noMore \in BOOLEAN : SetOutputBuffers(ids, noMore)
        PROVE  Released'
    <2> USE <1>UpdateReleases
    <2> USE DEF Go, store, declaration, locals, task, history, thread
    <2> DEFINE Plain == \/ AddBufferThrows \/ BuffersAdded \/ BuffersFlushing \/ BuffersUnlocked
                        \/ NoMoreBuffers
                        \/ \E ids \in SUBSET Id, noMore \in BOOLEAN : SetOutputBuffers(ids, noMore)
               Adds == \E id \in Id : AddBuffer(id)
    <2>1. Plain \/ Adds
      BY Zenon DEF UpdateStep
    <2>2. Update \in Thread /\ pc[Update] \notin Ends
      BY Kinds, Zenon DEF UpdateStep, SetOutputBuffers, AddBuffer, AddBufferThrows, BuffersAdded,
         BuffersFlushing, BuffersUnlocked, NoMoreBuffers, Ends
    <2>3. /\ {"idle", "adding", "cas", "unlocked", "noMoreBuffers", "flush1"} \subseteq Pc
          /\ {} \in SUBSET Id /\ \A ids \in SUBSET Id : ids \ DOMAIN buffers \in SUBSET Id
          /\ \A id \in Id : todo[Update] \ {id} \in SUBSET Id
      BY <2>2 DEF Pc, PagesInv, StateInv, Shape
    <2>4. pc' = pc \/ \E label \in Pc : pc' = [pc EXCEPT ![Update] = label]
      BY <2>1, <2>3, Zenon DEF SetOutputBuffers, AddBuffer, AddBufferThrows, BuffersAdded,
         BuffersFlushing, BuffersUnlocked, NoMoreBuffers, afterUpdate
    <2>5. todo' = todo \/ \E ids \in SUBSET Id : todo' = [todo EXCEPT ![Update] = ids]
      BY <2>1, <2>3, Zenon DEF SetOutputBuffers, AddBuffer, AddBufferThrows, BuffersAdded,
         BuffersFlushing, BuffersUnlocked, NoMoreBuffers
    <2>6. \A u \in Thread : pc[u] \in Ends => pc'[u] = pc[u] /\ todo'[u] = todo[u]
      BY <2>2, <2>4, <2>5, <1>EndsStay, Zenon
    <2>7. CASE Plain
      <3>1. /\ UNCHANGED buffers /\ (state' = "FINISHED" => state = "FINISHED")
            /\ UNCHANGED initialPages \/ initialPages' = <<>>
        BY <2>7, Zenon DEF SetOutputBuffers, AddBufferThrows, BuffersAdded, BuffersFlushing, BuffersUnlocked,
           NoMoreBuffers, noMoreBuffers, compareAndSet
      <3> HIDE DEF Plain
      <3> QED
        BY <2>6, <3>1, <1>ReleasedStep
    <2>8. CASE Adds
      <3>1. PICK id \in Id : AddBuffer(id)
        BY <2>8
      <3> DEFINE n == newBuffer(id)
                 b == IF canAddPages(seen) THEN n ELSE setNoMorePages(n)
      <3>2. UNCHANGED <<state, initialPages>> /\ create(id, b)
        BY <3>1, Zenon DEF AddBuffer
      <3>3. /\ DOMAIN buffers' = DOMAIN buffers \cup {id} /\ buffers'[id] = b
            /\ \A i \in DOMAIN buffers : i # id => buffers'[i] = buffers[i]
        BY <3>2 DEF create
      <3>4. n \in Buffer /\ (state = "FINISHED" => n.destroyed)
        BY NewBufferType, Zenon DEF PagesInv, StoreInv, StoreType
      <3> HIDE DEF n
      <3>5. setNoMorePages(n).destroyed = n.destroyed
        BY <3>4, EndedBuffer, Zenon
      <3>6. state = "FINISHED" => b.destroyed
        BY <3>4, <3>5, Zenon
      <3> HIDE DEF b, Adds, Plain
      <3>7. state = "FINISHED" => \A i \in DOMAIN buffers' :
               buffers'[i].destroyed \/ (i \in DOMAIN buffers /\ ~buffers[i].destroyed)
        BY <3>3, <3>6
      <3> QED
        BY <2>6, <3>2, <3>7, <1>ReleasedStep, Zenon
    <2> QED
      BY <2>1, <2>7, <2>8
  \* get, acknowledge and abort give no page back to a finished buffer.
  <1>ConsumerReleases.
        ASSUME PagesInv, Released, NEW id \in Id,
               \/ GetBuffer(id) \/ Abort(id)
               \/ /\ id \in DOMAIN buffers
                  /\ \E n \in 0 .. Len(buffers[id].pages) :
                        Acknowledge(id, buffers[id].currentSequenceId + n)
        PROVE  Released'
    <2> USE <1>ConsumerReleases
    <2> USE DEF Go, store, declaration, locals, task, history, thread
    <2>1. UNCHANGED <<state, initialPages>>
      BY Zenon DEF GetBuffer, Abort, Acknowledge
    <2>2. \A u \in Thread : pc[u] \in Ends => pc'[u] = pc[u] /\ todo'[u] = todo[u]
      <3>1. CASE GetBuffer(id) \/ \E n \in 0 .. Len(buffers[id].pages) :
                                   Acknowledge(id, buffers[id].currentSequenceId + n)
        BY <3>1, Zenon DEF GetBuffer, Acknowledge
      <3>2. CASE Abort(id)
        <4>1. pc[id] \notin Ends /\ pc' = [pc EXCEPT ![id] = "flush1"] /\ todo' = todo
          BY <3>2 DEF Abort, Ends
        <4> QED
          BY <4>1 DEF PagesInv, StateInv, Shape
      <3> QED
        BY <3>1, <3>2, Zenon
    <2>3. ASSUME NEW i \in DOMAIN buffers', state = "FINISHED"
          PROVE  buffers'[i].destroyed \/ (i \in DOMAIN buffers /\ ~buffers[i].destroyed)
      <3>1. CASE GetBuffer(id)
        <4>1. create(id, newBuffer(id))
          BY <3>1, Zenon DEF GetBuffer
        <4>2. newBuffer(id).destroyed
          BY <2>3, NewBufferType, Zenon DEF PagesInv, StoreInv, StoreType
        <4>3. i = id \/ (i \in DOMAIN buffers /\ buffers'[i] = buffers[i])
          BY <4>1, Zenon DEF create
        <4>4. buffers'[id] = newBuffer(id)
          BY <4>1 DEF create
        <4> QED
          BY <4>2, <4>3, <4>4, Zenon
      <3>2. CASE Abort(id)
        <4>1. id \in DOMAIN buffers /\ buffers' = [buffers EXCEPT ![id] = destroy(buffers[id])]
          BY <3>2 DEF Abort, destroyOn
        <4>2. destroy(buffers[id]).destroyed
          BY <4>1, EndedBuffer, Zenon DEF PagesInv, StoreInv, StoreType
        <4> QED
          BY <4>1, <4>2
      <3>3. ASSUME id \in DOMAIN buffers, NEW n \in 0 .. Len(buffers[id].pages),
                   Acknowledge(id, buffers[id].currentSequenceId + n)
            PROVE  buffers'[i].destroyed \/ (i \in DOMAIN buffers /\ ~buffers[i].destroyed)
        BY <3>3 DEF Acknowledge
      <3> QED
        BY <3>1, <3>2, <3>3, Zenon
    <2> QED
      BY <2>1, <2>2, <2>3, <1>ReleasedStep, Zenon
  \* destroy gives up the pages of the buffers one by one.
  <1>FlushReleases.
        ASSUME PagesInv, Released, NEW t \in Thread, FlushStep(t) PROVE Released'
    <2> USE <1>FlushReleases
    <2>1. /\ {"idle", "flush2", "flushSnapshot", "flushDecide"} \subseteq Pc \ Ends
          /\ {"destroyNoMore", "destroySnapshot", "destroying"} \subseteq Pc
          /\ DOMAIN buffers \in SUBSET Id /\ {} \in SUBSET Id
          /\ t \in DOMAIN pc /\ t \in DOMAIN todo
      BY DEF Pc, PagesInv, StateInv, Shape, Ends
    <2> USE DEF Go, Visit, store, declaration, locals, task, history, thread
    <2>2. ASSUME CheckFlushComplete(t) \/ FlushSnapshot(t) \/ FlushDecide(t) PROVE Released'
      <3>1. UNCHANGED <<initialPages, buffers>> /\ pc[t] \notin Ends
        BY <2>2 DEF CheckFlushComplete, FlushSnapshot, FlushDecide, Ends
      <3>2. \E l \in Pc : pc' = [pc EXCEPT ![t] = l]
        BY <2>1, <2>2, Zenon DEF CheckFlushComplete, FlushSnapshot, FlushDecide
      <3>3. todo' = todo \/ \E ids \in SUBSET Id : todo' = [todo EXCEPT ![t] = ids]
        BY <2>1, <2>2, Zenon DEF CheckFlushComplete, FlushSnapshot, FlushDecide
      <3>4. \A u \in Thread : pc[u] \in Ends => pc'[u] = pc[u] /\ todo'[u] = todo[u]
        BY <3>1, <3>2, <3>3, <1>EndsStay, Zenon
      <3>5. CASE state' = "FINISHED" => state = "FINISHED"
        BY <3>1, <3>4, <3>5, <1>ReleasedStep
      <3>6. CASE ~(state' = "FINISHED" => state = "FINISHED")
        <4>1. pc' = [pc EXCEPT ![t] = "destroyNoMore"]
          BY <2>2, <3>6 DEF CheckFlushComplete, FlushSnapshot, FlushDecide
        <4>2. pc'[t] = "destroyNoMore"
          BY <2>1, <4>1
        <4> QED
          BY <4>2 DEF Released
      <3> QED
        BY <3>5, <3>6
    <2>3. ASSUME DestroyNoMore(t) PROVE Released'
      <3>1. initialPages' = <<>> /\ pc'[t] = "destroySnapshot"
        BY <2>1, <2>3 DEF DestroyNoMore, noMoreBuffers
      <3> QED
        BY <3>1 DEF Released
    <2>4. ASSUME DestroySnapshot(t) PROVE Released'
      <3>1. /\ UNCHANGED <<state, buffers, initialPages>>
            /\ pc[t] = "destroySnapshot" /\ todo'[t] = DOMAIN buffers
            /\ pc'[t] = IF DOMAIN buffers = {} THEN "idle" ELSE "destroying"
            /\ \A u \in Thread : u # t => pc'[u] = pc[u]
        BY <2>1, <2>4 DEF DestroySnapshot, PagesInv, StateInv, Shape
      <3>2. CASE \E u \in Thread : pc[u] = "destroyNoMore"
        <4>1. PICK u \in Thread : pc[u] = "destroyNoMore"
          BY <3>2
        <4>2. pc'[u] = "destroyNoMore"
          BY <3>1, <4>1
        <4> QED
          BY <4>2 DEF Released
      <3>3. CASE ~\E u \in Thread : pc[u] = "destroyNoMore"
        <4>1. state' = "FINISHED" => initialPages' = <<>>
          BY <3>1, <3>3 DEF Released
        <4>2. CASE DOMAIN buffers = {}
          BY <3>1, <4>1, <4>2, Zenon DEF Released
        <4>3. CASE DOMAIN buffers # {}
          <5>1. pc'[t] = "destroying" /\ Visits(t)'
            BY <3>1, <4>3 DEF Visits
          <5> QED
            BY <4>1, <5>1 DEF Released
        <4> QED
          BY <4>2, <4>3, Zenon
      <3> QED
        BY <3>2, <3>3
    <2>5. ASSUME NEW id \in Id, DestroyBuffer(t, id) PROVE Released'
      <3>1. /\ UNCHANGED <<state, initialPages>> /\ pc[t] = "destroying" /\ id \in todo[t]
            /\ buffers' = [buffers EXCEPT ![id] = destroy(buffers[id])]
            /\ todo'[t] = todo[t] \ {id}
            /\ pc'[t] = IF todo[t] \ {id} = {} THEN "idle" ELSE "destroying"
        BY <2>1, <2>5 DEF DestroyBuffer, destroyOn
      <3>2. \A u \in Thread : u # t => pc'[u] = pc[u] /\ todo'[u] = todo[u]
        BY <2>5 DEF DestroyBuffer, PagesInv, StateInv, Shape
      <3>3. id \in DOMAIN buffers => destroy(buffers[id]).destroyed = TRUE
        BY EndedBuffer, Zenon DEF PagesInv, StoreInv, StoreType
      <3>4. DOMAIN buffers' = DOMAIN buffers /\ (id \in DOMAIN buffers => buffers'[id].destroyed)
        BY <3>1, <3>3
      <3>5. /\ DOMAIN buffers' = DOMAIN buffers /\ (id \in DOMAIN buffers => buffers'[id].destroyed)
            /\ \A i \in DOMAIN buffers : buffers[i].destroyed => buffers'[i].destroyed
        BY <3>1, <3>3, <3>4
      <3>6. CASE \E u \in Thread : pc[u] = "destroyNoMore"
        <4>1. PICK u \in Thread : pc[u] = "destroyNoMore"
          BY <3>6
        <4>2. pc'[u] = "destroyNoMore"
          BY <3>1, <3>2, <4>1, Zenon
        <4> QED
          BY <4>2 DEF Released
      <3>7. CASE initialPages = <<>> /\ \E u \in Thread : pc[u] = "destroySnapshot"
        <4>1. PICK u \in Thread : pc[u] = "destroySnapshot"
          BY <3>7
        <4>2. pc'[u] = "destroySnapshot"
          BY <3>1, <3>2, <4>1, Zenon
        <4> QED
          BY <3>1, <3>7, <4>2 DEF Released
      <3>8. CASE initialPages = <<>> /\ \A i \in DOMAIN buffers : buffers[i].destroyed
        BY <3>1, <3>5, <3>8 DEF Released
      <3>9. ASSUME initialPages = <<>>, NEW u \in Thread, pc[u] = "destroying", Visits(u)
            PROVE  Released'
        <4>1. CASE u # t
          <5>1. pc'[u] = "destroying" /\ Visits(u)'
            BY <3>2, <3>5, <3>9, <4>1 DEF Visits
          <5> QED
            BY <3>1, <3>9, <5>1 DEF Released
        <4>2. CASE u = t /\ todo[t] \ {id} # {}
          <5>1. pc'[t] = "destroying" /\ Visits(t)'
            BY <3>1, <3>5, <3>9, <4>2 DEF Visits
          <5> QED
            BY <3>1, <3>9, <5>1, Zenon DEF Released
        <4>3. CASE u = t /\ todo[t] \ {id} = {}
          <5>1. \A i \in DOMAIN buffers' : buffers'[i].destroyed
            BY <3>5, <3>9, <4>3 DEF Visits
          <5> QED
            BY <3>1, <3>9, <5>1 DEF Released
        <4> QED
          BY <4>1, <4>2, <4>3
      <3> QED
        BY <3>1, <3>6, <3>7, <3>8, <3>9, Zenon DEF Released
    <2> QED
      BY <2>2, <2>3, <2>4, <2>5, Zenon DEF FlushStep
  \* The end of the task starts giving up the pages.
  <1>TaskReleases.
        ASSUME PagesInv, Released, CheckTaskCompletion \/ FinishStep \/ Fail \/ Destroy
        PROVE  Released'
    <2> USE <1>TaskReleases
    <2>1. /\ Finish \in Thread /\ Cancel \in Thread /\ Cancel \in DOMAIN pc
          /\ {"completing", "noMorePages", "pagesSnapshot", "setting", "flush1", "destroyNoMore"}
                \subseteq Pc
          /\ DOMAIN buffers \in SUBSET Id
          /\ \A id \in Id : todo[Finish] \ {id} \in SUBSET Id
      BY Kinds DEF Pc, PagesInv, StateInv, Shape
    <2> USE DEF Go, Visit, store, declaration, locals, task, history, thread
    <2>2. ASSUME CheckTaskCompletion \/ FinishStep PROVE Released'
      <3> USE DEF FinishStep, CheckTaskCompletion, SetNoMorePages, PagesFlushing, PagesSnapshot,
                  SetNoMorePagesOn
      <3>1. /\ UNCHANGED initialPages /\ (state' = "FINISHED" => state = "FINISHED")
            /\ pc[Finish] \notin Ends
        BY <2>2, Zenon DEF transition, compareAndSet, Ends
      <3>2. \E l \in Pc : pc' = [pc EXCEPT ![Finish] = l]
        BY <2>1, <2>2, Zenon
      <3>3. todo' = todo \/ \E ids \in SUBSET Id : todo' = [todo EXCEPT ![Finish] = ids]
        BY <2>1, <2>2, Zenon
      <3>4. \/ UNCHANGED buffers
            \/ \E id \in Id : buffers' = [buffers EXCEPT ![id] = setNoMorePages(buffers[id])]
        BY <2>2, Zenon
      <3> HIDE DEF FinishStep, CheckTaskCompletion, SetNoMorePages, PagesFlushing, PagesSnapshot,
                   SetNoMorePagesOn
      <3>5. \A u \in Thread : pc[u] \in Ends => pc'[u] = pc[u] /\ todo'[u] = todo[u]
        BY <2>1, <3>1, <3>2, <3>3, <1>EndsStay, Zenon
      <3>6. ASSUME NEW i \in DOMAIN buffers'
            PROVE  buffers'[i].destroyed \/ (i \in DOMAIN buffers /\ ~buffers[i].destroyed)
        <4>1. /\ i \in DOMAIN buffers
              /\ buffers'[i] = buffers[i] \/ buffers'[i] = setNoMorePages(buffers[i])
          BY <3>4
        <4>2. setNoMorePages(buffers[i]).destroyed = buffers[i].destroyed
          BY <4>1, EndedBuffer, Zenon DEF PagesInv, StoreInv, StoreType
        <4> QED
          BY <4>1, <4>2, Zenon
      <3> QED
        BY <3>1, <3>5, <3>6, <1>ReleasedStep
    <2>3. ASSUME Fail PROVE Released'
      BY <2>3 DEF Fail, Released
    <2>4. ASSUME Destroy PROVE Released'
      <3>1. pc'[Cancel] = "destroyNoMore"
        BY <2>1, <2>4 DEF Destroy
      <3> QED
        BY <2>1, <3>1 DEF Released
    <2> QED
      BY <2>2, <2>3, <2>4
  <1>Together. PagesInv /\ Released /\ [Next]_vars => Released'
    <2> SUFFICES ASSUME PagesInv, Released, [Next]_vars PROVE Released'
      OBVIOUS
    <2>1. ASSUME NEW id \in DOMAIN buffers, NEW n \in 0 .. Len(buffers[id].pages),
                 Acknowledge(id, buffers[id].currentSequenceId + n)
          PROVE  Released'
      <3>1. id \in Id
        BY DEF PagesInv, StateInv, Shape
      <3> QED
        BY <2>1, <3>1, <1>ConsumerReleases, Zenon
    <2>2. CASE UNCHANGED vars
      <3>1. UNCHANGED <<state, initialPages, buffers, pc, todo>>
        BY <2>2 DEF vars, store, thread
      <3> QED
        BY <3>1, <1>ReleasedStep
    <2>3. CASE Next
      <3>1. ASSUME NEW id \in Id, GetBuffer(id) \/ Abort(id) PROVE Released'
        BY <3>1, <1>ConsumerReleases, Zenon
      <3>2. ASSUME \/ UpdateStep
                   \/ \E ids \in SUBSET Id, noMore \in BOOLEAN : SetOutputBuffers(ids, noMore)
            PROVE  Released'
        BY <3>2, <1>UpdateReleases, Zenon
      <3>3. ASSUME CheckTaskCompletion \/ FinishStep \/ Fail \/ Destroy PROVE Released'
        BY <3>3, <1>TaskReleases, Zenon
      <3>4. ASSUME \/ \E d \in Driver : DriverStep(d)
                   \/ \E t \in Thread : FlushStep(t)
            PROVE  Released'
        BY <3>4, <1>DriverReleases, <1>FlushReleases, Zenon
      <3> QED
        BY <2>1, <2>3, <3>1, <3>2, <3>3, <3>4, Zenon DEF Next
    <2> QED
      BY <2>2, <2>3
  <1> QED
    BY <1>Together

-----------------------------------------------------------------------------
(* Counting *)

\* The facts about finite sets that the counting rests on.  They are assumed up to the theorems,
\* where the library's theorems give them.
FiniteSetFacts ==
    /\ IsFiniteSet({}) /\ Cardinality({}) = 0
    /\ \A x : Cardinality({x}) = 1
    /\ \A S : IsFiniteSet(S) => Cardinality(S) \in Nat
    /\ \A S : IsFiniteSet(S) => \A T \in SUBSET S : IsFiniteSet(T)
    /\ \A S, x : IsFiniteSet(S) =>
          /\ IsFiniteSet(S \cup {x})
          /\ Cardinality(S \cup {x}) = IF x \in S THEN Cardinality(S) ELSE Cardinality(S) + 1
    /\ \A S, x : IsFiniteSet(S) =>
          /\ IsFiniteSet(S \ {x})
          /\ Cardinality(S \ {x}) = IF x \in S THEN Cardinality(S) - 1 ELSE Cardinality(S)

bit(b) == IF b THEN 1 ELSE 0

\* A page of a list without repetition occurs once in it.
LEMMA OccursOnce ==
    ASSUME FiniteSetFacts, NEW S, NEW s \in Seq(S), Once(s), NEW p
    PROVE  occurrences(s, p) = bit(p \in Elements(s))
  <1> DEFINE I == {i \in DOMAIN s : s[i] = p}
  <1>1. CASE p \notin Elements(s)
    <2>1. I = {}
      BY <1>1 DEF Elements
    <2> QED
      BY <1>1, <2>1, Zenon DEF FiniteSetFacts, occurrences, bit
  <1>2. CASE p \in Elements(s)
    <2>1. PICK i \in DOMAIN s : s[i] = p
      BY <1>2 DEF Elements
    <2>2. \A j \in DOMAIN s : s[j] = p => j = i
      BY <2>1, Zenon DEF Once
    <2>3. \A j : j \in I <=> j \in {i}
      BY <2>1, <2>2, Zenon
    <2>4. I = {i}
      BY <2>3, Zenon
    <2> QED
      BY <1>2, <2>4, Zenon DEF FiniteSetFacts, occurrences, bit
  <1> QED
    BY <1>1, <1>2

\* A set with at most one member counts one or zero.
LEMMA OneMember ==
    ASSUME FiniteSetFacts, NEW S, \A x, y \in S : x = y
    PROVE  Cardinality(S) = bit(S # {})
  <1>1. CASE S = {}
    BY <1>1 DEF FiniteSetFacts, bit
  <1>2. CASE S # {}
    <2>1. PICK x \in S : S = {x}
      BY <1>2
    <2> QED
      BY <1>2, <2>1, Zenon DEF FiniteSetFacts, bit
  <1> QED
    BY <1>1, <1>2

\* What SubSeq takes from the front and what it leaves.
LEMMA Cut ==
    ASSUME NEW S, NEW s \in Seq(S), Once(s), NEW n \in 0 .. Len(s)
    PROVE  /\ SubSeq(s, 1, n) \in Seq(S) /\ Once(SubSeq(s, 1, n))
           /\ SubSeq(s, n + 1, Len(s)) \in Seq(S) /\ Once(SubSeq(s, n + 1, Len(s)))
           /\ Elements(SubSeq(s, n + 1, Len(s))) = Elements(s) \ Elements(SubSeq(s, 1, n))
           /\ Elements(SubSeq(s, 1, n)) \subseteq Elements(s)
  <1> DEFINE front == SubSeq(s, 1, n)
             rest == SubSeq(s, n + 1, Len(s))
  <1>1. /\ n \in Nat /\ Len(s) \in Nat /\ n <= Len(s) /\ DOMAIN s = 1 .. Len(s)
        /\ front \in Seq(S) /\ DOMAIN front = 1 .. n /\ \A i \in 1 .. n : front[i] = s[i]
    BY SMTT(30)
  <1>2. /\ rest \in Seq(S) /\ DOMAIN rest = 1 .. (Len(s) - n)
        /\ \A i \in 1 .. (Len(s) - n) : rest[i] = s[n + i]
    BY <1>1
  <1> HIDE DEF front, rest
  <1>3. Once(front) /\ Once(rest)
    <2>1. \A i, j \in 1 .. Len(s) : s[i] = s[j] => i = j
      BY <1>1 DEF Once
    <2>2. \A i, j \in 1 .. n : front[i] = front[j] => i = j
      BY <1>1, <2>1
    <2>3. ASSUME NEW i \in 1 .. (Len(s) - n), NEW j \in 1 .. (Len(s) - n), rest[i] = rest[j]
          PROVE  i = j
      <3>1. n + i \in 1 .. Len(s) /\ n + j \in 1 .. Len(s) /\ s[n + i] = s[n + j]
        BY <1>1, <1>2, <2>3
      <3>2. n + i = n + j
        BY <2>1, <3>1
      <3> QED
        BY <1>1, <3>2
    <2> QED
      BY <1>1, <1>2, <2>2, <2>3, Zenon DEF Once
  <1>4. \A x : x \in Elements(front) <=> \E i \in 1 .. n : s[i] = x
    BY <1>1 DEF Elements
  <1>5. \A x : x \in Elements(rest) <=> \E i \in 1 .. Len(s) : i > n /\ s[i] = x
    <2>1. ASSUME NEW x, NEW i \in 1 .. Len(s), i > n, s[i] = x PROVE x \in Elements(rest)
      <3>1. i - n \in DOMAIN rest /\ rest[i - n] = x
        BY <1>1, <1>2, <2>1
      <3> QED
        BY <3>1 DEF Elements
    <2>2. ASSUME NEW x, x \in Elements(rest) PROVE \E i \in 1 .. Len(s) : i > n /\ s[i] = x
      <3>1. PICK i \in DOMAIN rest : rest[i] = x
        BY <2>2 DEF Elements
      <3>2. i \in Nat /\ 1 <= i /\ i <= Len(s) - n /\ s[n + i] = x
        BY <1>1, <1>2, <3>1
      <3>3. n + i \in 1 .. Len(s) /\ n + i > n
        BY <1>1, <3>2
      <3> QED
        BY <3>2, <3>3, Zenon
    <2> QED
      BY <2>1, <2>2
  <1>6. \A x : x \in Elements(s) <=> \E i \in 1 .. Len(s) : s[i] = x
    BY <1>1 DEF Elements
  <1>7. Elements(rest) = Elements(s) \ Elements(front)
    <2>1. \A i, j \in 1 .. Len(s) : s[i] = s[j] => i = j
      BY <1>1 DEF Once
    <2> QED
      BY <1>1, <1>4, <1>5, <1>6, <2>1
  <1>8. Elements(front) \subseteq Elements(s)
    BY <1>1, <1>4, <1>6
  <1> QED
    BY <1>1, <1>2, <1>3, <1>7, <1>8, Zenon DEF front, rest

-----------------------------------------------------------------------------
(* The counter of a page is the number of its holders *)

Buffered(p) == {id \in DOMAIN buffers : p \in Elements(buffers[id].pages)}

Carried(p) == bit(\E d \in Driver : page[d] = p)

Kept(p) == bit(p \in Elements(initialPages))

\* A buffer holds pages that it was given, each once, and a destroyed one holds none.
Held(id) ==
    /\ Once(buffers[id].pages) /\ Elements(buffers[id].pages) \subseteq Elements(delivered[id])
    /\ buffers[id].destroyed => buffers[id].noMorePages /\ buffers[id].pages = <<>>

Holding ==
    /\ IsFiniteSet(DOMAIN buffers)
    /\ \A d \in Driver : pc[d] = "idle" => page[d] = None
    /\ \A id \in DOMAIN buffers : Held(id)
    /\ \A t \in Thread : pc[t] = "destroying" => todo[t] \subseteq DOMAIN buffers

Counted ==
    /\ refs \in [Page -> Nat]
    /\ \A p \in Page : refs[p] = Carried(p) + Kept(p) + Cardinality(Buffered(p))

\* Finitely many client buffers hold a page.
LEMMA BufferedFinite ==
    ASSUME FiniteSetFacts, IsFiniteSet(DOMAIN buffers), NEW p
    PROVE  IsFiniteSet(Buffered(p)) /\ Cardinality(Buffered(p)) \in Nat
  <1>1. Buffered(p) \in SUBSET DOMAIN buffers
    BY DEF Buffered
  <1>2. IsFiniteSet(Buffered(p))
    BY <1>1, Zenon DEF FiniteSetFacts
  <1> QED
    BY <1>2, Zenon DEF FiniteSetFacts

\* A step on one buffer, which it may create.
LEMMA OneBuffer ==
    ASSUME FiniteSetFacts, IsFiniteSet(DOMAIN buffers), NEW id, DOMAIN buffers' = DOMAIN buffers \cup {id},
           \A i \in DOMAIN buffers : i # id => buffers'[i].pages = buffers[i].pages,
           NEW p
    PROVE  /\ IsFiniteSet(DOMAIN buffers') /\ Cardinality(Buffered(p)') \in Nat
           /\ Cardinality(Buffered(p)') = Cardinality(Buffered(p)) - bit(id \in Buffered(p))
                                           + bit(p \in Elements(buffers'[id].pages))
  <1>1. IsFiniteSet(DOMAIN buffers')
    BY Zenon DEF FiniteSetFacts
  <1> DEFINE others == Buffered(p) \ {id}
  <1>2. IsFiniteSet(Buffered(p)) /\ Cardinality(Buffered(p)) \in Nat
    BY BufferedFinite
  <1>3. /\ IsFiniteSet(others)
        /\ Cardinality(others) =
              IF id \in Buffered(p) THEN Cardinality(Buffered(p)) - 1 ELSE Cardinality(Buffered(p))
    BY <1>2, Zenon DEF FiniteSetFacts
  <1>4. /\ IsFiniteSet(others \cup {id})
        /\ Cardinality(others \cup {id}) =
              IF id \in others THEN Cardinality(others) ELSE Cardinality(others) + 1
    BY <1>3, Zenon DEF FiniteSetFacts
  <1>5. Buffered(p)' = IF p \in Elements(buffers'[id].pages) THEN others \cup {id} ELSE others
    <2>1. \A i \in DOMAIN buffers : i # id => (i \in Buffered(p)' <=> i \in Buffered(p))
      BY DEF Buffered
    <2>2. id \in Buffered(p)' <=> p \in Elements(buffers'[id].pages)
      BY DEF Buffered
    <2>3. Buffered(p)' \subseteq DOMAIN buffers \cup {id} /\ Buffered(p) \subseteq DOMAIN buffers
      BY DEF Buffered
    <2> QED
      BY <2>1, <2>2, <2>3
  <1>6. id \notin others
    OBVIOUS
  <1> HIDE DEF others
  <1>7. Cardinality(Buffered(p)') \in Nat
    BY <1>3, <1>4, <1>5, Zenon DEF FiniteSetFacts
  <1> DEFINE m == Cardinality(Buffered(p))
             n == Cardinality(others)
             k == Cardinality(Buffered(p)')
  <1>8. m \in Nat /\ n = IF id \in Buffered(p) THEN m - 1 ELSE m
    BY <1>2, <1>3, Zenon
  <1>9. k = IF p \in Elements(buffers'[id].pages) THEN n + 1 ELSE n
    BY <1>4, <1>5, <1>6, Zenon
  <1> HIDE DEF m, n, k
  <1>10. k = m - bit(id \in Buffered(p)) + bit(p \in Elements(buffers'[id].pages))
    BY <1>8, <1>9 DEF bit
  <1> QED
    BY <1>1, <1>7, <1>10, Zenon DEF m, k

\* Counting the other two kinds of holders.
LEMMA Bits == /\ \A b : bit(b) \in {0, 1}
              /\ \A p : Carried(p) \in {0, 1} /\ Kept(p) \in {0, 1}
  BY DEF bit, Carried, Kept

\* A function whose values are of a type.
LEMMA FunctionInto == ASSUME NEW f, NEW S, NEW T, f = [x \in S |-> f[x]], \A x \in S : f[x] \in T
                      PROVE  f \in [S -> T]
  OBVIOUS

\* At the start every counter is zero and nobody holds a page.
LEMMA CountingStarts == ASSUME FiniteSetFacts, Init PROVE Holding /\ Counted
  <1>1. DOMAIN buffers = {} /\ initialPages = <<>> /\ refs = [p \in Page |-> 0]
    BY DEF Init
  <1>2. \A d \in Driver : page[d] = None
    BY DEF Init
  <1>3. Holding
    BY <1>1, <1>2 DEF FiniteSetFacts, Holding, Init
  <1>4. ASSUME NEW p \in Page PROVE Carried(p) = 0 /\ Kept(p) = 0 /\ Cardinality(Buffered(p)) = 0
    <2>1. Buffered(p) = {}
      BY <1>1 DEF Buffered
    <2> QED
      BY <1>1, <1>2, <2>1, Nothing, PagesAssumption DEF FiniteSetFacts, Carried, Kept, bit
  <1> QED
    BY <1>1, <1>3, <1>4 DEF Counted

\* A step that leaves the pages and their holders alone.
LEMMA CountStep ==
    ASSUME Holding, Counted, UNCHANGED <<refs, page, initialPages, delivered>>,
           \A d \in Driver : pc'[d] = pc[d],
           \A t \in Thread : pc'[t] = "destroying" => todo'[t] \subseteq DOMAIN buffers,
           DOMAIN buffers' = DOMAIN buffers,
           \A id \in DOMAIN buffers :
              /\ buffers'[id].pages = buffers[id].pages
              /\ buffers'[id].destroyed = buffers[id].destroyed
              /\ buffers[id].noMorePages => buffers'[id].noMorePages
    PROVE  Holding' /\ Counted'
  <1>1. \A id \in DOMAIN buffers : Held(id)'
    BY DEF Holding, Held
  <1>2. Holding'
    BY <1>1, Zenon DEF Holding
  <1>3. ASSUME NEW p \in Page
        PROVE  Buffered(p)' = Buffered(p) /\ Carried(p)' = Carried(p) /\ Kept(p)' = Kept(p)
    <2>1. Buffered(p)' = Buffered(p)
      BY DEF Buffered
    <2> QED
      BY <2>1 DEF Carried, Kept
  <1> QED
    BY <1>2, <1>3, Zenon DEF Counted

\* enqueue: the driver that carries a page is counted.
LEMMA EnqueueCounts ==
    ASSUME FiniteSetFacts, PagesInv, Holding, Counted, NEW d \in Driver, NEW p \in Page, Enqueue(d, p)
    PROVE  Holding' /\ Counted'
  <1> USE DEF Enqueue, Go
  <1>1. /\ pc'[d] = "reserve" /\ page'[d] = p /\ pc[d] = "idle"
        /\ \A e \in Driver : e # d => pc'[e] = pc[e] /\ page'[e] = page[e]
        /\ \A t \in Thread : t # d => pc'[t] = pc[t]
    BY Kinds DEF PagesInv, StateInv, Shape, StoreInv, StoreType
  <1>2. UNCHANGED <<buffers, initialPages, todo, delivered>> /\ p \notin enqueued
    OBVIOUS
  <1>3. refs' = [refs EXCEPT ![p] = 1]
    OBVIOUS
  <1> HIDE DEF Enqueue
  <1>4. Holding'
    <2>1. \A id \in DOMAIN buffers : Held(id)'
      BY <1>2, Zenon DEF Holding, Held
    <2>2. \A t \in Thread : pc'[t] = "destroying" => pc[t] = "destroying"
      BY <1>1, Kinds, Zenon
    <2> QED
      BY <1>1, <1>2, <2>1, <2>2, Zenon DEF Holding
  <1>5. ASSUME NEW q \in Page
        PROVE  /\ Kept(q)' = Kept(q) /\ Buffered(q)' = Buffered(q)
               /\ q # p => Carried(q)' = Carried(q)
    <2>1. page[d] = None
      BY <1>1 DEF Holding
    <2>2. q # p => ((\E e \in Driver : page'[e] = q) <=> (\E e \in Driver : page[e] = q))
      BY <1>1, <2>1, PagesAssumption
    <2> QED
      BY <1>2, <2>2, Zenon DEF Kept, Buffered, Carried
  <1>6. Carried(p)' = 1
    BY <1>1 DEF Carried, bit
  <1>7. Kept(p) = 0 /\ Cardinality(Buffered(p)) = 0
    <2>1. p \notin Elements(initialPages)
      BY <1>2, Zenon DEF PagesInv, StoreInv, Initial
    <2>2. \A id \in DOMAIN buffers : p \notin Elements(buffers[id].pages)
      BY <1>2, Zenon DEF PagesInv, StoreInv, Arrived, Holding, Held
    <2>3. Buffered(p) = {}
      BY <2>2 DEF Buffered
    <2> QED
      BY <2>1, <2>3 DEF FiniteSetFacts, Kept, bit
  <1>8. refs' \in [Page -> Nat] /\ refs'[p] = 1 /\ \A q \in Page : q # p => refs'[q] = refs[q]
    BY <1>3 DEF Counted
  <1> QED
    BY <1>4, <1>5, <1>6, <1>7, <1>8 DEF Counted

\* What the references of a list of pages that differ add and take away.
LEMMA References ==
    ASSUME FiniteSetFacts, Counted, NEW s \in Seq(Page), Once(s)
    PROVE  /\ addReferences(s) = [p \in Page |-> addReferences(s)[p]]
           /\ dereference(s) = [p \in Page |-> dereference(s)[p]]
           /\ \A p \in Page : /\ addReferences(s)[p] = refs[p] + bit(p \in Elements(s))
                              /\ dereference(s)[p] = refs[p] - bit(p \in Elements(s))
  <1>1. \A p \in Page : occurrences(s, p) = bit(p \in Elements(s))
    BY OccursOnce
  <1> QED
    BY <1>1 DEF addReferences, dereference

\* The list of one page.
LEMMA OnePage == ASSUME NEW p \in Page
                 PROVE  <<p>> \in Seq(Page) /\ Once(<<p>>) /\ Elements(<<p>>) = {p}
  BY DEF Once, Elements

\* The list for new buffers is counted when it takes the page.
LEMMA RememberCounts ==
    ASSUME FiniteSetFacts, PagesInv, Holding, Counted, NEW d \in Driver, Remember(d)
    PROVE  Holding' /\ Counted'
  <1> USE DEF Remember, Go, history, task, locals
  <1>1. /\ pc'[d] = "enqueue" /\ pc[d] = "reserve"
        /\ \A t \in Thread : t # d => pc'[t] = pc[t] /\ todo'[t] = todo[t]
    BY Kinds DEF PagesInv, StateInv, Shape
  <1>2. UNCHANGED <<buffers, page, delivered>>
    OBVIOUS
  <1>3. initialPages' = initialPages \o remembered(d) /\ refs' = addReferences(remembered(d))
    OBVIOUS
  <1> HIDE DEF Remember
  <1>4. Holding'
    <2>1. \A id \in DOMAIN buffers : Held(id)'
      BY <1>2 DEF Holding, Held
    <2>2. \A t \in Thread : pc'[t] = "destroying" => pc[t] = "destroying" /\ todo'[t] = todo[t]
      BY <1>1, Kinds, Zenon
    <2>3. \A e \in Driver : pc'[e] = "idle" => pc[e] = "idle"
      BY <1>1, Kinds
    <2> QED
      BY <1>2, <2>1, <2>2, <2>3 DEF Holding
  <1>5. /\ page[d] \in Page /\ page[d] \notin Elements(initialPages)
        /\ initialPages \in Seq(Page)
    BY <1>1, Zenon DEF PagesInv, StoreInv, Carrying, StoreType, Initial
  <1>6. \A p \in Page : Carried(p)' = Carried(p) /\ Buffered(p)' = Buffered(p)
    BY <1>2 DEF Carried, Buffered
  <1>7. remembered(d) \in Seq(Page) /\ Once(remembered(d))
    BY <1>5, OnePage, Nothing DEF remembered
  <1>8. /\ refs' = [p \in Page |-> refs'[p]]
        /\ \A p \in Page : refs'[p] = refs[p] + bit(p \in Elements(remembered(d)))
    BY <1>3, <1>7, References
  <1>9. \A p \in Page : Kept(p)' = Kept(p) + bit(p \in Elements(remembered(d)))
    <2>1. CASE canAddBuffers(state)
      <3>1. Elements(initialPages') = Elements(initialPages) \cup {page[d]}
        <4>1. initialPages' = initialPages \o <<page[d]>>
          BY <1>3, <2>1, Zenon DEF remembered
        <4> DEFINE s == initialPages
                   p == page[d]
        <4>2. s \in Seq(Page) /\ p \in Page
          BY <1>5, Zenon
        <4> HIDE DEF s, p
        <4>3. Elements(s \o <<p>>) = Elements(s) \cup {p}
          BY <4>2, Added, SMTT(20)
        <4> QED
          BY <4>1, <4>3, Zenon DEF s, p
      <3>2. Elements(remembered(d)) = {page[d]}
        BY <1>5, <2>1, OnePage DEF remembered
      <3> QED
        BY <1>5, <3>1, <3>2 DEF Kept, bit
    <2>2. CASE ~canAddBuffers(state)
      <3>1. initialPages' = initialPages /\ Elements(remembered(d)) = {}
        BY <1>3, <1>5, <2>2, AddedNothing, Nothing, Zenon DEF remembered
      <3> QED
        BY <3>1 DEF Kept, bit
    <2> QED
      BY <2>1, <2>2
  <1>10. ASSUME NEW p \in Page
         PROVE  refs'[p] \in Nat /\ refs'[p] = Carried(p)' + Kept(p)' + Cardinality(Buffered(p)')
    <2>1. refs[p] \in Nat /\ refs[p] = Carried(p) + Kept(p) + Cardinality(Buffered(p))
      BY DEF Counted
    <2>2. Cardinality(Buffered(p)) \in Nat
      BY BufferedFinite DEF Holding
    <2>3. /\ Carried(p) \in {0, 1} /\ Kept(p) \in {0, 1}
          /\ bit(p \in Elements(remembered(d))) \in {0, 1}
      BY Bits
    <2> QED
      BY <1>6, <1>8, <1>9, <2>1, <2>2, <2>3
  <1> QED
    BY <1>4, <1>8, <1>10, FunctionInto DEF Counted

\* The pages of one buffer change, and the counters with them.
LEMMA BufferCounts ==
    ASSUME FiniteSetFacts, Holding, Counted, UNCHANGED <<page, initialPages>>,
           NEW id, DOMAIN buffers' = DOMAIN buffers \cup {id},
           \A i \in DOMAIN buffers : i # id => buffers'[i].pages = buffers[i].pages,
           refs' = [p \in Page |-> refs'[p]],
           \A p \in Page : refs'[p] = refs[p] + bit(p \in Elements(buffers'[id].pages))
                                              - bit(id \in Buffered(p))
    PROVE  Counted'
  <1>1. ASSUME NEW p \in Page
        PROVE  refs'[p] \in Nat /\ refs'[p] = Carried(p)' + Kept(p)' + Cardinality(Buffered(p)')
    <2>1. /\ refs[p] = Carried(p) + Kept(p) + Cardinality(Buffered(p))
          /\ Carried(p) \in {0, 1} /\ Kept(p) \in {0, 1}
      BY Bits DEF Counted
    <2>2. Carried(p)' = Carried(p) /\ Kept(p)' = Kept(p)
      BY DEF Carried, Kept
    <2>3. /\ Cardinality(Buffered(p)') \in Nat /\ Cardinality(Buffered(p)) \in Nat
          /\ Cardinality(Buffered(p)') = Cardinality(Buffered(p)) - bit(id \in Buffered(p))
                                          + bit(p \in Elements(buffers'[id].pages))
      BY OneBuffer, BufferedFinite, Zenon DEF Holding
    <2>4. bit(id \in Buffered(p)) \in {0, 1} /\ bit(p \in Elements(buffers'[id].pages)) \in {0, 1}
      BY Bits
    <2> QED
      BY <2>1, <2>2, <2>3, <2>4
  <1> QED
    BY <1>1, FunctionInto DEF Counted

\* A client buffer is counted when it takes the page.
LEMMA EnqueuePagesCounts ==
    ASSUME FiniteSetFacts, PagesInv, Holding, Counted, NEW d \in Driver, NEW id \in Id, EnqueuePages(d, id)
    PROVE  Holding' /\ Counted'
  <1> USE DEF EnqueuePages, enqueueOn, task, locals
  <1>1. /\ pc[d] = "enqueue" /\ id \in todo[d]
        /\ \A t \in Thread : t # d => todo'[t] = todo[t]
    BY Kinds, Zenon DEF PagesInv, StateInv, Shape
  <1>2. UNCHANGED <<initialPages, pc, page>>
    OBVIOUS
  <1>3. /\ page[d] \in Page /\ id \in DOMAIN buffers /\ buffers[id] \in Buffer
        /\ page[d] \notin Elements(delivered[id]) /\ delivered \in [Id -> Seq(Page)]
        /\ DOMAIN buffers \subseteq Id
    BY <1>1, Zenon DEF PagesInv, StateInv, Shape, StoreInv, Carrying, StoreType, Arrived, Carries
  <1>4. /\ DOMAIN buffers' = DOMAIN buffers
        /\ \A i \in DOMAIN buffers : i # id => buffers'[i] = buffers[i]
        /\ buffers'[id] = enqueuePages(buffers[id], <<page[d]>>)
    BY <1>3
  <1>5. /\ buffers[id].noMorePages => UNCHANGED <<refs, delivered>>
        /\ ~buffers[id].noMorePages =>
              /\ refs' = addReferences(<<page[d]>>)
              /\ delivered' = [delivered EXCEPT ![id] = delivered[id] \o <<page[d]>>]
    OBVIOUS
  <1> HIDE DEF EnqueuePages
  <1>6. \A t \in Thread : pc'[t] = "destroying" => todo'[t] = todo[t]
    BY <1>1, <1>2, Kinds
  <1>7. CASE buffers[id].noMorePages
    <2>1. buffers'[id] = buffers[id]
      BY <1>4, <1>7 DEF enqueuePages
    <2>2. \A i \in DOMAIN buffers : buffers'[i] = buffers[i]
      BY <1>4, <2>1
    <2>3. \A t \in Thread : pc'[t] = "destroying" => todo'[t] \subseteq DOMAIN buffers
      BY <1>2, <1>6, Zenon DEF Holding
    <2> QED
      BY <1>2, <1>4, <1>5, <1>7, <2>2, <2>3, CountStep, Zenon
  <1>8. CASE ~buffers[id].noMorePages
    <2>1. /\ buffers[id].pages \in Seq(Page) /\ Once(buffers[id].pages)
          /\ Elements(buffers[id].pages) \subseteq Elements(delivered[id])
          /\ ~buffers[id].destroyed
      BY <1>3, <1>8, Zenon DEF Holding, Held, Buffer, BufferType
    <2>2. /\ buffers'[id].pages = buffers[id].pages \o <<page[d]>>
          /\ buffers'[id].destroyed = buffers[id].destroyed
      BY <1>3, <1>4, <1>8, Zenon DEF enqueuePages, Buffer, BufferType
    <2>3. /\ Once(buffers'[id].pages)
          /\ Elements(buffers'[id].pages) = Elements(buffers[id].pages) \cup {page[d]}
      <3> DEFINE s == buffers[id].pages
                 p == page[d]
      <3>1. s \in Seq(Page) /\ p \in Page /\ Once(s) /\ p \notin Elements(s)
        BY <1>3, <2>1, Zenon
      <3>2. buffers'[id].pages = s \o <<p>>
        BY <2>2, Zenon
      <3> HIDE DEF s, p
      <3>3. Once(s \o <<p>>) /\ Elements(s \o <<p>>) = Elements(s) \cup {p}
        BY <3>1, Added, SMTT(20)
      <3> QED
        BY <3>2, <3>3, Zenon DEF s, p
    <2>4. /\ Elements(delivered'[id]) = Elements(delivered[id]) \cup {page[d]}
          /\ \A i \in Id : i # id => delivered'[i] = delivered[i]
      <3>1. /\ delivered'[id] = delivered[id] \o <<page[d]>> /\ delivered[id] \in Seq(Page)
            /\ \A i \in Id : i # id => delivered'[i] = delivered[i]
        BY <1>3, <1>5, <1>8
      <3> DEFINE s == delivered[id]
                 p == page[d]
      <3>2. s \in Seq(Page) /\ p \in Page /\ delivered'[id] = s \o <<p>>
        BY <1>3, <3>1, Zenon
      <3> HIDE DEF s, p
      <3>3. Elements(s \o <<p>>) = Elements(s) \cup {p}
        BY <3>2, Added, SMTT(20)
      <3> QED
        BY <3>1, <3>2, <3>3, Zenon DEF s, p
    <2>5. ASSUME NEW i \in DOMAIN buffers PROVE Held(i)'
      <3>1. CASE i = id
        BY <2>1, <2>2, <2>3, <2>4, <3>1, Zenon DEF Held
      <3>2. CASE i # id
        <4>1. delivered'[i] = delivered[i] /\ buffers'[i] = buffers[i] /\ Held(i)
          BY <1>3, <1>4, <2>4, <3>2, Zenon DEF Holding
        <4> QED
          BY <4>1, Zenon DEF Held
      <3> QED
        BY <3>1, <3>2
    <2>6. Holding'
      BY <1>2, <1>4, <1>6, <2>5, Zenon DEF Holding
    <2>7. /\ refs' = [p \in Page |-> refs'[p]]
          /\ \A p \in Page : refs'[p] = refs[p] + bit(p \in Elements(<<page[d]>>))
      BY <1>3, <1>5, <1>8, OnePage, References, Zenon
    <2>8. ASSUME NEW p \in Page
          PROVE  refs'[p] = refs[p] + bit(p \in Elements(buffers'[id].pages))
                                    - bit(id \in Buffered(p))
      <3>1. Elements(<<page[d]>>) = {page[d]} /\ page[d] \notin Elements(buffers[id].pages)
        BY <1>3, <2>1, OnePage
      <3>2. refs[p] \in Nat
        BY DEF Counted
      <3> QED
        BY <1>3, <2>3, <2>7, <3>1, <3>2 DEF bit, Buffered
    <2>9. /\ DOMAIN buffers' = DOMAIN buffers \cup {id}
          /\ \A i \in DOMAIN buffers : i # id => buffers'[i].pages = buffers[i].pages
      BY <1>3, <1>4, Zenon
    <2>10. Counted'
      BY <1>2, <2>7, <2>8, <2>9, BufferCounts
    <2> QED
      BY <2>6, <2>10
  <1> QED
    BY <1>7, <1>8

\* The driver is counted off when enqueue returns.
LEMMA EnqueueReturnsCounts ==
    ASSUME FiniteSetFacts, PagesInv, Holding, Counted, NEW d \in Driver, EnqueueReturns(d)
    PROVE  Holding' /\ Counted'
  <1> USE DEF EnqueueReturns, Go, history, task
  <1>1. /\ pc'[d] = "idle" /\ pc[d] = "enqueue" /\ page'[d] = None
        /\ \A e \in Driver : e # d => pc'[e] = pc[e] /\ page'[e] = page[e]
        /\ \A t \in Thread : t # d => pc'[t] = pc[t]
    BY Kinds, Zenon DEF PagesInv, StateInv, Shape, StoreInv, StoreType
  <1>2. UNCHANGED <<buffers, initialPages, todo, delivered>>
    OBVIOUS
  <1>3. refs' = dereference(<<page[d]>>)
    OBVIOUS
  <1> HIDE DEF EnqueueReturns
  <1>4. Holding'
    <2>1. \A id \in DOMAIN buffers : Held(id)'
      BY <1>2, Zenon DEF Holding, Held
    <2>2. \A t \in Thread : pc'[t] = "destroying" => pc[t] = "destroying"
      BY <1>1, Kinds, Zenon
    <2> QED
      BY <1>1, <1>2, <2>1, <2>2 DEF Holding
  <1>5. page[d] \in Page /\ \A e \in Driver : page[e] = page[d] => e = d
    <2>1. page[d] \in Page
      BY <1>1 DEF PagesInv, StoreInv, Carrying, StoreType
    <2>2. \A e \in Driver : page[e] = page[d] => pc[e] # "idle"
      BY <2>1, PagesAssumption DEF Holding
    <2> QED
      BY <1>1, <2>1, <2>2, Zenon DEF PagesInv, StoreInv, Carrying
  <1>6. /\ refs' = [p \in Page |-> refs'[p]]
        /\ \A p \in Page : refs'[p] = refs[p] - bit(p \in Elements(<<page[d]>>))
    BY <1>3, <1>5, OnePage, References, Zenon
  <1>7. ASSUME NEW p \in Page
        PROVE  refs'[p] \in Nat /\ refs'[p] = Carried(p)' + Kept(p)' + Cardinality(Buffered(p)')
    <2>1. /\ refs[p] = Carried(p) + Kept(p) + Cardinality(Buffered(p))
          /\ Carried(p) \in {0, 1} /\ Kept(p) \in {0, 1} /\ Cardinality(Buffered(p)) \in Nat
      BY Bits, BufferedFinite, Zenon DEF Counted, Holding
    <2>2. Buffered(p)' = Buffered(p) /\ Kept(p)' = Kept(p)
      BY <1>2 DEF Buffered, Kept
    <2>3. Elements(<<page[d]>>) = {page[d]}
      BY <1>5, OnePage
    <2>4. CASE p = page[d]
      <3>1. Carried(p) = 1
        BY <2>4 DEF Carried, bit
      <3>2. \A e \in Driver : page'[e] # p
        BY <1>1, <1>5, <2>4, PagesAssumption
      <3>3. Carried(p)' = 0
        BY <3>2, Zenon DEF Carried, bit
      <3>4. refs'[p] = refs[p] - 1
        BY <1>6, <2>3, <2>4 DEF bit
      <3> QED
        BY <2>1, <2>2, <3>1, <3>3, <3>4, Balance, SMTT(30)
    <2>5. CASE p # page[d]
      <3>1. (\E e \in Driver : page'[e] = p) <=> (\E e \in Driver : page[e] = p)
        BY <1>1, <2>5, PagesAssumption
      <3>2. Carried(p)' = Carried(p)
        BY <3>1, Zenon DEF Carried
      <3>3. refs'[p] = refs[p] - 0
        BY <1>6, <2>3, <2>5 DEF bit
      <3> QED
        BY <2>1, <2>2, <3>2, <3>3, Balance, SMTT(30)
    <2> QED
      BY <2>4, <2>5, Zenon
  <1> QED
    BY <1>4, <1>6, <1>7, FunctionInto DEF Counted

\* Every step of enqueue keeps the counters right.
LEMMA DriverCounts ==
    ASSUME FiniteSetFacts, PagesInv, Holding, Counted, NEW d \in Driver, DriverStep(d)
    PROVE  Holding' /\ Counted'
  BY EnqueueCounts, RememberCounts, EnqueuePagesCounts, EnqueueReturnsCounts DEF DriverStep

\* noMoreBuffers: the pages for new buffers go with their references.
LEMMA ClearCounts ==
    ASSUME FiniteSetFacts, PagesInv, Holding, Counted, noMoreBuffers, UNCHANGED <<buffers, page, delivered>>,
           \A d \in Driver : pc'[d] = pc[d],
           \A t \in Thread : pc'[t] = "destroying" => todo'[t] \subseteq DOMAIN buffers
    PROVE  Holding' /\ Counted'
  <1>1. Holding'
    <2>1. \A id \in DOMAIN buffers : Held(id)'
      BY DEF Holding, Held
    <2> QED
      BY <2>1, Zenon DEF Holding
  <1>2. initialPages' = <<>> /\ refs' = dereference(initialPages)
    BY DEF noMoreBuffers
  <1>3. initialPages \in Seq(Page) /\ Once(initialPages)
    BY DEF PagesInv, StoreInv, StoreType, Initial
  <1>4. /\ refs' = [p \in Page |-> refs'[p]]
        /\ \A p \in Page : refs'[p] = refs[p] - bit(p \in Elements(initialPages))
    BY <1>2, <1>3, References, Zenon
  <1>5. ASSUME NEW p \in Page
        PROVE  refs'[p] \in Nat /\ refs'[p] = Carried(p)' + Kept(p)' + Cardinality(Buffered(p)')
    <2>1. /\ refs[p] = Carried(p) + Kept(p) + Cardinality(Buffered(p))
          /\ Carried(p) \in {0, 1} /\ Kept(p) \in {0, 1} /\ Cardinality(Buffered(p)) \in Nat
      BY Bits, BufferedFinite DEF Counted, Holding
    <2>2. Buffered(p)' = Buffered(p) /\ Carried(p)' = Carried(p)
      BY DEF Buffered, Carried
    <2>3. Kept(p)' = 0
      BY <1>2, Nothing DEF Kept, bit
    <2>4. refs'[p] = refs[p] - Kept(p)
      BY <1>4 DEF Kept
    <2> QED
      BY <2>1, <2>2, <2>3, <2>4, Balance, SMTT(30)
  <1> QED
    BY <1>1, <1>4, <1>5, FunctionInto DEF Counted

\* One buffer gives up the pages of dropped.
LEMMA DropCounts ==
    ASSUME FiniteSetFacts, PagesInv, Holding, Counted, UNCHANGED <<page, initialPages, delivered>>,
           \A d \in Driver : pc'[d] = pc[d],
           \A t \in Thread : pc'[t] = "destroying" => todo'[t] \subseteq DOMAIN buffers,
           NEW id \in DOMAIN buffers, NEW b, buffers' = [buffers EXCEPT ![id] = b],
           b.destroyed => b.noMorePages /\ b.pages = <<>>, Once(b.pages),
           NEW dropped \in Seq(Page), Once(dropped), refs' = dereference(dropped),
           Elements(dropped) \subseteq Elements(buffers[id].pages),
           Elements(b.pages) = Elements(buffers[id].pages) \ Elements(dropped)
    PROVE  Holding' /\ Counted'
  <1>1. /\ DOMAIN buffers' = DOMAIN buffers /\ buffers'[id] = b
        /\ \A i \in DOMAIN buffers : i # id => buffers'[i] = buffers[i]
    OBVIOUS
  <1>2. ASSUME NEW i \in DOMAIN buffers PROVE Held(i)'
    <2>1. Held(i)
      BY DEF Holding
    <2>2. CASE i = id
      BY <1>1, <2>1, <2>2 DEF Held
    <2>3. CASE i # id
      BY <1>1, <2>1, <2>3 DEF Held
    <2> QED
      BY <2>2, <2>3
  <1>3. Holding'
    BY <1>1, <1>2 DEF Holding
  <1>4. /\ refs' = [p \in Page |-> refs'[p]]
        /\ \A p \in Page : refs'[p] = refs[p] - bit(p \in Elements(dropped))
    BY References, Zenon
  <1>5. ASSUME NEW p \in Page
        PROVE  refs'[p] = refs[p] + bit(p \in Elements(buffers'[id].pages))
                                  - bit(id \in Buffered(p))
    <2>1. refs[p] \in Nat
      BY DEF Counted
    <2>2. id \in Buffered(p) <=> p \in Elements(buffers[id].pages)
      BY DEF Buffered
    <2> QED
      BY <1>1, <1>4, <2>1, <2>2 DEF bit
  <1>6. /\ DOMAIN buffers' = DOMAIN buffers \cup {id}
        /\ \A i \in DOMAIN buffers : i # id => buffers'[i].pages = buffers[i].pages
    BY <1>1, Zenon
  <1>7. Counted'
    BY <1>4, <1>5, <1>6, BufferCounts
  <1> QED
    BY <1>3, <1>7

\* getBuffer puts a new buffer b into the map.
LEMMA CreateCounts ==
    ASSUME FiniteSetFacts, PagesInv, Holding, Counted, UNCHANGED <<page, initialPages, pc>>,
           \A t \in Thread : pc[t] = "destroying" => todo'[t] = todo[t],
           NEW id \in Id, id \notin DOMAIN buffers, NEW b \in Buffer, create(id, b),
           b.destroyed => b.noMorePages /\ b.pages = <<>>,
           b.pages = <<>> \/ b.pages = initialPagesFor(id)
    PROVE  Holding' /\ Counted'
  <1>1. /\ DOMAIN buffers' = DOMAIN buffers \cup {id} /\ buffers'[id] = b
        /\ \A i \in DOMAIN buffers : buffers'[i] = buffers[i]
    BY DEF create
  <1>2. /\ delivered \in [Id -> Seq(Page)] /\ initialPages \in Seq(Page) /\ Once(initialPages)
        /\ DOMAIN buffers \subseteq Id
    BY Zenon DEF PagesInv, StoreInv, StoreType, Initial, StateInv, Shape
  <1>3. initialPagesFor(id) \in Seq(Page) /\ Once(initialPagesFor(id))
    BY <1>2, Nothing, Zenon DEF initialPagesFor
  <1>4. /\ b.pages \in Seq(Page) /\ Once(b.pages)
        /\ Elements(b.pages) \subseteq Elements(initialPagesFor(id))
    BY <1>3, Nothing, Zenon
  <1>5. /\ delivered'[id] = initialPagesFor(id)
        /\ \A i \in DOMAIN buffers : delivered'[i] = delivered[i]
    BY <1>2, Zenon DEF create
  <1>6. ASSUME NEW i \in DOMAIN buffers' PROVE Held(i)'
    <2>1. CASE i = id
      BY <1>1, <1>4, <1>5, <2>1, Zenon DEF Held
    <2>2. CASE i # id
      <3>1. Held(i) /\ buffers'[i] = buffers[i] /\ delivered'[i] = delivered[i]
        BY <1>1, <1>5, <2>2, Zenon DEF Holding
      <3> QED
        BY <3>1, Zenon DEF Held
    <2> QED
      BY <2>1, <2>2
  <1>7. IsFiniteSet(DOMAIN buffers')
    BY <1>1, Zenon DEF FiniteSetFacts, Holding
  <1>8. Holding'
    BY <1>1, <1>6, <1>7, Zenon DEF Holding
  <1>9. /\ refs' = [p \in Page |-> refs'[p]]
        /\ \A p \in Page : refs'[p] = refs[p] + bit(p \in Elements(b.pages))
    BY <1>4, References, Zenon DEF create
  <1>10. ASSUME NEW p \in Page
         PROVE  refs'[p] = refs[p] + bit(p \in Elements(buffers'[id].pages))
                                   - bit(id \in Buffered(p))
    <2>1. refs[p] \in Nat /\ id \notin Buffered(p)
      BY DEF Counted, Buffered
    <2> QED
      BY <1>1, <1>9, <2>1 DEF bit
  <1>11. Counted'
    BY <1>1, <1>9, <1>10, BufferCounts
  <1> QED
    BY <1>8, <1>11

\* Where the threads are after a step of one that is not a driver.
LEMMA Moves ==
    ASSUME PagesInv, Holding, NEW t \in Thread \ Driver,
           pc' = pc \/ \E label \in Pc : pc' = [pc EXCEPT ![t] = label],
           todo' = todo \/ \E ids \in SUBSET Id : todo' = [todo EXCEPT ![t] = ids],
           pc'[t] = "destroying" => todo'[t] \subseteq DOMAIN buffers
    PROVE  /\ \A d \in Driver : pc'[d] = pc[d]
           /\ \A u \in Thread : pc'[u] = "destroying" => todo'[u] \subseteq DOMAIN buffers
  <1>1. \A u \in Thread : u # t => pc'[u] = pc[u] /\ todo'[u] = todo[u]
    BY DEF PagesInv, StateInv, Shape
  <1>2. \A d \in Driver : pc'[d] = pc[d]
    BY <1>1, Kinds
  <1> QED
    BY <1>1, <1>2, Zenon DEF Holding

\* A step of such a thread that leaves the buffers and the pages alone.
LEMMA OtherCounts ==
    ASSUME PagesInv, Holding, Counted, NEW t \in Thread \ Driver,
           UNCHANGED <<refs, page, initialPages, delivered, buffers>>,
           pc' = pc \/ \E label \in Pc : pc' = [pc EXCEPT ![t] = label],
           todo' = todo \/ \E ids \in SUBSET Id : todo' = [todo EXCEPT ![t] = ids],
           pc'[t] = "destroying" => todo'[t] \subseteq DOMAIN buffers
    PROVE  Holding' /\ Counted'
  <1>1. /\ \A d \in Driver : pc'[d] = pc[d]
        /\ \A u \in Thread : pc'[u] = "destroying" => todo'[u] \subseteq DOMAIN buffers
    BY Moves, Zenon
  <1> QED
    BY <1>1, CountStep

\* What getBuffer puts into the map holds the pages so far, or none.
LEMMA NewBufferHolds ==
    ASSUME NEW id \in Id, initialPages \in Seq(Page), NEW b,
           b = newBuffer(id) \/ b = setNoMorePages(newBuffer(id))
    PROVE  /\ b \in Buffer /\ (b.destroyed => b.noMorePages /\ b.pages = <<>>)
           /\ b.pages = <<>> \/ b.pages = initialPagesFor(id)
  <1> DEFINE filled == enqueuePages(NewBuffer, initialPagesFor(id))
             n == newBuffer(id)
             Good(x) == /\ x \in Buffer /\ (x.destroyed => x.noMorePages /\ x.pages = <<>>)
                        /\ x.pages = <<>> \/ x.pages = initialPagesFor(id)
  <1>1. initialPagesFor(id) \in Seq(Page)
    BY Nothing DEF initialPagesFor
  <1>2. /\ NewBuffer \in Buffer /\ NewBuffer.noMorePages = FALSE /\ NewBuffer.destroyed = FALSE
        /\ NewBuffer.pages = <<>>
    BY Nothing, Zenon DEF NewBuffer, Buffer, BufferType
  <1>3. <<>> \o initialPagesFor(id) = initialPagesFor(id)
    BY <1>1
  <1>4. filled \in Buffer /\ filled.destroyed = FALSE /\ filled.pages = initialPagesFor(id)
    <2>1. filled \in Buffer /\ filled.destroyed = NewBuffer.destroyed
      BY <1>1, <1>2, EnqueuedBuffer, Zenon
    <2>2. filled.pages = NewBuffer.pages \o initialPagesFor(id)
      BY <1>2 DEF enqueuePages, Buffer, BufferType
    <2> QED
      BY <1>2, <1>3, <2>1, <2>2, Zenon
  <1>5. ASSUME NEW x \in Buffer, Good(x) PROVE Good(setNoMorePages(x))
    <2>1. setNoMorePages(x) \in Buffer /\ setNoMorePages(x).destroyed = x.destroyed
      BY EndedBuffer, Zenon
    <2>2. setNoMorePages(x).pages = x.pages /\ setNoMorePages(x).noMorePages
      BY Zenon DEF setNoMorePages, Buffer, BufferType
    <2> QED
      BY <1>5, <2>1, <2>2, Zenon
  <1>6. ASSUME NEW x \in Buffer PROVE Good(destroy(x))
    <2>1. destroy(x) \in Buffer
      BY EndedBuffer, Zenon
    <2>2. destroy(x).noMorePages /\ destroy(x).pages = <<>>
      BY Zenon DEF destroy, Buffer, BufferType
    <2> QED
      BY <2>1, <2>2, Zenon
  <1>7. Good(filled)
    BY <1>4, Zenon
  <1>8. n = CASE state = "FINISHED" -> destroy(filled)
              [] state \in {"NO_MORE_PAGES", "FLUSHING"} -> setNoMorePages(filled)
              [] OTHER -> filled
    BY Zenon DEF newBuffer, filled
  <1> HIDE DEF filled, n
  <1>9. n = destroy(filled) \/ n = setNoMorePages(filled) \/ n = filled
    BY <1>8
  <1>10. Good(n)
    BY <1>4, <1>5, <1>6, <1>7, <1>9, Zenon
  <1>11. Good(setNoMorePages(n))
    BY <1>5, <1>10, Zenon
  <1> QED
    BY <1>10, <1>11, Zenon DEF n

\* setOutputBuffers keeps the counters right.
LEMMA UpdateCounts ==
    ASSUME FiniteSetFacts, PagesInv, Holding, Counted,
           UpdateStep \/ \E ids \in SUBSET Id, noMore \in BOOLEAN : SetOutputBuffers(ids, noMore)
    PROVE  Holding' /\ Counted'
  <1>1. Update \in Thread \ Driver /\ Update \in DOMAIN pc
    BY Kinds DEF PagesInv, StateInv, Shape
  <1>2. /\ {"idle", "adding", "cas", "unlocked", "noMoreBuffers", "flush1"} \subseteq Pc
        /\ {} \in SUBSET Id
    BY DEF Pc
  <1> USE DEF Go, store, declaration, locals, task, history, thread
  <1>3. ASSUME NEW ids \in SUBSET Id, NEW noMore \in BOOLEAN, SetOutputBuffers(ids, noMore)
        PROVE  Holding' /\ Counted'
    <2>1. /\ UNCHANGED <<refs, page, initialPages, delivered, buffers>>
          /\ pc' = [pc EXCEPT ![Update] = "adding"]
          /\ todo' = [todo EXCEPT ![Update] = ids \ DOMAIN buffers]
          /\ ids \ DOMAIN buffers \in SUBSET Id
      BY <1>3 DEF SetOutputBuffers
    <2>2. \E l \in Pc : pc' = [pc EXCEPT ![Update] = l]
      BY <1>2, <2>1, Zenon
    <2>3. \E s \in SUBSET Id : todo' = [todo EXCEPT ![Update] = s]
      BY <2>1, Zenon
    <2>4. pc'[Update] # "destroying"
      BY <1>1, <2>1
    <2> QED
      BY <1>1, <2>1, <2>2, <2>3, <2>4, OtherCounts, Zenon
  <1>4. ASSUME NEW id \in Id, AddBuffer(id) PROVE Holding' /\ Counted'
    <2> DEFINE b == IF canAddPages(seen) THEN newBuffer(id) ELSE setNoMorePages(newBuffer(id))
    <2>1. /\ pc[Update] = "adding" /\ id \in todo[Update] /\ create(id, b)
          /\ UNCHANGED <<initialPages, page, pc>>
          /\ todo' = [todo EXCEPT ![Update] = todo[Update] \ {id}]
      BY <1>4, Zenon DEF AddBuffer
    <2>2. /\ id \notin DOMAIN buffers
          /\ \A t \in Thread : pc[t] = "destroying" => todo'[t] = todo[t]
      BY <1>1, <2>1 DEF PagesInv, LabelsInv, StateInv, Shape
    <2>3. b = newBuffer(id) \/ b = setNoMorePages(newBuffer(id))
      OBVIOUS
    <2> HIDE DEF b
    <2>4. /\ b \in Buffer /\ (b.destroyed => b.noMorePages /\ b.pages = <<>>)
          /\ b.pages = <<>> \/ b.pages = initialPagesFor(id)
      BY <2>3, NewBufferHolds, Zenon DEF PagesInv, StoreInv, StoreType
    <2> QED
      BY <2>1, <2>2, <2>4, CreateCounts, Zenon
  <1>5. ASSUME AddBufferThrows \/ BuffersAdded \/ BuffersFlushing \/ BuffersUnlocked
        PROVE  Holding' /\ Counted'
    <2>1. UNCHANGED <<refs, page, initialPages, delivered, buffers>>
      BY <1>5 DEF AddBufferThrows, BuffersAdded, BuffersFlushing, BuffersUnlocked
    <2>2. \E l \in Pc \ {"destroying"} : pc' = [pc EXCEPT ![Update] = l]
      <3>1. {"idle", "cas", "unlocked", "noMoreBuffers", "flush1"} \subseteq Pc \ {"destroying"}
        BY <1>2
      <3> QED
        BY <3>1, <1>5, Zenon DEF AddBufferThrows, BuffersAdded, BuffersFlushing, BuffersUnlocked,
           afterUpdate
    <2>3. pc'[Update] # "destroying" /\ \E l \in Pc : pc' = [pc EXCEPT ![Update] = l]
      BY <1>1, <2>2, Zenon
    <2>4. todo' = todo \/ \E ids \in SUBSET Id : todo' = [todo EXCEPT ![Update] = ids]
      BY <1>2, <1>5, Zenon DEF AddBufferThrows, BuffersAdded, BuffersFlushing, BuffersUnlocked
    <2> QED
      BY <1>1, <2>1, <2>3, <2>4, OtherCounts, Zenon
  <1>6. ASSUME NoMoreBuffers PROVE Holding' /\ Counted'
    <2>1. /\ UNCHANGED <<buffers, page, delivered>> /\ noMoreBuffers
          /\ pc' = [pc EXCEPT ![Update] = "flush1"] /\ todo' = todo
      BY <1>6 DEF NoMoreBuffers
    <2>2. pc'[Update] # "destroying" /\ \E l \in Pc : pc' = [pc EXCEPT ![Update] = l]
      BY <1>1, <1>2, <2>1, Zenon
    <2>3. /\ \A d \in Driver : pc'[d] = pc[d]
          /\ \A u \in Thread : pc'[u] = "destroying" => todo'[u] \subseteq DOMAIN buffers
      BY <1>1, <2>1, <2>2, Moves, Zenon
    <2> QED
      BY <2>1, <2>3, ClearCounts, Zenon
  <1> QED
    BY <1>3, <1>4, <1>5, <1>6, Zenon DEF UpdateStep

\* ClientBuffer.destroy by a thread that is not a driver.
LEMMA DestroyCounts ==
    ASSUME FiniteSetFacts, PagesInv, Holding, Counted, NEW id \in DOMAIN buffers, destroyOn(id),
           UNCHANGED <<page, initialPages, delivered>>,
           \A d \in Driver : pc'[d] = pc[d],
           \A t \in Thread : pc'[t] = "destroying" => todo'[t] \subseteq DOMAIN buffers
    PROVE  Holding' /\ Counted'
  <1> DEFINE b == destroy(buffers[id])
             dropped == buffers[id].pages
  <1>1. buffers[id] \in Buffer
    BY DEF PagesInv, StoreInv, StoreType
  <1>2. b.noMorePages /\ b.pages = <<>>
    BY <1>1, Zenon DEF destroy, Buffer, BufferType
  <1>3. dropped \in Seq(Page) /\ Once(dropped)
    BY <1>1, Zenon DEF Holding, Held, Buffer, BufferType
  <1>4. buffers' = [buffers EXCEPT ![id] = b] /\ refs' = dereference(dropped)
    BY DEF destroyOn
  <1>5. Once(b.pages) /\ Elements(b.pages) = Elements(dropped) \ Elements(dropped)
    BY <1>2, Nothing
  <1> HIDE DEF b
  <1> QED
    BY <1>2, <1>3, <1>4, <1>5, DropCounts, Zenon

\* get, acknowledge and abort keep the counters right.
LEMMA ConsumerCounts ==
    ASSUME FiniteSetFacts, PagesInv, Holding, Counted, NEW id \in Id,
           \/ GetBuffer(id) \/ Abort(id)
           \/ /\ id \in DOMAIN buffers
              /\ \E n \in 0 .. Len(buffers[id].pages) :
                    Acknowledge(id, buffers[id].currentSequenceId + n)
    PROVE  Holding' /\ Counted'
  <1>1. id \in Thread \ Driver /\ id \in DOMAIN pc
    BY Kinds DEF PagesInv, StateInv, Shape
  <1> USE DEF Go, store, declaration, locals, task, history, thread
  <1>2. ASSUME GetBuffer(id) PROVE Holding' /\ Counted'
    <2>1. /\ id \notin DOMAIN buffers /\ create(id, newBuffer(id))
          /\ UNCHANGED <<initialPages, page, pc, todo>>
      BY <1>2, Zenon DEF GetBuffer
    <2> DEFINE b == newBuffer(id)
    <2>2. /\ b \in Buffer /\ (b.destroyed => b.noMorePages /\ b.pages = <<>>)
          /\ b.pages = <<>> \/ b.pages = initialPagesFor(id)
      BY NewBufferHolds, Zenon DEF PagesInv, StoreInv, StoreType
    <2> HIDE DEF b
    <2> QED
      BY <2>1, <2>2, CreateCounts, Zenon DEF b
  <1>3. ASSUME Abort(id) PROVE Holding' /\ Counted'
    <2>1. /\ UNCHANGED <<page, initialPages, delivered, todo>>
          /\ pc' = [pc EXCEPT ![id] = "flush1"] /\ id \in DOMAIN buffers /\ destroyOn(id)
      BY <1>3, Zenon DEF Abort
    <2>2. pc'[id] # "destroying" /\ \E l \in Pc : pc' = [pc EXCEPT ![id] = l]
      <3>1. "flush1" \in Pc
        BY DEF Pc
      <3> QED
        BY <1>1, <2>1, <3>1, Zenon
    <2>3. /\ \A d \in Driver : pc'[d] = pc[d]
          /\ \A u \in Thread : pc'[u] = "destroying" => todo'[u] \subseteq DOMAIN buffers
      BY <1>1, <2>1, <2>2, Moves, Zenon
    <2> QED
      BY <2>1, <2>3, DestroyCounts, Zenon
  <1>4. ASSUME id \in DOMAIN buffers, NEW n \in 0 .. Len(buffers[id].pages),
               Acknowledge(id, buffers[id].currentSequenceId + n)
        PROVE  Holding' /\ Counted'
    <2> DEFINE m == buffers[id].currentSequenceId + n
               b == acknowledgePages(buffers[id], m)
               dropped == SubSeq(buffers[id].pages, 1, n)
    <2>1. /\ UNCHANGED <<page, initialPages, delivered, todo, pc>> /\ ~buffers[id].destroyed
          /\ buffers' = [buffers EXCEPT ![id] = b]
          /\ refs' = dereference(SubSeq(buffers[id].pages, 1, m - buffers[id].currentSequenceId))
      BY <1>4 DEF Acknowledge
    <2>2. /\ buffers[id] \in Buffer /\ buffers[id].pages \in Seq(Page) /\ Once(buffers[id].pages)
          /\ buffers[id].currentSequenceId \in Nat
      BY <1>4, Zenon DEF PagesInv, StoreInv, StoreType, Holding, Held, Buffer, BufferType
    <2>3. /\ m - buffers[id].currentSequenceId = n /\ m - buffers[id].currentSequenceId + 1 = n + 1
          /\ ~(m < buffers[id].currentSequenceId)
      BY <2>2, Ahead, Zenon
    <2>4. /\ b.pages = SubSeq(buffers[id].pages, m - buffers[id].currentSequenceId + 1,
                              Len(buffers[id].pages))
          /\ b.destroyed = buffers[id].destroyed
      BY <2>1, <2>2, <2>3, Zenon DEF acknowledgePages, Buffer, BufferType
    <2>5. /\ refs' = dereference(dropped)
          /\ b.pages = SubSeq(buffers[id].pages, n + 1, Len(buffers[id].pages))
      BY <2>1, <2>3, <2>4, Zenon
    <2>6. /\ dropped \in Seq(Page) /\ Once(dropped) /\ Once(b.pages)
          /\ Elements(b.pages) = Elements(buffers[id].pages) \ Elements(dropped)
          /\ Elements(dropped) \subseteq Elements(buffers[id].pages)
      <3> DEFINE s == buffers[id].pages
      <3>1. /\ SubSeq(s, 1, n) \in Seq(Page) /\ Once(SubSeq(s, 1, n))
            /\ Once(SubSeq(s, n + 1, Len(s)))
            /\ Elements(SubSeq(s, n + 1, Len(s))) = Elements(s) \ Elements(SubSeq(s, 1, n))
            /\ Elements(SubSeq(s, 1, n)) \subseteq Elements(s)
        BY <2>2, Cut, Zenon
      <3> HIDE DEF b
      <3> QED
        BY <2>5, <3>1, Zenon
    <2>7. \A t \in Thread : pc'[t] = "destroying" => todo'[t] \subseteq DOMAIN buffers
      BY <2>1, Zenon DEF Holding
    <2> HIDE DEF b, m, dropped
    <2> QED
      BY <1>4, <2>1, <2>4, <2>5, <2>6, <2>7, DropCounts, Zenon
  <1> QED
    BY <1>2, <1>3, <1>4, Zenon

\* checkFlushComplete and destroy keep the counters right.
LEMMA FlushCounts ==
    ASSUME FiniteSetFacts, PagesInv, Holding, Counted, NEW t \in Thread, FlushStep(t) PROVE Holding' /\ Counted'
  <1>1. t \in Thread \ Driver
    BY Zenon DEF FlushStep, CheckFlushComplete, FlushSnapshot, FlushDecide, DestroyNoMore,
       DestroySnapshot, DestroyBuffer, PagesInv, LabelsInv
  <1>2. /\ {"idle", "flush2", "flushSnapshot", "flushDecide", "destroyNoMore", "destroySnapshot",
            "destroying"} \subseteq Pc
        /\ DOMAIN buffers \in SUBSET Id /\ {} \in SUBSET Id
        /\ \A id \in Id : todo[t] \ {id} \in SUBSET Id
        /\ t \in DOMAIN pc /\ t \in DOMAIN todo
    BY DEF Pc, PagesInv, StateInv, Shape
  <1> USE DEF Go, Visit, store, declaration, locals, task, history, thread
  <1>3. ASSUME \/ CheckFlushComplete(t) \/ FlushSnapshot(t) \/ FlushDecide(t) \/ DestroySnapshot(t)
        PROVE  Holding' /\ Counted'
    <2>1. UNCHANGED <<refs, page, initialPages, delivered, buffers>>
      BY <1>3 DEF CheckFlushComplete, FlushSnapshot, FlushDecide, DestroySnapshot
    <2>2. \E l \in Pc : pc' = [pc EXCEPT ![t] = l]
      BY <1>2, <1>3, Zenon DEF CheckFlushComplete, FlushSnapshot, FlushDecide, DestroySnapshot
    <2>3. todo' = todo \/ \E ids \in SUBSET Id : todo' = [todo EXCEPT ![t] = ids]
      BY <1>2, <1>3, Zenon DEF CheckFlushComplete, FlushSnapshot, FlushDecide, DestroySnapshot
    <2>4. pc'[t] = "destroying" => todo'[t] \subseteq DOMAIN buffers
      BY <1>2, <1>3 DEF CheckFlushComplete, FlushSnapshot, FlushDecide, DestroySnapshot
    <2> QED
      BY <1>1, <2>1, <2>2, <2>3, <2>4, OtherCounts, Zenon
  <1>4. ASSUME DestroyNoMore(t) PROVE Holding' /\ Counted'
    <2>1. /\ UNCHANGED <<buffers, page, delivered>> /\ noMoreBuffers
          /\ pc' = [pc EXCEPT ![t] = "destroySnapshot"] /\ todo' = todo
      BY <1>4 DEF DestroyNoMore
    <2>2. pc'[t] # "destroying" /\ \E l \in Pc : pc' = [pc EXCEPT ![t] = l]
      BY <1>2, <2>1, Zenon
    <2>3. /\ \A d \in Driver : pc'[d] = pc[d]
          /\ \A u \in Thread : pc'[u] = "destroying" => todo'[u] \subseteq DOMAIN buffers
      BY <1>1, <2>1, <2>2, Moves, Zenon
    <2> QED
      BY <2>1, <2>3, ClearCounts, Zenon
  <1>5. ASSUME NEW id \in Id, DestroyBuffer(t, id) PROVE Holding' /\ Counted'
    <2>1. /\ UNCHANGED <<page, initialPages, delivered>> /\ destroyOn(id)
          /\ pc[t] = "destroying" /\ id \in todo[t]
      BY <1>5 DEF DestroyBuffer
    <2>2. todo[t] \subseteq DOMAIN buffers
      BY <2>1 DEF Holding
    <2>3. \E l \in Pc : pc' = [pc EXCEPT ![t] = l]
      BY <1>2, <1>5, Zenon DEF DestroyBuffer
    <2>4. \E ids \in SUBSET Id : todo' = [todo EXCEPT ![t] = ids]
      BY <1>2, <1>5, Zenon DEF DestroyBuffer
    <2>5. todo'[t] \subseteq DOMAIN buffers
      BY <1>2, <1>5, <2>2 DEF DestroyBuffer
    <2>6. /\ \A d \in Driver : pc'[d] = pc[d]
          /\ \A u \in Thread : pc'[u] = "destroying" => todo'[u] \subseteq DOMAIN buffers
      BY <1>1, <2>3, <2>4, <2>5, Moves, Zenon
    <2>7. id \in DOMAIN buffers
      BY <2>1, <2>2
    <2> QED
      BY <2>1, <2>6, <2>7, DestroyCounts, Zenon
  <1> QED
    BY <1>3, <1>4, <1>5, Zenon DEF FlushStep

\* The end of the task keeps the counters right.
LEMMA TaskCounts ==
    ASSUME FiniteSetFacts, PagesInv, Holding, Counted, CheckTaskCompletion \/ FinishStep \/ Fail \/ Destroy
    PROVE  Holding' /\ Counted'
  <1>1. /\ Finish \in Thread \ Driver /\ Cancel \in Thread \ Driver
        /\ {"completing", "noMorePages", "pagesSnapshot", "setting", "flush1", "destroyNoMore"}
              \subseteq Pc \ {"destroying"}
        /\ DOMAIN buffers \in SUBSET Id
        /\ \A id \in Id : todo[Finish] \ {id} \in SUBSET Id
        /\ Finish \in DOMAIN pc /\ Cancel \in DOMAIN pc
    BY Kinds DEF Pc, PagesInv, StateInv, Shape
  <1> USE DEF Go, Visit, store, declaration, locals, task, history, thread
  <1>2. ASSUME CheckTaskCompletion \/ SetNoMorePages \/ PagesFlushing \/ PagesSnapshot
        PROVE  Holding' /\ Counted'
    <2> USE DEF CheckTaskCompletion, SetNoMorePages, PagesFlushing, PagesSnapshot
    <2>1. UNCHANGED <<refs, page, initialPages, delivered, buffers>>
      BY <1>2
    <2>2. \E l \in Pc \ {"destroying"} : pc' = [pc EXCEPT ![Finish] = l]
      BY <1>1, <1>2, Zenon
    <2>3. todo' = todo \/ \E ids \in SUBSET Id : todo' = [todo EXCEPT ![Finish] = ids]
      BY <1>1, <1>2, Zenon
    <2> HIDE DEF CheckTaskCompletion, SetNoMorePages, PagesFlushing, PagesSnapshot
    <2>4. pc'[Finish] # "destroying" /\ \E l \in Pc : pc' = [pc EXCEPT ![Finish] = l]
      BY <1>1, <2>2, Zenon
    <2> QED
      BY <1>1, <2>1, <2>3, <2>4, OtherCounts, Zenon
  <1>3. ASSUME NEW id \in Id, SetNoMorePagesOn(id) PROVE Holding' /\ Counted'
    <2>1. /\ UNCHANGED <<refs, page, initialPages, delivered>>
          /\ buffers' = [buffers EXCEPT ![id] = setNoMorePages(buffers[id])]
      BY <1>3 DEF SetNoMorePagesOn
    <2>2. \E l \in Pc \ {"destroying"} : pc' = [pc EXCEPT ![Finish] = l]
      BY <1>1, <1>3, Zenon DEF SetNoMorePagesOn
    <2>3. pc'[Finish] # "destroying" /\ \E l \in Pc : pc' = [pc EXCEPT ![Finish] = l]
      BY <1>1, <2>2, Zenon
    <2>4. \E ids \in SUBSET Id : todo' = [todo EXCEPT ![Finish] = ids]
      BY <1>1, <1>3, Zenon DEF SetNoMorePagesOn
    <2>5. /\ \A d \in Driver : pc'[d] = pc[d]
          /\ \A u \in Thread : pc'[u] = "destroying" => todo'[u] \subseteq DOMAIN buffers
      BY <1>1, <2>3, <2>4, Moves, Zenon
    <2>6. ASSUME NEW i \in DOMAIN buffers
          PROVE  /\ buffers'[i].pages = buffers[i].pages
                 /\ buffers'[i].destroyed = buffers[i].destroyed
                 /\ buffers[i].noMorePages => buffers'[i].noMorePages
      <3>1. buffers[i] \in Buffer
        BY DEF PagesInv, StoreInv, StoreType
      <3>2. buffers'[i] = buffers[i] \/ buffers'[i] = setNoMorePages(buffers[i])
        BY <2>1
      <3>3. /\ setNoMorePages(buffers[i]).pages = buffers[i].pages
            /\ setNoMorePages(buffers[i]).destroyed = buffers[i].destroyed
            /\ setNoMorePages(buffers[i]).noMorePages
        BY <3>1, Zenon DEF setNoMorePages, Buffer, BufferType
      <3> QED
        BY <3>2, <3>3, Zenon
    <2>7. DOMAIN buffers' = DOMAIN buffers
      BY <2>1
    <2> QED
      BY <2>1, <2>5, <2>6, <2>7, CountStep, Zenon
  <1>4. ASSUME Fail \/ Destroy PROVE Holding' /\ Counted'
    <2>1. UNCHANGED <<refs, page, initialPages, delivered, buffers, todo>>
      BY <1>4 DEF Fail, Destroy
    <2>2. pc' = pc \/ pc' = [pc EXCEPT ![Cancel] = "destroyNoMore"]
      BY <1>4, Zenon DEF Fail, Destroy
    <2>3. pc' = pc \/ \E l \in Pc : pc' = [pc EXCEPT ![Cancel] = l]
      BY <1>1, <2>2, Zenon
    <2>4. pc'[Cancel] = "destroying" => todo'[Cancel] \subseteq DOMAIN buffers
      BY <1>1, <2>1, <2>2 DEF Holding
    <2> QED
      BY <1>1, <2>1, <2>3, <2>4, OtherCounts, Zenon
  <1> QED
    BY <1>2, <1>3, <1>4, Zenon DEF FinishStep

\* Every step keeps the counters right.
LEMMA NextCounts ==
    ASSUME FiniteSetFacts, PagesInv, Holding, Counted, [Next]_vars PROVE Holding' /\ Counted'
  <1>1. ASSUME NEW id \in DOMAIN buffers, NEW n \in 0 .. Len(buffers[id].pages),
               Acknowledge(id, buffers[id].currentSequenceId + n)
        PROVE  Holding' /\ Counted'
    <2>1. id \in Id
      BY DEF PagesInv, StateInv, Shape
    <2> QED
      BY <1>1, <2>1, ConsumerCounts, Zenon
  <1>2. CASE UNCHANGED vars
    <2>1. UNCHANGED <<refs, page, initialPages, delivered, buffers, pc, todo>>
      BY <1>2 DEF vars, store, thread, locals, history
    <2>2. \A t \in Thread : pc'[t] = "destroying" => todo'[t] \subseteq DOMAIN buffers
      BY <2>1 DEF Holding
    <2> QED
      BY <2>1, <2>2, CountStep
  <1>3. CASE Next
    <2>1. ASSUME NEW id \in Id, GetBuffer(id) \/ Abort(id) PROVE Holding' /\ Counted'
      BY <2>1, ConsumerCounts, Zenon
    <2>2. ASSUME \/ UpdateStep
                 \/ \E ids \in SUBSET Id, noMore \in BOOLEAN : SetOutputBuffers(ids, noMore)
          PROVE  Holding' /\ Counted'
      BY <2>2, UpdateCounts, Zenon
    <2>3. ASSUME CheckTaskCompletion \/ FinishStep \/ Fail \/ Destroy PROVE Holding' /\ Counted'
      BY <2>3, TaskCounts, Zenon
    <2>4. ASSUME \/ \E d \in Driver : DriverStep(d)
                 \/ \E t \in Thread : FlushStep(t)
          PROVE  Holding' /\ Counted'
      BY <2>4, DriverCounts, FlushCounts, Zenon
    <2> QED
      BY <1>1, <1>3, <2>1, <2>2, <2>3, <2>4, Zenon DEF Next
  <1> QED
    BY <1>2, <1>3

ReferencesInv == PagesInv /\ Holding /\ Counted /\ Released

\* The three summands are the holders that the property counts.
LEMMA CountedHolders ==
    ASSUME FiniteSetFacts, ReferencesInv, NEW p \in Page
    PROVE  /\ Cardinality({d \in Driver : page[d] = p}) = Carried(p)
           /\ occurrences(initialPages, p) = Kept(p)
           /\ {id \in DOMAIN buffers : occurrences(buffers[id].pages, p) > 0} = Buffered(p)
  <1>1. Cardinality({d \in Driver : page[d] = p}) = Carried(p)
    <2> DEFINE S == {d \in Driver : page[d] = p}
    <2>1. \A d \in S : d \in Driver /\ page[d] = p /\ pc[d] # "idle"
      BY PagesAssumption DEF ReferencesInv, Holding
    <2>2. \A d, e \in S : d = e
      BY <2>1 DEF ReferencesInv, PagesInv, StoreInv, Carrying
    <2>3. (S # {}) <=> \E d \in Driver : page[d] = p
      OBVIOUS
    <2> HIDE DEF S
    <2>4. Cardinality(S) = bit(S # {})
      BY <2>2, OneMember, Zenon
    <2> QED
      BY <2>3, <2>4 DEF S, Carried, bit
  <1>2. occurrences(initialPages, p) = Kept(p)
    BY OccursOnce DEF ReferencesInv, PagesInv, StoreInv, StoreType, Initial, Kept
  <1>3. ASSUME NEW id \in DOMAIN buffers
        PROVE  occurrences(buffers[id].pages, p) > 0 <=> p \in Elements(buffers[id].pages)
    <2>1. buffers[id].pages \in Seq(Page) /\ Once(buffers[id].pages)
      BY Zenon DEF ReferencesInv, PagesInv, StoreInv, StoreType, Holding, Held, Buffer, BufferType
    <2>2. occurrences(buffers[id].pages, p) = bit(p \in Elements(buffers[id].pages))
      BY <2>1, OccursOnce, Zenon
    <2> QED
      BY <2>2 DEF bit
  <1> QED
    BY <1>1, <1>2, <1>3 DEF Buffered

\* The variables that no other invariant is about.
Others ==
    /\ declared \subseteq Id /\ lock \in {Update, None} /\ seen \in State
    /\ outputDone \in BOOLEAN /\ cancelled \in BOOLEAN

\* The rest of the type invariant: a step keeps it.
LEMMA NextKeepsOthers == ASSUME StateInv, Others, [Next]_vars PROVE Others'
  <1> USE DEF store, declaration, locals, thread, task, history
  <1>1. state \in State /\ "OPEN" \in State
    BY DEF StateInv, Shape, State
  <1>2. ASSUME NEW d \in Driver, DriverStep(d) PROVE Others'
    BY <1>2, Zenon DEF DriverStep, Enqueue, Remember, EnqueuePages, EnqueueReturns, Others
  <1>3. ASSUME NEW ids \in SUBSET Id, NEW noMore \in BOOLEAN, SetOutputBuffers(ids, noMore)
        PROVE  Others'
    BY <1>1, <1>3, Zenon DEF SetOutputBuffers, Others
  <1>4. ASSUME UpdateStep PROVE Others'
    BY <1>1, <1>4, Zenon DEF UpdateStep, AddBuffer, AddBufferThrows, BuffersAdded,
       BuffersFlushing, BuffersUnlocked, NoMoreBuffers, Others
  <1>5. ASSUME NEW id \in Id, GetBuffer(id) \/ Abort(id) PROVE Others'
    BY <1>5, Zenon DEF GetBuffer, Abort, Others
  <1>6. ASSUME NEW id, NEW n, Acknowledge(id, n) PROVE Others'
    BY <1>6, Zenon DEF Acknowledge, Others
  <1>7. ASSUME CheckTaskCompletion \/ FinishStep \/ Fail \/ Destroy PROVE Others'
    BY <1>7, Zenon DEF CheckTaskCompletion, FinishStep, SetNoMorePages, PagesFlushing,
       PagesSnapshot, SetNoMorePagesOn, Fail, Destroy, Others
  <1>8. ASSUME NEW t \in Thread, FlushStep(t) PROVE Others'
    BY <1>8, Zenon DEF FlushStep, CheckFlushComplete, FlushSnapshot, FlushDecide, DestroyNoMore,
       DestroySnapshot, DestroyBuffer, Others
  <1>9. CASE UNCHANGED vars
    BY <1>9, Zenon DEF vars, Others
  <1> QED
    BY <1>2, <1>3, <1>4, <1>5, <1>6, <1>7, <1>8, <1>9, Zenon DEF Next

-----------------------------------------------------------------------------
(* The theorems about the references *)

INSTANCE FiniteSetTheorems

\* The facts about finite sets that the counting used are theorems of the library.
LEMMA FiniteSetsCount == FiniteSetFacts
  <1>1. /\ IsFiniteSet({}) /\ Cardinality({}) = 0
        /\ \A x : Cardinality({x}) = 1
    BY FS_EmptySet, FS_Singleton, Zenon
  <1>2. \A S : IsFiniteSet(S) => Cardinality(S) \in Nat
    BY FS_CardinalityType, Zenon
  <1>3. \A S : IsFiniteSet(S) => \A T \in SUBSET S : IsFiniteSet(T)
    BY FS_Subset, Zenon
  <1>4. \A S, x : IsFiniteSet(S) =>
           /\ IsFiniteSet(S \cup {x})
           /\ Cardinality(S \cup {x}) = IF x \in S THEN Cardinality(S) ELSE Cardinality(S) + 1
    BY FS_AddElement, Zenon
  <1>5. \A S, x : IsFiniteSet(S) =>
           /\ IsFiniteSet(S \ {x})
           /\ Cardinality(S \ {x}) = IF x \in S THEN Cardinality(S) - 1 ELSE Cardinality(S)
    BY FS_RemoveElement, Zenon
  <1> QED
    BY <1>1, <1>2, <1>3, <1>4, <1>5, Zenon DEF FiniteSetFacts

\* The invariant of the counters always holds.
LEMMA ReferencesInvariant == Spec => []ReferencesInv
  <1>1. Init => ReferencesInv
    <2>1. Init => Released
      BY DEF Init, Released
    <2> QED
      BY <2>1, StateStart, LabelsStart, StoreStart, CountingStarts, FiniteSetsCount
         DEF ReferencesInv, PagesInv
  <1>2. ReferencesInv /\ [Next]_vars => ReferencesInv'
    BY NextKeepsPages, NextCounts, NextReleases, FiniteSetsCount DEF ReferencesInv
  <1> QED
    BY <1>1, <1>2, PTL DEF Spec

\* The counter of every page is the number of its holders: the driver that enqueues it, the list
\* for new buffers and the client buffers; for any number of drivers, consumers and pages,
\* wherever enqueue, getBuffer, acknowledge, abort and destroy meet.
THEOREM CountersCountHolders == Spec => []ReferencesCounted
  <1>1. ReferencesInv => ReferencesCounted
    <2> SUFFICES ASSUME ReferencesInv, NEW p \in Page
                 PROVE  refs[p] = Cardinality({d \in Driver : page[d] = p})
                                  + occurrences(initialPages, p)
                                  + Cardinality({id \in DOMAIN buffers :
                                                     occurrences(buffers[id].pages, p) > 0})
      BY DEF ReferencesCounted
    <2>1. refs[p] = Carried(p) + Kept(p) + Cardinality(Buffered(p))
      BY DEF ReferencesInv, Counted
    <2> QED
      BY <2>1, CountedHolders, FiniteSetsCount, Zenon
  <1> QED
    BY <1>1, ReferencesInvariant, PTL

\* When the buffer is FINISHED and no thread is in one of its operations, every counter is zero:
\* what doEnqueue reserved was given back, whichever thread destroyed the buffer and whatever the
\* drivers, the consumers and the updates of the coordinator were doing then.
THEOREM FinishedReleasesAll == Spec => []NoPageLeaks
  <1>1. ReferencesInv => NoPageLeaks
    <2> SUFFICES ASSUME ReferencesInv, state = "FINISHED", Quiet, NEW p \in Page PROVE refs[p] = 0
      BY DEF NoPageLeaks
    <2>1. \A t \in Thread : pc[t] = "idle"
      BY DEF Quiet
    <2>2. initialPages = <<>> /\ \A id \in DOMAIN buffers : buffers[id].destroyed
      BY <2>1 DEF ReferencesInv, Released
    <2>3. \A id \in DOMAIN buffers : buffers[id].pages = <<>>
      BY <2>2, Zenon DEF ReferencesInv, Holding, Held
    <2>4. Buffered(p) = {}
      BY <2>3, Nothing DEF Buffered
    <2>5. \A d \in Driver : page[d] # p
      BY <2>1, Kinds, PagesAssumption DEF ReferencesInv, Holding
    <2>6. Carried(p) = 0 /\ Kept(p) = 0
      BY <2>2, <2>5, Nothing, Zenon DEF Carried, Kept, bit
    <2>7. refs[p] = Carried(p) + Kept(p) + Cardinality(Buffered(p))
      BY DEF ReferencesInv, Counted
    <2> QED
      BY <2>4, <2>6, <2>7, FiniteSetsCount DEF FiniteSetFacts
  <1> QED
    BY <1>1, ReferencesInvariant, PTL

\* Every variable keeps its type; in particular no reference counter goes below zero (the checkState
\* of SerializedPageReference) and no thread leaves the labels of the operations.
THEOREM TypesAndCounters == Spec => []TypeOK
  <1>1. Init => Others
    BY Zenon DEF Init, Others, State
  <1>2. ReferencesInv /\ Others /\ [Next]_vars => Others'
    BY NextKeepsOthers DEF ReferencesInv, PagesInv
  <1>3. ReferencesInv /\ Others => TypeOK
    BY Zenon DEF ReferencesInv, PagesInv, StateInv, Shape, StoreInv, StoreType, Buffer, Counted,
       Others, TypeOK
  <1> QED
    BY <1>1, <1>2, <1>3, ReferencesInvariant, PTL DEF Spec
=============================================================================
