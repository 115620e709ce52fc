------------------------- MODULE PageTransportProofs -------------------------
(***************************************************************************)
(* The inductive invariant of PageTransport, for any sets of pages and     *)
(* exchanges. No safety property is inductive alone: that a stale request  *)
(* is harmless rests on every token under way being at most the client's,  *)
(* which rests on what a result under way may contain, which rests on what *)
(* the buffer holds. Here are the invariant, the lemmas that the proofs of *)
(* the steps share, and the proof that each step preserves it.  Then come  *)
(* the safety properties, and the proof that the transport implements      *)
(* PageStream: pages written are added, pages read are received, the end   *)
(* is noMorePages, the reader sees it when it is completed, and the stream *)
(* is broken by a cancelled task, a failure or an early close.             *)
(***************************************************************************)
EXTENDS PageTransport, Integers, TLAPS

\* What the buffer holds: the pages from currentSequenceId on.
BufferInv ==
    /\ buf.currentSequenceId <= token
    /\ token <= Len(added)
    /\ ~buf.destroyed =>
           /\ buf.currentSequenceId + Len(buf.pages) = Len(added)
           /\ \A i \in 1 .. Len(buf.pages) : buf.pages[i] = added[buf.currentSequenceId + i]
    /\ buf.destroyed =>
           /\ buf.pages = <<>>
           /\ buf.noMorePages
           /\ cancelled \/ exClosed \/ (completed /\ token = Len(added))

\* Nothing under way is ahead of the client, and a read that passed its
\* acknowledgement is not ahead of the buffer.
TokenInv ==
    /\ \A t \in acks : t <= token
    /\ \A r \in Request :
           /\ req[r].token <= token
           /\ req[r].stage \in {"acked", "pending", "taken"} =>
                  buf.destroyed \/ req[r].token <= buf.currentSequenceId

\* A result holds the pages that its tokens name.
GoodResult(result) ==
    /\ result.nextToken = result.token + Len(result.pages)
    /\ result.nextToken <= Len(added)
    /\ \A i \in 1 .. Len(result.pages) : result.pages[i] = added[result.token + i]

ResultInv ==
    \A r \in Request :
        /\ req[r].stage \in {"sent", "replied", "done"} => GoodResult(req[r].result)
        /\ req[r].result.complete =>
               buf.noMorePages /\ (token = Len(added) \/ cancelled \/ exClosed)

\* Until the exchange is closed only the outstanding request is in its
\* callback, and the pages of that callback are what the consumer still misses.
CallbackInv ==
    /\ PrefixOf(received, added)
    /\ ~exClosed =>
           \A r \in Request : req[r].stage \in {"done", "accepted", "added"} => r = future
    /\ ~exClosed /\ ~failed =>
           /\ (\A r \in Request : req[r].stage # "accepted") => Len(received) = token
           /\ \A r \in Request : req[r].stage = "accepted" =>
                  /\ Len(received) + Len(req[r].result.pages) = token
                  /\ \A i \in 1 .. Len(req[r].result.pages) :
                         req[r].result.pages[i] = added[Len(received) + i]

\* A DELETE is sent only by a client that saw the end, or on closing.
DeleteInv ==
    /\ \A r \in Request :
           /\ req[r].kind = "delete" =>
                  /\ req[r].stage \in {"sent", "replied", "done"}
                  /\ completed \/ exClosed
    /\ completed =>
           /\ buf.noMorePages
           /\ token = Len(added) \/ cancelled \/ exClosed
           /\ exClosed \/ future = None \/ req[future].kind = "delete"
    /\ finished => completed \/ exClosed

\* The pending read of the buffer is a request that waits.
PendingInv == buf.pendingRead # None => req[buf.pendingRead].stage = "pending"

IInv == TypeOK /\ BufferInv /\ TokenInv /\ ResultInv /\ CallbackInv /\ DeleteInv /\ PendingInv

-----------------------------------------------------------------------------
(* Lemmas about the operators.                                             *)

\* One sequence of pages after another.
LEMMA Concatenation ==
    ASSUME NEW s \in Seq(Page), NEW t \in Seq(Page)
    PROVE  /\ s \o t \in Seq(Page)
           /\ Len(s \o t) = Len(s) + Len(t)
           /\ \A i \in 1 .. Len(s) + Len(t) :
                  (s \o t)[i] = IF i <= Len(s) THEN s[i] ELSE t[i - Len(s)]
  OBVIOUS

\* Sequences with the same elements in the same places are the same.
LEMMA SameElements ==
    ASSUME NEW s \in Seq(Page), NEW t \in Seq(Page),
           Len(s) = Len(t), \A i \in 1 .. Len(s) : s[i] = t[i]
    PROVE  s = t
  OBVIOUS

\* The pages of a sequence from place m to place n.
LEMMA Slice ==
    ASSUME NEW s, NEW m \in Int, NEW n \in Int, \A i \in m .. n : s[i] \in Page
    PROVE  /\ SubSeq(s, m, n) \in Seq(Page)
           /\ Len(SubSeq(s, m, n)) = IF m <= n THEN n - m + 1 ELSE 0
           /\ \A i \in 1 .. n - m + 1 : SubSeq(s, m, n)[i] = s[m + i - 1]
  OBVIOUS

\* A sequence without its first d elements, and its first n elements.
LEMMA SliceLemma ==
    ASSUME NEW s \in Seq(Page)
    PROVE  /\ \A d \in 0 .. Len(s) :
                  /\ SubSeq(s, d + 1, Len(s)) \in Seq(Page)
                  /\ Len(SubSeq(s, d + 1, Len(s))) = Len(s) - d
                  /\ \A i \in 1 .. Len(s) - d : SubSeq(s, d + 1, Len(s))[i] = s[d + i]
           /\ \A n \in 0 .. Len(s) :
                  /\ SubSeq(s, 1, n) \in Seq(Page)
                  /\ Len(SubSeq(s, 1, n)) = n
                  /\ \A i \in 1 .. n : SubSeq(s, 1, n)[i] = s[i]
<1>1. Len(s) \in Nat /\ \A i \in 1 .. Len(s) : s[i] \in Page
  OBVIOUS
<1>2. ASSUME NEW d \in 0 .. Len(s)
      PROVE  /\ SubSeq(s, d + 1, Len(s)) \in Seq(Page)
             /\ Len(SubSeq(s, d + 1, Len(s))) = Len(s) - d
             /\ \A i \in 1 .. Len(s) - d : SubSeq(s, d + 1, Len(s))[i] = s[d + i]
  <2>1. d + 1 \in Int /\ Len(s) \in Int /\ \A i \in d + 1 .. Len(s) : s[i] \in Page
    BY <1>1
  <2>2. /\ SubSeq(s, d + 1, Len(s)) \in Seq(Page)
        /\ Len(SubSeq(s, d + 1, Len(s))) = IF d + 1 <= Len(s) THEN Len(s) - (d + 1) + 1 ELSE 0
        /\ \A i \in 1 .. Len(s) - (d + 1) + 1 : SubSeq(s, d + 1, Len(s))[i] = s[(d + 1) + i - 1]
    BY <2>1, Slice
  <2>3. Len(s) - (d + 1) + 1 = Len(s) - d /\ (~(d + 1 <= Len(s)) => Len(s) - d = 0)
    BY <1>1
  <2>4. \A i \in 1 .. Len(s) - d : (d + 1) + i - 1 = d + i
    BY <1>1
  <2> QED  BY <2>2, <2>3, <2>4, Zenon
<1>3. ASSUME NEW n \in 0 .. Len(s)
      PROVE  /\ SubSeq(s, 1, n) \in Seq(Page)
             /\ Len(SubSeq(s, 1, n)) = n
             /\ \A i \in 1 .. n : SubSeq(s, 1, n)[i] = s[i]
  <2>1. n \in Int /\ \A i \in 1 .. n : s[i] \in Page
    BY <1>1
  <2>2. /\ SubSeq(s, 1, n) \in Seq(Page)
        /\ Len(SubSeq(s, 1, n)) = IF 1 <= n THEN n - 1 + 1 ELSE 0
        /\ \A i \in 1 .. n - 1 + 1 : SubSeq(s, 1, n)[i] = s[1 + i - 1]
    BY <2>1, Slice
  <2> QED  BY <1>1, <2>2
<1> QED  BY <1>2, <1>3

\* A buffer that starts at c and holds n pages still ends at c + n when it drops
\* the pages below t.
LEMMA DropArithmetic ==
    ASSUME NEW t \in Nat, NEW c \in Nat, NEW n \in Nat
    PROVE  t + (n - (t - c)) = c + n
OBVIOUS

\* The n positions after c lie within l if the last one does.
LEMMA WindowArithmetic ==
    ASSUME NEW c \in Nat, NEW n \in Nat, NEW l \in Nat, c + n <= l
    PROVE  \A i \in 1 .. n : c + i \in 1 .. l
OBVIOUS

\* acknowledgePages drops exactly the pages below the sequence id, and leaves a
\* destroyed buffer, or one that is already past that id, as it is.
LEMMA AcknowledgeLemma ==
    ASSUME TypeOK, BufferInv, NEW t \in Nat, t <= token
    PROVE  /\ validSequenceId(buf, t)
           /\ acknowledgePages(buf, t) \in BufferType(Page, Request)
           /\ acknowledgePages(buf, t).noMorePages = buf.noMorePages
           /\ acknowledgePages(buf, t).destroyed = buf.destroyed
           /\ acknowledgePages(buf, t).pendingRead = buf.pendingRead
           /\ acknowledgePages(buf, t).currentSequenceId <= token
           /\ acknowledgePages(buf, t).currentSequenceId >= buf.currentSequenceId
           /\ ~buf.destroyed => acknowledgePages(buf, t).currentSequenceId >= t
           /\ buf.destroyed => acknowledgePages(buf, t).pages = <<>>
           /\ ~buf.destroyed =>
                LET b == acknowledgePages(buf, t)
                IN  /\ b.currentSequenceId + Len(b.pages) = Len(added)
                    /\ \A i \in 1 .. Len(b.pages) : b.pages[i] = added[b.currentSequenceId + i]
<1> DEFINE d == t - buf.currentSequenceId
           ps == SubSeq(buf.pages, d + 1, Len(buf.pages))
<1>1. buf \in BufferType(Page, Request) /\ buf.currentSequenceId \in Nat /\ buf.pages \in Seq(Page)
      /\ Len(added) \in Nat /\ Len(buf.pages) \in Nat /\ token \in Nat
  BY DEF TypeOK, BufferType
<1>2. validSequenceId(buf, t)
  BY <1>1 DEF BufferInv, validSequenceId
<1>3. CASE buf.destroyed \/ t < buf.currentSequenceId
  BY <1>1, <1>2, <1>3 DEF BufferInv, acknowledgePages
<1>4. CASE ~(buf.destroyed \/ t < buf.currentSequenceId)
  <2>1. d \in 0 .. Len(buf.pages) /\ d = t - buf.currentSequenceId
    BY <1>1, <1>4 DEF BufferInv
  <2>2. acknowledgePages(buf, t) = [buf EXCEPT !.currentSequenceId = t, !.pages = ps]
    BY <1>4 DEF acknowledgePages
  <2> HIDE DEF d
  <2>3. /\ ps \in Seq(Page)
        /\ Len(ps) = Len(buf.pages) - d
        /\ \A i \in 1 .. Len(buf.pages) - d : ps[i] = buf.pages[d + i]
    BY <1>1, <2>1, SliceLemma, Zenon
  <2> HIDE DEF ps
  <2>4. /\ acknowledgePages(buf, t) \in BufferType(Page, Request)
        /\ acknowledgePages(buf, t).noMorePages = buf.noMorePages
        /\ acknowledgePages(buf, t).destroyed = buf.destroyed
        /\ acknowledgePages(buf, t).pendingRead = buf.pendingRead
        /\ acknowledgePages(buf, t).currentSequenceId = t
        /\ acknowledgePages(buf, t).pages = ps
    BY <1>1, <2>2, <2>3, Zenon DEF BufferType
  <2>5. t + Len(ps) = Len(added)
    <3>1. buf.currentSequenceId + Len(buf.pages) = Len(added)
      BY <1>4 DEF BufferInv
    <3>2. t + (Len(buf.pages) - (t - buf.currentSequenceId)) = buf.currentSequenceId + Len(buf.pages)
      BY <1>1, DropArithmetic
    <3> QED  BY <2>1, <2>3, <3>1, <3>2
  <2>6. \A i \in 1 .. Len(ps) : ps[i] = added[t + i]
    <3> TAKE i \in 1 .. Len(ps)
    <3>0. i \in 1 .. Len(buf.pages) - d
      BY <2>3
    <3>1. d + i \in 1 .. Len(buf.pages)
      BY <1>1, <2>1, <3>0, SMTT(30)
    <3>2. buf.pages[d + i] = added[buf.currentSequenceId + (d + i)]
      BY <1>4, <3>1 DEF BufferInv
    <3>3. buf.currentSequenceId + (d + i) = t + i
      BY <1>1, <2>1
    <3> QED  BY <2>3, <3>0, <3>2, <3>3
  <2> QED  BY <1>1, <1>2, <1>4, <2>4, <2>5, <2>6
<1> QED  BY <1>3, <1>4

\* Every result of processRead names its pages, and is complete only at the end
\* of the stream.
LEMMA ReadLemma ==
    ASSUME IInv, NEW r \in Request, req[r].stage \in {"acked", "taken"},
           NEW result \in ReadResults(buf, req[r].token)
    PROVE  /\ result \in Result
           /\ GoodResult(result)
           /\ result.complete => /\ buf.noMorePages
                                 /\ token = Len(added) \/ cancelled \/ exClosed
<1> DEFINE s == req[r].token
<1>1. /\ buf.currentSequenceId \in Nat /\ buf.pages \in Seq(Page) /\ buf.noMorePages \in BOOLEAN
      /\ added \in Seq(Page) /\ Len(added) \in Nat /\ token \in Nat
      /\ s \in Nat /\ s <= token /\ token <= Len(added) /\ buf.currentSequenceId <= token
  BY DEF IInv, TypeOK, BufferType, BufferInv, TokenInv, Exchanges
<1>2. CASE s < buf.currentSequenceId
  <2>1. result = emptyResults(s, FALSE)
    BY <1>2 DEF ReadResults
  <2> QED  BY <1>1, <2>1 DEF emptyResults, Result, GoodResult
<1>3. CASE ~(s < buf.currentSequenceId) /\ buf.pages = <<>> /\ buf.noMorePages
  <2>1. result = emptyResults(buf.currentSequenceId, TRUE)
    BY <1>3 DEF ReadResults
  <2>2. token = Len(added) \/ cancelled \/ exClosed
    BY <1>1, <1>3 DEF IInv, BufferInv
  <2> QED  BY <1>1, <1>3, <2>1, <2>2 DEF emptyResults, Result, GoodResult
<1>4. CASE ~(s < buf.currentSequenceId) /\ ~(buf.pages = <<>> /\ buf.noMorePages)
  <2>1. PICK n \in ResponseSizes(buf) :
            result = [ token |-> s, nextToken |-> s + n, complete |-> FALSE,
                       pages |-> SubSeq(buf.pages, 1, n) ]
    BY <1>4, Zenon DEF ReadResults
  <2>2. ~buf.destroyed /\ s = buf.currentSequenceId
    BY <1>1, <1>4 DEF IInv, BufferInv, TokenInv
  <2>3. n \in 0 .. Len(buf.pages)
    BY DEF ResponseSizes
  <2>4. /\ SubSeq(buf.pages, 1, n) \in Seq(Page)
        /\ Len(SubSeq(buf.pages, 1, n)) = n
        /\ \A i \in 1 .. n : SubSeq(buf.pages, 1, n)[i] = buf.pages[i]
    BY <1>1, <2>3, SliceLemma
  <2>5. s + Len(buf.pages) = Len(added) /\ \A i \in 1 .. n : buf.pages[i] = added[s + i]
    BY <1>1, <2>2, <2>3 DEF IInv, BufferInv
  <2>6. n \in Nat /\ s + n \in Nat /\ s + n <= Len(added)
    BY <1>1, <2>3, <2>5
  <2>7. /\ result.token = s /\ result.nextToken = s + n /\ result.complete = FALSE
        /\ result.pages = SubSeq(buf.pages, 1, n)
    BY <2>1, Zenon
  <2>8. result \in Result
    BY <1>1, <2>1, <2>4, <2>6, Zenon DEF Result
  <2>9. GoodResult(result)
    BY <2>4, <2>5, <2>6, <2>7, Zenon DEF GoodResult
  <2> QED  BY <2>7, <2>8, <2>9
<1> QED  BY <1>2, <1>3, <1>4

\* An empty, incomplete result is a good one for every token up to the end.
LEMMA EmptyLemma ==
    ASSUME TypeOK, NEW t \in Nat, t <= Len(added)
    PROVE  /\ emptyResults(t, FALSE) \in Result
           /\ GoodResult(emptyResults(t, FALSE))
           /\ emptyResults(t, FALSE).complete = FALSE
BY DEF TypeOK, emptyResults, Result, GoodResult

\* Taking a pending read changes the stage of that read and nothing else.
LEMMA TakeLemma ==
    ASSUME TypeOK, NEW q \in Request \cup {None}
    PROVE  /\ Take(q) \in [Request -> Exchanges]
           /\ \A x \in Request :
                  /\ x # q => Take(q)[x] = req[x]
                  /\ x = q => Take(q)[x] = [req[x] EXCEPT !.stage = "taken"]
BY NoneAssumption, Zenon DEF TypeOK, Take, Exchanges, Stage

\* Completing a pending read answers that read and changes nothing else.
LEMMA CompleteLemma ==
    ASSUME TypeOK, NEW q \in Request \cup {None}
    PROVE  /\ CompleteWithEmpty(req, q) \in [Request -> Exchanges]
           /\ \A x \in Request :
                  /\ x # q => CompleteWithEmpty(req, q)[x] = req[x]
                  /\ x = q => CompleteWithEmpty(req, q)[x] =
                        [req[x] EXCEPT !.stage = "replied",
                                       !.result = emptyResults(req[x].token, FALSE)]
<1>1. CASE q = None
  BY <1>1, NoneAssumption, Zenon DEF TypeOK, CompleteWithEmpty
<1>2. CASE q \in Request
  <2>1. req[q] \in Exchanges /\ req[q].token \in Nat
    BY <1>2 DEF TypeOK, Exchanges
  <2>2. emptyResults(req[q].token, FALSE) \in Result
    BY <2>1 DEF emptyResults, Result
  <2> DEFINE e == [req[q] EXCEPT !.stage = "replied",
                                 !.result = emptyResults(req[q].token, FALSE)]
  <2>3. e \in Exchanges
    BY <2>1, <2>2, Zenon DEF Exchanges, Stage
  <2>4. CompleteWithEmpty(req, q) = [req EXCEPT ![q] = e]
    BY <1>2, NoneAssumption, Zenon DEF CompleteWithEmpty, TypeOK
  <2> QED  BY <1>2, <2>3, <2>4, Zenon DEF TypeOK
<1> QED  BY <1>1, <1>2, Zenon

-----------------------------------------------------------------------------
(* The inductive invariant.                                                *)

\* Every initial state satisfies the invariant.
LEMMA InitLemma == Init => IInv
<1> SUFFICES ASSUME Init PROVE IInv
  OBVIOUS
<1>1. Idle \in Exchanges
  BY DEF Idle, Exchanges, Stage, Result, emptyResults
<1>2. TypeOK
  <2>1. NewBuffer \in BufferType(Page, Request)
    BY DEF NewBuffer, BufferType
  <2>2. 0 \in 0 .. MaxErrors
    BY MaxErrorsAssumption
  <2>3. <<>> \in Seq(Page)
    OBVIOUS
  <2>4. req \in [Request -> Exchanges] /\ acks \subseteq Nat /\ token \in Nat
    BY <1>1 DEF Init
  <2> QED  BY <2>1, <2>2, <2>3, <2>4, Zenon DEF Init, TypeOK
<1>3. BufferInv /\ PendingInv
  BY DEF Init, BufferInv, PendingInv, NewBuffer
<1>4. TokenInv /\ ResultInv
  BY DEF Init, TokenInv, ResultInv, Idle, emptyResults
<1>5. CallbackInv
  BY DEF Init, CallbackInv, PrefixOf, Idle
<1>6. DeleteInv
  BY DEF Init, DeleteInv, Idle
<1> QED  BY <1>2, <1>3, <1>4, <1>5, <1>6 DEF IInv

\* What the types say of the state, in the form in which the steps use it.
LEMMA TypeFacts ==
    ASSUME TypeOK
    PROVE  /\ buf.currentSequenceId \in Nat /\ buf.pages \in Seq(Page)
           /\ buf.noMorePages \in BOOLEAN /\ buf.destroyed \in BOOLEAN
           /\ buf.pendingRead \in Request \cup {None}
           /\ Len(buf.pages) \in Nat /\ Len(added) \in Nat /\ Len(received) \in Nat
           /\ token \in Nat
           /\ \A x \in Request :
                  /\ req[x] \in Exchanges
                  /\ req[x].stage \in Stage /\ req[x].kind \in {"get", "delete"}
                  /\ req[x].token \in Nat /\ req[x].result \in Result
                  /\ req[x].result.token \in Nat /\ req[x].result.nextToken \in Nat
                  /\ req[x].result.complete \in BOOLEAN
                  /\ req[x].result.pages \in Seq(Page) /\ Len(req[x].result.pages) \in Nat
<1>1. \A x \in Request : /\ req[x] \in Exchanges
                         /\ req[x].stage \in Stage /\ req[x].kind \in {"get", "delete"}
                         /\ req[x].token \in Nat /\ req[x].result \in Result
  BY DEF TypeOK, Exchanges
<1>2. \A v \in Result : /\ v.token \in Nat /\ v.nextToken \in Nat
                        /\ v.complete \in BOOLEAN
                        /\ v.pages \in Seq(Page) /\ Len(v.pages) \in Nat
  BY DEF Result
<1>3. /\ buf.currentSequenceId \in Nat /\ buf.pages \in Seq(Page)
      /\ buf.noMorePages \in BOOLEAN /\ buf.destroyed \in BOOLEAN
      /\ buf.pendingRead \in Request \cup {None}
      /\ Len(buf.pages) \in Nat /\ Len(added) \in Nat /\ Len(received) \in Nat
      /\ token \in Nat
  BY DEF TypeOK, BufferType
<1> QED  BY <1>1, <1>2, <1>3

\* Replacing one exchange leaves the others alone.
LEMMA ReplaceLemma ==
    ASSUME TypeOK, NEW r \in Request, NEW e \in Exchanges, req' = [req EXCEPT ![r] = e]
    PROVE  /\ req' \in [Request -> Exchanges]
           /\ req'[r] = e
           /\ \A x \in Request : x # r => req'[x] = req[x]
BY DEF TypeOK

\* A step that changes nothing.
LEMMA StutterLemma == ASSUME IInv, UNCHANGED vars PROVE IInv'
<1>1. TypeOK' = TypeOK
  BY DEF vars, TypeOK
<1>2. BufferInv' = BufferInv /\ PendingInv' = PendingInv
  BY DEF vars, BufferInv, PendingInv
<1>3. TokenInv' = TokenInv
  BY DEF vars, TokenInv
<1>4. ResultInv' = ResultInv
  BY DEF vars, ResultInv, GoodResult
<1>5. CallbackInv' = CallbackInv
  BY DEF vars, CallbackInv
<1>6. DeleteInv' = DeleteInv
  BY DEF vars, DeleteInv
<1> QED  BY <1>1, <1>2, <1>3, <1>4, <1>5, <1>6 DEF IInv

\* A step of the server or of the network leaves the callbacks alone.
LEMMA CallbackFrame ==
    ASSUME CallbackInv, UNCHANGED <<added, token, future, received, failed, exClosed>>,
           \A x \in Request : \/ req'[x] = req[x]
                              \/ /\ req[x].stage \notin {"done", "accepted", "added"}
                                 /\ req'[x].stage \notin {"done", "accepted", "added"}
    PROVE  CallbackInv'
<1>1. \A x \in Request : req'[x].stage \in {"done", "accepted", "added"} <=>
                         req[x].stage \in {"done", "accepted", "added"}
  OBVIOUS
<1>2. \A x \in Request :
         /\ req'[x].stage = "accepted" <=> req[x].stage = "accepted"
         /\ req[x].stage = "accepted" => req'[x].result = req[x].result
  OBVIOUS
<1>3. PrefixOf(received', added')
  BY DEF CallbackInv
<1>4. ~exClosed => \A x \in Request :
          req'[x].stage \in {"done", "accepted", "added"} => x = future
  BY <1>1 DEF CallbackInv
<1>5. ASSUME ~exClosed, ~failed, \A x \in Request : req'[x].stage # "accepted"
      PROVE  Len(received) = token
  BY <1>2, <1>5 DEF CallbackInv
<1>6. ASSUME ~exClosed, ~failed, NEW x \in Request, req'[x].stage = "accepted"
      PROVE  /\ Len(received) + Len(req'[x].result.pages) = token
             /\ \A i \in 1 .. Len(req'[x].result.pages) :
                    req'[x].result.pages[i] = added[Len(received) + i]
  <2>1. req[x].stage = "accepted" /\ req'[x].result = req[x].result
    BY <1>2, <1>6
  <2> QED  BY <1>6, <2>1 DEF CallbackInv
<1> QED  BY <1>3, <1>4, <1>5, <1>6 DEF CallbackInv

\* A result is as good after a step that adds no page as before it.
LEMMA GoodFrame == ASSUME NEW v, added' = added PROVE GoodResult(v)' <=> GoodResult(v')
BY DEF GoodResult

-----------------------------------------------------------------------------
(* The steps of the producer, of the server and of the network *)

\* ReceiveGet acknowledges on behalf of the client, up to the token of the read.
LEMMA ReceiveGetStep == ASSUME IInv, NEW r \in Request, ReceiveGet(r) PROVE IInv'
<1> DEFINE t == req[r].token
<1>1. /\ req[r].stage = "sent" /\ req[r].kind = "get"
      /\ buf' = acknowledgePages(buf, t)
      /\ req' = [req EXCEPT ![r].stage = "acked"]
      /\ UNCHANGED <<added, cancelled, acks, client, exchange>>
  BY DEF ReceiveGet
<1>2. TypeOK /\ BufferInv /\ TokenInv /\ ResultInv /\ CallbackInv /\ DeleteInv /\ PendingInv
  BY DEF IInv
<1>3. t \in Nat /\ t <= token /\ token <= Len(added)
  BY <1>2, TypeFacts DEF TokenInv, BufferInv
<1>4. /\ buf' \in BufferType(Page, Request)
      /\ buf'.noMorePages = buf.noMorePages
      /\ buf'.destroyed = buf.destroyed
      /\ buf'.pendingRead = buf.pendingRead
      /\ buf'.currentSequenceId <= token
      /\ buf'.currentSequenceId >= buf.currentSequenceId
      /\ ~buf.destroyed => buf'.currentSequenceId >= t
      /\ buf.destroyed => buf'.pages = <<>>
      /\ ~buf.destroyed =>
            /\ buf'.currentSequenceId + Len(buf'.pages) = Len(added)
            /\ \A i \in 1 .. Len(buf'.pages) : buf'.pages[i] = added[buf'.currentSequenceId + i]
  <2> HIDE DEF t
  <2> QED  BY <1>1, <1>2, <1>3, AcknowledgeLemma
<1>5. /\ req' \in [Request -> Exchanges]
      /\ req'[r].stage = "acked" /\ req'[r].kind = "get" /\ req'[r].token = t
      /\ req'[r].result = req[r].result
      /\ \A x \in Request : x # r => req'[x] = req[x]
  BY <1>1, <1>2 DEF TypeOK, Exchanges, Stage
<1>6. TypeOK'
  BY <1>1, <1>2, <1>4, <1>5 DEF TypeOK, client, exchange
<1>7. BufferInv'
  BY <1>1, <1>2, <1>4 DEF BufferInv, client, exchange
<1>8. TokenInv'
  BY <1>1, <1>2, <1>3, <1>4, <1>5, <1>6, TypeFacts DEF TokenInv, client, TypeOK, BufferType
<1>9. ResultInv'
  BY <1>1, <1>2, <1>4, <1>5 DEF ResultInv, GoodResult, client, exchange
<1>10. CallbackInv'
  BY <1>1, <1>2, <1>5 DEF CallbackInv, client, exchange
<1>11. DeleteInv' /\ PendingInv'
  BY <1>1, <1>2, <1>4, <1>5, TypeFacts DEF DeleteInv, PendingInv, client, exchange
<1> QED  BY <1>6, <1>7, <1>8, <1>9, <1>10, <1>11 DEF IInv

\* An acknowledgement, however late, drops only pages that the client has.
LEMMA ReceiveAcknowledgeStep == ASSUME IInv, NEW t \in acks, ReceiveAcknowledge(t) PROVE IInv'
<1>1. /\ acks' = acks \ {t}
      /\ buf' = acknowledgePages(buf, t)
      /\ UNCHANGED <<added, cancelled, req, client, exchange>>
  BY DEF ReceiveAcknowledge
<1>2. TypeOK /\ BufferInv /\ TokenInv /\ ResultInv /\ CallbackInv /\ DeleteInv /\ PendingInv
  BY DEF IInv
<1>3. t \in Nat /\ t <= token
  BY <1>2 DEF TokenInv, TypeOK
<1>4. /\ buf' \in BufferType(Page, Request)
      /\ buf'.noMorePages = buf.noMorePages
      /\ buf'.destroyed = buf.destroyed
      /\ buf'.pendingRead = buf.pendingRead
      /\ buf'.currentSequenceId <= token
      /\ buf'.currentSequenceId >= buf.currentSequenceId
      /\ buf.destroyed => buf'.pages = <<>>
      /\ ~buf.destroyed =>
            /\ buf'.currentSequenceId + Len(buf'.pages) = Len(added)
            /\ \A i \in 1 .. Len(buf'.pages) : buf'.pages[i] = added[buf'.currentSequenceId + i]
  BY <1>1, <1>2, <1>3, AcknowledgeLemma
<1>6. TypeOK'
  BY <1>1, <1>2, <1>4 DEF TypeOK, client, exchange
<1>7. BufferInv'
  BY <1>1, <1>2, <1>4 DEF BufferInv, client, exchange
<1>8. TokenInv'
  <2>1. UNCHANGED <<req, token>> /\ acks' \subseteq acks
    BY <1>1 DEF client
  <2>2. ASSUME NEW x \in Request PROVE
            /\ req[x].token <= token
            /\ req[x].stage \in {"acked", "pending", "taken"} =>
                  buf'.destroyed \/ req[x].token <= buf'.currentSequenceId
    <3>1. req[x].token \in Nat /\ buf.currentSequenceId \in Nat /\ buf'.currentSequenceId \in Nat
      BY <1>2, <1>6, TypeFacts DEF TypeOK, BufferType
    <3> QED  BY <1>2, <1>4, <3>1 DEF TokenInv
  <2> QED  BY <1>2, <2>1, <2>2, Zenon DEF TokenInv
<1>9. ResultInv'
  BY <1>1, <1>2, <1>4 DEF ResultInv, GoodResult, client, exchange
<1>10. CallbackInv'
  BY <1>1, <1>2 DEF CallbackInv, client, exchange
<1>11. DeleteInv' /\ PendingInv'
  BY <1>1, <1>2, <1>4 DEF DeleteInv, PendingInv, client, exchange
<1> QED  BY <1>6, <1>7, <1>8, <1>9, <1>10, <1>11 DEF IInv

\* Losing an acknowledgement changes nothing else.
LEMMA LoseAcknowledgeStep == ASSUME IInv, NEW t \in acks, LoseAcknowledge(t) PROVE IInv'
<1>1. acks' = acks \ {t} /\ UNCHANGED <<server, req, client, exchange>>
  BY DEF LoseAcknowledge
<1>2. TypeOK' /\ TokenInv'
  BY <1>1 DEF IInv, TypeOK, TokenInv, server, client, exchange
<1>3. BufferInv' /\ ResultInv' /\ CallbackInv' /\ DeleteInv' /\ PendingInv'
  BY <1>1 DEF IInv, BufferInv, ResultInv, GoodResult, CallbackInv, DeleteInv, PendingInv,
              server, client, exchange
<1> QED  BY <1>2, <1>3 DEF IInv

\* Pages are appended to the buffer and to the history alike.
LEMMA EnqueueStep == ASSUME IInv, NEW ps \in Seq(Page), Enqueue(ps) PROVE IInv'
<1>1. /\ buf' = enqueuePages(buf, ps)
      /\ added' = IF buf.noMorePages THEN added ELSE added \o ps
      /\ req' = Take(takenRead(buf))
      /\ UNCHANGED <<cancelled, acks, client, exchange>>
  BY DEF Enqueue
<1>2. TypeOK /\ BufferInv /\ TokenInv /\ ResultInv /\ CallbackInv /\ DeleteInv /\ PendingInv
  BY DEF IInv
<1>3. CASE buf.noMorePages
  <2>1. buf' = buf /\ added' = added /\ req' = req
    BY <1>1, <1>3 DEF enqueuePages, Take, takenRead
  <2>2. UNCHANGED vars
    BY <1>1, <2>1 DEF vars, client, exchange
  <2> QED  BY <2>2, StutterLemma
<1>4. CASE ~buf.noMorePages
  <2> DEFINE q == buf.pendingRead
  <2>1. buf' = [buf EXCEPT !.pages = @ \o ps, !.pendingRead = None]
        /\ added' = added \o ps /\ req' = Take(q) /\ q \in Request \cup {None}
    BY <1>1, <1>2, <1>4, TypeFacts DEF enqueuePages, takenRead
  <2>2. /\ buf.pages \o ps \in Seq(Page) /\ Len(buf.pages \o ps) = Len(buf.pages) + Len(ps)
        /\ \A i \in 1 .. Len(buf.pages) + Len(ps) :
               (buf.pages \o ps)[i] = IF i <= Len(buf.pages) THEN buf.pages[i]
                                                             ELSE ps[i - Len(buf.pages)]
    BY <1>2, TypeFacts, Concatenation
  <2>3. /\ added' \in Seq(Page) /\ Len(added') = Len(added) + Len(ps)
        /\ \A i \in 1 .. Len(added) + Len(ps) :
               added'[i] = IF i <= Len(added) THEN added[i] ELSE ps[i - Len(added)]
    BY <1>2, <2>1, Concatenation DEF TypeOK
  <2>4. /\ Len(ps) \in Nat /\ Len(added) <= Len(added')
        /\ \A i \in 1 .. Len(added) : added'[i] = added[i]
    BY <1>2, <2>3, TypeFacts
  <2>5. /\ buf' \in BufferType(Page, Request)
        /\ buf'.pages = buf.pages \o ps /\ buf'.pendingRead = None
        /\ buf'.noMorePages = buf.noMorePages /\ buf'.destroyed = buf.destroyed
        /\ buf'.currentSequenceId = buf.currentSequenceId
    BY <1>2, <2>1, <2>2, Zenon DEF TypeOK, BufferType
  <2>6. /\ req' \in [Request -> Exchanges]
        /\ \A x \in Request :
             /\ req'[x].kind = req[x].kind /\ req'[x].token = req[x].token
             /\ req'[x].result = req[x].result
             /\ req'[x].stage = req[x].stage
                \/ (req[x].stage = "pending" /\ req'[x].stage = "taken")
    <3>1. \A x \in Request : /\ x # q => req'[x] = req[x]
                             /\ x = q => req'[x] = [req[x] EXCEPT !.stage = "taken"]
      BY <1>2, <2>1, TakeLemma
    <3>2. \A x \in Request : x = q => req[x].stage = "pending"
      BY <1>2, NoneAssumption DEF PendingInv
    <3>3. req' \in [Request -> Exchanges]
      BY <1>2, <2>1, TakeLemma
    <3> QED  BY <1>2, <3>1, <3>2, <3>3, TypeFacts, ZenonT(60) DEF Exchanges
  <2>7. TypeOK'
    BY <1>1, <1>2, <2>3, <2>5, <2>6 DEF TypeOK, client, exchange
  <2>8. BufferInv'
    <3>1. buf.currentSequenceId + Len(buf.pages) = Len(added) /\ ~buf.destroyed
      BY <1>2, <1>4 DEF BufferInv
    <3>2. buf'.currentSequenceId + Len(buf'.pages) = Len(added')
      <4>1. Len(buf'.pages) = Len(buf.pages) + Len(ps) /\ Len(added') = Len(added) + Len(ps)
            /\ buf'.currentSequenceId = buf.currentSequenceId
        BY <2>2, <2>3, <2>5
      <4>2. Len(ps) \in Nat /\ Len(buf.pages) \in Nat /\ buf.currentSequenceId \in Nat
        BY <1>2, TypeFacts
      <4> QED  BY <3>1, <4>1, <4>2, SMTT(30)
    <3>3. \A i \in 1 .. Len(buf'.pages) : buf'.pages[i] = added'[buf'.currentSequenceId + i]
      <4> TAKE i \in 1 .. Len(buf'.pages)
      <4>0. i \in 1 .. Len(buf.pages) + Len(ps) /\ buf.currentSequenceId \in Nat
            /\ Len(buf.pages) \in Nat /\ Len(added) \in Nat
        BY <1>2, <2>2, <2>5, TypeFacts
      <4>1. CASE i <= Len(buf.pages)
        <5>1. i \in 1 .. Len(buf.pages) /\ buf.currentSequenceId + i \in 1 .. Len(added)
          BY <2>4, <3>1, <4>0, <4>1, SMTT(30)
        <5>2. buf'.pages[i] = buf.pages[i]
          BY <2>2, <2>5, <4>0, <4>1
        <5>3. buf.pages[i] = added[buf.currentSequenceId + i]
          BY <1>2, <3>1, <5>1 DEF BufferInv
        <5> QED  BY <2>4, <2>5, <5>1, <5>2, <5>3
      <4>2. CASE ~(i <= Len(buf.pages))
        <5>1. /\ buf.currentSequenceId + i \in 1 .. Len(added) + Len(ps)
              /\ ~(buf.currentSequenceId + i <= Len(added))
              /\ (buf.currentSequenceId + i) - Len(added) = i - Len(buf.pages)
          <6>1. /\ buf.currentSequenceId \in Nat /\ Len(buf.pages) \in Nat /\ Len(added) \in Nat
                /\ Len(ps) \in Nat /\ i \in 1 .. Len(buf.pages) + Len(ps)
            BY <2>4, <3>1, <4>0
          <6>2. (buf.currentSequenceId + i) - Len(added) = i - Len(buf.pages)
            BY <3>1, <6>1
          <6>3. ~(buf.currentSequenceId + i <= Len(added))
            BY <3>1, <4>2, <6>1, SMTT(30)
          <6>4. buf.currentSequenceId + i \in 1 .. Len(added) + Len(ps)
            BY <3>1, <6>1, SMTT(30)
          <6> QED  BY <6>2, <6>3, <6>4, SMTT(30)
        <5>2. buf'.pages[i] = ps[i - Len(buf.pages)]
          BY <2>2, <2>5, <4>0, <4>2
        <5> QED  BY <2>3, <2>5, <5>1, <5>2, SMTT(30)
      <4> QED  BY <4>1, <4>2
    <3>4. buf'.currentSequenceId <= token' /\ token' <= Len(added')
      BY <1>1, <1>2, <2>4, <2>5, <2>7, TypeFacts DEF BufferInv, client, TypeOK
    <3> QED  BY <2>5, <3>1, <3>2, <3>3, <3>4, Zenon DEF BufferInv
  <2>9. TokenInv'
    BY <1>1, <1>2, <2>5, <2>6 DEF TokenInv, client
  <2>10. ResultInv'
    <3>1. ASSUME NEW x \in Request, GoodResult(req[x].result) PROVE GoodResult(req[x].result)'
      <4>1. /\ req[x].result.token \in Nat /\ req[x].result.nextToken \in Nat
            /\ Len(req[x].result.pages) \in Nat /\ Len(added) \in Nat /\ Len(added') \in Nat
        BY <1>2, <2>7, TypeFacts DEF TypeOK
      <4>2. \A i \in 1 .. Len(req[x].result.pages) :
                req[x].result.token + i \in 1 .. Len(added)
        <5>1. req[x].result.token + Len(req[x].result.pages) <= Len(added)
          BY <3>1, <4>1 DEF GoodResult
        <5> QED  BY <4>1, <5>1, WindowArithmetic, Zenon
      <4>3. req'[x].result = req[x].result
        BY <2>6
      <4>4. req[x].result.nextToken <= Len(added')
        BY <2>4, <3>1, <4>1 DEF GoodResult
      <4> QED  BY <2>4, <3>1, <4>2, <4>3, <4>4, Zenon DEF GoodResult
    <3>2. \A x \in Request : ~req[x].result.complete
      BY <1>2, <1>4, SMTT(30) DEF ResultInv
    <3>3. \A x \in Request : req'[x].stage \in {"sent", "replied", "done"} => GoodResult(req[x].result)
      BY <1>2, <2>6 DEF ResultInv
    <3> QED  BY <2>6, <3>1, <3>2, <3>3 DEF ResultInv
  <2>11. CallbackInv'
    <3>1. PrefixOf(received', added')
      BY <1>1, <1>2, <2>3, <2>4, TypeFacts DEF CallbackInv, PrefixOf, exchange
    <3>2. ASSUME NEW x \in Request, ~exClosed, ~failed, req[x].stage = "accepted"
          PROVE  \A i \in 1 .. Len(req[x].result.pages) :
                     req[x].result.pages[i] = added'[Len(received) + i]
      <4>1. /\ Len(received) + Len(req[x].result.pages) = token /\ token <= Len(added)
            /\ \A i \in 1 .. Len(req[x].result.pages) :
                   req[x].result.pages[i] = added[Len(received) + i]
        BY <1>2, <3>2, SMTT(30) DEF CallbackInv, BufferInv
      <4>2. \A i \in 1 .. Len(req[x].result.pages) : Len(received) + i \in 1 .. Len(added)
        BY <1>2, <4>1, TypeFacts
      <4> QED  BY <2>4, <4>1, <4>2
    <3>3. \A x \in Request : /\ req'[x].stage = "accepted" <=> req[x].stage = "accepted"
                             /\ req'[x].stage \in {"done", "accepted", "added"} <=>
                                    req[x].stage \in {"done", "accepted", "added"}
                             /\ req'[x].result = req[x].result
      BY <2>6
    <3>4. UNCHANGED <<token, future, received, failed, exClosed>>
      BY <1>1 DEF client, exchange
    <3>5. ASSUME ~exClosed PROVE \A x \in Request :
              req'[x].stage \in {"done", "accepted", "added"} => x = future
      BY <1>2, <3>3, <3>5 DEF CallbackInv
    <3>6. ASSUME ~exClosed, ~failed, \A x \in Request : req'[x].stage # "accepted"
          PROVE  Len(received) = token
      BY <1>2, <3>3, <3>6 DEF CallbackInv
    <3>7. ASSUME ~exClosed, ~failed, NEW x \in Request, req'[x].stage = "accepted"
          PROVE  /\ Len(received) + Len(req'[x].result.pages) = token
                 /\ \A i \in 1 .. Len(req'[x].result.pages) :
                        req'[x].result.pages[i] = added'[Len(received) + i]
      <4>1. req[x].stage = "accepted" /\ req'[x].result = req[x].result
        BY <3>3, <3>7
      <4>2. Len(received) + Len(req[x].result.pages) = token
        BY <1>2, <3>7, <4>1 DEF CallbackInv
      <4> QED  BY <3>2, <3>7, <4>1, <4>2
    <3> QED  BY <3>1, <3>4, <3>5, <3>6, <3>7 DEF CallbackInv
  <2>12. DeleteInv'
    <3>1. ~completed /\ UNCHANGED <<completed, finished, exClosed>>
      BY <1>1, <1>2, <1>4 DEF DeleteInv, client, exchange
    <3> QED  BY <1>2, <2>6, <3>1 DEF DeleteInv
  <2>13. PendingInv'
    BY <2>5 DEF PendingInv
  <2> QED  BY <2>7, <2>8, <2>9, <2>10, <2>11, <2>12, <2>13 DEF IInv
<1> QED  BY <1>3, <1>4

\* The end of the stream is set, and the pending read is taken to be told.
LEMMA SetNoMorePagesStep == ASSUME IInv, SetNoMorePages PROVE IInv'
<1>1. /\ buf' = setNoMorePages(buf)
      /\ req' = Take(takenRead(buf))
      /\ UNCHANGED <<added, cancelled, acks, client, exchange>>
  BY DEF SetNoMorePages
<1>2. TypeOK /\ BufferInv /\ TokenInv /\ ResultInv /\ CallbackInv /\ DeleteInv /\ PendingInv
  BY DEF IInv
<1>3. CASE buf.noMorePages
  <2>1. buf' = buf /\ req' = req
    BY <1>1, <1>3 DEF setNoMorePages, Take, takenRead
  <2>2. UNCHANGED vars
    BY <1>1, <2>1 DEF vars, client, exchange
  <2> QED  BY <2>2, StutterLemma
<1>4. CASE ~buf.noMorePages
  <2> DEFINE q == buf.pendingRead
  <2>1. buf' = [buf EXCEPT !.noMorePages = TRUE, !.pendingRead = None]
        /\ req' = Take(q) /\ q \in Request \cup {None}
    BY <1>1, <1>2, <1>4, TypeFacts DEF setNoMorePages, takenRead
  <2>2. /\ buf' \in BufferType(Page, Request)
        /\ buf'.pages = buf.pages /\ buf'.pendingRead = None
        /\ buf'.noMorePages = TRUE /\ buf'.destroyed = buf.destroyed
        /\ buf'.currentSequenceId = buf.currentSequenceId
    BY <1>2, <2>1, Zenon DEF TypeOK, BufferType
  <2>3. \A x \in Request : /\ x # q => req'[x] = req[x]
                           /\ x = q => req'[x] = [req[x] EXCEPT !.stage = "taken"]
    BY <1>2, <2>1, TakeLemma
  <2>4. \A x \in Request : x = q => req[x].stage = "pending"
    BY <1>2, NoneAssumption DEF PendingInv
  <2>5. req' \in [Request -> Exchanges]
    BY <1>2, <2>1, TakeLemma
  <2>6. \A x \in Request :
             /\ req'[x].kind = req[x].kind /\ req'[x].token = req[x].token
             /\ req'[x].result = req[x].result
             /\ req'[x] = req[x] \/ (req[x].stage = "pending" /\ req'[x].stage = "taken")
    BY <1>2, <2>3, <2>4, TypeFacts, ZenonT(60) DEF Exchanges
  <2>7. TypeOK'
    BY <1>1, <1>2, <2>2, <2>5 DEF TypeOK, client, exchange
  <2>8. BufferInv'
    BY <1>1, <1>2, <1>4, <2>2 DEF BufferInv, client, exchange
  <2>9. TokenInv'
    BY <1>1, <1>2, <2>2, <2>6 DEF TokenInv, client
  <2>10. ResultInv'
    <3>1. \A x \in Request : ~req'[x].result.complete
      BY <1>2, <1>4, <2>6 DEF ResultInv
    <3>2. \A x \in Request : req'[x].stage \in {"sent", "replied", "done"} => GoodResult(req'[x].result)
      BY <1>2, <2>6 DEF ResultInv
    <3> QED  BY <1>1, <3>1, <3>2, GoodFrame DEF ResultInv, GoodResult
  <2>11. CallbackInv'
    BY <1>1, <1>2, <2>6, CallbackFrame DEF client, exchange
  <2>12. DeleteInv'
    <3>1. ~completed /\ UNCHANGED <<completed, finished, exClosed>>
      BY <1>1, <1>2, <1>4 DEF DeleteInv, client, exchange
    <3> QED  BY <1>2, <2>6, <3>1 DEF DeleteInv
  <2>13. PendingInv'
    BY <2>2 DEF PendingInv
  <2> QED  BY <2>7, <2>8, <2>9, <2>10, <2>11, <2>12, <2>13 DEF IInv
<1> QED  BY <1>3, <1>4

\* Destroying the buffer, when the task is cancelled or the client may delete:
\* some waiting reads are answered with nothing, and a DELETE is answered.
LEMMA DestroyLemma ==
    ASSUME IInv, buf' = destroy(buf), UNCHANGED <<added, acks, client, exchange>>,
           cancelled' \in BOOLEAN, cancelled => cancelled',
           cancelled' \/ exClosed \/ completed,
           req' \in [Request -> Exchanges],
           \A x \in Request :
               /\ req'[x].kind = req[x].kind /\ req'[x].token = req[x].token
               /\ \/ req'[x] = req[x]
                  \/ /\ req[x].stage = "pending" /\ req'[x].stage = "replied"
                     /\ req'[x].result = emptyResults(req[x].token, FALSE)
                  \/ /\ req[x].stage = "sent" /\ req'[x].stage = "replied"
                     /\ req'[x].result = req[x].result
    PROVE  IInv'
<1>1. TypeOK /\ BufferInv /\ TokenInv /\ ResultInv /\ CallbackInv /\ DeleteInv /\ PendingInv
  BY DEF IInv
<1>2. /\ buf' \in BufferType(Page, Request)
      /\ buf'.pages = <<>> /\ buf'.pendingRead = None
      /\ buf'.noMorePages = TRUE /\ buf'.destroyed = TRUE
      /\ buf'.currentSequenceId = buf.currentSequenceId
  <2>1. <<>> \in Seq(Page) /\ buf \in BufferType(Page, Request)
    BY <1>1 DEF TypeOK
  <2> QED  BY <2>1, Zenon DEF BufferType, destroy
<1>3. TypeOK'
  BY <1>1, <1>2 DEF TypeOK, client, exchange
<1>4. BufferInv'
  BY <1>1, <1>2 DEF BufferInv, DeleteInv, client, exchange
<1>5. TokenInv'
  BY <1>1, <1>2, Zenon DEF TokenInv, client
<1>6. ResultInv'
  <2>1. ASSUME NEW x \in Request, req'[x].stage \in {"sent", "replied", "done"}
        PROVE  GoodResult(req'[x].result)
    <3>1. /\ req[x].token \in Nat /\ req[x].token <= Len(added)
      BY <1>1, TypeFacts DEF TokenInv, BufferInv
    <3>2. GoodResult(emptyResults(req[x].token, FALSE))
      BY <1>1, <3>1, EmptyLemma, Zenon
    <3> QED  BY <1>1, <2>1, <3>2, Zenon DEF ResultInv
  <2>2. \A x \in Request : req'[x].result.complete => req[x].result.complete
    <3>1. \A t : emptyResults(t, FALSE).complete = FALSE
      BY DEF emptyResults
    <3> QED  BY <3>1, Zenon
  <2>3. \A x \in Request : req'[x].result.complete =>
              token = Len(added) \/ cancelled' \/ exClosed
    BY <1>1, <2>2 DEF ResultInv
  <2> QED  BY <1>2, <2>1, <2>3 DEF ResultInv, GoodResult, client, exchange
<1>7. CallbackInv'
  BY <1>1, CallbackFrame, Zenon DEF client, exchange
<1>8. DeleteInv'
  <2>1. \A x \in Request : req'[x].kind = "delete" =>
            /\ req'[x].stage \in {"sent", "replied", "done"}
            /\ completed \/ exClosed
    BY <1>1, Zenon DEF DeleteInv
  <2>2. completed =>
           /\ token = Len(added) \/ cancelled' \/ exClosed
           /\ exClosed \/ future = None \/ req'[future].kind = "delete"
    BY <1>1, Zenon DEF DeleteInv, TypeOK
  <2>3. finished => completed \/ exClosed
    BY <1>1 DEF DeleteInv
  <2> QED  BY <1>2, <2>1, <2>2, <2>3 DEF DeleteInv, client, exchange
<1>9. PendingInv'
  BY <1>2 DEF PendingInv
<1> QED  BY <1>3, <1>4, <1>5, <1>6, <1>7, <1>8, <1>9 DEF IInv

\* The pending read of the buffer, once it is completed with nothing.
LEMMA CompletePendingLemma ==
    ASSUME IInv
    PROVE  LET rs == CompleteWithEmpty(req, buf.pendingRead) IN
           /\ rs \in [Request -> Exchanges]
           /\ \A x \in Request :
                /\ rs[x].kind = req[x].kind /\ rs[x].token = req[x].token
                /\ \/ rs[x] = req[x] /\ x # buf.pendingRead
                   \/ /\ req[x].stage = "pending" /\ rs[x].stage = "replied"
                      /\ rs[x].result = emptyResults(req[x].token, FALSE)
<1> DEFINE q == buf.pendingRead
           rs == CompleteWithEmpty(req, q)
<1>1. TypeOK /\ q \in Request \cup {None} /\ PendingInv
  BY TypeFacts DEF IInv
<1>2. /\ rs \in [Request -> Exchanges]
      /\ \A x \in Request :
            /\ x # q => rs[x] = req[x]
            /\ x = q => rs[x] = [req[x] EXCEPT !.stage = "replied",
                                        !.result = emptyResults(req[x].token, FALSE)]
  BY <1>1, CompleteLemma, Zenon
<1>3. \A x \in Request : x = q => req[x].stage = "pending"
  BY <1>1, NoneAssumption DEF PendingInv
<1>4. \A x \in Request : req[x] \in Exchanges
  BY <1>1, TypeFacts
<1> HIDE DEF rs, q
<1>5. \A x \in Request :
         /\ rs[x].kind = req[x].kind /\ rs[x].token = req[x].token
         /\ \/ rs[x] = req[x] /\ x # q
            \/ /\ req[x].stage = "pending" /\ rs[x].stage = "replied"
               /\ rs[x].result = emptyResults(req[x].token, FALSE)
  BY <1>2, <1>3, <1>4, ZenonT(60) DEF Exchanges
<1> QED  BY <1>2, <1>5, Zenon DEF rs, q

\* The task is cancelled.
LEMMA CancelTaskStep == ASSUME IInv, CancelTask PROVE IInv'
<1>1. /\ buf' = destroy(buf) /\ cancelled' = TRUE
      /\ req' = CompleteWithEmpty(req, buf.pendingRead)
      /\ UNCHANGED <<added, acks, client, exchange>>
  BY DEF CancelTask
<1> QED  BY <1>1, CompletePendingLemma, DestroyLemma, Zenon

\* A DELETE destroys the buffer; the client that sent it has every page, or the
\* exchange is torn down.
LEMMA ReceiveDeleteStep == ASSUME IInv, NEW r \in Request, ReceiveDelete(r) PROVE IInv'
<1> DEFINE rs == CompleteWithEmpty(req, buf.pendingRead)
<1>1. /\ req[r].stage = "sent" /\ req[r].kind = "delete"
      /\ buf' = destroy(buf)
      /\ req' = [rs EXCEPT ![r].stage = "replied"]
      /\ UNCHANGED <<added, cancelled, acks, client, exchange>>
  BY DEF ReceiveDelete
<1>2. completed \/ exClosed
  BY <1>1 DEF IInv, DeleteInv
<1>3. /\ rs \in [Request -> Exchanges]
      /\ \A x \in Request :
            /\ rs[x].kind = req[x].kind /\ rs[x].token = req[x].token
            /\ \/ rs[x] = req[x] /\ x # buf.pendingRead
               \/ /\ req[x].stage = "pending" /\ rs[x].stage = "replied"
                  /\ rs[x].result = emptyResults(req[x].token, FALSE)
  BY CompletePendingLemma, Zenon
<1> HIDE DEF rs
<1>4. rs[r] = req[r] /\ req[r] \in Exchanges
  BY <1>1, <1>3, Zenon
<1>5. /\ req' \in [Request -> Exchanges]
      /\ \A x \in Request : x # r => req'[x] = rs[x]
      /\ req'[r] = [req[r] EXCEPT !.stage = "replied"]
  BY <1>1, <1>3, <1>4 DEF Exchanges, Stage
<1>6. req'[r].kind = req[r].kind /\ req'[r].token = req[r].token
      /\ req'[r].result = req[r].result /\ req'[r].stage = "replied"
  BY <1>4, <1>5 DEF Exchanges
<1>7. cancelled' \in BOOLEAN /\ (cancelled => cancelled') /\ (cancelled' \/ exClosed \/ completed)
  BY <1>1, <1>2 DEF IInv, TypeOK
<1> QED  BY <1>1, <1>3, <1>5, <1>6, <1>7, DestroyLemma, Zenon

\* A step that answers or parks reads that are inside the server, or discards
\* exchanges nobody waits for.
LEMMA ServeLemma ==
    ASSUME IInv, UNCHANGED <<added, cancelled, acks, client, exchange>>,
           buf' \in BufferType(Page, Request),
           buf'.pages = buf.pages, buf'.currentSequenceId = buf.currentSequenceId,
           buf'.noMorePages = buf.noMorePages, buf'.destroyed = buf.destroyed,
           buf'.pendingRead # None => req'[buf'.pendingRead].stage = "pending",
           req' \in [Request -> Exchanges],
           \A x \in Request :
               \/ req'[x] = req[x]
               \/ /\ req[x].stage \in {"acked", "pending", "taken"}
                  /\ req'[x].kind = req[x].kind /\ req'[x].token = req[x].token
                  /\ req'[x].stage = "replied"
                  /\ GoodResult(req'[x].result)
                  /\ req'[x].result.complete =>
                        buf.noMorePages /\ (token = Len(added) \/ cancelled \/ exClosed)
               \/ /\ req[x].stage = "acked"
                  /\ req'[x].kind = req[x].kind /\ req'[x].token = req[x].token
                  /\ req'[x].stage = "pending" /\ req'[x].result = req[x].result
               \/ req[x].stage \in {"sent", "replied"} /\ x # future /\ req'[x] = Idle
    PROVE  IInv'
<1>1. TypeOK /\ BufferInv /\ TokenInv /\ ResultInv /\ CallbackInv /\ DeleteInv /\ PendingInv
  BY DEF IInv
<1>2. /\ Idle.stage = "idle" /\ Idle.kind = "get" /\ Idle.token = 0
      /\ Idle.result.complete = FALSE
  BY DEF Idle, emptyResults
<1>3. TypeOK'
  BY <1>1 DEF TypeOK, client, exchange
<1>4. BufferInv'
  BY <1>1 DEF BufferInv, client, exchange
<1>5. TokenInv'
  <2>1. \A x \in Request : req'[x].token <= token
    BY <1>1, <1>2, TypeFacts DEF TokenInv
  <2>2. \A x \in Request : req'[x].stage \in {"acked", "pending", "taken"} =>
            buf.destroyed \/ req'[x].token <= buf.currentSequenceId
    BY <1>1, <1>2 DEF TokenInv
  <2> QED  BY <1>1, <2>1, <2>2 DEF TokenInv, client
<1>6. ResultInv'
  <2>1. \A x \in Request : req'[x].stage \in {"sent", "replied", "done"} =>
            GoodResult(req'[x].result)
    BY <1>1, <1>2 DEF ResultInv
  <2>2. \A x \in Request : req'[x].result.complete =>
              buf.noMorePages /\ (token = Len(added) \/ cancelled \/ exClosed)
    BY <1>1, <1>2 DEF ResultInv
  <2> QED  BY <2>1, <2>2 DEF ResultInv, GoodResult, client, exchange
<1>7. CallbackInv'
  BY <1>1, <1>2, CallbackFrame DEF client, exchange
<1>8. DeleteInv'
  <2>1. \A x \in Request : req'[x].kind = "delete" =>
            /\ req'[x].stage \in {"sent", "replied", "done"}
            /\ completed \/ exClosed
    BY <1>1, <1>2 DEF DeleteInv
  <2>2. completed =>
           /\ buf.noMorePages
           /\ token = Len(added) \/ cancelled \/ exClosed
           /\ exClosed \/ future = None \/ req'[future].kind = "delete"
    BY <1>1 DEF DeleteInv, TypeOK
  <2>3. finished => completed \/ exClosed
    BY <1>1 DEF DeleteInv
  <2> QED  BY <2>1, <2>2, <2>3 DEF DeleteInv, client, exchange
<1>9. PendingInv'
  BY DEF PendingInv
<1> QED  BY <1>3, <1>4, <1>5, <1>6, <1>7, <1>8, <1>9 DEF IInv

\* An empty answer to a read that waits is a good one.
LEMMA EmptyAnswer ==
    ASSUME IInv, NEW x \in Request
    PROVE  /\ emptyResults(req[x].token, FALSE) \in Result
           /\ GoodResult(emptyResults(req[x].token, FALSE))
           /\ emptyResults(req[x].token, FALSE).complete = FALSE
<1>1. TypeOK /\ req[x].token \in Nat /\ req[x].token <= Len(added)
  BY TypeFacts DEF IInv, TokenInv, BufferInv
<1> QED  BY <1>1, EmptyLemma, Zenon

\* processRead answers a read that was taken earlier.
LEMMA ProcessReadStep == ASSUME IInv, NEW r \in Request, ProcessRead(r) PROVE IInv'
<1>1. req[r].stage = "taken" /\ UNCHANGED <<server, acks, client, exchange>>
  BY DEF ProcessRead
<1>2. PICK result \in ReadResults(buf, req[r].token) :
          req' = [req EXCEPT ![r].stage = "replied", ![r].result = result]
  BY Zenon DEF ProcessRead
<1>3. /\ result \in Result /\ GoodResult(result)
      /\ result.complete => buf.noMorePages /\ (token = Len(added) \/ cancelled \/ exClosed)
  BY <1>1, ReadLemma
<1>4. TypeOK /\ PendingInv
  BY DEF IInv
<1>5. /\ req' \in [Request -> Exchanges]
      /\ \A x \in Request : x # r => req'[x] = req[x]
      /\ req'[r].stage = "replied" /\ req'[r].result = result
      /\ req'[r].kind = req[r].kind /\ req'[r].token = req[r].token
  BY <1>2, <1>3, <1>4, Zenon DEF TypeOK, Exchanges, Stage
<1>6. /\ buf' = buf /\ UNCHANGED <<added, cancelled, acks, client, exchange>>
      /\ buf' \in BufferType(Page, Request)
      /\ buf'.pendingRead # None => req'[buf'.pendingRead].stage = "pending"
  BY <1>1, <1>4, <1>5, Zenon DEF server, TypeOK, PendingInv, BufferType
<1> QED  BY <1>1, <1>3, <1>5, <1>6, ServeLemma

\* The wait time of a read is over.
LEMMA ReadTimeoutStep == ASSUME IInv, NEW r \in Request, ReadTimeout(r) PROVE IInv'
<1>1. /\ req[r].stage \in {"pending", "taken"}
      /\ buf' = IF buf.pendingRead = r THEN [buf EXCEPT !.pendingRead = None] ELSE buf
      /\ req' = CompleteWithEmpty(req, r)
      /\ UNCHANGED <<added, cancelled, acks, client, exchange>>
  BY DEF ReadTimeout
<1>2. TypeOK /\ PendingInv
  BY DEF IInv
<1>3. /\ req' \in [Request -> Exchanges]
      /\ \A x \in Request : x # r => req'[x] = req[x]
      /\ req'[r] = [req[r] EXCEPT !.stage = "replied",
                                  !.result = emptyResults(req[r].token, FALSE)]
  BY <1>1, <1>2, CompleteLemma, Zenon
<1>4. /\ req'[r].stage = "replied" /\ req'[r].result = emptyResults(req[r].token, FALSE)
      /\ req'[r].kind = req[r].kind /\ req'[r].token = req[r].token
  BY <1>2, <1>3, TypeFacts DEF Exchanges
<1>5. /\ buf' \in BufferType(Page, Request)
      /\ buf'.pages = buf.pages /\ buf'.currentSequenceId = buf.currentSequenceId
      /\ buf'.noMorePages = buf.noMorePages /\ buf'.destroyed = buf.destroyed
      /\ buf'.pendingRead # None => buf'.pendingRead # r /\ buf'.pendingRead = buf.pendingRead
  BY <1>1, <1>2, Zenon DEF TypeOK, BufferType
<1>6. buf'.pendingRead # None => req'[buf'.pendingRead].stage = "pending"
  BY <1>2, <1>3, <1>5, TypeFacts DEF PendingInv
<1>7. GoodResult(req'[r].result) /\ req'[r].result.complete = FALSE
  BY <1>4, EmptyAnswer, Zenon
<1> QED  BY <1>1, <1>3, <1>4, <1>5, <1>6, <1>7, ServeLemma, Zenon

\* An exchange nobody waits for vanishes.
LEMMA DiscardStep == ASSUME IInv, NEW r \in Request, Discard(r) PROVE IInv'
<1>1. /\ r # future /\ req[r].stage \in {"sent", "replied"}
      /\ req' = [req EXCEPT ![r] = Idle]
      /\ UNCHANGED <<server, acks, client, exchange>>
  BY DEF Discard
<1>2. TypeOK /\ PendingInv /\ Idle \in Exchanges
  <2>1. emptyResults(0, FALSE) \in Result
    <3>1. TypeOK /\ 0 \in Nat /\ 0 <= Len(added)
      BY TypeFacts DEF IInv
    <3> QED  BY <3>1, EmptyLemma, Zenon
  <2>2. Idle \in Exchanges
    BY <2>1, Zenon DEF Idle, Exchanges, Stage
  <2> QED  BY <2>2 DEF IInv
<1>3. /\ req' \in [Request -> Exchanges] /\ req'[r] = Idle
      /\ \A x \in Request : x # r => req'[x] = req[x]
  BY <1>1, <1>2, ReplaceLemma, Zenon
<1>4. /\ buf' = buf /\ UNCHANGED <<added, cancelled, acks, client, exchange>>
      /\ buf' \in BufferType(Page, Request)
      /\ buf'.pendingRead # None => req'[buf'.pendingRead].stage = "pending"
  BY <1>1, <1>2, <1>3 DEF server, TypeOK, PendingInv, BufferType
<1> QED  BY <1>1, <1>3, <1>4, ServeLemma

\* getPages displaces the pending read, and answers or parks the new one.
LEMMA ServeGetStep == ASSUME IInv, NEW r \in Request, ServeGet(r) PROVE IInv'
<1> DEFINE rs == CompleteWithEmpty(req, buf.pendingRead)
<1>1. req[r].stage = "acked" /\ UNCHANGED <<added, cancelled, acks, client, exchange>>
  BY DEF ServeGet
<1>2. TypeOK /\ PendingInv /\ buf \in BufferType(Page, Request)
  BY DEF IInv, TypeOK
<1>3. /\ rs \in [Request -> Exchanges]
      /\ \A x \in Request :
            /\ rs[x].kind = req[x].kind /\ rs[x].token = req[x].token
            /\ \/ rs[x] = req[x] /\ x # buf.pendingRead
               \/ /\ req[x].stage = "pending" /\ rs[x].stage = "replied"
                  /\ rs[x].result = emptyResults(req[x].token, FALSE)
  BY CompletePendingLemma, Zenon
<1>4. CASE readWaits(buf, req[r].token)
  <2>1. /\ buf' = [buf EXCEPT !.pendingRead = r]
        /\ req' = [rs EXCEPT ![r].stage = "pending"]
    BY <1>4 DEF ServeGet
  <2> HIDE DEF rs
  <2>2. rs[r] = req[r] /\ req[r] \in Exchanges
    BY <1>1, <1>3, Zenon
  <2>3. /\ req' \in [Request -> Exchanges]
        /\ \A x \in Request : x # r => req'[x] = rs[x]
        /\ req'[r] = [req[r] EXCEPT !.stage = "pending"]
    BY <1>3, <2>1, <2>2 DEF Exchanges, Stage
  <2>4. /\ req'[r].stage = "pending" /\ req'[r].result = req[r].result
        /\ req'[r].kind = req[r].kind /\ req'[r].token = req[r].token
    BY <2>2, <2>3 DEF Exchanges
  <2>5. /\ buf' \in BufferType(Page, Request)
        /\ buf'.pages = buf.pages /\ buf'.currentSequenceId = buf.currentSequenceId
        /\ buf'.noMorePages = buf.noMorePages /\ buf'.destroyed = buf.destroyed
        /\ buf'.pendingRead = r
    BY <1>2, <2>1 DEF BufferType
  <2>6. \A x \in Request : x # r =>
           \/ req'[x] = req[x]
           \/ /\ req[x].stage = "pending" /\ req'[x].stage = "replied"
              /\ req'[x].kind = req[x].kind /\ req'[x].token = req[x].token
              /\ GoodResult(req'[x].result) /\ req'[x].result.complete = FALSE
    <3>1. \A x \in Request : /\ GoodResult(emptyResults(req[x].token, FALSE))
                             /\ emptyResults(req[x].token, FALSE).complete = FALSE
      BY EmptyAnswer, Zenon
    <3> SUFFICES ASSUME NEW x \in Request, x # r, req'[x] # req[x]
                 PROVE  /\ req[x].stage = "pending" /\ req'[x].stage = "replied"
                        /\ req'[x].kind = req[x].kind /\ req'[x].token = req[x].token
                        /\ GoodResult(req'[x].result) /\ req'[x].result.complete = FALSE
      BY Zenon
    <3>2. req'[x] = rs[x]
      BY <2>3
    <3>3. /\ req[x].stage = "pending" /\ rs[x].stage = "replied"
          /\ rs[x].kind = req[x].kind /\ rs[x].token = req[x].token
          /\ rs[x].result = emptyResults(req[x].token, FALSE)
      BY <1>3, <3>2, Zenon
    <3> QED  BY <3>1, <3>2, <3>3, Zenon
  <2> QED  BY <1>1, <2>3, <2>4, <2>5, <2>6, ServeLemma, ZenonT(30)
<1>5. CASE ~readWaits(buf, req[r].token)
  <2>1. PICK result \in ReadResults(buf, req[r].token) :
          /\ buf' = [buf EXCEPT !.pendingRead = None]
          /\ req' = [rs EXCEPT ![r].stage = "replied", ![r].result = result]
    BY <1>5 DEF ServeGet
  <2> HIDE DEF rs
  <2>2. /\ result \in Result /\ GoodResult(result)
        /\ result.complete => buf.noMorePages /\ (token = Len(added) \/ cancelled \/ exClosed)
    BY <1>1, ReadLemma
  <2>3. rs[r] = req[r] /\ req[r] \in Exchanges
    BY <1>1, <1>3, Zenon
  <2>4. /\ req' \in [Request -> Exchanges]
        /\ \A x \in Request : x # r => req'[x] = rs[x]
        /\ req'[r].stage = "replied" /\ req'[r].result = result
        /\ req'[r].kind = req[r].kind /\ req'[r].token = req[r].token
    BY <1>3, <2>1, <2>2, <2>3, ZenonT(60) DEF Exchanges, Stage
  <2>5. /\ buf' \in BufferType(Page, Request)
        /\ buf'.pages = buf.pages /\ buf'.currentSequenceId = buf.currentSequenceId
        /\ buf'.noMorePages = buf.noMorePages /\ buf'.destroyed = buf.destroyed
        /\ buf'.pendingRead = None
    BY <1>2, <2>1 DEF BufferType
  <2>6. \A x \in Request : x # r =>
           \/ req'[x] = req[x]
           \/ /\ req[x].stage = "pending" /\ req'[x].stage = "replied"
              /\ req'[x].kind = req[x].kind /\ req'[x].token = req[x].token
              /\ GoodResult(req'[x].result) /\ req'[x].result.complete = FALSE
    <3>1. \A x \in Request : /\ GoodResult(emptyResults(req[x].token, FALSE))
                             /\ emptyResults(req[x].token, FALSE).complete = FALSE
      BY EmptyAnswer, Zenon
    <3> SUFFICES ASSUME NEW x \in Request, x # r, req'[x] # req[x]
                 PROVE  /\ req[x].stage = "pending" /\ req'[x].stage = "replied"
                        /\ req'[x].kind = req[x].kind /\ req'[x].token = req[x].token
                        /\ GoodResult(req'[x].result) /\ req'[x].result.complete = FALSE
      BY Zenon
    <3>2. req'[x] = rs[x]
      BY <2>4
    <3>3. /\ req[x].stage = "pending" /\ rs[x].stage = "replied"
          /\ rs[x].kind = req[x].kind /\ rs[x].token = req[x].token
          /\ rs[x].result = emptyResults(req[x].token, FALSE)
      BY <1>3, <3>2, Zenon
    <3> QED  BY <3>1, <3>2, <3>3, Zenon
  <2> QED  BY <1>1, <2>2, <2>4, <2>5, <2>6, ServeLemma, Zenon
<1> QED  BY <1>4, <1>5

-----------------------------------------------------------------------------
(* The steps of HttpPageBufferClient and of ExchangeClient: they change one exchange and leave *)
(* the server alone *)

\* The parts of the invariant that such a step cannot disturb.
LEMMA ClientFrame ==
    ASSUME IInv, UNCHANGED <<server, token, acks>>, NEW r \in Request,
           req[r].stage # "pending",
           completed => completed', exClosed => exClosed',
           req' \in [Request -> Exchanges],
           \A x \in Request : x # r => req'[x] = req[x],
           req'[r].token <= token,
           req'[r].stage \notin {"acked", "pending", "taken"},
           req'[r].stage \in {"sent", "replied", "done"} => GoodResult(req'[r].result),
           req'[r].result.complete => req[r].result.complete
    PROVE  BufferInv' /\ TokenInv' /\ ResultInv' /\ PendingInv'
<1>1. TypeOK /\ BufferInv /\ TokenInv /\ ResultInv /\ PendingInv
  BY DEF IInv
<1>2. UNCHANGED <<buf, added, cancelled>>
  BY DEF server
<1>3. BufferInv'
  BY <1>1, <1>2 DEF BufferInv
<1>4. TokenInv'
  BY <1>1, <1>2 DEF TokenInv
<1>5. ResultInv'
  <2>1. \A x \in Request : req'[x].stage \in {"sent", "replied", "done"} =>
            GoodResult(req'[x].result)
    BY <1>1 DEF ResultInv
  <2>2. \A x \in Request : req'[x].result.complete => req[x].result.complete
    OBVIOUS
  <2>3. \A x \in Request : req'[x].result.complete =>
              buf.noMorePages /\ (token = Len(added) \/ cancelled \/ exClosed')
    BY <1>1, <2>2, SMTT(30) DEF ResultInv
  <2> QED  BY <1>2, <2>1, <2>3 DEF ResultInv, GoodResult
<1>6. PendingInv'
  <2>1. buf.pendingRead \in Request \cup {None}
    BY <1>1, TypeFacts, Zenon
  <2>2. ASSUME buf.pendingRead # None
        PROVE  req'[buf.pendingRead].stage = "pending"
    <3>1. buf.pendingRead \in Request /\ req[buf.pendingRead].stage = "pending"
      BY <1>1, <2>1, <2>2, Zenon DEF PendingInv
    <3>2. req'[buf.pendingRead] = req[buf.pendingRead]
      BY <3>1, Zenon
    <3> QED  BY <3>1, <3>2, Zenon
  <2> QED  BY <1>2, <2>2, Zenon DEF PendingInv
<1> QED  BY <1>3, <1>4, <1>5, <1>6

\* An idle exchange, and one that was just sent.
LEMMA IdleLemma ==
    ASSUME IInv
    PROVE  /\ Idle \in Exchanges /\ Idle.stage = "idle" /\ Idle.kind = "get"
           /\ Idle.token <= token /\ ~Idle.result.complete
           /\ \A k \in {"get", "delete"} :
                 LET e == Sent(k, token) IN
                 /\ e \in Exchanges /\ e.stage = "sent" /\ e.kind = k
                 /\ e.token = token /\ ~e.result.complete /\ GoodResult(e.result)
<1>1. TypeOK /\ token \in Nat /\ 0 <= token /\ 0 \in Nat /\ 0 <= Len(added)
  BY TypeFacts DEF IInv
<1>2. emptyResults(0, FALSE) \in Result /\ GoodResult(emptyResults(0, FALSE))
      /\ emptyResults(0, FALSE).complete = FALSE
  BY <1>1, EmptyLemma, Zenon
<1>3. /\ Idle \in Exchanges /\ Idle.stage = "idle" /\ Idle.kind = "get"
      /\ Idle.token = 0 /\ Idle.result = emptyResults(0, FALSE)
  BY <1>2, Zenon DEF Idle, Exchanges, Stage
<1>4. ASSUME NEW k \in {"get", "delete"}
      PROVE  /\ Sent(k, token) \in Exchanges /\ Sent(k, token).stage = "sent"
             /\ Sent(k, token).kind = k /\ Sent(k, token).token = token
             /\ Sent(k, token).result = emptyResults(0, FALSE)
  BY <1>1, <1>2, <1>4, Zenon DEF Sent, Idle, Exchanges, Stage
<1> QED  BY <1>1, <1>2, <1>3, <1>4, Zenon

\* An answer, from the server or from the recovery handler, reaches the client
\* that waits for it.
LEMMA ReceiveReplyStep ==
    ASSUME IInv, NEW r \in Request, ReceiveReply(r) \/ ReceiveErrorInRecovery(r)
    PROVE  IInv'
<1>1. /\ r = future /\ req[r].stage \in {"sent", "replied"}
      /\ UNCHANGED <<server, acks, client, exchange>>
  BY Zenon DEF ReceiveReply, ReceiveErrorInRecovery
<1>2. TypeOK /\ CallbackInv /\ DeleteInv /\ ResultInv /\ TokenInv
  BY DEF IInv
<1>3. /\ emptyResults(0, FALSE) \in Result /\ GoodResult(emptyResults(0, FALSE))
      /\ emptyResults(0, FALSE).complete = FALSE
  <2>1. 0 \in Nat /\ 0 <= Len(added)
    BY <1>2, TypeFacts
  <2> QED  BY <1>2, <2>1, EmptyLemma, Zenon
<1>4. /\ req' \in [Request -> Exchanges]
      /\ \A x \in Request : x # r => req'[x] = req[x]
      /\ req'[r].kind = req[r].kind /\ req'[r].token = req[r].token /\ req'[r].stage = "done"
      /\ req'[r].result \in {req[r].result, emptyResults(0, FALSE)}
  <2>1. CASE ReceiveReply(r)
    BY <1>2, <2>1, Zenon DEF ReceiveReply, TypeOK, Exchanges, Stage
  <2>2. CASE ReceiveErrorInRecovery(r)
    <3> DEFINE e == [ stage |-> "done", kind |-> "get", token |-> req[r].token,
                      result |-> emptyResults(0, FALSE) ]
    <3>1. req \in [Request -> Exchanges] /\ req[r] \in Exchanges
      BY <1>2 DEF TypeOK
    <3>2. e \in Exchanges
      <4>1. req[r].token \in Nat
        BY <3>1 DEF Exchanges
      <4> QED  BY <1>3, <4>1, Zenon DEF Exchanges, Stage
    <3>3. req' = [req EXCEPT ![r] = e] /\ req[r].kind = "get"
      BY <2>2, <3>1 DEF ReceiveErrorInRecovery
    <3>4. req' \in [Request -> Exchanges] /\ req'[r] = e
          /\ \A x \in Request : x # r => req'[x] = req[x]
      BY <3>1, <3>2, <3>3, Zenon
    <3> QED  BY <3>3, <3>4
  <2> QED  BY <2>1, <2>2, Zenon
<1>5. GoodResult(req'[r].result) /\ (req'[r].result.complete => req[r].result.complete)
  BY <1>1, <1>2, <1>3, <1>4, Zenon DEF ResultInv
<1>6. req'[r].token <= token /\ UNCHANGED <<server, token, acks, completed, exClosed>>
  BY <1>1, <1>2, <1>4 DEF TokenInv, client, exchange
<1>7. BufferInv' /\ TokenInv' /\ ResultInv' /\ PendingInv'
  BY <1>1, <1>4, <1>5, <1>6, ClientFrame
<1>8. TypeOK'
  BY <1>1, <1>2, <1>4 DEF TypeOK, server, client, exchange
<1>9. CallbackInv'
  <2>1. UNCHANGED <<added, token, future, received, failed, exClosed>>
    BY <1>1 DEF server, client, exchange
  <2>2. \A x \in Request : /\ req'[x].stage = "accepted" <=> req[x].stage = "accepted"
                           /\ req[x].stage = "accepted" => req'[x].result = req[x].result
                           /\ req'[x].stage \in {"done", "accepted", "added"} =>
                                 req[x].stage \in {"done", "accepted", "added"} \/ x = future
    BY <1>1, <1>4
  <2>3. ~exClosed => \A x \in Request :
            req'[x].stage \in {"done", "accepted", "added"} => x = future
    BY <1>2, <2>2 DEF CallbackInv
  <2>4. ASSUME ~exClosed, ~failed, \A x \in Request : req'[x].stage # "accepted"
        PROVE  Len(received) = token
    BY <1>2, <2>2, <2>4 DEF CallbackInv
  <2>5. ASSUME ~exClosed, ~failed, NEW x \in Request, req'[x].stage = "accepted"
        PROVE  /\ Len(received) + Len(req'[x].result.pages) = token
               /\ \A i \in 1 .. Len(req'[x].result.pages) :
                      req'[x].result.pages[i] = added[Len(received) + i]
    <3>1. req[x].stage = "accepted" /\ req'[x].result = req[x].result
      BY <2>2, <2>5
    <3> QED  BY <1>2, <2>5, <3>1 DEF CallbackInv
  <2>6. PrefixOf(received, added)
    BY <1>2 DEF CallbackInv
  <2> QED  BY <2>1, <2>3, <2>4, <2>5, <2>6 DEF CallbackInv
<1>10. DeleteInv'
  <2>1. \A x \in Request : req'[x].kind = req[x].kind
            /\ (req'[x].stage = req[x].stage \/ req'[x].stage = "done")
    BY <1>4
  <2>2. UNCHANGED <<buf, added, cancelled, token, completed, future, finished, exClosed>>
    BY <1>1 DEF server, client, exchange
  <2>3. future # None => req'[future].kind = req[future].kind
    BY <1>2, <2>1 DEF TypeOK
  <2> QED  BY <1>2, <2>1, <2>2, <2>3 DEF DeleteInv
<1> QED  BY <1>7, <1>8, <1>9, <1>10 DEF IInv

\* The client is polled from the queue.
LEMMA ScheduleRequestStep == ASSUME IInv, ScheduleRequest PROVE IInv'
<1>1. /\ queued' \in BOOLEAN /\ scheduled' \in BOOLEAN
      /\ UNCHANGED <<buf, added, cancelled, req, acks, token, future, completed, closed, errors,
                     received, finished, failed, exClosed>>
  BY Zenon DEF ScheduleRequest, IInv, TypeOK, server
<1>2. TypeOK'
  BY <1>1 DEF IInv, TypeOK
<1>3. BufferInv' /\ PendingInv' /\ TokenInv'
  BY <1>1 DEF IInv, BufferInv, PendingInv, TokenInv
<1>4. ResultInv'
  BY <1>1 DEF IInv, ResultInv, GoodResult
<1>5. CallbackInv'
  BY <1>1, CallbackFrame DEF IInv
<1>6. DeleteInv'
  BY <1>1 DEF IInv, DeleteInv
<1> QED  BY <1>2, <1>3, <1>4, <1>5, <1>6 DEF IInv

\* A request is sent when none is outstanding: a DELETE once the client saw the
\* end, a GET before.
LEMMA InitiateRequestStep == ASSUME IInv, InitiateRequest PROVE IInv'
<1>1. /\ scheduled' = FALSE
      /\ UNCHANGED <<server, acks, token, completed, closed, errors, exchange>>
  BY DEF InitiateRequest
<1>2. TypeOK /\ BufferInv /\ TokenInv /\ ResultInv /\ CallbackInv /\ DeleteInv /\ PendingInv
  BY DEF IInv
<1>3. CASE closed \/ future # None
  <2>1. UNCHANGED <<buf, added, cancelled, req, acks, token, future, completed, closed, errors,
                    queued, received, finished, failed, exClosed>>
    BY <1>1, <1>3 DEF InitiateRequest, server, exchange
  <2>2. TypeOK'
    BY <1>1, <1>2, <2>1, Zenon DEF TypeOK
  <2>3. BufferInv' /\ PendingInv' /\ TokenInv'
    BY <1>2, <2>1, SMTT(30) DEF BufferInv, PendingInv, TokenInv
  <2>4. ResultInv'
    BY <1>2, <2>1, Zenon DEF ResultInv, GoodResult
  <2>5. CallbackInv'
    BY <1>2, <2>1, CallbackFrame
  <2>6. DeleteInv'
    BY <1>2, <2>1 DEF DeleteInv
  <2> QED  BY <2>2, <2>3, <2>4, <2>5, <2>6 DEF IInv
<1>4. CASE ~(closed \/ future # None)
  <2> DEFINE k == IF completed THEN "delete" ELSE "get"
  <2>1. PICK r \in Request : /\ req[r].stage = "idle" /\ future' = r
                             /\ req' = [req EXCEPT ![r] = Sent(k, token)]
    BY <1>4 DEF InitiateRequest
  <2>2. /\ Sent(k, token) \in Exchanges /\ Sent(k, token).stage = "sent"
        /\ Sent(k, token).kind = k /\ Sent(k, token).token = token
        /\ ~Sent(k, token).result.complete /\ GoodResult(Sent(k, token).result)
    BY IdleLemma
  <2>3. /\ req' \in [Request -> Exchanges] /\ req'[r] = Sent(k, token)
        /\ \A x \in Request : x # r => req'[x] = req[x]
    BY <1>2, <2>1, <2>2, ReplaceLemma, Zenon
  <2> HIDE DEF k
  <2>4. /\ token <= token
        /\ UNCHANGED <<buf, added, cancelled, acks, token, completed, closed, errors,
                       queued, received, finished, failed, exClosed>>
    BY <1>1, <1>2, TypeFacts DEF server, exchange
  <2>5. BufferInv' /\ TokenInv' /\ ResultInv' /\ PendingInv'
    BY <1>1, <2>1, <2>2, <2>3, <2>4, ClientFrame
  <2>6. TypeOK'
    BY <1>1, <1>2, <2>1, <2>3, <2>4, Zenon DEF TypeOK
  <2>7. CallbackInv'
    <3>1. PrefixOf(received, added)
      BY <1>2 DEF CallbackInv
    <3>2. ~exClosed => \A x \in Request : req[x].stage \notin {"done", "accepted", "added"}
      BY <1>2, <1>4, NoneAssumption DEF CallbackInv
    <3>3. ~exClosed => \A x \in Request : req'[x].stage \notin {"done", "accepted", "added"}
      BY <2>2, <2>3, <3>2
    <3>4. ~exClosed /\ ~failed => Len(received) = token
      BY <1>2, <3>2 DEF CallbackInv
    <3> QED  BY <2>4, <3>1, <3>3, <3>4 DEF CallbackInv
  <2>8. DeleteInv'
    <3>1. k = "delete" <=> completed
      BY SMTT(30) DEF k
    <3> QED  BY <1>2, <2>1, <2>2, <2>3, <2>4, <3>1 DEF DeleteInv
  <2> QED  BY <2>5, <2>6, <2>7, <2>8 DEF IInv
<1> QED  BY <1>3, <1>4

\* The end of an exchange, whatever the client does with it: no callback is left
\* unless the exchange is closed, and nothing is missing.
LEMMA IdleStep ==
    ASSUME IInv, NEW r \in Request,
           req' \in [Request -> Exchanges], req'[r] = Idle,
           \A x \in Request : x # r => req'[x] = req[x],
           UNCHANGED <<server, token, acks, received, exClosed>>,
           TypeOK', completed => completed', failed' = failed,
           req[r].stage \in {"done", "accepted", "added"},
           req[r].stage = "accepted" => exClosed,
           future' = releaseFuture(r),
           completed' => completed \/ req[r].result.complete,
           finished' => completed' \/ exClosed
    PROVE  IInv'
<1>1. TypeOK /\ BufferInv /\ TokenInv /\ ResultInv /\ CallbackInv /\ DeleteInv /\ PendingInv
  BY DEF IInv
<1>2. /\ Idle \in Exchanges /\ Idle.stage = "idle" /\ Idle.kind = "get"
      /\ Idle.token <= token /\ ~Idle.result.complete
  BY IdleLemma
<1>3. /\ req'[r].stage = "idle" /\ req'[r].kind = "get"
      /\ req'[r].token <= token /\ ~req'[r].result.complete
  BY <1>2, SMTT(30)
<1>4. BufferInv' /\ TokenInv' /\ ResultInv' /\ PendingInv'
  BY <1>3, ClientFrame, Zenon
<1>5. ~exClosed => r = future /\ future' = None
  BY <1>1 DEF CallbackInv, releaseFuture
<1>6. CallbackInv'
  <2>1. PrefixOf(received, added)
    BY <1>1 DEF CallbackInv
  <2>2. ~exClosed => \A x \in Request : req'[x].stage \notin {"done", "accepted", "added"}
    BY <1>1, <1>2, <1>3, <1>5 DEF CallbackInv
  <2>3. ~exClosed => \A x \in Request : req[x].stage # "accepted"
    BY <1>1, <1>5 DEF CallbackInv
  <2>4. ~exClosed /\ ~failed => Len(received) = token
    BY <1>1, <2>3 DEF CallbackInv
  <2> QED  BY <2>1, <2>2, <2>4 DEF CallbackInv, server
<1>7. DeleteInv'
  <2>1. \A x \in Request : req'[x].kind = "delete" =>
            /\ req'[x].stage \in {"sent", "replied", "done"}
            /\ completed' \/ exClosed
    BY <1>1, <1>2, <1>3 DEF DeleteInv
  <2>2. completed' => buf.noMorePages /\ (token = Len(added) \/ cancelled \/ exClosed)
    BY <1>1 DEF DeleteInv, ResultInv
  <2> QED  BY <1>5, <2>1, <2>2 DEF DeleteInv, server
<1> QED  BY <1>4, <1>6, <1>7, Zenon DEF IInv

\* The callback ends with an exception: only after the exchange was closed.
LEMMA AddPagesThrowsStep == ASSUME IInv, NEW r \in Request, AddPagesThrows(r) PROVE IInv'
<1>1. /\ req[r].stage = "accepted" /\ finished /\ req' = [req EXCEPT ![r] = Idle]
      /\ UNCHANGED <<server, acks, client, exchange>>
  BY DEF AddPagesThrows
<1>2. TypeOK /\ CallbackInv /\ DeleteInv /\ Idle \in Exchanges
  BY IdleLemma DEF IInv
<1>3. exClosed
  <2> SUFFICES ASSUME ~exClosed PROVE FALSE
    OBVIOUS
  <2>1. completed /\ r = future /\ r # None
    BY <1>1, <1>2, NoneAssumption DEF DeleteInv, CallbackInv
  <2>2. req[r].kind = "delete"
    BY <1>2, <2>1 DEF DeleteInv
  <2> QED  BY <1>1, <1>2, <2>2 DEF DeleteInv
<1>0. req' = [req EXCEPT ![r] = Idle]
  BY <1>1
<1>7. /\ req' \in [Request -> Exchanges] /\ req'[r] = Idle
      /\ \A x \in Request : x # r => req'[x] = req[x]
  BY <1>0, <1>2 DEF TypeOK
<1>4. TypeOK'
  BY <1>1, <1>2, <1>7 DEF TypeOK, server, client, exchange
<1>5. CASE future = r
  <2>1. UNCHANGED <<server, token, acks, received, exClosed, completed, failed, future, finished>>
    BY <1>1 DEF client, exchange
  <2>2. /\ Idle.stage = "idle" /\ Idle.kind = "get" /\ Idle.token <= token
        /\ ~Idle.result.complete
    BY IdleLemma
  <2>4. BufferInv' /\ TokenInv' /\ ResultInv' /\ PendingInv'
    BY <1>1, <1>7, <2>1, <2>2, ClientFrame
  <2>5. CallbackInv'
    BY <1>2, <1>3, <2>1 DEF CallbackInv, server
  <2>6. DeleteInv'
    BY <1>2, <1>3, <1>7, <2>1, <2>2 DEF DeleteInv, server
  <2> QED  BY <1>4, <2>4, <2>5, <2>6 DEF IInv
<1>6. CASE future # r
  <2>1. UNCHANGED <<server, token, acks, received, exClosed, completed, failed, finished>>
        /\ future' = releaseFuture(r)
    BY <1>1, <1>6 DEF client, exchange, releaseFuture
  <2>2. /\ completed => completed'
        /\ completed' => completed \/ req[r].result.complete
        /\ finished' => completed' \/ exClosed
    BY <1>3, <2>1
  <2>3. /\ req[r].stage \in {"done", "accepted", "added"}
        /\ req[r].stage = "accepted" => exClosed
        /\ UNCHANGED <<server, token, acks, received, exClosed>>
        /\ failed' = failed
    BY <1>1, <1>3, <2>1
  <2> QED  BY <1>4, <1>7, <2>1, <2>2, <2>3, IdleStep
<1> QED  BY <1>5, <1>6

\* The request is over: the client may have learnt that the buffer is complete.
LEMMA RequestCompleteStep == ASSUME IInv, NEW r \in Request, RequestComplete(r) PROVE IInv'
<1>1. /\ req[r].stage = "added"
      /\ completed' = (completed \/ req[r].result.complete)
      /\ future' = releaseFuture(r)
      /\ req' = [req EXCEPT ![r] = Idle]
      /\ queued' = requeue
      /\ UNCHANGED <<server, acks, token, scheduled, closed, errors,
                     received, finished, failed, exClosed>>
  BY DEF RequestComplete
<1>2. TypeOK /\ DeleteInv /\ Idle \in Exchanges /\ req[r].result.complete \in BOOLEAN
  BY IdleLemma, TypeFacts DEF IInv
<1>3. /\ completed' \in BOOLEAN /\ queued' \in BOOLEAN /\ future' \in Request \cup {None}
  BY <1>1, <1>2 DEF TypeOK, requeue, releaseFuture
<1>0. req' = [req EXCEPT ![r] = Idle]
  BY <1>1
<1>8. /\ req' \in [Request -> Exchanges] /\ req'[r] = Idle
      /\ \A x \in Request : x # r => req'[x] = req[x]
  BY <1>0, <1>2, SMTT(30) DEF TypeOK
<1>4. TypeOK'
  BY <1>1, <1>2, <1>3, <1>8 DEF TypeOK, server
<1>5. completed' <=> completed \/ req[r].result.complete
  BY <1>1, Zenon
<1>6. /\ completed => completed'
      /\ completed' => completed \/ req[r].result.complete
      /\ finished' => completed' \/ exClosed
  BY <1>1, <1>2, <1>5 DEF DeleteInv
<1>7. /\ req[r].stage \in {"done", "accepted", "added"}
      /\ req[r].stage = "accepted" => exClosed
      /\ UNCHANGED <<server, token, acks, received, exClosed>>
      /\ failed' = failed
  BY <1>1
<1> QED  BY <1>1, <1>4, <1>6, <1>7, <1>8, IdleStep

\* The DELETE was answered.
LEMMA DeleteSucceededStep == ASSUME IInv, NEW r \in Request, DeleteSucceeded(r) PROVE IInv'
<1>1. /\ req[r].stage = "done" /\ req[r].kind = "delete"
      /\ closed' = TRUE /\ future' = releaseFuture(r) /\ errors' = 0
      /\ req' = [req EXCEPT ![r] = Idle]
      /\ finished' = TRUE /\ queued' = FALSE
      /\ UNCHANGED <<server, acks, token, scheduled, completed, received, failed, exClosed>>
  BY DEF DeleteSucceeded
<1>2. TypeOK /\ DeleteInv /\ Idle \in Exchanges
  BY IdleLemma DEF IInv
<1>3. /\ errors' \in 0 .. MaxErrors /\ future' \in Request \cup {None}
      /\ closed' \in BOOLEAN /\ finished' \in BOOLEAN /\ queued' \in BOOLEAN
  <2>1. 0 \in 0 .. MaxErrors
    BY MaxErrorsAssumption
  <2>2. releaseFuture(r) \in Request \cup {None}
    BY <1>2 DEF TypeOK, releaseFuture
  <2> QED  BY <1>1, <2>1, <2>2, Zenon
<1>0. req' = [req EXCEPT ![r] = Idle]
  BY <1>1
<1>8. /\ req' \in [Request -> Exchanges] /\ req'[r] = Idle
      /\ \A x \in Request : x # r => req'[x] = req[x]
  BY <1>0, <1>2 DEF TypeOK
<1>4. TypeOK'
  BY <1>1, <1>2, <1>3, <1>8 DEF TypeOK, server
<1>5. completed' = completed /\ (completed \/ exClosed)
  BY <1>1, <1>2 DEF DeleteInv
<1>6. /\ completed => completed'
      /\ completed' => completed \/ req[r].result.complete
      /\ finished' => completed' \/ exClosed
  BY <1>5
<1>7. /\ req[r].stage \in {"done", "accepted", "added"}
      /\ req[r].stage = "accepted" => exClosed
      /\ UNCHANGED <<server, token, acks, received, exClosed>>
      /\ failed' = failed
  BY <1>1
<1> QED  BY <1>1, <1>4, <1>6, <1>7, <1>8, IdleStep

\* A response is accepted when its token is the client's; then the token moves
\* past its pages.
LEMMA OnSuccessStep == ASSUME IInv, NEW r \in Request, OnSuccess(r) PROVE IInv'
<1> DEFINE result == req[r].result
           matches == tokenMatches(result)
           pages == IF matches THEN result.pages ELSE <<>>
<1>1. /\ req[r].stage = "done" /\ req[r].kind = "get"
      /\ token' = IF matches THEN result.nextToken ELSE token
      /\ acks' = IF pages # <<>> /\ AcknowledgePages
                 THEN acks \cup {result.nextToken} ELSE acks
      /\ req' = [req EXCEPT ![r] = [stage |-> "accepted", kind |-> "get",
                                    token |-> req[r].token,
                                    result |-> [result EXCEPT !.pages = pages]]]
      /\ errors' = 0
      /\ UNCHANGED <<server, future, scheduled, completed, closed, exchange>>
  BY DEF OnSuccess
<1>2. TypeOK /\ BufferInv /\ TokenInv /\ ResultInv /\ CallbackInv /\ DeleteInv /\ PendingInv
  BY DEF IInv
<1>3. /\ result \in Result /\ result.token \in Nat /\ result.nextToken \in Nat
      /\ result.complete \in BOOLEAN
      /\ result.pages \in Seq(Page) /\ Len(result.pages) \in Nat
      /\ token \in Nat /\ Len(added) \in Nat /\ Len(received) \in Nat
  BY <1>2, TypeFacts
<1>4. /\ result.nextToken = result.token + Len(result.pages)
      /\ result.nextToken <= Len(added)
      /\ \A i \in 1 .. Len(result.pages) : result.pages[i] = added[result.token + i]
  BY <1>1, <1>2 DEF ResultInv, GoodResult
<1>5. matches <=> result.token = token
  BY SMTT(30) DEF tokenMatches
<1>6. /\ token' \in Nat /\ token <= token' /\ token' <= Len(added)
      /\ pages \in Seq(Page) /\ token' = token + Len(pages)
      /\ \A i \in 1 .. Len(pages) : pages[i] = added[token + i]
      /\ pages # <<>> => result.nextToken = token'
  <2>1. CASE matches
    <3>1. token' = result.nextToken /\ pages = result.pages /\ result.token = token
      BY <1>1, <1>5, <2>1
    <3> HIDE DEF result, matches, pages
    <3> QED  BY <1>3, <1>4, <3>1
  <2>2. CASE ~matches
    <3>1. token' = token /\ pages = <<>>
      BY <1>1, <2>2
    <3>2. <<>> \in Seq(Page) /\ Len(<<>>) = 0
      OBVIOUS
    <3>3. token <= Len(added)
      BY <1>2 DEF BufferInv
    <3> HIDE DEF result, matches, pages
    <3> QED  BY <1>3, <3>1, <3>2, <3>3
  <2> QED  BY <2>1, <2>2, Zenon
<1>7. /\ acks' \subseteq acks \cup {token'}
  BY <1>1, <1>6
<1> HIDE DEF matches, pages
<1>8. /\ req' \in [Request -> Exchanges]
      /\ \A x \in Request : x # r => req'[x] = req[x]
      /\ req'[r].stage = "accepted" /\ req'[r].kind = "get" /\ req'[r].token = req[r].token
      /\ req'[r].result.pages = pages /\ req'[r].result.complete = req[r].result.complete
  <2> DEFINE v == [result EXCEPT !.pages = pages]
  <2>1. v \in Result /\ v.pages = pages /\ v.complete = result.complete
    BY <1>3, <1>6, SMTT(30) DEF Result
  <2> DEFINE e == [stage |-> "accepted", kind |-> "get", token |-> req[r].token, result |-> v]
  <2>2. req' = [req EXCEPT ![r] = e] /\ req \in [Request -> Exchanges]
    BY <1>1, <1>2 DEF TypeOK
  <2> HIDE DEF v, result
  <2>4. req[r].token \in Nat /\ v \in Result
    BY <1>2, <2>1, TypeFacts
  <2>5. e \in Exchanges
    BY <2>4 DEF Exchanges, Stage
  <2>6. e.stage = "accepted" /\ e.result = v /\ e.kind = "get" /\ e.token = req[r].token
    OBVIOUS
  <2> HIDE DEF e
  <2>3. /\ req' \in [Request -> Exchanges]
        /\ \A x \in Request : x # r => req'[x] = req[x]
        /\ req'[r].stage = "accepted" /\ req'[r].result = v
        /\ req'[r].kind = "get" /\ req'[r].token = req[r].token
    BY <2>2, <2>5, <2>6
  <2> QED  BY <1>1, <2>1, <2>3 DEF result
<1> HIDE DEF result
<1>9. UNCHANGED <<buf, added, cancelled, future, scheduled, completed, closed,
                  queued, received, finished, failed, exClosed>>
  BY <1>1 DEF server, exchange
<1>10. TypeOK'
  <2>1. acks' \subseteq Nat
    BY <1>2, <1>6, <1>7 DEF TypeOK
  <2>2. errors' \in 0 .. MaxErrors
    BY <1>1, MaxErrorsAssumption, SMTT(30)
  <2> QED  BY <1>2, <1>6, <1>8, <1>9, <2>1, <2>2 DEF TypeOK
<1>11. BufferInv'
  <2>1. buf.currentSequenceId \in Nat /\ buf.currentSequenceId <= token
    BY <1>2, TypeFacts DEF BufferInv
  <2>2. buf.currentSequenceId <= token'
    BY <1>3, <1>6, <2>1
  <2>3. token = Len(added) => token' = Len(added)
    BY <1>3, <1>6
  <2> QED  BY <1>2, <1>6, <1>9, <2>2, <2>3, Zenon DEF BufferInv
<1>12. TokenInv'
  <2>1. \A t \in acks' : t <= token'
    BY <1>2, <1>3, <1>6, <1>7 DEF TokenInv, TypeOK
  <2>2. \A x \in Request : req'[x].token = req[x].token /\ req[x].token \in Nat
                           /\ req[x].token <= token
    BY <1>2, <1>8, TypeFacts DEF TokenInv
  <2>3. \A x \in Request : req'[x].token <= token'
    <3>1. token \in Nat /\ token' \in Nat /\ token <= token'
      BY <1>3, <1>6
    <3> TAKE x \in Request
    <3>2. req'[x].token = req[x].token /\ req[x].token \in Nat /\ req[x].token <= token
      BY <2>2, Zenon
    <3> QED  BY <3>1, <3>2
  <2> QED  BY <1>2, <1>8, <1>9, <2>1, <2>3 DEF TokenInv
<1>13. ResultInv'
  <2>1. token = Len(added) => token' = Len(added)
    BY <1>3, <1>6
  <2>2. \A x \in Request : req'[x].result.complete =>
              buf.noMorePages /\ (token' = Len(added) \/ cancelled \/ exClosed)
    BY <1>2, <1>8, <2>1 DEF ResultInv
  <2>3. \A x \in Request : req'[x].stage \in {"sent", "replied", "done"} =>
            GoodResult(req'[x].result)
    BY <1>2, <1>8 DEF ResultInv
  <2> QED  BY <1>9, <2>2, <2>3 DEF ResultInv, GoodResult
<1>14. CallbackInv'
  <2>1. PrefixOf(received, added)
    BY <1>2 DEF CallbackInv
  <2>2. ~exClosed => r = future /\ \A x \in Request : x # r =>
            req[x].stage \notin {"done", "accepted", "added"}
    BY <1>1, <1>2 DEF CallbackInv
  <2>3. ~exClosed => \A x \in Request : req[x].stage # "accepted"
    BY <1>1, <2>2
  <2>4. ~exClosed /\ ~failed => Len(received) = token
    BY <1>2, <2>3 DEF CallbackInv
  <2>5. ~exClosed => \A x \in Request :
            req'[x].stage \in {"done", "accepted", "added"} => x = future /\ x = r
    BY <1>8, <2>2
  <2>6. ASSUME ~exClosed, ~failed
        PROVE  /\ Len(received) + Len(req'[r].result.pages) = token'
               /\ \A i \in 1 .. Len(req'[r].result.pages) :
                      req'[r].result.pages[i] = added[Len(received) + i]
    <3>1. req'[r].result.pages = pages
      BY <1>8
    <3>2. Len(received) = token
      BY <2>4, <2>6
    <3>3. Len(received) + Len(pages) = token'
      BY <1>6, <3>2
    <3>4. \A i \in 1 .. Len(pages) : pages[i] = added[Len(received) + i]
      BY <1>6, <3>2
    <3> QED  BY <3>1, <3>3, <3>4
  <2>7. \E x \in Request : req'[x].stage = "accepted"
    BY <1>8
  <2>8. ASSUME ~exClosed, ~failed, NEW x \in Request, req'[x].stage = "accepted"
        PROVE  /\ Len(received) + Len(req'[x].result.pages) = token'
               /\ \A i \in 1 .. Len(req'[x].result.pages) :
                      req'[x].result.pages[i] = added[Len(received) + i]
    <3>1. x = r
      BY <2>5, <2>8
    <3> QED  BY <2>6, <2>8, <3>1
  <2>9. ~exClosed => \A x \in Request :
            req'[x].stage \in {"done", "accepted", "added"} => x = future
    BY <2>5
  <2> QED  BY <1>9, <2>1, <2>7, <2>8, <2>9 DEF CallbackInv
<1>15. DeleteInv'
  <2>1. \A x \in Request : /\ req'[x].kind = req[x].kind
                           /\ x = r => req'[x].kind = "get"
                           /\ x # r => req'[x].stage = req[x].stage
    BY <1>1, <1>8
  <2>2. token = Len(added) => token' = Len(added)
    BY <1>3, <1>6
  <2>3. future # None => req'[future].kind = req[future].kind
    BY <1>2, <2>1, Zenon DEF TypeOK
  <2>4. \A x \in Request : req'[x].kind = "delete" =>
            /\ req'[x].stage \in {"sent", "replied", "done"}
            /\ completed \/ exClosed
    BY <1>2, <2>1 DEF DeleteInv
  <2> QED  BY <1>2, <1>9, <2>2, <2>3, <2>4 DEF DeleteInv
<1>16. PendingInv'
  BY <1>1, <1>2, <1>8, <1>9, TypeFacts DEF PendingInv
<1> QED  BY <1>10, <1>11, <1>12, <1>13, <1>14, <1>15, <1>16 DEF IInv

\* The consumer takes the pages of the callback, unless it is closed or failed.
LEMMA AddPagesStep == ASSUME IInv, NEW r \in Request, AddPages(r) PROVE IInv'
<1> DEFINE pages == req[r].result.pages
<1>1. /\ req[r].stage = "accepted"
      /\ received' = IF exClosed \/ failed THEN received ELSE received \o pages
      /\ req' = [req EXCEPT ![r].stage = "added"]
      /\ UNCHANGED <<server, acks, client, queued, finished, failed, exClosed>>
  BY DEF AddPages
<1>2. TypeOK /\ BufferInv /\ TokenInv /\ ResultInv /\ CallbackInv /\ DeleteInv /\ PendingInv
  BY DEF IInv
<1>3. /\ pages \in Seq(Page) /\ Len(pages) \in Nat /\ received \in Seq(Page)
      /\ Len(received) \in Nat /\ Len(added) \in Nat /\ token \in Nat
  BY <1>2, TypeFacts DEF TypeOK
<1>4. /\ req' \in [Request -> Exchanges]
      /\ \A x \in Request : x # r => req'[x] = req[x]
      /\ req'[r].stage = "added" /\ req'[r].result = req[r].result
      /\ req'[r].kind = req[r].kind /\ req'[r].token = req[r].token
  <2>1. req \in [Request -> Exchanges]
    BY <1>2 DEF TypeOK
  <2> QED  BY <1>1, <2>1 DEF Exchanges, Stage
<1> HIDE DEF pages
<1>5. UNCHANGED <<buf, added, cancelled, acks, token, future, scheduled, completed, closed,
                  errors, queued, finished, failed, exClosed>>
  BY <1>1 DEF server, client
<1>6. \/ /\ exClosed \/ failed
         /\ received' = received
      \/ /\ ~exClosed /\ ~failed
         /\ received' \in Seq(Page) /\ Len(received') = token
         /\ PrefixOf(received', added)
  <2>1. CASE exClosed \/ failed
    BY <1>1, <2>1
  <2>2. CASE ~(exClosed \/ failed)
    <3>1. /\ received' \in Seq(Page) /\ Len(received') = Len(received) + Len(pages)
          /\ \A i \in 1 .. Len(received) + Len(pages) :
                 received'[i] = IF i <= Len(received) THEN received[i]
                                                      ELSE pages[i - Len(received)]
      BY <1>1, <1>3, <2>2, Concatenation
    <3>2. /\ Len(received) + Len(pages) = token
          /\ \A i \in 1 .. Len(pages) : pages[i] = added[Len(received) + i]
      BY <1>1, <1>2, <2>2 DEF CallbackInv, pages
    <3>3. Len(received') <= Len(added)
      BY <1>2, <1>3, <3>1, <3>2 DEF BufferInv
    <3>4. \A i \in 1 .. Len(received) : received[i] = added[i]
      BY <1>2 DEF CallbackInv, PrefixOf
    <3>5. ASSUME NEW i \in 1 .. Len(received') PROVE received'[i] = added[i]
      <4>1. CASE i <= Len(received)
        BY <1>3, <3>1, <3>4, <3>5, <4>1
      <4>2. CASE ~(i <= Len(received))
        <5>1. /\ i - Len(received) \in 1 .. Len(pages)
              /\ Len(received) + (i - Len(received)) = i
          BY <1>3, <3>1, <3>5, <4>2
        <5> QED  BY <3>1, <3>2, <3>5, <4>2, <5>1
      <4> QED  BY <4>1, <4>2
    <3> QED  BY <2>2, <3>1, <3>2, <3>3, <3>5 DEF PrefixOf
  <2> QED  BY <2>1, <2>2
<1>7. TypeOK'
  BY <1>2, <1>4, <1>5, <1>6 DEF TypeOK
<1>8. BufferInv' /\ TokenInv' /\ ResultInv' /\ PendingInv'
  <2>1. req[r].token <= token
    BY <1>2 DEF TokenInv
  <2> QED  BY <1>1, <1>4, <1>5, <2>1, ClientFrame
<1>9. CallbackInv'
  <2>1. ~exClosed => r = future /\ \A x \in Request : x # r =>
            req[x].stage \notin {"done", "accepted", "added"}
    BY <1>1, <1>2 DEF CallbackInv
  <2>2. ~exClosed => \A x \in Request :
            req'[x].stage \in {"done", "accepted", "added"} => x = future
    BY <1>4, <2>1
  <2>3. ~exClosed => \A x \in Request : req'[x].stage # "accepted"
    BY <1>4, <2>1
  <2>4. PrefixOf(received', added)
    BY <1>2, <1>6 DEF CallbackInv
  <2>5. ~exClosed /\ ~failed => Len(received') = token
    BY <1>6, SMTT(30)
  <2> QED  BY <1>5, <2>2, <2>3, <2>4, <2>5, Zenon DEF CallbackInv
<1>10. DeleteInv'
  <2>1. \A x \in Request : /\ req'[x].kind = req[x].kind
                           /\ x # r => req'[x].stage = req[x].stage
    BY <1>4
  <2>2. req[r].kind # "delete"
    BY <1>1, <1>2 DEF DeleteInv
  <2>3. future # None => req'[future].kind = req[future].kind
    BY <1>2, <2>1 DEF TypeOK
  <2>4. \A x \in Request : req'[x].kind = "delete" =>
            /\ req'[x].stage \in {"sent", "replied", "done"}
            /\ completed \/ exClosed
    BY <1>2, <2>1, <2>2 DEF DeleteInv
  <2>5. completed =>
            /\ buf.noMorePages
            /\ token = Len(added) \/ cancelled \/ exClosed
            /\ exClosed \/ future = None \/ req'[future].kind = "delete"
    BY <1>2, <2>3, Zenon DEF DeleteInv
  <2>6. finished => completed \/ exClosed
    BY <1>2, Zenon DEF DeleteInv
  <2> QED  BY <1>5, <2>4, <2>5, <2>6, Zenon DEF DeleteInv
<1> QED  BY <1>7, <1>8, <1>9, <1>10 DEF IInv

\* The client gives up on its request, which goes on alone.
LEMMA RequestFailedStep == ASSUME IInv, NEW r \in Request, RequestFailed(r) PROVE IInv'
<1>1. /\ r = future /\ req[r].stage \in {"sent", "acked", "pending", "taken", "replied"}
      /\ \E fatal \in BOOLEAN : failed' = (failed \/ (fatal /\ ~exClosed))
      /\ errors' = IF errors < MaxErrors THEN errors + 1 ELSE errors
      /\ future' = None /\ queued' = requeue
      /\ UNCHANGED <<buf, added, cancelled, req, acks, token, scheduled, completed, closed,
                     received, finished, exClosed>>
  BY DEF RequestFailed, server
<1>2. TypeOK /\ BufferInv /\ TokenInv /\ ResultInv /\ CallbackInv /\ DeleteInv /\ PendingInv
  BY DEF IInv
<1>3. failed' \in BOOLEAN /\ (failed => failed')
  BY <1>1, <1>2 DEF TypeOK
<1>4. TypeOK'
  <2>1. errors' \in 0 .. MaxErrors
    BY <1>1, <1>2, MaxErrorsAssumption DEF TypeOK
  <2>2. queued' \in BOOLEAN
    BY <1>1, <1>2, SMTT(30) DEF TypeOK, requeue
  <2> QED  BY <1>1, <1>2, <1>3, <2>1, <2>2 DEF TypeOK
<1>5. BufferInv' /\ TokenInv' /\ PendingInv'
  BY <1>1, <1>2, Zenon DEF BufferInv, TokenInv, PendingInv
<1>6. ResultInv'
  BY <1>1, <1>2, Zenon DEF ResultInv, GoodResult
<1>7. CallbackInv'
  <2>1. ~exClosed => \A x \in Request : req[x].stage \notin {"done", "accepted", "added"}
    BY <1>1, <1>2 DEF CallbackInv
  <2>2. ~exClosed /\ ~failed' => Len(received) = token
    BY <1>2, <1>3, <2>1 DEF CallbackInv
  <2>3. PrefixOf(received, added)
    BY <1>2 DEF CallbackInv
  <2> QED  BY <1>1, <2>1, <2>2, <2>3 DEF CallbackInv
<1>8. DeleteInv'
  BY <1>1, <1>2 DEF DeleteInv
<1> QED  BY <1>4, <1>5, <1>6, <1>7, <1>8 DEF IInv

\* The exchange is closed: from now on only the order of what was taken counts.
LEMMA CloseStep == ASSUME IInv, Close PROVE IInv'
<1>1. /\ exClosed' = TRUE /\ closed' = TRUE
      /\ UNCHANGED <<buf, added, cancelled, acks, token, scheduled, completed, errors,
                     queued, received, finished, failed>>
  BY DEF Close, server
<1>2. TypeOK /\ BufferInv /\ TokenInv /\ ResultInv /\ CallbackInv /\ DeleteInv /\ PendingInv
  BY DEF IInv
<1>3. CallbackInv'
  BY <1>1, <1>2 DEF CallbackInv
<1>4. CASE closed
  <2>1. future' = None /\ req' = req
    BY <1>4 DEF Close
  <2>2. TypeOK'
    BY <1>1, <1>2, <2>1, SMTT(30) DEF TypeOK
  <2>3. BufferInv' /\ TokenInv' /\ PendingInv'
    BY <1>1, <1>2, <2>1 DEF BufferInv, TokenInv, PendingInv
  <2>4. ResultInv'
    BY <1>1, <1>2, <2>1 DEF ResultInv, GoodResult
  <2>5. DeleteInv'
    BY <1>1, <1>2, <2>1 DEF DeleteInv
  <2> QED  BY <1>3, <2>2, <2>3, <2>4, <2>5 DEF IInv
<1>5. CASE ~closed
  <2>1. PICK r \in Request : /\ req[r].stage = "idle" /\ future' = r
                             /\ req' = [req EXCEPT ![r] = Sent("delete", token)]
    BY <1>5 DEF Close
  <2> DEFINE e == Sent("delete", token)
  <2>2. /\ e \in Exchanges /\ e.stage = "sent" /\ e.kind = "delete"
        /\ e.token = token /\ ~e.result.complete /\ GoodResult(e.result)
    BY IdleLemma
  <2> HIDE DEF e
  <2>3. /\ req' \in [Request -> Exchanges] /\ req'[r] = e
        /\ \A x \in Request : x # r => req'[x] = req[x]
    BY <1>2, <2>1, <2>2 DEF e, TypeOK
  <2>4. token <= token /\ UNCHANGED server
    BY <1>1, <1>2, TypeFacts DEF server
  <2>5. BufferInv' /\ TokenInv' /\ ResultInv' /\ PendingInv'
    BY <1>1, <2>1, <2>2, <2>3, <2>4, ClientFrame
  <2>6. TypeOK'
    BY <1>1, <1>2, <2>1, <2>3 DEF TypeOK
  <2>7. DeleteInv'
    BY <1>1, <1>2, <2>1, <2>2, <2>3 DEF DeleteInv
  <2> QED  BY <1>3, <2>5, <2>6, <2>7 DEF IInv
<1> QED  BY <1>4, <1>5

-----------------------------------------------------------------------------
(* The theorems *)

\* The lists of pages that Enqueue is called with are lists of pages.
LEMMA BatchesLemma == ASSUME NEW ps \in Batches PROVE ps \in Seq(Page)
<1>1. CASE ps = <<>>
  BY <1>1
<1>2. CASE \E p \in Page : ps = <<p>>
  BY <1>2
<1>3. CASE \E p, q \in Page : ps = <<p, q>>
  BY <1>3
<1> QED  BY <1>1, <1>2, <1>3 DEF Batches

\* Every step preserves the invariant.
LEMMA NextLemma == IInv /\ [Next]_vars => IInv'
<1> SUFFICES ASSUME IInv, [Next]_vars PROVE IInv'
  OBVIOUS
<1>1. CASE UNCHANGED vars
  BY <1>1, StutterLemma
<1>2. ASSUME NEW ps \in Batches, Enqueue(ps) PROVE IInv'
  BY <1>2, BatchesLemma, EnqueueStep
<1>3. CASE SetNoMorePages
  BY <1>3, SetNoMorePagesStep
<1>4. CASE CancelTask
  BY <1>4, CancelTaskStep
<1>5. ASSUME NEW r \in Request, Exchange(r) PROVE IInv'
  BY <1>5, ReceiveGetStep, ServeGetStep, ProcessReadStep, ReadTimeoutStep, ReceiveDeleteStep,
     DiscardStep, ReceiveReplyStep, OnSuccessStep, AddPagesStep, AddPagesThrowsStep,
     RequestCompleteStep, RequestFailedStep, DeleteSucceededStep DEF Exchange
<1>6. ASSUME NEW t \in acks, ReceiveAcknowledge(t) \/ LoseAcknowledge(t) PROVE IInv'
  BY <1>6, ReceiveAcknowledgeStep, LoseAcknowledgeStep
<1>7. CASE ScheduleRequest
  BY <1>7, ScheduleRequestStep
<1>8. CASE InitiateRequest
  BY <1>8, InitiateRequestStep
<1>9. CASE Close
  BY <1>9, CloseStep
<1> QED  BY <1>1, <1>2, <1>3, <1>4, <1>5, <1>6, <1>7, <1>8, <1>9 DEF Next

\* IInv holds in every reachable state.
THEOREM Invariance == Spec => []IInv
BY InitLemma, NextLemma, PTL DEF Spec

\* The state keeps its type, whatever is enqueued, lost, late or repeated.
THEOREM TypeCorrect == Spec => []TypeOK
<1>1. IInv => TypeOK
  BY DEF IInv
<1> QED  BY <1>1, Invariance, PTL

\* The consumer takes the pages of the buffer in order and at most once each,
\* for any number of pages, of HTTP exchanges, of retries and of errors
\* (HttpPageBufferClient.sendGetResults, ClientBuffer.processRead).
THEOREM InOrderDelivery == Spec => []DeliveredInOrder
<1>1. IInv => DeliveredInOrder
  BY DEF IInv, CallbackInv, DeliveredInOrder
<1> QED  BY <1>1, Invariance, PTL

\* What the invariant says of a client that saw the end.
LEMMA AllDelivered == IInv => CompleteMeansAll
<1> SUFFICES ASSUME IInv, completed, ~cancelled, ~exClosed, ~failed
             PROVE  received = added /\ buf.noMorePages
  BY DEF CompleteMeansAll
<1>1. TypeOK /\ CallbackInv /\ DeleteInv
  BY DEF IInv
<1>2. buf.noMorePages /\ token = Len(added)
  BY <1>1 DEF DeleteInv
<1>3. \A r \in Request : req[r].stage # "accepted"
  <2> SUFFICES ASSUME NEW r \in Request, req[r].stage = "accepted" PROVE FALSE
    OBVIOUS
  <2>1. r = future /\ r # None
    BY <1>1, NoneAssumption DEF CallbackInv
  <2>2. req[r].kind = "delete"
    BY <1>1, <2>1 DEF DeleteInv
  <2> QED  BY <1>1, <2>2 DEF DeleteInv
<1>4. Len(received) = Len(added)
  BY <1>1, <1>2, <1>3 DEF CallbackInv
<1>5. \A i \in 1 .. Len(received) : received[i] = added[i]
  BY <1>1 DEF CallbackInv, PrefixOf
<1>6. received = added
  BY <1>1, <1>4, <1>5 DEF TypeOK
<1> QED  BY <1>2, <1>6

\* A consumer that believes that the buffer is complete has all of its pages,
\* unless the task was cancelled or the exchange is torn down.
THEOREM CompleteDelivery == Spec => []CompleteMeansAll
BY AllDelivered, Invariance, PTL

\* No page leaves the buffer before the client accepted it.
THEOREM NoPageLost == Spec => []NothingDropped
<1>1. IInv => NothingDropped
  BY DEF IInv, BufferInv, NothingDropped
<1> QED  BY <1>1, Invariance, PTL

\* No request or acknowledgement, however stale, fails a check of ClientBuffer.
THEOREM ValidSequenceIds == Spec => []NoInvalidSequenceId
<1>1. IInv => NoInvalidSequenceId
  <2> SUFFICES ASSUME IInv PROVE NoInvalidSequenceId
    OBVIOUS
  <2>1. TypeOK /\ BufferInv /\ TokenInv
    BY DEF IInv
  <2>2. \A t \in Nat : t <= token => validSequenceId(buf, t)
    BY <2>1, AcknowledgeLemma
  <2>3. \A t \in acks : validSequenceId(buf, t)
    BY <2>1, <2>2 DEF TokenInv, TypeOK
  <2>4. \A r \in Request : validSequenceId(buf, req[r].token)
    BY <2>1, <2>2, TypeFacts DEF TokenInv
  <2>5. \A r \in Request : req[r].stage \in {"acked", "taken"} =>
            readInRange(buf, req[r].token)
    BY <2>1 DEF TokenInv, BufferInv, readInRange
  <2> QED  BY <2>3, <2>4, <2>5 DEF NoInvalidSequenceId
<1> QED  BY <1>1, Invariance, PTL

-----------------------------------------------------------------------------
(* The transport implements the stream.                                    *)

\* The state of the stream.
Broken == cancelled \/ failed \/ exClosed

streamVars == <<added, received, buf.noMorePages, completed, Broken>>

\* Initially the stream is empty.
LEMMA StreamInit == Init => Stream!Init
BY DEF Init, NewBuffer, Stream!Init

\* A step that leaves the five components alone is a stuttering step.
LEMMA StreamStutter ==
    ASSUME UNCHANGED streamVars
    PROVE  [Stream!Next]_(Stream!vars)
BY DEF streamVars, Broken, Stream!vars

\* The prefix of a concatenation.
LEMMA PrefixOfConcat ==
    ASSUME NEW s \in Seq(Page), NEW t \in Seq(Page)
    PROVE  /\ s \o t \in Seq(Page)
           /\ Len(s) <= Len(s \o t)
           /\ s = SubSeq(s \o t, 1, Len(s))
<1>1. /\ s \o t \in Seq(Page) /\ Len(s \o t) = Len(s) + Len(t)
      /\ \A i \in 1 .. Len(s) + Len(t) :
             (s \o t)[i] = IF i <= Len(s) THEN s[i] ELSE t[i - Len(s)]
  BY Concatenation
<1>2. Len(s) \in Nat /\ Len(t) \in Nat /\ Len(s) \in 0 .. Len(s \o t)
  BY <1>1
<1>3. /\ SubSeq(s \o t, 1, Len(s)) \in Seq(Page)
      /\ Len(SubSeq(s \o t, 1, Len(s))) = Len(s)
      /\ \A i \in 1 .. Len(s) : SubSeq(s \o t, 1, Len(s))[i] = (s \o t)[i]
  BY <1>1, <1>2, SliceLemma
<1>4. \A i \in 1 .. Len(s) : SubSeq(s \o t, 1, Len(s))[i] = s[i]
  BY <1>1, <1>2, <1>3
<1>5. SubSeq(s \o t, 1, Len(s)) = s
  BY <1>3, <1>4, SameElements
<1> QED  BY <1>1, <1>2, <1>5

\* Enqueue writes to the stream.
LEMMA EnqueueStream ==
    ASSUME IInv, NEW ps \in Seq(Page), Enqueue(ps)
    PROVE  [Stream!Next]_(Stream!vars)
<1>1. /\ buf' = enqueuePages(buf, ps)
      /\ added' = IF buf.noMorePages THEN added ELSE added \o ps
      /\ UNCHANGED <<received, completed, cancelled, failed, exClosed>>
  BY DEF Enqueue, client, exchange
<1>2. buf'.noMorePages = buf.noMorePages
  BY <1>1 DEF enqueuePages, IInv, TypeOK, BufferType
<1>3. CASE buf.noMorePages
  BY <1>1, <1>2, <1>3, StreamStutter DEF streamVars, Broken
<1>4. CASE ~buf.noMorePages
  <2>1. /\ added' \in Seq(Page) /\ Len(added) <= Len(added')
        /\ added = SubSeq(added', 1, Len(added))
    BY <1>1, <1>4, PrefixOfConcat, SMTT(30) DEF IInv, TypeOK
  <2>2. Stream!Write
    BY <1>1, <1>2, <1>4, <2>1 DEF Stream!Write
  <2> QED  BY <2>2 DEF Stream!Next
<1> QED  BY <1>3, <1>4

\* Setting noMorePages ends the stream; so does a DELETE.
LEMMA EndStream ==
    ASSUME buf'.noMorePages = TRUE,
           UNCHANGED <<added, received, completed, cancelled, failed, exClosed>>
    PROVE  [Stream!Next]_(Stream!vars)
<1>1. Stream!EndOfStream
  BY DEF Stream!EndOfStream
<1> QED  BY <1>1 DEF Stream!Next

\* Cancelling, failing and closing break the stream.
LEMMA BreakStream ==
    ASSUME cancelled' \/ failed' \/ exClosed',
           buf'.noMorePages = buf.noMorePages \/ buf'.noMorePages = TRUE,
           UNCHANGED <<added, received, completed>>
    PROVE  [Stream!Next]_(Stream!vars)
<1>1. Stream!Break
  BY Zenon DEF Stream!Break
<1> QED  BY <1>1 DEF Stream!Next

\* AddPages reads from the stream, unless it has no page to add.
LEMMA AddPagesStream ==
    ASSUME IInv, NEW r \in Request, AddPages(r)
    PROVE  [Stream!Next]_(Stream!vars)
<1> DEFINE pages == req[r].result.pages
<1>1. /\ req[r].stage = "accepted"
      /\ received' = IF exClosed \/ failed THEN received ELSE received \o pages
      /\ UNCHANGED <<buf, added, cancelled, completed, failed, exClosed>>
  BY DEF AddPages, server, client
<1>2. TypeOK /\ BufferInv /\ CallbackInv
  BY DEF IInv
<1>3. /\ received \in Seq(Page) /\ pages \in Seq(Page) /\ added \in Seq(Page)
      /\ Len(received) \in Nat /\ Len(pages) \in Nat /\ Len(added) \in Nat
  BY <1>2, TypeFacts DEF TypeOK
<1>4. IInv'
  BY AddPagesStep
<1>5. CASE exClosed \/ failed
  BY <1>1, <1>5, StreamStutter DEF streamVars, Broken
<1>6. CASE ~(exClosed \/ failed)
  <2>1. /\ Len(received) + Len(pages) = token /\ token <= Len(added)
        /\ received' = received \o pages
    BY <1>1, <1>2, <1>6, Zenon DEF CallbackInv, BufferInv
  <2> HIDE DEF pages
  <2>2. /\ received' \in Seq(Page) /\ Len(received') = Len(received) + Len(pages)
    BY <1>3, <2>1, Concatenation, SMTT(30)
  <2>3. /\ \A i \in 1 .. Len(received') : received'[i] = added[i]
    BY <1>1, <1>4, Zenon DEF IInv, CallbackInv, PrefixOf
  <2>4. CASE pages = <<>>
    <3>1. received' = received
      BY <1>3, <2>1, <2>4
    <3> QED  BY <1>1, <3>1, StreamStutter DEF streamVars, Broken
  <2>5. CASE pages # <<>>
    <3>1. Len(received') \in Len(received) + 1 .. Len(added)
      <4>1. Len(pages) > 0
        BY <1>3, <2>5
      <4> QED  BY <1>3, <2>1, <2>2, <4>1
    <3>2. received' = SubSeq(added, 1, Len(received'))
      <4>1. Len(received') \in 0 .. Len(added) /\ Len(received') \in Nat
        BY <1>3, <3>1
      <4>2. /\ SubSeq(added, 1, Len(received')) \in Seq(Page)
            /\ Len(SubSeq(added, 1, Len(received'))) = Len(received')
            /\ \A i \in 1 .. Len(received') : SubSeq(added, 1, Len(received'))[i] = added[i]
        BY <1>3, <4>1, SliceLemma
      <4>3. \A i \in 1 .. Len(received') :
                received'[i] = SubSeq(added, 1, Len(received'))[i]
        BY <2>3, <4>2
      <4> QED  BY <2>2, <4>2, <4>3, SameElements
    <3>3. Stream!Read
      BY <1>1, <3>1, <3>2 DEF Stream!Read
    <3> QED  BY <3>3 DEF Stream!Next
  <2> QED  BY <2>4, <2>5
<1> QED  BY <1>5, <1>6

\* RequestComplete shows the end of the stream to the reader, at the first
\* response that is complete.
LEMMA RequestCompleteStream ==
    ASSUME IInv, NEW r \in Request, RequestComplete(r)
    PROVE  [Stream!Next]_(Stream!vars)
<1>1. /\ completed' = (completed \/ req[r].result.complete)
      /\ UNCHANGED <<buf, added, received, cancelled, failed, exClosed>>
  BY DEF RequestComplete, server
<1>2. TypeOK /\ TypeOK' /\ IInv'
  BY RequestCompleteStep DEF IInv
<1>3. CASE completed' = completed
  BY <1>1, <1>3, StreamStutter DEF streamVars, Broken
<1>4. CASE completed' # completed
  <2>1. completed' = TRUE /\ completed = FALSE
    BY <1>1, <1>2, <1>4, Zenon DEF TypeOK
  <2>2. CompleteMeansAll'
    BY <1>2, AllDelivered, PTL
  <2>3. Broken \/ (buf.noMorePages /\ received = added)
    BY <1>1, <2>1, <2>2 DEF CompleteMeansAll, Broken
  <2>4. Stream!Complete
    BY <1>1, <2>1, <2>3, SMTT(30) DEF Stream!Complete, Broken
  <2> QED  BY <2>4 DEF Stream!Next
<1> QED  BY <1>3, <1>4

\* The remaining steps of an exchange do not touch the stream.
LEMMA QuietExchange ==
    ASSUME IInv, NEW r \in Request,
           \/ ReceiveGet(r) \/ ServeGet(r) \/ ProcessRead(r) \/ ReadTimeout(r)
           \/ Discard(r) \/ ReceiveReply(r) \/ ReceiveErrorInRecovery(r)
           \/ OnSuccess(r) \/ AddPagesThrows(r) \/ DeleteSucceeded(r)
    PROVE  [Stream!Next]_(Stream!vars)
<1>1. TypeOK /\ BufferInv /\ TokenInv /\ buf \in BufferType(Page, Request)
  BY DEF IInv, TypeOK
<1>2. UNCHANGED <<added, received, completed, cancelled, failed, exClosed>>
  BY Zenon DEF ReceiveGet, ServeGet, ProcessRead, ReadTimeout, Discard, ReceiveReply,
         ReceiveErrorInRecovery, OnSuccess, AddPagesThrows, DeleteSucceeded,
         server, client, exchange
<1>3. buf'.noMorePages = buf.noMorePages
  <2>1. CASE ReceiveGet(r)
    <3>1. req[r].token \in Nat /\ req[r].token <= token
      BY <1>1, TypeFacts, Zenon DEF TokenInv
    <3> QED  BY <1>1, <2>1, <3>1, AcknowledgeLemma, SMTT(30) DEF ReceiveGet
  <2>2. CASE ServeGet(r)
    BY <1>1, <2>2 DEF ServeGet, BufferType
  <2>3. CASE ReadTimeout(r)
    BY <1>1, <2>3 DEF ReadTimeout, BufferType
  <2>4. CASE \/ ProcessRead(r) \/ Discard(r) \/ ReceiveReply(r) \/ ReceiveErrorInRecovery(r)
             \/ OnSuccess(r) \/ AddPagesThrows(r) \/ DeleteSucceeded(r)
    BY <2>4, Zenon DEF ProcessRead, Discard, ReceiveReply, ReceiveErrorInRecovery, OnSuccess,
                AddPagesThrows, DeleteSucceeded, server
  <2> QED  BY <2>1, <2>2, <2>3, <2>4, Zenon
<1> QED  BY <1>2, <1>3, StreamStutter DEF streamVars, Broken

\* An acknowledgement does not touch the stream.
LEMMA QuietAcknowledge ==
    ASSUME IInv, NEW t \in acks, ReceiveAcknowledge(t) \/ LoseAcknowledge(t)
    PROVE  [Stream!Next]_(Stream!vars)
<1>1. TypeOK /\ BufferInv /\ t \in Nat /\ t <= token
  BY DEF IInv, TypeOK, TokenInv
<1>2. UNCHANGED <<added, received, completed, cancelled, failed, exClosed>>
  BY SMTT(30) DEF ReceiveAcknowledge, LoseAcknowledge, server, client, exchange
<1>3. buf'.noMorePages = buf.noMorePages
  BY <1>1, AcknowledgeLemma, Zenon DEF ReceiveAcknowledge, LoseAcknowledge, server
<1> QED  BY <1>2, <1>3, StreamStutter DEF streamVars, Broken

\* Every step of the transport is a step of the stream, or a stuttering step.
LEMMA StreamStep == IInv /\ [Next]_vars => [Stream!Next]_(Stream!vars)
<1> SUFFICES ASSUME IInv, [Next]_vars PROVE [Stream!Next]_(Stream!vars)
  OBVIOUS
<1>1. CASE UNCHANGED vars
  BY <1>1, StreamStutter DEF vars, streamVars, Broken
<1>2. ASSUME NEW ps \in Batches, Enqueue(ps) PROVE [Stream!Next]_(Stream!vars)
  BY <1>2, BatchesLemma, EnqueueStream
<1>3. CASE SetNoMorePages
  <2>1. UNCHANGED <<added, received, completed, cancelled, failed, exClosed>>
    BY <1>3 DEF SetNoMorePages, client, exchange
  <2>2. buf' = setNoMorePages(buf) /\ buf \in BufferType(Page, Request)
    BY <1>3 DEF SetNoMorePages, IInv, TypeOK
  <2>3. buf'.noMorePages = TRUE
    BY <2>2 DEF setNoMorePages, BufferType
  <2> QED  BY <2>1, <2>3, EndStream, Zenon
<1>4. CASE CancelTask
  <2>1. cancelled' = TRUE /\ UNCHANGED <<added, received, completed>>
    BY <1>4 DEF CancelTask, client, exchange
  <2>2. buf' = destroy(buf) /\ buf \in BufferType(Page, Request)
    BY <1>4 DEF CancelTask, IInv, TypeOK
  <2>3. buf'.noMorePages = TRUE
    BY <2>2 DEF destroy, BufferType
  <2> QED  BY <2>1, <2>3, BreakStream, Zenon
<1>5. ASSUME NEW r \in Request, Exchange(r) PROVE [Stream!Next]_(Stream!vars)
  <2>1. CASE ReceiveDelete(r)
    <3>1. UNCHANGED <<added, received, completed, cancelled, failed, exClosed>>
      BY <2>1 DEF ReceiveDelete, client, exchange
    <3>2. buf' = destroy(buf) /\ buf \in BufferType(Page, Request)
      BY <2>1 DEF ReceiveDelete, IInv, TypeOK
    <3>3. buf'.noMorePages = TRUE
      BY <3>2 DEF destroy, BufferType
    <3> QED  BY <3>1, <3>3, EndStream, Zenon
  <2>2. CASE AddPages(r)
    BY <2>2, AddPagesStream
  <2>3. CASE RequestComplete(r)
    BY <2>3, RequestCompleteStream
  <2>4. CASE RequestFailed(r)
    <3>1. /\ \E fatal \in BOOLEAN : failed' = (failed \/ (fatal /\ ~exClosed))
          /\ UNCHANGED <<buf, added, received, completed, cancelled, exClosed>>
      BY <2>4, Zenon DEF RequestFailed, server
    <3>2. CASE failed' = failed
      BY <3>1, <3>2, StreamStutter DEF streamVars, Broken
    <3>3. CASE failed' # failed
      <4>1. failed'
        BY <3>1, <3>3, Zenon DEF IInv, TypeOK
      <4> QED  BY <3>1, <4>1, BreakStream
    <3> QED  BY <3>2, <3>3, SMTT(30)
  <2> QED  BY <1>5, <2>1, <2>2, <2>3, <2>4, QuietExchange DEF Exchange
<1>6. ASSUME NEW t \in acks, ReceiveAcknowledge(t) \/ LoseAcknowledge(t)
      PROVE  [Stream!Next]_(Stream!vars)
  BY <1>6, QuietAcknowledge
<1>7. CASE ScheduleRequest \/ InitiateRequest
  <2>1. UNCHANGED <<buf, added, received, completed, cancelled, failed, exClosed>>
    BY <1>7 DEF ScheduleRequest, InitiateRequest, server, exchange
  <2> QED  BY <2>1, StreamStutter DEF streamVars, Broken
<1>8. CASE Close
  <2>1. exClosed' = TRUE /\ UNCHANGED <<buf, added, received, completed>>
    BY <1>8 DEF Close, server
  <2> QED  BY <2>1, BreakStream
<1> QED  BY <1>1, <1>2, <1>3, <1>4, <1>5, <1>6, <1>7, <1>8 DEF Next

\* The transport implements the stream: whatever HTTP does, its two ends see a
\* stream of pages that comes out in order and ends after the last page.
THEOREM TransportImplementsStream == Spec => ImplementsStream
BY StreamInit, StreamStep, Invariance, PTL DEF Spec, ImplementsStream, Stream!Spec
=============================================================================
