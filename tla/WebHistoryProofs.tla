--------------------------- MODULE WebHistoryProofs ---------------------------
(***************************************************************************)
(* What every step of the query history and of the audit log preserves:    *)
(* that at rest the page shows what the user chose, that the marks of the  *)
(* menus are right, and that the history goes on polling.  Each page is    *)
(* treated alone; WebPagesProofs puts the pages together.                  *)
(***************************************************************************)
EXTENDS WebHistories, TLAPS

-----------------------------------------------------------------------------
(* Sequences of any elements, one element longer or shorter *)

IsSequence(s) == \E S : s \in Seq(S)

cut(s, i) == SubSeq(s, 1, i - 1) \o SubSeq(s, i + 1, Len(s))

\* A sequence with one more element.
LEMMA Appended ==
    ASSUME NEW s, IsSequence(s), NEW e
    PROVE  /\ IsSequence(Append(s, e)) /\ Append(s, e) # <<>>
           /\ Len(s) \in Nat /\ DOMAIN s = 1..Len(s) /\ Len(Append(s, e)) = Len(s) + 1
           /\ DOMAIN Append(s, e) = 1..(Len(s) + 1)
           /\ Append(s, e)[Len(s) + 1] = e
           /\ \A i \in 1..Len(s) : Append(s, e)[i] = s[i]
  <1>1. PICK S : s \in Seq(S)
    BY DEF IsSequence
  <1>2. s \in Seq(S \cup {e}) /\ e \in S \cup {e}
    BY <1>1
  <1>3. Append(s, e) \in Seq(S \cup {e}) /\ Len(Append(s, e)) = Len(s) + 1 /\ Len(s) \in Nat
    BY <1>2
  <1>4. Append(s, e)[Len(s) + 1] = e /\ \A i \in 1..Len(s) : Append(s, e)[i] = s[i]
    BY <1>2
  <1> QED
    BY <1>1, <1>3, <1>4 DEF IsSequence

\* A sequence without its element i.
LEMMA Cut ==
    ASSUME NEW s, IsSequence(s), NEW i \in DOMAIN s
    PROVE  /\ IsSequence(cut(s, i))
           /\ Len(s) \in Nat /\ DOMAIN s = 1..Len(s) /\ Len(cut(s, i)) = Len(s) - 1
           /\ DOMAIN cut(s, i) = 1..(Len(s) - 1)
           /\ \A j \in 1..(Len(s) - 1) : cut(s, i)[j] = IF j < i THEN s[j] ELSE s[j + 1]
  <1>1. PICK S : s \in Seq(S)
    BY DEF IsSequence
  <1>2. Len(s) \in Nat /\ i \in 1..Len(s) /\ DOMAIN s = 1..Len(s)
    BY <1>1
  <1> DEFINE a == SubSeq(s, 1, i - 1)
             b == SubSeq(s, i + 1, Len(s))
  <1>3. /\ a \in Seq(S) /\ b \in Seq(S) /\ Len(a) = i - 1 /\ Len(b) = Len(s) - i
        /\ \A j \in 1..(i - 1) : a[j] = s[j]
        /\ \A j \in 1..(Len(s) - i) : b[j] = s[i + j]
    <2>1. a \in Seq(S) /\ Len(a) = i - 1 /\ \A j \in 1..(i - 1) : a[j] = s[j]
      BY <1>1, <1>2
    <2>2. b \in Seq(S) /\ Len(b) = Len(s) - i
      BY <1>1, <1>2
    <2>3. \A j \in 1..(Len(s) - i) : b[j] = s[i + j]
      BY <1>1, <1>2
    <2> QED
      BY <2>1, <2>2, <2>3
  <1>9. Len(a) = i - 1 /\ Len(b) = Len(s) - i
    BY <1>3, Zenon
  <1>8. a \in Seq(S) /\ b \in Seq(S)
    BY <1>3, Zenon
  <1> HIDE DEF a, b
  <1>4. /\ a \o b \in Seq(S) /\ Len(a \o b) = Len(a) + Len(b)
        /\ \A j \in 1..(Len(a) + Len(b)) : (a \o b)[j] = IF j <= Len(a) THEN a[j] ELSE b[j - Len(a)]
    BY <1>8
  <1> DEFINE c == a \o b
  <1> HIDE DEF c
  <1>5. c \in Seq(S) /\ Len(c) = Len(s) - 1 /\ DOMAIN c = 1..(Len(s) - 1)
    <2>1. c \in Seq(S) /\ Len(c) = Len(a) + Len(b)
      BY <1>4 DEF c
    <2>2. Len(c) = Len(s) - 1
      BY <1>2, <1>9, <2>1
    <2> QED
      BY <2>1, <2>2
  <1>6. ASSUME NEW j \in 1..(Len(s) - 1) PROVE c[j] = IF j < i THEN s[j] ELSE s[j + 1]
    <2>1. CASE j < i
      <3>1. j \in 1..(i - 1) /\ j \in 1..(Len(a) + Len(b)) /\ j <= Len(a)
        BY <1>2, <1>6, <1>9, <2>1
      <3> QED
        BY <1>3, <1>4, <2>1, <3>1, Zenon DEF c
    <2>2. CASE ~(j < i)
      <3>1. c[j] = b[j - (i - 1)]
        <4>1. j \in 1..(Len(a) + Len(b)) /\ ~(j <= Len(a))
          BY <1>2, <1>6, <1>9, <2>2
        <4> QED
          BY <1>4, <1>9, <4>1, Zenon DEF c
      <3>2. j - (i - 1) \in 1..(Len(s) - i) /\ i + (j - (i - 1)) = j + 1
        BY <1>2, <1>6, <2>2
      <3>3. b[j - (i - 1)] = s[i + (j - (i - 1))]
        BY <1>3, <3>2, Zenon
      <3> QED
        BY <2>2, <3>1, <3>2, <3>3, Zenon
    <2> QED
      BY <2>1, <2>2
  <1>7. cut(s, i) = c
    BY DEF cut, a, b, c
  <1> QED
    BY <1>2, <1>5, <1>6, <1>7, Zenon DEF IsSequence

\* Both pages take a request out of flight the same way.
LEMMA RemovesAt ==
    ASSUME NEW s, NEW i
    PROVE  History!RemoveAt(s, i) = cut(s, i) /\ AuditLog!RemoveAt(s, i) = cut(s, i)
  BY DEF cut, History!RemoveAt, AuditLog!RemoveAt

-----------------------------------------------------------------------------
(* The query history, which may fall silent after a failed request for the number *)

PastFields == {"timer", "requests"}
SamePast(u, v) == PastFields \subseteq DOMAIN v /\ v.timer = u.timer /\ v.requests = u.requests

HistoryType(u) ==
    PastFields \cup {"numsFailed"} \subseteq DOMAIN u /\ IsSequence(u.requests)
HistoryAlive(u) == u.timer \/ u.requests # <<>> \/ u.numsFailed

\* A request that is sent is on its way.
LEMMA HistoryGets ==
    ASSUME NEW u, HistoryType(u), NEW kind, NEW params
    PROVE  LET v == History!get(u, kind, params)
           IN  HistoryType(v) /\ v.requests # <<>>
  <1> DEFINE e == [kind |-> kind, params |-> params, since |-> server]
             v == History!get(u, kind, params)
  <1>1. PastFields \cup {"numsFailed"} \subseteq DOMAIN v /\ v.requests = Append(u.requests, e)
    BY Zenon DEF HistoryType, PastFields, History!get
  <1> HIDE DEF v, e
  <1>2. HistoryType(v) /\ v.requests # <<>>
    BY <1>1, Appended DEF HistoryType
  <1> QED
    BY <1>2 DEF v

\* refreshData leaves the page waiting for an answer.
LEMMA HistorySends ==
    ASSUME NEW u, HistoryType(u)
    PROVE  HistoryType(History!refreshData(u)) /\ HistoryAlive(History!refreshData(u))
  <1> DEFINE nums == History!get(u, "queryNums", History!queryParam(u))
             info == IF History!queryParam(u) # u.queryString
                     THEN History!get(nums, "queryInfo", History!queryParam(u)) ELSE nums
             v == History!refreshData(u)
  <1>1. HistoryType(nums) /\ nums.requests # <<>>
    BY HistoryGets, Zenon
  <1>2. HistoryType(info) /\ info.requests # <<>>
    BY <1>1, HistoryGets, Zenon
  <1>3. v = [info EXCEPT !.queryString = History!queryParam(u),
                         !.crossed = @ \/ History!isAsked(u, History!queryParam(u))]
    BY Zenon DEF History!refreshData
  <1> HIDE DEF info, v
  <1>4. PastFields \cup {"numsFailed"} \subseteq DOMAIN v /\ v.requests = info.requests
    BY <1>2, <1>3, Zenon DEF HistoryType, PastFields
  <1> QED
    BY <1>2, <1>4 DEF HistoryType, HistoryAlive, v

\* The history page opens with a request in flight.
LEMMA HistoryStart == ASSUME History!Init PROVE HistoryType(ui) /\ HistoryAlive(ui)
  <1> DEFINE u == History!get(History!constructor, "hetuMetastoreType", History!NoString)
             v == [u EXCEPT !.timer = FALSE]
  <1>1. ui = History!refreshData(v)
    BY DEF History!Init, History!componentDidMount, History!refreshLoop
  <1>2. HistoryType(History!constructor)
    <2>1. PastFields \cup {"numsFailed"} \subseteq DOMAIN History!constructor
          /\ History!constructor.requests = <<>>
      BY Zenon DEF PastFields, History!constructor
    <2>2. <<>> \in Seq({})
      OBVIOUS
    <2> QED
      BY <2>1, <2>2 DEF HistoryType, IsSequence
  <1>3. HistoryType(u)
    BY <1>2, HistoryGets
  <1> HIDE DEF u
  <1>4. HistoryType(v)
    BY <1>3, Zenon DEF HistoryType, PastFields
  <1> QED
    BY <1>1, <1>4, HistorySends

\* Every step of the history page leaves it a request or a timer, unless its count failed.
LEMMA HistoryStep ==
    ASSUME HistoryType(ui), HistoryAlive(ui), History!Next
    PROVE  HistoryType(ui') /\ HistoryAlive(ui')
  <1> USE DEF History!Next
  <1> DEFINE Same == SamePast(ui, ui') /\ "numsFailed" \in DOMAIN ui' /\ ui'.numsFailed = ui.numsFailed
  <1>1. ASSUME Same PROVE HistoryType(ui') /\ HistoryAlive(ui')
    BY <1>1 DEF SamePast, HistoryType, HistoryAlive
  <1>2. CASE History!User
    <2> USE DEF HistoryType, SamePast, PastFields, History!clicked, History!defer
    <2>1. ASSUME NEW filter, History!handleStateFilterClick(filter) PROVE Same
      BY <2>1, Zenon DEF History!handleStateFilterClick
    <2>2. ASSUME NEW type, History!handleErrorTypeFilterClick(type) PROVE Same
      BY <2>2, Zenon DEF History!handleErrorTypeFilterClick
    <2>3. ASSUME NEW type, History!handleSortClick(type) PROVE Same
      BY <2>3, Zenon DEF History!handleSortClick
    <2>4. ASSUME NEW field, NEW text, History!handleSearchStringChange(field, text) PROVE Same
      BY <2>4, Zenon DEF History!handleSearchStringChange
    <2>5. ASSUME NEW text, History!datePicked(text) PROVE Same
      BY <2>5, Zenon DEF History!datePicked
    <2>6. ASSUME NEW page, History!onPageChange(page) PROVE Same
      BY <2>6, Zenon DEF History!onPageChange
    <2>7. ASSUME NEW size, History!onPageSizeChange(size) PROVE Same
      BY <2>7, Zenon DEF History!onPageSizeChange
    <2>8. Same
      BY <1>2, <2>1, <2>2, <2>3, <2>4, <2>5, <2>6, <2>7, Zenon DEF History!User
    <2> QED
      BY <1>1, <2>8
  <1>3. CASE History!TimerFires
    <2>1. HistoryType([ui EXCEPT !.timer = FALSE])
      BY Zenon DEF HistoryType, PastFields
    <2> QED
      BY <1>3, <2>1, HistorySends, Zenon DEF History!TimerFires, History!refreshLoop
  <1>4. CASE History!DebounceFires
    <2>1. Same
      BY <1>4, Zenon DEF History!DebounceFires, History!defer, HistoryType, SamePast, PastFields
    <2> QED
      BY <1>1, <2>1
  <1>5. CASE History!DeferredRefresh
    <2>1. HistoryType([ui EXCEPT !.deferred = @ - 1])
      BY Zenon DEF HistoryType, PastFields
    <2> QED
      BY <1>5, <2>1, HistorySends, Zenon DEF History!DeferredRefresh
  <1>6. ASSUME NEW i \in DOMAIN ui.requests, History!AnswerArrives(i) \/ History!RequestFails(i)
        PROVE  HistoryType(ui') /\ HistoryAlive(ui')
    <2> DEFINE a == History!answered(ui, i)
    <2>1. HistoryType(a)
      <3>1. PastFields \cup {"numsFailed"} \subseteq DOMAIN a
            /\ a.requests = History!RemoveAt(ui.requests, i)
        BY Zenon DEF HistoryType, PastFields, History!answered
      <3> HIDE DEF a
      <3> QED
        BY <3>1, Cut, RemovesAt DEF HistoryType
    <2>2. ASSUME NEW u, HistoryType(u)
          PROVE  HistoryType(History!resetTimer(u)) /\ HistoryAlive(History!resetTimer(u))
      BY <2>2, Zenon DEF HistoryType, HistoryAlive, PastFields, History!resetTimer
    <2>3. ASSUME NEW num, History!queryNumsArrives(i, num)
          PROVE  HistoryType(ui') /\ HistoryAlive(ui')
      <3> DEFINE u == [a EXCEPT !.queryNums = num]
      <3>1. HistoryType(u)
        BY <2>1, Zenon DEF HistoryType, PastFields
      <3>2. ui' = History!resetTimer(IF ui.queryNums # num
                                     THEN History!get(u, "queryInfo", ui.requests[i].params) ELSE u)
        BY <2>3, Zenon DEF History!queryNumsArrives
      <3> HIDE DEF u
      <3> QED
        BY <2>2, <3>1, <3>2, HistoryGets, Zenon
    <2>4. ASSUME NEW num, History!queryInfoArrives(i, num)
          PROVE  HistoryType(ui') /\ HistoryAlive(ui')
      <3> DEFINE u == [a EXCEPT !.shown = {[for |-> ui.requests[i].params, num |-> num]}]
      <3>1. HistoryType(u)
        BY <2>1, Zenon DEF HistoryType, PastFields
      <3>2. ui' = History!resetTimer(u)
        BY <2>4, Zenon DEF History!queryInfoArrives
      <3> HIDE DEF u
      <3> QED
        BY <2>2, <3>1, <3>2
    <2>5. ASSUME History!metastoreTypeArrives(i)
          PROVE  HistoryType(ui') /\ HistoryAlive(ui')
      BY <2>1, <2>2, <2>5, Zenon DEF History!metastoreTypeArrives
    <2>6. ASSUME History!RequestFails(i)
          PROVE  HistoryType(ui') /\ HistoryAlive(ui')
      <3> DEFINE nums == [a EXCEPT !.numsFailed = TRUE]
                 info == [a EXCEPT !.infoFailed = @ \/ ui.requests[i].kind = "queryInfo"]
      <3>1. HistoryType(nums) /\ HistoryAlive(nums) /\ HistoryType(info)
        BY <2>1, Zenon DEF HistoryType, HistoryAlive, PastFields
      <3>2. ui' = nums \/ ui' = History!resetTimer(info)
        BY <2>6, Zenon DEF History!RequestFails
      <3> HIDE DEF nums, info
      <3> QED
        BY <2>2, <3>1, <3>2
    <2> QED
      BY <1>6, <2>3, <2>4, <2>5, <2>6, Zenon DEF History!AnswerArrives
  <1>7. CASE History!QueryFinishes
    BY <1>7 DEF History!QueryFinishes, HistoryType, HistoryAlive
  <1> QED
    BY <1>2, <1>3, <1>4, <1>5, <1>6, <1>7, Zenon DEF History!Browser

-----------------------------------------------------------------------------
(* The query history: what it shows when it is at rest.  As long as answers come in order,  *)
(* the last request for the list that is on its way was sent for the present queryString    *)
(* and no earlier than the number queryNums; when none is on its way, the list on the       *)
(* screen is the answer to such a request.                                                  *)

AllNums(rs, q) == \A i \in DOMAIN rs : rs[i].kind = "queryNums" => rs[i].params = q

NoInfoAfter(rs, i) == \A j \in DOMAIN rs : j > i => rs[j].kind # "queryInfo"

Fetched(rs, shown, q, n) ==
    \/ \E i \in DOMAIN rs : /\ rs[i].kind = "queryInfo" /\ rs[i].params = q /\ rs[i].since >= n
                            /\ NoInfoAfter(rs, i)
    \/ NoInfoAfter(rs, 0) /\ \E answer \in shown : answer.for = q /\ answer.num >= n

Sinces(rs, s) == \A i \in DOMAIN rs : rs[i].since \in 0..s

\* One more request for the count, with the same query.
LEMMA NumsAppended ==
    ASSUME NEW rs, IsSequence(rs), NEW e, NEW q, AllNums(rs, q),
           e.kind = "queryNums" => e.params = q
    PROVE  AllNums(Append(rs, e), q)
  <1> DEFINE t == Append(rs, e)
  <1>1. /\ Len(rs) \in Nat /\ DOMAIN rs = 1..Len(rs) /\ DOMAIN t = 1..(Len(rs) + 1)
        /\ t[Len(rs) + 1] = e /\ \A i \in 1..Len(rs) : t[i] = rs[i]
    BY Appended
  <1> HIDE DEF t
  <1>2. ASSUME NEW i \in DOMAIN t, t[i].kind = "queryNums" PROVE t[i].params = q
    <2>1. CASE i = Len(rs) + 1
      BY <1>1, <1>2, <2>1
    <2>2. CASE i # Len(rs) + 1
      <3>1. i \in 1..Len(rs)
        BY <1>1, <2>2
      <3> QED
        BY <1>1, <1>2, <3>1 DEF AllNums
    <2> QED
      BY <2>1, <2>2
  <1> QED
    BY <1>2 DEF AllNums, t

\* One request for the count answered.
LEMMA NumsCut ==
    ASSUME NEW rs, IsSequence(rs), NEW i \in DOMAIN rs, NEW q, AllNums(rs, q)
    PROVE  AllNums(cut(rs, i), q)
  <1> DEFINE t == cut(rs, i)
             n == Len(rs)
  <1>1. /\ n \in Nat /\ DOMAIN rs = 1..n /\ DOMAIN t = 1..(n - 1)
        /\ \A j \in 1..(n - 1) : t[j] = IF j < i THEN rs[j] ELSE rs[j + 1]
    BY Cut, Zenon
  <1> HIDE DEF t, n
  <1>2. ASSUME NEW j \in DOMAIN t PROVE \E k \in DOMAIN rs : t[j] = rs[k]
    <2>1. j \in DOMAIN rs /\ j + 1 \in DOMAIN rs
      BY <1>1
    <2> QED
      BY <1>1, <2>1
  <1> QED
    BY <1>2 DEF AllNums, t

\* One more request, sent in the present.
LEMMA SincesAppended ==
    ASSUME NEW rs, IsSequence(rs), NEW e, NEW s, Sinces(rs, s), e.since \in 0..s
    PROVE  Sinces(Append(rs, e), s)
  <1> DEFINE t == Append(rs, e)
  <1>1. /\ Len(rs) \in Nat /\ DOMAIN rs = 1..Len(rs) /\ DOMAIN t = 1..(Len(rs) + 1)
        /\ t[Len(rs) + 1] = e /\ \A i \in 1..Len(rs) : t[i] = rs[i]
    BY Appended
  <1> HIDE DEF t
  <1>2. ASSUME NEW i \in DOMAIN t PROVE t[i].since \in 0..s
    <2>1. CASE i = Len(rs) + 1
      BY <1>1, <1>2, <2>1
    <2>2. CASE i # Len(rs) + 1
      <3>1. i \in 1..Len(rs)
        BY <1>1, <2>2
      <3> QED
        BY <1>1, <1>2, <3>1 DEF Sinces
    <2> QED
      BY <2>1, <2>2
  <1> QED
    BY <1>2 DEF Sinces, t

\* One request answered.
LEMMA SincesCut ==
    ASSUME NEW rs, IsSequence(rs), NEW i \in DOMAIN rs, NEW s, Sinces(rs, s)
    PROVE  Sinces(cut(rs, i), s)
  <1> DEFINE t == cut(rs, i)
             n == Len(rs)
  <1>1. /\ n \in Nat /\ DOMAIN rs = 1..n /\ DOMAIN t = 1..(n - 1)
        /\ \A j \in 1..(n - 1) : t[j] = IF j < i THEN rs[j] ELSE rs[j + 1]
    BY Cut, Zenon
  <1> HIDE DEF t, n
  <1>2. ASSUME NEW j \in DOMAIN t PROVE \E k \in DOMAIN rs : t[j] = rs[k]
    <2>1. j \in DOMAIN rs /\ j + 1 \in DOMAIN rs
      BY <1>1
    <2> QED
      BY <1>1, <2>1
  <1> QED
    BY <1>2 DEF Sinces, t

\* A request of another kind changes nothing about the list.
LEMMA FetchedWithOther ==
    ASSUME NEW rs, IsSequence(rs), NEW e, e.kind # "queryInfo",
           NEW shown, NEW q, NEW n, Fetched(rs, shown, q, n)
    PROVE  Fetched(Append(rs, e), shown, q, n)
  <1> DEFINE t == Append(rs, e)
  <1>1. /\ Len(rs) \in Nat /\ DOMAIN rs = 1..Len(rs) /\ DOMAIN t = 1..(Len(rs) + 1)
        /\ t[Len(rs) + 1] = e /\ \A i \in 1..Len(rs) : t[i] = rs[i]
    BY Appended
  <1> HIDE DEF t
  <1>2. ASSUME NEW i, NoInfoAfter(rs, i) PROVE NoInfoAfter(t, i)
    <2> SUFFICES ASSUME NEW j \in DOMAIN t, j > i PROVE t[j].kind # "queryInfo"
      BY DEF NoInfoAfter
    <2>1. CASE j = Len(rs) + 1
      BY <1>1, <2>1
    <2>2. CASE j # Len(rs) + 1
      <3>1. j \in 1..Len(rs)
        BY <1>1, <2>2
      <3> QED
        BY <1>1, <1>2, <3>1 DEF NoInfoAfter
    <2> QED
      BY <2>1, <2>2
  <1>3. ASSUME NEW i \in DOMAIN rs PROVE i \in DOMAIN t /\ t[i] = rs[i]
    BY <1>1
  <1>4. Fetched(t, shown, q, n)
    BY <1>2, <1>3, Zenon DEF Fetched
  <1> QED
    BY <1>4 DEF t

\* A request for the list that is sent for q and not before n is the last one.
LEMMA FetchedWithInfo ==
    ASSUME NEW rs, IsSequence(rs), NEW shown, NEW q, NEW n,
           NEW e, e.kind = "queryInfo", e.params = q, e.since >= n
    PROVE  Fetched(Append(rs, e), shown, q, n)
  <1> DEFINE t == Append(rs, e)
             k == Len(rs) + 1
  <1>1. Len(rs) \in Nat /\ DOMAIN t = 1..k /\ t[k] = e
    BY Appended
  <1> HIDE DEF t
  <1>2. k \in DOMAIN t /\ \A j \in DOMAIN t : ~(j > k)
    BY <1>1
  <1> HIDE DEF k
  <1>3. Fetched(t, shown, q, n)
    BY <1>1, <1>2, Zenon DEF Fetched, NoInfoAfter
  <1> QED
    BY <1>3 DEF t

\* The first request, answered: one of another kind changes nothing about the list, and
\* one for the list puts it on the screen.
LEMMA FetchedFirst ==
    ASSUME NEW rs, IsSequence(rs), 1 \in DOMAIN rs, NEW s \in Nat, Sinces(rs, s),
           NEW shown, NEW q, NEW n \in Int, Fetched(rs, shown, q, n)
    PROVE  /\ rs[1].kind # "queryInfo" => Fetched(cut(rs, 1), shown, q, n)
           /\ rs[1].kind = "queryInfo" =>
                \A num \in rs[1].since..s :
                    Fetched(cut(rs, 1), {[for |-> rs[1].params, num |-> num]}, q, n)
  <1> DEFINE t == cut(rs, 1)
             k == Len(rs)
  <1>1. /\ k \in Nat /\ DOMAIN rs = 1..k /\ DOMAIN t = 1..(k - 1)
        /\ \A j \in 1..(k - 1) : t[j] = IF j < 1 THEN rs[j] ELSE rs[j + 1]
    BY Cut, Zenon
  <1> HIDE DEF t, k
  <1>2. \A j \in DOMAIN t : j \in Int /\ j > 0 /\ j + 1 \in DOMAIN rs /\ t[j] = rs[j + 1]
    BY <1>1
  <1>3. ASSUME NEW i \in DOMAIN rs, NoInfoAfter(rs, i) PROVE NoInfoAfter(t, i - 1)
    <2> SUFFICES ASSUME NEW j \in DOMAIN t, j > i - 1 PROVE t[j].kind # "queryInfo"
      BY DEF NoInfoAfter
    <2>1. j + 1 > i /\ j + 1 \in DOMAIN rs /\ t[j] = rs[j + 1]
      BY <1>1, <1>2
    <2> QED
      BY <1>3, <2>1 DEF NoInfoAfter
  <1>4. ASSUME NoInfoAfter(rs, 0) PROVE NoInfoAfter(t, 0) /\ rs[1].kind # "queryInfo"
    <2> SUFFICES ASSUME NEW j \in DOMAIN t, j > 0 PROVE t[j].kind # "queryInfo" /\ rs[1].kind # "queryInfo"
      BY <1>4 DEF NoInfoAfter
    <2>1. j + 1 > 0 /\ j + 1 \in DOMAIN rs /\ t[j] = rs[j + 1]
      BY <1>1, <1>2
    <2> QED
      BY <1>4, <2>1 DEF NoInfoAfter
  <1>5. ASSUME NEW i \in DOMAIN rs, i # 1, rs[i].kind = "queryInfo", rs[i].params = q, rs[i].since >= n,
               NoInfoAfter(rs, i), NEW list
        PROVE  Fetched(t, list, q, n)
    <2>1. i - 1 \in DOMAIN t /\ (i - 1) + 1 = i
      BY <1>1, <1>5
    <2>2. t[i - 1] = rs[i]
      BY <1>2, <2>1
    <2>3. NoInfoAfter(t, i - 1)
      BY <1>3, <1>5
    <2> QED
      BY <1>5, <2>1, <2>2, <2>3 DEF Fetched
  <1>6. ASSUME rs[1].kind = "queryInfo", rs[1].params = q, rs[1].since >= n, NoInfoAfter(rs, 1),
               NEW num \in rs[1].since..s
        PROVE  Fetched(t, {[for |-> rs[1].params, num |-> num]}, q, n)
    <2>1. NoInfoAfter(t, 0)
      BY <1>3, <1>6
    <2>2. num >= n
      BY <1>6 DEF Sinces
    <2> DEFINE answer == [for |-> rs[1].params, num |-> num]
    <2>3. answer.for = q /\ answer.num = num
      BY <1>6, Zenon
    <2> HIDE DEF answer
    <2>4. \E a \in {answer} : a.for = q /\ a.num >= n
      BY <2>2, <2>3
    <2> QED
      BY <2>1, <2>4 DEF Fetched, answer
  <1>7. ASSUME rs[1].kind # "queryInfo" PROVE Fetched(t, shown, q, n)
    <2>1. CASE NoInfoAfter(rs, 0) /\ \E answer \in shown : answer.for = q /\ answer.num >= n
      BY <1>4, <2>1 DEF Fetched
    <2>2. CASE \E i \in DOMAIN rs : /\ rs[i].kind = "queryInfo" /\ rs[i].params = q /\ rs[i].since >= n
                                    /\ NoInfoAfter(rs, i)
      BY <1>5, <1>7, <2>2
    <2> QED
      BY <2>1, <2>2 DEF Fetched
  <1>8. ASSUME rs[1].kind = "queryInfo", NEW num \in rs[1].since..s
        PROVE  Fetched(t, {[for |-> rs[1].params, num |-> num]}, q, n)
    <2>1. PICK i \in DOMAIN rs : /\ rs[i].kind = "queryInfo" /\ rs[i].params = q /\ rs[i].since >= n
                                 /\ NoInfoAfter(rs, i)
      BY <1>4, <1>8 DEF Fetched
    <2>2. CASE i = 1
      BY <1>6, <1>8, <2>1, <2>2
    <2>3. CASE i # 1
      BY <1>5, <2>1, <2>3
    <2> QED
      BY <2>2, <2>3
  <1> QED
    BY <1>7, <1>8 DEF t

ParamFields == {"stateFilters", "errorTypeFilters", "currentSortType", "currentSortOrder",
                "search", "currentPage", "pageSize"}
FreshFields == {"requests", "queryString", "queryNums", "shown", "deferred", "debounce",
                "overtaken", "numsFailed", "infoFailed", "crossed"}

InOrder(u) == ~(u.overtaken \/ u.numsFailed \/ u.infoFailed \/ u.crossed)

HistoryKnows(u, s) ==
    /\ ParamFields \cup FreshFields \subseteq DOMAIN u
    /\ IsSequence(u.requests) /\ Sinces(u.requests, s)
    /\ s \in Nat /\ u.queryNums \in Int /\ u.queryNums <= s
    /\ u.deferred \in Nat

WillRefresh(u) == u.deferred > 0 \/ u.debounce

HistoryFresh(u, s) ==
    /\ HistoryKnows(u, s)
    /\ InOrder(u) => /\ AllNums(u.requests, u.queryString)
                     /\ Fetched(u.requests, u.shown, u.queryString, u.queryNums)
    /\ History!queryParam(u) = u.queryString \/ WillRefresh(u)

\* What the user does leaves the requests and the list alone, and will refresh them.
LEMMA HistoryClicked ==
    ASSUME NEW u, NEW v, NEW s, HistoryFresh(u, s), ParamFields \cup FreshFields \subseteq DOMAIN v,
           \A f \in FreshFields \ {"deferred", "debounce"} : v[f] = u[f],
           v.deferred \in Nat, WillRefresh(v)
    PROVE  HistoryFresh(v, s)
  <1>1. /\ v.requests = u.requests /\ v.queryString = u.queryString /\ v.queryNums = u.queryNums
        /\ v.shown = u.shown /\ v.overtaken = u.overtaken /\ v.numsFailed = u.numsFailed
        /\ v.infoFailed = u.infoFailed /\ v.crossed = u.crossed
    BY Zenon DEF FreshFields
  <1>2. HistoryKnows(v, s)
    BY <1>1, Zenon DEF HistoryFresh, HistoryKnows
  <1>3. InOrder(v) => InOrder(u)
    BY <1>1, Zenon DEF InOrder
  <1> QED
    BY <1>1, <1>2, <1>3, Zenon DEF HistoryFresh

\* refreshData sends what a page that is behind still needs.
LEMMA HistoryRefreshed ==
    ASSUME NEW u, HistoryKnows(u, server),
           InOrder(u) /\ History!queryParam(u) = u.queryString =>
               Fetched(u.requests, u.shown, u.queryString, u.queryNums)
    PROVE  HistoryFresh(History!refreshData(u), server)
  <1> DEFINE q == History!queryParam(u)
             e == [kind |-> "queryNums", params |-> q, since |-> server]
             f == [kind |-> "queryInfo", params |-> q, since |-> server]
             r == Append(u.requests, e)
             v == History!refreshData(u)
  <1>1. /\ ParamFields \cup FreshFields \subseteq DOMAIN v
        /\ v.requests = IF q # u.queryString THEN Append(r, f) ELSE r
        /\ v.queryString = q /\ v.queryNums = u.queryNums /\ v.shown = u.shown
        /\ v.deferred = u.deferred
        /\ InOrder(v) => InOrder(u) /\ ~History!isAsked(u, q)
        /\ \A field \in ParamFields : v[field] = u[field]
    <2>1. CASE q # u.queryString
      <3>1. v = [[[u EXCEPT !.requests = Append(@, e)] EXCEPT !.requests = Append(@, f)]
                    EXCEPT !.queryString = q, !.crossed = @ \/ History!isAsked(u, q)]
        BY <2>1, Zenon DEF History!refreshData, History!get
      <3> HIDE DEF v, q, e, f
      <3> QED
        BY <2>1, <3>1, Zenon DEF HistoryKnows, ParamFields, FreshFields, InOrder
    <2>2. CASE q = u.queryString
      <3>1. v = [[u EXCEPT !.requests = Append(@, e)]
                    EXCEPT !.queryString = q, !.crossed = @ \/ History!isAsked(u, q)]
        BY <2>2, Zenon DEF History!refreshData, History!get
      <3> HIDE DEF v, q, e, f
      <3> QED
        BY <2>2, <3>1, Zenon DEF HistoryKnows, ParamFields, FreshFields, InOrder
    <2> QED
      BY <2>1, <2>2
  <1>2. /\ e.kind = "queryNums" /\ e.params = q /\ e.since = server
        /\ f.kind = "queryInfo" /\ f.params = q /\ f.since = server
    BY Zenon
  <1>3. History!queryParam(v) = q
    BY <1>1, Zenon DEF History!queryParam, ParamFields
  <1>4. ASSUME ~History!isAsked(u, q) PROVE AllNums(u.requests, q)
    BY <1>4, Zenon DEF History!isAsked, AllNums
  <1> HIDE DEF v, q, e, f
  <1>5. IsSequence(u.requests) /\ Sinces(u.requests, server) /\ server \in 0..server
        /\ server \in Nat /\ u.queryNums \in Int /\ server >= u.queryNums
    BY DEF HistoryKnows
  <1>6. IsSequence(r) /\ Sinces(r, server)
    BY <1>2, <1>5, Appended, SincesAppended
  <1> HIDE DEF r
  <1>7. IsSequence(v.requests) /\ Sinces(v.requests, server)
    <2>1. f.since \in 0..server
      BY <1>2, <1>5
    <2>2. IsSequence(Append(r, f)) /\ Sinces(Append(r, f), server)
      BY <1>6, <2>1, Appended, SincesAppended, Zenon
    <2> QED
      BY <1>1, <1>6, <2>2, Zenon
  <1>8. HistoryKnows(v, server)
    BY <1>1, <1>7, Zenon DEF HistoryKnows
  <1>9. ASSUME InOrder(v) PROVE AllNums(v.requests, q) /\ Fetched(v.requests, v.shown, q, v.queryNums)
    <2>1. AllNums(u.requests, q) /\ InOrder(u)
      BY <1>1, <1>4, <1>9
    <2>2. AllNums(r, q)
      BY <1>2, <1>5, <2>1, NumsAppended DEF r
    <2>3. CASE q # u.queryString
      <3>1. AllNums(Append(r, f), q)
        BY <1>2, <1>6, <2>2, NumsAppended
      <3>2. Fetched(Append(r, f), u.shown, q, u.queryNums)
        BY <1>2, <1>5, <1>6, FetchedWithInfo
      <3> QED
        BY <1>1, <2>3, <3>1, <3>2, Zenon
    <2>4. CASE q = u.queryString
      <3>1. Fetched(u.requests, u.shown, q, u.queryNums)
        BY <2>1, <2>4, Zenon DEF q
      <3>2. Fetched(r, u.shown, q, u.queryNums)
        BY <1>2, <1>5, <3>1, FetchedWithOther DEF r
      <3> QED
        BY <1>1, <2>2, <2>4, <3>2, Zenon
    <2> QED
      BY <2>3, <2>4
  <1> QED
    BY <1>1, <1>3, <1>8, <1>9, Zenon DEF HistoryFresh, v

\* At the start the first request brings what the page lacks.
LEMMA HistoryStartFresh == ASSUME History!Init PROVE HistoryFresh(ui, server)
  <1> DEFINE e == [kind |-> "hetuMetastoreType", params |-> History!NoString, since |-> server]
             u == [[History!constructor EXCEPT !.requests = Append(@, e)] EXCEPT !.timer = FALSE]
  <1>1. ui = History!refreshData(u) /\ server = 0
    BY Zenon DEF History!Init, History!componentDidMount, History!refreshLoop, History!get
  <1>2. /\ ParamFields \cup FreshFields \subseteq DOMAIN u
        /\ u.requests = Append(<<>>, e) /\ u.queryNums = -1 /\ u.deferred = 0
        /\ u.queryString = <<>>
    <2>1. u.requests = Append(<<>>, e)
      BY Zenon DEF History!constructor
    <2>2. u.queryNums = -1 /\ u.deferred = 0
      BY Zenon DEF History!constructor
    <2>3. u.queryString = <<>>
      BY Zenon DEF History!constructor, History!NoString
    <2>4. DOMAIN u = DOMAIN History!constructor
      BY Zenon
    <2>5. ParamFields \subseteq DOMAIN History!constructor
      BY Zenon DEF ParamFields, History!constructor
    <2>6. FreshFields \subseteq DOMAIN History!constructor
      BY Zenon DEF FreshFields, History!constructor
    <2> QED
      BY <2>1, <2>2, <2>3, <2>4, <2>5, <2>6, Zenon
  <1>3. e.since = server
    BY Zenon
  <1> HIDE DEF u, e
  <1>4. IsSequence(u.requests) /\ Sinces(u.requests, server)
    <2>1. <<>> \in Seq({}) /\ DOMAIN <<>> = {}
      OBVIOUS
    <2>2. IsSequence(<<>>) /\ Sinces(<<>>, server)
      BY <2>1 DEF IsSequence, Sinces
    <2>3. e.since \in 0..server
      BY <1>1, <1>3
    <2> QED
      <3>1. IsSequence(Append(<<>>, e))
        BY <2>2, Appended, Zenon
      <3>2. Sinces(Append(<<>>, e), server)
        BY <2>2, <2>3, SincesAppended, Zenon
      <3> QED
        BY <1>2, <3>1, <3>2
  <1>5. HistoryKnows(u, server)
    BY <1>1, <1>2, <1>4 DEF HistoryKnows
  <1>6. History!queryParam(u) # u.queryString
    <2>1. ASSUME NEW a, NEW b, NEW c, NEW d, NEW x, NEW y, NEW z PROVE <<a, b, c, d, x, y, z>> # <<>>
      OBVIOUS
    <2> QED
      BY <1>2, <2>1 DEF History!queryParam
  <1> QED
    BY <1>1, <1>5, <1>6, HistoryRefreshed, Zenon

\* The answer to the request that was sent first; any other overtakes it.
LEMMA HistoryAnswered ==
    ASSUME HistoryFresh(ui, server), NEW i \in DOMAIN ui.requests,
           NEW v, v = History!answered(ui, i)
    PROVE  /\ ParamFields \cup FreshFields \subseteq DOMAIN v
           /\ v.requests = cut(ui.requests, i)
           /\ \A f \in (ParamFields \cup FreshFields) \ {"requests", "overtaken"} : v[f] = ui[f]
           /\ History!queryParam(v) = History!queryParam(ui)
           /\ InOrder(v) => InOrder(ui) /\ i = 1
           /\ IsSequence(v.requests) /\ Sinces(v.requests, server)
  <1>0. /\ ParamFields \cup FreshFields \subseteq DOMAIN ui
        /\ IsSequence(ui.requests) /\ Sinces(ui.requests, server)
    BY DEF HistoryFresh, HistoryKnows
  <1>1. /\ ParamFields \cup FreshFields \subseteq DOMAIN v
        /\ v.requests = cut(ui.requests, i)
        /\ v.overtaken = (ui.overtaken \/ i > 1)
        /\ \A f \in (ParamFields \cup FreshFields) \ {"requests", "overtaken"} : v[f] = ui[f]
    BY <1>0, RemovesAt, Zenon DEF ParamFields, FreshFields, History!answered
  <1>2. History!queryParam(v) = History!queryParam(ui)
    BY <1>1, Zenon DEF History!queryParam, ParamFields, FreshFields
  <1>3. i = 1 \/ i > 1
    BY <1>0, Cut
  <1>4. InOrder(v) => InOrder(ui) /\ i = 1
    <2>1. v.numsFailed = ui.numsFailed /\ v.infoFailed = ui.infoFailed /\ v.crossed = ui.crossed
      BY <1>1, Zenon DEF ParamFields, FreshFields
    <2> QED
      BY <1>1, <1>3, <2>1, Zenon DEF InOrder
  <1>5. IsSequence(v.requests) /\ Sinces(v.requests, server)
    <2>1. IsSequence(cut(ui.requests, i))
      BY <1>0, Cut
    <2>2. Sinces(cut(ui.requests, i), server)
      BY <1>0, SincesCut
    <2> QED
      BY <1>1, <2>1, <2>2
  <1> QED
    BY <1>1, <1>2, <1>4, <1>5

\* Every step keeps the page fresh or a request under way that makes it so.
LEMMA HistoryStepFresh ==
    ASSUME HistoryFresh(ui, server), History!Next
    PROVE  HistoryFresh(ui', server')
  <1> USE DEF History!Next
  <1>0. /\ ParamFields \cup FreshFields \subseteq DOMAIN ui
        /\ IsSequence(ui.requests) /\ Sinces(ui.requests, server)
        /\ server \in Nat /\ ui.queryNums \in Int /\ ui.queryNums <= server
        /\ ui.deferred \in Nat
        /\ InOrder(ui) => /\ AllNums(ui.requests, ui.queryString)
                          /\ Fetched(ui.requests, ui.shown, ui.queryString, ui.queryNums)
        /\ History!queryParam(ui) = ui.queryString \/ WillRefresh(ui)
    BY DEF HistoryFresh, HistoryKnows
  <1>1. CASE History!User
    <2> DEFINE Clicked == /\ ParamFields \cup FreshFields \subseteq DOMAIN ui'
                          /\ \A f \in FreshFields \ {"deferred", "debounce"} : ui'[f] = ui[f]
                          /\ \/ ui'.deferred = ui.deferred + 1
                             \/ ui'.deferred = ui.deferred /\ ui'.debounce = TRUE
                          /\ UNCHANGED server
    <2>1. Clicked
      <3> USE <1>0 DEF ParamFields, FreshFields, History!clicked, History!defer
      <3>1. ASSUME NEW filter, History!handleStateFilterClick(filter) PROVE Clicked
        BY <3>1, Zenon DEF History!handleStateFilterClick
      <3>2. ASSUME NEW type, History!handleErrorTypeFilterClick(type) PROVE Clicked
        BY <3>2, Zenon DEF History!handleErrorTypeFilterClick
      <3>3. ASSUME NEW type, History!handleSortClick(type) PROVE Clicked
        BY <3>3, Zenon DEF History!handleSortClick
      <3>4. ASSUME NEW field, NEW text, History!handleSearchStringChange(field, text) PROVE Clicked
        BY <3>4, Zenon DEF History!handleSearchStringChange
      <3>5. ASSUME NEW text, History!datePicked(text) PROVE Clicked
        BY <3>5, Zenon DEF History!datePicked
      <3>6. ASSUME NEW page, History!onPageChange(page) PROVE Clicked
        BY <3>6, Zenon DEF History!onPageChange
      <3>7. ASSUME NEW size, History!onPageSizeChange(size) PROVE Clicked
        BY <3>7, Zenon DEF History!onPageSizeChange
      <3> QED
        BY <1>1, <3>1, <3>2, <3>3, <3>4, <3>5, <3>6, <3>7, Zenon DEF History!User
    <2>2. ui'.deferred \in Nat /\ (ui'.deferred > 0 \/ ui'.debounce = TRUE)
      BY <1>0, <2>1
    <2>3. WillRefresh(ui')
      BY <2>2, Zenon DEF WillRefresh
    <2> QED
      BY <2>1, <2>2, <2>3, HistoryClicked, Zenon
  <1>2. CASE History!DebounceFires
    <2>1. /\ ParamFields \cup FreshFields \subseteq DOMAIN ui'
          /\ \A f \in FreshFields \ {"deferred", "debounce"} : ui'[f] = ui[f]
          /\ ui'.deferred = ui.deferred + 1 /\ UNCHANGED server
      BY <1>0, <1>2, Zenon DEF ParamFields, FreshFields, History!DebounceFires, History!defer
    <2>2. ui'.deferred \in Nat /\ ui'.deferred > 0
      BY <1>0, <2>1
    <2>3. WillRefresh(ui')
      BY <2>2, Zenon DEF WillRefresh
    <2> QED
      BY <2>1, <2>2, <2>3, HistoryClicked, Zenon
  <1>3. CASE History!TimerFires \/ History!DeferredRefresh
    <2>1. PICK u : /\ ui' = History!refreshData(u) /\ ParamFields \cup FreshFields \subseteq DOMAIN u
                   /\ \A f \in (ParamFields \cup FreshFields) \ {"deferred"} : u[f] = ui[f]
                   /\ u.deferred \in Nat /\ UNCHANGED server
      <3>1. CASE History!TimerFires
        <4> DEFINE u == [ui EXCEPT !.timer = FALSE]
        <4>1. /\ ui' = History!refreshData(u) /\ ParamFields \cup FreshFields \subseteq DOMAIN u
              /\ \A f \in (ParamFields \cup FreshFields) \ {"deferred"} : u[f] = ui[f]
              /\ u.deferred = ui.deferred /\ UNCHANGED server
          BY <1>0, <3>1, Zenon DEF ParamFields, FreshFields, History!TimerFires, History!refreshLoop
        <4> QED
          BY <1>0, <4>1, Zenon
      <3>2. CASE History!DeferredRefresh
        <4> DEFINE u == [ui EXCEPT !.deferred = @ - 1]
        <4>1. /\ ui' = History!refreshData(u) /\ ParamFields \cup FreshFields \subseteq DOMAIN u
              /\ \A f \in (ParamFields \cup FreshFields) \ {"deferred"} : u[f] = ui[f]
              /\ u.deferred = ui.deferred - 1 /\ ui.deferred > 0 /\ UNCHANGED server
          BY <1>0, <3>2, Zenon DEF ParamFields, FreshFields, History!DeferredRefresh
        <4> HIDE DEF u
        <4>2. u.deferred \in Nat
          BY <1>0, <4>1
        <4> QED
          BY <4>1, <4>2, Zenon
      <3> QED
        BY <1>3, <3>1, <3>2
    <2>2. /\ u.requests = ui.requests /\ u.queryString = ui.queryString
          /\ u.queryNums = ui.queryNums /\ u.shown = ui.shown
          /\ u.overtaken = ui.overtaken /\ u.numsFailed = ui.numsFailed
          /\ u.infoFailed = ui.infoFailed /\ u.crossed = ui.crossed
      BY <2>1, Zenon DEF ParamFields, FreshFields
    <2>3. HistoryKnows(u, server) /\ (InOrder(u) => InOrder(ui))
      BY <1>0, <2>1, <2>2, Zenon DEF HistoryKnows, InOrder
    <2>4. HistoryFresh(ui', server)
      BY <1>0, <2>1, <2>2, <2>3, HistoryRefreshed, Zenon
    <2> QED
      BY <2>1, <2>4
  <1>4. ASSUME NEW i \in DOMAIN ui.requests, History!AnswerArrives(i) \/ History!RequestFails(i)
        PROVE  HistoryFresh(ui', server')
    <2> DEFINE v == History!answered(ui, i)
               rest == cut(ui.requests, i)
    <2>1. /\ ParamFields \cup FreshFields \subseteq DOMAIN v
          /\ v.requests = rest
          /\ \A f \in (ParamFields \cup FreshFields) \ {"requests", "overtaken"} : v[f] = ui[f]
          /\ History!queryParam(v) = History!queryParam(ui)
          /\ InOrder(v) => InOrder(ui) /\ i = 1
          /\ IsSequence(v.requests) /\ Sinces(v.requests, server)
      BY HistoryAnswered, Zenon
    <2>2. /\ v.queryString = ui.queryString /\ v.queryNums = ui.queryNums /\ v.shown = ui.shown
          /\ v.deferred = ui.deferred /\ v.debounce = ui.debounce
          /\ v.numsFailed = ui.numsFailed /\ v.infoFailed = ui.infoFailed /\ v.crossed = ui.crossed
      BY <2>1, Zenon DEF ParamFields, FreshFields
    <2> HIDE DEF v
    <2>3. InOrder(v) => /\ AllNums(rest, ui.queryString) /\ i = 1 /\ InOrder(ui)
                        /\ AllNums(ui.requests, ui.queryString)
                        /\ Fetched(ui.requests, ui.shown, ui.queryString, ui.queryNums)
      BY <1>0, <2>1, NumsCut, Zenon
    <2> HIDE DEF rest
    <2>4. ASSUME InOrder(v)
          PROVE  /\ ui.requests[i].kind # "queryInfo"
                        => Fetched(rest, ui.shown, ui.queryString, ui.queryNums)
                 /\ ui.requests[i].kind = "queryInfo" => \A num \in ui.requests[i].since..server :
                        Fetched(rest, {[for |-> ui.requests[i].params, num |-> num]},
                                ui.queryString, ui.queryNums)
      <3>1. i = 1 /\ Fetched(ui.requests, ui.shown, ui.queryString, ui.queryNums)
        BY <2>3, <2>4
      <3> QED
        BY <1>0, <3>1, FetchedFirst, Zenon DEF rest
    \* A component that only arms the timer, or notes a failure of no request for the list.
    <2>5. ASSUME NEW u, ui' = History!resetTimer(u), UNCHANGED server,
                 ParamFields \cup FreshFields \subseteq DOMAIN u,
                 \A f \in (ParamFields \cup FreshFields) \ {"requests", "queryNums", "shown"} : u[f] = v[f],
                 IsSequence(u.requests), Sinces(u.requests, server),
                 u.queryNums \in Int, u.queryNums <= server,
                 InOrder(v) => /\ AllNums(u.requests, ui.queryString)
                               /\ Fetched(u.requests, u.shown, ui.queryString, u.queryNums)
          PROVE  HistoryFresh(ui', server')
      <3>1. ParamFields \cup FreshFields \subseteq DOMAIN ui'
            /\ \A f \in ParamFields \cup FreshFields : ui'[f] = u[f]
        BY <2>5, Zenon DEF ParamFields, FreshFields, History!resetTimer
      <3>2. /\ ui'.requests = u.requests /\ ui'.queryString = ui.queryString
            /\ ui'.queryNums = u.queryNums /\ ui'.shown = u.shown /\ ui'.deferred = ui.deferred
            /\ ui'.debounce = ui.debounce /\ (InOrder(ui') => InOrder(v))
        BY <2>2, <2>5, <3>1, Zenon DEF ParamFields, FreshFields, InOrder
      <3>3. History!queryParam(ui') = History!queryParam(ui)
        <4>1. \A f \in ParamFields : ui'[f] = ui[f]
          BY <2>1, <2>5, <3>1, Zenon DEF ParamFields, FreshFields
        <4> QED
          BY <4>1, Zenon DEF History!queryParam, ParamFields
      <3>4. HistoryKnows(ui', server)
        BY <1>0, <2>5, <3>1, <3>2, Zenon DEF HistoryKnows
      <3>5. WillRefresh(ui) => WillRefresh(ui')
        BY <3>2, Zenon DEF WillRefresh
      <3> QED
        BY <1>0, <2>5, <3>2, <3>3, <3>4, <3>5, Zenon DEF HistoryFresh
    <2>6. ASSUME NEW num \in ui.requests[i].since..server, History!queryNumsArrives(i, num), UNCHANGED server
          PROVE  HistoryFresh(ui', server')
      <3> DEFINE u == [v EXCEPT !.queryNums = num]
                 e == [kind |-> "queryInfo", params |-> ui.requests[i].params, since |-> server]
                 w == [u EXCEPT !.requests = Append(@, e)]
      <3>1. /\ ui.requests[i].kind = "queryNums"
            /\ ui' = History!resetTimer(IF ui.queryNums # num THEN w ELSE u)
        BY <2>6, Zenon DEF History!queryNumsArrives, History!get, v
      <3>2. num \in Int /\ num <= server /\ server >= num /\ server \in 0..server
        BY <1>0, <2>6 DEF Sinces
      <3>3. e.kind = "queryInfo" /\ e.params = ui.requests[i].params /\ e.since = server
        BY Zenon
      <3> HIDE DEF e
      <3>4. /\ ParamFields \cup FreshFields \subseteq DOMAIN u
            /\ \A f \in (ParamFields \cup FreshFields) \ {"queryNums"} : u[f] = v[f]
            /\ u.queryNums = num /\ u.requests = rest /\ u.shown = ui.shown
        BY <2>1, <2>2, Zenon DEF ParamFields, FreshFields
      <3>5. /\ ParamFields \cup FreshFields \subseteq DOMAIN w
            /\ \A f \in (ParamFields \cup FreshFields) \ {"requests"} : w[f] = u[f]
            /\ w.requests = Append(rest, e)
        BY <3>4, Zenon DEF ParamFields, FreshFields
      <3>6. w.queryNums = num /\ w.shown = ui.shown
            /\ \A f \in (ParamFields \cup FreshFields) \ {"requests", "queryNums", "shown"} : w[f] = v[f]
        BY <3>4, <3>5, Zenon DEF ParamFields, FreshFields
      <3> HIDE DEF w, u
      <3>7. CASE ui.queryNums # num
        <4>1. IsSequence(w.requests) /\ Sinces(w.requests, server)
          <5>1. IsSequence(rest) /\ Sinces(rest, server)
            BY <2>1
          <5>2. IsSequence(Append(rest, e))
            BY <5>1, Appended
          <5>3. Sinces(Append(rest, e), server)
            BY <3>2, <3>3, <5>1, SincesAppended
          <5> QED
            BY <3>5, <5>2, <5>3
        <4>2. ASSUME InOrder(v)
              PROVE  AllNums(w.requests, ui.queryString) /\ Fetched(w.requests, w.shown, ui.queryString, num)
          <5>1. IsSequence(rest)
            BY <2>1
          <5>2. ui.requests[i].params = ui.queryString
            BY <2>3, <3>1, <4>2 DEF AllNums
          <5>3. AllNums(Append(rest, e), ui.queryString)
            BY <2>3, <3>3, <4>2, <5>1, NumsAppended
          <5>4. Fetched(Append(rest, e), w.shown, ui.queryString, num)
            BY <3>2, <3>3, <5>1, <5>2, FetchedWithInfo
          <5> QED
            BY <3>5, <5>3, <5>4
        <4>3. ui' = History!resetTimer(w)
          BY <3>1, <3>7
        <4> QED
          BY <2>5, <2>6, <3>2, <3>5, <3>6, <4>1, <4>2, <4>3, Zenon
      <3>8. CASE ui.queryNums = num
        <4>1. ui' = History!resetTimer(u)
          BY <3>1, <3>8
        <4>2. ASSUME InOrder(v)
              PROVE  AllNums(u.requests, ui.queryString) /\ Fetched(u.requests, u.shown, ui.queryString, num)
          <5>1. Fetched(rest, ui.shown, ui.queryString, num)
            BY <2>4, <3>1, <3>8, <4>2
          <5> QED
            BY <2>3, <3>4, <4>2, <5>1
        <4>3. IsSequence(u.requests) /\ Sinces(u.requests, server)
          BY <2>1, <3>4
        <4> QED
          BY <2>5, <2>6, <3>2, <3>4, <4>1, <4>2, <4>3, Zenon
      <3> QED
        BY <3>7, <3>8
    <2>7. ASSUME NEW num \in ui.requests[i].since..server, History!queryInfoArrives(i, num), UNCHANGED server
          PROVE  HistoryFresh(ui', server')
      <3> DEFINE list == {[for |-> ui.requests[i].params, num |-> num]}
                 u == [v EXCEPT !.shown = list]
      <3>1. ui.requests[i].kind = "queryInfo" /\ ui' = History!resetTimer(u)
        BY <2>7, Zenon DEF History!queryInfoArrives, v
      <3>2. InOrder(v) => Fetched(rest, list, ui.queryString, ui.queryNums)
        BY <2>4, <2>7, <3>1
      <3> HIDE DEF list
      <3>3. /\ ParamFields \cup FreshFields \subseteq DOMAIN u
            /\ \A f \in (ParamFields \cup FreshFields) \ {"shown"} : u[f] = v[f]
            /\ u.queryNums = ui.queryNums /\ u.requests = rest /\ u.shown = list
        BY <2>1, <2>2, Zenon DEF ParamFields, FreshFields
      <3> HIDE DEF u
      <3> QED
        BY <1>0, <2>1, <2>3, <2>5, <2>7, <3>1, <3>2, <3>3, Zenon
    <2>8. ASSUME ui' = History!resetTimer(v), UNCHANGED server, ui.requests[i].kind # "queryInfo"
          PROVE  HistoryFresh(ui', server')
      BY <1>0, <2>1, <2>2, <2>3, <2>4, <2>5, <2>8, Zenon
    <2>9. CASE History!RequestFails(i)
      <3>1. CASE ui.requests[i].kind = "queryNums" \/ ui.requests[i].kind = "queryInfo"
        <4>1. /\ UNCHANGED server /\ ParamFields \cup FreshFields \subseteq DOMAIN ui'
              /\ \A f \in (ParamFields \cup FreshFields) \ {"numsFailed", "infoFailed"} : ui'[f] = v[f]
              /\ ui'.numsFailed \/ ui'.infoFailed
          <5>1. CASE ui.requests[i].kind = "queryNums"
            <6>1. ui' = [v EXCEPT !.numsFailed = TRUE] /\ UNCHANGED server
              BY <2>9, <5>1, Zenon DEF History!RequestFails, v
            <6> QED
              BY <2>1, <6>1, Zenon DEF ParamFields, FreshFields
          <5>2. CASE ui.requests[i].kind = "queryInfo"
            <6>1. ui' = History!resetTimer([v EXCEPT !.infoFailed = @ \/ ui.requests[i].kind = "queryInfo"])
                  /\ UNCHANGED server
              BY <2>9, <5>2, Zenon DEF History!RequestFails, v
            <6> QED
              BY <2>1, <5>2, <6>1, Zenon DEF ParamFields, FreshFields, History!resetTimer
          <5> QED
            BY <3>1, <5>1, <5>2
        <4>2. /\ ui'.requests = rest /\ ui'.queryString = ui.queryString
              /\ ui'.queryNums = ui.queryNums /\ ui'.deferred = ui.deferred
              /\ ui'.debounce = ui.debounce /\ ~InOrder(ui')
          BY <2>1, <2>2, <4>1, Zenon DEF ParamFields, FreshFields, InOrder
        <4>3. History!queryParam(ui') = History!queryParam(ui)
          <5>1. \A f \in ParamFields : ui'[f] = v[f]
            BY <4>1, Zenon DEF ParamFields
          <5>2. History!queryParam(ui') = History!queryParam(v)
            BY <5>1, Zenon DEF History!queryParam, ParamFields
          <5> QED
            BY <2>1, <5>2
        <4>4. HistoryKnows(ui', server)
          BY <1>0, <2>1, <4>1, <4>2, Zenon DEF HistoryKnows
        <4>5. WillRefresh(ui) => WillRefresh(ui')
          BY <4>2, Zenon DEF WillRefresh
        <4> QED
          BY <1>0, <4>1, <4>2, <4>3, <4>4, <4>5, Zenon DEF HistoryFresh
      <3>2. CASE ~(ui.requests[i].kind = "queryNums" \/ ui.requests[i].kind = "queryInfo")
        <4> DEFINE u == [v EXCEPT !.infoFailed = @ \/ ui.requests[i].kind = "queryInfo"]
        <4>1. ui' = History!resetTimer(u) /\ UNCHANGED server
          BY <2>9, <3>2, Zenon DEF History!RequestFails, v
        <4>2. /\ ParamFields \cup FreshFields \subseteq DOMAIN ui'
              /\ \A f \in (ParamFields \cup FreshFields) \ {"infoFailed"} : ui'[f] = v[f]
              /\ ui'.infoFailed <=> v.infoFailed
          BY <2>1, <3>2, <4>1, Zenon DEF ParamFields, FreshFields, History!resetTimer
        <4>3. /\ ui'.requests = rest /\ ui'.queryString = ui.queryString /\ ui'.shown = ui.shown
              /\ ui'.queryNums = ui.queryNums /\ ui'.deferred = ui.deferred
              /\ ui'.debounce = ui.debounce /\ (InOrder(ui') => InOrder(v))
          BY <2>1, <2>2, <4>2, Zenon DEF ParamFields, FreshFields, InOrder
        <4>4. History!queryParam(ui') = History!queryParam(ui)
          <5>1. \A f \in ParamFields : ui'[f] = v[f]
            BY <4>2, Zenon DEF ParamFields
          <5>2. History!queryParam(ui') = History!queryParam(v)
            BY <5>1, Zenon DEF History!queryParam, ParamFields
          <5> QED
            BY <2>1, <5>2
        <4>5. HistoryKnows(ui', server)
          BY <1>0, <2>1, <4>2, <4>3, Zenon DEF HistoryKnows
        <4>6. WillRefresh(ui) => WillRefresh(ui')
          BY <4>3, Zenon DEF WillRefresh
        <4>7. InOrder(v) => AllNums(rest, ui.queryString)
                            /\ Fetched(rest, ui.shown, ui.queryString, ui.queryNums)
          BY <2>3, <2>4, <3>2, Zenon
        <4> QED
          BY <1>0, <4>1, <4>3, <4>4, <4>5, <4>6, <4>7, Zenon DEF HistoryFresh
      <3> QED
        BY <3>1, <3>2
    <2>10. ASSUME History!metastoreTypeArrives(i), UNCHANGED server PROVE HistoryFresh(ui', server')
      <3>1. ui' = History!resetTimer(v) /\ ui.requests[i].kind # "queryInfo"
        BY <2>10, Zenon DEF History!metastoreTypeArrives, v
      <3> QED
        BY <2>8, <2>10, <3>1
    <2> QED
      BY <1>4, <2>6, <2>7, <2>9, <2>10, Zenon DEF History!AnswerArrives
  <1>5. CASE History!QueryFinishes
    <2>1. ui' = ui /\ server' = server + 1
      BY <1>5 DEF History!QueryFinishes
    <2>2. ASSUME NEW i \in DOMAIN ui.requests PROVE ui.requests[i].since \in 0..(server + 1)
      <3>1. ui.requests[i].since \in 0..server
        BY <1>0 DEF Sinces
      <3> QED
        BY <1>0, <3>1
    <2>3. Sinces(ui.requests, server + 1) /\ server + 1 \in Nat /\ ui.queryNums <= server + 1
      BY <1>0, <2>2 DEF Sinces
    <2>4. HistoryFresh(ui, server + 1)
      BY <1>0, <2>3, Zenon DEF HistoryFresh, HistoryKnows
    <2> QED
      BY <2>1, <2>4
  <1> QED
    BY <1>1, <1>2, <1>3, <1>4, <1>5, Zenon DEF History!Browser

\* At rest nothing is on its way and no refresh is due: the list is the one of the fields.
LEMMA FetchedAtRest == ASSUME HistoryFresh(ui, server) PROVE History!QuietMeansFresh
  <1> SUFFICES ASSUME ui.requests = <<>>, ui.deferred = 0, ~ui.debounce, InOrder(ui)
               PROVE  \E answer \in ui.shown : answer.for = History!queryParam(ui)
                                               /\ answer.num >= ui.queryNums
    BY Zenon DEF History!QuietMeansFresh, InOrder
  <1>1. ~(ui.deferred > 0) /\ DOMAIN ui.requests = {}
    OBVIOUS
  <1>2. ~WillRefresh(ui)
    BY <1>1, Zenon DEF WillRefresh
  <1>3. Fetched(ui.requests, ui.shown, ui.queryString, ui.queryNums)
        /\ History!queryParam(ui) = ui.queryString
    BY <1>2, Zenon DEF HistoryFresh
  <1> QED
    BY <1>1, <1>3, Zenon DEF Fetched

-----------------------------------------------------------------------------
(* The menus of the query history, whose filters are sequences *)

\* Filters of a menu, none twice.
Listed(all, s) == /\ IsSequence(s)
                  /\ \A i \in DOMAIN s : s[i] \in all
                  /\ \A i, j \in DOMAIN s : s[i] = s[j] => i = j
Covered(all, s) == \A e \in all : \E i \in DOMAIN s : s[i] = e
InMenu(all, s, selectAll) == Listed(all, s) /\ selectAll \in BOOLEAN /\ (selectAll <=> Covered(all, s))

FilterFields == {"stateFilters", "errorTypeFilters", "stateSelectAll", "errorSelectAll"}
SameFilters(u, v) == FilterFields \subseteq DOMAIN v /\ \A f \in FilterFields : v[f] = u[f]

HistoryMarks(u) ==
    /\ FilterFields \subseteq DOMAIN u
    /\ InMenu(FilterType, u.stateFilters, u.stateSelectAll)
    /\ InMenu(ErrorType, u.errorTypeFilters, u.errorSelectAll)

\* States that agree on the menus mark them together.
LEMMA SameFiltersInMenu ==
    ASSUME NEW u, NEW v, SameFilters(u, v), HistoryMarks(u)
    PROVE  HistoryMarks(v)
  BY DEF SameFilters, HistoryMarks, FilterFields

INSTANCE FiniteSetTheorems

\* The module of the page counts as the library does.
LEMMA SameHistoryCardinality == \A S : History!Cardinality(S) = Cardinality(S)
  BY Zenon DEF History!Cardinality, Cardinality

\* A list without repetition holds the whole menu when it is as long as the menu is large.
LEMMA CoveredWhenFull ==
    ASSUME NEW all, IsFiniteSet(all), NEW s, Listed(all, s)
    PROVE  Len(s) = Cardinality(all) <=> Covered(all, s)
  <1>1. PICK S : s \in Seq(S)
    BY DEF Listed, IsSequence
  <1>2. Len(s) \in Nat /\ DOMAIN s = 1..Len(s) /\ s = [i \in 1..Len(s) |-> s[i]]
    BY <1>1
  <1>3. s \in [1..Len(s) -> all]
    BY <1>2 DEF Listed
  <1>4. s \in Injection(1..Len(s), all)
    BY <1>2, <1>3, Zenon DEF Injection, IsInjective, Listed
  <1>5. Cardinality(1..Len(s)) = Len(s)
    <2>0. 1 \in Int /\ Len(s) \in Int
      BY <1>2
    <2>1. Cardinality(1..Len(s)) = IF 1 > Len(s) THEN 0 ELSE Len(s) - 1 + 1
      BY <2>0, FS_Interval, Zenon
    <2> QED
      BY <1>2, <2>1
  <1>6. Cardinality(1..Len(s)) = Cardinality(all) <=> s \in Surjection(1..Len(s), all)
    BY <1>4, FS_Injection, Zenon
  <1>7. s \in Surjection(1..Len(s), all) <=> Covered(all, s)
    BY <1>2, <1>3, Zenon DEF Surjection, Covered
  <1> QED
    BY <1>5, <1>6, <1>7, Zenon

\* SetToSeq lists all of a menu.
LEMMA ListsAll ==
    ASSUME NEW all, IsFiniteSet(all)
    PROVE  Listed(all, History!SetToSeq(all)) /\ Covered(all, History!SetToSeq(all))
  <1> DEFINE n == Cardinality(all)
             s == History!SetToSeq(all)
  <1>1. n \in Nat /\ ExistsBijection(1..n, all)
    BY FS_CardinalityType, Zenon
  <1>2. PICK f : f \in Bijection(1..n, all)
    BY <1>1, Zenon DEF ExistsBijection
  <1>3. f \in [1..n -> all] /\ \A i, j \in 1..n : f[i] = f[j] => i = j
    BY <1>2, Zenon DEF Bijection, Injection, IsInjective
  <1>4. f \in [1..History!Cardinality(all) -> all] /\ History!IsInjective(f)
    BY <1>3, SameHistoryCardinality, Zenon DEF History!IsInjective
  <1>5. s \in [1..History!Cardinality(all) -> all] /\ History!IsInjective(s)
    BY <1>4, Zenon DEF History!SetToSeq
  <1> HIDE DEF s, n
  <1>6. s \in [1..n -> all] /\ \A i, j \in 1..n : s[i] = s[j] => i = j
    BY <1>5, SameHistoryCardinality, Zenon DEF History!IsInjective, n
  <1>7. s \in Seq(all) /\ Len(s) = n
    BY <1>1, <1>6
  <1>8. Listed(all, s)
    BY <1>6, <1>7 DEF Listed, IsSequence
  <1>9. Covered(all, s)
    BY <1>7, <1>8, CoveredWhenFull DEF n
  <1> QED
    BY <1>8, <1>9 DEF s

\* Taking a filter out, which is in the list once.
LEMMA FilterTakenOut ==
    ASSUME NEW all, NEW s, Listed(all, s), NEW k \in DOMAIN s
    PROVE  Listed(all, History!Remove(s, s[k]))
  <1>1. IsSequence(s) /\ Len(s) \in Nat /\ DOMAIN s = 1..Len(s) /\ k \in 1..Len(s)
    BY Cut DEF Listed
  <1>2. {i \in DOMAIN s : s[i] = s[k]} = {k}
    BY DEF Listed
  <1>3. History!indexOf(s, s[k]) = k
    <2>1. k <= k
      BY <1>1
    <2>2. History!Min({k}) = k
      BY <2>1, Zenon DEF History!Min
    <2> QED
      BY <1>2, <2>2, Zenon DEF History!indexOf
  <1>4. History!Remove(s, s[k]) = cut(s, k)
    BY <1>3, RemovesAt, Zenon DEF History!Remove
  <1> DEFINE c == cut(s, k)
  <1>5. /\ IsSequence(c) /\ DOMAIN c = 1..(Len(s) - 1)
        /\ \A j \in 1..(Len(s) - 1) : c[j] = IF j < k THEN s[j] ELSE s[j + 1]
    BY <1>1, Cut, Zenon
  <1> HIDE DEF c
  <1>6. ASSUME NEW j \in DOMAIN c
        PROVE  \E m \in DOMAIN s : c[j] = s[m] /\ (j < k => m = j) /\ (~(j < k) => m = j + 1)
    <2>1. j \in 1..(Len(s) - 1)
      BY <1>5, <1>6, Zenon
    <2>2. j \in 1..Len(s) /\ j + 1 \in 1..Len(s)
      BY <1>1, <2>1
    <2>3. CASE j < k
      BY <1>1, <1>5, <2>1, <2>2, <2>3, Zenon
    <2>4. CASE ~(j < k)
      BY <1>1, <1>5, <2>1, <2>2, <2>4, Zenon
    <2> QED
      BY <2>3, <2>4, Zenon
  <1>7. \A j \in DOMAIN c : c[j] \in all
    BY <1>6, Zenon DEF Listed
  <1>8. ASSUME NEW i \in DOMAIN c, NEW j \in DOMAIN c, c[i] = c[j]
        PROVE  i = j
    <2>1. PICK m \in DOMAIN s : c[i] = s[m] /\ (i < k => m = i) /\ (~(i < k) => m = i + 1)
      BY <1>6
    <2>2. PICK o \in DOMAIN s : c[j] = s[o] /\ (j < k => o = j) /\ (~(j < k) => o = j + 1)
      BY <1>6
    <2>3. m = o
      BY <1>8, <2>1, <2>2, Zenon DEF Listed
    <2>4. i \in Int /\ j \in Int /\ k \in Int
      BY <1>1, <1>5
    <2> QED
      BY <2>1, <2>2, <2>3, <2>4
  <1> QED
    BY <1>4, <1>5, <1>7, <1>8 DEF Listed, c

\* A choice not yet in the list is put at its end.
LEMMA PutLast ==
    ASSUME NEW all, NEW s, Listed(all, s), NEW e \in all, ~\E i \in DOMAIN s : s[i] = e
    PROVE  Listed(all, Append(s, e))
  <1> DEFINE a == Append(s, e)
  <1>1. /\ IsSequence(a) /\ Len(s) \in Nat /\ DOMAIN s = 1..Len(s) /\ DOMAIN a = 1..(Len(s) + 1)
        /\ a[Len(s) + 1] = e /\ \A i \in 1..Len(s) : a[i] = s[i]
    BY Appended DEF Listed
  <1> HIDE DEF a
  <1>2. ASSUME NEW i \in DOMAIN a
        PROVE  (i \in DOMAIN s /\ a[i] = s[i]) \/ (i = Len(s) + 1 /\ a[i] = e)
    BY <1>1
  <1>3. \A i \in DOMAIN a : a[i] \in all
    BY <1>2 DEF Listed
  <1>4. \A i, j \in DOMAIN a : a[i] = a[j] => i = j
    BY <1>2, Zenon DEF Listed
  <1> QED
    BY <1>1, <1>3, <1>4 DEF Listed, a

\* A list that covers the menu is marked, one that does not is not.
LEMMA MenuMark ==
    ASSUME NEW all, NEW s, Listed(all, s)
    PROVE  /\ Covered(all, s) => InMenu(all, s, TRUE)
           /\ ~Covered(all, s) => InMenu(all, s, FALSE)
  BY Zenon DEF InMenu

\* The record of a click's outcome, with the mark as a truth value.
LEMMA Clicked ==
    ASSUME NEW filters, NEW mark \in BOOLEAN, NEW new, new = [filters |-> filters, all |-> mark]
    PROVE  new.filters = filters /\ new.all = mark
  OBVIOUS

\* A click at a filter or at "Select All" leaves the mark right.
LEMMA ToggledMenu ==
    ASSUME NEW all, IsFiniteSet(all), all # {}, NEW chosen, NEW selectAll,
           InMenu(all, chosen, selectAll), NEW filter \in all \cup {History!SELECT_ALL},
           NEW new, new = History!toggled(all, chosen, selectAll, filter)
    PROVE  InMenu(all, new.filters, new.all)
  <1>0. Listed(all, chosen) /\ selectAll \in BOOLEAN
    BY Zenon DEF InMenu
  <1>1. CASE filter = History!SELECT_ALL
    <2>1. new = [filters |-> IF selectAll THEN <<>> ELSE History!SetToSeq(all), all |-> ~selectAll]
      BY <1>1, Zenon DEF History!toggled
    <2>2. new.filters = (IF selectAll THEN <<>> ELSE History!SetToSeq(all)) /\ new.all = ~selectAll
      BY <2>1, Clicked, Zenon
    <2>3. CASE selectAll = TRUE
      <3>1. new.filters = <<>> /\ new.all = FALSE
        BY <2>2, <2>3, Zenon
      <3>2. DOMAIN <<>> = {} /\ <<>> \in Seq({})
        OBVIOUS
      <3>3. Listed(all, <<>>) /\ ~Covered(all, <<>>)
        BY <3>2, Zenon DEF Listed, Covered, IsSequence
      <3> QED
        BY <3>1, <3>3, MenuMark, Zenon
    <2>4. CASE selectAll = FALSE
      <3>1. new.filters = History!SetToSeq(all) /\ new.all = TRUE
        BY <2>2, <2>4, Zenon
      <3> QED
        BY <3>1, ListsAll, MenuMark, Zenon
    <2> QED
      BY <1>0, <2>3, <2>4, Zenon
  <1>2. CASE filter # History!SELECT_ALL
    <2> DEFINE list == IF History!Contains(chosen, filter) THEN History!Remove(chosen, filter)
                       ELSE Append(chosen, filter)
               mark == Len(list) = Cardinality(all)
    <2>1. new = [filters |-> list, all |-> mark]
      BY <1>2, SameHistoryCardinality, Zenon DEF History!toggled
    <2>2. Listed(all, list)
      <3>1. CASE History!Contains(chosen, filter)
        <4>1. PICK k \in DOMAIN chosen : chosen[k] = filter
          BY <3>1, Zenon DEF History!Contains
        <4>2. Listed(all, History!Remove(chosen, filter))
          BY <1>0, <4>1, FilterTakenOut, Zenon
        <4> QED
          BY <3>1, <4>2, Zenon
      <3>2. CASE ~History!Contains(chosen, filter)
        <4>1. Listed(all, Append(chosen, filter))
          BY <1>0, <1>2, <3>2, PutLast, Zenon DEF History!Contains
        <4> QED
          BY <3>2, <4>1, Zenon
      <3> QED
        BY <3>1, <3>2
    <2> HIDE DEF list
    <2>3. mark <=> Covered(all, list)
      BY <2>2, CoveredWhenFull, Zenon
    <2>4. mark \in BOOLEAN
      OBVIOUS
    <2> HIDE DEF mark
    <2>5. new.filters = list /\ new.all = mark
      BY <2>1, <2>4, Clicked
    <2>6. (mark = TRUE /\ Covered(all, list)) \/ (mark = FALSE /\ ~Covered(all, list))
      BY <2>3, <2>4
    <2> QED
      BY <2>2, <2>5, <2>6, MenuMark, Zenon
  <1> QED
    BY <1>1, <1>2

\* refreshData leaves the menus alone.
LEMMA HistoryKeepsMenus ==
    ASSUME NEW u, FilterFields \cup {"requests", "queryString", "crossed"} \subseteq DOMAIN u
    PROVE  SameFilters(u, History!refreshData(u))
  <1> DEFINE nums == History!get(u, "queryNums", History!queryParam(u))
             info == IF History!queryParam(u) # u.queryString
                     THEN History!get(nums, "queryInfo", History!queryParam(u)) ELSE nums
  <1>1. SameFilters(u, nums)
    BY Zenon DEF SameFilters, FilterFields, History!get
  <1>2. ASSUME NEW kind, NEW params PROVE SameFilters(u, History!get(nums, kind, params))
    BY <1>1, Zenon DEF SameFilters, FilterFields, History!get
  <1> HIDE DEF nums
  <1>3. SameFilters(u, info)
    BY <1>1, <1>2, Zenon
  <1>4. History!refreshData(u) = [info EXCEPT !.queryString = History!queryParam(u),
                                              !.crossed = @ \/ History!isAsked(u, History!queryParam(u))]
    BY Zenon DEF History!refreshData, nums
  <1> HIDE DEF info
  <1> QED
    BY <1>3, <1>4, Zenon DEF SameFilters, FilterFields

\* At the start the marks of the menus are right.
LEMMA HistoryStartMarks == ASSUME History!Init PROVE HistoryMarks(ui)
  <1> DEFINE c == History!constructor
             u == [History!get(c, "hetuMetastoreType", History!NoString) EXCEPT !.timer = FALSE]
  <1>1. /\ FilterFields \cup {"requests", "queryString", "crossed", "timer"} \subseteq DOMAIN c
        /\ c.stateFilters = History!SetToSeq(FilterType) /\ c.stateSelectAll = TRUE
        /\ c.errorTypeFilters = History!SetToSeq(ErrorType) /\ c.errorSelectAll = TRUE
    BY Zenon DEF FilterFields, History!constructor
  <1>2. ui = History!refreshData(u)
    BY Zenon DEF History!Init, History!componentDidMount, History!refreshLoop
  <1>3. HistoryMarks(c)
    BY <1>1, FiniteMenusAssumption, ListsAll, MenuMark, Zenon DEF HistoryMarks
  <1> HIDE DEF c
  <1>4. SameFilters(c, u) /\ FilterFields \cup {"requests", "queryString", "crossed"} \subseteq DOMAIN u
    BY <1>1, Zenon DEF SameFilters, FilterFields, History!get
  <1> HIDE DEF u
  <1> QED
    BY <1>2, <1>3, <1>4, HistoryKeepsMenus, SameFiltersInMenu, Zenon

\* Every step keeps the marks of the menus right.
LEMMA HistoryStepMarks ==
    ASSUME {"requests", "queryString", "crossed"} \subseteq DOMAIN ui, HistoryMarks(ui), History!Next
    PROVE  HistoryMarks(ui')
  <1> USE DEF History!Next
  <1>0. /\ {"requests", "queryString", "crossed"} \subseteq DOMAIN ui /\ FilterFields \subseteq DOMAIN ui
        /\ InMenu(FilterType, ui.stateFilters, ui.stateSelectAll)
        /\ InMenu(ErrorType, ui.errorTypeFilters, ui.errorSelectAll)
        /\ IsFiniteSet(FilterType) /\ FilterType # {} /\ IsFiniteSet(ErrorType) /\ ErrorType # {}
    BY MenusAssumption, FiniteMenusAssumption, Zenon DEF HistoryMarks
  <1>1. ASSUME NEW filter \in FilterType \cup {History!SELECT_ALL}, History!handleStateFilterClick(filter)
        PROVE  HistoryMarks(ui')
    <2> DEFINE new == History!toggled(FilterType, ui.stateFilters, ui.stateSelectAll, filter)
    <2>1. /\ FilterFields \subseteq DOMAIN ui'
          /\ ui'.stateFilters = new.filters /\ ui'.stateSelectAll = new.all
          /\ ui'.errorTypeFilters = ui.errorTypeFilters /\ ui'.errorSelectAll = ui.errorSelectAll
      BY <1>0, <1>1, Zenon DEF FilterFields, History!handleStateFilterClick, History!defer, History!clicked
    <2>2. InMenu(FilterType, new.filters, new.all)
      BY <1>0, <1>1, ToggledMenu, Zenon
    <2> HIDE DEF new
    <2> QED
      BY <1>0, <2>1, <2>2, Zenon DEF HistoryMarks
  <1>2. ASSUME NEW type \in ErrorType \cup {History!SELECT_ALL}, History!handleErrorTypeFilterClick(type)
        PROVE  HistoryMarks(ui')
    <2> DEFINE new == History!toggled(ErrorType, ui.errorTypeFilters, ui.errorSelectAll, type)
    <2>1. /\ FilterFields \subseteq DOMAIN ui'
          /\ ui'.errorTypeFilters = new.filters /\ ui'.errorSelectAll = new.all
          /\ ui'.stateFilters = ui.stateFilters /\ ui'.stateSelectAll = ui.stateSelectAll
      BY <1>0, <1>2, Zenon DEF FilterFields, History!handleErrorTypeFilterClick, History!defer, History!clicked
    <2>2. InMenu(ErrorType, new.filters, new.all)
      BY <1>0, <1>2, ToggledMenu, Zenon
    <2> HIDE DEF new
    <2> QED
      BY <1>0, <2>1, <2>2, Zenon DEF HistoryMarks
  <1>3. ASSUME \/ \E type \in SortType : History!handleSortClick(type)
               \/ \E field \in Field, text \in SearchString : History!handleSearchStringChange(field, text)
               \/ \E text \in SearchString : History!datePicked(text)
               \/ \E page \in 1..2 : History!onPageChange(page)
               \/ \E size \in PageSize : History!onPageSizeChange(size)
               \/ History!Browser
        PROVE  SameFilters(ui, ui')
    <2> USE <1>0 DEF SameFilters, FilterFields, History!clicked, History!defer
    <2>1. ASSUME NEW type, History!handleSortClick(type) PROVE SameFilters(ui, ui')
      BY <2>1, Zenon DEF History!handleSortClick
    <2>2. ASSUME NEW field, NEW text, History!handleSearchStringChange(field, text) PROVE SameFilters(ui, ui')
      BY <2>2, Zenon DEF History!handleSearchStringChange
    <2>3. ASSUME NEW text, History!datePicked(text) PROVE SameFilters(ui, ui')
      BY <2>3, Zenon DEF History!datePicked
    <2>4. ASSUME NEW page, History!onPageChange(page) PROVE SameFilters(ui, ui')
      BY <2>4, Zenon DEF History!onPageChange
    <2>5. ASSUME NEW size, History!onPageSizeChange(size) PROVE SameFilters(ui, ui')
      BY <2>5, Zenon DEF History!onPageSizeChange
    <2>6. ASSUME NEW u, SameFilters(ui, u), {"requests", "queryString", "crossed"} \subseteq DOMAIN u,
                 ui' = History!refreshData(u)
          PROVE  SameFilters(ui, ui')
      <3>1. SameFilters(u, ui')
        BY <2>6, HistoryKeepsMenus, Zenon
      <3> QED
        BY <2>6, <3>1, Zenon
    <2>7. ASSUME History!TimerFires PROVE SameFilters(ui, ui')
      <3> DEFINE u == [ui EXCEPT !.timer = FALSE]
      <3>1. ui' = History!refreshData(u)
        BY <2>7, Zenon DEF History!TimerFires, History!refreshLoop
      <3>2. SameFilters(ui, u) /\ {"requests", "queryString", "crossed"} \subseteq DOMAIN u
        BY Zenon
      <3> QED
        BY <2>6, <3>1, <3>2, Zenon
    <2>8. ASSUME History!DebounceFires PROVE SameFilters(ui, ui')
      BY <2>8, Zenon DEF History!DebounceFires
    <2>9. ASSUME History!DeferredRefresh PROVE SameFilters(ui, ui')
      <3> DEFINE u == [ui EXCEPT !.deferred = @ - 1]
      <3>1. ui' = History!refreshData(u)
        BY <2>9, Zenon DEF History!DeferredRefresh
      <3>2. SameFilters(ui, u) /\ {"requests", "queryString", "crossed"} \subseteq DOMAIN u
        BY Zenon
      <3> QED
        BY <2>6, <3>1, <3>2, Zenon
    <2>10. ASSUME NEW i, History!AnswerArrives(i) PROVE SameFilters(ui, ui')
      <3> USE DEF History!resetTimer, History!answered
      <3>1. ASSUME NEW num, History!queryNumsArrives(i, num) PROVE SameFilters(ui, ui')
        BY <3>1, Zenon DEF History!queryNumsArrives, History!get
      <3>2. ASSUME NEW num, History!queryInfoArrives(i, num) PROVE SameFilters(ui, ui')
        BY <3>2, Zenon DEF History!queryInfoArrives
      <3>3. ASSUME History!metastoreTypeArrives(i) PROVE SameFilters(ui, ui')
        BY <3>3, Zenon DEF History!metastoreTypeArrives
      <3> QED
        BY <2>10, <3>1, <3>2, <3>3, Zenon DEF History!AnswerArrives
    <2>11. ASSUME NEW i, History!RequestFails(i) PROVE SameFilters(ui, ui')
      BY <2>11, Zenon DEF History!RequestFails, History!resetTimer, History!answered
    <2> QED
      BY <1>3, <2>1, <2>2, <2>3, <2>4, <2>5, <2>7, <2>8, <2>9, <2>10, <2>11, Zenon DEF History!Browser
  <1>4. CASE History!QueryFinishes
    BY <1>4 DEF History!QueryFinishes, HistoryMarks
  <1> QED
    BY <1>1, <1>2, <1>3, <1>4, SameFiltersInMenu, Zenon DEF History!User

\* The marks are those the page shows.
LEMMA HistoryShowsMarks == ASSUME HistoryMarks(ui) PROVE History!SelectAllMeansAll
  <1>1. "all" \notin FilterType /\ "all" \notin ErrorType
    BY MenusAssumption, Zenon
  <1>2. ASSUME NEW all, NEW s, NEW selectAll, InMenu(all, s, selectAll), "all" \notin all
        PROVE  (History!Contains(s, "all") \/ ("all" = "all" /\ selectAll))
                   <=> \A filter \in all : History!Contains(s, filter) \/ (filter = "all" /\ selectAll)
    <2>1. ~History!Contains(s, "all")
      BY <1>2, Zenon DEF InMenu, Listed, History!Contains
    <2>2. selectAll <=> \A filter \in all : History!Contains(s, filter)
      BY <1>2, Zenon DEF InMenu, Covered, History!Contains
    <2> QED
      BY <1>2, <2>1, <2>2, Zenon
  <1>3. /\ InMenu(FilterType, ui.stateFilters, ui.stateSelectAll)
        /\ InMenu(ErrorType, ui.errorTypeFilters, ui.errorSelectAll)
    BY DEF HistoryMarks
  <1>4. /\ (History!Contains(ui.stateFilters, "all") \/ ("all" = "all" /\ ui.stateSelectAll))
             <=> \A filter \in FilterType : History!Contains(ui.stateFilters, filter)
                                            \/ (filter = "all" /\ ui.stateSelectAll)
        /\ (History!Contains(ui.errorTypeFilters, "all") \/ ("all" = "all" /\ ui.errorSelectAll))
             <=> \A type \in ErrorType : History!Contains(ui.errorTypeFilters, type)
                                         \/ (type = "all" /\ ui.errorSelectAll)
    BY <1>1, <1>2, <1>3, Zenon
  <1> QED
    BY <1>4, Zenon DEF History!SelectAllMeansAll, History!stateChecked, History!errorChecked, History!SELECT_ALL

-----------------------------------------------------------------------------
(* The audit log.  What was searched for last (flag) is the last request on its way, or the *)
(* answer on the screen when none is; a search field that differs from it has left a timer  *)
(* or a deferred call that will search again.                                               *)

AuditFields == {"searchStringUser", "searchStringRange", "searchStringMenu", "searchStringDate",
                "flag", "auditlog", "requests", "timer", "debounce", "zero", "deferred",
                "failed", "overtaken"}

\* flag, the requests and the list on the screen, while all answers came in order.
Searched(flag, requests, shown) ==
    IF requests = <<>> THEN shown = flag ELSE flag = {requests[Len(requests)]}

WillSearch(u) == u.debounce \/ u.zero > 0 \/ u.deferred > 0

AuditInv(u) ==
    /\ AuditFields \subseteq DOMAIN u
    /\ IsSequence(u.requests) /\ u.zero \in Nat /\ u.deferred \in Nat
    /\ u.failed \in BOOLEAN /\ u.overtaken \in BOOLEAN /\ u.debounce \in BOOLEAN
    /\ ~u.failed /\ ~u.overtaken => Searched(u.flag, u.requests, u.auditlog)
    /\ u.flag = {AuditLog!search(u)} \/ WillSearch(u)

\* A state that differs from another only in what does not matter here, or that will search.
SameSearch(u, v) ==
    /\ AuditFields \subseteq DOMAIN v /\ v.flag = u.flag /\ v.auditlog = u.auditlog
    /\ v.requests = u.requests /\ v.failed = u.failed /\ v.overtaken = u.overtaken
    /\ v.zero \in Nat /\ v.deferred \in Nat /\ v.debounce \in BOOLEAN

\* States that agree on the search keep its invariant together.
LEMMA SameSearchKept ==
    ASSUME NEW u, AuditInv(u), NEW v, SameSearch(u, v), WillSearch(v)
    PROVE  AuditInv(v)
  BY Zenon DEF AuditInv, SameSearch

\* refreshData searches for what is in the fields, or has done so before.
LEMMA Refreshed ==
    ASSUME NEW u, AuditFields \subseteq DOMAIN u, IsSequence(u.requests),
           u.zero \in Nat, u.deferred \in Nat, u.debounce \in BOOLEAN,
           u.failed \in BOOLEAN, u.overtaken \in BOOLEAN,
           ~u.failed /\ ~u.overtaken /\ u.flag = {AuditLog!search(u)}
               => Searched(u.flag, u.requests, u.auditlog)
    PROVE  AuditInv(AuditLog!refreshData(u))
  <1> DEFINE v == AuditLog!refreshData(u)
             s == AuditLog!search(u)
  <1>1. /\ AuditFields \subseteq DOMAIN v /\ v.flag = {s} /\ v.auditlog = u.auditlog
        /\ v.requests = IF u.flag = {s} THEN u.requests ELSE Append(u.requests, s)
        /\ v.zero = u.zero /\ v.deferred = u.deferred /\ v.debounce = u.debounce
        /\ v.failed = u.failed /\ v.overtaken = u.overtaken
        /\ v.searchStringUser = u.searchStringUser /\ v.searchStringRange = u.searchStringRange
        /\ v.searchStringMenu = u.searchStringMenu
    BY Zenon DEF AuditFields, AuditLog!refreshData
  <1> HIDE DEF v
  <1>2. AuditLog!search(v) = s
    BY <1>1, Zenon DEF AuditLog!search
  <1> HIDE DEF s
  <1>3. IsSequence(v.requests)
    BY <1>1, Appended
  <1>4. ~v.failed /\ ~v.overtaken => Searched(v.flag, v.requests, v.auditlog)
    <2>1. CASE u.flag = {s}
      BY <1>1, <2>1, Zenon DEF s
    <2>2. CASE u.flag # {s}
      <3>1. v.requests # <<>> /\ v.requests[Len(v.requests)] = s
        <4>1. v.requests = Append(u.requests, s)
          BY <1>1, <2>2
        <4>2. /\ Len(Append(u.requests, s)) = Len(u.requests) + 1 /\ Append(u.requests, s) # <<>>
              /\ Append(u.requests, s)[Len(u.requests) + 1] = s
          BY Appended
        <4> QED
          BY <4>1, <4>2
      <3> QED
        BY <1>1, <3>1, Zenon DEF Searched
    <2> QED
      BY <2>1, <2>2
  <1> QED
    BY <1>1, <1>2, <1>3, <1>4, Zenon DEF AuditInv, v

\* The audit page opens with its invariant.
LEMMA AuditStart == ASSUME AuditLog!Init PROVE AuditInv(ui)
  <1> DEFINE c == [AuditLog!constructor EXCEPT !.timer = FALSE]
  <1>1. ui = AuditLog!refreshData(c)
    BY Zenon DEF AuditLog!Init, AuditLog!refreshLoop
  <1>2. /\ AuditFields \subseteq DOMAIN c /\ c.flag = {} /\ c.requests = <<>>
        /\ c.zero = 0 /\ c.deferred = 0 /\ c.debounce = FALSE /\ c.failed = FALSE /\ c.overtaken = FALSE
    BY Zenon DEF AuditFields, AuditLog!constructor, AuditLog!Nothing
  <1> HIDE DEF c
  <1>3. IsSequence(c.requests)
    <2>1. <<>> \in Seq({})
      OBVIOUS
    <2> QED
      BY <1>2, <2>1 DEF IsSequence
  <1>4. c.flag # {AuditLog!search(c)}
    BY <1>2
  <1>5. c.zero \in Nat /\ c.deferred \in Nat
    BY <1>2
  <1> QED
    BY <1>1, <1>2, <1>3, <1>4, <1>5, Refreshed, Zenon

\* Every step of the audit page keeps its invariant.
LEMMA AuditStep ==
    ASSUME AuditInv(ui), AuditLog!Next
    PROVE  AuditInv(ui')
  <1> USE DEF AuditLog!Next
  <1>0. /\ AuditFields \subseteq DOMAIN ui /\ IsSequence(ui.requests)
        /\ ui.zero \in Nat /\ ui.deferred \in Nat
        /\ ui.failed \in BOOLEAN /\ ui.overtaken \in BOOLEAN /\ ui.debounce \in BOOLEAN
        /\ ~ui.failed /\ ~ui.overtaken => Searched(ui.flag, ui.requests, ui.auditlog)
        /\ ui.flag = {AuditLog!search(ui)} \/ WillSearch(ui)
    BY DEF AuditInv
  <1>1. ASSUME NEW u, AuditLog!click(u), AuditFields \subseteq DOMAIN u,
               u.flag = ui.flag, u.auditlog = ui.auditlog, u.requests = ui.requests,
               u.failed = ui.failed, u.overtaken = ui.overtaken,
               u.zero \in Nat, u.deferred \in Nat, u.debounce \in BOOLEAN, WillSearch(u)
        PROVE  AuditInv(ui')
    <2>1. ui' = [u EXCEPT !.clicks = @ + 1]
      BY <1>1 DEF AuditLog!click
    <2>2. SameSearch(ui, ui') /\ WillSearch(ui')
      BY <1>1, <2>1, Zenon DEF SameSearch, WillSearch, AuditFields
    <2> QED
      BY <2>2, SameSearchKept
  <1>2. CASE AuditLog!handleSearchStringChange
    <2>1. ASSUME NEW user, AuditLog!click([ui EXCEPT !.searchStringUser = user, !.currentPage = 1, !.debounce = TRUE])
          PROVE  AuditInv(ui')
      BY <1>0, <1>1, <2>1, Zenon DEF AuditFields, WillSearch
    <2>2. ASSUME NEW menu, AuditLog!click([ui EXCEPT !.searchStringMenu = menu, !.currentPage = 1, !.debounce = TRUE])
          PROVE  AuditInv(ui')
      BY <1>0, <1>1, <2>2, Zenon DEF AuditFields, WillSearch
    <2>3. ASSUME NEW date, AuditLog!click([ui EXCEPT !.searchStringDate = date, !.currentPage = 1, !.debounce = TRUE])
          PROVE  AuditInv(ui')
      BY <1>0, <1>1, <2>3, Zenon DEF AuditFields, WillSearch
    <2> QED
      BY <1>2, <2>1, <2>2, <2>3, Zenon DEF AuditLog!handleSearchStringChange
  <1>3. CASE AuditLog!datePickerHides \/ AuditLog!datePickerApplies \/ AuditLog!datePickerCancels
    <2>1. ASSUME NEW range, NEW u,
                 u \in {AuditLog!hidden(ui, range),
                        [AuditLog!hidden(ui, range) EXCEPT !.searchStringDate = range,
                            !.searchStringRange = range, !.zero = @ + 1],
                        [AuditLog!hidden(ui, range) EXCEPT !.searchStringDate = "",
                            !.searchStringRange = "", !.zero = @ + 1]},
                 AuditLog!click(u)
          PROVE  AuditInv(ui')
      <3>1. /\ AuditFields \subseteq DOMAIN u
            /\ u.flag = ui.flag /\ u.auditlog = ui.auditlog /\ u.requests = ui.requests
            /\ u.failed = ui.failed /\ u.overtaken = ui.overtaken
            /\ u.zero \in {ui.zero + 1, ui.zero + 1 + 1} /\ u.deferred = ui.deferred
            /\ u.debounce = ui.debounce
        BY <1>0, <2>1, Zenon DEF AuditFields, AuditLog!hidden
      <3>2. u.zero \in Nat /\ u.zero > 0
        BY <1>0, <3>1
      <3>3. u.deferred \in Nat /\ u.debounce \in BOOLEAN /\ WillSearch(u)
        BY <1>0, <3>1, <3>2, Zenon DEF WillSearch
      <3> QED
        BY <1>1, <2>1, <3>1, <3>2, <3>3
    <2> QED
      BY <1>3, <2>1, Zenon DEF AuditLog!datePickerHides, AuditLog!datePickerApplies, AuditLog!datePickerCancels
  <1>4. CASE AuditLog!onPageChange \/ AuditLog!onPageSizeChange
    <2>1. ASSUME NEW u, AuditLog!click(u), AuditFields \subseteq DOMAIN u,
                 \A f \in AuditFields \ {"deferred"} : u[f] = ui[f], u.deferred = ui.deferred + 1
          PROVE  AuditInv(ui')
      <3>1. u.deferred \in Nat /\ u.deferred > 0
        BY <1>0, <2>1
      <3>2. /\ u.flag = ui.flag /\ u.auditlog = ui.auditlog /\ u.requests = ui.requests
            /\ u.failed = ui.failed /\ u.overtaken = ui.overtaken
            /\ u.zero = ui.zero /\ u.debounce = ui.debounce
        BY <2>1, Zenon DEF AuditFields
      <3>3. WillSearch(u)
        BY <3>1, Zenon DEF WillSearch
      <3> QED
        BY <1>0, <1>1, <2>1, <3>1, <3>2, <3>3
    <2>2. CASE AuditLog!onPageChange
      <3>1. PICK page : AuditLog!click([ui EXCEPT !.currentPage = page, !.deferred = @ + 1])
        BY <2>2, Zenon DEF AuditLog!onPageChange
      <3> DEFINE u == [ui EXCEPT !.currentPage = page, !.deferred = @ + 1]
      <3>2. /\ AuditFields \subseteq DOMAIN u /\ u.deferred = ui.deferred + 1
            /\ \A f \in AuditFields \ {"deferred"} : u[f] = ui[f]
        BY <1>0, Zenon DEF AuditFields
      <3> HIDE DEF u
      <3> QED
        BY <2>1, <3>1, <3>2, Zenon DEF u
    <2>3. CASE AuditLog!onPageSizeChange
      <3> DEFINE u == [ui EXCEPT !.deferred = @ + 1]
      <3>1. AuditLog!click(u)
        BY <2>3, Zenon DEF AuditLog!onPageSizeChange
      <3>2. /\ AuditFields \subseteq DOMAIN u /\ u.deferred = ui.deferred + 1
            /\ \A f \in AuditFields \ {"deferred"} : u[f] = ui[f]
        BY <1>0, Zenon DEF AuditFields
      <3> HIDE DEF u
      <3> QED
        BY <2>1, <3>1, <3>2
    <2> QED
      BY <1>4, <2>2, <2>3
  <1>5. ASSUME NEW which, AuditLog!SetupAnswered(which) PROVE AuditInv(ui')
    <2>1. \A f \in AuditFields \ {"timer"} : ui'[f] = ui[f]
      BY <1>0, <1>5, Zenon DEF AuditFields, AuditLog!SetupAnswered, AuditLog!resetTimer
    <2>2. AuditFields \subseteq DOMAIN ui'
      BY <1>0, <1>5, Zenon DEF AuditFields, AuditLog!SetupAnswered, AuditLog!resetTimer
    <2>3. /\ ui'.flag = ui.flag /\ ui'.auditlog = ui.auditlog /\ ui'.requests = ui.requests
          /\ ui'.failed = ui.failed /\ ui'.overtaken = ui.overtaken
          /\ ui'.zero = ui.zero /\ ui'.debounce = ui.debounce /\ ui'.deferred = ui.deferred
          /\ AuditLog!search(ui') = AuditLog!search(ui)
      BY <2>1, Zenon DEF AuditFields, AuditLog!search
    <2> QED
      BY <1>0, <2>2, <2>3, Zenon DEF AuditInv, WillSearch
  <1>6. ASSUME NEW i \in DOMAIN ui.requests, AuditLog!AnswerArrives(i) PROVE AuditInv(ui')
    <2> DEFINE rest == AuditLog!RemoveAt(ui.requests, i)
    <2>1. /\ AuditFields \subseteq DOMAIN ui' /\ ui'.flag = ui.flag
          /\ ui'.auditlog = {ui.requests[i]} /\ ui'.requests = rest
          /\ ui'.failed = ui.failed /\ ui'.overtaken = (ui.overtaken \/ i # 1)
          /\ ui'.zero = ui.zero /\ ui'.debounce = ui.debounce /\ ui'.deferred = ui.deferred
          /\ AuditLog!search(ui') = AuditLog!search(ui)
      BY <1>0, <1>6, Zenon DEF AuditFields, AuditLog!AnswerArrives, AuditLog!resetTimer, AuditLog!search
    <2>2. /\ IsSequence(rest) /\ Len(ui.requests) \in Nat /\ i \in 1..Len(ui.requests)
          /\ DOMAIN rest = 1..(Len(ui.requests) - 1) /\ Len(rest) = Len(ui.requests) - 1
          /\ \A j \in 1..(Len(ui.requests) - 1) :
                rest[j] = IF j < i THEN ui.requests[j] ELSE ui.requests[j + 1]
      <3>1. rest = cut(ui.requests, i)
        BY RemovesAt
      <3> HIDE DEF rest
      <3>2. i \in DOMAIN ui.requests /\ IsSequence(ui.requests)
        BY <1>0
      <3> QED
        BY <3>1, <3>2, Cut, Zenon
    <2> HIDE DEF rest
    <2>3. ASSUME i = 1, Searched(ui.flag, ui.requests, ui.auditlog)
          PROVE  Searched(ui'.flag, ui'.requests, ui'.auditlog)
      <3>1. ui.requests # <<>>
        BY <2>2
      <3>2. ui.flag = {ui.requests[Len(ui.requests)]}
        BY <2>3, <3>1 DEF Searched
      <3>3. CASE rest = <<>>
        <4>1. Len(ui.requests) = 1
          BY <2>2, <3>3
        <4> QED
          BY <2>1, <2>3, <3>2, <3>3, <4>1 DEF Searched
      <3>4. CASE rest # <<>>
        <4>1. PICK S : rest \in Seq(S)
          BY <2>2 DEF IsSequence
        <4>2. Len(rest) # 0
          BY <3>4, <4>1
        <4>3. Len(ui.requests) - 1 \in 1..(Len(ui.requests) - 1) /\ ~(Len(ui.requests) - 1 < 1)
          <5>1. Len(rest) = Len(ui.requests) - 1 /\ Len(ui.requests) \in Nat /\ i \in 1..Len(ui.requests)
            BY <2>2
          <5> DEFINE n == Len(ui.requests)
          <5>2. n \in Nat /\ n # 0 /\ n - 1 # 0
            BY <4>2, <5>1
          <5> HIDE DEF n
          <5>3. n - 1 \in 1..(n - 1) /\ ~(n - 1 < 1)
            BY <5>2
          <5> QED
            BY <5>3 DEF n
        <4>4. rest[Len(rest)] = ui.requests[Len(ui.requests)]
          BY <2>2, <2>3, <4>3
        <4> QED
          BY <2>1, <3>2, <3>4, <4>4 DEF Searched
      <3> QED
        BY <3>3, <3>4
    <2>4. ui'.overtaken \in BOOLEAN /\ (~ui'.overtaken => ~ui.overtaken /\ i = 1)
      BY <2>1, Zenon
    <2> QED
      BY <1>0, <2>1, <2>2, <2>3, <2>4, Zenon DEF AuditInv, WillSearch
  <1>7. ASSUME NEW i \in DOMAIN ui.requests, AuditLog!RequestFails(i) PROVE AuditInv(ui')
    <2>1. /\ AuditFields \subseteq DOMAIN ui' /\ ui'.flag = ui.flag
          /\ ui'.requests = AuditLog!RemoveAt(ui.requests, i)
          /\ ui'.failed = TRUE /\ ui'.overtaken = ui.overtaken
          /\ ui'.zero = ui.zero /\ ui'.debounce = ui.debounce /\ ui'.deferred = ui.deferred
          /\ AuditLog!search(ui') = AuditLog!search(ui)
      BY <1>0, <1>7, Zenon DEF AuditFields, AuditLog!RequestFails, AuditLog!search
    <2>2. IsSequence(ui'.requests)
      BY <1>0, <2>1, Cut, RemovesAt
    <2> QED
      BY <1>0, <2>1, <2>2, Zenon DEF AuditInv, WillSearch
  <1>8. CASE AuditLog!TimerFires \/ AuditLog!DeferredRefresh
    <2>1. PICK u : /\ ui' = AuditLog!refreshData(u) /\ AuditFields \subseteq DOMAIN u
                   /\ \A f \in AuditFields \ {"timer", "deferred"} : u[f] = ui[f]
                   /\ u.deferred \in Nat
      <3>1. CASE AuditLog!TimerFires
        <4> DEFINE u == [ui EXCEPT !.timer = FALSE]
        <4>1. /\ ui' = AuditLog!refreshData(u) /\ AuditFields \subseteq DOMAIN u
              /\ \A f \in AuditFields \ {"timer", "deferred"} : u[f] = ui[f]
              /\ u.deferred = ui.deferred
          BY <1>0, <3>1, Zenon DEF AuditFields, AuditLog!TimerFires, AuditLog!refreshLoop
        <4> QED
          BY <1>0, <4>1, Zenon
      <3>2. CASE AuditLog!DeferredRefresh
        <4> DEFINE u == [ui EXCEPT !.deferred = @ - 1]
        <4>1. /\ ui' = AuditLog!refreshData(u) /\ AuditFields \subseteq DOMAIN u
              /\ \A f \in AuditFields \ {"timer", "deferred"} : u[f] = ui[f]
              /\ u.deferred = ui.deferred - 1 /\ ui.deferred > 0
          BY <1>0, <3>2, Zenon DEF AuditFields, AuditLog!DeferredRefresh
        <4> HIDE DEF u
        <4>2. u.deferred \in Nat
          BY <1>0, <4>1
        <4> QED
          BY <4>1, <4>2, Zenon
      <3> QED
        BY <1>8, <3>1, <3>2
    <2>2. /\ u.flag = ui.flag /\ u.auditlog = ui.auditlog /\ u.requests = ui.requests
          /\ u.failed = ui.failed /\ u.overtaken = ui.overtaken
          /\ u.zero = ui.zero /\ u.debounce = ui.debounce
      BY <2>1, Zenon DEF AuditFields
    <2> QED
      BY <1>0, <2>1, <2>2, Refreshed, Zenon
  <1>9. CASE AuditLog!DebounceFires \/ AuditLog!ZeroTimerFires
    <2>1. /\ AuditFields \subseteq DOMAIN ui' /\ ui'.flag = ui.flag /\ ui'.auditlog = ui.auditlog
          /\ ui'.requests = ui.requests /\ ui'.failed = ui.failed /\ ui'.overtaken = ui.overtaken
          /\ \/ ui'.zero = ui.zero /\ ui'.debounce = FALSE /\ ui'.deferred = ui.deferred + 1
             \/ ui.zero > 0 /\ ui'.zero = ui.zero - 1 /\ ui'.debounce = TRUE /\ ui'.deferred = ui.deferred
      <3>1. CASE AuditLog!DebounceFires
        BY <1>0, <3>1, Zenon DEF AuditFields, AuditLog!DebounceFires
      <3>2. CASE AuditLog!ZeroTimerFires
        BY <1>0, <3>2, Zenon DEF AuditFields, AuditLog!ZeroTimerFires
      <3> QED
        BY <1>9, <3>1, <3>2, Zenon
    <2>2. ui'.zero \in Nat /\ ui'.deferred \in Nat /\ (ui'.debounce = TRUE \/ ui'.deferred > 0)
      BY <1>0, <2>1
    <2>3. SameSearch(ui, ui') /\ WillSearch(ui')
      BY <2>1, <2>2, Zenon DEF SameSearch, WillSearch
    <2> QED
      BY <2>3, SameSearchKept
  <1>10. CASE AuditLog!Rests
    BY <1>10 DEF AuditLog!Rests, AuditInv
  <1> QED
    BY <1>2, <1>3, <1>4, <1>5, <1>6, <1>7, <1>8, <1>9, <1>10, Zenon
       DEF AuditLog!Users, AuditLog!Browser, AuditLog!AnyAnswer

\* A page that rests will not search, so what it shows is what was searched for last.
LEMMA AuditFresh == ASSUME AuditInv(ui) PROVE AuditLog!QuietMeansFresh
  <1> SUFFICES ASSUME AuditLog!quiet(ui), ~ui.failed, ~ui.overtaken
               PROVE  ui.auditlog = {AuditLog!search(ui)}
    BY Zenon DEF AuditLog!QuietMeansFresh
  <1>1. ui.requests = <<>> /\ ui.zero = 0 /\ ui.deferred = 0 /\ ~ui.debounce
    BY Zenon DEF AuditLog!quiet
  <1>2. ~(ui.zero > 0) /\ ~(ui.deferred > 0)
    BY <1>1
  <1>3. ~WillSearch(ui)
    BY <1>1, <1>2, Zenon DEF WillSearch
  <1>4. Searched(ui.flag, ui.requests, ui.auditlog) /\ ui.flag = {AuditLog!search(ui)}
    BY <1>3, Zenon DEF AuditInv
  <1> QED
    BY <1>1, <1>4, Zenon DEF Searched

-----------------------------------------------------------------------------
(* The two pages together: what they keep, from the start and with every step, and what *)
(* that promises.                                                                       *)

HistoryKeeps(u, s) == HistoryType(u) /\ HistoryAlive(u) /\ HistoryFresh(u, s) /\ HistoryMarks(u)

HistoriesKeep == /\ open = "history" => HistoryKeeps(ui, server)
                 /\ open = "audit" => AuditInv(ui)

\* Whichever of the two pages opens, its invariant holds.
LEMMA HistoriesStart == ASSUME InitHistories PROVE HistoriesKeep
  <1>1. History!Init => HistoryKeeps(ui, server)
    BY HistoryStart, HistoryStartFresh, HistoryStartMarks, Zenon DEF HistoryKeeps
  <1> QED
    BY <1>1, AuditStart, Zenon DEF InitHistories, HistoriesKeep

\* A step of the open page keeps its invariant and leaves the other closed.
LEMMA HistoriesStep ==
    ASSUME HistoriesKeep, NextHistories
    PROVE  HistoriesKeep' /\ open' = open /\ open \in {"history", "audit"}
  <1>1. ASSUME on("history"), History!Next
        PROVE  HistoryKeeps(ui', server') /\ open = "history" /\ open' = "history"
    <2>1. HistoryFresh(ui, server) => {"requests", "queryString", "crossed"} \subseteq DOMAIN ui
      BY Zenon DEF HistoryFresh, HistoryKnows, FreshFields
    <2> QED
      BY <1>1, <2>1, HistoryStep, HistoryStepFresh, HistoryStepMarks, Zenon
         DEF HistoriesKeep, HistoryKeeps, on
  <1>2. ASSUME on("audit"), AuditLog!Next
        PROVE  AuditInv(ui') /\ open = "audit" /\ open' = "audit"
    BY <1>2, AuditStep, Zenon DEF HistoriesKeep, on
  <1> QED
    BY <1>1, <1>2, Zenon DEF HistoriesKeep, NextHistories

\* Nothing happens to them while another page is open, or when nothing happens.
LEMMA HistoriesRest ==
    ASSUME HistoriesKeep, UNCHANGED vars \/ (UNCHANGED open /\ open \notin {"history", "audit"})
    PROVE  HistoriesKeep'
  <1>1. CASE UNCHANGED vars
    BY <1>1, Zenon DEF HistoriesKeep, vars
  <1>2. CASE UNCHANGED open /\ open \notin {"history", "audit"}
    BY <1>2, Zenon DEF HistoriesKeep
  <1> QED
    BY <1>1, <1>2

\* What the invariant of the history page says of its properties.
LEMMA HistoryPromises ==
    ASSUME HistoryKeeps(ui, server)
    PROVE  History!PollingAlive /\ History!QuietMeansFresh /\ History!SelectAllMeansAll
  BY FetchedAtRest, HistoryShowsMarks, Zenon DEF HistoryKeeps, HistoryAlive, History!PollingAlive
=============================================================================
