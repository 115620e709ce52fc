--------------------------- MODULE WebEditorProofs ---------------------------
(***************************************************************************)
(* Proofs about the parts of the query editor: for each part an invariant, *)
(* that it holds at first and after every step, and that it gives what is  *)
(* promised of the part; at the end the theorems about all of them.  The   *)
(* parts that need no induction come first, since the prover's time grows  *)
(* with the facts in sight.                                                *)
(***************************************************************************)
EXTENDS WebEditor, TLAPS

-----------------------------------------------------------------------------
(* Lists: what is appended to them and taken out of them *)

IsSequence(s) == \E S : s \in Seq(S)

\* A sequence with one element more.
LEMMA Appended ==
    ASSUME NEW s, IsSequence(s), NEW e
    PROVE  /\ IsSequence(Append(s, e)) /\ Append(s, e) # <<>>
           /\ Len(s) \in Nat /\ DOMAIN s = 1..Len(s) /\ Len(Append(s, e)) = Len(s) + 1
           /\ DOMAIN Append(s, e) = 1..(Len(s) + 1)
           /\ Append(s, e)[Len(s) + 1] = e
           /\ \A i \in 1..Len(s) : Append(s, e)[i] = s[i]
  <1>1. PICK S : s \in Seq(S)
    BY DEF IsSequence
  <1>2. s \in Seq(S \cup {e}) /\ e \in S \cup {e}
    BY <1>1
  <1>3. Append(s, e) \in Seq(S \cup {e}) /\ Len(Append(s, e)) = Len(s) + 1 /\ Len(s) \in Nat
    BY <1>2
  <1>4. Append(s, e)[Len(s) + 1] = e /\ \A i \in 1..Len(s) : Append(s, e)[i] = s[i]
    BY <1>2
  <1> QED
    BY <1>1, <1>3, <1>4 DEF IsSequence

\* A sequence without one of its elements.
LEMMA Cut ==
    ASSUME NEW s, IsSequence(s), NEW i \in DOMAIN s
    PROVE  /\ IsSequence(RemoveAt(s, i))
           /\ Len(s) \in Nat /\ DOMAIN s = 1..Len(s) /\ Len(RemoveAt(s, i)) = Len(s) - 1
           /\ DOMAIN RemoveAt(s, i) = 1..(Len(s) - 1)
           /\ \A j \in 1..(Len(s) - 1) : RemoveAt(s, i)[j] = IF j < i THEN s[j] ELSE s[j + 1]
  <1>1. PICK S : s \in Seq(S)
    BY DEF IsSequence
  <1>2. Len(s) \in Nat /\ i \in 1..Len(s) /\ DOMAIN s = 1..Len(s)
    BY <1>1
  <1> DEFINE a == SubSeq(s, 1, i - 1)
             b == SubSeq(s, i + 1, Len(s))
  <1>3. /\ a \in Seq(S) /\ b \in Seq(S) /\ Len(a) = i - 1 /\ Len(b) = Len(s) - i
        /\ \A j \in 1..(i - 1) : a[j] = s[j]
        /\ \A j \in 1..(Len(s) - i) : b[j] = s[i + j]
    <2>1. a \in Seq(S) /\ Len(a) = i - 1 /\ \A j \in 1..(i - 1) : a[j] = s[j]
      BY <1>1, <1>2
    <2>2. b \in Seq(S) /\ Len(b) = Len(s) - i
      BY <1>1, <1>2
    <2>3. \A j \in 1..(Len(s) - i) : b[j] = s[i + j]
      BY <1>1, <1>2
    <2> QED
      BY <2>1, <2>2, <2>3
  <1>9. Len(a) = i - 1 /\ Len(b) = Len(s) - i
    BY <1>3, Zenon
  <1>8. a \in Seq(S) /\ b \in Seq(S)
    BY <1>3, Zenon
  <1> HIDE DEF a, b
  <1>4. /\ a \o b \in Seq(S) /\ Len(a \o b) = Len(a) + Len(b)
        /\ \A j \in 1..(Len(a) + Len(b)) : (a \o b)[j] = IF j <= Len(a) THEN a[j] ELSE b[j - Len(a)]
    BY <1>8
  <1> DEFINE c == a \o b
  <1> HIDE DEF c
  <1>5. c \in Seq(S) /\ Len(c) = Len(s) - 1 /\ DOMAIN c = 1..(Len(s) - 1)
    <2>1. c \in Seq(S) /\ Len(c) = Len(a) + Len(b)
      BY <1>4 DEF c
    <2>2. Len(c) = Len(s) - 1
      BY <1>2, <1>9, <2>1
    <2> QED
      BY <2>1, <2>2
  <1>6. ASSUME NEW j \in 1..(Len(s) - 1) PROVE c[j] = IF j < i THEN s[j] ELSE s[j + 1]
    <2>1. CASE j < i
      <3>1. j \in 1..(i - 1) /\ j \in 1..(Len(a) + Len(b)) /\ j <= Len(a)
        BY <1>2, <1>6, <1>9, <2>1
      <3> QED
        BY <1>3, <1>4, <2>1, <3>1, Zenon DEF c
    <2>2. CASE ~(j < i)
      <3>1. c[j] = b[j - (i - 1)]
        <4>1. j \in 1..(Len(a) + Len(b)) /\ ~(j <= Len(a))
          BY <1>2, <1>6, <1>9, <2>2
        <4> QED
          BY <1>4, <1>9, <4>1, Zenon DEF c
      <3>2. j - (i - 1) \in 1..(Len(s) - i) /\ i + (j - (i - 1)) = j + 1
        BY <1>2, <1>6, <2>2
      <3>3. b[j - (i - 1)] = s[i + (j - (i - 1))]
        BY <1>3, <3>2, Zenon
      <3> QED
        BY <2>2, <3>1, <3>2, <3>3, Zenon
    <2> QED
      BY <2>1, <2>2
  <1>7. RemoveAt(s, i) = c
    BY DEF RemoveAt, a, b, c
  <1> QED
    BY <1>2, <1>5, <1>6, <1>7, Zenon DEF IsSequence

\* The empty sequence is one.
LEMMA EmptySequence == IsSequence(<<>>) /\ DOMAIN <<>> = {}
  <1>1. <<>> \in Seq({})
    OBVIOUS
  <1>2. DOMAIN <<>> = {}
    OBVIOUS
  <1> QED
    BY <1>1, <1>2, Zenon DEF IsSequence

\* The indices of a sequence.
LEMMA SequenceFacts ==
    ASSUME NEW s, IsSequence(s)
    PROVE  Len(s) \in Nat /\ DOMAIN s = 1..Len(s) /\ (s = <<>> <=> Len(s) = 0)
  <1>1. PICK S : s \in Seq(S)
    BY DEF IsSequence
  <1> QED
    BY <1>1

\* A function on 1..n is a sequence.
LEMMA SequenceOf ==
    ASSUME NEW f, NEW n \in Nat, f = [i \in 1..n |-> f[i]]
    PROVE  IsSequence(f)
  <1> DEFINE S == {f[i] : i \in 1..n}
  <1>1. f \in [1..n -> S]
    BY Zenon
  <1>2. [1..n -> S] \subseteq Seq(S)
    OBVIOUS
  <1> QED
    BY <1>1, <1>2, Zenon DEF IsSequence

\* A sequence with one element replaced.
LEMMA Replaced ==
    ASSUME NEW s, IsSequence(s), NEW i, NEW e
    PROVE  IsSequence([s EXCEPT ![i] = e]) /\ DOMAIN [s EXCEPT ![i] = e] = DOMAIN s
  <1> DEFINE t == [s EXCEPT ![i] = e]
  <1>1. Len(s) \in Nat /\ DOMAIN s = 1..Len(s)
    BY SequenceFacts, Zenon
  <1>2. t = [j \in DOMAIN s |-> t[j]] /\ DOMAIN t = DOMAIN s
    BY Zenon
  <1> HIDE DEF t
  <1>3. IsSequence(t)
    BY <1>1, <1>2, SequenceOf, Zenon
  <1> QED
    BY <1>2, <1>3, Zenon DEF t

\* Sequences with the same indices are equally long.
LEMMA SameLength ==
    ASSUME NEW s, NEW t, IsSequence(s), IsSequence(t), DOMAIN s = DOMAIN t
    PROVE  Len(s) = Len(t)
  <1>1. \A m, n \in Nat : 1..m = 1..n => m = n
    OBVIOUS
  <1> QED
    BY <1>1, SequenceFacts, Zenon

\* Two lists that grow and shrink together stay of one length.
Paired(s, t) == IsSequence(s) /\ IsSequence(t) /\ DOMAIN s = DOMAIN t

\* Two paired sequences that both grow stay paired.
LEMMA AppendBoth ==
    ASSUME NEW s, NEW t, Paired(s, t), NEW d, NEW e
    PROVE  Paired(Append(s, d), Append(t, e))
  <1>1. IsSequence(s) /\ IsSequence(t) /\ Len(s) = Len(t)
    BY SameLength, Zenon DEF Paired
  <1>2. IsSequence(Append(s, d)) /\ DOMAIN Append(s, d) = 1..(Len(s) + 1)
    BY <1>1, Appended, Zenon
  <1>3. IsSequence(Append(t, e)) /\ DOMAIN Append(t, e) = 1..(Len(t) + 1)
    BY <1>1, Appended, Zenon
  <1> QED
    BY <1>1, <1>2, <1>3, Zenon DEF Paired

\* Two paired sequences that both lose an index stay paired.
LEMMA CutBoth ==
    ASSUME NEW s, NEW t, Paired(s, t), NEW i \in DOMAIN s
    PROVE  Paired(RemoveAt(s, i), RemoveAt(t, i))
  <1>1. IsSequence(s) /\ IsSequence(t) /\ Len(s) = Len(t) /\ i \in DOMAIN t
    BY SameLength, Zenon DEF Paired
  <1>2. IsSequence(RemoveAt(s, i)) /\ DOMAIN RemoveAt(s, i) = 1..(Len(s) - 1)
    BY <1>1, Cut, Zenon
  <1>3. IsSequence(RemoveAt(t, i)) /\ DOMAIN RemoveAt(t, i) = 1..(Len(t) - 1)
    BY <1>1, Cut, Zenon
  <1> QED
    BY <1>1, <1>2, <1>3, Zenon DEF Paired

\* A list of one value for every element.
LEMMA PairedOf ==
    ASSUME NEW s, IsSequence(s), NEW t, t = [i \in DOMAIN s |-> t[i]]
    PROVE  Paired(s, t)
  <1>1. Len(s) \in Nat /\ DOMAIN s = 1..Len(s)
    BY SequenceFacts, Zenon
  <1>2. t = [i \in 1..Len(s) |-> t[i]] /\ DOMAIN t = DOMAIN s
    BY <1>1, Zenon
  <1> QED
    BY <1>1, <1>2, SequenceOf, Zenon DEF Paired

\* Every element of a list that is one longer or shorter was there, or is the new one.
LEMMA AppendedElements ==
    ASSUME NEW s, IsSequence(s), NEW e
    PROVE  \A i \in DOMAIN Append(s, e) :
              (i \in DOMAIN s /\ Append(s, e)[i] = s[i]) \/ (i = Len(s) + 1 /\ Append(s, e)[i] = e)
  <1>1. Len(s) \in Nat /\ DOMAIN s = 1..Len(s) /\ DOMAIN Append(s, e) = 1..(Len(s) + 1)
    BY Appended, Zenon
  <1>2. Append(s, e)[Len(s) + 1] = e
    BY Appended, Zenon
  <1>4. \A i \in 1..Len(s) : Append(s, e)[i] = s[i]
    BY Appended, SMT
  <1>3. \A n \in Nat : \A i \in 1..(n + 1) : i \in 1..n \/ i = n + 1
    OBVIOUS
  <1> QED
    BY <1>1, <1>2, <1>3, <1>4, Zenon

Remains(s, i) == \A j \in DOMAIN RemoveAt(s, i) : \E k \in DOMAIN s : RemoveAt(s, i)[j] = s[k]
\* What remains of a sequence was in it.
LEMMA RemainingElements ==
    ASSUME NEW s, IsSequence(s), NEW i \in DOMAIN s
    PROVE  Remains(s, i)
  <1>1. Len(s) \in Nat /\ DOMAIN s = 1..Len(s) /\ DOMAIN RemoveAt(s, i) = 1..(Len(s) - 1)
    BY Cut, Zenon
  <1>2. \A j \in 1..(Len(s) - 1) : RemoveAt(s, i)[j] = IF j < i THEN s[j] ELSE s[j + 1]
    BY Cut, Zenon
  <1>3. \A n \in Nat : \A j \in 1..(n - 1) : j \in 1..n /\ j + 1 \in 1..n
    OBVIOUS
  <1> QED
    BY <1>1, <1>2, <1>3, Zenon DEF Remains

-----------------------------------------------------------------------------
(* The preview of a table *)

TableFields == {"tables", "activeTable", "chosen", "selectedTableName", "requests", "clicks"}

\* No table, or the one that was chosen, with its own columns.
Shows(tables, activeTable, name) ==
    \/ DOMAIN tables = {} /\ activeTable = {}
    \/ /\ DOMAIN tables = {1} /\ activeTable = {1}
       /\ {"name", "active", "data"} \subseteq DOMAIN tables[1]
       /\ tables[1].name = name /\ tables[1].active = TRUE
       /\ \A data \in tables[1].data : data[1] = name

TableInv(u) ==
    /\ TableFields \subseteq DOMAIN u
    /\ Shows(u.tables, u.activeTable, u.chosen.name)
    /\ u.chosen.fromTree => u.selectedTableName = u.chosen.name

SameTable(u, v) ==
    TableFields \subseteq DOMAIN v /\ \A f \in TableFields \ {"requests", "clicks"} : v[f] = u[f]

\* What changes nothing of the tables keeps the invariant.
LEMMA SameTableShown ==
    ASSUME NEW u, NEW v, SameTable(u, v), TableInv(u)
    PROVE  TableInv(v)
  BY Zenon DEF SameTable, TableInv, TableFields

\* The preview starts so.
LEMMA TableStart == ASSUME InitTable PROVE TableInv(ui)
  <1>1. /\ TableFields \subseteq DOMAIN ui /\ ui.tables = <<>> /\ ui.activeTable = {}
        /\ ui.chosen.fromTree = FALSE
    BY Zenon DEF InitTable, constructorTable, noTable, TableFields
  <1> QED
    BY <1>1 DEF TableInv, Shows

Chosen(u, v, name, fromTree) ==
    /\ TableFields \subseteq DOMAIN v /\ Shows(v.tables, v.activeTable, name)
    /\ v.chosen.name = name /\ v.chosen.fromTree = fromTree
    /\ v.selectedTableName = u.selectedTableName

\* chooses: the table that was chosen is the only one.
LEMMA TableChosen ==
    ASSUME NEW u, TableFields \subseteq DOMAIN u, NEW name, NEW fromTree
    PROVE  Chosen(u, chooses(u, name, fromTree), name, fromTree)
  <1> DEFINE row == [name |-> name, active |-> TRUE, data |-> {}, resized |-> FALSE]
             a == onAddTable(u, name)
             b == unmarkActiveTables(a)
             c == markActive(a, name)
             v == chooses(u, name, fromTree)
  <1>1. /\ TableFields \subseteq DOMAIN a /\ a.tables = <<row>>
        /\ a.selectedTableName = u.selectedTableName
    BY Zenon DEF TableFields, onAddTable, unmarkActiveTables, noTable
  <1> HIDE DEF a
  <1>2. /\ TableFields \subseteq DOMAIN b /\ b.selectedTableName = u.selectedTableName
        /\ b.tables = [i \in DOMAIN a.tables |-> [a.tables[i] EXCEPT !.active = FALSE]]
    BY <1>1, Zenon DEF TableFields, unmarkActiveTables
  <1>3. /\ DOMAIN b.tables = {1} /\ {"name", "active", "data"} \subseteq DOMAIN b.tables[1]
        /\ b.tables[1].name = name /\ b.tables[1].data = {}
    BY <1>1, <1>2
  <1> HIDE DEF b
  <1>4. getByName(b, name) = {1}
    BY <1>3 DEF getByName
  <1>5. /\ TableFields \subseteq DOMAIN c /\ c.selectedTableName = u.selectedTableName
        /\ c.activeTable = {1}
        /\ c.tables = [i \in DOMAIN b.tables |->
                         IF i \in {1} THEN [b.tables[i] EXCEPT !.active = TRUE] ELSE b.tables[i]]
    BY <1>2, <1>4, Zenon DEF TableFields, markActive, b
  <1>6. Shows(c.tables, c.activeTable, name)
    <2>1. DOMAIN c.tables = {1} /\ c.tables[1] = [b.tables[1] EXCEPT !.active = TRUE]
      BY <1>3, <1>5, Zenon
    <2> QED
      BY <1>3, <1>5, <2>1, Zenon DEF Shows
  <1> HIDE DEF c
  <1>7. /\ TableFields \subseteq DOMAIN v /\ v.tables = c.tables /\ v.activeTable = c.activeTable
        /\ v.chosen = [name |-> name, fromTree |-> fromTree]
        /\ v.selectedTableName = c.selectedTableName
    BY <1>5, Zenon DEF TableFields, chooses, a, c
  <1> HIDE DEF v
  <1>8. v.chosen.name = name /\ v.chosen.fromTree = fromTree
    BY <1>7
  <1> QED
    BY <1>5, <1>6, <1>7, <1>8, Zenon DEF Chosen, v

\* Every step of the preview keeps the invariant.
LEMMA TableStep ==
    ASSUME TableInv(ui), NextTable
    PROVE  TableInv(ui')
  <1>0. TableFields \subseteq DOMAIN ui
    BY Zenon DEF TableInv
  <1>1. ASSUME NEW name, showColumns(name) \/ previewData(name)
        PROVE  TableInv(ui')
    <2> DEFINE u == selectTable(ui, name)
               v == chooses(u, name, TRUE)
    <2>1. TableFields \subseteq DOMAIN u /\ u.selectedTableName = name
      BY <1>0, Zenon DEF selectTable, TableFields
    <2> HIDE DEF u
    <2>2. Chosen(u, v, name, TRUE)
      BY <2>1, TableChosen, Zenon
    <2> HIDE DEF v
    <2>3. TableInv(v) /\ TableFields \subseteq DOMAIN v
      BY <2>1, <2>2, Zenon DEF TableInv, Chosen
    <2>4. \/ ui' = [[v EXCEPT !.selectedLeftPanelTab = "LEFT_PANEL_COLUMNS"] EXCEPT !.clicks = @ + 1]
          \/ ui' = [[v EXCEPT !.selectedTab = "DATA_PREVIEW"] EXCEPT !.clicks = @ + 1]
      BY <1>1, Zenon DEF showColumns, previewData, does, u, v
    <2>5. SameTable(v, ui')
      BY <2>3, <2>4, Zenon DEF SameTable, TableFields
    <2> QED
      BY <2>3, <2>5, SameTableShown, Zenon
  <1>2. ASSUME NEW name, selectOutput(name)
        PROVE  TableInv(ui')
    <2> DEFINE v == chooses(ui, name, FALSE)
    <2>1. Chosen(ui, v, name, FALSE)
      BY <1>0, TableChosen, Zenon
    <2> HIDE DEF v
    <2>2. TableInv(v) /\ TableFields \subseteq DOMAIN v
      BY <2>1, Zenon DEF TableInv, Chosen
    <2>3. ui' = [[v EXCEPT !.selectedTab = "DATA_PREVIEW"] EXCEPT !.clicks = @ + 1]
      BY <1>2, Zenon DEF selectOutput, does, v
    <2>4. SameTable(v, ui')
      BY <2>2, <2>3, Zenon DEF SameTable, TableFields
    <2> QED
      BY <2>2, <2>4, SameTableShown, Zenon
  <1>3. ASSUME NEW tab, onSelectTab(tab) \/ onSelectLeftPanelTab(tab)
        PROVE  TableInv(ui')
    <2>1. SameTable(ui, ui')
      BY <1>0, <1>3, Zenon DEF onSelectTab, onSelectLeftPanelTab, does, SameTable, TableFields
    <2> QED
      BY <2>1, SameTableShown, Zenon
  \* A change of the tables that keeps which they are and whose columns they hold.
  <1>4. ASSUME TableFields \subseteq DOMAIN ui', DOMAIN ui'.tables = DOMAIN ui.tables,
               \A f \in {"activeTable", "chosen", "selectedTableName"} : ui'[f] = ui[f],
               \A i \in DOMAIN ui.tables :
                  /\ DOMAIN ui'.tables[i] = DOMAIN ui.tables[i]
                  /\ \A f \in {"name", "active"} \cap DOMAIN ui.tables[i] : ui'.tables[i][f] = ui.tables[i][f]
                  /\ {"name", "data"} \subseteq DOMAIN ui.tables[i] =>
                       \A data \in ui'.tables[i].data : data \in ui.tables[i].data \/ data[1] = ui.tables[i].name
        PROVE  TableInv(ui')
    <2>1. CASE DOMAIN ui.tables = {} /\ ui.activeTable = {}
      BY <1>4, <2>1, Zenon DEF TableInv, Shows
    <2>2. CASE DOMAIN ui.tables = {1} /\ ui.activeTable = {1}
      <3> DEFINE r == ui.tables[1]
                 s == ui'.tables[1]
      <3>1. /\ {"name", "active", "data"} \subseteq DOMAIN r /\ r.name = ui.chosen.name /\ r.active = TRUE
            /\ \A data \in r.data : data[1] = ui.chosen.name
        BY <2>2, Zenon DEF TableInv, Shows
      <3>2. 1 \in DOMAIN ui.tables
        BY <2>2, Zenon
      <3>3. /\ DOMAIN s = DOMAIN r /\ s.name = r.name /\ s.active = r.active
            /\ \A data \in s.data : data \in r.data \/ data[1] = r.name
        BY <1>4, <3>1, <3>2, Zenon
      <3> HIDE DEF r
      <3>4. Shows(ui'.tables, ui'.activeTable, ui'.chosen.name)
        BY <1>4, <2>2, <3>1, <3>3, Zenon DEF Shows
      <3> QED
        BY <1>4, <3>4, Zenon DEF TableInv
    <2> QED
      BY <2>1, <2>2, Zenon DEF TableInv, Shows
  <1>5. CASE onSetTableColumnWidth
    <2>1. /\ TableFields \subseteq DOMAIN ui'
          /\ \A f \in {"activeTable", "chosen", "selectedTableName"} : ui'[f] = ui[f]
          /\ ui'.tables = [i \in DOMAIN ui.tables |->
                IF i \in ui.activeTable THEN [ui.tables[i] EXCEPT !.resized = TRUE] ELSE ui.tables[i]]
      BY <1>0, <1>5, Zenon DEF onSetTableColumnWidth, does, TableFields
    <2>2. DOMAIN ui'.tables = DOMAIN ui.tables
      BY <2>1, Zenon
    <2>3. ASSUME NEW i \in DOMAIN ui.tables
          PROVE  /\ DOMAIN ui'.tables[i] = DOMAIN ui.tables[i]
                 /\ \A f \in {"name", "active"} \cap DOMAIN ui.tables[i] : ui'.tables[i][f] = ui.tables[i][f]
                 /\ {"name", "data"} \subseteq DOMAIN ui.tables[i] =>
                       \A data \in ui'.tables[i].data : data \in ui.tables[i].data \/ data[1] = ui.tables[i].name
      <3>1. ui'.tables[i] = ui.tables[i] \/ ui'.tables[i] = [ui.tables[i] EXCEPT !.resized = TRUE]
        BY <2>1, Zenon
      <3> QED
        BY <3>1, Zenon
    <2> QED
      BY <1>4, <2>1, <2>2, <2>3, Zenon
  <1>6. ASSUME NEW i, TableArrives(i)
        PROVE  TableInv(ui')
    <2> DEFINE name == ui.requests[i]
               data == <<ui.requests[i], server>>
               ids == getByName(ui, name)
    <2>0. data[1] = name
      OBVIOUS
    <2> HIDE DEF name, data
    <2>1. /\ TableFields \subseteq DOMAIN ui'
          /\ \A f \in {"activeTable", "chosen", "selectedTableName"} : ui'[f] = ui[f]
          /\ ui'.tables = [j \in DOMAIN ui.tables |->
                IF j \in ids THEN [ui.tables[j] EXCEPT !.data = {data}, !.resized = FALSE] ELSE ui.tables[j]]
      BY <1>0, <1>6, Zenon DEF TableArrives, onReceivedTableData, TableFields, name, data
    <2>2. DOMAIN ui'.tables = DOMAIN ui.tables
      BY <2>1, Zenon
    <2>3. ASSUME NEW j \in DOMAIN ui.tables
          PROVE  /\ DOMAIN ui'.tables[j] = DOMAIN ui.tables[j]
                 /\ \A f \in {"name", "active"} \cap DOMAIN ui.tables[j] : ui'.tables[j][f] = ui.tables[j][f]
                 /\ {"name", "data"} \subseteq DOMAIN ui.tables[j] =>
                       \A d \in ui'.tables[j].data : d \in ui.tables[j].data \/ d[1] = ui.tables[j].name
      <3>1. \/ ui'.tables[j] = ui.tables[j]
            \/ j \in ids /\ ui'.tables[j] = [ui.tables[j] EXCEPT !.data = {data}, !.resized = FALSE]
        BY <2>1, Zenon
      <3>2. j \in ids => ui.tables[j].name = name
        BY Zenon DEF getByName
      <3> HIDE DEF ids
      <3> QED
        BY <2>0, <3>1, <3>2, Zenon
    <2> QED
      BY <1>4, <2>1, <2>2, <2>3, Zenon
  <1>7. ASSUME NEW i, TableRequestFails(i)
        PROVE  TableInv(ui')
    <2>1. SameTable(ui, ui')
      BY <1>0, <1>7, Zenon DEF TableRequestFails, SameTable, TableFields
    <2> QED
      BY <2>1, SameTableShown, Zenon
  <1>8. CASE TablesChange
    BY <1>8, Zenon DEF TablesChange
  <1> QED
    BY <1>1, <1>2, <1>3, <1>5, <1>6, <1>7, <1>8, Zenon DEF NextTable

\* What is promised of the preview follows.
LEMMA TablePromise == ASSUME TableInv(ui) PROVE ShowsChosenTable
  <1>1. CASE DOMAIN ui.tables = {} /\ ui.activeTable = {}
    <2>1. {i \in DOMAIN ui.tables : ui.tables[i].active} = ui.activeTable
      BY <1>1, Zenon
    <2> QED
      BY <1>1, <2>1, Zenon DEF TableInv, ShowsChosenTable, columnsShown
  <1>2. CASE /\ DOMAIN ui.tables = {1} /\ ui.activeTable = {1}
             /\ ui.tables[1].name = ui.chosen.name /\ ui.tables[1].active = TRUE
             /\ \A data \in ui.tables[1].data : data[1] = ui.chosen.name
    <2>1. {i \in DOMAIN ui.tables : ui.tables[i].active} = ui.activeTable
      BY <1>2, Zenon
    <2> QED
      BY <1>2, <2>1, Zenon DEF TableInv, ShowsChosenTable, columnsShown
  <1> QED
    BY <1>1, <1>2, Zenon DEF TableInv, Shows

-----------------------------------------------------------------------------
(* The form that adds a catalog *)

FormFields == {"show", "form", "forms", "fetches", "known", "templates", "requests", "updates", "clicks"}
FormParts == {"catalogName", "connectorName", "catalogProperties", "uploads", "errors", "refused"}
ErrorParts == {"catalogName", "connectorName", "submissionError", "catalogProperties", "uploads"}

\* One message for every row.
FormShape(f) ==
    /\ FormParts \subseteq DOMAIN f /\ ErrorParts \subseteq DOMAIN f.errors
    /\ Paired(f.catalogProperties, f.errors.catalogProperties)

Complete(f) ==
    /\ f.catalogName = "name" /\ f.connectorName # None
    /\ \A kind \in Kind : None \notin Range(f.uploads[kind])
    /\ \A j \in DOMAIN f.catalogProperties :
          /\ f.catalogProperties[j].text # ""
          /\ f.catalogProperties[j].files =>
                \E kind \in Kind : f.catalogProperties[j].text \in Range(f.uploads[kind])

AsksFor(demands, f, kind) == f.connectorName # None /\ kind \in demands[f.connectorName].uploads

\* A message is on the screen, or a list of files is not.
Explained(demands, f) ==
    \/ f.errors.catalogName \/ f.errors.connectorName
    \/ f.connectorName # None /\ \E i \in DOMAIN f.catalogProperties : f.errors.catalogProperties[i]
    \/ \E kind \in Kind : AsksFor(demands, f, kind) /\
          \E i \in DOMAIN f.uploads[kind] : i \in DOMAIN f.errors.uploads[kind] /\ f.errors.uploads[kind][i]
    \/ \E kind \in Kind : ~AsksFor(demands, f, kind) /\ f.uploads[kind] # <<>>

FormInv(u, demands) ==
    /\ FormFields \subseteq DOMAIN u /\ FormShape(u.form) /\ IsSequence(u.requests)
    /\ \A i \in DOMAIN u.requests : Complete(u.requests[i].posted)
    /\ u.form.refused => Explained(demands, u.form)

\* What is promised of the form follows.
LEMMA FormPromise ==
    ASSUME FormInv(ui, server) PROVE ErrorsMatchRows /\ PostedIsComplete /\ RefusalExplained
  <1>1. ErrorsMatchRows
    BY SameLength, Zenon DEF FormInv, FormShape, Paired, ErrorsMatchRows
  <1>2. PostedIsComplete
    BY Zenon DEF FormInv, Complete, PostedIsComplete
  <1>3. \A kind \in Kind : AsksFor(server, ui.form, kind) <=> enabled(kind)
    BY Zenon DEF AsksFor, enabled
  <1>4. ASSUME ui.form.refused
        PROVE  visibleErrors(ui.form) \/ \E kind \in Kind : ~enabled(kind) /\ ui.form.uploads[kind] # <<>>
    <2>1. Explained(server, ui.form)
      BY <1>4, Zenon DEF FormInv
    <2> QED
      BY <1>3, <2>1, Zenon DEF Explained, visibleErrors
  <1> QED
    BY <1>1, <1>2, <1>4, Zenon DEF RefusalExplained

\* A form that was just opened.
LEMMA FreshForm == FormShape(form) /\ form.refused = FALSE
  <1>1. /\ FormParts \subseteq DOMAIN form /\ form.catalogProperties = <<>> /\ form.errors = noErrors
        /\ form.refused = FALSE
    BY Zenon DEF form, FormParts
  <1>2. ErrorParts \subseteq DOMAIN noErrors /\ noErrors.catalogProperties = <<>>
    BY Zenon DEF noErrors, ErrorParts
  <1> QED
    BY <1>1, <1>2, EmptySequence, Zenon DEF FormShape, Paired

\* The form starts so.
LEMMA FormStart == ASSUME InitForm PROVE FormInv(ui, server)
  <1>1. FormFields \subseteq DOMAIN ui /\ ui.form = form /\ ui.requests = <<>>
    BY Zenon DEF InitForm, FormFields
  <1> QED
    BY <1>1, FreshForm, EmptySequence, Zenon DEF FormInv

\* What every handler of the form comes down to.
LEMMA FormEdited ==
    ASSUME FormInv(ui, server), NEW f, FormShape(f), edits(f)
    PROVE  FormInv(ui', server')
  <1> DEFINE g == [f EXCEPT !.refused = FALSE]
  <1>1. FormParts \subseteq DOMAIN g /\ g.refused = FALSE /\ \A x \in FormParts \ {"refused"} : g[x] = f[x]
    BY Zenon DEF FormShape, FormParts
  <1> HIDE DEF g
  <1>2. FormShape(g)
    BY <1>1, Zenon DEF FormShape, FormParts
  <1>3. ui' = [[ui EXCEPT !.form = g] EXCEPT !.clicks = @ + 1] /\ server' = server
    BY Zenon DEF edits, does, g
  <1>4. FormFields \subseteq DOMAIN ui' /\ ui'.form = g /\ ui'.requests = ui.requests
    BY <1>3, Zenon DEF FormInv, FormFields
  <1> QED
    BY <1>1, <1>2, <1>4, Zenon DEF FormInv

\* The dialog that is opened has a new form.
LEMMA FormToggled ==
    ASSUME NEW u, NEW demands, FormInv(u, demands)
    PROVE  FormInv(showModal(u), demands)
  <1>1. CASE u.show
    <2>1. showModal(u) = [u EXCEPT !.show = FALSE]
      BY <1>1, Zenon DEF showModal
    <2>2. /\ FormFields \subseteq DOMAIN showModal(u) /\ showModal(u).form = u.form
          /\ showModal(u).requests = u.requests
      BY <2>1, Zenon DEF FormInv, FormFields
    <2> QED
      BY <2>2, Zenon DEF FormInv
  <1>2. CASE ~u.show
    <2>1. showModal(u) = [[u EXCEPT !.form = form, !.forms = @ + 1, !.fetches = @ + 1] EXCEPT !.show = TRUE]
      BY <1>2, Zenon DEF showModal, mountForm
    <2>2. /\ FormFields \subseteq DOMAIN showModal(u) /\ showModal(u).form = form
          /\ showModal(u).requests = u.requests
      BY <2>1, Zenon DEF FormInv, FormFields
    <2> QED
      BY <2>2, FreshForm, Zenon DEF FormInv
  <1> QED
    BY <1>1, <1>2

\* What changes neither the form nor the requests keeps the invariant.
LEMMA FormSame ==
    ASSUME NEW u, NEW v, NEW demands, FormInv(u, demands), FormFields \subseteq DOMAIN v,
           v.form = u.form, v.requests = u.requests
    PROVE  FormInv(v, demands)
  BY Zenon DEF FormInv

\* The same rows and the same messages.
LEMMA AlikeShape ==
    ASSUME NEW f, NEW g, FormShape(f), FormParts \subseteq DOMAIN g, ErrorParts \subseteq DOMAIN g.errors,
           g.catalogProperties = f.catalogProperties, g.errors.catalogProperties = f.errors.catalogProperties
    PROVE  FormShape(g)
  BY Zenon DEF FormShape

\* A row per message, when both lists are exchanged.
LEMMA OtherRows ==
    ASSUME NEW f, NEW g, FormShape(f), FormParts \subseteq DOMAIN g, ErrorParts \subseteq DOMAIN g.errors,
           NEW s, NEW t, g.catalogProperties = s, g.errors.catalogProperties = t,
           Paired(s, t)
    PROVE  FormShape(g)
  BY Zenon DEF FormShape

\* Another name of the catalog.
LEMMA CatalogNameChanges ==
    ASSUME FormInv(ui, server), NEW name, changeCatalogName(name) PROVE FormInv(ui', server')
  <1> DEFINE g == [ui.form EXCEPT !.catalogName = name, !.errors.catalogName = @ /\ name = ""]
  <1>1. FormShape(ui.form)
    BY Zenon DEF FormInv
  <1>2. /\ FormParts \subseteq DOMAIN g /\ ErrorParts \subseteq DOMAIN g.errors
        /\ g.catalogProperties = ui.form.catalogProperties
        /\ g.errors.catalogProperties = ui.form.errors.catalogProperties
    BY <1>1, Zenon DEF FormShape, FormParts, ErrorParts
  <1>3. edits(g)
    BY Zenon DEF changeCatalogName
  <1> HIDE DEF g
  <1> QED
    BY <1>1, <1>2, <1>3, AlikeShape, FormEdited, Zenon

\* Another connector brings its own rows, without messages.
LEMMA ConnectorChanges ==
    ASSUME FormInv(ui, server), NEW connector, changeConnectorName(connector) PROVE FormInv(ui', server')
  <1> DEFINE s == rows(connector)
             t == [i \in DOMAIN rows(connector) |-> FALSE]
             g == [ui.form EXCEPT !.connectorName = connector, !.errors.connectorName = FALSE,
                     !.catalogProperties = s, !.errors.catalogProperties = t]
  <1>1. FormShape(ui.form)
    BY Zenon DEF FormInv
  <1>2. /\ FormParts \subseteq DOMAIN g /\ ErrorParts \subseteq DOMAIN g.errors
        /\ g.catalogProperties = s /\ g.errors.catalogProperties = t
    BY <1>1, Zenon DEF FormShape, FormParts, ErrorParts
  <1>3. edits(g)
    BY Zenon DEF changeConnectorName
  <1>4. IsSequence(s)
    <2>1. \A x : IsSequence(<<x>>)
      <3>1. \A x : <<x>> \in Seq({x})
        OBVIOUS
      <3> QED
        BY <3>1, Zenon DEF IsSequence
    <2> QED
      BY <2>1, EmptySequence, Zenon DEF rows
  <1>5. Paired(s, t)
    <2>1. t = [i \in DOMAIN s |-> t[i]]
      BY Zenon
    <2> QED
      BY <1>4, <2>1, PairedOf, Zenon
  <1> HIDE DEF s, t, g
  <1>6. FormShape(g)
    BY <1>1, <1>2, <1>5, OtherRows, Zenon
  <1> QED
    BY <1>3, <1>6, FormEdited, Zenon

\* A row, with its message.
LEMMA RowAdded ==
    ASSUME FormInv(ui, server), addProperty PROVE FormInv(ui', server')
  <1> DEFINE row == [text |-> "", files |-> FALSE, shared |-> FALSE]
             s == Append(ui.form.catalogProperties, row)
             t == Append(ui.form.errors.catalogProperties, FALSE)
             g == [ui.form EXCEPT !.catalogProperties = Append(@, row),
                                  !.errors.catalogProperties = Append(@, FALSE)]
  <1>1. FormShape(ui.form) /\ Paired(ui.form.catalogProperties, ui.form.errors.catalogProperties)
    BY Zenon DEF FormInv, FormShape
  <1>2. /\ FormParts \subseteq DOMAIN g /\ ErrorParts \subseteq DOMAIN g.errors
        /\ g.catalogProperties = s /\ g.errors.catalogProperties = t
    BY <1>1, Zenon DEF FormShape, FormParts, ErrorParts
  <1>3. edits(g)
    BY Zenon DEF addProperty
  <1> HIDE DEF row, g
  <1>4. Paired(s, t)
    BY <1>1, AppendBoth, Zenon
  <1> HIDE DEF s, t
  <1>5. FormShape(g)
    BY <1>1, <1>2, <1>4, OtherRows, Zenon
  <1> QED
    BY <1>3, <1>5, FormEdited, Zenon

\* A row goes with its message.
LEMMA RowRemoved ==
    ASSUME FormInv(ui, server), NEW i, removeProperty(i) PROVE FormInv(ui', server')
  <1> DEFINE s == RemoveAt(ui.form.catalogProperties, i)
             t == RemoveAt(ui.form.errors.catalogProperties, i)
             g == [ui.form EXCEPT !.catalogProperties = RemoveAt(@, i),
                                  !.errors.catalogProperties = RemoveAt(@, i)]
  <1>1. FormShape(ui.form) /\ Paired(ui.form.catalogProperties, ui.form.errors.catalogProperties)
    BY Zenon DEF FormInv, FormShape
  <1>2. /\ FormParts \subseteq DOMAIN g /\ ErrorParts \subseteq DOMAIN g.errors
        /\ g.catalogProperties = s /\ g.errors.catalogProperties = t
    BY <1>1, Zenon DEF FormShape, FormParts, ErrorParts
  <1>3. edits(g) /\ i \in DOMAIN ui.form.catalogProperties
    BY Zenon DEF removeProperty
  <1> HIDE DEF g
  <1>4. Paired(s, t)
    BY <1>1, <1>3, CutBoth, Zenon
  <1> HIDE DEF s, t
  <1>5. FormShape(g)
    BY <1>1, <1>2, <1>4, OtherRows, Zenon
  <1> QED
    BY <1>3, <1>5, FormEdited, Zenon

\* What the user writes into a row.
LEMMA RowChanged ==
    ASSUME FormInv(ui, server), NEW i, NEW text, handlePropertyChange(i, text) PROVE FormInv(ui', server')
  <1> DEFINE cp == ui.form.catalogProperties
             ep == ui.form.errors.catalogProperties
             s == [cp EXCEPT ![i].text = text]
             t == [ep EXCEPT ![i] = @ /\ text = ""]
             g == [ui.form EXCEPT !.catalogProperties[i].text = text,
                                  !.errors.catalogProperties[i] = @ /\ text = "", !.refused = FALSE]
             other == IF ui.form.catalogProperties[i].shared
                      THEN [ui.templates EXCEPT ![ui.form.connectorName] = text] ELSE ui.templates
  <1>1. FormShape(ui.form) /\ IsSequence(cp) /\ DOMAIN cp = DOMAIN ep
    BY Zenon DEF FormInv, FormShape, Paired
  <1>2. /\ FormParts \subseteq DOMAIN g /\ ErrorParts \subseteq DOMAIN g.errors /\ g.refused = FALSE
        /\ g.catalogProperties = s /\ g.errors.catalogProperties = t
    BY <1>1, Zenon DEF FormShape, FormParts, ErrorParts
  <1>3. ui' = [[ui EXCEPT !.form = g, !.templates = other] EXCEPT !.clicks = @ + 1] /\ server' = server
    BY Zenon DEF handlePropertyChange, does
  <1> HIDE DEF g, other, cp, ep
  <1>4. IsSequence(s) /\ t = [j \in DOMAIN s |-> t[j]]
    BY <1>1, Replaced, Zenon
  <1> HIDE DEF s, t
  <1>5. Paired(s, t)
    BY <1>4, PairedOf, Zenon
  <1>6. FormShape(g)
    BY <1>1, <1>2, <1>5, OtherRows, Zenon
  <1>7. FormFields \subseteq DOMAIN ui' /\ ui'.form = g /\ ui'.requests = ui.requests
    BY <1>3, Zenon DEF FormInv, FormFields
  <1> QED
    BY <1>2, <1>3, <1>6, <1>7, Zenon DEF FormInv

\* A file to upload.
LEMMA FileAdded ==
    ASSUME FormInv(ui, server), NEW kind, addConfiguration(kind) PROVE FormInv(ui', server')
  <1> DEFINE g == [ui.form EXCEPT !.uploads[kind] = Append(@, None), !.errors.uploads[kind] = Append(@, FALSE)]
  <1>1. FormShape(ui.form)
    BY Zenon DEF FormInv
  <1>2. /\ FormParts \subseteq DOMAIN g /\ ErrorParts \subseteq DOMAIN g.errors
        /\ g.catalogProperties = ui.form.catalogProperties
        /\ g.errors.catalogProperties = ui.form.errors.catalogProperties
    BY <1>1, Zenon DEF FormShape, FormParts, ErrorParts
  <1>3. edits(g)
    BY Zenon DEF addConfiguration
  <1> HIDE DEF g
  <1> QED
    BY <1>1, <1>2, <1>3, AlikeShape, FormEdited, Zenon

\* A file less.
LEMMA FileRemoved ==
    ASSUME FormInv(ui, server), NEW kind, NEW i, removeConfiguration(kind, i) PROVE FormInv(ui', server')
  <1>4. PICK row \in {1, i} : edits([ui.form EXCEPT !.uploads[kind] = RemoveAt(@, row)])
    BY Zenon DEF removeConfiguration
  <1> DEFINE g == [ui.form EXCEPT !.uploads[kind] = RemoveAt(@, row)]
  <1>1. FormShape(ui.form)
    BY Zenon DEF FormInv
  <1>2. /\ FormParts \subseteq DOMAIN g /\ ErrorParts \subseteq DOMAIN g.errors
        /\ g.catalogProperties = ui.form.catalogProperties
        /\ g.errors.catalogProperties = ui.form.errors.catalogProperties
    BY <1>1, Zenon DEF FormShape, FormParts, ErrorParts
  <1>3. edits(g)
    BY <1>4, Zenon
  <1> HIDE DEF g
  <1> QED
    BY <1>1, <1>2, <1>3, AlikeShape, FormEdited, Zenon

\* Another file.
LEMMA FileChanged ==
    ASSUME FormInv(ui, server), NEW kind, NEW i, NEW file, handleConfigFileChange(kind, i, file)
    PROVE  FormInv(ui', server')
  <1> DEFINE g == [ui.form EXCEPT !.uploads[kind][i] = file, !.errors.uploads[kind][i] = FALSE]
  <1>1. FormShape(ui.form)
    BY Zenon DEF FormInv
  <1>2. /\ FormParts \subseteq DOMAIN g /\ ErrorParts \subseteq DOMAIN g.errors
        /\ g.catalogProperties = ui.form.catalogProperties
        /\ g.errors.catalogProperties = ui.form.errors.catalogProperties
    BY <1>1, Zenon DEF FormShape, FormParts, ErrorParts
  <1>3. edits(g)
    BY Zenon DEF handleConfigFileChange
  <1> HIDE DEF g
  <1> QED
    BY <1>1, <1>2, <1>3, AlikeShape, FormEdited, Zenon

\* What the validation finds.
LEMMA Validated ==
    ASSUME NEW f, NEW g, NEW demands, FormShape(f),
           g = [f EXCEPT !.errors = handleValidation(f), !.refused = invalid(handleValidation(f))]
    PROVE  /\ FormShape(g) /\ g.refused = invalid(g.errors)
           /\ invalid(g.errors) => Explained(demands, g)
           /\ ~invalid(g.errors) => Complete(g)
  <1> DEFINE e == handleValidation(f)
             s == [i \in DOMAIN f.catalogProperties |->
                     f.catalogProperties[i].text = "" \/ missing(f, f.catalogProperties[i])]
             t == [kind \in Kind |-> [i \in DOMAIN f.uploads[kind] |-> f.uploads[kind][i] = None]]
  <1>1. /\ ErrorParts \subseteq DOMAIN e /\ e.catalogName = (f.catalogName # "name")
        /\ e.connectorName = (f.connectorName = None)
        /\ e.catalogProperties = s /\ e.uploads = t
    BY Zenon DEF FormShape, ErrorParts, handleValidation
  <1>2. /\ FormParts \subseteq DOMAIN g /\ g.errors = e /\ g.refused = invalid(e)
        /\ g.catalogName = f.catalogName /\ g.connectorName = f.connectorName
        /\ g.catalogProperties = f.catalogProperties /\ g.uploads = f.uploads
    BY Zenon DEF FormShape, FormParts
  <1>3. Paired(f.catalogProperties, s) /\ DOMAIN s = DOMAIN f.catalogProperties
    <2>1. IsSequence(f.catalogProperties)
      BY Zenon DEF FormShape, Paired
    <2>2. s = [i \in DOMAIN f.catalogProperties |-> s[i]] /\ DOMAIN s = DOMAIN f.catalogProperties
      BY Zenon
    <2> QED
      BY <2>1, <2>2, PairedOf, Zenon
  <1>4. \A i \in DOMAIN f.catalogProperties :
           s[i] = (f.catalogProperties[i].text = "" \/ missing(f, f.catalogProperties[i]))
    BY Zenon
  <1>5. \A kind \in Kind : /\ DOMAIN t[kind] = DOMAIN f.uploads[kind]
                           /\ \A i \in DOMAIN f.uploads[kind] : t[kind][i] = (f.uploads[kind][i] = None)
    BY Zenon
  <1> HIDE DEF e, s, t
  <1>6. FormShape(g)
    BY <1>1, <1>2, <1>3, Zenon DEF FormShape
  <1>7. g.refused = invalid(g.errors)
    BY <1>2, Zenon
  <1>8. ASSUME invalid(g.errors) PROVE Explained(demands, g)
    <2>1. CASE e.catalogName \/ e.connectorName
      BY <1>2, <2>1, Zenon DEF Explained
    <2>2. CASE TRUE \in Range(e.catalogProperties)
      <3>1. PICK i \in DOMAIN s : s[i] = TRUE
        BY <1>1, <2>2, Zenon DEF Range
      <3>2. CASE f.connectorName = None
        BY <1>1, <1>2, <3>2, Zenon DEF Explained
      <3>3. CASE f.connectorName # None
        BY <1>1, <1>2, <1>3, <3>1, <3>3, Zenon DEF Explained
      <3> QED
        BY <3>2, <3>3
    <2>3. ASSUME NEW kind \in Kind, TRUE \in Range(e.uploads[kind]) PROVE Explained(demands, g)
      <3>1. PICK i \in DOMAIN t[kind] : t[kind][i] = TRUE
        BY <1>1, <2>3, Zenon DEF Range
      <3>2. i \in DOMAIN f.uploads[kind]
        BY <1>5, Zenon
      <3>3. CASE AsksFor(demands, g, kind)
        BY <1>1, <1>2, <3>1, <3>2, <3>3, Zenon DEF Explained
      <3>4. CASE ~AsksFor(demands, g, kind)
        <4>1. g.uploads[kind] # <<>>
          BY <1>2, <3>2, EmptySequence, Zenon
        <4> QED
          BY <3>4, <4>1, Zenon DEF Explained
      <3> QED
        BY <3>3, <3>4
    <2> QED
      BY <1>2, <1>8, <2>1, <2>2, <2>3, Zenon DEF invalid
  <1>9. ASSUME ~invalid(g.errors) PROVE Complete(g)
    <2>1. /\ ~e.catalogName /\ ~e.connectorName /\ TRUE \notin Range(s)
          /\ \A kind \in Kind : TRUE \notin Range(t[kind])
      BY <1>1, <1>2, <1>9, Zenon DEF invalid
    <2>2. g.catalogName = "name" /\ g.connectorName # None
      BY <1>1, <1>2, <2>1, Zenon
    <2>3. ASSUME NEW kind \in Kind PROVE None \notin Range(g.uploads[kind])
      BY <1>2, <1>5, <2>1, Zenon DEF Range
    <2>4. ASSUME NEW j \in DOMAIN g.catalogProperties
          PROVE  /\ g.catalogProperties[j].text # ""
                 /\ g.catalogProperties[j].files =>
                       \E kind \in Kind : g.catalogProperties[j].text \in Range(g.uploads[kind])
      <3>1. s[j] # TRUE
        BY <1>2, <1>3, <2>1, Zenon DEF Range
      <3>2. ~(f.catalogProperties[j].text = "" \/ missing(f, f.catalogProperties[j]))
        BY <1>2, <1>4, <3>1, Zenon
      <3> QED
        BY <1>2, <3>2, Zenon DEF missing
    <2> QED
      BY <2>2, <2>3, <2>4, Zenon DEF Complete
  <1> QED
    BY <1>6, <1>7, <1>8, <1>9

\* handleSubmit sends what handleValidation accepts.
LEMMA Submitted ==
    ASSUME FormInv(ui, server), handleSubmit PROVE FormInv(ui', server')
  <1> DEFINE errors == handleValidation(ui.form)
             g == [ui.form EXCEPT !.errors = errors, !.refused = invalid(errors)]
             e == [form |-> ui.forms, posted |-> g]
             q == IF invalid(errors) THEN ui.requests ELSE Append(ui.requests, e)
  <1>1. FormShape(ui.form) /\ IsSequence(ui.requests)
    BY Zenon DEF FormInv
  <1>2. g.errors = errors
    BY <1>1, Zenon DEF FormShape, FormParts
  <1>3. ui' = [[ui EXCEPT !.form = g, !.requests = q] EXCEPT !.clicks = @ + 1] /\ server' = server
    BY Zenon DEF handleSubmit, does
  <1>4. e.posted = g
    BY Zenon
  <1>5. /\ FormShape(g) /\ g.refused = invalid(g.errors)
        /\ invalid(g.errors) => Explained(server, g)
        /\ ~invalid(g.errors) => Complete(g)
    BY <1>1, Validated, Zenon
  <1>6. q = IF invalid(g.errors) THEN ui.requests ELSE Append(ui.requests, e)
    BY <1>2, Zenon
  <1> HIDE DEF errors, g, e, q
  <1>7. FormFields \subseteq DOMAIN ui' /\ ui'.form = g /\ ui'.requests = q
    BY <1>3, Zenon DEF FormInv, FormFields
  <1>8. IsSequence(q) /\ \A i \in DOMAIN q : Complete(q[i].posted)
    <2>1. CASE invalid(g.errors)
      BY <1>6, <2>1, Zenon DEF FormInv
    <2>2. CASE ~invalid(g.errors)
      <3>1. q = Append(ui.requests, e) /\ Complete(e.posted)
        BY <1>4, <1>5, <1>6, <2>2, Zenon
      <3>2. IsSequence(Append(ui.requests, e))
        BY <1>1, Appended, Zenon
      <3>3. \A i \in DOMAIN Append(ui.requests, e) :
               (i \in DOMAIN ui.requests /\ Append(ui.requests, e)[i] = ui.requests[i])
               \/ (i = Len(ui.requests) + 1 /\ Append(ui.requests, e)[i] = e)
        BY <1>1, AppendedElements, Zenon
      <3> QED
        BY <3>1, <3>2, <3>3, Zenon DEF FormInv
    <2> QED
      BY <2>1, <2>2, Zenon
  <1>9. FormShape(g) /\ (g.refused => Explained(server, g))
    BY <1>5, Zenon
  <1> QED
    BY <1>3, <1>7, <1>8, <1>9, Zenon DEF FormInv

\* The dialog opens or closes.
LEMMA Toggled ==
    ASSUME FormInv(ui, server), openDialog \/ handleClose PROVE FormInv(ui', server')
  <1>1. ui' = [showModal(ui) EXCEPT !.clicks = @ + 1] /\ server' = server
    BY Zenon DEF openDialog, handleClose, does
  <1>2. FormInv(showModal(ui), server)
    BY FormToggled, Zenon
  <1>3. /\ FormFields \subseteq DOMAIN ui' /\ ui'.form = showModal(ui).form
        /\ ui'.requests = showModal(ui).requests
    BY <1>1, <1>2, Zenon DEF FormInv, FormFields
  <1> QED
    BY <1>1, <1>2, <1>3, FormSame, Zenon

\* An answer takes its request away.
LEMMA RequestDone ==
    ASSUME NEW q, IsSequence(q), \A j \in DOMAIN q : Complete(q[j].posted), NEW i \in DOMAIN q
    PROVE  IsSequence(RemoveAt(q, i)) /\ \A j \in DOMAIN RemoveAt(q, i) : Complete(RemoveAt(q, i)[j].posted)
  <1>1. IsSequence(RemoveAt(q, i))
    BY Cut, Zenon
  <1>2. Remains(q, i)
    BY RemainingElements, Zenon
  <1> QED
    BY <1>1, <1>2, Zenon DEF Remains

\* The coordinator accepts the catalog.
LEMMA Added ==
    ASSUME FormInv(ui, server), NEW i \in DOMAIN ui.requests, CatalogAdded(i) PROVE FormInv(ui', server')
  <1> DEFINE q == RemoveAt(ui.requests, i)
             u == [ui EXCEPT !.requests = RemoveAt(@, i), !.updates = @ + 1]
  <1>1. ui' = showModal(u) /\ server' = server
    BY Zenon DEF CatalogAdded
  <1>2. FormFields \subseteq DOMAIN u /\ u.form = ui.form /\ u.requests = q
    BY Zenon DEF FormInv, FormFields
  <1>3. IsSequence(q) /\ \A j \in DOMAIN q : Complete(q[j].posted)
    BY RequestDone, Zenon DEF FormInv
  <1> HIDE DEF q, u
  <1>4. FormInv(u, server)
    BY <1>2, <1>3, Zenon DEF FormInv
  <1> QED
    BY <1>1, <1>4, FormToggled, Zenon

\* The coordinator refuses it.
LEMMA Refused ==
    ASSUME FormInv(ui, server), NEW i \in DOMAIN ui.requests, CatalogRefused(i) PROVE FormInv(ui', server')
  <1> DEFINE q == RemoveAt(ui.requests, i)
             g == ui'.form
  <1>1. server' = server /\ FormFields \subseteq DOMAIN ui' /\ ui'.requests = q
    BY Zenon DEF CatalogRefused, FormInv, FormFields
  <1>2. /\ FormParts \subseteq DOMAIN g /\ ErrorParts \subseteq DOMAIN g.errors
        /\ g.refused = ui.form.refused /\ g.connectorName = ui.form.connectorName
        /\ g.catalogProperties = ui.form.catalogProperties /\ g.uploads = ui.form.uploads
        /\ \A x \in ErrorParts \ {"submissionError"} : g.errors[x] = ui.form.errors[x]
    BY Zenon DEF CatalogRefused, FormInv, FormFields, FormShape, FormParts, ErrorParts
  <1>3. /\ g.errors.catalogName = ui.form.errors.catalogName
        /\ g.errors.connectorName = ui.form.errors.connectorName
        /\ g.errors.catalogProperties = ui.form.errors.catalogProperties
        /\ g.errors.uploads = ui.form.errors.uploads
    BY <1>2, Zenon DEF ErrorParts
  <1>4. IsSequence(q) /\ \A j \in DOMAIN q : Complete(q[j].posted)
    BY RequestDone, Zenon DEF FormInv
  <1> HIDE DEF q, g
  <1>5. FormShape(g)
    BY <1>2, <1>3, AlikeShape, Zenon DEF FormInv
  <1>6. Explained(server, ui.form) => Explained(server, g)
    BY <1>2, <1>3, Zenon DEF Explained, AsksFor
  <1> QED
    BY <1>1, <1>2, <1>4, <1>5, <1>6, Zenon DEF FormInv, g

\* The list of connectors comes.
LEMMA ConnectorsKnown ==
    ASSUME FormInv(ui, server), ConnectorsArrive PROVE FormInv(ui', server')
  <1> DEFINE cp == ui.form.catalogProperties
             s == [i \in DOMAIN cp |-> [cp[i] EXCEPT !.shared = FALSE]]
             g == ui'.form
  <1>1. server' = server /\ FormFields \subseteq DOMAIN ui' /\ ui'.requests = ui.requests
    BY Zenon DEF ConnectorsArrive, FormInv, FormFields
  <1>2. /\ FormParts \subseteq DOMAIN g /\ g.errors = ui.form.errors
        /\ g.refused = ui.form.refused /\ g.connectorName = ui.form.connectorName
        /\ g.catalogProperties = s /\ g.uploads = ui.form.uploads
    BY Zenon DEF ConnectorsArrive, FormInv, FormFields, FormShape, FormParts
  <1>3. IsSequence(cp) /\ DOMAIN cp = DOMAIN ui.form.errors.catalogProperties
    BY Zenon DEF FormInv, FormShape, Paired
  <1>4. s = [j \in DOMAIN cp |-> s[j]] /\ DOMAIN s = DOMAIN cp
    BY Zenon
  <1> HIDE DEF s
  <1>5. IsSequence(s)
    BY <1>3, <1>4, PairedOf, Zenon DEF Paired
  <1>6. Paired(s, ui.form.errors.catalogProperties)
    BY <1>3, <1>4, <1>5, Zenon DEF Paired, FormInv, FormShape
  <1> HIDE DEF g
  <1>7. FormShape(g)
    BY <1>2, <1>6, Zenon DEF FormInv, FormShape
  <1>8. Explained(server, ui.form) => Explained(server, g)
    BY <1>2, <1>4, Zenon DEF Explained, AsksFor
  <1> QED
    BY <1>1, <1>2, <1>7, <1>8, Zenon DEF FormInv, g

\* It does not.
LEMMA ConnectorsUnknown ==
    ASSUME FormInv(ui, server), FetchFails PROVE FormInv(ui', server')
  <1>1. /\ server' = server /\ FormFields \subseteq DOMAIN ui' /\ ui'.requests = ui.requests
        /\ ui'.form = ui.form
    BY Zenon DEF FetchFails, FormInv, FormFields
  <1> QED
    BY <1>1, FormSame, Zenon

\* Every step of the form keeps the invariant.
LEMMA FormStep == ASSUME FormInv(ui, server), NextForm PROVE FormInv(ui', server')
  <1>1. CASE UserForm
    BY <1>1, Toggled, Submitted, RowAdded, CatalogNameChanges, ConnectorChanges, RowRemoved, RowChanged,
       FileAdded, FileRemoved, FileChanged, Zenon DEF UserForm
  <1>2. CASE ConnectorsArrive \/ FetchFails
    BY <1>2, ConnectorsKnown, ConnectorsUnknown, Zenon
  <1>3. CASE \E i \in DOMAIN ui.requests : CatalogAdded(i) \/ CatalogRefused(i)
    BY <1>3, Added, Refused, Zenon
  <1> QED
    BY <1>1, <1>2, <1>3, Zenon DEF NextForm

-----------------------------------------------------------------------------
(* The pages of results *)

ResultFields == {"tab", "table", "query", "currentPage", "pageSize", "preview", "previewQuery",
                 "requests", "disturbed", "clicks"}

page(u) == [file |-> u.previewQuery, page |-> u.currentPage, size |-> u.pageSize]

\* What is on its way or there is of the query above the table, and the last request, or
\* else the page that is there, is the one that the table says.
InSight(requests, rowsShown, preview, query, previewQuery, chosen) ==
    /\ \A i \in DOMAIN requests : requests[i].file = previewQuery
    /\ rowsShown # {} => rowsShown = preview /\ query = previewQuery
    /\ \A t \in rowsShown : t.file = previewQuery
    /\ IF requests = <<>> THEN \A t \in rowsShown : t = chosen ELSE requests[Len(requests)] = chosen

ResultInv(u) ==
    /\ ResultFields \subseteq DOMAIN u /\ IsSequence(u.requests)
    /\ u.tab = "RESULTS_PREVIEW" /\ ~u.disturbed =>
          InSight(u.requests, u.table, u.preview, u.query, u.previewQuery, page(u))

\* The results start so.
LEMMA ResultStart == ASSUME InitResults PROVE ResultInv(ui)
  <1>1. ResultFields \subseteq DOMAIN ui /\ ui.requests = <<>> /\ ui.tab = "ALL_QUERIES"
    BY Zenon DEF InitResults, constructorResults, Nothing, ResultFields
  <1>2. "ALL_QUERIES" # "RESULTS_PREVIEW"
    OBVIOUS
  <1> QED
    BY <1>1, <1>2, EmptySequence, Zenon DEF ResultInv

\* What is promised of the results follows.
LEMMA ResultPromise == ASSUME ResultInv(ui) PROVE RowsOfShownPage
  <1>1. ASSUME ui.tab = "RESULTS_PREVIEW", ui.requests = <<>>, ~ui.disturbed, NEW t \in ui.table
        PROVE  t = [file |-> ui.query, page |-> ui.currentPage, size |-> ui.pageSize]
    BY <1>1, Zenon DEF ResultInv, InSight, page
  <1> QED
    BY <1>1, Zenon DEF RowsOfShownPage

\* _onChange: the table takes what the store has.
LEMMA Rereads ==
    ASSUME NEW u, ResultFields \subseteq DOMAIN u
    PROVE  /\ ResultFields \subseteq DOMAIN _onChange(u)
           /\ \A f \in ResultFields \ {"table", "query"} : _onChange(u)[f] = u[f]
           /\ u.tab = "RESULTS_PREVIEW" =>
                _onChange(u).table = u.preview /\ _onChange(u).query = u.previewQuery
  <1> DEFINE v == [u EXCEPT !.table = u.preview, !.query = u.previewQuery]
  <1>1. /\ ResultFields \subseteq DOMAIN v /\ v.table = u.preview /\ v.query = u.previewQuery
        /\ \A f \in ResultFields \ {"table", "query"} : v[f] = u[f]
    BY Zenon DEF ResultFields
  <1>2. _onChange(u) = IF u.tab = "RESULTS_PREVIEW" THEN v ELSE u
    BY Zenon DEF _onChange
  <1> QED
    BY <1>1, <1>2, Zenon

\* The tab is left, or entered with nothing on its way.
LEMMA ResultAway ==
    ASSUME NEW v, ResultFields \subseteq DOMAIN v, IsSequence(v.requests),
           v.tab # "RESULTS_PREVIEW" \/ v.disturbed \/ (v.table = {} /\ v.requests = <<>>)
    PROVE  ResultInv(v)
  BY EmptySequence, Zenon DEF ResultInv, InSight

\* The number of clicks does not matter.
LEMMA ResultSame ==
    ASSUME NEW u, NEW v, ResultInv(u), ResultFields \subseteq DOMAIN v,
           \A f \in ResultFields \ {"clicks"} : v[f] = u[f]
    PROVE  ResultInv(v)
  BY Zenon DEF ResultInv, ResultFields, page

\* The results of another query are opened.
LEMMA ResultPreviewed ==
    ASSUME ResultInv(ui), NEW file, previewQueryResult(file)
    PROVE  ResultInv(ui')
  <1> DEFINE asked == firstPage(file)
             a == onSelectPreviewQuery(ui, file)
             b == [a EXCEPT !.requests = Append(@, asked), !.disturbed = ui.requests # <<>>]
             c == mountResults(b)
  <1>0. ResultFields \subseteq DOMAIN ui /\ IsSequence(ui.requests)
    BY Zenon DEF ResultInv
  <1>1. /\ ResultFields \subseteq DOMAIN a /\ a.requests = ui.requests /\ a.previewQuery = file
    <2> DEFINE u == [ui EXCEPT !.previewQuery = file]
    <2>1. ResultFields \subseteq DOMAIN u /\ u.requests = ui.requests /\ u.previewQuery = file
      BY <1>0, Zenon DEF ResultFields
    <2> HIDE DEF u
    <2> QED
      BY <2>1, Rereads, Zenon DEF onSelectPreviewQuery, u, ResultFields
  <1> HIDE DEF a
  <1>2. /\ ResultFields \subseteq DOMAIN b /\ b.requests = Append(ui.requests, asked)
        /\ b.disturbed = (ui.requests # <<>>) /\ b.previewQuery = file
    BY <1>1, Zenon DEF ResultFields
  <1> HIDE DEF b
  <1>3. /\ ResultFields \subseteq DOMAIN c /\ c.requests = Append(ui.requests, asked)
        /\ c.disturbed = (ui.requests # <<>>) /\ c.previewQuery = file /\ c.table = {}
        /\ c.currentPage = 1 /\ c.pageSize = 1
    BY <1>2, Zenon DEF ResultFields, mountResults, Nothing
  <1> HIDE DEF c
  <1>4. ui' = [c EXCEPT !.clicks = @ + 1]
    BY Zenon DEF previewQueryResult, does, a, b, c
  <1>5. /\ ResultFields \subseteq DOMAIN ui' /\ ui'.requests = Append(ui.requests, asked)
        /\ ui'.disturbed = (ui.requests # <<>>) /\ ui'.previewQuery = file /\ ui'.table = {}
        /\ ui'.currentPage = 1 /\ ui'.pageSize = 1
    BY <1>3, <1>4, Zenon DEF ResultFields
  <1>6. asked = page(ui') /\ asked.file = file
    <2>1. asked = page(ui')
      BY <1>5, Zenon DEF page, firstPage
    <2>2. page(ui').file = ui'.previewQuery
      BY DEF page
    <2> QED
      BY <1>5, <2>1, <2>2, Zenon
  <1> HIDE DEF asked
  <1>7. IsSequence(Append(ui.requests, asked)) /\ Append(ui.requests, asked) # <<>>
    BY <1>0, Appended, Zenon
  <1>8. CASE ui.requests # <<>>
    BY <1>5, <1>7, <1>8, Zenon DEF ResultInv
  <1>9. CASE ui.requests = <<>>
    <2>1. Append(ui.requests, asked) = <<asked>>
      BY <1>9
    <2>2. Len(<<asked>>) = 1 /\ DOMAIN <<asked>> = {1} /\ <<asked>>[1] = asked
      OBVIOUS
    <2>3. InSight(ui'.requests, ui'.table, ui'.preview, ui'.query, ui'.previewQuery, page(ui'))
      BY <1>5, <1>6, <1>7, <2>1, <2>2, Zenon DEF InSight
    <2> QED
      BY <1>5, <1>7, <2>3, Zenon DEF ResultInv
  <1> QED
    BY <1>8, <1>9

\* Another page is asked for.
LEMMA ResultPaged ==
    ASSUME ResultInv(ui), NEW current, NEW pageSize, onResultsPageChange(current, pageSize)
    PROVE  ResultInv(ui')
  <1>0. ResultFields \subseteq DOMAIN ui /\ IsSequence(ui.requests)
    BY Zenon DEF ResultInv
  <1>1. PICK preview \in ui.preview :
          does([ui EXCEPT !.requests = Append(@, [file |-> preview.file, page |-> current, size |-> pageSize]),
                          !.currentPage = current, !.pageSize = pageSize,
                          !.table = ui.preview, !.query = ui.previewQuery])
    BY Zenon DEF onResultsPageChange
  <1>2. ui.tab = "RESULTS_PREVIEW" /\ ui.table # {}
    BY Zenon DEF onResultsPageChange, Nothing
  <1> DEFINE asked == [file |-> preview.file, page |-> current, size |-> pageSize]
  <1>3. /\ ResultFields \subseteq DOMAIN ui' /\ ui'.requests = Append(ui.requests, asked)
        /\ ui'.currentPage = current /\ ui'.pageSize = pageSize /\ ui'.table = ui.preview
        /\ ui'.query = ui.previewQuery /\ ui'.preview = ui.preview
        /\ ui'.previewQuery = ui.previewQuery /\ ui'.disturbed = ui.disturbed
    BY <1>0, <1>1, Zenon DEF ResultFields, does
  <1>4. asked.file = preview.file
    OBVIOUS
  <1>5. page(ui') = [file |-> ui.previewQuery, page |-> current, size |-> pageSize]
    BY <1>3, Zenon DEF page
  <1>5a. asked = [file |-> preview.file, page |-> current, size |-> pageSize]
    OBVIOUS
  <1> HIDE DEF asked
  <1> DEFINE rs == Append(ui.requests, asked)
  <1>6. IsSequence(rs) /\ rs # <<>> /\ Len(ui.requests) \in Nat /\ DOMAIN ui.requests = 1..Len(ui.requests)
    BY <1>0, Appended, Zenon
  <1>7. Len(rs) = Len(ui.requests) + 1 /\ rs[Len(rs)] = asked
    <2>1. Len(rs) = Len(ui.requests) + 1
      BY <1>0, Appended, Zenon
    <2>2. rs[Len(ui.requests) + 1] = asked
      BY <1>0, Appended, Zenon
    <2> QED
      BY <2>1, <2>2, Zenon
  <1>8. \A i \in DOMAIN rs : (i \in DOMAIN ui.requests /\ rs[i] = ui.requests[i]) \/ rs[i] = asked
    <2>1. DOMAIN rs = 1..(Len(ui.requests) + 1) /\ \A i \in 1..Len(ui.requests) : rs[i] = ui.requests[i]
      BY <1>0, Appended, Zenon
    <2>2. \A i \in DOMAIN rs : i \in 1..Len(ui.requests) \/ i = Len(ui.requests) + 1
      BY <1>6, <2>1
    <2>3. rs[Len(ui.requests) + 1] = asked
      BY <1>7, Zenon
    <2> QED
      BY <1>6, <2>1, <2>2, <2>3, Zenon
  <1> HIDE DEF rs
  <1>9. ASSUME ~ui.disturbed
        PROVE  InSight(rs, ui.preview, ui.preview, ui.previewQuery, ui.previewQuery, page(ui'))
    <2>1. InSight(ui.requests, ui.table, ui.preview, ui.query, ui.previewQuery, page(ui))
      BY <1>2, <1>9, Zenon DEF ResultInv
    <2>2. ui.table = ui.preview /\ \A t \in ui.preview : t.file = ui.previewQuery
      BY <1>2, <2>1, Zenon DEF InSight
    <2>3. preview.file = ui.previewQuery
      BY <1>1, <2>2, Zenon
    <2>4. asked = page(ui') /\ asked.file = ui.previewQuery
      BY <1>4, <1>5, <1>5a, <2>3, Zenon
    <2>5. \A i \in DOMAIN rs : rs[i].file = ui.previewQuery
      BY <1>8, <2>1, <2>4, Zenon DEF InSight
    <2> QED
      BY <1>6, <1>7, <2>2, <2>4, <2>5, Zenon DEF InSight
  <1> QED
    BY <1>3, <1>6, <1>9, Zenon DEF ResultInv, rs

\* A page comes.
LEMMA ResultArrives ==
    ASSUME ResultInv(ui), NEW i \in DOMAIN ui.requests, PageArrives(i)
    PROVE  ResultInv(ui')
  <1> DEFINE rs == ui.requests
             a == [ui EXCEPT !.preview = {rs[i]}, !.resized = FALSE]
             b == _onChange(a)
  <1>0. ResultFields \subseteq DOMAIN ui /\ IsSequence(ui.requests)
    BY Zenon DEF ResultInv
  <1>1. /\ ResultFields \subseteq DOMAIN a /\ a.preview = {rs[i]}
        /\ \A f \in ResultFields \ {"preview"} : a[f] = ui[f]
    BY <1>0, Zenon DEF ResultFields
  <1> HIDE DEF a
  <1>2. ResultFields \subseteq DOMAIN b /\ \A f \in ResultFields \ {"table", "query"} : b[f] = a[f]
    BY <1>1, Rereads, Zenon
  <1>3. a.tab = "RESULTS_PREVIEW" => b.table = a.preview /\ b.query = a.previewQuery
    BY <1>1, Rereads, Zenon
  <1> HIDE DEF b
  <1>4. ui' = [b EXCEPT !.requests = RemoveAt(@, i), !.disturbed = @ \/ i # 1]
    BY Zenon DEF PageArrives, onLoadResultsPreview, a, b
  <1>5. /\ b.requests = rs /\ b.disturbed = ui.disturbed /\ b.tab = ui.tab /\ b.previewQuery = ui.previewQuery
        /\ b.currentPage = ui.currentPage /\ b.pageSize = ui.pageSize /\ b.preview = {rs[i]}
        /\ a.tab = ui.tab /\ a.preview = {rs[i]} /\ a.previewQuery = ui.previewQuery
    BY <1>1, <1>2, Zenon DEF ResultFields
  <1>6. /\ ResultFields \subseteq DOMAIN ui' /\ ui'.requests = RemoveAt(rs, i)
        /\ ui'.disturbed = (ui.disturbed \/ i # 1) /\ ui'.tab = ui.tab
        /\ ui'.previewQuery = ui.previewQuery /\ ui'.currentPage = ui.currentPage
        /\ ui'.pageSize = ui.pageSize /\ ui'.preview = {rs[i]}
        /\ ui.tab = "RESULTS_PREVIEW" => ui'.table = {rs[i]} /\ ui'.query = ui.previewQuery
    BY <1>2, <1>3, <1>4, <1>5, Zenon DEF ResultFields
  <1>7. page(ui') = page(ui)
    BY <1>6, Zenon DEF page
  <1> DEFINE c == RemoveAt(rs, i)
  <1>8. IsSequence(c) /\ Len(rs) \in Nat /\ DOMAIN rs = 1..Len(rs) /\ Len(c) = Len(rs) - 1
    BY <1>0, Cut, Zenon
  <1>9. DOMAIN c = 1..(Len(rs) - 1)
    BY <1>0, Cut, Zenon
  <1>9a. \A j \in 1..(Len(rs) - 1) : c[j] = IF j < i THEN rs[j] ELSE rs[j + 1]
    BY <1>0, Cut, Zenon
  <1> HIDE DEF c
  <1>10. ASSUME ui.tab = "RESULTS_PREVIEW", ~ui.disturbed, i = 1
         PROVE  InSight(c, {rs[i]}, {rs[i]}, ui.previewQuery, ui.previewQuery, page(ui))
    <2>1. InSight(rs, ui.table, ui.preview, ui.query, ui.previewQuery, page(ui))
      BY <1>10, Zenon DEF ResultInv
    <2>2. \A j \in DOMAIN rs : rs[j].file = ui.previewQuery
      BY <2>1, Zenon DEF InSight
    <2>3. rs[Len(rs)] = page(ui)
      <3>1. rs # <<>>
        BY EmptySequence, Zenon
      <3> QED
        BY <2>1, <3>1, Zenon DEF InSight
    <2>4. \A j \in DOMAIN c : j + 1 \in DOMAIN rs /\ c[j] = rs[j + 1]
      <3>1. \A j \in DOMAIN c : j + 1 \in DOMAIN rs /\ ~(j < i)
        BY <1>8, <1>9, <1>10
      <3> QED
        BY <1>9, <1>9a, <3>1, Zenon
    <2>5. \A j \in DOMAIN c : c[j].file = ui.previewQuery
      BY <2>2, <2>4, Zenon
    <2>6. CASE c = <<>>
      <3>0. Len(c) = 0
        BY <1>8, <2>6, SequenceFacts, Zenon
      <3>1. Len(rs) = i
        BY <1>8, <1>10, <3>0
      <3> QED
        BY <2>2, <2>3, <2>5, <2>6, <3>1, Zenon DEF InSight
    <2>7. CASE c # <<>>
      <3>1. Len(c) \in Nat /\ Len(c) # 0
        BY <1>8, <2>7, SequenceFacts, Zenon
      <3>2. Len(c) \in DOMAIN c /\ Len(c) + 1 = Len(rs)
        <4>1. \A m \in Nat, n \in Nat : n = m - 1 /\ n # 0 => n \in 1..(m - 1) /\ n + 1 = m
          OBVIOUS
        <4> QED
          BY <1>8, <1>9, <3>1, <4>1, Zenon
      <3>3. c[Len(c)] = page(ui)
        BY <2>3, <2>4, <3>2, Zenon
      <3> QED
        BY <2>2, <2>5, <2>7, <3>3, Zenon DEF InSight
    <2> QED
      BY <2>6, <2>7
  <1> QED
    BY <1>6, <1>7, <1>8, <1>10, Zenon DEF ResultInv, c

\* Every step of the results keeps the invariant.
LEMMA ResultStep ==
    ASSUME ResultInv(ui), NextResults
    PROVE  ResultInv(ui')
  <1>0. ResultFields \subseteq DOMAIN ui /\ IsSequence(ui.requests)
    BY Zenon DEF ResultInv
  <1>1. ASSUME NEW file, previewQueryResult(file) PROVE ResultInv(ui')
    BY <1>1, ResultPreviewed, Zenon
  <1>2. ASSUME NEW message, toggleModal(message) PROVE ResultInv(ui')
    <2>1. /\ ResultFields \subseteq DOMAIN ui' /\ \A f \in ResultFields \ {"clicks"} : ui'[f] = ui[f]
      BY <1>0, <1>2, Zenon DEF toggleModal, does, ResultFields
    <2> QED
      BY <2>1, ResultSame, Zenon
  <1>3. ASSUME NEW current, NEW pageSize, onResultsPageChange(current, pageSize) PROVE ResultInv(ui')
    BY <1>3, ResultPaged, Zenon
  <1>4. CASE onSetResultsColumnWidth
    <2> DEFINE a == [ui EXCEPT !.resized = TRUE]
               b == _onChange(a)
    <2>1. ResultFields \subseteq DOMAIN a /\ \A f \in ResultFields : a[f] = ui[f]
      BY <1>0, Zenon DEF ResultFields
    <2> HIDE DEF a
    <2>2. ResultFields \subseteq DOMAIN b /\ \A f \in ResultFields \ {"table", "query"} : b[f] = a[f]
      BY <2>1, Rereads, Zenon
    <2>3. a.tab = "RESULTS_PREVIEW" => b.table = a.preview /\ b.query = a.previewQuery
      BY <2>1, Rereads, Zenon
    <2> HIDE DEF b
    <2>4. ui' = [b EXCEPT !.clicks = @ + 1] /\ ui.tab = "RESULTS_PREVIEW" /\ ui.table # {}
      BY <1>4, Zenon DEF onSetResultsColumnWidth, does, Nothing, a, b
    <2>5. /\ ResultFields \subseteq DOMAIN ui' /\ \A f \in ResultFields \ {"table", "query", "clicks"} : ui'[f] = ui[f]
          /\ ui'.table = ui.preview /\ ui'.query = ui.previewQuery
      BY <2>1, <2>2, <2>3, <2>4, Zenon DEF ResultFields
    <2>6. /\ ui'.requests = ui.requests /\ ui'.preview = ui.preview /\ ui'.previewQuery = ui.previewQuery
          /\ ui'.disturbed = ui.disturbed /\ page(ui') = page(ui)
      BY <2>5, Zenon DEF ResultFields, page
    <2>7. ASSUME ~ui.disturbed
          PROVE  InSight(ui.requests, ui.preview, ui.preview, ui.previewQuery, ui.previewQuery, page(ui))
      <3>1. InSight(ui.requests, ui.table, ui.preview, ui.query, ui.previewQuery, page(ui))
        BY <2>4, <2>7, Zenon DEF ResultInv
      <3> QED
        BY <2>4, <3>1, Zenon DEF InSight
    <2> QED
      BY <1>0, <2>5, <2>6, <2>7, Zenon DEF ResultInv
  <1>5. CASE handleRunClears
    <2> DEFINE a == [ui EXCEPT !.preview = {}]
               b == _onChange(a)
    <2>1. ResultFields \subseteq DOMAIN a /\ a.preview = {} /\ \A f \in ResultFields \ {"preview"} : a[f] = ui[f]
      BY <1>0, Zenon DEF ResultFields
    <2> HIDE DEF a
    <2>2. ResultFields \subseteq DOMAIN b /\ \A f \in ResultFields \ {"table", "query"} : b[f] = a[f]
      BY <2>1, Rereads, Zenon
    <2>3. a.tab = "RESULTS_PREVIEW" => b.table = a.preview /\ b.query = a.previewQuery
      BY <2>1, Rereads, Zenon
    <2> HIDE DEF b
    <2>4. ui' = [b EXCEPT !.clicks = @ + 1]
      BY <1>5, Zenon DEF handleRunClears, onClearPreview, does, Nothing, a, b
    <2>5. /\ ResultFields \subseteq DOMAIN ui' /\ ui'.requests = ui.requests /\ ui'.previewQuery = ui.previewQuery
          /\ ui'.disturbed = ui.disturbed /\ ui'.tab = ui.tab /\ page(ui') = page(ui)
          /\ ui.tab = "RESULTS_PREVIEW" => ui'.table = {}
      BY <2>1, <2>2, <2>3, <2>4, Zenon DEF ResultFields, page
    <2>7. ASSUME ~ui.disturbed, ui.tab = "RESULTS_PREVIEW"
          PROVE  InSight(ui'.requests, ui'.table, ui'.preview, ui'.query, ui'.previewQuery, page(ui'))
      <3>1. InSight(ui.requests, ui.table, ui.preview, ui.query, ui.previewQuery, page(ui))
        BY <2>7, Zenon DEF ResultInv
      <3> QED
        BY <2>5, <2>7, <3>1, Zenon DEF InSight
    <2> QED
      BY <1>0, <2>5, <2>7, Zenon DEF ResultInv
  <1>6. ASSUME NEW tab, onTabSelect(tab) PROVE ResultInv(ui')
    <2>1. CASE tab = "RESULTS_PREVIEW"
      <3>1. /\ ResultFields \subseteq DOMAIN ui' /\ ui'.requests = ui.requests /\ ui'.table = {}
            /\ ui'.disturbed = (ui.requests # <<>>)
        BY <1>0, <1>6, <2>1, Zenon DEF onTabSelect, does, mountResults, Nothing, ResultFields
      <3> QED
        BY <1>0, <3>1, ResultAway, Zenon
    <2>2. CASE tab # "RESULTS_PREVIEW"
      <3>1. ResultFields \subseteq DOMAIN ui' /\ ui'.requests = ui.requests /\ ui'.tab # "RESULTS_PREVIEW"
        BY <1>0, <1>6, <2>2, Zenon DEF onTabSelect, does, ResultFields
      <3> QED
        BY <1>0, <3>1, ResultAway, Zenon
    <2> QED
      BY <2>1, <2>2
  <1>7. CASE onExecute
    <2>1. ResultFields \subseteq DOMAIN ui' /\ ui'.requests = ui.requests /\ ui'.tab = "ALL_QUERIES"
      BY <1>0, <1>7, Zenon DEF onExecute, ResultFields
    <2>2. "ALL_QUERIES" # "RESULTS_PREVIEW"
      OBVIOUS
    <2> QED
      BY <1>0, <2>1, <2>2, ResultAway, Zenon
  <1>8. ASSUME NEW i \in DOMAIN ui.requests, PageArrives(i) PROVE ResultInv(ui')
    BY <1>8, ResultArrives, Zenon
  <1>9. ASSUME NEW i \in DOMAIN ui.requests, ResultsRequestFails(i) PROVE ResultInv(ui')
    <2>1. ResultFields \subseteq DOMAIN ui' /\ ui'.requests = RemoveAt(ui.requests, i) /\ ui'.disturbed = TRUE
      BY <1>0, <1>9, Zenon DEF ResultsRequestFails, ResultFields
    <2>2. IsSequence(RemoveAt(ui.requests, i))
      BY <1>0, Cut, Zenon
    <2> QED
      BY <2>1, <2>2, ResultAway, Zenon
  <1> QED
    BY <1>1, <1>2, <1>3, <1>4, <1>5, <1>6, <1>7, <1>8, <1>9, Zenon DEF NextResults

-----------------------------------------------------------------------------
(* Lists that the code searches: the first place where something is *)

WellFounded == INSTANCE WellFoundedInduction

\* A set of natural numbers that is not empty has a least one.
LEMMA Least ==
    ASSUME NEW T \in SUBSET Nat, T # {} PROVE \E x \in T : \A y \in T : x <= y
  <1>1. WellFounded!IsWellFoundedOn(WellFounded!OpToRel(<, Nat), Nat)
    BY WellFounded!NatLessThanWellFounded, Zenon
  <1>2. PICK x \in T : \A y \in T : ~(<<y, x>> \in WellFounded!OpToRel(<, Nat))
    BY <1>1, WellFounded!WFMin, Zenon
  <1>3. \A y \in T : ~(y < x)
    BY <1>2, Zenon DEF WellFounded!OpToRel
  <1> QED
    BY <1>3

\* The removal of an element by its index finds one.
LEMMA FirstIndex ==
    ASSUME NEW s, IsSequence(s), NEW T \in SUBSET DOMAIN s, T # {} PROVE Min(T) \in T
  <1>1. Len(s) \in Nat /\ DOMAIN s = 1..Len(s)
    BY SequenceFacts, Zenon
  <1>2. \A n \in Nat : 1..n \subseteq Nat
    OBVIOUS
  <1>3. T \in SUBSET Nat
    BY <1>1, <1>2, Zenon
  <1>4. \E x \in T : \A y \in T : x <= y
    BY <1>3, Least, Zenon
  <1> QED
    BY <1>4, Zenon DEF Min

\* A new element does not repeat one.
LEMMA AppendInjective ==
    ASSUME NEW s, IsSequence(s), NEW e, IsInjective(s), \A i \in DOMAIN s : s[i] # e
    PROVE  IsInjective(Append(s, e))
  <1>1. \A i \in DOMAIN Append(s, e) :
           (i \in DOMAIN s /\ Append(s, e)[i] = s[i]) \/ (i = Len(s) + 1 /\ Append(s, e)[i] = e)
    BY AppendedElements, Zenon
  <1> QED
    BY <1>1, Zenon DEF IsInjective

\* Where the elements of a shortened list come from.
From(i, j) == IF j < i THEN j ELSE j + 1

\* Where the elements that remain were before.
LEMMA Origins ==
    ASSUME NEW s, IsSequence(s), NEW i \in DOMAIN s
    PROVE  /\ \A j \in DOMAIN RemoveAt(s, i) : RemoveAt(s, i)[j] = s[From(i, j)] /\ From(i, j) \in DOMAIN s
           /\ \A j, k \in DOMAIN RemoveAt(s, i) : From(i, j) = From(i, k) => j = k
  <1>1. Len(s) \in Nat /\ DOMAIN s = 1..Len(s) /\ DOMAIN RemoveAt(s, i) = 1..(Len(s) - 1)
    BY Cut, Zenon
  <1>2. \A j \in 1..(Len(s) - 1) : RemoveAt(s, i)[j] = IF j < i THEN s[j] ELSE s[j + 1]
    BY Cut, Zenon
  <1>3. \A j \in 1..(Len(s) - 1) : RemoveAt(s, i)[j] = s[From(i, j)]
    BY <1>2, Zenon DEF From
  <1>4. i \in 1..Len(s)
    BY <1>1, Zenon
  <1>5. \A j \in 1..(Len(s) - 1) : From(i, j) \in 1..Len(s)
    BY <1>1, <1>4 DEF From
  <1>6. \A j, k \in 1..(Len(s) - 1) : From(i, j) = From(i, k) => j = k
    BY <1>1, <1>4 DEF From
  <1> QED
    BY <1>1, <1>3, <1>5, <1>6, Zenon

\* A sequence without repetition has none after a removal.
LEMMA CutInjective ==
    ASSUME NEW s, IsSequence(s), IsInjective(s), NEW i \in DOMAIN s
    PROVE  IsInjective(RemoveAt(s, i))
  <1>1. \A j \in DOMAIN RemoveAt(s, i) : RemoveAt(s, i)[j] = s[From(i, j)] /\ From(i, j) \in DOMAIN s
    BY Origins, Zenon
  <1>2. \A j, k \in DOMAIN RemoveAt(s, i) : From(i, j) = From(i, k) => j = k
    BY Origins, Zenon
  <1> QED
    BY <1>1, <1>2, Zenon DEF IsInjective

\* A sequence without its first element.
LEMMA TailOf ==
    ASSUME NEW s, IsSequence(s), s # <<>>
    PROVE  /\ IsSequence(Tail(s)) /\ 1 \in DOMAIN s /\ Head(s) = s[1]
           /\ Len(s) \in Nat /\ DOMAIN s = 1..Len(s) /\ Len(Tail(s)) = Len(s) - 1
           /\ DOMAIN Tail(s) = 1..(Len(s) - 1)
           /\ \A j \in 1..(Len(s) - 1) : Tail(s)[j] = s[j + 1]
  <1>1. PICK S : s \in Seq(S)
    BY DEF IsSequence
  <1>2. Tail(s) \in Seq(S) /\ Len(Tail(s)) = Len(s) - 1 /\ Len(s) \in Nat /\ Len(s) > 0 /\ Head(s) = s[1]
    BY <1>1
  <1>3. \A j \in 1..(Len(s) - 1) : Tail(s)[j] = s[j + 1]
    BY <1>1
  <1> QED
    BY <1>1, <1>2, <1>3 DEF IsSequence

\* The last element is the one that was appended.
LEMMA LastAppended ==
    ASSUME NEW s, IsSequence(s), NEW e PROVE Append(s, e)[Len(Append(s, e))] = e
  <1>1. Len(Append(s, e)) = Len(s) + 1
    BY Appended, Zenon
  <1>2. Append(s, e)[Len(s) + 1] = e
    BY Appended, Zenon
  <1> QED
    BY <1>1, <1>2, Zenon

-----------------------------------------------------------------------------
(* The tree of catalogs *)

TreeFields == {"trees", "model", "store", "favourites", "updates", "refreshes", "deletes", "timers", "show",
               "catalog_name", "showObj", "asked", "overtaken", "clicks"}

\* What a timer or a request refers to is a tree that came from the coordinator.
RefersToTrees(u) ==
    /\ IsSequence(u.trees) /\ IsSequence(u.timers)
    /\ \A i \in DOMAIN u.timers : u.timers[i] \in DOMAIN u.trees
    /\ \A request \in u.refreshes : request.tree \in DOMAIN u.trees
    /\ u.model \in DOMAIN u.trees \cup {Blank}

\* The last timer brings what the store has.
BringsStore(u) == /\ u.timers = <<>> => u.model = u.store
                  /\ u.timers # <<>> => u.timers[Len(u.timers)] = u.store

FavouritesOnce(f) == DOMAIN f = 1..3 /\ \A level \in 1..3 : IsSequence(f[level]) /\ IsInjective(f[level])

TreeInv(u) ==
    /\ TreeFields \subseteq DOMAIN u /\ RefersToTrees(u) /\ FavouritesOnce(u.favourites)
    /\ u.model = Blank => u.timers # <<>> \/ u.trees = <<>>
    /\ ~u.overtaken => BringsStore(u)

\* What is promised of the tree follows.
LEMMA TreePromise == ASSUME TreeInv(ui) PROVE FavouriteOnce /\ TreeReturns /\ TreeAgreesWithStore
  BY Zenon DEF TreeInv, FavouritesOnce, BringsStore, FavouriteOnce, TreeReturns, TreeAgreesWithStore

\* The tree starts so.
LEMMA TreeStart == ASSUME InitTree PROVE TreeInv(ui)
  <1>1. /\ TreeFields \subseteq DOMAIN ui /\ ui.trees = <<>> /\ ui.timers = <<>> /\ ui.model = Blank
        /\ ui.store = Blank /\ ui.refreshes = {} /\ ui.favourites = noFavourites
    BY Zenon DEF InitTree, updateTree, constructorTree, TreeFields
  <1>2. DOMAIN noFavourites = 1..3 /\ \A level \in 1..3 : noFavourites[level] = <<>>
    BY DEF noFavourites
  <1>3. FavouritesOnce(noFavourites)
    BY <1>2, EmptySequence, Zenon DEF FavouritesOnce, IsInjective
  <1>4. RefersToTrees(ui)
    BY <1>1, EmptySequence, Zenon DEF RefersToTrees
  <1> QED
    BY <1>1, <1>3, <1>4, Zenon DEF TreeInv, BringsStore

\* What is not the tree, its timers or its favourites does not matter.
LEMMA TreeKept ==
    ASSUME NEW u, NEW v, TreeInv(u), TreeFields \subseteq DOMAIN v, v.trees = u.trees, v.model = u.model,
           v.store = u.store, v.favourites = u.favourites, v.timers = u.timers, v.overtaken = u.overtaken,
           \A request \in v.refreshes : request.tree \in DOMAIN u.trees
    PROVE  TreeInv(v)
  <1>1. RefersToTrees(v)
    BY Zenon DEF TreeInv, RefersToTrees
  <1> QED
    BY <1>1, Zenon DEF TreeInv, BringsStore

\* An item that can be clicked is in a tree.
LEMMA ItemsOfATree ==
    ASSUME NEW u, TreeInv(u), NEW item \in itemsShown(u) PROVE u.model \in DOMAIN u.trees
  <1>1. CASE u.model = Blank
    <2>1. DOMAIN shown(u) = {}
      BY <1>1, EmptySequence, Zenon DEF shown
    <2> QED
      BY <2>1 DEF itemsShown
  <1>2. CASE u.model # Blank
    BY <1>2, Zenon DEF TreeInv, RefersToTrees
  <1> QED
    BY <1>1, <1>2

\* A tree that came is told from a blank one.
LEMMA IndicesAreNotBlank == ASSUME NEW s, IsSequence(s) PROVE Blank \notin DOMAIN s
  <1>1. Len(s) \in Nat /\ DOMAIN s = 1..Len(s)
    BY SequenceFacts, Zenon
  <1>2. \A n \in Nat : 0 \notin 1..n
    OBVIOUS
  <1> QED
    BY <1>1, <1>2, Zenon DEF Blank

\* The tree goes, and a timer has it.
LEMMA Reloaded ==
    ASSUME NEW u, NEW f, FavouritesOnce(f), TreeInv(u), u.model \in DOMAIN u.trees
    PROVE  TreeInv(reloadItem([u EXCEPT !.favourites = f]))
  <1> DEFINE w == [u EXCEPT !.favourites = f]
             v == reloadItem(w)
  <1>1. /\ TreeFields \subseteq DOMAIN w /\ w.favourites = f
        /\ \A x \in TreeFields \ {"favourites"} : w[x] = u[x]
    BY Zenon DEF TreeInv, TreeFields
  <1>2. v = [w EXCEPT !.model = Blank, !.timers = Append(@, w.model), !.overtaken = @ \/ w.timers # <<>>]
    BY Zenon DEF reloadItem
  <1>3. /\ w.trees = u.trees /\ w.store = u.store /\ w.refreshes = u.refreshes /\ w.model = u.model
        /\ w.timers = u.timers
    BY <1>1, Zenon DEF TreeFields
  <1> HIDE DEF w, v
  <1>4. /\ TreeFields \subseteq DOMAIN v /\ v.favourites = f /\ v.trees = u.trees /\ v.store = u.store
        /\ v.refreshes = u.refreshes /\ v.model = Blank /\ v.timers = Append(u.timers, u.model)
        /\ v.overtaken = (w.overtaken \/ u.timers # <<>>)
    BY <1>1, <1>2, <1>3, Zenon DEF TreeFields
  <1>5. w.overtaken = u.overtaken
    BY <1>1, Zenon DEF TreeFields
  <1>6. IsSequence(u.timers) /\ RefersToTrees(u)
    BY Zenon DEF TreeInv, RefersToTrees
  <1>7. IsSequence(Append(u.timers, u.model)) /\ Append(u.timers, u.model) # <<>>
    BY <1>6, Appended, Zenon
  <1>8. \A i \in DOMAIN Append(u.timers, u.model) :
           (i \in DOMAIN u.timers /\ Append(u.timers, u.model)[i] = u.timers[i])
           \/ (i = Len(u.timers) + 1 /\ Append(u.timers, u.model)[i] = u.model)
    BY <1>6, AppendedElements, Zenon
  <1>9. Append(u.timers, u.model)[Len(Append(u.timers, u.model))] = u.model
    BY <1>6, LastAppended, Zenon
  <1>10. RefersToTrees(v)
    BY <1>4, <1>6, <1>7, <1>8, Zenon DEF RefersToTrees
  <1>11. ~v.overtaken => v.timers[Len(v.timers)] = v.store
    BY <1>4, <1>5, <1>9, Zenon DEF TreeInv, BringsStore
  <1> QED
    BY <1>4, <1>7, <1>10, <1>11, Zenon DEF TreeInv, BringsStore, v, w

\* addToFavorites: the item was in no list.
LEMMA FavouriteAdded ==
    ASSUME NEW f, FavouritesOnce(f), NEW item, ~Contains(f[Len(item)], item)
    PROVE  FavouritesOnce([f EXCEPT ![Len(item)] = Append(@, item)])
  <1> DEFINE n == Len(item)
             g == [f EXCEPT ![n] = Append(@, item)]
  <1>1. DOMAIN g = 1..3 /\ \A level \in 1..3 : g[level] = IF level = n THEN Append(f[n], item) ELSE f[level]
    BY Zenon DEF FavouritesOnce
  <1>2. ~Contains(f[n], item)
    BY Zenon
  <1> HIDE DEF n, g
  <1>3. ASSUME n \in 1..3 PROVE IsSequence(Append(f[n], item)) /\ IsInjective(Append(f[n], item))
    <2>1. IsSequence(f[n]) /\ IsInjective(f[n])
      BY <1>3, Zenon DEF FavouritesOnce
    <2>2. \A i \in DOMAIN f[n] : f[n][i] # item
      BY <1>2, Zenon DEF Contains
    <2>3. IsSequence(Append(f[n], item))
      BY <2>1, Appended, Zenon
    <2> QED
      BY <2>1, <2>2, <2>3, AppendInjective, Zenon
  <1> QED
    BY <1>1, <1>3, Zenon DEF FavouritesOnce, g, n

\* removeFromFavorites.
LEMMA FavouriteRemoved ==
    ASSUME NEW f, FavouritesOnce(f), NEW item, Contains(f[Len(item)], item)
    PROVE  FavouritesOnce([f EXCEPT ![Len(item)] = Remove(@, item)])
  <1> DEFINE n == Len(item)
             g == [f EXCEPT ![n] = Remove(@, item)]
             T == {i \in DOMAIN f[n] : f[n][i] = item}
  <1>1. DOMAIN g = 1..3 /\ \A level \in 1..3 : g[level] = IF level = n THEN Remove(f[n], item) ELSE f[level]
    BY Zenon DEF FavouritesOnce
  <1>2. T # {} /\ T \in SUBSET DOMAIN f[n] /\ Remove(f[n], item) = RemoveAt(f[n], Min(T))
    BY Zenon DEF Contains, Remove, indexOf
  <1> HIDE DEF n, g, T
  <1>3. ASSUME n \in 1..3 PROVE IsSequence(Remove(f[n], item)) /\ IsInjective(Remove(f[n], item))
    <2>1. IsSequence(f[n]) /\ IsInjective(f[n])
      BY <1>3, Zenon DEF FavouritesOnce
    <2>2. Min(T) \in DOMAIN f[n]
      BY <1>2, <2>1, FirstIndex, Zenon
    <2>3. IsSequence(RemoveAt(f[n], Min(T)))
      BY <2>1, <2>2, Cut, Zenon
    <2>4. IsInjective(RemoveAt(f[n], Min(T)))
      BY <2>1, <2>2, CutInjective, Zenon
    <2> QED
      BY <1>2, <2>3, <2>4, Zenon
  <1> QED
    BY <1>1, <1>3, Zenon DEF FavouritesOnce, g, n

\* The number of clicks does not matter.
LEMMA TreeDone == ASSUME NEW u, TreeInv(u), ui' = [u EXCEPT !.clicks = @ + 1] PROVE TreeInv(ui')
  <1>1. /\ TreeFields \subseteq DOMAIN ui' /\ ui'.trees = u.trees /\ ui'.model = u.model
        /\ ui'.store = u.store /\ ui'.favourites = u.favourites /\ ui'.timers = u.timers
        /\ ui'.overtaken = u.overtaken /\ ui'.refreshes = u.refreshes
    BY Zenon DEF TreeInv, TreeFields
  <1>2. \A request \in ui'.refreshes : request.tree \in DOMAIN u.trees
    BY <1>1, Zenon DEF TreeInv, RefersToTrees
  <1> QED
    BY <1>1, <1>2, TreeKept, Zenon

\* A click that makes an item a favourite.
LEMMA TreeStarred ==
    ASSUME TreeInv(ui), NEW item \in itemsShown(ui), clickAddToFavorites(item) PROVE TreeInv(ui')
  <1>1. ui' = [addToFavorites(ui, item) EXCEPT !.clicks = @ + 1]
    BY Zenon DEF clickAddToFavorites, does
  <1>2. TreeInv(addToFavorites(ui, item))
    <2>1. CASE isFavorite(ui, item).self
      BY <2>1, Zenon DEF addToFavorites
    <2>2. CASE ~isFavorite(ui, item).self
      <3> DEFINE g == [ui.favourites EXCEPT ![Len(item)] = Append(@, item)]
      <3>1. ~Contains(ui.favourites[Len(item)], item)
        BY <2>2, Zenon DEF isFavorite
      <3>2. FavouritesOnce(g)
        BY <3>1, FavouriteAdded, Zenon DEF TreeInv
      <3>3. addToFavorites(ui, item) = reloadItem([ui EXCEPT !.favourites = g])
        BY <2>2, Zenon DEF addToFavorites, TreeInv, TreeFields
      <3>4. ui.model \in DOMAIN ui.trees
        BY ItemsOfATree, Zenon
      <3> HIDE DEF g
      <3> QED
        BY <3>2, <3>3, <3>4, Reloaded, Zenon
    <2> QED
      BY <2>1, <2>2
  <1> QED
    BY <1>1, <1>2, TreeDone, Zenon

\* A click that ends it.
LEMMA TreeUnstarred ==
    ASSUME TreeInv(ui), NEW item \in itemsShown(ui), clickRemoveFromFavorites(item) PROVE TreeInv(ui')
  <1> DEFINE g == [ui.favourites EXCEPT ![Len(item)] = Remove(@, item)]
  <1>1. ui' = [removeFromFavorites(ui, item) EXCEPT !.clicks = @ + 1] /\ offersRemoval(ui, item)
    BY Zenon DEF clickRemoveFromFavorites, does
  <1>2. Contains(ui.favourites[Len(item)], item)
    BY <1>1, Zenon DEF offersRemoval, isFavorite
  <1>3. FavouritesOnce(g)
    BY <1>2, FavouriteRemoved, Zenon DEF TreeInv
  <1>4. removeFromFavorites(ui, item) = reloadItem([ui EXCEPT !.favourites = g])
    BY Zenon DEF removeFromFavorites, TreeInv, TreeFields
  <1>5. ui.model \in DOMAIN ui.trees
    BY ItemsOfATree, Zenon
  <1> HIDE DEF g
  <1>6. TreeInv(removeFromFavorites(ui, item))
    BY <1>3, <1>4, <1>5, Reloaded, Zenon
  <1> QED
    BY <1>1, <1>6, TreeDone, Zenon

\* What leaves the tree, its timers and its favourites alone.
TreeAside == /\ TreeFields \subseteq DOMAIN ui' /\ ui'.trees = ui.trees /\ ui'.model = ui.model
             /\ ui'.store = ui.store /\ ui'.favourites = ui.favourites /\ ui'.timers = ui.timers
             /\ ui'.overtaken = ui.overtaken

\* A step elsewhere that begins no refresh.
LEMMA TreeLeftAlone ==
    ASSUME TreeInv(ui), TreeAside, \A request \in ui'.refreshes : request \in ui.refreshes PROVE TreeInv(ui')
  <1>1. \A request \in ui'.refreshes : request.tree \in DOMAIN ui.trees
    BY Zenon DEF TreeInv, RefersToTrees
  <1> QED
    BY <1>1, TreeKept, Zenon DEF TreeAside

\* The dialog, the deletions, the failures and the answers that only clear a mark.
LEMMA TreeElsewhere ==
    ASSUME TreeInv(ui),
           \/ clickRefreshButton \/ treeShowModal
           \/ \E item \in itemsShown(ui) : deleteCatalog(item) \/ showCatalog(item)
           \/ TreeRequestFails
           \/ \E catalog \in Catalog : CatalogDeleted(catalog) \/ CatalogShown(catalog)
    PROVE  TreeInv(ui')
  <1>0. TreeFields \subseteq DOMAIN ui
    BY Zenon DEF TreeInv
  <1>1. CASE clickRefreshButton
    <2>1. TreeAside /\ ui'.refreshes = ui.refreshes
      BY <1>0, <1>1, Zenon DEF clickRefreshButton, does, updateTree, TreeFields, TreeAside
    <2> QED
      BY <2>1, TreeLeftAlone, Zenon
  <1>2. CASE treeShowModal
    <2>1. TreeAside /\ ui'.refreshes = ui.refreshes
      BY <1>0, <1>2, Zenon DEF treeShowModal, does, TreeFields, TreeAside
    <2> QED
      BY <2>1, TreeLeftAlone, Zenon
  <1>3. ASSUME NEW item, deleteCatalog(item) PROVE TreeInv(ui')
    <2>1. TreeAside /\ ui'.refreshes = ui.refreshes
      BY <1>0, <1>3, Zenon DEF deleteCatalog, does, TreeFields, TreeAside
    <2> QED
      BY <2>1, TreeLeftAlone, Zenon
  <1>4. ASSUME NEW item, showCatalog(item) PROVE TreeInv(ui')
    <2>1. TreeAside /\ ui'.refreshes = ui.refreshes
      BY <1>0, <1>4, Zenon DEF showCatalog, does, TreeFields, TreeAside
    <2> QED
      BY <2>1, TreeLeftAlone, Zenon
  <1>5. CASE TreeRequestFails
    <2>1. CASE ui' = [ui EXCEPT !.updates = @ - 1]
      <3>1. TreeAside /\ ui'.refreshes = ui.refreshes
        BY <1>0, <2>1, Zenon DEF TreeFields, TreeAside
      <3> QED
        BY <3>1, TreeLeftAlone, Zenon
    <2>2. ASSUME NEW request, ui' = [ui EXCEPT !.refreshes = @ \ {request}] PROVE TreeInv(ui')
      <3>1. TreeAside /\ ui'.refreshes = ui.refreshes \ {request}
        BY <1>0, <2>2, Zenon DEF TreeFields, TreeAside
      <3> QED
        BY <3>1, TreeLeftAlone, Zenon
    <2>3. ASSUME NEW catalog, ui' = [ui EXCEPT !.deletes = @ \ {catalog}] PROVE TreeInv(ui')
      <3>1. TreeAside /\ ui'.refreshes = ui.refreshes
        BY <1>0, <2>3, Zenon DEF TreeFields, TreeAside
      <3> QED
        BY <3>1, TreeLeftAlone, Zenon
    <2>4. ASSUME NEW catalog, ui' = [ui EXCEPT !.asked = @ \ {catalog}] PROVE TreeInv(ui')
      <3>1. TreeAside /\ ui'.refreshes = ui.refreshes
        BY <1>0, <2>4, Zenon DEF TreeFields, TreeAside
      <3> QED
        BY <3>1, TreeLeftAlone, Zenon
    <2> QED
      BY <1>5, <2>1, <2>2, <2>3, <2>4, Zenon DEF TreeRequestFails
  <1>6. ASSUME NEW catalog, CatalogDeleted(catalog) PROVE TreeInv(ui')
    <2>1. TreeAside /\ ui'.refreshes = ui.refreshes
      BY <1>0, <1>6, Zenon DEF CatalogDeleted, updateTree, TreeFields, TreeAside
    <2> QED
      BY <2>1, TreeLeftAlone, Zenon
  <1>7. ASSUME NEW catalog, CatalogShown(catalog) PROVE TreeInv(ui')
    <2>1. TreeAside /\ ui'.refreshes = ui.refreshes
      BY <1>0, <1>7, Zenon DEF CatalogShown, TreeFields, TreeAside
    <2> QED
      BY <2>1, TreeLeftAlone, Zenon
  <1> QED
    BY <1>1, <1>2, <1>3, <1>4, <1>5, <1>6, <1>7, Zenon

\* A refresh of one item is asked for.
LEMMA TreeAskedFor ==
    ASSUME TreeInv(ui), NEW item \in itemsShown(ui), refreshItem(item) PROVE TreeInv(ui')
  <1> DEFINE r == [tree |-> ui.model, item |-> item]
  <1>1. TreeFields \subseteq DOMAIN ui /\ ui.model \in DOMAIN ui.trees /\ r.tree = ui.model
    BY ItemsOfATree, Zenon DEF TreeInv
  <1>2. ui' = [[ui EXCEPT !.refreshes = @ \cup {r}] EXCEPT !.clicks = @ + 1]
    BY Zenon DEF refreshItem, does
  <1> HIDE DEF r
  <1>3. TreeAside /\ ui'.refreshes = ui.refreshes \cup {r}
    BY <1>1, <1>2, Zenon DEF TreeFields, TreeAside
  <1>4. \A request \in ui'.refreshes : request.tree \in DOMAIN ui.trees
    BY <1>1, <1>3, Zenon DEF TreeInv, RefersToTrees
  <1> QED
    BY <1>3, <1>4, TreeKept, Zenon DEF TreeAside

\* A whole tree comes.
LEMMA TreeArrives ==
    ASSUME TreeInv(ui), UpdateArrives PROVE TreeInv(ui')
  <1> DEFINE n == Len(ui.trees) + 1
             t == Append(ui.trees, server)
  <1>0. TreeFields \subseteq DOMAIN ui /\ RefersToTrees(ui) /\ IsSequence(ui.trees)
    BY Zenon DEF TreeInv, RefersToTrees
  <1>1. ui' = [ui EXCEPT !.trees = t, !.store = n, !.model = n, !.overtaken = ui.timers # <<>>,
                         !.updates = @ - 1]
    BY Zenon DEF UpdateArrives
  <1> HIDE DEF n, t
  <1>2. /\ TreeFields \subseteq DOMAIN ui' /\ ui'.trees = t /\ ui'.store = n /\ ui'.model = n
        /\ ui'.overtaken = (ui.timers # <<>>) /\ ui'.timers = ui.timers /\ ui'.refreshes = ui.refreshes
        /\ ui'.favourites = ui.favourites
    BY <1>0, <1>1, Zenon DEF TreeFields
  <1>3. IsSequence(t) /\ n \in DOMAIN t /\ DOMAIN ui.trees \subseteq DOMAIN t
    <2>1. /\ IsSequence(Append(ui.trees, server)) /\ Len(ui.trees) \in Nat
          /\ DOMAIN Append(ui.trees, server) = 1..(Len(ui.trees) + 1) /\ DOMAIN ui.trees = 1..Len(ui.trees)
      BY <1>0, Appended, Zenon
    <2>2. \A k \in Nat : k + 1 \in 1..(k + 1) /\ 1..k \subseteq 1..(k + 1)
      OBVIOUS
    <2> QED
      BY <2>1, <2>2, Zenon DEF n, t
  <1>4. n # Blank
    BY <1>3, IndicesAreNotBlank, Zenon
  <1>5. RefersToTrees(ui')
    BY <1>0, <1>2, <1>3, Zenon DEF RefersToTrees
  <1> QED
    BY <1>2, <1>4, <1>5, Zenon DEF TreeInv, BringsStore

\* The part of the tree comes that a refresh asked for.
LEMMA TreeRefreshed ==
    ASSUME TreeInv(ui), NEW request \in ui.refreshes, RefreshArrives(request) PROVE TreeInv(ui')
  <1> DEFINE n == request.tree
             e == IF Len(request.item) = 1 THEN server[request.item[1]]
                  ELSE ui.trees[request.tree][request.item[1]]
             t == [ui.trees EXCEPT ![request.tree] = [ui.trees[request.tree] EXCEPT ![request.item[1]] = e]]
  <1>0. /\ TreeFields \subseteq DOMAIN ui /\ RefersToTrees(ui) /\ IsSequence(ui.trees)
        /\ IsSequence(ui.timers) /\ n \in DOMAIN ui.trees
    BY Zenon DEF TreeInv, RefersToTrees
  <1>1. ui' = [ui EXCEPT !.trees = t, !.store = n, !.timers = Append(@, n), !.refreshes = @ \ {request}]
    BY <1>0, Zenon DEF RefreshArrives, TreeFields
  <1>2. IsSequence(t) /\ DOMAIN t = DOMAIN ui.trees
    BY <1>0, Replaced, Zenon
  <1> HIDE DEF n, e, t
  <1>3. /\ TreeFields \subseteq DOMAIN ui' /\ ui'.trees = t /\ ui'.store = n /\ ui'.model = ui.model
        /\ ui'.timers = Append(ui.timers, n) /\ ui'.refreshes = ui.refreshes \ {request}
        /\ ui'.favourites = ui.favourites
    BY <1>0, <1>1, Zenon DEF TreeFields
  <1>4. IsSequence(Append(ui.timers, n)) /\ Append(ui.timers, n) # <<>>
    BY <1>0, Appended, Zenon
  <1>5. \A i \in DOMAIN Append(ui.timers, n) :
           (i \in DOMAIN ui.timers /\ Append(ui.timers, n)[i] = ui.timers[i])
           \/ (i = Len(ui.timers) + 1 /\ Append(ui.timers, n)[i] = n)
    BY <1>0, AppendedElements, Zenon
  <1>6. Append(ui.timers, n)[Len(Append(ui.timers, n))] = n
    BY <1>0, LastAppended, Zenon
  <1>7. RefersToTrees(ui')
    BY <1>0, <1>2, <1>3, <1>4, <1>5, Zenon DEF RefersToTrees
  <1> QED
    BY <1>3, <1>4, <1>6, <1>7, Zenon DEF TreeInv, BringsStore

\* The timer that brings the tree back.
LEMMA TreeTimer ==
    ASSUME TreeInv(ui), TimerFires PROVE TreeInv(ui')
  <1> DEFINE s == ui.timers
  <1>0. TreeFields \subseteq DOMAIN ui /\ RefersToTrees(ui) /\ IsSequence(s) /\ s # <<>>
    BY Zenon DEF TreeInv, RefersToTrees, TimerFires
  <1>1. ui' = [ui EXCEPT !.model = Head(s), !.timers = Tail(s)]
    BY <1>0, Zenon DEF TimerFires, TreeFields
  <1>2. /\ TreeFields \subseteq DOMAIN ui' /\ ui'.trees = ui.trees /\ ui'.store = ui.store
        /\ ui'.model = Head(s) /\ ui'.timers = Tail(s) /\ ui'.refreshes = ui.refreshes
        /\ ui'.favourites = ui.favourites /\ ui'.overtaken = ui.overtaken
    BY <1>0, <1>1, Zenon DEF TreeFields
  <1>3. \A i \in DOMAIN s : s[i] \in DOMAIN ui.trees
    BY <1>0, Zenon DEF RefersToTrees
  <1>4. ~ui.overtaken => s[Len(s)] = ui.store
    BY <1>0, Zenon DEF TreeInv, BringsStore
  <1> HIDE DEF s
  <1>5. IsSequence(Tail(s)) /\ 1 \in DOMAIN s /\ Head(s) = s[1]
    BY <1>0, TailOf, Zenon
  <1>6. /\ Len(s) \in Nat /\ DOMAIN s = 1..Len(s) /\ Len(Tail(s)) = Len(s) - 1
        /\ DOMAIN Tail(s) = 1..(Len(s) - 1)
    BY <1>0, TailOf, Zenon
  <1>7. \A j \in 1..(Len(s) - 1) : Tail(s)[j] = s[j + 1]
    BY <1>0, TailOf
  <1>8. \A j \in 1..(Len(s) - 1) : j + 1 \in 1..Len(s)
    BY <1>6
  <1>9. RefersToTrees(ui')
    <2>1. \A i \in DOMAIN Tail(s) : Tail(s)[i] \in DOMAIN ui.trees
      BY <1>3, <1>6, <1>7, <1>8, Zenon
    <2> QED
      BY <1>0, <1>2, <1>3, <1>5, <2>1, Zenon DEF RefersToTrees
  <1>10. Head(s) # Blank
    BY <1>0, <1>3, <1>5, IndicesAreNotBlank, Zenon DEF RefersToTrees
  <1>11. Tail(s) = <<>> => Head(s) = s[Len(s)]
    <2>1. Tail(s) = <<>> => Len(Tail(s)) = 0
      BY <1>5, SequenceFacts, Zenon
    <2>2. \A n \in Nat : n - 1 = 0 => n = 1
      OBVIOUS
    <2> QED
      BY <1>5, <1>6, <2>1, <2>2, Zenon
  <1>12. Tail(s) # <<>> => Tail(s)[Len(Tail(s))] = s[Len(s)]
    <2>1. Tail(s) # <<>> => Len(Tail(s)) # 0
      BY <1>5, SequenceFacts, Zenon
    <2>2. 1 \in 1..Len(s)
      BY <1>5, <1>6, Zenon
    <2>3. Len(s) - 1 # 0 => Len(s) - 1 \in 1..(Len(s) - 1) /\ (Len(s) - 1) + 1 = Len(s)
      BY <1>6, <2>2
    <2> QED
      BY <1>6, <1>7, <2>1, <2>3, Zenon
  <1> QED
    BY <1>2, <1>4, <1>9, <1>10, <1>11, <1>12, Zenon DEF TreeInv, BringsStore

\* Every step of the tree keeps the invariant.
LEMMA TreeStep == ASSUME TreeInv(ui), NextTree PROVE TreeInv(ui')
  <1>1. CASE UserTree
    BY <1>1, TreeElsewhere, TreeStarred, TreeUnstarred, TreeAskedFor, Zenon DEF UserTree
  <1>2. CASE UpdateArrives \/ TimerFires \/ TreeRequestFails
    BY <1>2, TreeArrives, TreeTimer, TreeElsewhere, Zenon
  <1>3. CASE \E request \in ui.refreshes : RefreshArrives(request)
    BY <1>3, TreeRefreshed, Zenon
  <1>4. CASE \E catalog \in Catalog : CatalogDeleted(catalog) \/ CatalogShown(catalog)
    BY <1>4, TreeElsewhere, Zenon
  <1> QED
    BY <1>1, <1>2, <1>3, <1>4, Zenon DEF NextTree

-----------------------------------------------------------------------------
(* The list of models of FluxCollection.js: adding is recursive, so the lemmas are by *)
(* induction over the models                                                         *)

\* What one model does to the list.
OneMore(rest, model, updates) ==
    IF ~contains(rest, model.uuid) THEN Append(rest, model)
    ELSE IF updates THEN update(rest, model.uuid, model) ELSE rest

Adding(g, c, models, updates, N) ==
    g = [n \in 0..N |-> IF n = 0 THEN c ELSE OneMore(g[n - 1], models[n], updates)]

\* The recursion of Collection.add has a solution, by induction over the models.
LEMMA AddingExists ==
    ASSUME NEW c, NEW models, NEW updates, NEW N \in Nat
    PROVE  \E g : Adding(g, c, models, updates, N)
  <1> DEFINE T == {n \in Nat : ~\E g : Adding(g, c, models, updates, n)}
  <1>1. ASSUME T # {} PROVE FALSE
    <2>1. PICK n \in T : \A m \in T : n <= m
      BY <1>1, Least, Zenon
    <2>2. CASE n = 0
      <3> DEFINE g == [m \in 0..0 |-> c]
      <3>1. Adding(g, c, models, updates, 0)
        <4>1. \A m \in 0..0 : m = 0
          OBVIOUS
        <4> QED
          BY <4>1, Zenon DEF Adding
      <3> QED
        BY <2>2, <3>1, Zenon
    <2>3. CASE n # 0
      <3>1. n \in Nat /\ n - 1 \in Nat /\ ~(n <= n - 1)
        BY <2>3
      <3>2. PICK g : Adding(g, c, models, updates, n - 1)
        BY <2>1, <3>1, Zenon
      <3> DEFINE h == [m \in 0..n |-> IF m = n THEN OneMore(g[n - 1], models[n], updates) ELSE g[m]]
      <3>3. /\ DOMAIN g = 0..(n - 1)
            /\ \A m \in 0..(n - 1) : g[m] = IF m = 0 THEN c ELSE OneMore(g[m - 1], models[m], updates)
        BY <3>2, Zenon DEF Adding
      <3>4. ASSUME NEW m \in 0..n PROVE h[m] = IF m = 0 THEN c ELSE OneMore(h[m - 1], models[m], updates)
        <4>1. CASE m = n
          <5>1. h[m] = OneMore(g[n - 1], models[n], updates)
            BY <4>1, Zenon
          <5>2. n - 1 \in 0..n /\ n - 1 # n
            BY <3>1
          <5>3. h[n - 1] = g[n - 1]
            BY <5>2, Zenon
          <5> QED
            BY <2>3, <4>1, <5>1, <5>3, Zenon
        <4>2. CASE m # n
          <5>1. m \in 0..(n - 1) /\ (m # 0 => m - 1 \in 0..n /\ m - 1 # n)
            BY <3>1, <4>2
          <5>2. h[m] = g[m] /\ (m # 0 => h[m - 1] = g[m - 1])
            BY <4>2, <5>1, Zenon
          <5> HIDE DEF h
          <5> QED
            BY <3>3, <5>1, <5>2, Zenon
        <4> QED
          BY <4>1, <4>2
      <3>5. h = [m \in 0..n |-> h[m]]
        BY Zenon
      <3> HIDE DEF h
      <3>6. Adding(h, c, models, updates, n)
        BY <3>4, <3>5, Zenon DEF Adding
      <3> QED
        BY <3>6, Zenon
    <2> QED
      BY <2>2, <2>3
  <1> QED
    BY <1>1, Zenon

\* What Collection.add returns is the value of a solution.
LEMMA AddIsAdding ==
    ASSUME NEW c, NEW models, NEW updates, Len(models) \in Nat
    PROVE  \E g : Adding(g, c, models, updates, Len(models)) /\ add(c, models, updates) = g[Len(models)]
  <1> DEFINE g == CHOOSE f : Adding(f, c, models, updates, Len(models))
  <1>1. Adding(g, c, models, updates, Len(models))
    BY AddingExists, Zenon
  <1>2. add(c, models, updates) = g[Len(models)]
    BY Zenon DEF add, Adding, OneMore
  <1> QED
    BY <1>1, <1>2, Zenon

\* A list of models in which no uuid comes twice.
EachOnce(c) == IsSequence(c) /\ IsInjective(uuids(c))

\* What it means that no uuid occurs twice.
LEMMA UuidsOf ==
    ASSUME NEW c PROVE IsInjective(uuids(c)) <=> \A i, j \in DOMAIN c : c[i].uuid = c[j].uuid => i = j
  BY Zenon DEF uuids, IsInjective

\* A model with a new uuid repeats none.
LEMMA AppendedOnce ==
    ASSUME NEW c, NEW model, EachOnce(c), ~contains(c, model.uuid) PROVE EachOnce(Append(c, model))
  <1>1. IsSequence(c) /\ \A i, j \in DOMAIN c : c[i].uuid = c[j].uuid => i = j
    BY UuidsOf, Zenon DEF EachOnce
  <1>2. \A i \in DOMAIN c : c[i].uuid # model.uuid
    BY Zenon DEF contains, positions
  <1>3. IsSequence(Append(c, model))
    BY <1>1, Appended, Zenon
  <1>4. \A i \in DOMAIN Append(c, model) :
           (i \in DOMAIN c /\ Append(c, model)[i] = c[i]) \/ (i = Len(c) + 1 /\ Append(c, model)[i] = model)
    BY <1>1, AppendedElements, Zenon
  <1>5. \A i, j \in DOMAIN Append(c, model) : Append(c, model)[i].uuid = Append(c, model)[j].uuid => i = j
    BY <1>1, <1>2, <1>4, Zenon
  <1> QED
    BY <1>3, <1>5, UuidsOf, Zenon DEF EachOnce

\* Collection.add repeats no uuid, whatever it is given, by induction over the models.
LEMMA AddedOnce ==
    ASSUME NEW c, NEW models, EachOnce(c), Len(models) \in Nat PROVE EachOnce(add(c, models, FALSE))
  <1> DEFINE N == Len(models)
  <1>1. PICK g : Adding(g, c, models, FALSE, N) /\ add(c, models, FALSE) = g[N]
    BY AddIsAdding, Zenon
  <1>2. \A n \in 0..N : g[n] = IF n = 0 THEN c ELSE OneMore(g[n - 1], models[n], FALSE)
    BY <1>1, Zenon DEF Adding
  <1>3. N \in Nat
    BY Zenon
  <1> HIDE DEF N
  <1> DEFINE T == {n \in Nat : n <= N /\ ~EachOnce(g[n])}
  <1>4. ASSUME T # {} PROVE FALSE
    <2>1. PICK n \in T : \A m \in T : n <= m
      BY <1>4, Least, Zenon
    <2>2. n \in Nat /\ n <= N /\ ~EachOnce(g[n])
      BY <2>1, Zenon
    <2>3. n \in 0..N
      BY <1>3, <2>2
    <2>4. n # 0
      BY <1>2, <2>2, <2>3, Zenon
    <2>5. n - 1 \in Nat /\ n - 1 <= N /\ ~(n <= n - 1)
      BY <1>3, <2>2, <2>4
    <2>6. EachOnce(g[n - 1])
      BY <2>1, <2>5, Zenon
    <2>7. g[n] = OneMore(g[n - 1], models[n], FALSE)
      BY <1>2, <2>3, <2>4, Zenon
    <2> QED
      BY <2>2, <2>6, <2>7, AppendedOnce, Zenon DEF OneMore
  <1>5. N <= N
    BY <1>3
  <1> QED
    BY <1>1, <1>3, <1>4, <1>5, Zenon

\* Nor does Collection.remove.
LEMMA RemovedOnce ==
    ASSUME NEW c, NEW uuid, IsSequence(c)
    PROVE  IsSequence(remove(c, uuid)) /\ (EachOnce(c) => EachOnce(remove(c, uuid)))
  <1> DEFINE i == Min(positions(c, uuid))
  <1>1. CASE contains(c, uuid)
    <2>1. positions(c, uuid) # {} /\ positions(c, uuid) \in SUBSET DOMAIN c
      BY <1>1, Zenon DEF contains, positions
    <2>2. i \in positions(c, uuid)
      BY <2>1, FirstIndex, Zenon
    <2>3. i \in DOMAIN c /\ remove(c, uuid) = RemoveAt(c, i)
      BY <1>1, <2>1, <2>2, Zenon DEF remove
    <2> HIDE DEF i
    <2>4. IsSequence(RemoveAt(c, i))
      BY <2>3, Cut, Zenon
    <2>5. ASSUME EachOnce(c) PROVE EachOnce(RemoveAt(c, i))
      <3>1. IsInjective(uuids(c))
        BY <2>5, Zenon DEF EachOnce
      <3>2. \A j \in DOMAIN RemoveAt(c, i) : RemoveAt(c, i)[j] = c[From(i, j)] /\ From(i, j) \in DOMAIN c
        BY <2>3, Origins, Zenon
      <3>4. \A j, k \in DOMAIN RemoveAt(c, i) : From(i, j) = From(i, k) => j = k
        BY <2>3, Origins, Zenon
      <3>3. \A j, k \in DOMAIN RemoveAt(c, i) :
               RemoveAt(c, i)[j].uuid = RemoveAt(c, i)[k].uuid => j = k
        <4>1. \A j, k \in DOMAIN c : c[j].uuid = c[k].uuid => j = k
          BY <3>1, UuidsOf, Zenon
        <4> QED
          BY <3>2, <3>4, <4>1, ZenonT(30)
      <3> QED
        BY <2>4, <3>3, UuidsOf, Zenon DEF EachOnce
    <2> QED
      BY <2>3, <2>4, <2>5, Zenon
  <1>2. CASE ~contains(c, uuid)
    BY <1>2, Zenon DEF remove
  <1> QED
    BY <1>1, <1>2

-----------------------------------------------------------------------------
(* The text and the context *)

TextFields == {"text", "query", "currentContext", "selectedQuery", "sessionContext", "aliased", "collection",
               "fetches", "destroys", "model", "runs", "clicks"}

Initial == [catalog |-> "system", schema |-> "runtime"]
Whole(context) == context \in Context \cup {NoContext, Initial}

TextInv(u, s) ==
    /\ TextFields \subseteq DOMAIN u /\ IsSequence(s) /\ EachOnce(u.collection)
    /\ u.query = u.text
    /\ Whole(u.currentContext) /\ Whole(u.sessionContext)
    /\ \A run \in u.runs : Whole(run.context)
    /\ u.aliased => u.sessionContext = u.currentContext
    /\ \A model \in u.model : \A c \in Catalog : model[c] \subseteq schemasOf[c]

\* What is promised of the text and the context follows.
LEMMA TextPromise ==
    ASSUME NEW s, TextInv(ui, s) PROVE SamplesOnce /\ RunsWhatIsShown /\ ContextNotMixed
  <1>1. constructorText.currentContext = Initial
    BY Zenon DEF constructorText, Initial
  <1> QED
    BY <1>1, Zenon DEF TextInv, EachOnce, Whole, SamplesOnce, RunsWhatIsShown, ContextNotMixed

\* The editor starts so.
LEMMA TextStart == ASSUME InitText PROVE TextInv(ui, server)
  <1>1. /\ TextFields \subseteq DOMAIN ui /\ ui.query = ui.text /\ ui.currentContext = Initial
        /\ ui.sessionContext = NoContext /\ ui.aliased = FALSE /\ ui.collection = <<>> /\ ui.model = {}
        /\ ui.runs = {}
    BY Zenon DEF InitText, constructorText, TextFields, Initial
  <1>2. IsSequence(server)
    <2>1. PICK n \in 1..MaxSamples : server \in [1..n -> [uuid : Uuid, query : Query \ {""}]]
      BY Zenon DEF InitText, Samples
    <2>2. n \in Nat
      OBVIOUS
    <2>3. server = [i \in 1..n |-> server[i]]
      BY <2>1, Zenon
    <2> QED
      BY <2>2, <2>3, SequenceOf, Zenon
  <1>3. EachOnce(<<>>)
    BY EmptySequence, UuidsOf, Zenon DEF EachOnce
  <1>4. Whole(Initial) /\ Whole(NoContext)
    BY Zenon DEF Whole
  <1> QED
    BY <1>1, <1>2, <1>3, <1>4, Zenon DEF TextInv

\* The editor rereads QueryStore.
LEMMA Reread ==
    ASSUME NEW u, NEW s, TextInv(u, s) PROVE TextInv(_selectQuery(u), s)
  <1> DEFINE new == IF u.selectedQuery = {} THEN u.text ELSE terminated(CHOOSE t \in u.selectedQuery : TRUE)
             q == IF u.selectedQuery = {} THEN u.query ELSE new
             k == IF u.sessionContext = NoContext THEN u.currentContext ELSE u.sessionContext
             v == _selectQuery(u)
  <1>1. v = [u EXCEPT !.text = new, !.query = IF u.selectedQuery = {} THEN @ ELSE new,
                      !.currentContext = IF u.sessionContext = NoContext THEN @ ELSE u.sessionContext]
    BY Zenon DEF _selectQuery
  <1>2. new = q /\ Whole(k) /\ (u.aliased => u.sessionContext = k)
    <2>1. new = q
      <3>1. CASE u.selectedQuery = {}
        <4>1. new = u.text /\ q = u.query
          BY <3>1, Zenon
        <4> HIDE DEF new, q
        <4> QED
          BY <4>1, Zenon DEF TextInv
      <3>2. CASE u.selectedQuery # {}
        <4> HIDE DEF new
        <4> QED
          BY <3>2, Zenon
      <3> QED
        BY <3>1, <3>2
    <2>2. CASE u.sessionContext = NoContext
      BY <2>1, <2>2, Zenon DEF TextInv
    <2>3. CASE u.sessionContext # NoContext
      BY <2>1, <2>3, Zenon DEF TextInv
    <2> QED
      BY <2>2, <2>3
  <1> HIDE DEF new, v
  <1>3. /\ TextFields \subseteq DOMAIN v /\ v.text = new /\ v.query = q /\ v.currentContext = k
        /\ v.collection = u.collection /\ v.sessionContext = u.sessionContext /\ v.runs = u.runs
        /\ v.aliased = u.aliased /\ v.model = u.model
    BY <1>1, Zenon DEF TextInv, TextFields
  <1> HIDE DEF q, k
  <1> QED
    BY <1>2, <1>3, Zenon DEF TextInv, v

\* QueryActions.selectQuery.
LEMMA SelectsQuery ==
    ASSUME NEW u, NEW s, TextInv(u, s), NEW text, NEW context, NEW aliased, Whole(context),
           aliased => context = u.currentContext
    PROVE  TextInv(onSelectQuery(u, text, context, aliased), s)
  <1> DEFINE v == [u EXCEPT !.selectedQuery = {text}, !.sessionContext = context, !.aliased = aliased]
  <1>1. /\ TextFields \subseteq DOMAIN v /\ v.text = u.text /\ v.query = u.query
        /\ v.currentContext = u.currentContext /\ v.collection = u.collection
        /\ v.sessionContext = context /\ v.runs = u.runs /\ v.aliased = aliased /\ v.model = u.model
    BY Zenon DEF TextInv, TextFields
  <1>2. onSelectQuery(u, text, context, aliased) = _selectQuery(v)
    BY Zenon DEF onSelectQuery
  <1> HIDE DEF v
  <1>3. TextInv(v, s)
    BY <1>1, Zenon DEF TextInv
  <1> QED
    BY <1>2, <1>3, Reread, Zenon

\* The context of the session changes.
LEMMA SetsContext ==
    ASSUME NEW u, NEW s, TextInv(u, s), NEW context, Whole(context)
    PROVE  TextInv(onSetSessionContext(u, context), s)
  <1> DEFINE v == [u EXCEPT !.sessionContext = context, !.aliased = FALSE]
  <1>1. /\ TextFields \subseteq DOMAIN v /\ v.text = u.text /\ v.query = u.query
        /\ v.currentContext = u.currentContext /\ v.collection = u.collection
        /\ v.sessionContext = context /\ v.runs = u.runs /\ v.aliased = FALSE /\ v.model = u.model
    BY Zenon DEF TextInv, TextFields
  <1>2. onSetSessionContext(u, context) = _selectQuery(v)
    BY Zenon DEF onSetSessionContext
  <1> HIDE DEF v
  <1>3. TextInv(v, s)
    BY <1>1, Zenon DEF TextInv
  <1> QED
    BY <1>2, <1>3, Reread, Zenon

\* The list of samples changes.
LEMMA OtherSamples ==
    ASSUME NEW u, NEW s, NEW t, TextInv(u, s), IsSequence(t), NEW c, EachOnce(c)
    PROVE  TextInv(_selectQuery([u EXCEPT !.collection = c]), t)
  <1> DEFINE v == [u EXCEPT !.collection = c]
  <1>1. /\ TextFields \subseteq DOMAIN v /\ v.text = u.text /\ v.query = u.query
        /\ v.currentContext = u.currentContext /\ v.collection = c
        /\ v.sessionContext = u.sessionContext /\ v.runs = u.runs /\ v.aliased = u.aliased
        /\ v.model = u.model
    BY Zenon DEF TextInv, TextFields
  <1> HIDE DEF v
  <1>2. TextInv(v, t)
    BY <1>1, Zenon DEF TextInv
  <1> QED
    BY <1>2, Reread, Zenon DEF v

\* A run is what was given to it.
LEMMA Executed ==
    ASSUME NEW u, NEW s, TextInv(u, s), NEW query, NEW context, Whole(context)
    PROVE  TextInv(executes(u, query, context), s)
  <1> DEFINE r == [query |-> query, context |-> context]
             v == executes(u, query, context)
  <1>1. v = [u EXCEPT !.runs = @ \cup {r}] /\ r.context = context
    BY Zenon DEF executes
  <1> HIDE DEF r, v
  <1>2. /\ TextFields \subseteq DOMAIN v /\ v.text = u.text /\ v.query = u.query
        /\ v.currentContext = u.currentContext /\ v.collection = u.collection
        /\ v.sessionContext = u.sessionContext /\ v.runs = u.runs \cup {r} /\ v.aliased = u.aliased
        /\ v.model = u.model
    BY <1>1, Zenon DEF TextInv, TextFields
  <1> QED
    BY <1>1, <1>2, Zenon DEF TextInv, v

\* What is not mentioned in the invariant does not matter.
TextAside(u, v) == /\ TextFields \subseteq DOMAIN v /\ v.text = u.text /\ v.query = u.query
                   /\ v.currentContext = u.currentContext /\ v.collection = u.collection
                   /\ v.sessionContext = u.sessionContext /\ v.runs = u.runs /\ v.aliased = u.aliased
                   /\ v.model = u.model

\* What changes nothing of the invariant's state keeps it.
LEMMA TextKept ==
    ASSUME NEW u, NEW v, NEW s, TextInv(u, s), TextAside(u, v) PROVE TextInv(v, s)
  BY Zenon DEF TextInv, TextAside

\* The number of clicks does not matter.
LEMMA TextDone ==
    ASSUME NEW u, TextInv(u, server), does(u) PROVE TextInv(ui', server')
  <1>1. TextAside(u, ui') /\ server' = server
    BY Zenon DEF TextInv, TextFields, does, TextAside
  <1> QED
    BY <1>1, TextKept, Zenon

\* The user types.
LEMMA Typed == ASSUME TextInv(ui, server), NEW text, types(text) PROVE TextInv(ui', server')
  <1> DEFINE v == [ui EXCEPT !.text = text, !.query = text]
  <1>1. /\ TextFields \subseteq DOMAIN v /\ v.text = text /\ v.query = text
        /\ v.currentContext = ui.currentContext /\ v.collection = ui.collection
        /\ v.sessionContext = ui.sessionContext /\ v.runs = ui.runs /\ v.aliased = ui.aliased
        /\ v.model = ui.model
    BY Zenon DEF TextInv, TextFields
  <1>2. does(v)
    BY Zenon DEF types
  <1> HIDE DEF v
  <1>3. TextInv(v, server)
    BY <1>1, Zenon DEF TextInv
  <1> QED
    BY <1>2, <1>3, TextDone, Zenon

\* The text is run.
LEMMA Run == ASSUME TextInv(ui, server), handleRun PROVE TextInv(ui', server')
  <1> DEFINE v == onSelectQuery(ui, ui.query, ui.currentContext, TRUE)
             w == executes(v, ui.query, ui.currentContext)
  <1>1. Whole(ui.currentContext)
    BY Zenon DEF TextInv
  <1>2. TextInv(v, server)
    BY <1>1, SelectsQuery, Zenon
  <1>3. does(w)
    BY Zenon DEF handleRun
  <1> HIDE DEF v
  <1>4. TextInv(w, server)
    BY <1>1, <1>2, Executed, Zenon
  <1> HIDE DEF w
  <1> QED
    BY <1>3, <1>4, TextDone, Zenon

\* A catalog and one of its schemas.
LEMMA ContextOf ==
    ASSUME NEW c \in Catalog, NEW s \in schemasOf[c] PROVE Whole([catalog |-> c, schema |-> s])
  <1>1. s \in Schema
    BY Zenon DEF schemasOf
  <1> QED
    BY <1>1, Zenon DEF Whole, Context

\* Another catalog comes with a schema of its own.
LEMMA CatalogChosen ==
    ASSUME TextInv(ui, server), NEW catalog \in Catalog, handleCatalogChange(catalog)
    PROVE  TextInv(ui', server')
  <1>1. PICK model \in ui.model :
           /\ model[catalog] # {}
           /\ does([ui EXCEPT !.currentContext = [catalog |-> catalog, schema |-> firstSchema(model, catalog)],
                              !.aliased = FALSE])
    BY Zenon DEF handleCatalogChange
  <1> DEFINE k == [catalog |-> catalog, schema |-> firstSchema(model, catalog)]
             v == [ui EXCEPT !.currentContext = k, !.aliased = FALSE]
  <1>2. firstSchema(model, catalog) \in schemasOf[catalog]
    BY <1>1, Zenon DEF TextInv, firstSchema
  <1>3. Whole(k)
    BY <1>2, ContextOf, Zenon
  <1>4. does(v)
    BY <1>1, Zenon
  <1> HIDE DEF k
  <1>5. /\ TextFields \subseteq DOMAIN v /\ v.text = ui.text /\ v.query = ui.query
        /\ v.currentContext = k /\ v.collection = ui.collection
        /\ v.sessionContext = ui.sessionContext /\ v.runs = ui.runs /\ v.aliased = FALSE
        /\ v.model = ui.model
    BY Zenon DEF TextInv, TextFields
  <1> HIDE DEF v
  <1>6. TextInv(v, server)
    BY <1>3, <1>5, Zenon DEF TextInv
  <1> QED
    BY <1>4, <1>6, TextDone, Zenon

\* A context with another schema.
LEMMA SchemaOf ==
    ASSUME NEW k, Whole(k), NEW s
    PROVE  /\ [k EXCEPT !.schema = s] = [catalog |-> k.catalog, schema |-> s]
           /\ k = [catalog |-> k.catalog, schema |-> k.schema]
  <1>1. \E c, d : k = [catalog |-> c, schema |-> d]
    <2>1. CASE k \in Context
      <3>1. k \in [catalog : Catalog, schema : Schema]
        BY <2>1, Zenon DEF Context
      <3> QED
        BY <3>1
    <2> QED
      BY <2>1, Zenon DEF Whole, NoContext, Initial
  <1>2. PICK c, d : k = [catalog |-> c, schema |-> d]
    BY <1>1, Zenon
  <1> QED
    BY <1>2

\* Another schema of the same catalog, in the context that the session shares or not.
LEMMA SchemaChosen ==
    ASSUME TextInv(ui, server), NEW schema, handleSchemaChange(schema)
    PROVE  TextInv(ui', server')
  <1> DEFINE e == IF ui.aliased THEN schema ELSE ui.sessionContext.schema
             k == [ui.currentContext EXCEPT !.schema = schema]
             l == [ui.sessionContext EXCEPT !.schema = e]
             v == [ui EXCEPT !.currentContext.schema = schema,
                             !.sessionContext.schema = IF ui.aliased THEN schema ELSE @]
  <1>1. PICK model \in ui.model : ui.currentContext.catalog \in Catalog /\ schema \in model[ui.currentContext.catalog]
    BY Zenon DEF handleSchemaChange
  <1>2. does(v)
    BY Zenon DEF handleSchemaChange
  <1>3. /\ TextFields \subseteq DOMAIN v /\ v.text = ui.text /\ v.query = ui.query
        /\ v.currentContext = k /\ v.collection = ui.collection
        /\ v.sessionContext = l /\ v.runs = ui.runs /\ v.aliased = ui.aliased /\ v.model = ui.model
    BY Zenon DEF TextInv, TextFields
  <1>4. schema \in schemasOf[ui.currentContext.catalog]
    BY <1>1, Zenon DEF TextInv
  <1>5. Whole(k)
    <2>1. k = [catalog |-> ui.currentContext.catalog, schema |-> schema]
      BY SchemaOf, Zenon DEF TextInv
    <2> QED
      BY <1>1, <1>4, <2>1, ContextOf, Zenon
  <1>6. CASE ui.aliased
    <2>1. l = k
      BY <1>6, Zenon DEF TextInv
    <2> HIDE DEF k, l, v
    <2>2. TextInv(v, server)
      BY <1>3, <1>5, <2>1, Zenon DEF TextInv
    <2> QED
      BY <1>2, <2>2, TextDone, Zenon
  <1>7. CASE ~ui.aliased
    <2>1. l = ui.sessionContext
      <3>1. Whole(ui.sessionContext) /\ e = ui.sessionContext.schema
        BY <1>7, Zenon DEF TextInv
      <3>2. l = [catalog |-> ui.sessionContext.catalog, schema |-> ui.sessionContext.schema]
        BY <3>1, SchemaOf, Zenon
      <3> HIDE DEF l
      <3>3. ui.sessionContext = [catalog |-> ui.sessionContext.catalog, schema |-> ui.sessionContext.schema]
        BY <3>1, SchemaOf, Zenon
      <3> QED
        BY <3>2, <3>3, Zenon
    <2> HIDE DEF k, l, v
    <2>2. TextInv(v, server)
      BY <1>3, <1>5, <1>7, <2>1, Zenon DEF TextInv
    <2> QED
      BY <1>2, <2>2, TextDone, Zenon
  <1> QED
    BY <1>6, <1>7

\* The tree and the list of runs set the context.
LEMMA ContextUsed ==
    ASSUME TextInv(ui, server), NEW context \in Context,
           useAsDefault(context) \/ \E query \in Query : selectRun(query, context)
    PROVE  TextInv(ui', server')
  <1>1. Whole(context)
    BY Zenon DEF Whole
  <1>2. CASE useAsDefault(context)
    <2>1. does(onSetSessionContext(ui, context)) /\ TextInv(onSetSessionContext(ui, context), server)
      BY <1>1, <1>2, SetsContext, Zenon DEF useAsDefault
    <2> QED
      BY <2>1, TextDone, Zenon
  <1>3. ASSUME NEW query, selectRun(query, context) PROVE TextInv(ui', server')
    <2> DEFINE v == onSelectQuery(ui, [query |-> query, ended |-> FALSE], context, FALSE)
    <2>1. does(v)
      BY <1>3, Zenon DEF selectRun
    <2>2. TextInv(v, server)
      BY <1>1, SelectsQuery, Zenon
    <2> HIDE DEF v
    <2> QED
      BY <2>1, <2>2, TextDone, Zenon
  <1> QED
    BY <1>2, <1>3, Zenon

\* A sample is selected, run or deleted.
LEMMA SampleUsed ==
    ASSUME TextInv(ui, server), NEW i, selectSample(i) \/ _runQuery(i) \/ _deleteQuery(i)
    PROVE  TextInv(ui', server')
  <1> DEFINE v == onSelectQuery(ui, sample(i), NoContext, FALSE)
             w == executes(v, sample(i), NoContext)
             x == [ui EXCEPT !.destroys = @ \cup {ui.collection[i].uuid}]
  <1>1. Whole(NoContext)
    BY Zenon DEF Whole
  <1>2. TextInv(v, server)
    BY <1>1, SelectsQuery, Zenon
  <1>3. does(v) \/ does(w) \/ does(x)
    BY Zenon DEF selectSample, _runQuery, _deleteQuery
  <1>4. TextAside(ui, x)
    BY Zenon DEF TextInv, TextFields, TextAside
  <1> HIDE DEF v, x
  <1>5. TextInv(w, server)
    BY <1>1, <1>2, Executed, Zenon
  <1> HIDE DEF w
  <1>6. TextInv(x, server)
    BY <1>4, TextKept, Zenon
  <1> QED
    BY <1>2, <1>3, <1>5, <1>6, TextDone, Zenon

\* The samples are fetched.
LEMMA SamplesOpened == ASSUME TextInv(ui, server), openSamples PROVE TextInv(ui', server')
  <1> DEFINE x == [ui EXCEPT !.fetches = @ + 1]
  <1>1. does(x) /\ TextAside(ui, x)
    BY Zenon DEF TextInv, TextFields, TextAside, openSamples
  <1> HIDE DEF x
  <1> QED
    BY <1>1, TextKept, TextDone, Zenon

\* The samples come.
LEMMA SamplesCome == ASSUME TextInv(ui, server), SamplesArrive PROVE TextInv(ui', server')
  <1> DEFINE c == add(ui.collection, server, FALSE)
             v == _selectQuery([ui EXCEPT !.collection = c])
  <1>1. ui' = [v EXCEPT !.fetches = @ - 1] /\ server' = server
    BY Zenon DEF SamplesArrive, onReceivedQueries, TextInv, TextFields
  <1>2. EachOnce(ui.collection) /\ IsSequence(server) /\ Len(server) \in Nat
    BY SequenceFacts, Zenon DEF TextInv
  <1>3. EachOnce(c)
    BY <1>2, AddedOnce, Zenon
  <1> HIDE DEF c
  <1>4. TextInv(v, server)
    BY <1>2, <1>3, OtherSamples, Zenon
  <1> HIDE DEF v
  <1>5. TextAside(v, ui')
    BY <1>1, <1>4, Zenon DEF TextInv, TextFields, TextAside
  <1> QED
    BY <1>1, <1>4, <1>5, TextKept, Zenon

\* The coordinator deleted a sample.
LEMMA SampleGone == ASSUME TextInv(ui, server), NEW uuid, SampleDestroyed(uuid) PROVE TextInv(ui', server')
  <1> DEFINE c == remove(ui.collection, uuid)
             v == _selectQuery([ui EXCEPT !.collection = c])
             t == remove(server, uuid)
  <1>1. ui' = [v EXCEPT !.destroys = @ \ {uuid}] /\ server' = t
    BY Zenon DEF SampleDestroyed, onDestroyQuery, TextInv, TextFields
  <1>2. EachOnce(ui.collection) /\ IsSequence(ui.collection) /\ IsSequence(server)
    BY Zenon DEF TextInv, EachOnce
  <1>3. EachOnce(c)
    BY <1>2, RemovedOnce, Zenon
  <1>4. IsSequence(t)
    BY <1>2, RemovedOnce, Zenon
  <1> HIDE DEF c, t
  <1>5. TextInv(v, t)
    BY <1>3, <1>4, OtherSamples, Zenon
  <1> HIDE DEF v
  <1>6. TextAside(v, ui')
    BY <1>1, <1>5, Zenon DEF TextInv, TextFields, TextAside
  <1> QED
    BY <1>1, <1>5, <1>6, TextKept, Zenon

\* A request fails.
LEMMA TextFails == ASSUME TextInv(ui, server), TextRequestFails PROVE TextInv(ui', server')
  <1>1. TextAside(ui, ui') /\ server' = server
    BY Zenon DEF TextInv, TextFields, TextAside, TextRequestFails
  <1> QED
    BY <1>1, TextKept, Zenon

\* The catalogs and their schemas come.
LEMMA ModelComes == ASSUME TextInv(ui, server), schemaContextHandler PROVE TextInv(ui', server')
  <1>1. PICK model \in {m \in Model : \A c \in Catalog : m[c] \subseteq schemasOf[c]} :
           ui' = [ui EXCEPT !.model = {model}]
    BY Zenon DEF schemaContextHandler
  <1>2. server' = server /\ \A c \in Catalog : model[c] \subseteq schemasOf[c]
    BY Zenon DEF schemaContextHandler
  <1>3. /\ TextFields \subseteq DOMAIN ui' /\ ui'.text = ui.text /\ ui'.query = ui.query
        /\ ui'.currentContext = ui.currentContext /\ ui'.collection = ui.collection
        /\ ui'.sessionContext = ui.sessionContext /\ ui'.runs = ui.runs /\ ui'.aliased = ui.aliased
        /\ ui'.model = {model}
    BY <1>1, Zenon DEF TextInv, TextFields
  <1> QED
    BY <1>2, <1>3, Zenon DEF TextInv

\* Every step of the text and the context keeps the invariant.
LEMMA TextStep == ASSUME TextInv(ui, server), NextText PROVE TextInv(ui', server')
  BY Typed, Run, CatalogChosen, SchemaChosen, ContextUsed, SamplesOpened, SampleUsed, SamplesCome,
     TextFails, ModelComes, SampleGone, Zenon DEF NextText

-----------------------------------------------------------------------------
(* The collection *)

CollectionFields == {"mounted", "tab", "pageSize", "currentPage", "total", "allCollection", "deferred",
                     "requests", "changes", "isCollected", "answered", "overtaken", "clicks"}

Positive == Nat \ {0}
Asked(c) == c.page \in Positive /\ c.size \in Positive

\* The rows that a page has, as the table counts them.
RowsOf(total, c) == IF total - (c.page - 1) * c.size < c.size THEN total - (c.page - 1) * c.size ELSE c.size

CollectionInv(u, s) ==
    /\ CollectionFields \subseteq DOMAIN u /\ IsSequence(s) /\ IsSequence(u.requests) /\ IsSequence(u.changes)
    /\ u.currentPage \in Positive /\ u.pageSize \in Positive /\ Asked(u.answered)
    /\ \A i \in DOMAIN u.requests : Asked(u.requests[i])
    /\ RowsOf(u.total, u.answered) <= Len(u.allCollection)
    /\ ~u.overtaken => u.mounted

\* What is promised of the collection follows.
LEMMA CollectionPromise == ASSUME NEW s, CollectionInv(ui, s) PROVE DrawsOnlyRowsThereAre
  BY Zenon DEF CollectionInv, DrawsOnlyRowsThereAre

\* refreshData asks for the page that is chosen.
LEMMA NewRequest ==
    ASSUME NEW u, NEW s, CollectionInv(u, s) PROVE CollectionInv(refreshData(u), s)
  <1> DEFINE c == choice(u)
             v == refreshData(u)
             q == Append(u.requests, c)
  <1>1. c.page = u.currentPage /\ c.size = u.pageSize
    BY Zenon DEF choice
  <1>2. v = [u EXCEPT !.requests = Append(@, c)]
    BY Zenon DEF refreshData
  <1>3. Asked(c) /\ IsSequence(u.requests)
    BY <1>1, Zenon DEF Asked, CollectionInv
  <1>4. IsSequence(q)
    BY <1>3, Appended, Zenon
  <1>5. \A i \in DOMAIN q : (i \in DOMAIN u.requests /\ q[i] = u.requests[i]) \/ (i = Len(u.requests) + 1 /\ q[i] = c)
    BY <1>3, AppendedElements, Zenon
  <1> HIDE DEF c, v
  <1>6. /\ CollectionFields \subseteq DOMAIN v /\ v.requests = q /\ v.changes = u.changes
        /\ v.currentPage = u.currentPage /\ v.pageSize = u.pageSize /\ v.answered = u.answered
        /\ v.total = u.total /\ v.allCollection = u.allCollection /\ v.overtaken = u.overtaken
        /\ v.mounted = u.mounted
    BY <1>2, Zenon DEF CollectionInv, CollectionFields
  <1> HIDE DEF q
  <1>7. \A i \in DOMAIN q : Asked(q[i])
    BY <1>3, <1>5, Zenon DEF CollectionInv
  <1> QED
    BY <1>4, <1>6, <1>7, Zenon DEF CollectionInv, v

\* A table that was just mounted.
LEMMA EmptyTable ==
    ASSUME NEW u, NEW s, IsSequence(s), CollectionFields \subseteq DOMAIN u, IsSequence(u.changes),
           \A x \in CollectionFields \ {"changes", "clicks"} : u[x] = table[x]
    PROVE  CollectionInv(u, s)
  <1>1. /\ table.requests = <<>> /\ table.currentPage = 1 /\ table.pageSize = 1
        /\ table.answered = [page |-> 1, size |-> 1] /\ table.total = 0 /\ table.allCollection = <<>>
        /\ table.overtaken = FALSE /\ table.mounted = TRUE
    BY Zenon DEF table
  <1>2. /\ u.requests = table.requests /\ u.currentPage = table.currentPage /\ u.pageSize = table.pageSize
        /\ u.answered = table.answered /\ u.total = table.total /\ u.allCollection = table.allCollection
        /\ u.overtaken = table.overtaken /\ u.mounted = table.mounted
    BY Zenon DEF CollectionFields
  <1>3. u.answered.page = 1 /\ u.answered.size = 1
    <2>1. u.answered = [page |-> 1, size |-> 1]
      BY <1>1, <1>2, Zenon
    <2> QED
      BY <2>1
  <1>4. 1 \in Positive
    BY DEF Positive
  <1>5. Asked(u.answered)
    BY <1>3, <1>4, Zenon DEF Asked
  <1>6. RowsOf(u.total, u.answered) <= Len(u.allCollection)
    <2>1. RowsOf(u.total, u.answered) = IF 0 - (1 - 1) * 1 < 1 THEN 0 - (1 - 1) * 1 ELSE 1
      BY <1>1, <1>2, <1>3, Zenon DEF RowsOf
    <2>2. (IF 0 - (1 - 1) * 1 < 1 THEN 0 - (1 - 1) * 1 ELSE 1) = 0
      OBVIOUS
    <2>3. Len(<<>>) = 0 /\ 0 <= 0
      OBVIOUS
    <2> QED
      BY <1>1, <1>2, <2>1, <2>2, <2>3, Zenon
  <1> QED
    BY <1>1, <1>2, <1>4, <1>5, <1>6, EmptySequence, Zenon DEF CollectionInv

\* The collection starts so.
LEMMA CollectionStart == ASSUME InitCollection PROVE CollectionInv(ui, server)
  <1>1. IsSequence(server)
    <2>1. PICK n \in 0..MaxCollected : server \in [1..n -> Collected]
      BY Zenon DEF InitCollection, Collections
    <2>2. n \in Nat
      OBVIOUS
    <2>3. server = [i \in 1..n |-> server[i]]
      BY <2>1, Zenon
    <2> QED
      BY <2>2, <2>3, SequenceOf, Zenon
  <1>2. CollectionFields \subseteq DOMAIN table /\ table.changes = <<>>
    BY Zenon DEF table, CollectionFields
  <1>3. CollectionInv(table, server)
    BY <1>1, <1>2, EmptySequence, EmptyTable, Zenon
  <1> QED
    BY <1>3, NewRequest, Zenon DEF InitCollection

\* The table is drawn with the rows that its last answer has.
LEMMA Drawn ==
    ASSUME NEW u, NEW s, CollectionInv(u, s) PROVE CollectionInv(rendered(u), s)
  <1> DEFINE v == rendered(u)
  <1>1. v = [u EXCEPT !.mounted = @ /\ rowsCount(u) <= Len(u.allCollection),
                      !.overtaken = @ \/ u.answered # choice(u)]
    BY Zenon DEF rendered
  <1> HIDE DEF v
  <1>2. /\ CollectionFields \subseteq DOMAIN v /\ v.requests = u.requests /\ v.changes = u.changes
        /\ v.currentPage = u.currentPage /\ v.pageSize = u.pageSize /\ v.answered = u.answered
        /\ v.total = u.total /\ v.allCollection = u.allCollection
        /\ v.overtaken = (u.overtaken \/ u.answered # choice(u))
        /\ v.mounted = (u.mounted /\ rowsCount(u) <= Len(u.allCollection))
    BY <1>1, Zenon DEF CollectionInv, CollectionFields
  <1>3. ASSUME u.answered = choice(u) PROVE rowsCount(u) <= Len(u.allCollection)
    <2>1. u.answered.page = u.currentPage /\ u.answered.size = u.pageSize
      <3>1. choice(u).page = u.currentPage /\ choice(u).size = u.pageSize
        BY Zenon DEF choice
      <3> QED
        BY <1>3, <3>1
    <2>2. rowsCount(u) = RowsOf(u.total, u.answered)
      BY <2>1, Zenon DEF rowsCount, RowsOf
    <2> QED
      BY <2>2, Zenon DEF CollectionInv
  <1> QED
    BY <1>2, <1>3, Zenon DEF CollectionInv, v

\* A page that the server cut has the rows that the table counts.
LEMMA PageHasRows ==
    ASSUME NEW s, IsSequence(s), NEW c, Asked(c) PROVE RowsOf(Len(s), c) <= Len(pageOf(s, c))
  <1> DEFINE p == c.page
             z == c.size
             A == (p - 1) * z
             B == p * z
             L == Len(s)
             last == IF B < L THEN B ELSE L
  <1>1. p \in Nat /\ z \in Nat /\ z > 0 /\ p > 0
    BY DEF Asked, Positive
  <1>2. L \in Nat
    BY SequenceFacts, Zenon
  <1>3. RowsOf(L, c) = IF L - A < z THEN L - A ELSE z
    BY Zenon DEF RowsOf
  <1>4. pageOf(s, c) = SubSeq(s, A + 1, last)
    BY Zenon DEF pageOf
  <1> HIDE DEF p, z
  <1>5. A \in Nat /\ B = A + z
    <2>1. p - 1 \in Nat
      BY <1>1
    <2>2. \A m, n \in Nat : m * n \in Nat /\ (m + 1) * n = m * n + n
      OBVIOUS
    <2>3. (p - 1) + 1 = p
      BY <1>1
    <2> QED
      BY <1>1, <2>1, <2>2, <2>3, Zenon
  <1> HIDE DEF A, B, L
  <1>6. last \in Nat /\ last <= L /\ A + 1 \in Nat /\ A + 1 >= 1
    BY <1>1, <1>2, <1>5
  <1>7. Len(SubSeq(s, A + 1, last)) = IF A + 1 <= last THEN last - (A + 1) + 1 ELSE 0
    <2>1. PICK S : s \in Seq(S)
      BY Zenon DEF IsSequence
    <2> HIDE DEF last
    <2>2. L = Len(s)
      BY Zenon DEF L
    <2> QED
      BY <1>5, <1>6, <2>1, <2>2
  <1>8. (IF L - A < z THEN L - A ELSE z) <= (IF A + 1 <= last THEN last - (A + 1) + 1 ELSE 0)
    BY <1>1, <1>2, <1>5
  <1> HIDE DEF last
  <1> QED
    BY <1>3, <1>4, <1>7, <1>8, Zenon DEF L

\* What the invariant does not mention does not matter.
CollectionAside(u, v) ==
    /\ CollectionFields \subseteq DOMAIN v /\ v.answered = u.answered /\ v.total = u.total
    /\ v.allCollection = u.allCollection /\ v.overtaken = u.overtaken /\ v.mounted = u.mounted

\* What draws nothing keeps the invariant.
LEMMA CollectionKept ==
    ASSUME NEW u, NEW v, NEW s, NEW t, CollectionInv(u, s), CollectionAside(u, v), IsSequence(t),
           IsSequence(v.requests), IsSequence(v.changes), v.currentPage \in Positive, v.pageSize \in Positive,
           \A i \in DOMAIN v.requests : Asked(v.requests[i])
    PROVE  CollectionInv(v, t)
  BY Zenon DEF CollectionInv, CollectionAside

\* The number of clicks does not matter.
LEMMA CollectionDone ==
    ASSUME NEW u, CollectionInv(u, server), onPage(u) PROVE CollectionInv(ui', server')
  <1>1. ui' = [u EXCEPT !.clicks = @ + 1] /\ server' = server
    BY Zenon DEF onPage, does
  <1>2. /\ CollectionAside(u, ui') /\ ui'.requests = u.requests /\ ui'.changes = u.changes
        /\ ui'.currentPage = u.currentPage /\ ui'.pageSize = u.pageSize
    BY <1>1, Zenon DEF CollectionInv, CollectionFields, CollectionAside
  <1>3. /\ IsSequence(server') /\ IsSequence(ui'.requests) /\ IsSequence(ui'.changes)
        /\ ui'.currentPage \in Positive /\ ui'.pageSize \in Positive
        /\ \A i \in DOMAIN ui'.requests : Asked(ui'.requests[i])
    BY <1>1, <1>2, Zenon DEF CollectionInv
  <1> QED
    BY <1>2, <1>3, CollectionKept, Zenon

\* Another page, or another size of the pages.
LEMMA PageOrSize ==
    ASSUME CollectionInv(ui, server), NEW n \in Positive, onPageChange(n) \/ onPageSizeChange(n)
    PROVE  CollectionInv(ui', server')
  <1> DEFINE v == [ui EXCEPT !.currentPage = n, !.deferred = @ + 1]
             w == [ui EXCEPT !.pageSize = n, !.deferred = @ + 1]
  <1>1. onPage(v) \/ onPage(w)
    BY Zenon DEF onPageChange, onPageSizeChange
  <1>2. /\ CollectionAside(ui, v) /\ v.requests = ui.requests /\ v.changes = ui.changes
        /\ v.currentPage = n /\ v.pageSize = ui.pageSize
    BY Zenon DEF CollectionInv, CollectionFields, CollectionAside
  <1>3. /\ CollectionAside(ui, w) /\ w.requests = ui.requests /\ w.changes = ui.changes
        /\ w.currentPage = ui.currentPage /\ w.pageSize = n
    BY Zenon DEF CollectionInv, CollectionFields, CollectionAside
  <1> HIDE DEF v, w
  <1>4. CollectionInv(v, server)
    BY <1>2, CollectionKept, Zenon DEF CollectionInv
  <1>5. CollectionInv(w, server)
    BY <1>3, CollectionKept, Zenon DEF CollectionInv
  <1> QED
    BY <1>1, <1>4, <1>5, CollectionDone, Zenon

\* A change of the collection is sent.
LEMMA ChangeSent ==
    ASSUME CollectionInv(ui, server), NEW e, NEW v, onPage(v), CollectionAside(ui, v),
           v.requests = ui.requests, v.changes = Append(ui.changes, e), v.currentPage = ui.currentPage,
           v.pageSize = ui.pageSize
    PROVE  CollectionInv(ui', server')
  <1>0. IsSequence(ui.changes)
    BY Zenon DEF CollectionInv
  <1>1. IsSequence(Append(ui.changes, e))
    BY <1>0, Appended, Zenon
  <1>2. CollectionInv(v, server)
    BY <1>1, CollectionKept, Zenon DEF CollectionInv
  <1> QED
    BY <1>2, CollectionDone, Zenon

\* A query is taken out of the collection.
LEMMA DeleteClicked ==
    ASSUME CollectionInv(ui, server), NEW i, handleDeleteButton(i) PROVE CollectionInv(ui', server')
  <1> DEFINE e == [query |-> ui.allCollection[i], add |-> FALSE]
             v == [ui EXCEPT !.changes = Append(@, e), !.deferred = @ + 1]
  <1>1. onPage(v)
    BY Zenon DEF handleDeleteButton
  <1> HIDE DEF e
  <1>2. /\ CollectionAside(ui, v) /\ v.requests = ui.requests /\ v.changes = Append(ui.changes, e)
        /\ v.currentPage = ui.currentPage /\ v.pageSize = ui.pageSize
    BY Zenon DEF CollectionInv, CollectionFields, CollectionAside
  <1> HIDE DEF v
  <1> QED
    BY <1>1, <1>2, ChangeSent, Zenon

\* A query of the runs is put in or taken out.
LEMMA StarClicked ==
    ASSUME CollectionInv(ui, server), NEW query, handleCollection(query) PROVE CollectionInv(ui', server')
  <1> DEFINE new == query \notin ui.isCollected
             e == [query |-> query, add |-> new]
             marks == IF new THEN ui.isCollected \cup {query} ELSE ui.isCollected \ {query}
             v == [ui EXCEPT !.isCollected = IF new THEN @ \cup {query} ELSE @ \ {query},
                             !.changes = Append(@, e)]
  <1>1. onPage(v)
    BY Zenon DEF handleCollection
  <1> HIDE DEF new, e
  <1>2. /\ CollectionAside(ui, v) /\ v.requests = ui.requests /\ v.changes = Append(ui.changes, e)
        /\ v.currentPage = ui.currentPage /\ v.pageSize = ui.pageSize
    BY Zenon DEF CollectionInv, CollectionFields, CollectionAside
  <1> HIDE DEF v
  <1> QED
    BY <1>1, <1>2, ChangeSent, Zenon

\* The table is drawn again.
LEMMA CollectionRedrawn == ASSUME CollectionInv(ui, server), redraw PROVE CollectionInv(ui', server')
  <1>1. onPage(rendered(ui)) /\ CollectionInv(rendered(ui), server)
    BY Drawn, Zenon DEF redraw
  <1> QED
    BY <1>1, CollectionDone, Zenon

\* The refresh that a click has put off.
LEMMA Deferred == ASSUME CollectionInv(ui, server), DeferredRefresh PROVE CollectionInv(ui', server')
  <1> DEFINE v == [ui EXCEPT !.deferred = @ - 1]
  <1>1. ui' = refreshData(v) /\ server' = server
    BY Zenon DEF DeferredRefresh
  <1>2. /\ CollectionAside(ui, v) /\ v.requests = ui.requests /\ v.changes = ui.changes
        /\ v.currentPage = ui.currentPage /\ v.pageSize = ui.pageSize
    BY Zenon DEF CollectionInv, CollectionFields, CollectionAside
  <1> HIDE DEF v
  <1>3. CollectionInv(v, server)
    BY <1>2, CollectionKept, Zenon DEF CollectionInv
  <1> QED
    BY <1>1, <1>3, NewRequest, Zenon

\* The table is mounted, or goes.
LEMMA TabSelected ==
    ASSUME CollectionInv(ui, server), NEW tab, onCollectionTabSelect(tab) PROVE CollectionInv(ui', server')
  <1> DEFINE v == [ui EXCEPT !.tab = tab, !.isCollected = {}]
             w == [table EXCEPT !.changes = ui.changes, !.clicks = ui.clicks]
  <1>1. onPage(v) \/ onPage(refreshData(w))
    <2>1. CASE tab = "ALL_QUERIES"
      BY <2>1, Zenon DEF onCollectionTabSelect
    <2>2. CASE tab # "ALL_QUERIES"
      BY <2>2, Zenon DEF onCollectionTabSelect
    <2> QED
      BY <2>1, <2>2
  <1>2. /\ CollectionAside(ui, v) /\ v.requests = ui.requests /\ v.changes = ui.changes
        /\ v.currentPage = ui.currentPage /\ v.pageSize = ui.pageSize
    BY Zenon DEF CollectionInv, CollectionFields, CollectionAside
  <1>3. CollectionFields \subseteq DOMAIN table
    BY Zenon DEF table, CollectionFields
  <1>4. /\ CollectionFields \subseteq DOMAIN w /\ w.changes = ui.changes
        /\ \A x \in CollectionFields \ {"changes", "clicks"} : w[x] = table[x]
    BY <1>3, Zenon DEF CollectionFields
  <1> HIDE DEF v, w
  <1>5. CollectionInv(v, server)
    BY <1>2, CollectionKept, Zenon DEF CollectionInv
  <1>6. CollectionInv(w, server)
    BY <1>4, EmptyTable, Zenon DEF CollectionInv
  <1>7. CollectionInv(refreshData(w), server)
    BY <1>6, NewRequest, Zenon
  <1> QED
    BY <1>1, <1>5, <1>7, CollectionDone, Zenon

\* An answer or a failure takes its request away.
LEMMA Answered ==
    ASSUME NEW u, NEW s, CollectionInv(u, s), NEW i \in DOMAIN u.requests
    PROVE  CollectionInv([u EXCEPT !.requests = RemoveAt(@, i)], s)
  <1> DEFINE q == RemoveAt(u.requests, i)
             v == [u EXCEPT !.requests = RemoveAt(@, i)]
  <1>1. /\ CollectionAside(u, v) /\ v.requests = q /\ v.changes = u.changes
        /\ v.currentPage = u.currentPage /\ v.pageSize = u.pageSize
    BY Zenon DEF CollectionInv, CollectionFields, CollectionAside
  <1>2. IsSequence(u.requests)
    BY Zenon DEF CollectionInv
  <1>3. IsSequence(q)
    BY <1>2, Cut, Zenon
  <1>7. Remains(u.requests, i)
    BY <1>2, RemainingElements, Zenon
  <1>4. \A j \in DOMAIN q : \E k \in DOMAIN u.requests : q[j] = u.requests[k]
    BY <1>7, Zenon DEF Remains
  <1> HIDE DEF q, v
  <1>5. \A j \in DOMAIN q : Asked(q[j])
    BY <1>4, Zenon DEF CollectionInv
  <1>6. CollectionInv(v, s)
    BY <1>1, <1>3, <1>5, CollectionKept, Zenon DEF CollectionInv
  <1> QED
    BY <1>6, Zenon DEF v

\* A page comes.
LEMMA AnswerCame ==
    ASSUME CollectionInv(ui, server), NEW i, AnswerArrives(i) PROVE CollectionInv(ui', server')
  <1> DEFINE r == ui.requests[i]
             p == pageOf(server, r)
             v == [ui EXCEPT !.allCollection = p, !.total = Len(server), !.answered = r]
             w == IF inTable THEN rendered(v) ELSE ui
  <1>1. i \in DOMAIN ui.requests /\ ui' = [w EXCEPT !.requests = RemoveAt(@, i)] /\ server' = server
    BY Zenon DEF AnswerArrives
  <1>2. Asked(r) /\ IsSequence(server)
    BY <1>1, Zenon DEF CollectionInv
  <1>3. RowsOf(Len(server), r) <= Len(p)
    BY <1>2, PageHasRows, Zenon
  <1>4. rendered(v).requests = v.requests
    BY Zenon DEF rendered, CollectionInv, CollectionFields
  <1> HIDE DEF r, p
  <1>5. /\ CollectionFields \subseteq DOMAIN v /\ v.requests = ui.requests /\ v.changes = ui.changes
        /\ v.currentPage = ui.currentPage /\ v.pageSize = ui.pageSize /\ v.answered = r
        /\ v.total = Len(server) /\ v.allCollection = p /\ v.overtaken = ui.overtaken
        /\ v.mounted = ui.mounted
    BY Zenon DEF CollectionInv, CollectionFields
  <1> HIDE DEF v
  <1>6. CollectionInv(v, server)
    BY <1>2, <1>3, <1>5, Zenon DEF CollectionInv
  <1>7. CollectionInv(w, server) /\ i \in DOMAIN w.requests
    <2>1. CASE inTable
      <3>1. w = rendered(v)
        BY <2>1, Zenon
      <3> HIDE DEF w
      <3> QED
        BY <1>1, <1>4, <1>5, <1>6, <3>1, Drawn, Zenon
    <2>2. CASE ~inTable
      <3>1. w = ui
        BY <2>2, Zenon
      <3> HIDE DEF w
      <3> QED
        BY <1>1, <3>1, Zenon
    <2> QED
      BY <2>1, <2>2
  <1> HIDE DEF w
  <1> QED
    BY <1>1, <1>7, Answered, Zenon

\* A request fails.
LEMMA CollectionFails ==
    ASSUME CollectionInv(ui, server), NEW i, CollectionRequestFails(i) PROVE CollectionInv(ui', server')
  BY Answered, Zenon DEF CollectionRequestFails

\* The coordinator changes its collection.
LEMMA ServerChanges ==
    ASSUME CollectionInv(ui, server), NEW i, CollectionChanges(i) PROVE CollectionInv(ui', server')
  <1> DEFINE q == RemoveAt(ui.changes, i)
             change == ui.changes[i]
             T == {j \in DOMAIN server : server[j] = change.query}
  <1>1. i \in DOMAIN ui.changes /\ ui' = [ui EXCEPT !.changes = RemoveAt(@, i)]
    BY Zenon DEF CollectionChanges
  <1>2. /\ CollectionAside(ui, ui') /\ ui'.requests = ui.requests /\ ui'.changes = q
        /\ ui'.currentPage = ui.currentPage /\ ui'.pageSize = ui.pageSize
    BY <1>1, Zenon DEF CollectionInv, CollectionFields, CollectionAside
  <1>3. IsSequence(ui.changes) /\ IsSequence(server)
    BY Zenon DEF CollectionInv
  <1>4. IsSequence(q)
    BY <1>1, <1>3, Cut, Zenon
  <1>5. IsSequence(Append(server, change.query))
    BY <1>3, Appended, Zenon
  <1>6. ASSUME Contains(server, change.query) PROVE IsSequence(Remove(server, change.query))
    <2>1. T # {} /\ T \in SUBSET DOMAIN server /\ Remove(server, change.query) = RemoveAt(server, Min(T))
      BY <1>6, Zenon DEF Contains, Remove, indexOf
    <2> HIDE DEF T
    <2>2. Min(T) \in DOMAIN server
      BY <1>3, <2>1, FirstIndex, Zenon
    <2>3. IsSequence(RemoveAt(server, Min(T)))
      BY <1>3, <2>2, Cut, Zenon
    <2> QED
      BY <2>1, <2>3, Zenon
  <1>7. \/ server' = server \/ server' = Append(server, change.query)
        \/ Contains(server, change.query) /\ server' = Remove(server, change.query)
    BY DEF CollectionChanges
  <1>8. IsSequence(server')
    BY <1>3, <1>5, <1>6, <1>7, Zenon
  <1> HIDE DEF q, change
  <1> QED
    BY <1>2, <1>4, <1>8, CollectionKept, Zenon DEF CollectionInv

\* Every step of the collection keeps the invariant.
LEMMA CollectionStep == ASSUME CollectionInv(ui, server), NextCollection PROVE CollectionInv(ui', server')
  <1>1. ASSUME NEW n \in 1..MaxPage PROVE n \in Positive
    BY DEF Positive
  <1>2. PageSize \subseteq Positive
    BY PageSizeAssumption, Zenon DEF Positive
  <1> QED
    BY <1>1, <1>2, PageOrSize, DeleteClicked, StarClicked, TabSelected, CollectionRedrawn, Deferred, AnswerCame,
       CollectionFails, ServerChanges, Zenon DEF NextCollection

-----------------------------------------------------------------------------
(* The parts together *)

\* What the part that is followed keeps.
EditorKeeps ==
    /\ part = "tree" => TreeInv(ui)
    /\ part = "table" => TableInv(ui)
    /\ part = "form" => FormInv(ui, server)
    /\ part = "text" => TextInv(ui, server)
    /\ part = "results" => ResultInv(ui)
    /\ part = "collection" => CollectionInv(ui, server)

\* The parts are different ones.
LEMMA PartsDiffer ==
    /\ "tree" \notin {"table", "form", "text", "results", "collection"}
    /\ "table" \notin {"form", "text", "results", "collection"}
    /\ "form" \notin {"text", "results", "collection"}
    /\ "text" \notin {"results", "collection"}
    /\ "results" # "collection"
  OBVIOUS

\* Whatever part is followed, it starts with its invariant, ...
LEMMA EditorStart == ASSUME Init PROVE EditorKeeps
  BY TreeStart, TableStart, FormStart, TextStart, ResultStart, CollectionStart, Zenon
     DEF Init, EditorKeeps

\* ... and every step keeps it.
LEMMA EditorStep == ASSUME EditorKeeps, [Next]_vars PROVE EditorKeeps'
  <1>1. CASE UNCHANGED vars
    BY <1>1, Zenon DEF EditorKeeps, vars
  <1>2. CASE in("tree") /\ NextTree
    <2>1. part = "tree" /\ part' = "tree" /\ TreeInv(ui)
      BY <1>2, Zenon DEF in, EditorKeeps
    <2>2. TreeInv(ui')
      BY <1>2, <2>1, TreeStep, Zenon
    <2> QED
      BY <2>1, <2>2, PartsDiffer, Zenon DEF EditorKeeps
  <1>3. CASE in("table") /\ NextTable
    <2>1. part = "table" /\ part' = "table" /\ TableInv(ui)
      BY <1>3, Zenon DEF in, EditorKeeps
    <2>2. TableInv(ui')
      BY <1>3, <2>1, TableStep, Zenon
    <2> QED
      BY <2>1, <2>2, PartsDiffer, Zenon DEF EditorKeeps
  <1>4. CASE in("form") /\ NextForm
    <2>1. part = "form" /\ part' = "form" /\ FormInv(ui, server)
      BY <1>4, Zenon DEF in, EditorKeeps
    <2>2. FormInv(ui', server')
      BY <1>4, <2>1, FormStep, Zenon
    <2> QED
      BY <2>1, <2>2, PartsDiffer, Zenon DEF EditorKeeps
  <1>5. CASE in("text") /\ NextText
    <2>1. part = "text" /\ part' = "text" /\ TextInv(ui, server)
      BY <1>5, Zenon DEF in, EditorKeeps
    <2>2. TextInv(ui', server')
      BY <1>5, <2>1, TextStep, Zenon
    <2> QED
      BY <2>1, <2>2, PartsDiffer, Zenon DEF EditorKeeps
  <1>6. CASE in("results") /\ NextResults
    <2>1. part = "results" /\ part' = "results" /\ ResultInv(ui)
      BY <1>6, Zenon DEF in, EditorKeeps
    <2>2. ResultInv(ui')
      BY <1>6, <2>1, ResultStep, Zenon
    <2> QED
      BY <2>1, <2>2, PartsDiffer, Zenon DEF EditorKeeps
  <1>7. CASE in("collection") /\ NextCollection
    <2>1. part = "collection" /\ part' = "collection" /\ CollectionInv(ui, server)
      BY <1>7, Zenon DEF in, EditorKeeps
    <2>2. CollectionInv(ui', server')
      BY <1>7, <2>1, CollectionStep, Zenon
    <2> QED
      BY <2>1, <2>2, PartsDiffer, Zenon DEF EditorKeeps
  <1> QED
    BY <1>1, <1>2, <1>3, <1>4, <1>5, <1>6, <1>7, Zenon DEF Next

\* So it holds always.
LEMMA EditorInductive == Spec => []EditorKeeps
  <1>1. Init => EditorKeeps
    BY EditorStart, Zenon
  <1>2. EditorKeeps /\ [Next]_vars => EditorKeeps'
    BY EditorStep, Zenon
  <1> QED
    BY <1>1, <1>2, PTL DEF Spec

\* For any names and any number of requests: no favourite is listed twice, however the user
\* stars and unstars items while trees come and go (SchemaTree.addToFavorites), and no sample
\* query, in whatever order fetches and deletions are answered (Collection.add, remove).
THEOREM ListsRepeatNothing == Spec => []ListedOnce
  <1>1. EditorKeeps => ListedOnce
    BY TreePromise, TextPromise, Zenon DEF EditorKeeps, ListedOnce
  <1> QED
    BY <1>1, EditorInductive, PTL

\* For any names: the tree that a refresh blanked returns with a timer, and once the timers ran
\* it is the one of the store (SchemaTree.reloadItem); the text on the screen is the query that
\* a click runs, and its schema is one of its catalog (QueryEditor, SchemaActions).
THEOREM ViewsFollowTheirStores == Spec => []ViewAgreesWithStore
  <1>1. EditorKeeps => ViewAgreesWithStore
    BY TreePromise, TextPromise, Zenon DEF EditorKeeps, ViewAgreesWithStore
  <1> QED
    BY <1>1, EditorInductive, PTL

\* For any names, sizes of pages and collections: the preview shows the columns of the table
\* that was chosen last, the results are the page that was asked for last unless requests
\* overlapped, and the collection draws no row beyond those that came (TableStore,
\* ResultsPreviewStore, Collection's table).
THEOREM ShownIsWhatWasAsked == Spec => []ShowsWhatWasAsked
  <1>1. EditorKeeps => ShowsWhatWasAsked
    BY TablePromise, ResultPromise, CollectionPromise, Zenon DEF EditorKeeps, ShowsWhatWasAsked
  <1> QED
    BY <1>1, EditorInductive, PTL

\* For any connectors and files and any number of rows: the form has a message for each row
\* and no other, what it sent was complete, and a refusal has its reason on the screen
\* (AddCatalog.handleValidation, handleSubmit).
THEOREM FormsAreSound == Spec => []FormSound
  <1>1. EditorKeeps => FormSound
    BY FormPromise, Zenon DEF EditorKeeps, FormSound
  <1> QED
    BY <1>1, EditorInductive, PTL
=============================================================================
