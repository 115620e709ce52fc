--------------------------- MODULE DatePickerProofs ---------------------------
(***************************************************************************)
(* Proofs about the date range picker: what each of its functions keeps of *)
(* the two dates, the months and the fields, then what every handler       *)
(* keeps, and that the range is sound whatever the user does.              *)
(***************************************************************************)
EXTENDS DatePicker, TLAPS

-----------------------------------------------------------------------------
(* The date range picker *)

\* The calendar: a time lies within its day, and later days have later times.
LEMMA CalendarBounds ==
    /\ Hours \in Nat /\ Hours > 0 /\ Days \in Nat /\ Days > 0 /\ Months \in Nat /\ Months > 0
    /\ DateLimit \in Nat /\ Today \in Nat
    /\ MinDate \in Nat /\ MaxDate \in Nat /\ MinDate <= MaxDate
    /\ PresetStart \in Nat /\ PresetEnd \in Nat /\ PresetStart <= PresetEnd /\ PresetStart <= MaxDate
  <1>1. /\ Hours \in Nat /\ Hours > 0 /\ Days \in Nat /\ Days > 0 /\ Months \in Nat /\ Months > 0
        /\ DateLimit \in Nat /\ Today \in Nat
        /\ MinDate \in Nat /\ MaxDate \in Nat
        /\ PresetStart \in 0..MaxDate /\ PresetEnd \in Nat /\ PresetStart <= PresetEnd
    BY CalendarAssumption
  <1>2. MinDate <= Today * Hours /\ Today * Hours + (Hours - 1) <= MaxDate
    BY CalendarAssumption, Zenon
  <1>3. Today * Hours \in Nat
    <2>1. \A m, n \in Nat : m * n \in Nat
      OBVIOUS
    <2> QED
      BY <1>1, <2>1, Zenon
  <1> DEFINE x == Today * Hours
  <1> HIDE DEF x
  <1>4. x \in Nat /\ MinDate <= x /\ x + (Hours - 1) <= MaxDate
    BY <1>2, <1>3, Zenon DEF x
  <1>5. MinDate <= MaxDate
    BY <1>1, <1>4
  <1> QED
    BY <1>1, <1>5

\* A time is a date that is valid.
LEMMA ValidTimes == /\ \A t \in Nat : t # Invalid /\ t # NoMonth /\ t - 1 # Invalid
                    /\ Invalid \notin Nat /\ Invalid # NoMonth
  BY DEF Invalid, NoMonth

\* A time is an hour of its day.
LEMMA DayOf ==
    ASSUME NEW t \in Nat
    PROVE  /\ day(t) \in Nat /\ hour(t) \in Nat /\ month(t) \in Nat
           /\ hour(t) < Hours /\ t = day(t) * Hours + hour(t) /\ day(t) * Hours \in Nat
  <1>1. \A n, k \in Nat : k > 0 => n \div k \in Nat /\ n % k \in Nat /\ n % k < k
    OBVIOUS
  <1>2. Hours \in Nat /\ Hours > 0 /\ Days \in Nat /\ Days > 0
    BY CalendarBounds, Zenon
  <1>3. day(t) = t \div Hours /\ hour(t) = t % Hours /\ month(t) = day(t) \div Days
    BY ValidTimes, Zenon DEF day, hour, month
  <1>4. day(t) \in Nat /\ hour(t) \in Nat /\ hour(t) < Hours
    <2>1. t \div Hours \in Nat /\ t % Hours \in Nat /\ t % Hours < Hours
      BY <1>1, <1>2, Zenon
    <2> QED
      BY <1>3, <2>1, Zenon
  <1>5. t = day(t) * Hours + hour(t)
    <2>1. \A n, k \in Nat : k > 0 => n = k * (n \div k) + (n % k)
      OBVIOUS
    <2>2. \A n, k \in Nat : n * k = k * n
      OBVIOUS
    <2>3. t = Hours * (t \div Hours) + (t % Hours)
      BY <1>2, <2>1, Zenon
    <2>4. (t \div Hours) * Hours = Hours * (t \div Hours)
      BY <1>2, <1>3, <1>4, <2>2, Zenon
    <2> QED
      BY <1>3, <2>3, <2>4, Zenon
  <1>6. month(t) \in Nat
    <2>1. \A n, k \in Nat : k > 0 => n \div k \in Nat
      OBVIOUS
    <2>2. day(t) \div Days \in Nat
      BY <1>2, <1>4, <2>1, Zenon
    <2> QED
      BY <1>3, <2>2, Zenon
  <1>7. day(t) * Hours \in Nat
    <2>1. \A n, k \in Nat : n * k \in Nat
      OBVIOUS
    <2> QED
      BY <1>2, <1>4, <2>1, Zenon
  <1> QED
    BY <1>4, <1>5, <1>6, <1>7

\* An hour of a day is a time.
LEMMA AtHour ==
    ASSUME NEW d \in Nat, NEW h \in Nat
    PROVE  at(d, h) \in Nat /\ at(d, h) = d * Hours + h /\ d * Hours \in Nat
  <1>1. \A m, n, k \in Nat : m * n \in Nat /\ m * n + k \in Nat
    OBVIOUS
  <1> QED
    BY <1>1, CalendarBounds, ValidTimes, Zenon DEF at

\* The first and the last time of a day.
LEMMA WithinDay ==
    ASSUME NEW t \in Nat
    PROVE  startOf(t) \in Nat /\ startOf(t) <= t /\ endOf(t) \in Nat /\ t <= endOf(t)
  <1> DEFINE x == day(t) * Hours
  <1>1. /\ hour(t) \in Nat /\ hour(t) < Hours /\ t = x + hour(t) /\ x \in Nat /\ Hours \in Nat /\ Hours > 0
        /\ day(t) \in Nat
    BY DayOf, CalendarBounds, Zenon
  <1>2. startOf(t) = x + 0 /\ endOf(t) = x + (Hours - 1)
    BY <1>1, ValidTimes, Zenon DEF startOf, endOf, at
  <1> HIDE DEF x
  <1> QED
    BY <1>1, <1>2

\* Later days have later times.
LEMMA LaterDay ==
    ASSUME NEW s \in Nat, NEW t \in Nat
    PROVE  (day(s) < day(t) => s < t) /\ (s <= t => day(s) <= day(t))
  <1> DEFINE x == day(s) * Hours
             y == day(t) * Hours
  <1>1. /\ hour(s) \in Nat /\ hour(s) < Hours /\ s = x + hour(s) /\ x \in Nat /\ Hours \in Nat
        /\ day(s) \in Nat
    BY DayOf, CalendarBounds, Zenon
  <1>2. hour(t) \in Nat /\ hour(t) < Hours /\ t = y + hour(t) /\ y \in Nat /\ day(t) \in Nat
    BY DayOf, Zenon
  <1>3. \A m, n, k \in Nat : m < n => m * k + k <= n * k
    <2>1. SUFFICES ASSUME NEW m \in Nat, NEW n \in Nat, NEW k \in Nat, m < n PROVE m * k + k <= n * k
      OBVIOUS
    <2>2. PICK j \in Nat : n = (m + 1) + j
      <3>1. n - (m + 1) \in Nat /\ n = (m + 1) + (n - (m + 1))
        BY <2>1
      <3> QED
        BY <3>1, Zenon
    <2>3. n * k = (m * k + k) + j * k
      BY <2>2
    <2>4. j * k \in Nat /\ m * k \in Nat
      OBVIOUS
    <2> QED
      BY <2>3, <2>4
  <1>4. day(s) < day(t) => x + Hours <= y
    BY <1>1, <1>2, <1>3, Zenon
  <1>5. day(t) < day(s) => y + Hours <= x
    BY <1>1, <1>2, <1>3, Zenon
  <1> HIDE DEF x, y
  <1> QED
    BY <1>1, <1>2, <1>4, <1>5

\* Another hour is on the same day.
LEMMA SameDay ==
    ASSUME NEW d \in Nat, NEW h \in Nat, h < Hours PROVE day(at(d, h)) = d
  <1>1. \A n, k, j \in Nat : j < k => (n * k + j) \div k = n
    OBVIOUS
  <1>2. at(d, h) \in Nat /\ at(d, h) = d * Hours + h
    BY AtHour, Zenon
  <1>3. day(at(d, h)) = (d * Hours + h) \div Hours
    BY <1>2, ValidTimes, Zenon DEF day
  <1> QED
    BY <1>1, <1>3, CalendarBounds, Zenon

\* What a date may be: valid, or anything once the page is soiled.
Moment(soiled) == IF soiled THEN Nat \cup {Invalid} ELSE Nat

\* The two kinds of moments.
LEMMA Moments ==
    ASSUME NEW b
    PROVE  /\ \A t \in Moment(b) : t \in Nat \/ (t = Invalid /\ b)
           /\ Nat \subseteq Moment(b) /\ (b => Invalid \in Moment(b))
  BY Zenon DEF Moment

\* Once a page is soiled, more dates are allowed.
LEMMA MoreMoments == ASSUME NEW a, NEW b, a => b PROVE Moment(a) \subseteq Moment(b)
  BY Zenon DEF Moment

\* What is not valid stays so.
LEMMA InvalidParts ==
    /\ day(Invalid) = Invalid /\ month(Invalid) = Invalid /\ hour(Invalid) = 0
    /\ startOf(Invalid) = Invalid /\ endOf(Invalid) = Invalid
    /\ \A h : at(Invalid, h) = Invalid /\ plus(Invalid, h) = Invalid
    /\ \A t : ~before(t, Invalid) /\ ~before(Invalid, t)
    /\ \A t : lesser(Invalid, t) = Invalid /\ greater(Invalid, t) = Invalid
  <1>1. \A t : ~before(t, Invalid) /\ ~before(Invalid, t)
    BY ValidTimes, Zenon DEF before
  <1>2. \A h : at(Invalid, h) = Invalid /\ plus(Invalid, h) = Invalid
    BY Zenon DEF at, plus
  <1>3. day(Invalid) = Invalid /\ month(Invalid) = Invalid /\ hour(Invalid) = 0
    BY Zenon DEF day, month, hour
  <1> QED
    BY <1>1, <1>2, <1>3, Zenon DEF startOf, endOf, lesser, greater

\* The parts of a moment.
LEMMA MomentParts ==
    ASSUME NEW b, NEW t \in Moment(b)
    PROVE  /\ day(t) \in Moment(b) /\ month(t) \in Moment(b) /\ hour(t) \in Nat
           /\ startOf(t) \in Moment(b) /\ endOf(t) \in Moment(b)
  <1>1. CASE t \in Nat
    BY <1>1, DayOf, WithinDay, Moments, Zenon
  <1>2. CASE t = Invalid /\ b
    <2>1. 0 \in Nat
      OBVIOUS
    <2> QED
      BY <1>2, <2>1, InvalidParts, Moments, Zenon
  <1> QED
    BY <1>1, <1>2, Moments, Zenon

\* Another hour, and some hours later.
LEMMA MomentAt ==
    ASSUME NEW b, NEW t \in Moment(b), NEW h \in Nat PROVE at(t, h) \in Moment(b) /\ plus(t, h) \in Moment(b)
  <1>1. CASE t \in Nat
    <2>1. at(t, h) \in Nat
      BY <1>1, AtHour, Zenon
    <2>2. t + h \in Nat
      BY <1>1
    <2>3. plus(t, h) = t + h
      BY <1>1, ValidTimes, Zenon DEF plus
    <2> QED
      BY <2>1, <2>2, <2>3, Moments, Zenon
  <1>2. CASE t = Invalid /\ b
    BY <1>2, InvalidParts, Moments, Zenon
  <1> QED
    BY <1>1, <1>2, Moments, Zenon

\* The lesser and the greater of two moments.
LEMMA LesserGreater ==
    ASSUME NEW b, NEW s \in Moment(b), NEW t \in Moment(b)
    PROVE  /\ lesser(s, t) \in Moment(b) /\ greater(s, t) \in Moment(b)
           /\ ~before(t, lesser(s, t)) /\ ~before(greater(s, t), t)
  <1>1. lesser(s, t) \in {s, t} /\ greater(s, t) \in {s, t}
    BY Zenon DEF lesser, greater
  <1>2. ~before(t, t)
    BY DEF before
  <1>3. ~before(t, lesser(s, t))
    BY <1>2, Zenon DEF lesser
  <1>4. ~before(greater(s, t), t)
    BY <1>2, Zenon DEF greater
  <1> QED
    BY <1>1, <1>3, <1>4, Zenon

\* The same of two times.
LEMMA LesserGreaterTimes ==
    ASSUME NEW s \in Nat, NEW t \in Nat
    PROVE  /\ lesser(s, t) \in Nat /\ greater(s, t) \in Nat
           /\ lesser(s, t) <= s /\ lesser(s, t) <= t /\ s <= greater(s, t) /\ t <= greater(s, t)
           /\ lesser(s, t) \in {s, t} /\ greater(s, t) \in {s, t}
  BY DEF lesser, greater, before

\* Not before, of times.
LEMMA NotBefore == ASSUME NEW s \in Nat, NEW t \in Nat PROVE ~before(s, t) <=> t <= s
  BY DEF before

-----------------------------------------------------------------------------

PickerFields == {"opt", "startDate", "endDate", "oldStartDate", "oldEndDate", "leftMonth", "rightMonth",
                 "rightHour", "isShowing", "calendars", "ranges", "chosenLabel", "startField", "endField",
                 "focus", "applyOffered", "fromPreset", "typed", "soiled", "text", "searchStringDate",
                 "period", "pattern", "orphan", "listening", "clicks"}

\* A range that is not the wrong way round and, where there are limits, within them.  A
\* predefined range may end after the last time, but does not begin after it.
Early(opt, t) == IF opt.timePicker THEN before(t, MinDate) ELSE before(day(t), day(MinDate))
Late(opt, t) == IF opt.timePicker THEN before(MaxDate, t) ELSE before(day(MaxDate), day(t))
StartWithin(opt, preset, start) ==
    opt.limited => ~before(MaxDate, start) /\ (~preset => ~Early(opt, start))
EndsWithin(opt, preset, start, ends) ==
    \A e \in ends : ~before(e, start) /\ (opt.limited /\ ~preset => ~Late(opt, e))

MonthOf(soiled) == {m \in Int : m >= NoMonth} \cup (IF soiled THEN {Invalid} ELSE {})
LinkedMonths(u) == u.rightMonth = following(u.leftMonth)
NoMonths(u) == u.leftMonth = NoMonth /\ u.rightMonth = NoMonth
MonthsFine(u) == /\ u.leftMonth \in MonthOf(u.soiled) /\ u.rightMonth \in MonthOf(u.soiled)
                 /\ u.opt.linkedCalendars => LinkedMonths(u) \/ NoMonths(u)

\* What holds also halfway through a handler.
PickerBase(u) ==
    /\ PickerFields \subseteq DOMAIN u
    /\ u.startDate \in Moment(u.soiled) /\ u.endDate \subseteq Moment(u.soiled)
    /\ u.oldStartDate \in Moment(u.soiled) /\ u.oldEndDate \subseteq Moment(u.soiled) /\ u.oldEndDate # {}
    /\ StartWithin(u.opt, u.fromPreset, u.oldStartDate)
    /\ EndsWithin(u.opt, u.fromPreset, u.oldStartDate, u.oldEndDate)
    /\ \A r \in u.ranges : /\ r[1] \in Nat /\ r[2] \in Nat /\ r[1] <= r[2]
                           /\ u.opt.limited => r[1] <= MaxDate
    /\ u.rightHour \subseteq Nat /\ u.startField \subseteq Moment(TRUE) /\ u.endField \subseteq Moment(TRUE)
    /\ MonthsFine(u)

PickerClosed(u) == u.endDate # {} /\ (u.typed \/ filter(u) \in {{}, {picked(u)}})
PickerOpen(u) == /\ u.opt.linkedCalendars => LinkedMonths(u)
                 /\ u.opt.timePicker => u.rightHour # {}

PickerSane(u) ==
    /\ PickerBase(u)
    /\ StartWithin(u.opt, u.fromPreset, u.startDate)
    /\ EndsWithin(u.opt, u.fromPreset, u.startDate, u.endDate)

\* What the page has: texts that give moments where they are read, and ranges from pickers.
\* The audit log, which gives the range, asks for no limits.
OptionFields == {"timePicker", "given", "known", "linkedCalendars", "autoApply", "limited", "dateLimit",
                 "ranges", "showDropdowns"}
Sorted(soiled, r) == r.start \in Moment(soiled) /\ r.end \in Moment(soiled) /\ ~before(r.end, r.start)
PageInv(u) ==
    /\ OptionFields \subseteq DOMAIN u.opt /\ (u.opt.given => ~u.opt.limited)
    /\ \A r \in u.text \cup u.searchStringDate :
         r.range /\ ~u.opt.given => r.start \in Moment(u.soiled) /\ r.end \in Moment(u.soiled)
    /\ \A r \in u.period \cup u.orphan : Sorted(u.soiled, r)

PickerInv(u) ==
    /\ PickerSane(u) /\ PageInv(u)
    /\ u.isShowing => PickerOpen(u)
    /\ ~u.isShowing => PickerClosed(u)

\* What is promised of the picker follows.
LEMMA PickerPromise == ASSUME PickerInv(ui) PROVE RangeSound /\ LinkedStayLinked
  <1>1. ui.startDate \in Moment(ui.soiled) /\ ui.endDate \subseteq Moment(ui.soiled)
    BY Zenon DEF PickerInv, PickerSane, PickerBase
  <1>2. ASSUME ui.opt.limited, ~ui.fromPreset, ui.startDate # Invalid,
               NEW t \in (ui.endDate \cup {ui.startDate}) \ {Invalid}
        PROVE  IF ui.opt.timePicker THEN t \in MinDate..MaxDate ELSE day(t) \in day(MinDate)..day(MaxDate)
    <2> DEFINE s == ui.startDate
    <2>1. s \in Nat /\ t \in Nat /\ MinDate \in Nat /\ MaxDate \in Nat
      BY <1>1, <1>2, Moments, CalendarBounds, Zenon
    <2>2. ~before(MaxDate, s) /\ ~Early(ui.opt, s)
      BY <1>2, Zenon DEF PickerInv, PickerSane, StartWithin
    <2>3. t # s => ~before(t, s) /\ ~Late(ui.opt, t)
      BY <1>2, Zenon DEF PickerInv, PickerSane, EndsWithin
    <2> HIDE DEF s
    <2>4. s <= t
      BY <2>1, <2>3, NotBefore
    <2>5. /\ day(s) \in Nat /\ day(t) \in Nat /\ day(MinDate) \in Nat /\ day(MaxDate) \in Nat
          /\ day(s) <= day(t)
      BY <2>1, <2>4, DayOf, LaterDay, Zenon
    <2>6. CASE ui.opt.timePicker
      <3>1. MinDate <= s /\ t <= MaxDate
        BY <2>1, <2>2, <2>3, <2>6, NotBefore, Zenon DEF Early, Late
      <3> QED
        BY <2>1, <2>4, <2>6, <3>1
    <2>7. CASE ~ui.opt.timePicker
      <3>1. day(MinDate) <= day(s)
        BY <2>2, <2>5, <2>7, NotBefore, Zenon DEF Early
      <3>2. s <= MaxDate
        BY <2>1, <2>2, NotBefore, Zenon
      <3>3. day(s) <= day(MaxDate)
        BY <2>1, <3>2, LaterDay, Zenon
      <3>4. day(t) <= day(MaxDate)
        BY <2>3, <2>5, <2>7, <3>3, NotBefore, Zenon DEF Late
      <3>5. day(t) \in day(MinDate)..day(MaxDate)
        BY <2>5, <3>1, <3>4
      <3> QED
        BY <2>7, <3>5, Zenon
    <2> QED
      BY <2>6, <2>7
  <1>3. \A end \in ui.endDate : ~before(end, ui.startDate)
    BY Zenon DEF PickerInv, PickerSane, EndsWithin
  <1>4. ~ui.isShowing => PickerClosed(ui)
    BY Zenon DEF PickerInv
  <1>5. Invalid \in ui.endDate \cup {ui.startDate} => ui.soiled
    BY <1>1, Moments, ValidTimes, Zenon
  <1>6. RangeSound
    BY <1>2, <1>3, <1>4, <1>5, Zenon DEF PickerClosed, RangeSound
  <1>7. LinkedStayLinked
    BY Zenon DEF PickerInv, PickerOpen, LinkedMonths, LinkedStayLinked
  <1> QED
    BY <1>6, <1>7

-----------------------------------------------------------------------------
(* Drawing *)

\* What no drawing changes, and what only the setting of a date does.
Frame(u, v) ==
    /\ PickerFields \subseteq DOMAIN v /\ v.opt = u.opt /\ v.oldStartDate = u.oldStartDate
    /\ v.oldEndDate = u.oldEndDate /\ v.ranges = u.ranges /\ v.isShowing = u.isShowing
    /\ v.fromPreset = u.fromPreset /\ v.typed = u.typed /\ v.soiled = u.soiled
    /\ v.text = u.text /\ v.searchStringDate = u.searchStringDate /\ v.period = u.period
    /\ v.orphan = u.orphan
SameDates(u, v) == v.startDate = u.startDate /\ v.endDate = u.endDate
SameMonths(u, v) == v.leftMonth = u.leftMonth /\ v.rightMonth = u.rightMonth
SameFields(u, v) == v.startField = u.startField /\ v.endField = u.endField

\* The two calendars show the months m and n, and nothing else changed.
Moved(u, v, m, n) ==
    /\ Frame(u, v) /\ SameDates(u, v) /\ SameFields(u, v) /\ v.rightHour = u.rightHour
    /\ v.leftMonth = m /\ v.rightMonth = n

\* Both months are set.
LEMMA MonthsMoved ==
    ASSUME NEW u, PickerFields \subseteq DOMAIN u, NEW m, NEW n
    PROVE  Moved(u, [u EXCEPT !.leftMonth = m, !.rightMonth = n], m, n)
  BY Zenon DEF PickerFields, Frame, SameDates, SameFields, Moved

\* A change of the months, or none, that leaves linked calendars in a row.
InRow(u) == /\ u.leftMonth \in MonthOf(u.soiled) /\ u.rightMonth \in MonthOf(u.soiled)
            /\ u.opt.linkedCalendars => LinkedMonths(u)
Turned(u, v) == /\ Frame(u, v) /\ SameDates(u, v) /\ SameFields(u, v) /\ v.rightHour = u.rightHour
                /\ InRow(v)

\* The month after one that can be shown.
LEMMA FollowingMonth ==
    ASSUME NEW b, NEW m \in MonthOf(b) PROVE following(m) \in MonthOf(b)
  BY DEF MonthOf, following, plus, Invalid, NoMonth

\* The month of a moment, and one month before.
LEMMA MonthShown ==
    ASSUME NEW b
    PROVE  /\ \A m \in Moment(b) : m \in MonthOf(b) /\ plus(m, -1) \in MonthOf(b) /\ m # NoMonth
           /\ \A m \in Moment(b) : following(plus(m, -1)) = m
  <1>1. CASE b
    BY <1>1 DEF MonthOf, Moment, following, plus, Invalid, NoMonth
  <1>2. CASE ~b
    BY <1>2 DEF MonthOf, Moment, following, plus, Invalid, NoMonth
  <1> QED
    BY <1>1, <1>2

\* The right calendar shows the month after the left one.
LEMMA NextTo ==
    ASSUME NEW u, PickerFields \subseteq DOMAIN u, NEW m \in MonthOf(u.soiled) PROVE Turned(u, nextTo(u, m))
  <1>1. Moved(u, nextTo(u, m), m, following(m))
    BY MonthsMoved, Zenon DEF nextTo
  <1>2. following(m) \in MonthOf(u.soiled)
    BY FollowingMonth, Zenon
  <1> QED
    BY <1>1, <1>2, Zenon DEF Moved, Turned, InRow, LinkedMonths, Frame

\* Two turns are a turn.
LEMMA TurnedTwice ==
    ASSUME NEW u, NEW v, NEW w, Turned(u, v), Turned(v, w) PROVE Turned(u, w)
  BY Zenon DEF Turned, Frame, SameDates, SameFields

\* The calendars move back to the last month that is allowed.
LEMMA MonthsWithin ==
    ASSUME NEW u, NEW v, Turned(u, v) PROVE Turned(u, linkedWithin(v))
  <1> DEFINE m == month(MaxDate) - 1
  <1>1. PickerFields \subseteq DOMAIN v
    BY Zenon DEF Turned, Frame
  <1>2. m \in MonthOf(v.soiled)
    <2>1. month(MaxDate) \in Nat
      BY CalendarBounds, DayOf, Zenon
    <2> QED
      BY <2>1 DEF MonthOf, NoMonth
  <1>3. Turned(v, nextTo(v, m))
    BY <1>1, <1>2, NextTo, Zenon
  <1>4. Turned(u, nextTo(v, m))
    BY <1>3, TurnedTwice, Zenon
  <1> QED
    BY <1>4, Zenon DEF linkedWithin

\* updateMonthsInView turns the calendars so that linked ones are in a row.
LEMMA MonthsInView ==
    ASSUME NEW u, PickerBase(u) PROVE Turned(u, updateMonthsInView(u))
  <1> DEFINE m == month(u.startDate)
  <1>1. /\ PickerFields \subseteq DOMAIN u /\ MonthsFine(u)
        /\ u.startDate \in Moment(u.soiled) /\ u.endDate \subseteq Moment(u.soiled)
    BY Zenon DEF PickerBase
  <1>2. m \in MonthOf(u.soiled) /\ m # NoMonth
    <2>1. m \in Moment(u.soiled)
      BY <1>1, MomentParts, Zenon
    <2> QED
      BY <2>1, MonthShown, Zenon
  <1>3. ASSUME visible(u, u.startDate) PROVE Turned(u, u)
    <2>1. m \in {u.leftMonth, u.rightMonth}
      BY <1>3, Zenon DEF visible
    <2>2. InRow(u)
      BY <1>1, <1>2, <2>1, Zenon DEF MonthsFine, NoMonths, InRow
    <2> QED
      BY <1>1, <2>2, Zenon DEF Turned, Frame, SameDates, SameFields
  <1>4. CASE u.endDate = {}
    <2>1. CASE visible(u, u.startDate)
      BY <1>3, <1>4, <2>1, MonthsWithin, Zenon DEF updateMonthsInView
    <2>2. CASE ~visible(u, u.startDate)
      <3>1. Turned(u, nextTo(u, m))
        BY <1>1, <1>2, NextTo, Zenon
      <3>2. updateMonthsInView(u) = linkedWithin(nextTo(u, m))
        BY <1>4, <2>2, Zenon DEF updateMonthsInView
      <3> QED
        BY <3>1, <3>2, MonthsWithin, Zenon
    <2> QED
      BY <2>1, <2>2
  <1>5. CASE u.endDate # {}
    <2>1. CASE visible(u, u.startDate) /\ visible(u, value(u.endDate))
      BY <1>3, <1>5, <2>1, Zenon DEF updateMonthsInView
    <2>2. CASE ~(visible(u, u.startDate) /\ visible(u, value(u.endDate)))
      <3> DEFINE n == IF ~u.opt.linkedCalendars /\ month(value(u.endDate)) # m
                      THEN month(value(u.endDate)) ELSE following(m)
                 v == [u EXCEPT !.leftMonth = m, !.rightMonth = n]
      <3>1. updateMonthsInView(u) = linkedWithin(v)
        BY <1>5, <2>2, Zenon DEF updateMonthsInView
      <3>2. u.opt.linkedCalendars => n = following(m)
        BY Zenon
      <3>3. n \in MonthOf(u.soiled)
        <4>1. value(u.endDate) \in u.endDate
          BY <1>5, Zenon DEF value
        <4>2. month(value(u.endDate)) \in Moment(u.soiled)
          BY <1>1, <4>1, MomentParts, Zenon
        <4>3. month(value(u.endDate)) \in MonthOf(u.soiled)
          BY <4>2, MonthShown, Zenon
        <4>4. following(m) \in MonthOf(u.soiled)
          BY <1>2, FollowingMonth, Zenon
        <4> QED
          BY <4>3, <4>4, Zenon
      <3> HIDE DEF m, n
      <3>4. Moved(u, v, m, n)
        BY <1>1, MonthsMoved, Zenon
      <3> HIDE DEF v
      <3>5. Turned(u, v)
        BY <1>2, <3>2, <3>3, <3>4, Zenon DEF Moved, Turned, InRow, LinkedMonths, Frame
      <3> QED
        BY <3>1, <3>5, MonthsWithin, Zenon
    <2> QED
      BY <2>1, <2>2
  <1> QED
    BY <1>4, <1>5

\* What every part of a handler keeps, and what those do that only draw.
Stepped(u, v) == /\ Frame(u, v) /\ PickerBase(v)
                 /\ u.opt.linkedCalendars /\ LinkedMonths(u) => LinkedMonths(v)
                 /\ u.rightHour # {} => v.rightHour # {}
Redrawn(u, v) == Stepped(u, v) /\ SameDates(u, v)

\* Two parts of a handler are a part.
LEMMA SteppedTwice ==
    ASSUME NEW u, NEW v, NEW w, Stepped(u, v), Stepped(v, w) PROVE Stepped(u, w)
  BY Zenon DEF Stepped, Frame

\* So are two drawings.
LEMMA RedrawnTwice ==
    ASSUME NEW u, NEW v, NEW w, Redrawn(u, v), Redrawn(v, w) PROVE Redrawn(u, w)
  <1>1. Stepped(u, w)
    BY SteppedTwice, Zenon DEF Redrawn
  <1> QED
    BY <1>1, Zenon DEF Redrawn, SameDates

\* What the base needs when its dates, months, hours and fields change.
LEMMA BaseKept ==
    ASSUME NEW u, NEW v, PickerBase(u), Frame(u, v),
           v.startDate \in Moment(v.soiled), v.endDate \subseteq Moment(v.soiled), v.rightHour \subseteq Nat,
           v.startField \subseteq Moment(TRUE), v.endField \subseteq Moment(TRUE), MonthsFine(v)
    PROVE  PickerBase(v)
  BY Zenon DEF PickerBase, Frame, StartWithin, EndsWithin

\* The same months are as fine.
LEMMA MonthsStay ==
    ASSUME NEW u, NEW v, MonthsFine(u), v.soiled = u.soiled, v.opt = u.opt, SameMonths(u, v)
    PROVE  MonthsFine(v)
  BY Zenon DEF MonthsFine, SameMonths, LinkedMonths, NoMonths

\* What makes a step a drawing.
LEMMA RedrawnIf ==
    ASSUME NEW u, NEW v, PickerBase(u), Frame(u, v), SameDates(u, v), v.rightHour \subseteq Nat,
           u.rightHour # {} => v.rightHour # {}, v.startField \subseteq Moment(TRUE),
           v.endField \subseteq Moment(TRUE), SameMonths(u, v) \/ InRow(v)
    PROVE  Redrawn(u, v)
  <1>1. v.startDate \in Moment(v.soiled) /\ v.endDate \subseteq Moment(v.soiled)
    BY Zenon DEF PickerBase, SameDates, Frame
  <1>2. MonthsFine(v)
    <2>1. ASSUME SameMonths(u, v) PROVE MonthsFine(v)
      BY <2>1, MonthsStay, Zenon DEF PickerBase, Frame
    <2>2. ASSUME InRow(v) PROVE MonthsFine(v)
      BY <2>2, Zenon DEF InRow, MonthsFine
    <2> QED
      BY <2>1, <2>2
  <1>3. PickerBase(v)
    BY <1>1, <1>2, BaseKept, Zenon
  <1>4. u.opt.linkedCalendars /\ LinkedMonths(u) => LinkedMonths(v)
    BY Zenon DEF SameMonths, LinkedMonths, InRow, Frame
  <1> QED
    BY <1>3, <1>4, Zenon DEF Redrawn, Stepped

\* updateMonthsInView.
LEMMA MonthsRedrawn ==
    ASSUME NEW u, PickerBase(u)
    PROVE  /\ Redrawn(u, updateMonthsInView(u))
           /\ u.opt.linkedCalendars => LinkedMonths(updateMonthsInView(u))
  <1> DEFINE v == updateMonthsInView(u)
  <1>1. Turned(u, v)
    BY MonthsInView, Zenon
  <1> HIDE DEF v
  <1>2. Frame(u, v) /\ SameDates(u, v) /\ v.rightHour \subseteq Nat /\ (u.rightHour # {} => v.rightHour # {})
    BY <1>1, Zenon DEF Turned, PickerBase
  <1>3. v.startField \subseteq Moment(TRUE) /\ v.endField \subseteq Moment(TRUE) /\ InRow(v)
    BY <1>1, Zenon DEF Turned, PickerBase, SameFields
  <1>4. Redrawn(u, v)
    BY <1>2, <1>3, RedrawnIf, Zenon
  <1>5. u.opt.linkedCalendars => LinkedMonths(v)
    BY <1>2, <1>3, Zenon DEF InRow, Frame
  <1> QED
    BY <1>4, <1>5, Zenon DEF v

\* value takes an element.
LEMMA ValueOf == ASSUME NEW s, s # {} PROVE value(s) \in s
  BY Zenon DEF value

\* value of a set with one element.
LEMMA ValueOfOne == ASSUME NEW x PROVE value({x}) = x
  <1>1. value({x}) \in {x}
    BY ValueOf
  <1> QED
    BY <1>1

\* The last time that can be chosen is a moment.
LEMMA LatestTimes ==
    ASSUME NEW u, u.startDate \in Moment(u.soiled) PROVE latest(u) \subseteq Moment(u.soiled)
  <1> DEFINE y == plus(u.startDate, DateLimit)
             x == greater(MaxDate, y)
  <1>1. MaxDate \in Moment(u.soiled) /\ DateLimit \in Nat
    BY CalendarBounds, Moments, Zenon
  <1>2. y \in Moment(u.soiled)
    BY <1>1, MomentAt, Zenon
  <1>3. x \in Moment(u.soiled) /\ y \in Moment(u.soiled)
    BY <1>1, <1>2, LesserGreater, Zenon
  <1>4. latest(u) = CASE u.opt.dateLimit /\ u.opt.limited -> {x} [] u.opt.dateLimit /\ ~u.opt.limited -> {y}
                     [] u.opt.limited /\ ~u.opt.dateLimit -> {MaxDate} [] OTHER -> {}
    BY Zenon DEF latest
  <1> HIDE DEF x, y
  <1>5. CASE u.opt.dateLimit /\ u.opt.limited
    <2>1. latest(u) = {x}
      BY <1>4, <1>5
    <2> QED
      BY <1>3, <2>1
  <1>6. CASE u.opt.dateLimit /\ ~u.opt.limited
    <2>1. latest(u) = {y}
      BY <1>4, <1>6
    <2> QED
      BY <1>3, <2>1
  <1>7. CASE u.opt.limited /\ ~u.opt.dateLimit
    <2>1. latest(u) = {MaxDate}
      BY <1>4, <1>7
    <2> QED
      BY <1>1, <2>1
  <1>8. CASE ~u.opt.limited /\ ~u.opt.dateLimit
    <2>1. latest(u) = {}
      BY <1>4, <1>8
    <2> QED
      BY <2>1
  <1> QED
    BY <1>5, <1>6, <1>7, <1>8, Zenon

\* The menu of the end's hour shows something else.
LEMMA HourSet ==
    ASSUME NEW u, PickerFields \subseteq DOMAIN u, NEW hours
    PROVE  LET v == [u EXCEPT !.rightHour = hours]
           IN Frame(u, v) /\ SameDates(u, v) /\ SameMonths(u, v) /\ SameFields(u, v) /\ v.rightHour = hours
  BY Zenon DEF PickerFields, Frame, SameDates, SameMonths, SameFields

\* That is a drawing.
LEMMA Rehoured ==
    ASSUME NEW u, PickerBase(u), NEW hours \in SUBSET Nat, hours # {}
    PROVE  /\ Redrawn(u, [u EXCEPT !.rightHour = hours]) /\ [u EXCEPT !.rightHour = hours].rightHour # {}
  <1> DEFINE v == [u EXCEPT !.rightHour = hours]
  <1>1. PickerFields \subseteq DOMAIN u
    BY Zenon DEF PickerBase
  <1>2. Frame(u, v) /\ SameDates(u, v) /\ SameMonths(u, v) /\ SameFields(u, v) /\ v.rightHour = hours
    BY <1>1, HourSet, Zenon
  <1> HIDE DEF v
  <1>3. v.rightHour \subseteq Nat /\ v.rightHour # {} /\ v.startField \subseteq Moment(TRUE) /\ v.endField \subseteq Moment(TRUE)
    BY <1>2, Zenon DEF SameFields, PickerBase
  <1>4. Redrawn(u, v)
    BY <1>2, <1>3, RedrawnIf, Zenon
  <1> QED
    BY <1>3, <1>4, Zenon DEF v

\* renderTimePicker.
LEMMA TimesRedrawn ==
    ASSUME NEW u, PickerBase(u)
    PROVE  /\ Redrawn(u, renderTimePicker(u))
           /\ u.opt.timePicker /\ u.endDate # {} => renderTimePicker(u).rightHour # {}
  <1>1. CASE ~u.opt.timePicker \/ u.endDate = {}
    <2>1. renderTimePicker(u) = u
      BY <1>1, Zenon DEF renderTimePicker
    <2>2. Redrawn(u, u)
      BY Zenon DEF Redrawn, Stepped, Frame, SameDates, PickerBase
    <2> QED
      BY <1>1, <2>1, <2>2, Zenon
  <1>2. CASE u.opt.timePicker /\ u.endDate # {}
    <2> DEFINE end == value(u.endDate)
               kept == IF u.rightHour = {} THEN end ELSE at(day(end), value(u.rightHour))
               ordered == greater(kept, u.startDate)
               selected == IF \E t \in latest(u) : before(t, ordered) THEN value(latest(u)) ELSE ordered
    <2>1. renderTimePicker(u) = [u EXCEPT !.rightHour = {hour(selected)}]
      BY <1>2, Zenon DEF renderTimePicker
    <2>2. u.endDate \subseteq Moment(u.soiled) /\ u.startDate \in Moment(u.soiled) /\ u.rightHour \subseteq Nat
      BY Zenon DEF PickerBase
    <2>3. end \in Moment(u.soiled)
      BY <1>2, <2>2, ValueOf, Zenon
    <2> HIDE DEF end
    <2>4. kept \in Moment(u.soiled)
      <3>1. CASE u.rightHour = {}
        BY <2>3, <3>1, Zenon
      <3>2. CASE u.rightHour # {}
        <4>1. value(u.rightHour) \in Nat /\ day(end) \in Moment(u.soiled)
          BY <2>2, <2>3, <3>2, ValueOf, MomentParts, Zenon
        <4>2. at(day(end), value(u.rightHour)) \in Moment(u.soiled)
          BY <4>1, MomentAt, Zenon
        <4> QED
          BY <3>2, <4>2, Zenon
      <3> QED
        BY <3>1, <3>2
    <2> HIDE DEF kept
    <2>5. ordered \in Moment(u.soiled)
      BY <2>2, <2>4, LesserGreater, Zenon
    <2> HIDE DEF ordered
    <2>6. selected \in Moment(u.soiled)
      <3>1. CASE \E t \in latest(u) : before(t, ordered)
        <4>1. value(latest(u)) \in latest(u) /\ latest(u) \subseteq Moment(u.soiled)
          BY <2>2, <3>1, ValueOf, LatestTimes, Zenon
        <4> QED
          BY <3>1, <4>1, Zenon
      <3>2. CASE ~\E t \in latest(u) : before(t, ordered)
        BY <2>5, <3>2, Zenon
      <3> QED
        BY <3>1, <3>2
    <2> HIDE DEF selected
    <2>7. {hour(selected)} \in SUBSET Nat /\ {hour(selected)} # {}
      <3>1. hour(selected) \in Nat
        BY <2>6, MomentParts, Zenon
      <3> QED
        BY <3>1
    <2>8. /\ Redrawn(u, [u EXCEPT !.rightHour = {hour(selected)}])
          /\ [u EXCEPT !.rightHour = {hour(selected)}].rightHour # {}
      BY <2>7, Rehoured, Zenon
    <2> QED
      BY <2>1, <2>8, Zenon
  <1> QED
    BY <1>1, <1>2

\* A change of no date, month or hour.
LEMMA Decorated ==
    ASSUME NEW u, NEW v, PickerBase(u), Frame(u, v), SameDates(u, v), SameMonths(u, v),
           v.rightHour = u.rightHour, v.startField \subseteq Moment(TRUE), v.endField \subseteq Moment(TRUE)
    PROVE  Redrawn(u, v)
  <1>1. v.rightHour \subseteq Nat /\ (u.rightHour # {} => v.rightHour # {})
    BY Zenon DEF PickerBase
  <1> QED
    BY <1>1, RedrawnIf, Zenon

Unchanged(u, v) == /\ Frame(u, v) /\ SameDates(u, v) /\ SameMonths(u, v) /\ SameFields(u, v)
                   /\ v.rightHour = u.rightHour

\* A step that leaves the dates, the months, the hours and the fields is a drawing.
LEMMA Kept == ASSUME NEW u, NEW v, PickerBase(u), Unchanged(u, v) PROVE Redrawn(u, v)
  <1>1. v.startField \subseteq Moment(TRUE) /\ v.endField \subseteq Moment(TRUE)
    BY Zenon DEF Unchanged, SameFields, PickerBase
  <1>2. Frame(u, v) /\ SameDates(u, v) /\ SameMonths(u, v) /\ v.rightHour = u.rightHour
    BY Zenon DEF Unchanged
  <1> QED
    BY <1>1, <1>2, Decorated, Zenon

\* calculateChosenLabel.
LEMMA LabelRedrawn ==
    ASSUME NEW u, PickerBase(u) PROVE Redrawn(u, calculateChosenLabel(u))
  <1>1. PickerFields \subseteq DOMAIN u
    BY Zenon DEF PickerBase
  <1>2. Unchanged(u, [u EXCEPT !.chosenLabel = "preset"])
    BY <1>1, Zenon DEF PickerFields, Unchanged, Frame, SameDates, SameMonths, SameFields
  <1>3. Unchanged(u, [u EXCEPT !.chosenLabel = "custom", !.calendars = TRUE])
    BY <1>1, Zenon DEF PickerFields, Unchanged, Frame, SameDates, SameMonths, SameFields
  <1>4. \/ calculateChosenLabel(u) = [u EXCEPT !.chosenLabel = "preset"]
        \/ calculateChosenLabel(u) = [u EXCEPT !.chosenLabel = "custom", !.calendars = TRUE]
    BY Zenon DEF calculateChosenLabel
  <1>5. Unchanged(u, calculateChosenLabel(u))
    BY <1>2, <1>3, <1>4, Zenon
  <1> QED
    BY <1>5, Kept, Zenon

\* updateCalendars.
LEMMA CalendarsRedrawn ==
    ASSUME NEW u, PickerBase(u) PROVE Redrawn(u, updateCalendars(u))
  <1>1. Redrawn(u, u)
    BY Zenon DEF Redrawn, Stepped, Frame, SameDates, PickerBase
  <1> QED
    BY <1>1, LabelRedrawn, Zenon DEF updateCalendars

\* What a field shows is a moment.
LEMMA FormatTime == ASSUME NEW u, NEW b, NEW t \in Moment(b) PROVE format(u, t) \in Moment(b)
  BY MomentParts, Zenon DEF format

\* In a field any moment will do.
LEMMA FieldTime ==
    ASSUME NEW u, NEW b, NEW t \in Moment(b)
    PROVE  format(u, t) \in Moment(TRUE) /\ {format(u, t)} \in SUBSET Moment(TRUE)
  <1>1. format(u, t) \in Moment(b)
    BY FormatTime, Zenon
  <1>2. Moment(b) \subseteq Moment(TRUE)
    BY MoreMoments, Zenon
  <1>3. format(u, t) \in Moment(TRUE)
    BY <1>1, <1>2, Zenon
  <1> QED
    BY <1>3, Zenon

\* The fields show f and g, and nothing else changed.
Written(u, v, f, g) ==
    /\ Frame(u, v) /\ SameDates(u, v) /\ SameMonths(u, v) /\ v.rightHour = u.rightHour
    /\ v.startField = f /\ v.endField = g

\* Both fields are set.
LEMMA FieldsSet ==
    ASSUME NEW u, PickerFields \subseteq DOMAIN u, NEW f, NEW g, NEW b
    PROVE  Written(u, [u EXCEPT !.startField = f, !.endField = g, !.applyOffered = b], f, g)
  BY Zenon DEF PickerFields, Frame, SameDates, SameMonths, Written

\* That is a drawing.
LEMMA WrittenRedraws ==
    ASSUME NEW u, PickerBase(u), NEW v, NEW f \in SUBSET Moment(TRUE), NEW g \in SUBSET Moment(TRUE), Written(u, v, f, g)
    PROVE  Redrawn(u, v)
  <1>1. /\ Frame(u, v) /\ SameDates(u, v) /\ SameMonths(u, v) /\ v.rightHour = u.rightHour
        /\ v.startField \subseteq Moment(TRUE) /\ v.endField \subseteq Moment(TRUE)
    BY Zenon DEF Written
  <1> QED
    BY <1>1, Decorated, Zenon

\* updateFormInputs.
LEMMA FieldsRedrawn ==
    ASSUME NEW u, PickerBase(u) PROVE Redrawn(u, updateFormInputs(u))
  <1>1. CASE u.focus # "none"
    <2>1. Redrawn(u, u)
      BY Zenon DEF Redrawn, Stepped, Frame, SameDates, PickerBase
    <2> QED
      BY <1>1, <2>1, Zenon DEF updateFormInputs
  <1>2. CASE u.focus = "none"
    <2> DEFINE f == {format(u, u.startDate)}
               g == IF u.endDate = {} THEN u.endField ELSE {format(u, value(u.endDate))}
               b == \E end \in u.endDate \ {Invalid} : u.startDate # Invalid /\ u.startDate <= end
               v == [u EXCEPT !.startField = f, !.endField = g, !.applyOffered = b]
    <2>1. updateFormInputs(u) = v
      BY <1>2 DEF updateFormInputs
    <2>2. /\ PickerFields \subseteq DOMAIN u /\ u.startDate \in Moment(u.soiled) /\ u.endDate \subseteq Moment(u.soiled)
          /\ u.endField \subseteq Moment(TRUE)
      BY Zenon DEF PickerBase
    <2>3. f \subseteq Moment(TRUE)
      <3>1. format(u, u.startDate) \in Moment(TRUE)
        BY <2>2, FieldTime, Zenon
      <3> QED
        BY <3>1, Zenon
    <2>4. g \subseteq Moment(TRUE)
      <3>1. ASSUME u.endDate # {} PROVE {format(u, value(u.endDate))} \subseteq Moment(TRUE)
        <4>1. value(u.endDate) \in Moment(u.soiled)
          BY <2>2, <3>1, ValueOf, Zenon
        <4>2. format(u, value(u.endDate)) \in Moment(TRUE)
          BY <4>1, FieldTime, Zenon
        <4> QED
          BY <4>2, Zenon
      <3> QED
        BY <2>2, <3>1, Zenon
    <2> HIDE DEF f, g, b
    <2>5. Written(u, v, f, g)
      BY <2>2, FieldsSet, Zenon
    <2> HIDE DEF v
    <2>7. Redrawn(u, v)
      BY <2>3, <2>4, <2>5, WrittenRedraws, Zenon
    <2> QED
      BY <2>1, <2>7, Zenon
  <1> QED
    BY <1>1, <1>2

\* updateView is a drawing that brings linked calendars into a row.
LEMMA ViewRedrawn ==
    ASSUME NEW u, PickerBase(u)
    PROVE  /\ Redrawn(u, updateView(u))
           /\ u.opt.linkedCalendars => LinkedMonths(updateView(u))
           /\ u.opt.timePicker /\ u.endDate # {} => updateView(u).rightHour # {}
  <1> DEFINE a == renderTimePicker(u)
             b == updateMonthsInView(a)
             c == updateCalendars(b)
             d == updateFormInputs(c)
  <1>1. Redrawn(u, a) /\ (u.opt.timePicker /\ u.endDate # {} => a.rightHour # {})
    BY TimesRedrawn, Zenon
  <1>2. PickerBase(a) /\ a.opt = u.opt
    BY <1>1, Zenon DEF Redrawn, Stepped, Frame
  <1> HIDE DEF a
  <1>3. Redrawn(a, b) /\ (a.opt.linkedCalendars => LinkedMonths(b))
    BY <1>2, MonthsRedrawn, Zenon
  <1>4. PickerBase(b) /\ b.opt = a.opt
    BY <1>3, Zenon DEF Redrawn, Stepped, Frame
  <1> HIDE DEF b
  <1>5. Redrawn(b, c)
    BY <1>4, CalendarsRedrawn, Zenon
  <1>6. PickerBase(c)
    BY <1>5, Zenon DEF Redrawn, Stepped
  <1> HIDE DEF c
  <1>7. Redrawn(c, d)
    BY <1>6, FieldsRedrawn, Zenon
  <1> HIDE DEF d
  <1>8. Redrawn(b, d)
    BY <1>5, <1>7, RedrawnTwice, Zenon
  <1>9. Redrawn(a, d)
    BY <1>3, <1>8, RedrawnTwice, Zenon
  <1>10. Redrawn(u, d)
    BY <1>1, <1>9, RedrawnTwice, Zenon
  <1>11. u.opt.linkedCalendars => LinkedMonths(d)
    BY <1>2, <1>3, <1>4, <1>8, Zenon DEF Redrawn, Stepped
  <1>12. u.opt.timePicker /\ u.endDate # {} => d.rightHour # {}
    BY <1>1, <1>9, Zenon DEF Redrawn, Stepped
  <1>13. updateView(u) = d
    BY Zenon DEF updateView, a, b, c, d
  <1> QED
    BY <1>10, <1>11, <1>12, <1>13, Zenon

-----------------------------------------------------------------------------
(* Setting the dates *)

\* The start is set.
LEMMA StartSet ==
    ASSUME NEW u, PickerBase(u), NEW s \in Moment(u.soiled)
    PROVE  LET v == [u EXCEPT !.startDate = s]
           IN Stepped(u, v) /\ v.startDate = s /\ v.endDate = u.endDate
  <1> DEFINE v == [u EXCEPT !.startDate = s]
  <1>1. PickerFields \subseteq DOMAIN u
    BY Zenon DEF PickerBase
  <1>2. /\ Frame(u, v) /\ v.startDate = s /\ v.endDate = u.endDate /\ SameMonths(u, v) /\ SameFields(u, v)
        /\ v.rightHour = u.rightHour
    BY <1>1, Zenon DEF PickerFields, Frame, SameMonths, SameFields
  <1> HIDE DEF v
  <1>3. /\ v.startDate \in Moment(v.soiled) /\ v.endDate \subseteq Moment(v.soiled) /\ v.rightHour \subseteq Nat
        /\ v.startField \subseteq Moment(TRUE) /\ v.endField \subseteq Moment(TRUE)
        /\ MonthsFine(v)
    BY <1>2, MonthsStay, Zenon DEF PickerBase, SameFields, Frame
  <1>4. PickerBase(v)
    BY <1>2, <1>3, BaseKept, Zenon
  <1>5. Stepped(u, v)
    BY <1>2, <1>4, Zenon DEF Stepped, SameMonths, LinkedMonths
  <1> QED
    BY <1>2, <1>5, Zenon DEF v

\* The end is set.
LEMMA EndSet ==
    ASSUME NEW u, PickerBase(u), NEW e \in SUBSET Moment(u.soiled)
    PROVE  LET v == [u EXCEPT !.endDate = e]
           IN Stepped(u, v) /\ v.endDate = e /\ v.startDate = u.startDate
  <1> DEFINE v == [u EXCEPT !.endDate = e]
  <1>1. PickerFields \subseteq DOMAIN u
    BY Zenon DEF PickerBase
  <1>2. /\ Frame(u, v) /\ v.startDate = u.startDate /\ v.endDate = e /\ SameMonths(u, v) /\ SameFields(u, v)
        /\ v.rightHour = u.rightHour
    BY <1>1, Zenon DEF PickerFields, Frame, SameMonths, SameFields
  <1> HIDE DEF v
  <1>3. /\ v.startDate \in Moment(v.soiled) /\ v.endDate \subseteq Moment(v.soiled) /\ v.rightHour \subseteq Nat
        /\ v.startField \subseteq Moment(TRUE) /\ v.endField \subseteq Moment(TRUE)
        /\ MonthsFine(v)
    BY <1>2, MonthsStay, Zenon DEF PickerBase, SameFields, Frame
  <1>4. PickerBase(v)
    BY <1>2, <1>3, BaseKept, Zenon
  <1>5. Stepped(u, v)
    BY <1>2, <1>4, Zenon DEF Stepped, SameMonths, LinkedMonths
  <1> QED
    BY <1>2, <1>5, Zenon DEF v

\* A time that is not early, or late, is not so by its day.
LEMMA ByDays ==
    ASSUME NEW opt, NEW b, NEW t \in Moment(b)
    PROVE  (~before(t, MinDate) => ~Early(opt, t)) /\ (~before(MaxDate, t) => ~Late(opt, t))
  <1>1. CASE t \in Nat
    <2>1. /\ MinDate \in Nat /\ MaxDate \in Nat /\ day(t) \in Nat /\ day(MinDate) \in Nat
          /\ day(MaxDate) \in Nat
      BY <1>1, CalendarBounds, DayOf, Zenon
    <2>2. (MinDate <= t => day(MinDate) <= day(t)) /\ (t <= MaxDate => day(t) <= day(MaxDate))
      BY <1>1, <2>1, LaterDay, Zenon
    <2> QED
      BY <1>1, <2>1, <2>2, NotBefore, Zenon DEF Early, Late
  <1>2. CASE t = Invalid
    BY <1>2, InvalidParts, Zenon DEF Early, Late
  <1> QED
    BY <1>1, <1>2, Moments, Zenon

\* The start is within the limits, and not after the time that was asked for if that is.
LEMMA StartDateSet ==
    ASSUME NEW u, PickerBase(u), NEW t \in Moment(u.soiled)
    PROVE  LET v == setStartDate(u, t)
           IN /\ Stepped(u, v) /\ v.endDate = u.endDate
              /\ u.opt.linkedCalendars => LinkedMonths(v)
              /\ StartWithin(u.opt, FALSE, v.startDate)
              /\ t \in Nat /\ (u.opt.limited => MinDate <= t) => v.startDate \in Nat /\ v.startDate <= t
              /\ t = Invalid => v.startDate = Invalid
  <1> DEFINE whole == IF u.opt.timePicker THEN t ELSE startOf(t)
             within == IF u.opt.limited THEN lesser(greater(whole, MinDate), MaxDate) ELSE whole
             w == [u EXCEPT !.startDate = within]
             v == updateMonthsInView(w)
  <1>1. setStartDate(u, t) = v
    BY Zenon DEF setStartDate
  <1>2. MinDate \in Nat /\ MaxDate \in Nat /\ MinDate <= MaxDate
    BY CalendarBounds, Zenon
  <1>3. /\ within \in Moment(u.soiled)
        /\ u.opt.limited => ~before(within, MinDate) /\ ~before(MaxDate, within)
        /\ t \in Nat /\ (u.opt.limited => MinDate <= t) => within \in Nat /\ within <= t
        /\ t = Invalid => within = Invalid
    <2>1. CASE t \in Nat
      <3>1. whole \in Nat /\ whole <= t
        BY <2>1, WithinDay
      <3> HIDE DEF whole
      <3>2. CASE u.opt.limited
        <4>1. within = lesser(greater(whole, MinDate), MaxDate)
          BY <3>2, Zenon
        <4>2. /\ within \in Nat /\ MinDate <= within /\ within <= MaxDate
              /\ MinDate <= t => within <= t
          BY <1>2, <2>1, <3>1, <4>1 DEF lesser, greater, before
        <4> QED
          BY <1>2, <2>1, <3>2, <4>2, Moments, NotBefore, ValidTimes, Zenon
      <3>3. CASE ~u.opt.limited
        <4>1. within = whole
          BY <3>3, Zenon
        <4> QED
          BY <2>1, <3>1, <3>3, <4>1, Moments, ValidTimes, Zenon
      <3> QED
        BY <3>2, <3>3
    <2>2. CASE t = Invalid
      <3>1. within = Invalid
        BY <2>2, InvalidParts, Zenon
      <3> QED
        BY <2>2, <3>1, InvalidParts, ValidTimes, Zenon
    <2> QED
      BY <2>1, <2>2, Moments, Zenon
  <1> HIDE DEF within
  <1>4. Stepped(u, w) /\ w.startDate = within /\ w.endDate = u.endDate
    BY <1>3, StartSet, Zenon
  <1> HIDE DEF w
  <1>5. PickerBase(w) /\ w.opt = u.opt
    BY <1>4, Zenon DEF Stepped, Frame
  <1>6. Redrawn(w, v) /\ (w.opt.linkedCalendars => LinkedMonths(v))
    BY <1>5, MonthsRedrawn, Zenon
  <1> HIDE DEF v
  <1>7. Stepped(u, v)
    BY <1>4, <1>6, SteppedTwice, Zenon DEF Redrawn
  <1>8. v.startDate = within /\ v.endDate = u.endDate
    BY <1>4, <1>6, Zenon DEF Redrawn, SameDates
  <1>9. StartWithin(u.opt, FALSE, v.startDate)
    BY <1>3, <1>8, ByDays, Zenon DEF StartWithin
  <1> QED
    BY <1>1, <1>3, <1>5, <1>6, <1>7, <1>8, <1>9, Zenon

\* The lesser of two moments that are not before a third is not before it.
LEMMA LesserLater ==
    ASSUME NEW s, NEW t, NEW x, ~before(s, x), ~before(t, x) PROVE ~before(lesser(s, t), x)
  BY Zenon DEF lesser

\* The lesser of two moments is not after a third that the first is not after.
LEMMA LesserEarlier ==
    ASSUME NEW b, NEW s \in Moment(b), NEW t \in Moment(b), NEW x \in Nat, ~before(x, s)
    PROVE  ~before(x, lesser(s, t))
  <1>1. CASE before(t, s)
    <2>1. s \in Nat /\ t \in Nat /\ t < s
      BY <1>1, Zenon DEF before
    <2>2. s <= x
      BY <2>1, NotBefore, Zenon
    <2>3. t <= x
      BY <2>1, <2>2
    <2>4. lesser(s, t) = t
      BY <1>1, Zenon DEF lesser
    <2> QED
      BY <2>1, <2>3, <2>4, NotBefore, Zenon
  <1>2. CASE ~before(t, s)
    BY <1>2, Zenon DEF lesser
  <1> QED
    BY <1>1, <1>2

\* The end is not before the start, and within the limits.
LEMMA EndDateSet ==
    ASSUME NEW u, PickerBase(u), NEW t \in Moment(u.soiled), u.opt.limited => ~before(MaxDate, u.startDate)
    PROVE  LET v == setEndDate(u, t)
           IN /\ Stepped(u, v) /\ v.startDate = u.startDate /\ v.endDate # {}
              /\ u.opt.linkedCalendars => LinkedMonths(v)
              /\ EndsWithin(u.opt, FALSE, v.startDate, v.endDate)
  <1> DEFINE whole == IF u.opt.timePicker THEN t ELSE endOf(t)
             ordered == greater(whole, u.startDate)
             within == IF u.opt.limited THEN lesser(ordered, MaxDate) ELSE ordered
             longest == plus(u.startDate, DateLimit)
             limited == IF u.opt.dateLimit THEN lesser(within, longest) ELSE within
             w == [u EXCEPT !.endDate = {limited}]
             v == updateMonthsInView(w)
  <1>1. setEndDate(u, t) = v
    BY Zenon DEF setEndDate
  <1>2. /\ u.startDate \in Moment(u.soiled) /\ MaxDate \in Nat /\ MaxDate \in Moment(u.soiled)
        /\ DateLimit \in Nat
    BY CalendarBounds, Moments, Zenon DEF PickerBase
  <1>3. whole \in Moment(u.soiled)
    BY MomentParts, Zenon
  <1> HIDE DEF whole
  <1>4. ordered \in Moment(u.soiled) /\ ~before(ordered, u.startDate)
    BY <1>2, <1>3, LesserGreater, Zenon
  <1> HIDE DEF ordered
  <1>5. /\ within \in Moment(u.soiled) /\ ~before(within, u.startDate)
        /\ u.opt.limited => ~before(MaxDate, within)
    <2>1. CASE u.opt.limited
      <3>1. within = lesser(ordered, MaxDate)
        BY <2>1, Zenon
      <3> QED
        BY <1>2, <1>4, <2>1, <3>1, LesserGreater, LesserLater, Zenon
    <2>2. CASE ~u.opt.limited
      BY <1>4, <2>2, Zenon
    <2> QED
      BY <2>1, <2>2
  <1> HIDE DEF within
  <1>6. longest \in Moment(u.soiled) /\ ~before(longest, u.startDate)
    <2>1. longest \in Moment(u.soiled)
      BY <1>2, MomentAt, Zenon
    <2>2. CASE u.startDate \in Nat
      <3>1. longest = u.startDate + DateLimit
        BY <2>2, ValidTimes, Zenon DEF plus
      <3> QED
        BY <1>2, <2>1, <2>2, <3>1 DEF before
    <2>3. CASE u.startDate = Invalid
      BY <2>1, <2>3, InvalidParts, Zenon
    <2> QED
      BY <1>2, <2>2, <2>3, Moments, Zenon
  <1> HIDE DEF longest
  <1>7. /\ limited \in Moment(u.soiled) /\ ~before(limited, u.startDate)
        /\ u.opt.limited => ~before(MaxDate, limited)
    <2>1. CASE u.opt.dateLimit
      <3>1. limited = lesser(within, longest)
        BY <2>1, Zenon
      <3> QED
        BY <1>2, <1>5, <1>6, <3>1, LesserGreater, LesserLater, LesserEarlier, Zenon
    <2>2. CASE ~u.opt.dateLimit
      BY <1>5, <2>2, Zenon
    <2> QED
      BY <2>1, <2>2
  <1> HIDE DEF limited
  <1>8. {limited} \in SUBSET Moment(u.soiled)
    BY <1>7, Zenon
  <1>9. Stepped(u, w) /\ w.endDate = {limited} /\ w.startDate = u.startDate
    BY <1>8, EndSet, Zenon
  <1> HIDE DEF w
  <1>10. PickerBase(w) /\ w.opt = u.opt
    BY <1>9, Zenon DEF Stepped, Frame
  <1>11. Redrawn(w, v) /\ (w.opt.linkedCalendars => LinkedMonths(v))
    BY <1>10, MonthsRedrawn, Zenon
  <1> HIDE DEF v
  <1>12. Stepped(u, v)
    BY <1>9, <1>11, SteppedTwice, Zenon DEF Redrawn
  <1>13. v.startDate = u.startDate /\ v.endDate = {limited}
    BY <1>9, <1>11, Zenon DEF Redrawn, SameDates
  <1>14. u.opt.limited => ~Late(u.opt, limited)
    BY <1>7, ByDays, Zenon
  <1>15. EndsWithin(u.opt, FALSE, v.startDate, v.endDate) /\ v.endDate # {}
    BY <1>7, <1>13, <1>14, Zenon DEF EndsWithin
  <1> QED
    BY <1>1, <1>10, <1>11, <1>12, <1>13, <1>15, Zenon

-----------------------------------------------------------------------------
(* Opening and closing *)

\* The two agree in all that the invariant says of a picker that is neither open nor closed.
Alike(u, v) ==
    /\ PickerFields \subseteq DOMAIN v /\ v.opt = u.opt /\ v.oldStartDate = u.oldStartDate
    /\ v.oldEndDate = u.oldEndDate /\ v.ranges = u.ranges /\ v.fromPreset = u.fromPreset
    /\ SameDates(u, v) /\ SameMonths(u, v) /\ SameFields(u, v) /\ v.rightHour = u.rightHour
    /\ u.soiled => v.soiled

\* The rest does not matter for a sane picker.
LEMMA AlikeSane == ASSUME NEW u, NEW v, PickerSane(u), Alike(u, v) PROVE PickerSane(v)
  <1>1. Moment(u.soiled) \subseteq Moment(v.soiled)
    BY MoreMoments, Zenon DEF Alike
  <1>2. MonthOf(u.soiled) \subseteq MonthOf(v.soiled)
    BY Zenon DEF Alike, MonthOf
  <1>3. MonthsFine(v)
    BY <1>2, Zenon DEF PickerSane, PickerBase, MonthsFine, Alike, SameMonths, LinkedMonths, NoMonths
  <1>4. /\ v.startDate \in Moment(v.soiled) /\ v.endDate \subseteq Moment(v.soiled)
        /\ v.oldStartDate \in Moment(v.soiled) /\ v.oldEndDate \subseteq Moment(v.soiled)
    BY <1>1, Zenon DEF PickerSane, PickerBase, Alike, SameDates
  <1>5. PickerBase(v)
    BY <1>3, <1>4, Zenon DEF PickerSane, PickerBase, Alike, SameFields
  <1>6. /\ StartWithin(v.opt, v.fromPreset, v.startDate)
        /\ EndsWithin(v.opt, v.fromPreset, v.startDate, v.endDate)
    BY Zenon DEF PickerSane, Alike, SameDates
  <1> QED
    BY <1>5, <1>6, Zenon DEF PickerSane

\* The same dates are the same filter.
LEMMA SamePicked ==
    ASSUME NEW u, NEW v, v.opt = u.opt, SameDates(u, v) PROVE picked(v) = picked(u)
  <1>1. \A t : format(v, t) = format(u, t)
    BY Zenon DEF format
  <1>2. v.startDate = u.startDate /\ v.endDate = u.endDate
    BY Zenon DEF SameDates
  <1>3. picked(u) = text(format(u, u.startDate), format(u, value(u.endDate)), TRUE)
    BY Zenon DEF picked
  <1>4. picked(v) = text(format(v, v.startDate), format(v, value(v.endDate)), TRUE)
    BY Zenon DEF picked
  <1> QED
    BY <1>1, <1>2, <1>3, <1>4, Zenon

\* A picker of which only the rest changes stays closed, or open.
LEMMA ClosedKept ==
    ASSUME NEW u, NEW v, PickerSane(u), u.endDate # {}, Alike(u, v), ~v.isShowing, PageInv(v),
           v.typed \/ filter(v) \in {{}, {picked(u)}}
    PROVE  PickerInv(v)
  <1>1. PickerSane(v)
    BY AlikeSane, Zenon
  <1>2. picked(v) = picked(u) /\ v.endDate # {}
    BY SamePicked, Zenon DEF Alike, SameDates
  <1>3. PickerClosed(v)
    BY <1>2, Zenon DEF PickerClosed
  <1> QED
    BY <1>1, <1>3, Zenon DEF PickerInv

\* The same for one that is open.
LEMMA OpenKept ==
    ASSUME NEW u, NEW v, PickerSane(u), PickerOpen(u), Alike(u, v), v.isShowing, PageInv(v)
    PROVE  PickerInv(v)
  <1>1. PickerSane(v)
    BY AlikeSane, Zenon
  <1>2. PickerOpen(v)
    BY Zenon DEF PickerOpen, Alike, SameMonths, LinkedMonths
  <1> QED
    BY <1>1, <1>2, Zenon DEF PickerInv

\* What the page has is not the picker's to draw.
LEMMA PageFramed ==
    ASSUME NEW u, NEW v, PageInv(u), Frame(u, v) PROVE PageInv(v) /\ filter(v) = filter(u)
  <1>1. /\ v.opt = u.opt /\ v.soiled = u.soiled /\ v.text = u.text
        /\ v.searchStringDate = u.searchStringDate /\ v.period = u.period /\ v.orphan = u.orphan
    BY Zenon DEF Frame
  <1> QED
    BY <1>1, Zenon DEF PageInv, filter

\* The page may forget what it has, and take a range from a picker.
LEMMA PageTakes ==
    ASSUME NEW u, NEW v, PageInv(u), v.opt = u.opt, v.soiled = u.soiled, NEW x, Sorted(u.soiled, x),
           v.text \cup v.searchStringDate \subseteq u.text \cup u.searchStringDate \cup {x},
           v.period \cup v.orphan \subseteq u.period \cup u.orphan \cup {x}
    PROVE  PageInv(v)
  <1>1. \A r \in v.text \cup v.searchStringDate :
          r.range /\ ~v.opt.given => r.start \in Moment(v.soiled) /\ r.end \in Moment(v.soiled)
    BY Zenon DEF PageInv, Sorted
  <1>2. \A r \in v.period \cup v.orphan : Sorted(v.soiled, r)
    BY Zenon DEF PageInv
  <1> QED
    BY <1>1, <1>2, Zenon DEF PageInv

\* The format keeps the order.
LEMMA FormatOrder ==
    ASSUME NEW u, NEW b, NEW s \in Moment(b), NEW t \in Moment(b), ~before(t, s)
    PROVE  ~before(format(u, t), format(u, s))
  <1>1. CASE u.opt.timePicker
    BY <1>1, Zenon DEF format
  <1>2. CASE ~u.opt.timePicker /\ s \in Nat /\ t \in Nat
    <2> DEFINE x == startOf(s)
               y == startOf(t)
    <2>1. s <= t /\ day(s) \in Nat /\ day(t) \in Nat /\ 0 \in Nat /\ 0 < Hours
      BY <1>2, NotBefore, DayOf, CalendarBounds
    <2>2. day(s) <= day(t)
      BY <1>2, <2>1, LaterDay, Zenon
    <2>3. x \in Nat /\ y \in Nat /\ day(x) = day(s) /\ day(y) = day(t)
      BY <1>2, <2>1, WithinDay, SameDay, Zenon DEF startOf
    <2>4. day(s) = day(t) => x = y
      BY Zenon DEF startOf
    <2>5. y <= x => day(y) <= day(x)
      BY <2>3, LaterDay, Zenon
    <2>6. format(u, s) = x /\ format(u, t) = y
      BY <1>2, Zenon DEF format
    <2> HIDE DEF x, y
    <2>7. x <= y
      BY <2>1, <2>2, <2>3, <2>4, <2>5
    <2> QED
      BY <2>3, <2>6, <2>7, NotBefore, Zenon
  <1>3. CASE s = Invalid \/ t = Invalid
    <2>1. format(u, Invalid) = Invalid
      BY InvalidParts, Zenon DEF format
    <2> QED
      BY <1>3, <2>1, InvalidParts, Zenon
  <1> QED
    BY <1>1, <1>2, <1>3, Moments, Zenon

\* The range that a picker reports is in order.
LEMMA PickedSorted ==
    ASSUME NEW u, PickerSane(u), u.endDate # {} PROVE Sorted(u.soiled, picked(u))
  <1> DEFINE e == value(u.endDate)
             s == format(u, u.startDate)
             t == format(u, e)
  <1>1. u.startDate \in Moment(u.soiled) /\ e \in Moment(u.soiled) /\ ~before(e, u.startDate)
    BY ValueOf, Zenon DEF PickerSane, PickerBase, EndsWithin
  <1> HIDE DEF e
  <1>2. s \in Moment(u.soiled) /\ t \in Moment(u.soiled) /\ ~before(t, s)
    BY <1>1, FormatTime, FormatOrder, Zenon
  <1>3. picked(u) = text(s, t, TRUE)
    BY Zenon DEF picked, e
  <1> HIDE DEF s, t
  <1>4. text(s, t, TRUE).start = s /\ text(s, t, TRUE).end = t
    BY Zenon DEF text
  <1> QED
    BY <1>2, <1>3, <1>4, Zenon DEF Sorted

\* A drawing keeps the invariant.
LEMMA PickerRedrawn == ASSUME NEW u, NEW v, PickerInv(u), Redrawn(u, v) PROVE PickerInv(v)
  <1>1. PickerBase(v) /\ Frame(u, v) /\ SameDates(u, v)
    BY Zenon DEF Redrawn, Stepped
  <1>2. PickerSane(v)
    BY <1>1, Zenon DEF PickerInv, PickerSane, Frame, SameDates
  <1>3. u.isShowing => PickerOpen(v)
    BY Zenon DEF PickerInv, PickerOpen, Redrawn, Stepped, Frame
  <1>4. picked(v) = picked(u) /\ PageInv(v) /\ filter(v) = filter(u)
    BY <1>1, SamePicked, PageFramed, Zenon DEF Frame, PickerInv
  <1>5. ~u.isShowing => PickerClosed(v)
    BY <1>1, <1>4, Zenon DEF PickerInv, PickerClosed, Frame, SameDates
  <1>6. v.isShowing = u.isShowing
    BY <1>1, Zenon DEF Frame
  <1> QED
    BY <1>2, <1>3, <1>4, <1>5, <1>6, Zenon DEF PickerInv

\* So does a handler that ends with dates in order.
LEMMA PickerStepped ==
    ASSUME NEW u, NEW v, PickerInv(u), Stepped(u, v),
           StartWithin(v.opt, v.fromPreset, v.startDate),
           EndsWithin(v.opt, v.fromPreset, v.startDate, v.endDate),
           u.isShowing \/ (u.typed /\ v.endDate # {})
    PROVE  PickerInv(v)
  <1>1. PickerBase(v) /\ Frame(u, v)
    BY Zenon DEF Stepped
  <1>2. PickerSane(v) /\ PageInv(v)
    BY <1>1, PageFramed, Zenon DEF PickerSane, PickerInv
  <1>3. u.isShowing => PickerOpen(v)
    BY Zenon DEF PickerInv, PickerOpen, Stepped, Frame
  <1>4. ~u.isShowing => PickerClosed(v)
    BY <1>1, Zenon DEF PickerClosed, Frame
  <1>5. v.isShowing = u.isShowing
    BY <1>1, Zenon DEF Frame
  <1> QED
    BY <1>2, <1>3, <1>4, <1>5, Zenon DEF PickerInv

\* A change of the rest leaves an open picker open, and a closed one closed.
LEMMA PickerAlike ==
    ASSUME NEW u, NEW v, PickerInv(u), Alike(u, v), v.isShowing = u.isShowing, PageInv(v),
           v.isShowing \/ v.typed \/ (v.typed = u.typed /\ filter(v) = filter(u))
    PROVE  PickerInv(v)
  <1>1. CASE u.isShowing
    BY <1>1, OpenKept, Zenon DEF PickerInv
  <1>2. CASE ~u.isShowing
    <2>1. PickerSane(u) /\ u.endDate # {} /\ (u.typed \/ filter(u) \in {{}, {picked(u)}})
      BY <1>2, Zenon DEF PickerInv, PickerClosed
    <2> QED
      BY <1>2, <2>1, ClosedKept, Zenon
  <1> QED
    BY <1>1, <1>2

\* The number of clicks does not matter.
LEMMA PickerClicked ==
    ASSUME NEW u, PickerInv(u), does(u) PROVE PickerInv(ui')
  <1> DEFINE v == [u EXCEPT !.clicks = u.clicks + 1]
  <1>1. ui' = v
    BY Zenon DEF does
  <1>2. PickerFields \subseteq DOMAIN u /\ PageInv(u)
    BY Zenon DEF PickerInv, PickerSane, PickerBase
  <1>3. Frame(u, v) /\ Alike(u, v)
    BY <1>2, Zenon DEF PickerFields, Frame, Alike, SameDates, SameMonths, SameFields
  <1> HIDE DEF v
  <1>4. PageInv(v) /\ filter(v) = filter(u) /\ v.isShowing = u.isShowing /\ v.typed = u.typed
    BY <1>2, <1>3, PageFramed, Zenon DEF Frame
  <1>5. PickerInv(v)
    BY <1>3, <1>4, PickerAlike, Zenon
  <1> QED
    BY <1>1, <1>5, Zenon

\* The dates of the time when the picker was opened.
LEMMA Reverted ==
    ASSUME NEW u, PickerBase(u), PageInv(u)
    PROVE  LET v == [u EXCEPT !.startDate = u.oldStartDate, !.endDate = u.oldEndDate]
           IN PickerSane(v) /\ PageInv(v) /\ v.endDate # {}
  <1> DEFINE v == [u EXCEPT !.startDate = u.oldStartDate, !.endDate = u.oldEndDate]
  <1>1. PickerFields \subseteq DOMAIN u
    BY Zenon DEF PickerBase
  <1>2. /\ Frame(u, v) /\ v.startDate = u.oldStartDate /\ v.endDate = u.oldEndDate
        /\ SameMonths(u, v) /\ SameFields(u, v) /\ v.rightHour = u.rightHour
    BY <1>1, Zenon DEF PickerFields, Frame, SameMonths, SameFields
  <1> HIDE DEF v
  <1>3. /\ v.startDate \in Moment(v.soiled) /\ v.endDate \subseteq Moment(v.soiled) /\ v.endDate # {}
        /\ StartWithin(v.opt, v.fromPreset, v.startDate)
        /\ EndsWithin(v.opt, v.fromPreset, v.startDate, v.endDate)
    BY <1>2, Zenon DEF PickerBase, Frame
  <1>4. /\ v.rightHour \subseteq Nat
        /\ v.startField \subseteq Moment(TRUE) /\ v.endField \subseteq Moment(TRUE)
        /\ MonthsFine(v)
    BY <1>2, MonthsStay, Zenon DEF PickerBase, SameFields, Frame
  <1>5. PickerBase(v)
    BY <1>2, <1>3, <1>4, BaseKept, Zenon
  <1>6. PickerSane(v) /\ PageInv(v)
    BY <1>2, <1>3, <1>5, PageFramed, Zenon DEF PickerSane
  <1> QED
    BY <1>3, <1>6, Zenon DEF v

\* A picker that closes has a whole range: the one it has, or the one it was opened with.
LEMMA RevertedWhole ==
    ASSUME NEW u, PickerSane(u), PageInv(u)
    PROVE  PickerSane(reverted(u)) /\ PageInv(reverted(u)) /\ reverted(u).endDate # {}
  <1>1. CASE u.endDate # {}
    BY <1>1, Zenon DEF reverted
  <1>2. CASE u.endDate = {}
    <2>1. reverted(u) = [u EXCEPT !.startDate = u.oldStartDate, !.endDate = u.oldEndDate]
      BY <1>2, Zenon DEF reverted
    <2> QED
      BY <2>1, Reverted, Zenon DEF PickerSane
  <1> QED
    BY <1>1, <1>2

\* What the handler for "hide" takes over.
LEMMA Taken ==
    ASSUME NEW u, PickerFields \subseteq DOMAIN u, NEW x
    PROVE  LET v == onHide(u, x)
           IN /\ Alike(u, v) /\ v.opt = u.opt /\ v.soiled = u.soiled /\ v.isShowing = u.isShowing
              /\ v.orphan = u.orphan /\ v.text = u.text
              /\ v.searchStringDate \subseteq u.searchStringDate \cup {x}
              /\ v.period \subseteq u.period \cup {x} /\ filter(v) \in {{}, {x}}
  <1> DEFINE taken == IF u.searchStringDate = {} THEN {} ELSE {x}
             v == onHide(u, x)
  <1>1. v = IF u.opt.given THEN [u EXCEPT !.period = taken] ELSE [u EXCEPT !.searchStringDate = taken]
    BY Zenon DEF onHide
  <1>2. taken \in {{}, {x}} /\ taken \subseteq {x}
    BY Zenon
  <1> HIDE DEF taken, v
  <1>3. CASE u.opt.given
    <2>1. v = [u EXCEPT !.period = taken]
      BY <1>1, <1>3, Zenon
    <2>2. /\ Alike(u, v) /\ v.opt = u.opt /\ v.soiled = u.soiled /\ v.isShowing = u.isShowing
          /\ v.orphan = u.orphan /\ v.text = u.text
          /\ v.searchStringDate = u.searchStringDate /\ v.period = taken
      BY <2>1, Zenon DEF PickerFields, Alike, SameDates, SameMonths, SameFields
    <2>3. filter(v) = taken
      BY <1>3, <2>2, Zenon DEF filter
    <2> QED
      BY <1>2, <2>2, <2>3, Zenon DEF v
  <1>4. CASE ~u.opt.given
    <2>1. v = [u EXCEPT !.searchStringDate = taken]
      BY <1>1, <1>4, Zenon
    <2>2. /\ Alike(u, v) /\ v.opt = u.opt /\ v.soiled = u.soiled /\ v.isShowing = u.isShowing
          /\ v.orphan = u.orphan /\ v.text = u.text
          /\ v.searchStringDate = taken /\ v.period = u.period
      BY <2>1, Zenon DEF PickerFields, Alike, SameDates, SameMonths, SameFields
    <2>3. filter(v) = taken
      BY <1>4, <2>2, Zenon DEF filter
    <2> QED
      BY <1>2, <2>2, <2>3, Zenon DEF v
  <1> QED
    BY <1>3, <1>4

\* hide: the range is complete, as before or as when the picker was opened.
LEMMA HiddenWhole ==
    ASSUME NEW w, PickerSane(w), PageInv(w), w.endDate # {}
    PROVE  LET v == closed(onHide(w, picked(w))) IN PickerInv(v) /\ v.isShowing = FALSE
  <1> DEFINE x == picked(w)
             h == onHide(w, x)
             v == [h EXCEPT !.isShowing = FALSE, !.focus = "none", !.typed = FALSE,
                            !.orphan = {}, !.listening = FALSE]
  <1>1. closed(onHide(w, picked(w))) = v
    BY Zenon DEF closed
  <1>2. PickerFields \subseteq DOMAIN w /\ Sorted(w.soiled, x)
    BY PickedSorted, Zenon DEF PickerSane, PickerBase
  <1> HIDE DEF x
  <1>3. /\ Alike(w, h) /\ h.opt = w.opt /\ h.soiled = w.soiled /\ h.text = w.text
        /\ h.searchStringDate \subseteq w.searchStringDate \cup {x}
        /\ h.period \subseteq w.period \cup {x} /\ filter(h) \in {{}, {x}}
    BY <1>2, Taken, Zenon
  <1> HIDE DEF h
  <1>4. /\ Alike(h, v) /\ v.isShowing = FALSE /\ v.opt = h.opt /\ v.soiled = h.soiled /\ v.text = h.text
        /\ v.searchStringDate = h.searchStringDate /\ v.period = h.period /\ v.orphan = {}
    BY <1>3, Zenon DEF PickerFields, Alike, SameDates, SameMonths, SameFields
  <1> HIDE DEF v
  <1>5. PageInv(v)
    <2>1. /\ v.text \cup v.searchStringDate \subseteq w.text \cup w.searchStringDate \cup {x}
          /\ v.period \cup v.orphan \subseteq w.period \cup w.orphan \cup {x}
      BY <1>3, <1>4, Zenon
    <2>2. v.opt = w.opt /\ v.soiled = w.soiled
      BY <1>3, <1>4, Zenon
    <2> QED
      BY <1>2, <2>1, <2>2, PageTakes, Zenon
  <1>6. PickerSane(h) /\ h.endDate # {} /\ picked(h) = x
    BY <1>3, AlikeSane, SamePicked, Zenon DEF Alike, SameDates, x
  <1>7. filter(v) \in {{}, {picked(h)}}
    BY <1>3, <1>4, <1>6, Zenon DEF filter
  <1>8. PickerInv(v)
    BY <1>4, <1>5, <1>6, <1>7, ClosedKept, Zenon
  <1> QED
    BY <1>1, <1>4, <1>8, Zenon

\* hide leaves a closed picker with a whole range.
LEMMA PickerHidden ==
    ASSUME NEW u, PickerSane(u), PageInv(u) PROVE PickerInv(hide(u)) /\ hide(u).isShowing = FALSE
  <1>1. PickerSane(reverted(u)) /\ PageInv(reverted(u)) /\ reverted(u).endDate # {}
    BY RevertedWhole, Zenon
  <1>2. hide(u) = closed(onHide(reverted(u), picked(reverted(u))))
    BY Zenon DEF hide
  <1> QED
    BY <1>1, <1>2, HiddenWhole, Zenon

\* clickApply.
LEMMA PickerApplied ==
    ASSUME NEW u, PickerSane(u), PageInv(u), u.isShowing PROVE PickerInv(clickApply(u))
  <1> DEFINE w == hide(u)
             x == picked(w)
             p == IF w.opt.given THEN {x} ELSE w.period
             v == [w EXCEPT !.text = {x}, !.searchStringDate = {x}, !.period = p]
  <1>1. clickApply(u) = v
    BY DEF clickApply, onApply
  <1>2. PickerInv(w) /\ w.isShowing = FALSE
    BY PickerHidden, Zenon
  <1> HIDE DEF w
  <1>3. PickerFields \subseteq DOMAIN w /\ PickerSane(w) /\ PageInv(w) /\ w.endDate # {}
    BY <1>2, Zenon DEF PickerInv, PickerSane, PickerBase, PickerClosed
  <1>4. Sorted(w.soiled, x)
    BY <1>3, PickedSorted, Zenon
  <1>5. (w.opt.given => p = {x}) /\ p \subseteq w.period \cup {x}
    BY Zenon
  <1> HIDE DEF x, p
  <1>6. /\ Alike(w, v) /\ v.isShowing = FALSE /\ v.opt = w.opt /\ v.soiled = w.soiled /\ v.text = {x}
        /\ v.searchStringDate = {x} /\ v.period = p /\ v.orphan = w.orphan
    BY <1>2, <1>3, Zenon DEF PickerFields, Alike, SameDates, SameMonths, SameFields
  <1> HIDE DEF v
  <1>7. PageInv(v)
    <2>1. /\ v.text \cup v.searchStringDate \subseteq w.text \cup w.searchStringDate \cup {x}
          /\ v.period \cup v.orphan \subseteq w.period \cup w.orphan \cup {x}
      BY <1>5, <1>6, Zenon
    <2> QED
      BY <1>3, <1>4, <1>6, <2>1, PageTakes, Zenon
  <1>8. filter(v) = {picked(w)}
    BY <1>5, <1>6, Zenon DEF filter, x
  <1>9. PickerInv(v)
    BY <1>3, <1>6, <1>7, <1>8, ClosedKept, Zenon
  <1> QED
    BY <1>1, <1>9, Zenon

\* clickCancel.
LEMMA PickerCancelled ==
    ASSUME NEW u, PickerSane(u), PageInv(u) PROVE PickerInv(clickCancel(u))
  <1> DEFINE r == [u EXCEPT !.startDate = u.oldStartDate, !.endDate = u.oldEndDate]
             w == hide(r)
             v == [w EXCEPT !.text = {}, !.searchStringDate = {}, !.period = {}]
  <1>1. clickCancel(u) = v
    BY Zenon DEF clickCancel, onCancel
  <1>2. PickerSane(r) /\ PageInv(r)
    BY Reverted, Zenon DEF PickerSane
  <1> HIDE DEF r
  <1>3. PickerInv(w) /\ w.isShowing = FALSE
    BY <1>2, PickerHidden, Zenon
  <1> HIDE DEF w
  <1>4. PickerFields \subseteq DOMAIN w /\ PickerSane(w) /\ PageInv(w) /\ w.endDate # {}
    BY <1>3, Zenon DEF PickerInv, PickerSane, PickerBase, PickerClosed
  <1>5. /\ Alike(w, v) /\ v.isShowing = FALSE /\ v.opt = w.opt /\ v.soiled = w.soiled /\ v.text = {}
        /\ v.searchStringDate = {} /\ v.period = {} /\ v.orphan = w.orphan
    BY <1>3, <1>4, Zenon DEF PickerFields, Alike, SameDates, SameMonths, SameFields
  <1> HIDE DEF v
  <1>6. PageInv(v)
    BY <1>4, <1>5, Zenon DEF PageInv
  <1>7. filter(v) = {}
    BY <1>5, Zenon DEF filter
  <1>8. PickerInv(v)
    BY <1>4, <1>5, <1>6, <1>7, ClosedKept, Zenon
  <1> QED
    BY <1>1, <1>8, Zenon

\* The picker shows, with a whole range.
LEMMA PickerOpened ==
    ASSUME NEW p, PickerSane(p), PageInv(p), p.endDate # {} PROVE PickerInv(opened(p))
  <1> DEFINE u == [p EXCEPT !.oldStartDate = p.startDate, !.oldEndDate = p.endDate]
             w == updateView(u)
             v == [w EXCEPT !.isShowing = TRUE, !.listening = TRUE]
  <1>1. opened(p) = v
    BY Zenon DEF opened
  <1>2. PickerFields \subseteq DOMAIN p /\ PickerBase(p)
    BY Zenon DEF PickerSane, PickerBase
  <1>3. /\ PickerFields \subseteq DOMAIN u /\ u.opt = p.opt /\ u.ranges = p.ranges
        /\ u.fromPreset = p.fromPreset /\ u.oldStartDate = p.startDate /\ u.oldEndDate = p.endDate
        /\ SameDates(p, u) /\ SameMonths(p, u) /\ SameFields(p, u) /\ u.rightHour = p.rightHour
        /\ u.soiled = p.soiled /\ u.text = p.text /\ u.searchStringDate = p.searchStringDate
        /\ u.period = p.period /\ u.orphan = p.orphan
    BY <1>2, Zenon DEF PickerFields, SameDates, SameMonths, SameFields
  <1> HIDE DEF u
  <1>4. MonthsFine(u)
    BY <1>2, <1>3, Zenon DEF PickerBase, MonthsFine, SameMonths, LinkedMonths, NoMonths
  <1>5. PickerBase(u)
    BY <1>2, <1>3, <1>4, Zenon DEF PickerSane, PickerBase, SameDates, SameFields
  <1>6. PickerSane(u) /\ u.endDate # {} /\ PageInv(u)
    BY <1>3, <1>5, Zenon DEF PickerSane, SameDates, PageInv
  <1>7. /\ Redrawn(u, w) /\ (u.opt.linkedCalendars => LinkedMonths(w))
        /\ u.opt.timePicker /\ u.endDate # {} => w.rightHour # {}
    BY <1>5, ViewRedrawn, Zenon
  <1> HIDE DEF w
  <1>8. PickerBase(w) /\ Frame(u, w) /\ SameDates(u, w)
    BY <1>7, Zenon DEF Redrawn, Stepped
  <1>9. PickerSane(w) /\ PickerFields \subseteq DOMAIN w /\ PageInv(w)
    BY <1>6, <1>8, PageFramed, Zenon DEF PickerSane, Frame, SameDates
  <1>10. PickerOpen(w)
    BY <1>6, <1>7, <1>8, Zenon DEF PickerOpen, Frame
  <1>11. /\ Alike(w, v) /\ v.isShowing = TRUE /\ v.opt = w.opt /\ v.soiled = w.soiled /\ v.text = w.text
         /\ v.searchStringDate = w.searchStringDate /\ v.period = w.period /\ v.orphan = w.orphan
    BY <1>9, Zenon DEF PickerFields, Alike, SameDates, SameMonths, SameFields
  <1> HIDE DEF v
  <1>12. PageInv(v)
    BY <1>9, <1>11, Zenon DEF PageInv
  <1>13. PickerInv(v)
    BY <1>9, <1>10, <1>11, <1>12, OpenKept, Zenon
  <1> QED
    BY <1>1, <1>13, Zenon

-----------------------------------------------------------------------------
(* The actions *)

\* A click into the field opens the picker.
LEMMA PickerShown == ASSUME PickerInv(ui), show PROVE PickerInv(ui')
  <1>1. ~ui.isShowing /\ does(opened(ui))
    BY Zenon DEF show
  <1>2. PickerSane(ui) /\ PageInv(ui) /\ ui.endDate # {}
    BY <1>1, Zenon DEF PickerInv, PickerClosed
  <1> QED
    BY <1>1, <1>2, PickerOpened, PickerClicked, Zenon

\* The picker closes.
LEMMA PickerLeft ==
    ASSUME PickerInv(ui), outsideClick \/ keydown \/ apply \/ cancel PROVE PickerInv(ui')
  <1>1. PickerSane(ui) /\ PageInv(ui)
    BY Zenon DEF PickerInv
  <1>2. CASE outsideClick \/ keydown
    <2>1. does(hide(ui))
      BY <1>2, Zenon DEF outsideClick, keydown, inPicker
    <2>2. PickerInv(hide(ui))
      BY <1>1, PickerHidden, Zenon
    <2> QED
      BY <2>1, <2>2, PickerClicked, Zenon
  <1>3. CASE apply
    <2>1. does(clickApply(ui)) /\ ui.isShowing
      BY <1>3, Zenon DEF apply, inPicker
    <2>2. PickerInv(clickApply(ui))
      BY <1>1, <2>1, PickerApplied, Zenon
    <2> QED
      BY <2>1, <2>2, PickerClicked, Zenon
  <1>4. CASE cancel
    <2>1. does(clickCancel(ui))
      BY <1>4, Zenon DEF cancel, inPicker
    <2>2. PickerInv(clickCancel(ui))
      BY <1>1, PickerCancelled, Zenon
    <2> QED
      BY <2>1, <2>2, PickerClicked, Zenon
  <1> QED
    BY <1>2, <1>3, <1>4

\* A replaced picker reports its range while the new one shows.
LEMMA PickerOrphan == ASSUME PickerInv(ui), orphanHides PROVE PickerInv(ui')
  <1> DEFINE x == value(ui.orphan)
             h == onHide(ui, x)
             v == [h EXCEPT !.orphan = {}, !.listening = FALSE]
  <1>1. ui.orphan # {} /\ ui.isShowing /\ does(v)
    BY Zenon DEF orphanHides, inPicker
  <1>2. PickerSane(ui) /\ PageInv(ui) /\ PickerOpen(ui) /\ PickerFields \subseteq DOMAIN ui
    BY <1>1, Zenon DEF PickerInv, PickerSane, PickerBase
  <1>3. Sorted(ui.soiled, x)
    BY <1>1, <1>2, ValueOf, Zenon DEF PageInv
  <1> HIDE DEF x
  <1>4. /\ Alike(ui, h) /\ h.opt = ui.opt /\ h.soiled = ui.soiled /\ h.isShowing = ui.isShowing
        /\ h.text = ui.text /\ h.orphan = ui.orphan
        /\ h.searchStringDate \subseteq ui.searchStringDate \cup {x}
        /\ h.period \subseteq ui.period \cup {x}
    BY <1>2, Taken, Zenon
  <1> HIDE DEF h
  <1>5. PageInv(h)
    <2>1. /\ h.text \cup h.searchStringDate \subseteq ui.text \cup ui.searchStringDate \cup {x}
          /\ h.period \cup h.orphan \subseteq ui.period \cup ui.orphan \cup {x}
      BY <1>4, Zenon
    <2> QED
      BY <1>2, <1>3, <1>4, <2>1, PageTakes, Zenon
  <1>6. PickerInv(h)
    BY <1>1, <1>2, <1>4, <1>5, OpenKept, Zenon
  <1>7. PickerFields \subseteq DOMAIN h
    BY <1>4, Zenon DEF Alike
  <1>8. /\ Alike(h, v) /\ v.isShowing = h.isShowing /\ v.opt = h.opt /\ v.soiled = h.soiled
        /\ v.text = h.text /\ v.searchStringDate = h.searchStringDate /\ v.period = h.period /\ v.orphan = {}
    BY <1>7, Zenon DEF PickerFields, Alike, SameDates, SameMonths, SameFields
  <1> HIDE DEF v
  <1>9. PageInv(v)
    BY <1>5, <1>8, Zenon DEF PageInv
  <1>10. PickerInv(v)
    BY <1>1, <1>4, <1>6, <1>8, <1>9, PickerAlike, Zenon
  <1> QED
    BY <1>1, <1>10, PickerClicked, Zenon

\* The page is drawn again, or learns its format.
LEMMA PickerPage == ASSUME PickerInv(ui), rerender \/ patternArrives PROVE PickerInv(ui')
  <1>1. PageInv(ui) /\ PickerFields \subseteq DOMAIN ui
    BY Zenon DEF PickerInv, PickerSane, PickerBase
  <1>2. CASE rerender
    <2> DEFINE v == [ui EXCEPT !.text = ui.searchStringDate]
    <2>1. ui' = v
      BY <1>2, Zenon DEF rerender
    <2>2. /\ Alike(ui, v) /\ v.isShowing = ui.isShowing /\ v.typed = ui.typed /\ v.opt = ui.opt
          /\ v.soiled = ui.soiled /\ v.text = ui.searchStringDate
          /\ v.searchStringDate = ui.searchStringDate /\ v.period = ui.period /\ v.orphan = ui.orphan
      BY <1>1, Zenon DEF PickerFields, Alike, SameDates, SameMonths, SameFields
    <2> HIDE DEF v
    <2>3. PageInv(v) /\ filter(v) = filter(ui)
      BY <1>1, <2>2, Zenon DEF PageInv, filter
    <2>4. PickerInv(v)
      BY <2>2, <2>3, PickerAlike, Zenon
    <2> QED
      BY <2>1, <2>4, Zenon
  <1>3. CASE patternArrives
    <2>1. PICK pattern \in Patterns : ui' = [ui EXCEPT !.pattern = pattern]
      BY <1>3, Zenon DEF patternArrives
    <2> DEFINE v == [ui EXCEPT !.pattern = pattern]
    <2>2. Alike(ui, v) /\ Frame(ui, v)
      BY <1>1, Zenon DEF PickerFields, Frame, Alike, SameDates, SameMonths, SameFields
    <2> HIDE DEF v
    <2>3. PageInv(v) /\ filter(v) = filter(ui) /\ v.isShowing = ui.isShowing /\ v.typed = ui.typed
      BY <1>1, <2>2, PageFramed, Zenon DEF Frame
    <2>4. PickerInv(v)
      BY <2>2, <2>3, PickerAlike, Zenon
    <2> QED
      BY <2>1, <2>4, Zenon DEF v
  <1> QED
    BY <1>2, <1>3

\* The calendars turned, and drawn again.
LEMMA PickerTurned ==
    ASSUME PickerInv(ui), NEW v, NEW m \in MonthOf(ui.soiled), NEW n \in MonthOf(ui.soiled),
           Moved(ui, v, m, n), inPicker(updateCalendars(v)), ui.opt.linkedCalendars => n = following(m)
    PROVE  PickerInv(ui')
  <1>1. PickerBase(ui)
    BY Zenon DEF PickerInv, PickerSane
  <1>2. /\ Frame(ui, v) /\ SameDates(ui, v) /\ v.rightHour \subseteq Nat
        /\ ui.rightHour # {} => v.rightHour # {}
    BY <1>1, Zenon DEF Moved, PickerBase
  <1>3. v.startField \subseteq Moment(TRUE) /\ v.endField \subseteq Moment(TRUE)
    BY <1>1, Zenon DEF Moved, PickerBase, SameFields
  <1>4. InRow(v)
    BY Zenon DEF Moved, LinkedMonths, InRow, Frame
  <1>5. Redrawn(ui, v)
    BY <1>1, <1>2, <1>3, <1>4, RedrawnIf, Zenon
  <1>6. PickerInv(v)
    BY <1>5, PickerRedrawn, Zenon
  <1>7. PickerBase(v)
    BY <1>6, Zenon DEF PickerInv, PickerSane
  <1>8. Redrawn(v, updateCalendars(v))
    BY <1>7, CalendarsRedrawn, Zenon
  <1>9. PickerInv(updateCalendars(v))
    BY <1>6, <1>8, PickerRedrawn, Zenon
  <1>10. does(updateCalendars(v))
    BY Zenon DEF inPicker
  <1> QED
    BY <1>9, <1>10, PickerClicked, Zenon

\* The two calendars.
LEMMA TwoSides == "left" # "right"
  OBVIOUS

\* One month on or back leaves months in a row so.
LEMMA MonthBeside ==
    ASSUME NEW b, NEW m \in MonthOf(b)
    PROVE  /\ plus(m, 1) \in MonthOf(b) /\ plus(following(m), 1) = following(plus(m, 1))
           /\ m \in {Invalid} \cup Nat =>
                plus(m, -1) \in MonthOf(b) /\ plus(following(m), -1) = following(plus(m, -1))
  <1>1. CASE b
    BY <1>1 DEF MonthOf, following, plus, Invalid, NoMonth
  <1>2. CASE ~b
    BY <1>2 DEF MonthOf, following, plus, Invalid, NoMonth
  <1> QED
    BY <1>1, <1>2

\* The months that the calendars show.
LEMMA MonthsShown ==
    ASSUME PickerInv(ui), ui.isShowing
    PROVE  /\ PickerFields \subseteq DOMAIN ui
           /\ ui.leftMonth \in MonthOf(ui.soiled) /\ ui.rightMonth \in MonthOf(ui.soiled)
           /\ ui.opt.linkedCalendars => ui.rightMonth = following(ui.leftMonth)
  BY Zenon DEF PickerInv, PickerSane, PickerBase, MonthsFine, PickerOpen, LinkedMonths

\* The arrow to the month before.
LEMMA PickerPrev ==
    ASSUME PickerInv(ui), NEW side \in Side, clickPrev(side) PROVE PickerInv(ui')
  <1>1. ui.isShowing /\ (ui.opt.linkedCalendars => side = "left")
    BY Zenon DEF clickPrev, inPicker, offersPrev
  <1>2. /\ PickerFields \subseteq DOMAIN ui
        /\ ui.leftMonth \in MonthOf(ui.soiled) /\ ui.rightMonth \in MonthOf(ui.soiled)
        /\ ui.opt.linkedCalendars => ui.rightMonth = following(ui.leftMonth)
    BY <1>1, MonthsShown, Zenon
  <1>3. monthOf(ui, side) \in {Invalid} \cup Nat
    <2>1. 1..Months \subseteq Nat
      BY CalendarBounds
    <2> QED
      BY <2>1, Zenon DEF clickPrev
  <1>4. CASE side = "right"
    <2> DEFINE n == plus(ui.rightMonth, -1)
               v == [ui EXCEPT !.rightMonth = n]
    <2>1. inPicker(updateCalendars(v))
      BY <1>4, Zenon DEF clickPrev
    <2>2. n \in MonthOf(ui.soiled)
      BY <1>2, <1>3, <1>4, MonthBeside, TwoSides, Zenon DEF monthOf
    <2> HIDE DEF n
    <2>3. Moved(ui, v, ui.leftMonth, n)
      BY <1>2, Zenon DEF PickerFields, Frame, SameDates, SameFields, Moved
    <2> HIDE DEF v
    <2>4. ~ui.opt.linkedCalendars
      BY <1>1, <1>4, TwoSides, Zenon
    <2> QED
      BY <1>2, <2>1, <2>2, <2>3, <2>4, PickerTurned, Zenon
  <1>5. CASE side # "right"
    <2> DEFINE m == plus(ui.leftMonth, -1)
               n == IF ui.opt.linkedCalendars THEN plus(ui.rightMonth, -1) ELSE ui.rightMonth
               v == [ui EXCEPT !.leftMonth = m, !.rightMonth = n]
    <2>1. inPicker(updateCalendars(v))
      BY <1>5, Zenon DEF clickPrev
    <2>2. side = "left"
      BY <1>5, Zenon DEF Side
    <2>3. m \in MonthOf(ui.soiled) /\ plus(following(ui.leftMonth), -1) = following(m)
      BY <1>2, <1>3, <2>2, MonthBeside, Zenon DEF monthOf
    <2>4. ui.opt.linkedCalendars => n = following(m)
      BY <1>2, <2>3, Zenon
    <2>5. n \in MonthOf(ui.soiled)
      BY <1>2, <2>3, <2>4, FollowingMonth, Zenon
    <2> HIDE DEF m, n
    <2>6. Moved(ui, v, m, n)
      BY <1>2, MonthsMoved, Zenon
    <2> HIDE DEF v
    <2> QED
      BY <2>1, <2>3, <2>4, <2>5, <2>6, PickerTurned, Zenon
  <1> QED
    BY <1>4, <1>5

\* The arrow to the month after.
LEMMA PickerNext ==
    ASSUME PickerInv(ui), NEW side \in Side, clickNext(side) PROVE PickerInv(ui')
  <1>1. ui.isShowing /\ (ui.opt.linkedCalendars => side = "right")
    BY Zenon DEF clickNext, inPicker, offersNext
  <1>2. /\ PickerFields \subseteq DOMAIN ui
        /\ ui.leftMonth \in MonthOf(ui.soiled) /\ ui.rightMonth \in MonthOf(ui.soiled)
        /\ ui.opt.linkedCalendars => ui.rightMonth = following(ui.leftMonth)
    BY <1>1, MonthsShown, Zenon
  <1>3. /\ plus(ui.leftMonth, 1) \in MonthOf(ui.soiled) /\ plus(ui.rightMonth, 1) \in MonthOf(ui.soiled)
        /\ plus(following(ui.leftMonth), 1) = following(plus(ui.leftMonth, 1))
    BY <1>2, MonthBeside, Zenon
  <1>4. CASE side = "left"
    <2> DEFINE m == plus(ui.leftMonth, 1)
               v == [ui EXCEPT !.leftMonth = m]
    <2>1. inPicker(updateCalendars(v)) /\ m \in MonthOf(ui.soiled)
      BY <1>3, <1>4, Zenon DEF clickNext
    <2> HIDE DEF m
    <2>2. Moved(ui, v, m, ui.rightMonth)
      BY <1>2, Zenon DEF PickerFields, Frame, SameDates, SameFields, Moved
    <2> HIDE DEF v
    <2>3. ~ui.opt.linkedCalendars
      BY <1>1, <1>4, TwoSides, Zenon
    <2> QED
      BY <1>2, <2>1, <2>2, <2>3, PickerTurned, Zenon
  <1>5. CASE side # "left"
    <2> DEFINE n == plus(ui.rightMonth, 1)
               m == IF ui.opt.linkedCalendars THEN plus(ui.leftMonth, 1) ELSE ui.leftMonth
               v == [ui EXCEPT !.rightMonth = n, !.leftMonth = m]
    <2>1. inPicker(updateCalendars(v))
      BY <1>5, Zenon DEF clickNext
    <2>2. /\ m \in MonthOf(ui.soiled) /\ n \in MonthOf(ui.soiled)
          /\ ui.opt.linkedCalendars => n = following(m)
      BY <1>2, <1>3, Zenon
    <2> HIDE DEF m, n
    <2>3. Moved(ui, v, m, n)
      BY <1>2, Zenon DEF PickerFields, Frame, SameDates, SameFields, Moved
    <2> HIDE DEF v
    <2> QED
      BY <2>1, <2>2, <2>3, PickerTurned, Zenon
  <1> QED
    BY <1>4, <1>5

\* The menus of month and year.
LEMMA PickerMonthChosen ==
    ASSUME PickerInv(ui), NEW side \in Side, NEW m \in 0..(Months - 1), monthOrYearChanged(side, m)
    PROVE  PickerInv(ui')
  <1> DEFINE late == IF side = "right" THEN greater(m, month(ui.startDate)) ELSE m
             within == IF ui.opt.limited THEN lesser(greater(late, month(MinDate)), month(MaxDate))
                       ELSE late
             asked == IF monthOf(ui, side) = Invalid THEN Invalid ELSE within
             k == IF side = "left" THEN asked ELSE plus(asked, -1)
             v == IF ui.opt.linkedCalendars THEN nextTo(ui, k)
                  ELSE IF side = "left" THEN [ui EXCEPT !.leftMonth = asked]
                  ELSE [ui EXCEPT !.rightMonth = asked]
  <1>1. inPicker(updateCalendars(v))
    BY Zenon DEF monthOrYearChanged
  <1>2. /\ PickerFields \subseteq DOMAIN ui
        /\ ui.leftMonth \in MonthOf(ui.soiled) /\ ui.rightMonth \in MonthOf(ui.soiled)
    BY <1>1, MonthsShown, Zenon DEF inPicker
  <1>3. m \in Nat
    BY CalendarBounds
  <1>4. /\ month(ui.startDate) \in Moment(ui.soiled) /\ m \in Moment(ui.soiled)
        /\ month(MinDate) \in Moment(ui.soiled) /\ month(MaxDate) \in Moment(ui.soiled)
    <2>1. ui.startDate \in Moment(ui.soiled)
      BY Zenon DEF PickerInv, PickerSane, PickerBase
    <2>2. MinDate \in Moment(ui.soiled) /\ MaxDate \in Moment(ui.soiled)
      BY CalendarBounds, Moments, Zenon
    <2> QED
      BY <1>3, <2>1, <2>2, MomentParts, Moments, Zenon
  <1>5. late \in Moment(ui.soiled)
    BY <1>4, LesserGreater, Zenon
  <1> HIDE DEF late
  <1>6. within \in Moment(ui.soiled)
    <2>1. greater(late, month(MinDate)) \in Moment(ui.soiled)
      BY <1>4, <1>5, LesserGreater, Zenon
    <2>2. lesser(greater(late, month(MinDate)), month(MaxDate)) \in Moment(ui.soiled)
      BY <1>4, <2>1, LesserGreater, Zenon
    <2> QED
      BY <1>5, <2>2, Zenon
  <1> HIDE DEF within
  <1>7. asked \in Moment(ui.soiled)
    <2>1. monthOf(ui, side) \in MonthOf(ui.soiled)
      BY <1>2, Zenon DEF monthOf
    <2>2. Invalid \in MonthOf(ui.soiled) => ui.soiled
      BY DEF MonthOf, Invalid, NoMonth
    <2> QED
      BY <1>6, <2>1, <2>2, Moments, Zenon
  <1> HIDE DEF asked
  <1>8. asked \in MonthOf(ui.soiled) /\ k \in MonthOf(ui.soiled)
    BY <1>7, MonthShown, Zenon
  <1> HIDE DEF k
  <1>9. CASE ui.opt.linkedCalendars
    <2>1. v = [ui EXCEPT !.leftMonth = k, !.rightMonth = following(k)]
      BY <1>9, Zenon DEF nextTo
    <2> HIDE DEF v
    <2>2. Moved(ui, v, k, following(k)) /\ following(k) \in MonthOf(ui.soiled)
      BY <1>2, <1>8, <2>1, MonthsMoved, FollowingMonth, Zenon
    <2> QED
      BY <1>1, <1>8, <2>2, PickerTurned, Zenon
  <1>10. CASE ~ui.opt.linkedCalendars /\ side = "left"
    <2>1. v = [ui EXCEPT !.leftMonth = asked]
      BY <1>10, Zenon
    <2> HIDE DEF v
    <2>2. Moved(ui, v, asked, ui.rightMonth)
      BY <1>2, <2>1, Zenon DEF PickerFields, Frame, SameDates, SameFields, Moved
    <2> QED
      BY <1>1, <1>2, <1>8, <1>10, <2>2, PickerTurned, Zenon
  <1>11. CASE ~ui.opt.linkedCalendars /\ side # "left"
    <2>1. v = [ui EXCEPT !.rightMonth = asked]
      BY <1>11, Zenon
    <2> HIDE DEF v
    <2>2. Moved(ui, v, ui.leftMonth, asked)
      BY <1>2, <2>1, Zenon DEF PickerFields, Frame, SameDates, SameFields, Moved
    <2> QED
      BY <1>1, <1>2, <1>8, <1>11, <2>2, PickerTurned, Zenon
  <1> QED
    BY <1>9, <1>10, <1>11

\* Days and times are numbers.
LEMMA DaysAndTimes == Day \subseteq Nat /\ Time \subseteq Nat
  <1>1. \A k, m \in Nat : k * m \in Nat
    OBVIOUS
  <1>2. \A n \in Nat : 0..(n - 1) \subseteq Nat
    OBVIOUS
  <1>3. Days * Months \in Nat /\ Hours * Days * Months \in Nat
    BY <1>1, CalendarBounds, Zenon
  <1> QED
    BY <1>2, <1>3, Zenon DEF Day, Time

\* A cell without a date is only in a calendar without a month.
LEMMA CellDay ==
    ASSUME PickerInv(ui), ui.isShowing, NEW side, NEW d \in cells(ui, side) PROVE d \in Moment(ui.soiled)
  <1>1. monthOf(ui, side) \in MonthOf(ui.soiled)
    BY MonthsShown, Zenon DEF monthOf
  <1>2. Invalid \in MonthOf(ui.soiled) => ui.soiled
    BY DEF MonthOf, Invalid, NoMonth
  <1>3. d \in Day \/ (d = Invalid /\ monthOf(ui, side) = Invalid)
    BY Zenon DEF cells
  <1> QED
    BY <1>1, <1>2, <1>3, DaysAndTimes, Moments, Zenon

\* Another hour of the same day.
LEMMA HourAt == ASSUME NEW b, NEW t \in Moment(b), NEW h \in Nat PROVE at(day(t), h) \in Moment(b)
  <1>1. day(t) \in Moment(b)
    BY MomentParts, Zenon
  <1> QED
    BY <1>1, MomentAt, Zenon

\* A day of a calendar stands for a moment.
LEMMA CellTime ==
    ASSUME NEW u, PickerBase(u), u.opt.timePicker => u.rightHour # {}, NEW side, NEW d \in Moment(u.soiled)
    PROVE  cell(u, side, d) \in Moment(u.soiled)
  <1>1. u.startDate \in Moment(u.soiled) /\ u.rightHour \subseteq Nat
    BY Zenon DEF PickerBase
  <1>2. cellHour(u) \in Nat
    <2>1. 0 \in Nat
      OBVIOUS
    <2>2. hour(u.startDate) \in Nat
      BY <1>1, MomentParts, Zenon
    <2>3. u.opt.timePicker => value(u.rightHour) \in Nat
      BY <1>1, ValueOf, Zenon
    <2> QED
      BY <2>1, <2>2, <2>3, Zenon DEF cellHour
  <1> DEFINE t == at(d, cellHour(u))
             x == greater(t, MinDate)
             y == lesser(t, MaxDate)
  <1>3. t \in Moment(u.soiled)
    BY <1>2, MomentAt, Zenon
  <1>4. cell(u, side, d) = CASE u.opt.limited /\ side = "left" /\ d = day(MinDate) -> x
                             [] u.opt.limited /\ side = "right" /\ d = day(MaxDate) -> y
                             [] OTHER -> t
    BY Zenon DEF cell
  <1> HIDE DEF t
  <1>5. x \in Moment(u.soiled) /\ y \in Moment(u.soiled)
    <2>1. MinDate \in Moment(u.soiled) /\ MaxDate \in Moment(u.soiled)
      BY CalendarBounds, Moments, Zenon
    <2> QED
      BY <1>3, <2>1, LesserGreater, Zenon
  <1> HIDE DEF x, y
  <1> DEFINE p == u.opt.limited /\ side = "left" /\ d = day(MinDate)
             q == u.opt.limited /\ side = "right" /\ d = day(MaxDate)
  <1>6. cell(u, side, d) = CASE p -> x [] q -> y [] OTHER -> t
    BY <1>4, Zenon
  <1>7. ~(p /\ q)
    BY TwoSides, Zenon
  <1> HIDE DEF p, q
  <1>8. cell(u, side, d) \in {x, y, t}
    BY <1>6, <1>7
  <1> QED
    BY <1>3, <1>5, <1>8, Zenon

\* A handler that sets dates in an open picker and draws it again.
LEMMA PickerViewed ==
    ASSUME NEW u, PickerInv(u) PROVE PickerInv(updateView(u))
  <1>1. PickerBase(u)
    BY Zenon DEF PickerInv, PickerSane
  <1>2. Redrawn(u, updateView(u))
    BY <1>1, ViewRedrawn, Zenon
  <1> QED
    BY <1>2, PickerRedrawn, Zenon

\* A start within the limits is one also with a predefined range.
LEMMA StartForAny ==
    ASSUME NEW opt, NEW preset, NEW t, StartWithin(opt, FALSE, t) PROVE StartWithin(opt, preset, t)
  BY Zenon DEF StartWithin

\* So is an end.
LEMMA EndsForAny ==
    ASSUME NEW opt, NEW preset, NEW s, NEW e, EndsWithin(opt, FALSE, s, e) PROVE EndsWithin(opt, preset, s, e)
  BY Zenon DEF EndsWithin

\* Without an end, any start may be set.
LEMMA StartChosen ==
    ASSUME NEW u, PickerInv(u), u.isShowing, NEW w, Stepped(u, w), w.endDate = {},
           NEW t \in Moment(u.soiled)
    PROVE  PickerInv(setStartDate(w, t))
  <1> DEFINE v == setStartDate(w, t)
  <1>1. PickerBase(w) /\ w.opt = u.opt /\ t \in Moment(w.soiled)
    BY Zenon DEF Stepped, Frame
  <1>2. Stepped(w, v) /\ v.endDate = w.endDate /\ StartWithin(w.opt, FALSE, v.startDate)
    BY <1>1, StartDateSet, Zenon
  <1> HIDE DEF v
  <1>3. Stepped(u, v) /\ v.opt = w.opt
    BY <1>2, SteppedTwice, Zenon DEF Stepped, Frame
  <1>4. StartWithin(v.opt, v.fromPreset, v.startDate)
    BY <1>2, <1>3, StartForAny, Zenon
  <1>5. EndsWithin(v.opt, v.fromPreset, v.startDate, v.endDate)
    BY <1>2, Zenon DEF EndsWithin
  <1>6. PickerInv(v)
    BY <1>3, <1>4, <1>5, PickerStepped, Zenon
  <1> QED
    BY <1>6, Zenon DEF v

\* Any end may be set.
LEMMA EndChosen ==
    ASSUME NEW u, PickerInv(u), u.isShowing, NEW t \in Moment(u.soiled)
    PROVE  /\ PickerInv(setEndDate(u, t)) /\ setEndDate(u, t).isShowing
           /\ setEndDate(u, t).endDate # {}
  <1> DEFINE v == setEndDate(u, t)
  <1>1. PickerBase(u) /\ StartWithin(u.opt, u.fromPreset, u.startDate)
    BY Zenon DEF PickerInv, PickerSane
  <1>2. u.opt.limited => ~before(MaxDate, u.startDate)
    BY <1>1, Zenon DEF StartWithin
  <1>3. Stepped(u, v) /\ v.startDate = u.startDate /\ v.endDate # {}
        /\ EndsWithin(u.opt, FALSE, v.startDate, v.endDate)
    BY <1>1, <1>2, EndDateSet, Zenon
  <1> HIDE DEF v
  <1>4. v.opt = u.opt /\ v.fromPreset = u.fromPreset /\ v.isShowing
    BY <1>3, Zenon DEF Stepped, Frame
  <1>5. StartWithin(v.opt, v.fromPreset, v.startDate)
    BY <1>1, <1>3, <1>4, Zenon
  <1>6. EndsWithin(v.opt, v.fromPreset, v.startDate, v.endDate)
    BY <1>3, <1>4, EndsForAny, Zenon
  <1>7. PickerInv(v)
    BY <1>3, <1>5, <1>6, PickerStepped, Zenon
  <1> QED
    BY <1>3, <1>4, <1>7, Zenon DEF v

\* A click at a day.
LEMMA PickerDateClicked ==
    ASSUME PickerInv(ui), NEW side \in Side, NEW d, clickDate(side, d)
    PROVE  PickerInv(ui')
  <1> DEFINE date == cell(ui, side, d)
             hourly(h) == IF ui.opt.timePicker THEN at(day(date), h) ELSE date
             late == hourly(IF ui.opt.timePicker THEN value(ui.rightHour) ELSE 0)
             early == hourly(hour(ui.startDate))
             ended == setEndDate(ui, late)
             cleared == [ui EXCEPT !.endDate = {}]
             first == ui.endDate # {} \/ before(day(date), day(ui.startDate))
             v == IF first THEN setStartDate(cleared, early)
                  ELSE IF before(date, ui.startDate) THEN setEndDate(ui, ui.startDate)
                  ELSE IF ui.opt.autoApply THEN clickApply(calculateChosenLabel(ended)) ELSE ended
  <1>1. inPicker(updateView(v)) /\ d \in cells(ui, side)
    BY Zenon DEF clickDate
  <1>2. ui.isShowing /\ does(updateView(v))
    BY <1>1, Zenon DEF inPicker
  <1>3. PickerBase(ui) /\ ui.startDate \in Moment(ui.soiled) /\ ui.rightHour \subseteq Nat
    BY Zenon DEF PickerInv, PickerSane, PickerBase
  <1>4. ui.opt.timePicker => ui.rightHour # {}
    BY <1>2, Zenon DEF PickerInv, PickerOpen
  <1>5. date \in Moment(ui.soiled)
    <2>1. d \in Moment(ui.soiled)
      BY <1>1, <1>2, CellDay, Zenon
    <2> QED
      BY <1>3, <1>4, <2>1, CellTime, Zenon
  <1> HIDE DEF date
  <1>6. \A h \in Nat : hourly(h) \in Moment(ui.soiled)
    BY <1>5, HourAt, Zenon
  <1>7. early \in Moment(ui.soiled)
    <2>1. hour(ui.startDate) \in Nat
      BY <1>3, MomentParts, Zenon
    <2> QED
      BY <1>6, <2>1, Zenon
  <1>8. late \in Moment(ui.soiled)
    <2>1. 0 \in Nat
      OBVIOUS
    <2>2. ui.opt.timePicker => value(ui.rightHour) \in Nat
      BY <1>3, <1>4, ValueOf, Zenon
    <2>3. (IF ui.opt.timePicker THEN value(ui.rightHour) ELSE 0) \in Nat
      BY <2>1, <2>2, Zenon
    <2> QED
      BY <1>6, <2>3, Zenon
  <1> HIDE DEF hourly, early, late
  <1>9. CASE first
    <2>1. {} \in SUBSET Moment(ui.soiled)
      BY Zenon
    <2>2. Stepped(ui, cleared) /\ cleared.endDate = {}
      BY <1>3, <2>1, EndSet, Zenon
    <2>3. v = setStartDate(cleared, early)
      BY <1>9, Zenon
    <2> HIDE DEF cleared, v
    <2>4. PickerInv(v)
      BY <1>2, <1>7, <2>2, <2>3, StartChosen, Zenon
    <2> QED
      BY <1>2, <2>4, PickerViewed, PickerClicked, Zenon
  <1>10. CASE ~first /\ before(date, ui.startDate)
    <2>1. v = setEndDate(ui, ui.startDate)
      BY <1>10, Zenon
    <2> HIDE DEF v
    <2>2. PickerInv(v)
      BY <1>2, <1>3, <2>1, EndChosen, Zenon
    <2> QED
      BY <1>2, <2>2, PickerViewed, PickerClicked, Zenon
  <1>11. CASE ~first /\ ~before(date, ui.startDate)
    <2>1. PickerInv(ended) /\ ended.isShowing
      BY <1>2, <1>8, EndChosen, Zenon
    <2>2. v = IF ui.opt.autoApply THEN clickApply(calculateChosenLabel(ended)) ELSE ended
      BY <1>11, Zenon
    <2> HIDE DEF ended, v
    <2> DEFINE w == calculateChosenLabel(ended)
    <2>3. PickerBase(ended)
      BY <2>1, Zenon DEF PickerInv, PickerSane
    <2>4. Redrawn(ended, w)
      BY <2>3, LabelRedrawn, Zenon
    <2> HIDE DEF w
    <2>5. PickerInv(w) /\ w.isShowing
      BY <2>1, <2>4, PickerRedrawn, Zenon DEF Redrawn, Stepped, Frame
    <2>6. PickerInv(clickApply(w))
      BY <2>5, PickerApplied, Zenon DEF PickerInv
    <2>7. PickerInv(v)
      BY <2>1, <2>2, <2>6, Zenon DEF w
    <2> QED
      BY <1>2, <2>7, PickerViewed, PickerClicked, Zenon
  <1> QED
    BY <1>9, <1>10, <1>11

\* The pointer over a day or over a predefined range writes into the fields only.
LEMMA PickerWritten ==
    ASSUME PickerInv(ui), NEW v, NEW f \in SUBSET Moment(TRUE), NEW g \in SUBSET Moment(TRUE), Written(ui, v, f, g)
    PROVE  PickerInv(v)
  <1>1. PickerBase(ui)
    BY Zenon DEF PickerInv, PickerSane
  <1>2. Redrawn(ui, v)
    BY <1>1, WrittenRedraws, Zenon
  <1> QED
    BY <1>2, PickerRedrawn, Zenon

\* The pointer over a day.
LEMMA PickerHovered ==
    ASSUME PickerInv(ui), NEW side \in Side, NEW d, hoverDate(side, d) PROVE PickerInv(ui')
  <1> DEFINE date == format(ui, cell(ui, side, d))
  <1>1. \/ inPicker([ui EXCEPT !.startField = {date}])
        \/ inPicker([ui EXCEPT !.endField = {date}])
    BY Zenon DEF hoverDate
  <1> DEFINE f == {date}
  <1>2. /\ PickerBase(ui) /\ PickerFields \subseteq DOMAIN ui
        /\ ui.startField \in SUBSET Moment(TRUE) /\ ui.endField \in SUBSET Moment(TRUE)
    BY Zenon DEF PickerInv, PickerSane, PickerBase
  <1>3. ui.isShowing /\ (ui.opt.timePicker => ui.rightHour # {}) /\ d \in cells(ui, side)
    BY <1>1, Zenon DEF PickerInv, PickerOpen, inPicker, hoverDate
  <1>4. cell(ui, side, d) \in Moment(ui.soiled)
    <2>1. d \in Moment(ui.soiled)
      BY <1>3, CellDay, Zenon
    <2> QED
      BY <1>2, <1>3, <2>1, CellTime, Zenon
  <1>5. f \in SUBSET Moment(TRUE)
    BY <1>4, FieldTime, Zenon
  <1> HIDE DEF date, f
  <1>6. CASE inPicker([ui EXCEPT !.startField = {date}])
    <2> DEFINE v == [ui EXCEPT !.startField = f]
    <2>1. does(v)
      BY <1>6, Zenon DEF inPicker, f
    <2>2. Written(ui, v, f, ui.endField)
      BY <1>2, Zenon DEF PickerFields, Written, Frame, SameDates, SameMonths
    <2> HIDE DEF v
    <2>3. PickerInv(v)
      BY <1>2, <1>5, <2>2, PickerWritten, Zenon
    <2> QED
      BY <2>1, <2>3, PickerClicked, Zenon
  <1>7. CASE inPicker([ui EXCEPT !.endField = {date}])
    <2> DEFINE v == [ui EXCEPT !.endField = f]
    <2>1. does(v)
      BY <1>7, Zenon DEF inPicker, f
    <2>2. Written(ui, v, ui.startField, f)
      BY <1>2, Zenon DEF PickerFields, Written, Frame, SameDates, SameMonths
    <2> HIDE DEF v
    <2>3. PickerInv(v)
      BY <1>2, <1>5, <2>2, PickerWritten, Zenon
    <2> QED
      BY <2>1, <2>3, PickerClicked, Zenon
  <1> QED
    BY <1>1, <1>6, <1>7

\* The pointer leaves it.
LEMMA PickerMouseLeft == ASSUME PickerInv(ui), mouseLeaves PROVE PickerInv(ui')
  <1>1. does(updateFormInputs(ui))
    BY Zenon DEF mouseLeaves, inPicker
  <1>2. PickerBase(ui)
    BY Zenon DEF PickerInv, PickerSane
  <1>3. Redrawn(ui, updateFormInputs(ui))
    BY <1>2, FieldsRedrawn, Zenon
  <1>4. PickerInv(updateFormInputs(ui))
    BY <1>3, PickerRedrawn, Zenon
  <1> QED
    BY <1>1, <1>4, PickerClicked, Zenon

\* The pointer over a predefined range, or over the entry for a range of one's own.
LEMMA PickerRangeHovered == ASSUME PickerInv(ui), hoverRange PROVE PickerInv(ui')
  <1>1. ASSUME NEW r \in ui.ranges,
               inPicker([ui EXCEPT !.startField = {format(ui, r[1])}, !.endField = {format(ui, r[2])}])
        PROVE  PickerInv(ui')
    <2> DEFINE f == {format(ui, r[1])}
               g == {format(ui, r[2])}
               v == [ui EXCEPT !.startField = f, !.endField = g]
    <2>1. does(v)
      BY <1>1, Zenon DEF inPicker
    <2>2. PickerFields \subseteq DOMAIN ui /\ r[1] \in Moment(FALSE) /\ r[2] \in Moment(FALSE)
      BY Zenon DEF PickerInv, PickerSane, PickerBase, Moment
    <2>3. f \in SUBSET Moment(TRUE) /\ g \in SUBSET Moment(TRUE)
      BY <2>2, FieldTime, Zenon
    <2> HIDE DEF f, g
    <2>4. Written(ui, v, f, g)
      BY <2>2, Zenon DEF PickerFields, Written, Frame, SameDates, SameMonths
    <2> HIDE DEF v
    <2>5. PickerInv(v)
      BY <2>3, <2>4, PickerWritten, Zenon
    <2> QED
      BY <2>1, <2>5, PickerClicked, Zenon
  <1>2. ASSUME inPicker(updateView(ui)) PROVE PickerInv(ui')
    BY <1>2, PickerViewed, PickerClicked, Zenon DEF inPicker
  <1>3. \/ \E r \in ui.ranges : inPicker([ui EXCEPT !.startField = {format(ui, r[1])},
                                                    !.endField = {format(ui, r[2])}])
        \/ inPicker(updateView(ui))
    BY Zenon DEF hoverRange
  <1> QED
    BY <1>1, <1>2, <1>3, Zenon

\* renderTimePicker(updateFormInputs(updateCalendars(_))).
LEMMA PickerTimesViewed ==
    ASSUME NEW u, PickerInv(u)
    PROVE  PickerInv(renderTimePicker(updateFormInputs(updateCalendars(u))))
  <1> DEFINE b == updateCalendars(u)
             c == updateFormInputs(b)
  <1>1. Redrawn(u, b)
    BY CalendarsRedrawn, Zenon DEF PickerInv, PickerSane
  <1>2. PickerInv(b)
    BY <1>1, PickerRedrawn, Zenon
  <1> HIDE DEF b
  <1>3. Redrawn(b, c)
    BY <1>2, FieldsRedrawn, Zenon DEF PickerInv, PickerSane
  <1>4. PickerInv(c)
    BY <1>2, <1>3, PickerRedrawn, Zenon
  <1> HIDE DEF c
  <1>5. Redrawn(c, renderTimePicker(c))
    BY <1>4, TimesRedrawn, Zenon DEF PickerInv, PickerSane
  <1>6. PickerInv(renderTimePicker(c))
    BY <1>4, <1>5, PickerRedrawn, Zenon
  <1> QED
    BY <1>6, Zenon DEF b, c

\* Another hour of the start: an end on the same day that is now before it moves along.
LEMMA PickerStartHour ==
    ASSUME PickerInv(ui), NEW h \in 0..(Hours - 1), timeChanged("left", h) PROVE PickerInv(ui')
  <1> DEFINE start == at(day(ui.startDate), h)
             started == setStartDate(ui, start)
             passed == \E end \in ui.endDate : day(end) = day(start) /\ before(end, start)
             moved == IF passed THEN setEndDate(started, start) ELSE started
             w == renderTimePicker(updateFormInputs(updateCalendars(moved)))
  <1>1. ui.isShowing /\ does(w) /\ offersHour(ui, "left", h)
    BY TwoSides, Zenon DEF timeChanged, inPicker
  <1>2. PickerBase(ui) /\ ui.startDate \in Moment(ui.soiled) /\ ui.endDate \subseteq Moment(ui.soiled)
    BY Zenon DEF PickerInv, PickerSane, PickerBase
  <1>3. h \in Nat /\ h < Hours
    BY CalendarBounds
  <1>4. /\ start \in Moment(ui.soiled)
        /\ start \in Nat => ui.startDate \in Nat /\ day(start) = day(ui.startDate)
    <2>1. ui.startDate \in Nat => day(ui.startDate) \in Nat
      BY DayOf, Zenon
    <2>2. ui.startDate \in Nat => day(start) = day(ui.startDate)
      BY <1>3, <2>1, SameDay, Zenon
    <2>3. ui.startDate = Invalid => start = Invalid
      BY InvalidParts, Zenon
    <2> QED
      BY <1>2, <1>3, <2>2, <2>3, HourAt, Moments, ValidTimes, Zenon
  <1>5. start \in Nat => (ui.opt.limited => MinDate <= start)
    BY <1>1, CalendarBounds, NotBefore, Zenon DEF offersHour
  <1> HIDE DEF start
  <1>6. /\ Stepped(ui, started) /\ started.endDate = ui.endDate
        /\ StartWithin(ui.opt, FALSE, started.startDate)
        /\ start \in Nat => started.startDate \in Nat /\ started.startDate <= start
        /\ start = Invalid => started.startDate = Invalid
    BY <1>2, <1>4, <1>5, StartDateSet, Zenon
  <1> HIDE DEF started
  <1>7. /\ PickerBase(started) /\ started.opt = ui.opt /\ started.fromPreset = ui.fromPreset
        /\ started.isShowing = ui.isShowing /\ started.soiled = ui.soiled
    BY <1>6, Zenon DEF Stepped, Frame
  <1>8. StartWithin(started.opt, started.fromPreset, started.startDate)
    BY <1>6, <1>7, StartForAny, Zenon
  <1>9. CASE passed
    <2> DEFINE v == setEndDate(started, start)
    <2>1. (started.opt.limited => ~before(MaxDate, started.startDate)) /\ start \in Moment(started.soiled)
      BY <1>4, <1>7, <1>8, Zenon DEF StartWithin
    <2>2. /\ Stepped(started, v) /\ v.startDate = started.startDate
          /\ EndsWithin(started.opt, FALSE, v.startDate, v.endDate)
      BY <1>7, <2>1, EndDateSet, Zenon
    <2> HIDE DEF v
    <2>3. Stepped(ui, v) /\ v.opt = started.opt /\ v.fromPreset = started.fromPreset
      BY <1>6, <2>2, SteppedTwice, Zenon DEF Stepped, Frame
    <2>4. StartWithin(v.opt, v.fromPreset, v.startDate)
      BY <1>8, <2>2, <2>3, Zenon
    <2>5. EndsWithin(v.opt, v.fromPreset, v.startDate, v.endDate)
      BY <2>2, <2>3, EndsForAny, Zenon
    <2>6. PickerInv(v)
      BY <1>1, <2>3, <2>4, <2>5, PickerStepped, Zenon
    <2>7. moved = v
      BY <1>9, Zenon DEF v
    <2> HIDE DEF moved
    <2> QED
      BY <1>1, <2>6, <2>7, PickerTimesViewed, PickerClicked, Zenon
  <1>10. CASE ~passed
    <2>1. ASSUME NEW e \in ui.endDate PROVE ~before(e, started.startDate)
      <3>1. e \in Moment(ui.soiled) /\ ~before(e, ui.startDate) /\ ~(day(e) = day(start) /\ before(e, start))
        BY <1>2, <1>10, Zenon DEF PickerInv, PickerSane, EndsWithin
      <3>2. CASE e \in Nat /\ start \in Nat
        <4>1. ui.startDate \in Nat /\ day(start) = day(ui.startDate)
          BY <1>4, <3>2, Zenon
        <4>2. ui.startDate <= e
          BY <3>1, <3>2, <4>1, NotBefore, Zenon
        <4>3. day(ui.startDate) <= day(e)
          BY <3>2, <4>1, <4>2, LaterDay, Zenon
        <4>4. day(start) < day(e) => start < e
          BY <3>2, LaterDay, Zenon
        <4>5. day(e) # day(start) \/ start <= e
          BY <3>1, <3>2, NotBefore, Zenon
        <4>6. day(start) \in Nat /\ day(e) \in Nat
          BY <3>2, DayOf, Zenon
        <4>7. start <= e
          BY <3>2, <4>1, <4>3, <4>4, <4>5, <4>6
        <4>8. started.startDate \in Nat /\ started.startDate <= start
          BY <1>6, <3>2, Zenon
        <4>9. started.startDate <= e
          BY <3>2, <4>7, <4>8
        <4> QED
          BY <3>2, <4>8, <4>9, NotBefore, Zenon
      <3>3. CASE e = Invalid \/ start = Invalid
        BY <1>6, <3>3, InvalidParts, Zenon
      <3> QED
        BY <1>4, <3>1, <3>2, <3>3, Moments, Zenon
    <2>2. EndsWithin(started.opt, started.fromPreset, started.startDate, started.endDate)
      BY <1>6, <1>7, <2>1, Zenon DEF PickerInv, PickerSane, EndsWithin
    <2>3. PickerInv(started)
      BY <1>1, <1>6, <1>8, <2>2, PickerStepped, Zenon
    <2>4. moved = started
      BY <1>10, Zenon
    <2> HIDE DEF moved
    <2> QED
      BY <1>1, <2>3, <2>4, PickerTimesViewed, PickerClicked, Zenon
  <1> QED
    BY <1>9, <1>10

\* Another hour of the end.
LEMMA PickerEndHour ==
    ASSUME PickerInv(ui), NEW h \in 0..(Hours - 1), timeChanged("right", h) PROVE PickerInv(ui')
  <1> DEFINE u == [ui EXCEPT !.rightHour = {h}]
             end == at(day(value(ui.endDate)), h)
             v == setEndDate(u, end)
             w == renderTimePicker(updateFormInputs(updateCalendars(v)))
  <1>1. ui.isShowing /\ does(w) /\ ui.endDate # {}
    BY TwoSides, Zenon DEF timeChanged, inPicker
  <1>2. PickerBase(ui) /\ ui.endDate \subseteq Moment(ui.soiled)
    BY Zenon DEF PickerInv, PickerSane, PickerBase
  <1>3. h \in Nat
    BY CalendarBounds
  <1>4. value(ui.endDate) \in Moment(ui.soiled)
    BY <1>1, <1>2, ValueOf, Zenon
  <1>5. end \in Moment(ui.soiled)
    BY <1>3, <1>4, HourAt, Zenon
  <1> HIDE DEF end
  <1>6. {h} \in SUBSET Nat /\ {h} # {}
    BY <1>3
  <1>7. Redrawn(ui, u)
    BY <1>2, <1>6, Rehoured, Zenon
  <1> HIDE DEF u
  <1>8. PickerInv(u) /\ u.isShowing /\ u.soiled = ui.soiled
    BY <1>1, <1>7, PickerRedrawn, Zenon DEF Redrawn, Stepped, Frame
  <1>9. PickerInv(v)
    BY <1>5, <1>8, EndChosen, Zenon
  <1> HIDE DEF v
  <1> QED
    BY <1>1, <1>9, PickerTimesViewed, PickerClicked, Zenon

\* A predefined range is taken as it is.
LEMMA PickerRangeChosen == ASSUME PickerInv(ui), clickRange PROVE PickerInv(ui')
  <1>1. PickerSane(ui) /\ PickerBase(ui) /\ PickerFields \subseteq DOMAIN ui /\ PageInv(ui)
    BY Zenon DEF PickerInv, PickerSane, PickerBase
  <1>2. ASSUME NEW r \in ui.ranges,
               inPicker(clickApply([ui EXCEPT
                 !.startDate = IF ui.opt.timePicker THEN r[1] ELSE startOf(r[1]),
                 !.endDate = {IF ui.opt.timePicker THEN r[2] ELSE endOf(r[2])},
                 !.chosenLabel = "preset", !.calendars = FALSE, !.fromPreset = TRUE]))
        PROVE  PickerInv(ui')
    <2> DEFINE s == IF ui.opt.timePicker THEN r[1] ELSE startOf(r[1])
               e == IF ui.opt.timePicker THEN r[2] ELSE endOf(r[2])
               f == {e}
               v == [ui EXCEPT !.startDate = s, !.endDate = f, !.chosenLabel = "preset",
                               !.calendars = FALSE, !.fromPreset = TRUE]
    <2>1. ui.isShowing /\ does(clickApply(v))
      BY <1>2, Zenon DEF inPicker
    <2>2. r[1] \in Nat /\ r[2] \in Nat /\ r[1] <= r[2] /\ (ui.opt.limited => r[1] <= MaxDate)
      BY <1>1, Zenon DEF PickerBase
    <2>3. s \in Nat /\ e \in Nat /\ s <= r[1] /\ r[2] <= e
      BY <2>2, WithinDay
    <2> HIDE DEF s, e
    <2>4. s <= e /\ (ui.opt.limited => s <= MaxDate)
      BY <2>2, <2>3, CalendarBounds
    <2>5. /\ f \subseteq Moment(ui.soiled) /\ s \in Moment(ui.soiled)
          /\ \A x \in f : ~before(x, s)
          /\ ui.opt.limited => ~before(MaxDate, s)
      BY <2>3, <2>4, CalendarBounds, Moments, NotBefore, Zenon
    <2> HIDE DEF f
    <2>6. /\ PickerFields \subseteq DOMAIN v /\ v.opt = ui.opt /\ v.oldStartDate = ui.oldStartDate
          /\ v.oldEndDate = ui.oldEndDate /\ v.ranges = ui.ranges /\ v.fromPreset = TRUE
          /\ v.isShowing = ui.isShowing /\ v.startDate = s /\ v.endDate = f
          /\ SameMonths(ui, v) /\ SameFields(ui, v) /\ v.rightHour = ui.rightHour
          /\ v.soiled = ui.soiled /\ v.text = ui.text /\ v.searchStringDate = ui.searchStringDate
          /\ v.period = ui.period /\ v.orphan = ui.orphan
      BY <1>1, Zenon DEF PickerFields, SameMonths, SameFields
    <2> HIDE DEF v
    <2>7. StartWithin(v.opt, v.fromPreset, v.startDate) /\ EndsWithin(v.opt, v.fromPreset, v.startDate, v.endDate)
      BY <2>5, <2>6, Zenon DEF StartWithin, EndsWithin
    <2>8. /\ StartWithin(v.opt, v.fromPreset, v.oldStartDate)
          /\ EndsWithin(v.opt, v.fromPreset, v.oldStartDate, v.oldEndDate)
      BY <1>1, <2>6, Zenon DEF PickerBase, StartWithin, EndsWithin
    <2>9. PickerBase(v)
      BY <1>1, <2>5, <2>6, <2>8, MonthsStay, Zenon DEF PickerBase, SameFields
    <2>10. PickerSane(v) /\ PageInv(v)
      BY <1>1, <2>6, <2>7, <2>9, Zenon DEF PickerSane, PageInv
    <2>11. PickerInv(clickApply(v))
      BY <2>1, <2>6, <2>10, PickerApplied, Zenon
    <2> QED
      BY <2>1, <2>11, PickerClicked, Zenon
  <1>3. ASSUME inPicker([ui EXCEPT !.chosenLabel = "custom", !.calendars = TRUE]) PROVE PickerInv(ui')
    <2> DEFINE v == [ui EXCEPT !.chosenLabel = "custom", !.calendars = TRUE]
    <2>1. does(v)
      BY <1>3, Zenon DEF inPicker
    <2>2. Unchanged(ui, v)
      BY <1>1, Zenon DEF PickerFields, Unchanged, Frame, SameDates, SameMonths, SameFields
    <2> HIDE DEF v
    <2>3. Redrawn(ui, v)
      BY <1>1, <2>2, Kept, Zenon
    <2>4. PickerInv(v)
      BY <2>3, PickerRedrawn, Zenon
    <2> QED
      BY <2>1, <2>4, PickerClicked, Zenon
  <1>4. \/ \E r \in ui.ranges : inPicker(clickApply([ui EXCEPT
             !.startDate = IF ui.opt.timePicker THEN r[1] ELSE startOf(r[1]),
             !.endDate = {IF ui.opt.timePicker THEN r[2] ELSE endOf(r[2])},
             !.chosenLabel = "preset", !.calendars = FALSE, !.fromPreset = TRUE]))
        \/ inPicker([ui EXCEPT !.chosenLabel = "custom", !.calendars = TRUE])
    BY Zenon DEF clickRange
  <1> QED
    BY <1>2, <1>3, <1>4, Zenon

\* A field gets the focus.
LEMMA PickerFocused ==
    ASSUME PickerInv(ui), NEW side \in Side, formInputsFocused(side) PROVE PickerInv(ui')
  <1>1. PickerBase(ui) /\ PickerFields \subseteq DOMAIN ui /\ ui.startDate \in Moment(ui.soiled)
    BY Zenon DEF PickerInv, PickerSane, PickerBase
  <1> DEFINE v == [ui EXCEPT !.focus = "start"]
             w == [ui EXCEPT !.endDate = {}, !.focus = "end"]
  <1>2. \/ inPicker(v)
        \/ inPicker(updateView(setStartDate(w, ui.startDate)))
    BY Zenon DEF formInputsFocused
  <1>3. Unchanged(ui, v)
    BY <1>1, Zenon DEF PickerFields, Unchanged, Frame, SameDates, SameMonths, SameFields
  <1> HIDE DEF v
  <1>4. CASE inPicker(v)
    <2>1. Redrawn(ui, v)
      BY <1>1, <1>3, Kept, Zenon
    <2>2. PickerInv(v)
      BY <2>1, PickerRedrawn, Zenon
    <2> QED
      BY <1>4, <2>2, PickerClicked, Zenon DEF inPicker
  <1>5. CASE inPicker(updateView(setStartDate(w, ui.startDate)))
    <2>1. ui.isShowing /\ does(updateView(setStartDate(w, ui.startDate)))
      BY <1>5, Zenon DEF inPicker
    <2> DEFINE x == [ui EXCEPT !.endDate = {}]
    <2>2. {} \in SUBSET Moment(ui.soiled)
      BY Zenon
    <2>3. Stepped(ui, x) /\ x.endDate = {}
      BY <1>1, <2>2, EndSet, Zenon
    <2>4. w = [x EXCEPT !.focus = "end"]
      BY Zenon
    <2> HIDE DEF x
    <2>5. PickerBase(x) /\ PickerFields \subseteq DOMAIN x
      BY <2>3, Zenon DEF Stepped, PickerBase
    <2> HIDE DEF w
    <2>6. Unchanged(x, w)
      BY <2>4, <2>5, Zenon DEF PickerFields, Unchanged, Frame, SameDates, SameMonths, SameFields
    <2>7. Redrawn(x, w)
      BY <2>5, <2>6, Kept, Zenon
    <2>8. Stepped(ui, w) /\ w.endDate = {}
      BY <2>3, <2>7, SteppedTwice, Zenon DEF Redrawn, SameDates
    <2>9. PickerInv(setStartDate(w, ui.startDate))
      BY <1>1, <2>1, <2>8, StartChosen, Zenon
    <2> QED
      BY <2>1, <2>9, PickerViewed, PickerClicked, Zenon
  <1> QED
    BY <1>2, <1>4, <1>5

\* Both dates are set, the start first.
LEMMA BothDates ==
    ASSUME NEW u, PickerBase(u), NEW s \in Moment(u.soiled), NEW e \in Moment(u.soiled)
    PROVE  LET v == setEndDate(setStartDate(u, s), e)
           IN /\ Stepped(u, v) /\ v.endDate # {} /\ StartWithin(v.opt, v.fromPreset, v.startDate)
              /\ EndsWithin(v.opt, v.fromPreset, v.startDate, v.endDate)
  <1> DEFINE w == setStartDate(u, s)
             v == setEndDate(w, e)
  <1>1. Stepped(u, w) /\ StartWithin(u.opt, FALSE, w.startDate)
    BY StartDateSet, Zenon
  <1> HIDE DEF w
  <1>2. PickerBase(w) /\ w.opt = u.opt /\ e \in Moment(w.soiled)
    BY <1>1, Zenon DEF Stepped, Frame
  <1>3. w.opt.limited => ~before(MaxDate, w.startDate)
    BY <1>1, <1>2, Zenon DEF StartWithin
  <1>4. /\ Stepped(w, v) /\ v.startDate = w.startDate /\ v.endDate # {}
        /\ EndsWithin(w.opt, FALSE, v.startDate, v.endDate)
    BY <1>2, <1>3, EndDateSet, Zenon
  <1> HIDE DEF v
  <1>5. Stepped(u, v) /\ v.opt = w.opt
    BY <1>1, <1>4, SteppedTwice, Zenon DEF Stepped, Frame
  <1>6. StartWithin(v.opt, v.fromPreset, v.startDate)
    BY <1>1, <1>2, <1>4, <1>5, StartForAny, Zenon
  <1>7. EndsWithin(v.opt, v.fromPreset, v.startDate, v.endDate)
    BY <1>4, <1>5, EndsForAny, Zenon
  <1> QED
    BY <1>4, <1>5, <1>6, <1>7, Zenon DEF w, v

\* That keeps the invariant.
LEMMA BothSet ==
    ASSUME NEW u, PickerInv(u), u.isShowing \/ u.typed, NEW s \in Moment(u.soiled), NEW e \in Moment(u.soiled)
    PROVE  LET v == setEndDate(setStartDate(u, s), e) IN PickerInv(v) /\ v.endDate # {}
  <1> DEFINE v == setEndDate(setStartDate(u, s), e)
  <1>1. PickerBase(u)
    BY Zenon DEF PickerInv, PickerSane
  <1>2. /\ Stepped(u, v) /\ v.endDate # {} /\ StartWithin(v.opt, v.fromPreset, v.startDate)
        /\ EndsWithin(v.opt, v.fromPreset, v.startDate, v.endDate)
    BY <1>1, BothDates, Zenon
  <1> HIDE DEF v
  <1>3. PickerInv(v)
    BY <1>2, PickerStepped, Zenon
  <1> QED
    BY <1>2, <1>3, Zenon DEF v

\* What a field says, if it can be read, is a time.
LEMMA Readable ==
    ASSUME NEW u, NEW field \in SUBSET Moment(TRUE), readable(u, field) PROVE value(field) \in Nat
  BY ValueOf, Moments, Zenon DEF readable

\* The user writes into a field.
LEMMA PickerTyped ==
    ASSUME PickerInv(ui), NEW written \in SUBSET Nat, formInputsChanged(written) PROVE PickerInv(ui')
  <1> DEFINE isRight == ui.focus = "end"
             f == IF isRight THEN ui.startField ELSE written
             g == IF isRight THEN written ELSE ui.endField
             u == [ui EXCEPT !.startField = f, !.endField = g]
             end == value(u.endField)
             start == IF isRight THEN lesser(value(u.startField), end) ELSE value(u.startField)
             set == setEndDate(setStartDate(u, start), end)
             valid == readable(u, u.startField) /\ readable(u, u.endField)
             v == IF ~valid THEN u
                  ELSE IF isRight THEN [set EXCEPT !.startField = {format(set, set.startDate)}]
                  ELSE [set EXCEPT !.endField = {format(set, value(set.endDate))}]
  <1>1. inPicker(updateView(v))
    BY DEF formInputsChanged
  <1>2. ui.isShowing /\ does(updateView(v))
    BY <1>1, Zenon DEF inPicker
  <1>3. PickerFields \subseteq DOMAIN ui /\ ui.startField \in SUBSET Moment(TRUE) /\ ui.endField \in SUBSET Moment(TRUE)
    BY Zenon DEF PickerInv, PickerSane, PickerBase
  <1>4. f \in SUBSET Moment(TRUE) /\ g \in SUBSET Moment(TRUE)
    BY <1>3, Moments, Zenon
  <1> HIDE DEF f, g, isRight
  <1>5. Written(ui, u, f, g)
    BY <1>3, Zenon DEF PickerFields, Written, Frame, SameDates, SameMonths
  <1> HIDE DEF u
  <1>6. PickerInv(u) /\ u.isShowing /\ u.startField \in SUBSET Moment(TRUE) /\ u.endField \in SUBSET Moment(TRUE)
    BY <1>2, <1>4, <1>5, PickerWritten, Zenon DEF Written, Frame
  <1>7. CASE ~valid
    <2>1. v = u
      BY <1>7, Zenon
    <2> HIDE DEF v
    <2>2. PickerInv(v)
      BY <1>6, <2>1, Zenon
    <2> QED
      BY <1>2, <2>2, PickerViewed, PickerClicked, Zenon
  <1>8. CASE valid
    <2>1. end \in Nat /\ value(u.startField) \in Nat
      BY <1>6, <1>8, Readable, Zenon
    <2> HIDE DEF end
    <2>2. start \in Moment(u.soiled) /\ end \in Moment(u.soiled)
      BY <2>1, LesserGreaterTimes, Moments, Zenon
    <2> HIDE DEF start
    <2>3. PickerInv(set) /\ set.endDate # {}
      BY <1>6, <2>2, BothSet, ZenonT(30)
    <2> HIDE DEF set
    <2>4. /\ PickerBase(set) /\ PickerFields \subseteq DOMAIN set /\ set.startDate \in Moment(set.soiled)
          /\ set.endDate \subseteq Moment(set.soiled)
          /\ set.startField \in SUBSET Moment(TRUE) /\ set.endField \in SUBSET Moment(TRUE)
      BY <2>3, Zenon DEF PickerInv, PickerSane, PickerBase
    <2>5. value(set.endDate) \in Moment(set.soiled)
      BY <2>3, <2>4, ValueOf, Zenon
    <2> DEFINE x == {format(set, set.startDate)}
               y == {format(set, value(set.endDate))}
    <2>6. x \in SUBSET Moment(TRUE) /\ y \in SUBSET Moment(TRUE)
      BY <2>4, <2>5, FieldTime, Zenon
    <2>7. v = IF isRight THEN [set EXCEPT !.startField = x] ELSE [set EXCEPT !.endField = y]
      BY <1>8, Zenon
    <2> HIDE DEF x, y, v
    <2>8. CASE isRight
      <3>1. v = [set EXCEPT !.startField = x]
        BY <2>7, <2>8, Zenon
      <3>2. Written(set, v, x, set.endField)
        BY <2>4, <3>1, Zenon DEF PickerFields, Written, Frame, SameDates, SameMonths
      <3>3. Redrawn(set, v)
        BY <2>4, <2>6, <3>2, WrittenRedraws, Zenon
      <3>4. PickerInv(v)
        BY <2>3, <3>3, PickerRedrawn, Zenon
      <3> QED
        BY <1>2, <3>4, PickerViewed, PickerClicked, Zenon
    <2>9. CASE ~isRight
      <3>1. v = [set EXCEPT !.endField = y]
        BY <2>7, <2>9, Zenon
      <3>2. Written(set, v, set.startField, y)
        BY <2>4, <3>1, Zenon DEF PickerFields, Written, Frame, SameDates, SameMonths
      <3>3. Redrawn(set, v)
        BY <2>4, <2>6, <3>2, WrittenRedraws, Zenon
      <3>4. PickerInv(v)
        BY <2>3, <3>3, PickerRedrawn, Zenon
      <3> QED
        BY <1>2, <3>4, PickerViewed, PickerClicked, Zenon
    <2> QED
      BY <2>8, <2>9
  <1> QED
    BY <1>7, <1>8

\* The field loses the focus.
LEMMA PickerBlurred == ASSUME PickerInv(ui), formInputsBlurred PROVE PickerInv(ui')
  <1> DEFINE left == [ui EXCEPT !.focus = "none"]
             t == value(ui.endField)
  <1>1. inPicker(IF ui.endDate = {} /\ readable(ui, ui.endField) THEN updateView(setEndDate(left, t)) ELSE left)
    BY Zenon DEF formInputsBlurred
  <1>2. PickerBase(ui) /\ PickerFields \subseteq DOMAIN ui /\ ui.endField \in SUBSET Moment(TRUE)
    BY Zenon DEF PickerInv, PickerSane, PickerBase
  <1>3. Unchanged(ui, left)
    BY <1>2, Zenon DEF PickerFields, Unchanged, Frame, SameDates, SameMonths, SameFields
  <1> HIDE DEF left
  <1>4. Redrawn(ui, left)
    BY <1>2, <1>3, Kept, Zenon
  <1>5. PickerInv(left) /\ left.isShowing = ui.isShowing /\ left.soiled = ui.soiled
    BY <1>4, PickerRedrawn, Zenon DEF Redrawn, Stepped, Frame
  <1>6. CASE ui.endDate = {} /\ readable(ui, ui.endField)
    <2>1. ui.isShowing /\ does(updateView(setEndDate(left, t)))
      BY <1>1, <1>6, Zenon DEF inPicker
    <2>2. t \in Moment(left.soiled)
      BY <1>2, <1>6, Readable, Moments, Zenon
    <2> HIDE DEF t
    <2>3. PickerInv(setEndDate(left, t))
      BY <1>5, <2>1, <2>2, EndChosen, Zenon
    <2> QED
      BY <2>1, <2>3, PickerViewed, PickerClicked, Zenon
  <1>7. CASE ~(ui.endDate = {} /\ readable(ui, ui.endField))
    <2>1. does(left)
      BY <1>1, <1>7, Zenon DEF inPicker
    <2> QED
      BY <1>5, <2>1, PickerClicked, Zenon
  <1> QED
    BY <1>6, <1>7

\* What the user types into the field of the page stands for moments.
LEMMA TypedMoments == Typing \subseteq Moment(TRUE)
  <1>1. 0 \in Nat /\ Hours \in Nat
    BY CalendarBounds
  <1>2. 0 \in Moment(TRUE) /\ Invalid \in Moment(TRUE) /\ Hours \in Moment(TRUE)
    BY <1>1, Moments, Zenon
  <1> QED
    BY <1>2, FieldTime, Zenon DEF Typing

\* What is written into the field of the page goes into the picker if it can be read.
LEMMA PickerElementChanged ==
    ASSUME PickerInv(ui), NEW from \in Moment(TRUE), NEW to \in Moment(TRUE), NEW range, NEW written,
           written = {} \/ written = {text(from, to, range)}, NEW enough, elementChanged(written, enough)
    PROVE  PickerInv(ui')
  <1> DEFINE soils == ~ui.opt.given /\ \E r \in written : r.range /\ Invalid \in {r.start, r.end}
             b == ui.soiled \/ soils
             u == [ui EXCEPT !.text = written, !.searchStringDate = written, !.typed = TRUE, !.soiled = b]
             read == enough /\ ui.opt.known /\ \E r \in written : Invalid \notin {r.start, r.end}
  <1>1. does(IF read THEN updateView(setEndDate(setStartDate(u, value(written).start), value(written).end))
             ELSE u)
    BY Zenon DEF elementChanged
  <1>2. PageInv(ui) /\ PickerFields \subseteq DOMAIN ui
    BY Zenon DEF PickerInv, PickerSane, PickerBase
  <1>3. \A r \in written : r.start \in Moment(TRUE) /\ r.end \in Moment(TRUE)
    <2>1. CASE written = {}
      BY <2>1, Zenon
    <2>2. CASE written # {}
      <3> DEFINE x == text(from, to, range)
      <3>1. x.start = from /\ x.end = to
        BY Zenon DEF text
      <3> HIDE DEF x
      <3>2. written = {x}
        BY <2>2, Zenon DEF x
      <3> QED
        BY <3>1, <3>2, Zenon
    <2> QED
      BY <2>1, <2>2, Zenon
  <1>4. \A r \in written : r.range /\ ~ui.opt.given => r.start \in Moment(b) /\ r.end \in Moment(b)
    <2>1. SUFFICES ASSUME NEW r \in written, r.range, ~ui.opt.given PROVE r.start \in Moment(b) /\ r.end \in Moment(b)
      BY Zenon
    <2>2. CASE Invalid \in {r.start, r.end}
      <3>1. b
        BY <2>1, <2>2, Zenon
      <3>2. Moment(TRUE) \subseteq Moment(b)
        BY <3>1, MoreMoments, Zenon
      <3> QED
        BY <1>3, <3>2, Zenon
    <2>3. CASE Invalid \notin {r.start, r.end}
      BY <1>3, <2>3, Moments, Zenon
    <2> QED
      BY <2>2, <2>3
  <1>5. (ui.soiled => b) /\ Moment(ui.soiled) \subseteq Moment(b)
    BY MoreMoments, Zenon
  <1> HIDE DEF b
  <1>6. /\ Alike(ui, u) /\ u.isShowing = ui.isShowing /\ u.typed = TRUE /\ u.opt = ui.opt /\ u.soiled = b
        /\ u.text = written /\ u.searchStringDate = written /\ u.period = ui.period /\ u.orphan = ui.orphan
    BY <1>2, <1>5, Zenon DEF PickerFields, Alike, SameDates, SameMonths, SameFields
  <1> HIDE DEF u
  <1>7. PageInv(u)
    <2>1. \A r \in u.text \cup u.searchStringDate :
            r.range /\ ~u.opt.given => r.start \in Moment(u.soiled) /\ r.end \in Moment(u.soiled)
      BY <1>4, <1>6, Zenon
    <2>2. \A r \in u.period \cup u.orphan : Sorted(u.soiled, r)
      BY <1>2, <1>5, <1>6, Zenon DEF PageInv, Sorted
    <2> QED
      BY <1>2, <1>6, <2>1, <2>2, Zenon DEF PageInv
  <1>8. PickerInv(u)
    BY <1>6, <1>7, PickerAlike, Zenon
  <1>9. CASE ~read
    <2>1. does(u)
      BY <1>1, <1>9, Zenon
    <2> QED
      BY <1>8, <2>1, PickerClicked, Zenon
  <1>10. CASE read
    <2> DEFINE s == value(written).start
               e == value(written).end
    <2>1. does(updateView(setEndDate(setStartDate(u, s), e)))
      BY <1>1, <1>10, Zenon
    <2>2. PICK r \in written : Invalid \notin {r.start, r.end}
      BY <1>10, Zenon
    <2>3. \E x : written = {x}
      BY <2>2, Zenon
    <2>4. value(written) = r
      BY <2>2, <2>3, ValueOfOne, Zenon
    <2>5. s \in Moment(u.soiled) /\ e \in Moment(u.soiled)
      BY <1>3, <2>2, <2>4, Moments, Zenon
    <2> HIDE DEF s, e
    <2>6. PickerInv(setEndDate(setStartDate(u, s), e))
      BY <1>6, <1>8, <2>5, BothSet, Zenon
    <2> QED
      BY <2>1, <2>6, PickerViewed, PickerClicked, Zenon
  <1> QED
    BY <1>9, <1>10

-----------------------------------------------------------------------------
(* The constructor *)

\* The predefined ranges, cut at the limits.
LEMMA RangesMade ==
    ASSUME NEW opt, NEW r \in rangesOf(opt)
    PROVE  r[1] \in Nat /\ r[2] \in Nat /\ r[1] <= r[2] /\ r[1] <= MaxDate
  <1> DEFINE start == IF opt.limited THEN greater(PresetStart, MinDate) ELSE PresetStart
             max == IF opt.dateLimit THEN greater(start + DateLimit, MaxDate) ELSE MaxDate
             end == IF opt.limited THEN lesser(PresetEnd, max) ELSE PresetEnd
             offered == opt.limited => day(end) >= day(MinDate) /\ day(start) <= day(max)
  <1>1. Preset[1] = PresetStart /\ Preset[2] = PresetEnd
    BY DEF Preset
  <1>2. rangesOf(opt) = IF opt.ranges /\ offered THEN {<<start, end>>} ELSE {}
    BY <1>1, Zenon DEF rangesOf
  <1>3. r = <<start, end>> /\ offered
    BY <1>2, Zenon
  <1>4. /\ PresetStart \in Nat /\ PresetEnd \in Nat /\ PresetStart <= PresetEnd /\ PresetStart <= MaxDate
        /\ MinDate \in Nat /\ MaxDate \in Nat /\ MinDate <= MaxDate /\ DateLimit \in Nat
    BY CalendarBounds, Zenon
  <1>5. r[1] = start /\ r[2] = end
    BY <1>3
  <1>6. CASE ~opt.limited
    <2>1. start = PresetStart /\ end = PresetEnd
      BY <1>6, Zenon
    <2> QED
      BY <1>4, <1>5, <2>1, Zenon
  <1>7. CASE opt.limited
    <2>1. start = greater(PresetStart, MinDate) /\ end = lesser(PresetEnd, max) /\ day(end) >= day(MinDate)
      BY <1>3, <1>7, Zenon
    <2> HIDE DEF start, end, offered
    <2>2. start \in Nat /\ start <= MaxDate /\ (start = PresetStart \/ start = MinDate)
      BY <1>4, <2>1 DEF greater, before
    <2>3. max \in Nat /\ MaxDate <= max
      BY <1>4, <2>2 DEF greater, before
    <2> HIDE DEF max
    <2>4. end \in Nat /\ (end = PresetEnd \/ end = max)
      BY <1>4, <2>1, <2>3 DEF lesser, before
    <2>5. end = PresetEnd => MinDate <= end
      <3>1. ASSUME end = PresetEnd PROVE MinDate <= PresetEnd
        <4>1. day(PresetEnd) = day(MinDate) => MinDate <= PresetEnd
          BY <1>4, CalendarAssumption, ValidTimes, Zenon DEF day
        <4>2. day(MinDate) < day(PresetEnd) => MinDate < PresetEnd
          BY <1>4, LaterDay, Zenon
        <4>3. day(MinDate) \in Nat /\ day(PresetEnd) \in Nat
          BY <1>4, DayOf, Zenon
        <4>4. day(PresetEnd) >= day(MinDate)
          BY <2>1, <3>1, Zenon
        <4> QED
          BY <1>4, <4>1, <4>2, <4>3, <4>4
      <3> QED
        BY <3>1, Zenon
    <2>6. start <= end
      BY <1>4, <2>2, <2>3, <2>4, <2>5
    <2> QED
      BY <1>5, <2>2, <2>4, <2>6, Zenon
  <1> QED
    BY <1>6, <1>7

\* Today, within the limits, and tomorrow.
LEMMA TodayWithin ==
    /\ at(Today, 0) \in Nat /\ at(Today, Hours - 1) \in Nat /\ at(Today + 1, 0) \in Nat
    /\ MinDate <= at(Today, 0) /\ at(Today, 0) <= at(Today, Hours - 1) /\ at(Today, Hours - 1) <= MaxDate
    /\ at(Today, 0) <= at(Today + 1, 0) /\ at(Today, 0) <= MaxDate
  <1> DEFINE x == Today * Hours
             y == (Today + 1) * Hours
  <1>1. /\ Hours \in Nat /\ Hours > 0 /\ Today \in Nat /\ MinDate \in Nat /\ MaxDate \in Nat
        /\ Hours - 1 \in Nat /\ 0 \in Nat /\ Today + 1 \in Nat
    BY CalendarBounds
  <1>2. x \in Nat /\ y \in Nat /\ MinDate <= x /\ x + (Hours - 1) <= MaxDate
    BY <1>1, CalendarAssumption, AtHour, Zenon
  <1>3. x <= y
    <2>1. \A m, n \in Nat : m * n <= (m + 1) * n
      OBVIOUS
    <2> QED
      BY <1>1, <2>1, Zenon
  <1>4. at(Today, 0) = x + 0 /\ at(Today, Hours - 1) = x + (Hours - 1) /\ at(Today + 1, 0) = y + 0
    BY <1>1, AtHour, Zenon
  <1> HIDE DEF x, y
  <1> QED
    BY <1>1, <1>2, <1>3, <1>4

\* The range that a new picker starts with, if there is none in the page's field: in order and
\* within the limits.
LEMMA RangeGiven ==
    ASSUME NEW u, NEW opt, opt.given => ~opt.limited, \A r \in u.period : Sorted(u.soiled, r)
    PROVE  LET range == IF opt.given /\ u.period # {} THEN value(u.period)
                        ELSE text(at(Today, 0), IF opt.given THEN at(Today + 1, 0) ELSE at(Today, Hours - 1), TRUE)
               b == u.soiled \/ ~opt.known
               s == IF opt.known THEN range.start ELSE Invalid
               e == IF opt.known THEN range.end ELSE Invalid
           IN /\ s \in Moment(b) /\ e \in Moment(b) /\ ~before(e, s)
              /\ opt.limited => ~before(s, MinDate) /\ ~before(MaxDate, s) /\ ~before(MaxDate, e)
  <1> DEFINE last == IF opt.given THEN at(Today + 1, 0) ELSE at(Today, Hours - 1)
             range == IF opt.given /\ u.period # {} THEN value(u.period) ELSE text(at(Today, 0), last, TRUE)
             b == u.soiled \/ ~opt.known
             s == IF opt.known THEN range.start ELSE Invalid
             e == IF opt.known THEN range.end ELSE Invalid
  <1>1. CASE ~opt.known
    <2>1. s = Invalid /\ e = Invalid /\ b
      BY <1>1, Zenon
    <2> QED
      BY <2>1, InvalidParts, Moments, Zenon
  <1>2. CASE opt.known /\ opt.given /\ u.period # {}
    <2>1. Sorted(u.soiled, value(u.period)) /\ range = value(u.period)
      BY <1>2, ValueOf, Zenon
    <2>2. Moment(u.soiled) \subseteq Moment(b)
      BY MoreMoments, Zenon
    <2> QED
      BY <1>2, <2>1, <2>2, Zenon DEF Sorted
  <1>3. CASE opt.known /\ ~(opt.given /\ u.period # {})
    <2>1. range = text(at(Today, 0), last, TRUE)
      BY <1>3, Zenon
    <2>2. range.start = at(Today, 0) /\ range.end = last
      <3> DEFINE x == at(Today, 0)
      <3> HIDE DEF x, last
      <3>1. text(x, last, TRUE).start = x /\ text(x, last, TRUE).end = last
        BY Zenon DEF text
      <3> QED
        BY <2>1, <3>1, Zenon DEF x
    <2>3. s = at(Today, 0) /\ e = last
      BY <1>3, <2>2, Zenon
    <2>4. last \in Nat /\ at(Today, 0) <= last /\ (opt.limited => last <= MaxDate)
      BY TodayWithin, Zenon
    <2> HIDE DEF last, range, s, e
    <2>5. s \in Nat /\ e \in Nat /\ MinDate <= s /\ s <= MaxDate /\ s <= e /\ (opt.limited => e <= MaxDate)
      BY <2>3, <2>4, TodayWithin, Zenon
    <2>6. s \in Moment(b) /\ e \in Moment(b) /\ ~before(e, s)
      BY <2>5, Moments, NotBefore, Zenon
    <2>7. opt.limited => ~before(s, MinDate) /\ ~before(MaxDate, s) /\ ~before(MaxDate, e)
      BY <2>5, CalendarBounds, NotBefore, Zenon
    <2> QED
      BY <2>6, <2>7, Zenon DEF s, e, range, last
  <1> QED
    BY <1>1, <1>2, <1>3, Zenon

\* A picker without hours takes whole days.
LEMMA WholeDays ==
    ASSUME NEW u, PickerSane(u), PageInv(u), u.endDate # {}, ~u.opt.timePicker
    PROVE  LET v == [u EXCEPT !.startDate = startOf(@), !.endDate = {endOf(value(@))}]
           IN PickerSane(v) /\ PageInv(v) /\ v.endDate # {}
  <1> DEFINE s == u.startDate
             e == value(u.endDate)
             x == startOf(s)
             y == endOf(e)
             v == [u EXCEPT !.startDate = x, !.endDate = {y}]
  <1>1. PickerBase(u) /\ PickerFields \subseteq DOMAIN u
    BY Zenon DEF PickerSane, PickerBase
  <1>2. /\ s \in Moment(u.soiled) /\ e \in Moment(u.soiled) /\ ~before(e, s)
        /\ u.opt.limited => ~before(MaxDate, s)
        /\ u.opt.limited /\ ~u.fromPreset => ~before(day(s), day(MinDate)) /\ ~before(day(MaxDate), day(e))
    BY <1>1, ValueOf, Zenon DEF PickerSane, PickerBase, StartWithin, EndsWithin, Early, Late
  <1> HIDE DEF e
  <1>3. x \in Moment(u.soiled) /\ y \in Moment(u.soiled)
    BY <1>2, MomentParts, Zenon
  <1>4. day(x) = day(s) /\ ~before(s, x) /\ (s \in Nat => x \in Nat /\ x <= s) /\ (s = Invalid => x = Invalid)
    <2>1. CASE s \in Nat
      <3>1. x \in Nat /\ x <= s /\ day(s) \in Nat
        BY <2>1, WithinDay, DayOf, Zenon
      <3>2. 0 \in Nat /\ 0 < Hours
        BY CalendarBounds
      <3> QED
        BY <2>1, <3>1, <3>2, SameDay, NotBefore, ValidTimes, Zenon DEF startOf
    <2>2. CASE s = Invalid
      BY <2>2, InvalidParts, ValidTimes, Zenon
    <2> QED
      BY <1>2, <2>1, <2>2, Moments, Zenon
  <1>5. day(y) = day(e) /\ (e \in Nat => y \in Nat /\ e <= y) /\ (e = Invalid => y = Invalid)
    <2>1. CASE e \in Nat
      <3>1. y \in Nat /\ e <= y /\ day(e) \in Nat
        BY <2>1, WithinDay, DayOf, Zenon
      <3>2. Hours - 1 \in Nat /\ Hours - 1 < Hours
        BY CalendarBounds
      <3> QED
        BY <2>1, <3>1, <3>2, SameDay, ValidTimes, Zenon DEF endOf
    <2>2. CASE e = Invalid
      BY <2>2, InvalidParts, ValidTimes, Zenon
    <2> QED
      BY <1>2, <2>1, <2>2, Moments, Zenon
  <1> HIDE DEF x, y
  <1>6. ~before(y, x) /\ (u.opt.limited => ~before(MaxDate, x))
    <2>1. CASE s \in Nat /\ e \in Nat
      <3>1. x \in Nat /\ x <= s /\ y \in Nat /\ e <= y /\ s <= e /\ MaxDate \in Nat
        BY <1>2, <1>4, <1>5, <2>1, NotBefore, CalendarBounds, Zenon
      <3>2. x <= y /\ (s <= MaxDate => x <= MaxDate)
        BY <2>1, <3>1
      <3> QED
        BY <1>2, <2>1, <3>1, <3>2, NotBefore, Zenon
    <2>2. CASE s = Invalid
      BY <1>4, <2>2, InvalidParts, Zenon
    <2>3. CASE s \in Nat /\ e = Invalid
      <3>1. x \in Nat /\ x <= s /\ y = Invalid /\ MaxDate \in Nat
        BY <1>4, <1>5, <2>3, CalendarBounds, Zenon
      <3>2. s <= MaxDate => x <= MaxDate
        BY <2>3, <3>1
      <3> QED
        BY <1>2, <2>3, <3>1, <3>2, NotBefore, InvalidParts, Zenon
    <2> QED
      BY <1>2, <2>1, <2>2, <2>3, Moments, Zenon
  <1>7. /\ Frame(u, v) /\ v.startDate = x /\ v.endDate = {y}
        /\ SameMonths(u, v) /\ SameFields(u, v) /\ v.rightHour = u.rightHour
    BY <1>1, Zenon DEF PickerFields, Frame, SameMonths, SameFields
  <1>8. v = [u EXCEPT !.startDate = startOf(@), !.endDate = {endOf(value(@))}]
    BY Zenon DEF x, y, e
  <1> HIDE DEF v, s
  <1>9. /\ v.startDate \in Moment(v.soiled) /\ v.endDate \subseteq Moment(v.soiled) /\ v.rightHour \subseteq Nat
        /\ v.startField \subseteq Moment(TRUE) /\ v.endField \subseteq Moment(TRUE) /\ MonthsFine(v)
    BY <1>1, <1>3, <1>7, MonthsStay, Zenon DEF PickerBase, SameFields, Frame
  <1>10. PickerBase(v)
    BY <1>1, <1>7, <1>9, BaseKept, Zenon
  <1>11. v.opt = u.opt /\ v.fromPreset = u.fromPreset
    BY <1>7, Zenon DEF Frame
  <1>12. StartWithin(v.opt, v.fromPreset, v.startDate)
    BY <1>2, <1>4, <1>6, <1>7, <1>11, Zenon DEF StartWithin, Early
  <1>13. EndsWithin(v.opt, v.fromPreset, v.startDate, v.endDate)
    BY <1>2, <1>5, <1>6, <1>7, <1>11, Zenon DEF EndsWithin, Late
  <1>14. PickerSane(v) /\ PageInv(v) /\ v.endDate # {}
    BY <1>7, <1>10, <1>12, <1>13, PageFramed, Zenon DEF PickerSane
  <1> QED
    BY <1>8, <1>14, Zenon

\* A new picker, before it reads the page's field.
LEMMA FirstMade ==
    ASSUME NEW v, NEW opt, OptionFields \subseteq DOMAIN opt, PickerFields \subseteq DOMAIN v,
           v.opt = [opt EXCEPT !.autoApply = @ /\ ~opt.timePicker],
           NEW s \in Moment(v.soiled), NEW e \in Moment(v.soiled), ~before(e, s),
           opt.limited => ~before(s, MinDate) /\ ~before(MaxDate, s) /\ ~before(MaxDate, e),
           v.startDate = s, v.endDate = {e}, v.oldStartDate = s, v.oldEndDate = {e},
           NoMonths(v), v.rightHour = {}, v.ranges = rangesOf(opt), v.startField = {}, v.endField = {}
    PROVE  PickerSane(v) /\ v.endDate # {}
  <1>1. v.opt.limited = opt.limited
    BY Zenon DEF OptionFields
  <1>2. StartWithin(v.opt, v.fromPreset, s) /\ EndsWithin(v.opt, v.fromPreset, s, {e})
    BY <1>1, ByDays, Zenon DEF StartWithin, EndsWithin
  <1>3. {e} \subseteq Moment(v.soiled) /\ {e} # {} /\ {} \subseteq Nat /\ {} \subseteq Moment(TRUE)
    BY Zenon
  <1>4. \A r \in v.ranges : /\ r[1] \in Nat /\ r[2] \in Nat /\ r[1] <= r[2]
                            /\ v.opt.limited => r[1] <= MaxDate
    <2>1. \A r \in rangesOf(opt) : r[1] \in Nat /\ r[2] \in Nat /\ r[1] <= r[2] /\ r[1] <= MaxDate
      BY RangesMade, Zenon
    <2> QED
      BY <2>1, Zenon
  <1>5. MonthsFine(v)
    <2>1. NoMonth \in MonthOf(v.soiled)
      BY DEF MonthOf, NoMonth
    <2> QED
      BY <2>1, Zenon DEF MonthsFine, NoMonths
  <1>6. PickerBase(v)
    BY <1>2, <1>3, <1>4, <1>5, Zenon DEF PickerBase
  <1> QED
    BY <1>2, <1>3, <1>6, Zenon DEF PickerSane

\* The constructor.
LEMMA Made ==
    ASSUME NEW u, NEW opt, OptionFields \subseteq DOMAIN opt, opt.given => ~opt.limited,
           \A r \in u.text \cup u.searchStringDate :
             r.range /\ ~opt.given => r.start \in Moment(u.soiled) /\ r.end \in Moment(u.soiled),
           \A r \in u.period \cup u.orphan : Sorted(u.soiled, r)
    PROVE  LET v == DateRangePicker(u, opt) IN PickerSane(v) /\ PageInv(v) /\ v.endDate # {}
  <1> DEFINE range == IF opt.given /\ u.period # {} THEN value(u.period)
                      ELSE text(at(Today, 0), IF opt.given THEN at(Today + 1, 0) ELSE at(Today, Hours - 1), TRUE)
             b == u.soiled \/ ~opt.known
             s == IF opt.known THEN range.start ELSE Invalid
             e == IF opt.known THEN range.end ELSE Invalid
             start == IF opt.limited THEN greater(s, MinDate) ELSE s
             end == IF opt.limited THEN lesser(e, MaxDate) ELSE e
             own == [opt EXCEPT !.autoApply = @ /\ ~opt.timePicker]
             made == [opt |-> own,
                      startDate |-> start, endDate |-> {end}, oldStartDate |-> start, oldEndDate |-> {end},
                      leftMonth |-> NoMonth, rightMonth |-> NoMonth, rightHour |-> {}, isShowing |-> FALSE,
                      calendars |-> ~opt.ranges, ranges |-> rangesOf(opt), chosenLabel |-> "none",
                      startField |-> {}, endField |-> {}, focus |-> "none", applyOffered |-> FALSE,
                      fromPreset |-> FALSE, typed |-> u.typed, soiled |-> b,
                      text |-> u.text, searchStringDate |-> u.searchStringDate, period |-> u.period,
                      pattern |-> u.pattern, orphan |-> u.orphan, listening |-> u.listening, clicks |-> u.clicks]
             written == {r \in u.text : r.range /\ ~opt.given}
             set == IF written = {} THEN made
                    ELSE setEndDate(setStartDate(made, value(written).start), value(written).end)
             v == IF opt.timePicker THEN set
                  ELSE [set EXCEPT !.startDate = startOf(@), !.endDate = {endOf(value(@))}]
  <1>1. DateRangePicker(u, opt) = v
    BY Zenon DEF DateRangePicker
  <1>2. /\ s \in Moment(b) /\ e \in Moment(b) /\ ~before(e, s)
        /\ opt.limited => ~before(s, MinDate) /\ ~before(MaxDate, s) /\ ~before(MaxDate, e)
    BY RangeGiven, Zenon
  <1>3. Moment(u.soiled) \subseteq Moment(b)
    BY MoreMoments, Zenon
  <1> HIDE DEF s, e, range, b
  <1>4. start = s /\ end = e
    BY <1>2, Zenon DEF lesser, greater
  <1> HIDE DEF start, end
  <1>5. own.limited = opt.limited /\ own.given = opt.given /\ own.timePicker = opt.timePicker
        /\ OptionFields \subseteq DOMAIN own
    BY Zenon DEF OptionFields
  <1>6. /\ PickerFields \subseteq DOMAIN made /\ made.opt = own /\ made.soiled = b
        /\ made.startDate = start /\ made.endDate = {end} /\ made.oldStartDate = start
        /\ made.oldEndDate = {end} /\ made.leftMonth = NoMonth /\ made.rightMonth = NoMonth
        /\ made.rightHour = {} /\ made.ranges = rangesOf(opt) /\ made.startField = {}
        /\ made.endField = {} /\ made.text = u.text /\ made.searchStringDate = u.searchStringDate
        /\ made.period = u.period /\ made.orphan = u.orphan
    BY DEF PickerFields
  <1> HIDE DEF made
  <1>7. PickerSane(made) /\ made.endDate # {}
    <2>1. made.opt = [opt EXCEPT !.autoApply = @ /\ ~opt.timePicker] /\ NoMonths(made)
      BY <1>6, Zenon DEF NoMonths
    <2>2. /\ made.startDate = s /\ made.endDate = {e} /\ made.oldStartDate = s /\ made.oldEndDate = {e}
          /\ s \in Moment(made.soiled) /\ e \in Moment(made.soiled)
      BY <1>2, <1>4, <1>6, Zenon
    <2> QED
      BY <1>2, <1>6, <2>1, <2>2, FirstMade, ZenonT(30)
  <1> HIDE DEF own
  <1>8. PageInv(made)
    BY <1>3, <1>5, <1>6, Zenon DEF PageInv, Sorted
  <1>9. PickerSane(set) /\ PageInv(set) /\ set.endDate # {} /\ set.opt = made.opt
    <2>1. CASE written = {}
      BY <1>7, <1>8, <2>1, Zenon
    <2>2. CASE written # {}
      <3> DEFINE x == value(written).start
                 y == value(written).end
                 w == setEndDate(setStartDate(made, x), y)
      <3>1. set = w
        BY <2>2, Zenon
      <3>2. value(written) \in written
        BY <2>2, ValueOf, Zenon
      <3>3. x \in Moment(made.soiled) /\ y \in Moment(made.soiled)
        BY <1>3, <1>6, <3>2, Zenon
      <3> HIDE DEF x, y
      <3>4. PickerBase(made)
        BY <1>7, Zenon DEF PickerSane
      <3>5. /\ Stepped(made, w) /\ w.endDate # {} /\ StartWithin(w.opt, w.fromPreset, w.startDate)
            /\ EndsWithin(w.opt, w.fromPreset, w.startDate, w.endDate)
        BY <3>3, <3>4, BothDates, Zenon
      <3> HIDE DEF w
      <3>6. PickerSane(w) /\ PageInv(w) /\ w.opt = made.opt
        BY <1>8, <3>5, PageFramed, Zenon DEF PickerSane, Stepped, Frame
      <3> QED
        BY <3>1, <3>5, <3>6, Zenon
    <2> QED
      BY <2>1, <2>2
  <1> HIDE DEF set
  <1>10. CASE opt.timePicker
    BY <1>1, <1>9, <1>10, Zenon
  <1>11. CASE ~opt.timePicker
    <2>1. ~set.opt.timePicker
      BY <1>5, <1>6, <1>9, <1>11, Zenon
    <2>2. v = [set EXCEPT !.startDate = startOf(@), !.endDate = {endOf(value(@))}]
      BY <1>11, Zenon
    <2> QED
      BY <1>1, <1>9, <2>1, <2>2, WholeDays, Zenon
  <1> QED
    BY <1>10, <1>11

\* What of the page's state the proof of focused looks at.
PageFields == {"opt", "soiled", "text", "searchStringDate", "period", "orphan"}

\* A page makes a picker that shows.
LEMMA Focused ==
    ASSUME NEW u, PageFields \subseteq DOMAIN u, PageInv(u),
           u.isShowing /\ u.listening => Sorted(u.soiled, picked(reverted(u)))
    PROVE  PickerInv(focused(u))
  <1> DEFINE opt == IF u.opt.given THEN [u.opt EXCEPT !.timePicker = u.pattern # {"YYYY-MM-DD"},
                                                      !.known = u.pattern # {}]
                    ELSE u.opt
             left == IF u.isShowing /\ u.listening THEN {picked(reverted(u))} ELSE {}
             w == [u EXCEPT !.orphan = left]
             v == DateRangePicker(w, opt)
  <1>1. focused(u) = opened(v)
    BY Zenon DEF focused
  <1>2. OptionFields \subseteq DOMAIN opt /\ opt.given = u.opt.given /\ opt.limited = u.opt.limited
    BY Zenon DEF OptionFields, PageInv
  <1>3. \A r \in left : Sorted(u.soiled, r)
    BY Zenon
  <1> HIDE DEF opt, left
  <1>4. /\ w.soiled = u.soiled /\ w.text = u.text /\ w.searchStringDate = u.searchStringDate
        /\ w.period = u.period /\ w.orphan = left
    BY Zenon DEF PageFields
  <1> HIDE DEF w
  <1>5. opt.given => ~opt.limited
    BY <1>2, Zenon DEF PageInv
  <1>6. \A r \in w.text \cup w.searchStringDate :
          r.range /\ ~opt.given => r.start \in Moment(w.soiled) /\ r.end \in Moment(w.soiled)
    BY <1>2, <1>4, Zenon DEF PageInv
  <1>7. \A r \in w.period \cup w.orphan : Sorted(w.soiled, r)
    BY <1>3, <1>4, Zenon DEF PageInv
  <1>8. PickerSane(v) /\ PageInv(v) /\ v.endDate # {}
    BY <1>2, <1>5, <1>6, <1>7, Made, Zenon
  <1> HIDE DEF v
  <1> QED
    BY <1>1, <1>8, PickerOpened, Zenon

\* The field of the page gets the focus.
LEMMA PickerFieldFocused == ASSUME PickerInv(ui), focusField PROVE PickerInv(ui')
  <1>1. does(focused(ui))
    BY Zenon DEF focusField
  <1>2. PickerSane(ui) /\ PageInv(ui) /\ PickerFields \subseteq DOMAIN ui
    BY Zenon DEF PickerInv, PickerSane, PickerBase
  <1>3. PageFields \subseteq DOMAIN ui
    BY <1>2, Zenon DEF PageFields, PickerFields
  <1>4. reverted(ui).soiled = ui.soiled
    BY <1>2, Zenon DEF reverted, PickerFields
  <1>5. Sorted(ui.soiled, picked(reverted(ui)))
    BY <1>2, <1>4, RevertedWhole, PickedSorted, Zenon
  <1> QED
    BY <1>1, <1>2, <1>3, <1>5, Focused, PickerClicked, Zenon

\* The pages of the web ui, with a picker that shows for the first time.
LEMMA PickerStart == ASSUME InitPicker PROVE PickerInv(ui)
  <1>1. PICK opt \in Options, pattern \in Patterns \cup {{}} : ui = focused(page(opt, pattern))
    BY Zenon DEF InitPicker
  <1> DEFINE u == page(opt, pattern)
  <1>2. OptionFields \subseteq DOMAIN opt /\ (opt.given => ~opt.limited)
    BY DEF Options, option, OptionFields
  <1>3. /\ PageFields \subseteq DOMAIN u /\ u.opt = opt /\ u.text = {} /\ u.searchStringDate = {}
        /\ u.period = {} /\ u.orphan = {} /\ u.isShowing = FALSE
    BY DEF page, PageFields
  <1> HIDE DEF u
  <1>4. PageInv(u)
    BY <1>2, <1>3, Zenon DEF PageInv
  <1>5. PickerInv(focused(u))
    BY <1>3, <1>4, Focused, Zenon
  <1> QED
    BY <1>1, <1>5, Zenon DEF u

\* Every step of the picker keeps the invariant.
LEMMA PickerStep == ASSUME PickerInv(ui), NextPicker PROVE PickerInv(ui')
  <1>1. CASE focusField \/ show
    BY <1>1, PickerFieldFocused, PickerShown, Zenon
  <1>2. CASE outsideClick \/ keydown \/ apply \/ cancel
    BY <1>2, PickerLeft, Zenon
  <1>3. CASE orphanHides \/ rerender \/ patternArrives
    BY <1>3, PickerOrphan, PickerPage, Zenon
  <1>4. ASSUME NEW side \in Side, clickPrev(side) \/ clickNext(side) \/ formInputsFocused(side)
        PROVE  PickerInv(ui')
    BY <1>4, PickerPrev, PickerNext, PickerFocused, Zenon
  <1>5. ASSUME NEW side \in Side, NEW d \in Day \cup {Invalid}, clickDate(side, d) \/ hoverDate(side, d)
        PROVE  PickerInv(ui')
    BY <1>5, PickerDateClicked, PickerHovered, Zenon
  <1>6. ASSUME NEW side \in Side, NEW h \in 0..(Hours - 1), timeChanged(side, h) PROVE PickerInv(ui')
    <2>1. side = "left" \/ side = "right"
      BY Zenon DEF Side
    <2> QED
      BY <1>6, <2>1, PickerStartHour, PickerEndHour, Zenon
  <1>7. ASSUME NEW side \in Side, NEW m \in 0..(Months - 1), monthOrYearChanged(side, m) PROVE PickerInv(ui')
    BY <1>7, PickerMonthChosen, Zenon
  <1>8. CASE mouseLeaves \/ clickRange \/ hoverRange \/ formInputsBlurred
    BY <1>8, PickerMouseLeft, PickerRangeChosen, PickerRangeHovered, PickerBlurred, Zenon
  <1>9. ASSUME NEW t \in Time, formInputsChanged({format(ui, t)}) PROVE PickerInv(ui')
    <2>1. t \in Moment(FALSE) /\ Moment(FALSE) = Nat
      BY DaysAndTimes, Zenon DEF Moment
    <2>2. format(ui, t) \in Nat
      BY <2>1, FormatTime, Zenon
    <2>3. {format(ui, t)} \in SUBSET Nat
      BY <2>2, Zenon
    <2> QED
      BY <1>9, <2>3, PickerTyped, Zenon
  <1>10. CASE formInputsChanged({})
    <2>1. {} \in SUBSET Nat
      BY Zenon
    <2> QED
      BY <1>10, <2>1, PickerTyped, Zenon
  <1>11. ASSUME NEW enough \in BOOLEAN, elementChanged({}, enough) PROVE PickerInv(ui')
    <2>1. Invalid \in Moment(TRUE)
      BY Moments, Zenon
    <2> QED
      BY <1>11, <2>1, PickerElementChanged, Zenon
  <1>12. ASSUME NEW enough \in BOOLEAN, NEW s \in Typing, NEW t \in Typing, NEW range \in BOOLEAN,
                elementChanged({text(s, t, range)}, enough)
         PROVE  PickerInv(ui')
    BY <1>12, TypedMoments, PickerElementChanged, Zenon
  <1> QED
    BY <1>1, <1>2, <1>3, <1>4, <1>5, <1>6, <1>7, <1>8, <1>9, <1>10, <1>11, <1>12, Zenon DEF NextPicker

-----------------------------------------------------------------------------
(* The theorem *)

\* What the picker keeps from one event to the next.
PickerKeeps == part = "picker" /\ PickerInv(ui)

\* For every size of the calendar, and all limits and predefined ranges that satisfy
\* CalendarAssumption, through any number of pickers made for the same field: the range that
\* the picker holds is in order and within the limits, and valid as long as no range with a
\* date that is none was typed into the history's field and the audit log's field was left
\* alone until its format came; it is whole when the picker is closed, the page then filters
\* by it, and linked calendars show two months in a row (daterangepicker.js).
THEOREM PickersAreSound == SpecPicker => []PickerSound
  <1>1. part = "picker" /\ InitPicker => PickerKeeps
    BY PickerStart, Zenon DEF PickerKeeps
  <1>2. PickerKeeps /\ [NextPicker /\ UNCHANGED part]_vars => PickerKeeps'
    <2>1. ASSUME PickerKeeps, NextPicker, UNCHANGED part PROVE PickerKeeps'
      <3>1. PickerInv(ui')
        BY <2>1, PickerStep, Zenon DEF PickerKeeps
      <3> QED
        BY <2>1, <3>1, Zenon DEF PickerKeeps
    <2>2. ASSUME PickerKeeps, UNCHANGED vars PROVE PickerKeeps'
      BY <2>2, Zenon DEF PickerKeeps, vars
    <2> QED
      BY <2>1, <2>2, Zenon
  <1>3. PickerKeeps => PickerSound
    BY PickerPromise, Zenon DEF PickerKeeps, PickerSound
  <1> QED
    BY <1>1, <1>2, <1>3, PTL DEF SpecPicker
=============================================================================
