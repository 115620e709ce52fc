-------------------------------- MODULE Moment --------------------------------
(***************************************************************************)
(* The calendar arithmetic of dateRangePicker/moment.js, and the month     *)
(* sheet that the date range picker draws with it.  A moment is a number   *)
(* of ticks, Ticks of them make a day; it has no time zone.  Months count  *)
(* from 0 and weekdays from Sunday = 0, as in the code.                    *)
(***************************************************************************)
EXTENDS Integers, Sequences

CONSTANT Ticks

min(a, b) == IF a < b THEN a ELSE b

-----------------------------------------------------------------------------
(* JavaScript's Date, which takes months and days of any size *)

isLeapYear(year) == (year % 4 = 0 /\ year % 100 # 0) \/ year % 400 = 0
daysInYear(year) == IF isLeapYear(year) THEN 366 ELSE 365

daysBefore == <<0, 31, 59, 90, 120, 151, 181, 212, 243, 273, 304, 334, 365>>
yearStart(y) == 365 * (y - 1) + (y - 1) \div 4 - (y - 1) \div 100 + (y - 1) \div 400
monthStart(y, m) == yearStart(y) + daysBefore[m + 1] + (IF m > 1 /\ isLeapYear(y) THEN 1 ELSE 0)
UTC(y, m, d) == monthStart(y + m \div 12, m % 12) + d - 1

dayOf(t) == t \div Ticks
year(t) == LET guess == (dayOf(t) * 400) \div 146097
           IN CHOOSE y \in guess..(guess + 2) : yearStart(y) <= dayOf(t) /\ dayOf(t) < yearStart(y + 1)
month(t) == CHOOSE m \in 0..11 : /\ monthStart(year(t), m) <= dayOf(t)
                                 /\ dayOf(t) < UTC(year(t), m + 1, 1)
date(t) == dayOf(t) - monthStart(year(t), month(t)) + 1
tick(t) == t % Ticks
day(t) == (dayOf(t) + 1) % 7
create(y, m, d, h) == UTC(y, m, d) * Ticks + h

-----------------------------------------------------------------------------
(* Setting, adding, the bounds of a unit *)

daysInMonth(y, m) == UTC(y, m + 1, 1) - UTC(y, m, 1)

setMonth(t, value) ==
    create(year(t), value, min(date(t), daysInMonth(year(t), value)), tick(t))
setDate(t, value) == create(year(t), month(t), value, tick(t))
setYear(t, value) == create(value, month(t), date(t), tick(t))

Unit == {"year", "quarter", "month", "week", "isoWeek", "day"}
noTime == [months |-> 0, days |-> 0, ticks |-> 0]
Duration(n, unit) ==
    CASE unit = "year" -> [noTime EXCEPT !.months = 12 * n]
      [] unit = "quarter" -> [noTime EXCEPT !.months = 3 * n]
      [] unit = "month" -> [noTime EXCEPT !.months = n]
      [] unit \in {"week", "isoWeek"} -> [noTime EXCEPT !.days = 7 * n]
      [] unit = "day" -> [noTime EXCEPT !.days = n]
      [] OTHER -> [noTime EXCEPT !.ticks = n]
addDays(t, n) == IF n = 0 THEN t ELSE setDate(t, date(t) + n)
addMonths(t, n) == IF n = 0 THEN t ELSE setMonth(t, month(t) + n)
addSubtract(t, duration, isAdding) ==
    addMonths(addDays(t + duration.ticks * isAdding, duration.days * isAdding), duration.months * isAdding)
add(t, n, unit) == addSubtract(t, Duration(n, unit), 1)
subtract(t, n, unit) == addSubtract(t, Duration(n, unit), -1)

getDayOfWeek(t, dow) == (day(t) + 7 - dow) % 7
setDayOfWeek(t, dow, input) == add(t, input - getDayOfWeek(t, dow), "day")
setISODayOfWeek(t, input) == add(t, (IF day(t) = 0 THEN input - 7 ELSE input) - day(t), "day")
getISODayOfWeek(t) == IF day(t) = 0 THEN 7 ELSE day(t)
getQuarter(t) == month(t) \div 3 + 1
setQuarter(t, input) == setMonth(t, (input - 1) * 3 + (month(t) % 3))

firstOfQuarter(t) == setMonth(t, (month(t) \div 3) * 3)
midnightOf(t, unit) ==
    CASE unit = "year" -> setDate(setMonth(t, 0), 1)
      [] unit = "quarter" -> firstOfQuarter(setDate(t, 1))
      [] unit = "month" -> setDate(t, 1)
      [] unit = "week" -> setDayOfWeek(t, 0, 0)
      [] unit = "isoWeek" -> setISODayOfWeek(t, 1)
      [] OTHER -> t
startOf(t, unit) == midnightOf(t - tick(t), unit)
endOf(t, unit) == subtract(add(startOf(t, unit), 1, unit), 1, "tick")

isAfter(t, input, unit) == input < startOf(t, unit)
isBefore(t, input, unit) == endOf(t, unit) < input
isSame(t, input, unit) == startOf(t, unit) <= input /\ input <= endOf(t, unit)
isBetween(t, from, to, unit, inclusive) ==
    /\ IF inclusive THEN ~isBefore(t, from, unit) ELSE isAfter(t, from, unit)
    /\ IF inclusive THEN ~isAfter(t, to, unit) ELSE isBefore(t, to, unit)

-----------------------------------------------------------------------------
(* Differences.  A month is a rational: a whole number and a part of the anchor month. *)

absFloor(num, den) == IF num < 0 THEN -((-num) \div den) ELSE num \div den
monthsApart(a, b) == (year(b) - year(a)) * 12 + month(b) - month(a)
partOfMonth(b, whole, anchor, length) == [num |-> -(whole * length + b - anchor), den |-> length]
afterAnchor(a, b, whole, anchor) ==
    partOfMonth(b, whole, anchor, IF b < anchor THEN anchor - add(a, whole - 1, "month")
                                  ELSE add(a, whole + 1, "month") - anchor)
wholeMonths(a, b, whole) == afterAnchor(a, b, whole, add(a, whole, "month"))
monthDiff(a, b) == wholeMonths(a, b, monthsApart(a, b))
monthsIn(n, months) == absFloor(months.num, n * months.den)
diff(t, that, unit) ==
    CASE unit \in {"month", "quarter", "year"} ->
           monthsIn(CASE unit = "month" -> 1 [] unit = "quarter" -> 3 [] unit = "year" -> 12, monthDiff(t, that))
      [] unit = "week" -> absFloor(t - that, 7 * Ticks)
      [] unit = "day" -> absFloor(t - that, Ticks)
      [] OTHER -> t - that    \* isoWeek too

monthsAndRest(base, other, months) == [months |-> months, ticks |-> other - add(base, months, "month")]
stepBack(base, other, months) == IF add(base, months, "month") > other THEN months - 1 ELSE months
positiveMomentsDifference_NoStepBack(base, other) ==
    monthsAndRest(base, other, monthsApart(base, other))
positiveMomentsDifference(base, other) ==
    monthsAndRest(base, other, stepBack(base, other, monthsApart(base, other)))
negated(duration) == [p \in DOMAIN duration |-> -duration[p]]
momentsDifference(base, other) ==
    IF base < other THEN positiveMomentsDifference(base, other)
    ELSE negated(positiveMomentsDifference(other, base))

-----------------------------------------------------------------------------
(* Weeks: dow is the first day of the week, doy fixes which week is the first *)

getDayOfYear(t) == dayOf(startOf(t, "day")) - dayOf(startOf(t, "year")) + 1
firstWeekOffset(y, dow, doy) ==
    LET fwd == 7 + dow - doy
        fwdlw == (7 + day(create(y, 0, fwd, 0)) - dow) % 7
    IN fwd - fwdlw - 1
weeksInYear(y, dow, doy) ==
    (daysInYear(y) - firstWeekOffset(y, dow, doy) + firstWeekOffset(y + 1, dow, doy)) \div 7

dayOfYearFromWeeks_SameYear(y, week, weekday, dow, doy) ==
    [year |-> y,
     dayOfYear |-> 1 + 7 * (week - 1) + ((7 + weekday - dow) % 7)
                     + (firstWeekOffset(y, dow, doy) % 7)]
dayOfYearFromWeeks(y, week, weekday, dow, doy) ==
    LET n == 1 + 7 * (week - 1) + ((7 + weekday - dow) % 7) + firstWeekOffset(y, dow, doy)
    IN CASE n <= 0 -> [year |-> y - 1, dayOfYear |-> daysInYear(y - 1) + n]
         [] n > daysInYear(y) -> [year |-> y + 1, dayOfYear |-> n - daysInYear(y)]
         [] OTHER -> [year |-> y, dayOfYear |-> n]
weekOfWeekYear(y, week, dow, doy) ==
    CASE week < 1 -> [year |-> y - 1, week |-> week + weeksInYear(y - 1, dow, doy)]
      [] week > weeksInYear(y, dow, doy) -> [year |-> y + 1, week |-> week - weeksInYear(y, dow, doy)]
      [] OTHER -> [year |-> y, week |-> week]
weekOfYear(t, dow, doy) ==
    weekOfWeekYear(year(t), (getDayOfYear(t) - firstWeekOffset(year(t), dow, doy) - 1) \div 7 + 1, dow, doy)

nthDay(data) == create(data.year, 0, data.dayOfYear, 0)
setTo(t, to) == setDate(setMonth(setYear(t, year(to)), month(to)), date(to))
setWeekAll(t, weekYear, week, weekday, dow, doy) ==
    setTo(t, nthDay(dayOfYearFromWeeks(weekYear, week, weekday, dow, doy)))
getSetWeekYearHelper(t, input, week, weekday, dow, doy) ==
    setWeekAll(t, input, min(week, weeksInYear(input, dow, doy)), weekday, dow, doy)
setWeek(t, input, dow, doy) == add(t, (input - weekOfYear(t, dow, doy).week) * 7, "day")

-----------------------------------------------------------------------------
(* Making a moment from what a text holds: a part that it does not hold is {} *)

value(s) == CHOOSE x \in s : TRUE
orElse(part, default) == IF part = {} THEN default ELSE value(part)

\* A text that names a week: the day of the year, or the reason why there is none.
dayOfWeekInfo(weekYear, week, weekday, dow, doy) ==
    IF week < 1 \/ week > weeksInYear(weekYear, dow, doy) THEN [overflow |-> "week", data |-> {}]
    ELSE IF weekday \notin dow..(dow + 6) THEN [overflow |-> "weekday", data |-> {}]
    ELSE [overflow |-> "none", data |-> {dayOfYearFromWeeks(weekYear, week, weekday, dow, doy)}]
dayOfYearFromWeekInfo(w, givenYear, now, dow, doy) ==
    dayOfWeekInfo(orElse(w.year, orElse(givenYear, weekOfYear(now, dow, doy).year)),
                  orElse(w.week, 1), orElse(w.weekday, dow), dow, doy)

\* What is missing before the first part that is given is today's, after it the lowest.
atNthDay(a, nth, y) ==
    IF nth = {} THEN a
    ELSE LET first == create(y, 0, value(nth), 0)
         IN [a EXCEPT !.month = {month(first)}, !.date = {date(first)}]
configOf(a, given, y, now, overflow) ==
    [year |-> y,
     month |-> orElse(a.month, IF given = {} THEN month(now) ELSE 0),
     date |-> orElse(a.date, IF given = {} /\ a.month = {} THEN date(now) ELSE 1),
     hour |-> orElse(a.hour, 0), overflow |-> overflow]
configFrom(a, given, nth, y, now, overflow) ==
    configOf(atNthDay(a, nth, y), given, y, now,
             overflow \cup {"dayOfYear" : n \in {n \in nth : n > daysInYear(y)}})
configWithWeek(a, found, now) ==
    LET given == IF found.data = {} THEN a.year ELSE {value(found.data).year}
        nth == (IF found.data = {} THEN a.dayOfYear ELSE {value(found.data).dayOfYear}) \ {0}
    IN configFrom(a, given, nth, orElse(given, year(now)), now, {found.overflow} \ {"none"})
configFromArray(a, now, dow, doy) ==
    configWithWeek(a, IF a.w # {} /\ a.month = {} /\ a.date = {}
                      THEN dayOfYearFromWeekInfo(value(a.w), a.year, now, dow, doy)
                      ELSE [overflow |-> "none", data |-> {}], now)

checkOverflow_Lenient(a) == IF a.month \in 0..11 /\ a.date \in 1..31 THEN "none" ELSE "date"
checkOverflow(a) ==
    CASE a.month \notin 0..11 -> "month"
      [] a.month \in 0..11 /\ a.date \notin 1..daysInMonth(a.year, a.month) -> "date"
      [] OTHER -> IF "dayOfYear" \in a.overflow THEN "date"
                  ELSE IF a.hour \notin 0..Ticks THEN "hour"
                  ELSE orElse(a.overflow, "none")
\* 24 o'clock is the next day.
createFromConfig(a) ==
    IF a.hour = Ticks THEN add(create(a.year, a.month, a.date, 0), 1, "day")
    ELSE create(a.year, a.month, a.date, a.hour)

-----------------------------------------------------------------------------
(* Durations.  Quotients of JavaScript round to zero, remainders take the sign. *)

absCeil(num, den) == IF num < 0 THEN -((den - 1 - num) \div den) ELSE (num + den - 1) \div den
rem(num, den) == num - den * absFloor(num, den)
bubble(duration) ==
    LET mixed == /\ \E p \in DOMAIN duration : duration[p] < 0
                 /\ \E p \in DOMAIN duration : duration[p] > 0
        down == IF ~mixed THEN duration
                ELSE [noTime EXCEPT !.ticks = duration.ticks
                        + absCeil(duration.months * 146097 + duration.days * 4800, 4800) * Ticks]
        days == down.days + absFloor(down.ticks, Ticks)
        fromDays == absFloor(days * 4800, 146097)
        months == down.months + fromDays
    IN [ticks |-> rem(down.ticks, Ticks), days |-> days - absCeil(fromDays * 146097, 4800),
        months |-> rem(months, 12), years |-> absFloor(months, 12)]

\* The words for a span of so many seconds; a month has 2629746 of them.
rounded(num, den) == (2 * num + den) \div (2 * den)
relativeTime(seconds) ==
    LET minutes == rounded(seconds, 60)
        hours == rounded(seconds, 3600)
        days == rounded(seconds, 86400)
        months == rounded(seconds, 2629746)
        years == rounded(seconds, 31556952)
    IN CASE seconds < 45 -> <<"s", IF seconds = 0 THEN 1 ELSE seconds>>
         [] seconds >= 45 /\ minutes <= 1 -> <<"m", 1>>
         [] minutes > 1 /\ minutes < 45 -> <<"mm", minutes>>
         [] minutes >= 45 /\ hours <= 1 -> <<"h", 1>>
         [] hours > 1 /\ hours < 22 -> <<"hh", hours>>
         [] hours >= 22 /\ days <= 1 -> <<"d", 1>>
         [] days > 1 /\ days < 26 -> <<"dd", days>>
         [] days >= 26 /\ months <= 1 -> <<"M", 1>>
         [] months > 1 /\ months < 11 -> <<"MM", months>>
         [] months >= 11 /\ years <= 1 -> <<"y", 1>>
         [] OTHER -> <<"yy", years>>

-----------------------------------------------------------------------------
(* renderCalendar of the date range picker: the 42 days of the sheet of a month *)

renderCalendar_NoWholeWeek(y, m, firstDay) ==
    LET daysInLastMonth == daysInMonth(y, m - 1)
        asked == daysInLastMonth - day(create(y, m, 1, 0)) + firstDay + 1
    IN [i \in 0..41 |-> UTC(y, m - 1, asked) + i]
renderCalendar(y, m, firstDay) ==
    LET daysInLastMonth == daysInMonth(y, m - 1)
        dayOfWeek == day(create(y, m, 1, 0))
        asked == daysInLastMonth - dayOfWeek + firstDay + 1
        startDay == IF dayOfWeek = firstDay THEN daysInLastMonth - 6
                    ELSE IF asked > daysInLastMonth THEN asked - 7 ELSE asked
    IN [i \in 0..41 |-> UTC(y, m - 1, startDay) + i]

===============================================================================
