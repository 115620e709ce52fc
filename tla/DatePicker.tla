------------------------------ MODULE DatePicker ------------------------------
(***************************************************************************)
(* The date range picker (dateRangePicker/daterangepicker.js) and the      *)
(* pages that it is attached to: the query history and the audit log.  A   *)
(* time is a number of slots, Hours of them make a day and Days days a     *)
(* month; a text that is no date is read as a moment that is not valid,    *)
(* which no comparison holds of.  The picker has two calendars side by     *)
(* side, two fields above them and two menus for the hour.  The end of the *)
(* range is missing while the user picks it.                               *)
(*                                                                         *)
(* The page makes a new picker whenever its field gets the focus, the      *)
(* first time before the model starts.  A picker that is replaced while it *)
(* shows goes on listening to the document (orphan): a press of the mouse  *)
(* outside the calendars makes it report its range to the page and stops   *)
(* all listening, also that of the picker that took its place.             *)
(***************************************************************************)
EXTENDS EditorClient

CONSTANTS Hours, Days, Months,      \* slots of a day, days of a month, months that are used
          Spill,                    \* days of the neighbouring months that a calendar also shows
          MinDate, MaxDate,         \* the limits of the picker, where the option asks for them
          DateLimit,                \* the longest range, where the option asks for one
          PresetStart, PresetEnd,   \* the predefined range
          Today                     \* the day the pickers are made

\* Times count in slots.  The constructor checks its options only in part, and these are the
\* ones it gets right: today is within the limits, and the predefined range begins before
\* the last time and, if it ends on the first day, not before the first time (the
\* constructor compares the two by days only).
ASSUME CalendarAssumption ==
    /\ {Hours, Days, Months} \subseteq Nat \ {0} /\ {DateLimit, Today, MinDate} \subseteq Nat
    /\ MinDate <= Today * Hours /\ Today * Hours + (Hours - 1) <= MaxDate /\ MaxDate \in Nat
    /\ PresetStart \in 0..MaxDate /\ PresetEnd \in Nat /\ PresetStart <= PresetEnd
    /\ PresetEnd \div Hours = MinDate \div Hours => MinDate <= PresetEnd

\* ui is the picker and the page's state about it; server is not used.

Preset == <<PresetStart, PresetEnd>>

\* How the query history and the audit log make the picker, and with everything it can do.
\* The audit log gives the picker its range (given) and learns the format from the
\* coordinator, which also tells whether there is an hour; until then nothing can be read.
option(timePicker, given, linked, autoApply, limited, ranges, dropdowns) ==
    [timePicker |-> timePicker, given |-> given, known |-> ~given, linkedCalendars |-> linked,
     autoApply |-> autoApply, limited |-> limited, dateLimit |-> limited, ranges |-> ranges,
     showDropdowns |-> dropdowns]
Options == {option(TRUE, FALSE, FALSE, FALSE, FALSE, FALSE, FALSE),
            option(TRUE, TRUE, FALSE, FALSE, FALSE, FALSE, FALSE),
            option(FALSE, FALSE, TRUE, TRUE, TRUE, TRUE, TRUE),
            option(TRUE, FALSE, TRUE, FALSE, TRUE, TRUE, FALSE)}
Patterns == {{"YYYY-MM-DD"}, {"YYYY-MM-DD.HH"}}

Invalid == -3       \* a moment that is not valid, its day and its month
NoMonth == -2       \* a calendar that was never drawn

Time == 0..(Hours * Days * Months - 1)
Day == 0..(Days * Months - 1)
before(s, t) == s \in Nat /\ t \in Nat /\ s < t
plus(t, n) == IF t = Invalid THEN Invalid ELSE t + n
day(t) == IF t = Invalid THEN Invalid ELSE t \div Hours
month(t) == IF t = Invalid THEN Invalid ELSE day(t) \div Days
hour(t) == IF t = Invalid THEN 0 ELSE t % Hours     \* what a menu of hours then shows
at(d, h) == IF d = Invalid THEN Invalid ELSE d * Hours + h
startOf(t) == at(day(t), 0)
endOf(t) == at(day(t), Hours - 1)
lesser(s, t) == IF before(t, s) THEN t ELSE s
greater(s, t) == IF before(s, t) THEN t ELSE s
value(s) == CHOOSE x \in s : TRUE
Side == {"left", "right"}

\* The formats of the fields have the hour only with the time picker.  A text is a range or
\* a single date.
format(u, t) == IF u.opt.timePicker THEN t ELSE startOf(t)
text(s, t, range) == [start |-> s, end |-> t, range |-> range]
picked(u) == text(format(u, u.startDate), format(u, value(u.endDate)), TRUE)

-----------------------------------------------------------------------------
(* The two dates *)

visible(u, t) == month(t) \in {u.leftMonth, u.rightMonth}
following(m) == plus(m, 1)
nextTo(u, m) == [u EXCEPT !.leftMonth = m, !.rightMonth = following(m)]
linkedWithin(u) ==
    IF u.opt.limited /\ u.opt.linkedCalendars /\ u.rightMonth > month(MaxDate)
    THEN nextTo(u, month(MaxDate) - 1) ELSE u
updateMonthsInView_OneSided(u) ==
    IF u.endDate = {} THEN linkedWithin(IF visible(u, u.startDate) THEN u ELSE nextTo(u, month(u.startDate)))
    ELSE IF visible(u, u.startDate) /\ visible(u, value(u.endDate)) THEN u
    ELSE linkedWithin([u EXCEPT !.leftMonth = month(u.startDate),
            !.rightMonth = IF month(value(u.endDate)) # month(u.startDate)
                           THEN month(value(u.endDate)) ELSE following(month(u.startDate))])
updateMonthsInView(u) ==
    IF u.endDate = {} THEN linkedWithin(IF visible(u, u.startDate) THEN u ELSE nextTo(u, month(u.startDate)))
    ELSE IF visible(u, u.startDate) /\ visible(u, value(u.endDate)) THEN u
    ELSE linkedWithin([u EXCEPT !.leftMonth = month(u.startDate),
            !.rightMonth = IF ~u.opt.linkedCalendars /\ month(value(u.endDate)) # month(u.startDate)
                           THEN month(value(u.endDate)) ELSE following(month(u.startDate))])

setStartDate(u, t) ==
    LET whole == IF u.opt.timePicker THEN t ELSE startOf(t)
        within == IF u.opt.limited THEN lesser(greater(whole, MinDate), MaxDate) ELSE whole
    IN updateMonthsInView([u EXCEPT !.startDate = within])

setEndDate_Unordered(u, t) ==
    LET whole == IF u.opt.timePicker THEN t ELSE endOf(t)
        within == IF u.opt.limited THEN lesser(whole, MaxDate) ELSE whole
        limited == IF u.opt.dateLimit THEN lesser(within, plus(u.startDate, DateLimit)) ELSE within
    IN updateMonthsInView([u EXCEPT !.endDate = {limited}])
setEndDate(u, t) ==
    LET whole == IF u.opt.timePicker THEN t ELSE endOf(t)
        ordered == greater(whole, u.startDate)
        within == IF u.opt.limited THEN lesser(ordered, MaxDate) ELSE ordered
        limited == IF u.opt.dateLimit THEN lesser(within, plus(u.startDate, DateLimit)) ELSE within
    IN updateMonthsInView([u EXCEPT !.endDate = {limited}])

-----------------------------------------------------------------------------
(* What is drawn *)

\* The menu of the end's hour keeps what it shows, within the start and the last time.
\* With a limit on the range the last time is the later one of the two.
latest(u) == CASE u.opt.dateLimit /\ u.opt.limited -> {greater(MaxDate, plus(u.startDate, DateLimit))}
               [] u.opt.dateLimit /\ ~u.opt.limited -> {plus(u.startDate, DateLimit)}
               [] u.opt.limited /\ ~u.opt.dateLimit -> {MaxDate}
               [] OTHER -> {}
renderTimePicker(u) ==
    IF ~u.opt.timePicker \/ u.endDate = {} THEN u
    ELSE LET end == value(u.endDate)
             kept == IF u.rightHour = {} THEN end ELSE at(day(end), value(u.rightHour))
             ordered == greater(kept, u.startDate)
             selected == IF \E t \in latest(u) : before(t, ordered) THEN value(latest(u)) ELSE ordered
         IN [u EXCEPT !.rightHour = {hour(selected)}]

offersHour(u, side, h) ==
    LET t == at(day(IF side = "left" THEN u.startDate ELSE value(u.endDate)), h)
    IN /\ side = "right" => ~before(t, u.startDate)
       /\ side = "left" /\ u.opt.limited => ~before(t, MinDate)
       /\ \A last \in latest(u) : ~before(last, t)

\* The fields above the calendars and the button to apply, unless a field has the focus.
updateFormInputs(u) ==
    IF u.focus # "none" THEN u
    ELSE [u EXCEPT !.startField = {format(u, u.startDate)},
                   !.endField = IF u.endDate = {} THEN @ ELSE {format(u, value(u.endDate))},
                   !.applyOffered = \E end \in u.endDate \ {Invalid} :
                                      u.startDate # Invalid /\ u.startDate <= end]

\* The label of the predefined range with the same dates; without one the calendars show.
calculateChosenLabel(u) ==
    LET same(s, t) == IF u.opt.timePicker THEN s = t ELSE day(s) = day(t)
    IN IF \E r \in u.ranges : same(u.startDate, r[1]) /\ \A end \in u.endDate : same(end, r[2])
       THEN [u EXCEPT !.chosenLabel = "preset"]
       ELSE [u EXCEPT !.chosenLabel = "custom", !.calendars = TRUE]
updateCalendars(u) == IF u.endDate = {} THEN u ELSE calculateChosenLabel(u)
updateView(u) == updateFormInputs(updateCalendars(updateMonthsInView(renderTimePicker(u))))

\* The days of a calendar, the time of a day's cell, and which cells can be clicked.  A
\* calendar of no month has cells of no date.
monthOf(u, side) == IF side = "left" THEN u.leftMonth ELSE u.rightMonth
cells(u, side) ==
    IF monthOf(u, side) = Invalid THEN {Invalid}
    ELSE Day \cap (monthOf(u, side) * Days - Spill)..((monthOf(u, side) + 1) * Days - 1 + Spill)
cellHour(u) == IF ~u.opt.timePicker THEN 0
               ELSE IF u.endDate # {} THEN hour(u.startDate) ELSE value(u.rightHour)
cell(u, side, d) ==
    LET t == at(d, cellHour(u))
    IN CASE u.opt.limited /\ side = "left" /\ d = day(MinDate) -> greater(t, MinDate)
         [] u.opt.limited /\ side = "right" /\ d = day(MaxDate) -> lesser(t, MaxDate)
         [] OTHER -> t
available(u, d) ==
    /\ u.opt.limited => ~before(d, day(MinDate)) /\ ~before(day(MaxDate), d)
    /\ u.endDate = {} /\ u.opt.dateLimit => ~before(day(plus(u.startDate, DateLimit)), d)
offersPrev(u, side) ==
    /\ side = "right" => before(u.startDate, at(monthOf(u, side) * Days, 0))
    /\ side = "left" /\ u.opt.limited => before(MinDate, at(monthOf(u, side) * Days, 0))
    /\ u.opt.linkedCalendars => side = "left"
offersNext(u, side) ==
    /\ u.opt.limited => before(at((monthOf(u, side) + 1) * Days - 1, 0), MaxDate)
    /\ u.opt.linkedCalendars => side = "right"

-----------------------------------------------------------------------------
(* The constructor *)

\* A predefined range is cut at the limits.  With a limit on its length the last day
\* allowed moves out, so that it is neither shortened to that length nor cut there.
rangesOf(opt) ==
    LET start == IF opt.limited THEN greater(Preset[1], MinDate) ELSE Preset[1]
        max == IF opt.dateLimit THEN greater(start + DateLimit, MaxDate) ELSE MaxDate
        end == IF opt.limited THEN lesser(Preset[2], max) ELSE Preset[2]
        offered == opt.limited => day(end) >= day(MinDate) /\ day(start) <= day(max)
    IN IF opt.ranges /\ offered THEN {<<start, end>>} ELSE {}

\* The range is today, the one that the page gives, or the one in the page's field, which is
\* not checked to be one.  What the page has is left as it is; soiled remembers that a picker
\* was made before the format was known.
DateRangePicker(u, opt) ==
    LET range == IF opt.given /\ u.period # {} THEN value(u.period)
                 ELSE text(at(Today, 0), IF opt.given THEN at(Today + 1, 0) ELSE at(Today, Hours - 1), TRUE)
        read(t) == IF opt.known THEN t ELSE Invalid
        start == IF opt.limited THEN greater(read(range.start), MinDate) ELSE read(range.start)
        end == IF opt.limited THEN lesser(read(range.end), MaxDate) ELSE read(range.end)
        made == [opt |-> [opt EXCEPT !.autoApply = @ /\ ~opt.timePicker],
                 startDate |-> start, endDate |-> {end}, oldStartDate |-> start, oldEndDate |-> {end},
                 leftMonth |-> NoMonth, rightMonth |-> NoMonth, rightHour |-> {}, isShowing |-> FALSE,
                 calendars |-> ~opt.ranges, ranges |-> rangesOf(opt), chosenLabel |-> "none",
                 startField |-> {}, endField |-> {}, focus |-> "none", applyOffered |-> FALSE,
                 fromPreset |-> FALSE, typed |-> u.typed, soiled |-> u.soiled \/ ~opt.known,
                 text |-> u.text, searchStringDate |-> u.searchStringDate, period |-> u.period,
                 pattern |-> u.pattern, orphan |-> u.orphan, listening |-> u.listening, clicks |-> u.clicks]
        written == {r \in u.text : r.range /\ ~opt.given}
        set == IF written = {} THEN made
               ELSE setEndDate(setStartDate(made, value(written).start), value(written).end)
    IN IF opt.timePicker THEN set
       ELSE [set EXCEPT !.startDate = startOf(@), !.endDate = {endOf(value(@))}]

-----------------------------------------------------------------------------
(* Opening and closing.  The page's handler for "hide" takes the range into the filter if *)
(* there is something in its field, the one for "apply" always, the one for "cancel"      *)
(* clears the filter.  The audit log filters by a period of its own, the history by the   *)
(* text.                                                                                  *)

filter(u) == IF u.opt.given THEN u.period ELSE u.searchStringDate
onHide(u, range) ==
    LET taken == IF u.searchStringDate = {} THEN {} ELSE {range}
    IN IF u.opt.given THEN [u EXCEPT !.period = taken] ELSE [u EXCEPT !.searchStringDate = taken]
onApply(u) == [u EXCEPT !.text = {picked(u)}, !.searchStringDate = {picked(u)},
                        !.period = IF u.opt.given THEN {picked(u)} ELSE @]
onCancel(u) == [u EXCEPT !.text = {}, !.searchStringDate = {}, !.period = {}]

reverted(u) == IF u.endDate # {} THEN u
               ELSE [u EXCEPT !.startDate = u.oldStartDate, !.endDate = u.oldEndDate]
closed(u) == [u EXCEPT !.isShowing = FALSE, !.focus = "none", !.typed = FALSE,
                       !.orphan = {}, !.listening = FALSE]
hide_KeepsHalf(u) == IF u.endDate = {} THEN closed(u) ELSE closed(onHide(u, picked(u)))
hide(u) == closed(onHide(reverted(u), picked(reverted(u))))
clickApply(u) == onApply(IF u.isShowing THEN hide(u) ELSE u)
clickCancel(u) == onCancel(hide([u EXCEPT !.startDate = u.oldStartDate, !.endDate = u.oldEndDate]))
opened(u) ==
    [updateView([u EXCEPT !.oldStartDate = u.startDate, !.oldEndDate = u.endDate])
       EXCEPT !.isShowing = TRUE, !.listening = TRUE]

\* The page makes a new picker for its field and the picker shows.  The one that it replaces
\* still listens to the document if it was showing.
focused(u) ==
    LET opt == IF u.opt.given THEN [u.opt EXCEPT !.timePicker = u.pattern # {"YYYY-MM-DD"},
                                                 !.known = u.pattern # {}]
               ELSE u.opt
        left == IF u.isShowing /\ u.listening THEN {picked(reverted(u))} ELSE {}
    IN opened(DateRangePicker([u EXCEPT !.orphan = left], opt))

page(opt, pattern) ==
    [opt |-> opt, text |-> {}, searchStringDate |-> {}, period |-> {}, pattern |-> pattern,
     typed |-> FALSE, soiled |-> FALSE, isShowing |-> FALSE, orphan |-> {}, listening |-> FALSE,
     clicks |-> 0]

InitPicker ==
    /\ \E opt \in Options, pattern \in Patterns \cup {{}} :
         (opt.given \/ pattern = {}) /\ ui = focused(page(opt, pattern))
    /\ server = {}

inPicker(u) == ui.isShowing /\ does(u)

focusField == ui.focus = "none" /\ does(focused(ui))
\* A click into the field that has the focus already.
show == ~ui.isShowing /\ does(opened(ui))
\* A click elsewhere, and the tab or the enter key in the field of the page.
outsideClick == ui.listening /\ inPicker(hide(ui))
keydown == ui.focus = "none" /\ inPicker(hide(ui))
\* The mouse is pressed in the picker, outside the calendars: the replaced one hides.
orphanHides ==
    /\ ui.orphan # {}
    /\ inPicker([onHide(ui, value(ui.orphan)) EXCEPT !.orphan = {}, !.listening = FALSE])
apply == ~ui.opt.autoApply /\ ui.focus = "none" /\ ui.applyOffered /\ inPicker(clickApply(ui))
cancel == ~ui.opt.autoApply /\ ui.focus = "none" /\ inPicker(clickCancel(ui))

\* The page is drawn again with the text of its state, and learns the format.
rerender == /\ ui.text # ui.searchStringDate /\ ui' = [ui EXCEPT !.text = ui.searchStringDate]
            /\ UNCHANGED server
patternArrives == /\ ui.opt.given /\ ui.pattern = {}
                  /\ \E pattern \in Patterns : ui' = [ui EXCEPT !.pattern = pattern]
                  /\ UNCHANGED server

-----------------------------------------------------------------------------
(* The calendars *)

clickPrev(side) ==
    /\ ui.calendars /\ offersPrev(ui, side) /\ monthOf(ui, side) \in {Invalid} \cup 1..Months
    /\ inPicker(updateCalendars(
         IF side = "right" THEN [ui EXCEPT !.rightMonth = plus(@, -1)]
         ELSE [ui EXCEPT !.leftMonth = plus(@, -1),
                         !.rightMonth = IF ui.opt.linkedCalendars THEN plus(@, -1) ELSE @]))
clickNext(side) ==
    /\ ui.calendars /\ offersNext(ui, side) /\ monthOf(ui, side) \in {Invalid} \cup 0..(Months - 2)
    /\ inPicker(updateCalendars(
         IF side = "left" THEN [ui EXCEPT !.leftMonth = plus(@, 1)]
         ELSE [ui EXCEPT !.rightMonth = plus(@, 1),
                         !.leftMonth = IF ui.opt.linkedCalendars THEN plus(@, 1) ELSE @]))

\* The menus of month and year; a calendar of no month stays one.
monthOrYearChanged(side, m) ==
    LET notBeforeStart == IF side = "right" THEN greater(m, month(ui.startDate)) ELSE m
        within == IF ui.opt.limited THEN lesser(greater(notBeforeStart, month(MinDate)), month(MaxDate))
                  ELSE notBeforeStart
        asked == IF monthOf(ui, side) = Invalid THEN Invalid ELSE within
    IN /\ ui.calendars /\ ui.opt.showDropdowns
       /\ inPicker(updateCalendars(
            IF ui.opt.linkedCalendars THEN nextTo(ui, IF side = "left" THEN asked ELSE plus(asked, -1))
            ELSE IF side = "left" THEN [ui EXCEPT !.leftMonth = asked]
            ELSE [ui EXCEPT !.rightMonth = asked]))

\* The first click picks the start, the second the end; a day before the start picks a
\* new start.  The hours come from the menus.
clickDate(side, d) ==
    LET date == cell(ui, side, d)
        hourly(h) == IF ui.opt.timePicker THEN at(day(date), h) ELSE date
        ended == setEndDate(ui, hourly(IF ui.opt.timePicker THEN value(ui.rightHour) ELSE 0))
    IN /\ ui.calendars /\ d \in cells(ui, side) /\ available(ui, d)
       /\ inPicker(updateView(
            IF ui.endDate # {} \/ before(day(date), day(ui.startDate))
            THEN setStartDate([ui EXCEPT !.endDate = {}], hourly(hour(ui.startDate)))
            ELSE IF before(date, ui.startDate) THEN setEndDate(ui, ui.startDate)
            ELSE IF ui.opt.autoApply THEN clickApply(calculateChosenLabel(ended)) ELSE ended))

\* The field of the date that is picked next shows the day under the mouse, until the
\* mouse leaves it.  The other decorations of the days are not modelled.
hoverDate(side, d) ==
    LET date == format(ui, cell(ui, side, d))
    IN /\ ui.calendars /\ d \in cells(ui, side) /\ available(ui, d)
       /\ \/ ui.endDate # {} /\ ui.focus # "start" /\ inPicker([ui EXCEPT !.startField = {date}])
          \/ ui.endDate = {} /\ ui.focus # "end" /\ inPicker([ui EXCEPT !.endField = {date}])
mouseLeaves == ui.isShowing /\ updateFormInputs(ui) # ui /\ inPicker(updateFormInputs(ui))

timeChanged(side, h) ==
    LET start == at(day(ui.startDate), h)
        started == setStartDate(ui, start)
        moved == IF \E end \in ui.endDate : day(end) = day(start) /\ before(end, start)
                 THEN setEndDate(started, start) ELSE started
        redrawn(u) == renderTimePicker(updateFormInputs(updateCalendars(u)))
    IN /\ ui.opt.timePicker /\ ui.calendars
       /\ side = "right" => ui.endDate # {}
       /\ offersHour(ui, side, h)
       /\ \/ side = "left" /\ inPicker(redrawn(moved))
          \/ /\ side = "right"
             /\ inPicker(redrawn(setEndDate([ui EXCEPT !.rightHour = {h}], at(day(value(ui.endDate)), h))))

\* A predefined range, or the entry for a range of one's own.
clickRange ==
    \/ \E r \in ui.ranges :
         inPicker(clickApply([ui EXCEPT
           !.startDate = IF ui.opt.timePicker THEN r[1] ELSE startOf(r[1]),
           !.endDate = {IF ui.opt.timePicker THEN r[2] ELSE endOf(r[2])},
           !.chosenLabel = "preset", !.calendars = FALSE, !.fromPreset = TRUE]))
    \/ ui.opt.ranges /\ inPicker([ui EXCEPT !.chosenLabel = "custom", !.calendars = TRUE])
hoverRange ==
    /\ ui.focus = "none"
    /\ \/ \E r \in ui.ranges : inPicker([ui EXCEPT !.startField = {format(ui, r[1])},
                                                   !.endField = {format(ui, r[2])}])
       \/ ui.opt.ranges /\ inPicker(updateView(ui))

-----------------------------------------------------------------------------
(* The fields *)

formInputsFocused(side) ==
    /\ ui.calendars /\ ui.focus = "none"
    /\ \/ side = "left" /\ inPicker([ui EXCEPT !.focus = "start"])
       \/ /\ side = "right"
          /\ inPicker(updateView(setStartDate([ui EXCEPT !.endDate = {}, !.focus = "end"], ui.startDate)))

\* What a field says is read in the format, if that is known.  The user writes into the field
\* that has the focus; nothing stands for what is no date.
readable(u, field) == u.opt.known /\ field # {} /\ Invalid \notin field
formInputsChanged(written) ==
    LET isRight == ui.focus = "end"
        u == [ui EXCEPT !.startField = IF isRight THEN @ ELSE written,
                        !.endField = IF isRight THEN written ELSE @]
        end == value(u.endField)
        start == IF isRight THEN lesser(value(u.startField), end) ELSE value(u.startField)
        set == setEndDate(setStartDate(u, start), end)
        valid == readable(u, u.startField) /\ readable(u, u.endField)
    IN /\ ui.focus # "none"
       /\ inPicker(updateView(
            IF ~valid THEN u
            ELSE IF isRight THEN [set EXCEPT !.startField = {format(set, set.startDate)}]
            ELSE [set EXCEPT !.endField = {format(set, value(set.endDate))}]))

formInputsBlurred ==
    LET left == [ui EXCEPT !.focus = "none"]
    IN /\ ui.focus # "none"
       /\ inPicker(IF ui.endDate = {} /\ readable(ui, ui.endField)
                   THEN updateView(setEndDate(left, value(ui.endField))) ELSE left)

\* What the user writes into the field of the page goes into the page's state as it stands,
\* and into the picker if it is long enough and can be read, a single date as both ends.
elementChanged(written, enough) ==
    LET soils == ~ui.opt.given /\ \E r \in written : r.range /\ Invalid \in {r.start, r.end}
        u == [ui EXCEPT !.text = written, !.searchStringDate = written, !.typed = TRUE,
                        !.soiled = @ \/ soils]
    IN /\ ui.focus = "none"
       /\ does(IF enough /\ ui.opt.known /\ \E r \in written : Invalid \notin {r.start, r.end}
               THEN updateView(setEndDate(setStartDate(u, value(written).start), value(written).end))
               ELSE u)
Typing == {0, format(ui, Hours), Invalid}

NextPicker == \/ focusField \/ show \/ outsideClick \/ keydown \/ orphanHides \/ apply \/ cancel
              \/ rerender \/ patternArrives
              \/ \E side \in Side :
                   \/ clickPrev(side) \/ clickNext(side) \/ formInputsFocused(side)
                   \/ \E d \in Day \cup {Invalid} : clickDate(side, d) \/ hoverDate(side, d)
                   \/ \E h \in 0..(Hours - 1) : timeChanged(side, h)
                   \/ \E m \in 0..(Months - 1) : monthOrYearChanged(side, m)
              \/ mouseLeaves \/ clickRange \/ hoverRange \/ formInputsBlurred
              \/ \E t \in Time : formInputsChanged({format(ui, t)})
              \/ formInputsChanged({})
              \/ \E enough \in BOOLEAN :
                   \/ elementChanged({}, enough)
                   \/ \E s, t \in Typing, range \in BOOLEAN :
                        (range \/ s = t) /\ elementChanged({text(s, t, range)}, enough)

SpecPicker == part = "picker" /\ InitPicker /\ [][NextPicker /\ UNCHANGED part]_vars

-----------------------------------------------------------------------------

\* However the user clicks, types, changes hours and comes back to the field, the range that
\* the picker holds is never the wrong way round; it is within the limits, by days where the
\* picker has no hours; it is complete when the picker is closed; and what the page filters
\* by is then that range (setStartDate, setEndDate, hide).  A predefined range is taken as
\* it is, and a text in the page's own field goes to the filter as it is.  A range has a date
\* that is not valid only if the user typed a range with one into the field of the history,
\* or came to the field of the audit log before it knew its format: the constructor checks
\* neither.
RangeSound ==
    /\ \A end \in ui.endDate : ~before(end, ui.startDate)
    /\ ui.opt.limited /\ ~ui.fromPreset /\ ui.startDate # Invalid =>
         \A t \in (ui.endDate \cup {ui.startDate}) \ {Invalid} :
           IF ui.opt.timePicker THEN t \in MinDate..MaxDate ELSE day(t) \in day(MinDate)..day(MaxDate)
    /\ ~ui.isShowing => /\ ui.endDate # {}
                        /\ ui.typed \/ filter(ui) \in {{}, {picked(ui)}}
    /\ Invalid \in ui.endDate \cup {ui.startDate} => ui.soiled

\* Linked calendars show two months in a row, whatever moves them (updateMonthsInView,
\* clickPrev, clickNext, monthOrYearChanged).
LinkedStayLinked ==
    ui.opt.linkedCalendars /\ ui.isShowing => ui.rightMonth = following(ui.leftMonth)

\* The range of a picker that is closed is a range, within what the options allow, and linked
\* calendars show months in a row (daterangepicker.js).
PickerSound == part = "picker" => RangeSound /\ LinkedStayLinked
=============================================================================
