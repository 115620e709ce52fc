---------------------------- MODULE WebAlgorithms ----------------------------
(***************************************************************************)
(* The pure computations of the web UI, each applied to every input of a   *)
(* small set: an initial state chooses a topic and an input for it, and    *)
(* the one step of the topic computes what the page would show.  The       *)
(* properties compare the outputs with what they have to be for a reader   *)
(* of the page, stated without the algorithm.                              *)
(***************************************************************************)
EXTENDS Integers, Sequences, FiniteSets, SequencesExt

CONSTANTS Topic,      \* the topics to run
          Ticks,      \* ticks of a day
          Year,       \* years whose ends, and ends of February, are tried
          MaxLength,  \* bound: length of the lists and texts
          MaxNode,    \* bound: plan nodes below the root
          MaxStage    \* bound: stages below the output stage

ASSUME TicksAssumption == Ticks \in Nat \ {0}
ASSUME YearAssumption == Year \subseteq 2 .. 9998
ASSUME LengthAssumption == MaxLength \in Nat \ {0}
ASSUME NodeAssumption == MaxNode \in Nat \ {0} /\ MaxStage \in Nat \ {0}

VARIABLES topic, input,
          output     \* {} until the topic has been computed

M == INSTANCE Moment
Look == INSTANCE QueryLook
Format == INSTANCE WebFormats
Graph == INSTANCE PlanGraphs

vars == <<topic, input, output>>

is(name) == topic = name
computed(result) == output = {} /\ output' = {result} /\ UNCHANGED <<topic, input>>

-----------------------------------------------------------------------------
(* Inputs.                                                                 *)

\* Days around the turn of the year and the end of the months that are short.
Day == UNION {{M!UTC(y, 11, d) : d \in 25 .. 38} \cup {M!UTC(y, 1, d) : d \in 27 .. 31}
                \cup {M!UTC(y, 2, 30), M!UTC(y, 7, 15)} : y \in Year}
Moments == {d * Ticks + h : d \in Day, h \in {0, Ticks - 1}}
WeekRule == {[dow |-> 1, doy |-> 4], [dow |-> 0, doy |-> 6]}    \* ISO 8601, and the default locale

Part(S) == {{}} \cup {{x} : x \in S}
DateText == [year : Part(Year), month : Part({0, 1, 12}), date : Part({0, 29, 31}),
             hour : Part({0, Ticks, Ticks + 1}), dayOfYear : Part({0, 60, 366}), w : {{}}]
WeekText == [year : {{}}, month : {{}}, date : {{}}, hour : {{}}, dayOfYear : {{}},
             w : {{[year |-> y, week |-> w, weekday |-> d]} :
                    y \in Part(Year), w \in Part({0, 1, 53}), d \in Part({0, 3, 8})}]

Lists == UNION {[1 .. n -> 0 .. 3] : n \in 1 .. MaxLength}
Numbers == 0 .. 130 \cup {x * f + d : x \in {1, 9, 10, 59, 60, 61, 99, 100, 999, 1000, 1001, 1023, 1024, 1025},
                                      f \in {1000, 1024, 60000, 1000000}, d \in {-1, 0, 1}}
           \cup {86400000, 86400001, 604800000, 604800001}

Stacks == UNION {[1 .. n -> {"a", "b"}] : n \in 0 .. 2}
Leaf == {[stack |-> s, suppressed |-> <<>>, cause |-> <<>>] : s \in Stacks}
Middle == Leaf \cup {[stack |-> s, suppressed |-> <<>>, cause |-> <<l>>] : s \in Stacks, l \in Leaf}
Failure == {[stack |-> s, suppressed |-> x, cause |-> <<c>>] :
              s \in Stacks, x \in {<<>>, <<[stack |-> <<"c", "a">>, suppressed |-> <<>>, cause |-> <<>>]>>},
              c \in Middle}

QueryStates == {"QUEUED", "WAITING_FOR_RESOURCES", "PLANNING", "STARTING", "SUSPENDED", "RUNNING",
                "RECOVERING", "FINISHING", "FINISHED", "FAILED"}
Query == {q \in [state : QueryStates, errorType : Look!ErrorType, canceled : BOOLEAN,
                 fullyBlocked : BOOLEAN, scheduled : BOOLEAN, totalDrivers : {0, 2}, runningDrivers : {0, 1},
                 queuedDrivers : {0, 1}, reserved : BOOLEAN, progress : {0, 4, 500, 1000}, recoveryEnabled : BOOLEAN] :
            /\ q.errorType # "" => q.state = "FAILED"
            /\ q.canceled => q.errorType = "USER_ERROR"
            /\ q.totalDrivers = 0 => q.runningDrivers + q.queuedDrivers = 0}
Run == [state : {"QUEUED", "WAITING_FOR_RESOURCES", "DISPATCHING", "PLANNING", "STARTING", "RUNNING", "RESCHEDULING",
                 "RESUMING", "FINISHING", "FINISHED_EXECUTION", "FINISHED", "CANCELED", "FAILED"},
        output : {"nowhere", "file", "table"}, mine : BOOLEAN]
Task == [state : {"PLANNED", "RUNNING", "SUSPENDED", "FLUSHING", "FINISHED", "CANCELED", "CANCELED_TO_RESUME",
                  "ABORTED", "FAILED", "RESUMABLE_FAILURE"}, fullyBlocked : BOOLEAN]
TaskFilters == {"ALL", "PLANNED", "RUNNING", "SUSPENDED", "FINISHED", "FAILED"}

\* Trees over 0 .. k with root 0, as the parent of every other node.
Parents(k) == {p \in [1 .. k -> 0 .. k - 1] : \A i \in 1 .. k : p[i] < i}
childrenOf(parent, n) == SelectSeq([i \in DOMAIN parent |-> i], LAMBDA i : parent[i] = n)
RECURSIVE reach(_, _)
reach(parent, n) == {n} \cup UNION {reach(parent, i) : i \in Range(childrenOf(parent, n))}

\* A plan of the stage page: odd is a node of a type that getChildren does not know, or none.
typeOf(inputs) == CASE Len(inputs) = 0 -> "TableScanNode" [] Len(inputs) = 1 -> "FilterNode"
                    [] Len(inputs) = 2 -> "JoinNode" [] OTHER -> "ExchangeNode"
RECURSIVE planOf(_, _, _)
planOf(parent, odd, n) ==
    LET inputs == [i \in DOMAIN childrenOf(parent, n) |-> planOf(parent, odd, childrenOf(parent, n)[i])]
    IN  [id |-> n, type |-> IF n \in odd THEN "NewNode" ELSE typeOf(inputs),
         inputs |-> inputs, remoteSources |-> {}]

\* The operators of a plan: of each node in some pipelines, two in the first, numbered from the sources.
operatorsOf(pipelines) ==
    {o \in [planNodeId : 0 .. MaxNode, pipelineId : {0, 1}, operatorId : 0 .. 2 * MaxNode + 1] :
       /\ o.pipelineId \in pipelines[o.planNodeId]
       /\ o.operatorId - 2 * (MaxNode - o.planNodeId) \in {0, 1 - o.pipelineId}}
numbersOf(operators) == {<<o.pipelineId, o.operatorId>> : o \in operators}

\* A query for the live plan: stage s has the plan nodes 10 * s and up, one remote source for each
\* sub-stage or one for all of them.  A stage that consumes a shared expression comes later than
\* the one that feeds it (PlanFragmenter meets that one first) and has the same plan.
RECURSIVE stageOf(_, _, _, _, _)
stageOf(parent, shared, merged, stats, n) ==
    LET subs == childrenOf(parent, n)
        first == 10 * (IF shared # <<>> /\ shared[2] = n THEN shared[1] ELSE n)
        remote(k, S) == [id |-> first + k, type |-> "RemoteSourceNode", inputs |-> <<>>, remoteSources |-> S]
        inputs == IF merged /\ subs # <<>> THEN <<remote(1, Range(subs))>>
                  ELSE [k \in DOMAIN subs |-> remote(k, {subs[k]})]
    IN  [id |-> n, subStages |-> [k \in DOMAIN subs |-> stageOf(parent, shared, merged, stats, subs[k])],
         tasks |-> <<[stage |-> n, number |-> 1], [stage |-> n, number |-> 0]>>,
         plan |-> [id |-> first, type |-> typeOf(inputs), inputs |-> inputs, remoteSources |-> {}],
         cte |-> IF n \in Range(shared) THEN {"cte"} ELSE {}, feeder |-> shared # <<>> /\ shared[1] = n,
         stats |-> stats]
Shared(parent) ==
    LET leaf(n) == childrenOf(parent, n) = <<>>
        order == Graph!getAllStageIds(stageOf(parent, <<>>, FALSE, 0, 0))
        pair(i, j) == i < j /\ leaf(order[i]) /\ leaf(order[j])
    IN  {<<>>} \cup {<<order[ij[1]], order[ij[2]]>> :
                       ij \in {ij \in (DOMAIN order) \X (DOMAIN order) : pair(ij[1], ij[2])}}

Input(name) ==
    CASE name = "dates" -> {d * Ticks : d \in Day} \X Moments
      [] name = "weeks" -> Moments \X WeekRule
      [] name = "date text" -> (DateText \cup WeekText) \X WeekRule
      [] name = "spans" -> [months : {-13, -1, 0, 1, 25}, days : {-40, -1, 0, 1, 31, 400}, ticks : -(Ticks + 1) .. Ticks + 1]
      [] name = "relative time" -> {x * f + d : x \in 0 .. 60, f \in {1, 60, 3600, 86400, 2629746}, d \in {0, 1, 30}}
      [] name = "sheets" -> Year \X (0 .. 11) \X (0 .. 6)
      [] name = "queries" -> Query
      [] name = "runs" -> Run
      [] name = "tasks" -> Task
      [] name = "numbers" -> {n \in Numbers : n < 1000000000}
      [] name = "lists" -> Lists
      [] name = "failures" -> Failure
      [] name = "operators" -> {<<p, odd, pipelines>> : p \in Parents(MaxNode), odd \in Part(0 .. MaxNode),
                                  pipelines \in [0 .. MaxNode -> {{0}, {1}, {0, 1}}]}
      [] name = "stages" -> UNION {{<<p, s, merged>> : s \in Shared(p), merged \in BOOLEAN} : p \in Parents(MaxStage)}

Init == topic \in Topic /\ input \in Input(topic) /\ output = {}

-----------------------------------------------------------------------------
(* Steps.                                                                  *)

Dates ==
    /\ is("dates")
    /\ LET t == input[1]
           u == input[2]
       IN  computed([before |-> {x \in M!Unit : M!isBefore(t, u, x)}, same |-> {x \in M!Unit : M!isSame(t, u, x)},
                     after |-> {x \in M!Unit : M!isAfter(t, u, x)}, apart |-> M!momentsDifference(t, u),
                     diff |-> [x \in M!Unit |-> M!diff(t, u, x)]])

Weeks ==
    /\ is("weeks")
    /\ LET t == input[1]
           rule == input[2]
           w == M!weekOfYear(t, rule.dow, rule.doy)
       IN  computed([week |-> w, last |-> M!weeksInYear(w.year, rule.dow, rule.doy),
                     again |-> M!setWeekAll(t, w.year, w.week, M!day(t), rule.dow, rule.doy),
                     first |-> M!setWeek(t, 1, rule.dow, rule.doy),
                     nextYear |-> M!getSetWeekYearHelper(t, w.year + 1, w.week, M!day(t), rule.dow, rule.doy)])

DateTexts ==
    /\ is("date text")
    /\ LET now == CHOOSE t \in Moments : \A u \in Moments : t <= u
           config == M!configFromArray(input[1], now, input[2].dow, input[2].doy)
       IN  computed([overflow |-> M!checkOverflow(config), config |-> config,
                     moment |-> IF M!checkOverflow(config) = "none" THEN {M!createFromConfig(config)} ELSE {}])

Spans == is("spans") /\ computed(M!bubble(input))
RelativeTimes == is("relative time") /\ computed(<<M!relativeTime(input), M!relativeTime(input + 1)>>)
Sheets == is("sheets") /\ computed(M!renderCalendar(input[1], input[2], input[3]))

Queries ==
    /\ is("queries")
    /\ computed([header |-> Look!renderProgressBar(input), row |-> Look!renderRow(input),
                 history |-> Look!renderHistoryRow(input)])
Runs == is("runs") /\ computed([status |-> Look!statusCell(input), output |-> Look!outputCell(input)])

\* A task, and a stage whose state has the same name.
Tasks == /\ is("tasks")
         /\ computed([shown |-> Look!formatState(input), stage |-> Look!getStageStateColor(input),
                      filters |-> {f \in TaskFilters : Look!TASK_FILTER(f, input)}])

NumberTexts ==
    /\ is("numbers")
    /\ LET coordinators(size) == [size EXCEPT !.unit = IF @ = "KB" THEN "kB" ELSE @]
           size == Format!formatDataSizeMinUnit(input)
           duration == Format!formatDuration(input)
       IN  computed([size |-> size, duration |-> duration, count |-> Format!formatCount(input),
                     sizeAgain |-> Format!parseDataSize(size), durationAgain |-> Format!parseDuration(duration),
                     sizeSent |-> Format!parseDataSize(coordinators(size))])

ListViews ==
    /\ is("lists")
    /\ LET items == [i \in DOMAIN input |-> [value |-> input[i], at |-> i]]
           hosts == [i \in DOMAIN input |-> [host |-> input[i] \div 2, port |-> input[i] % 2]]
           lines == [i \in DOMAIN input |-> input[i] - 1]
       IN  computed([histogram |-> Format!renderHistogram(input), sorted |-> Format!bubbleSort(items),
                     ports |-> Format!showPortNumbers(hosts), text |-> Format!getAllQueryText(lines),
                     order |-> <<Format!compareTaskId(<<0>> \o input, <<0>> \o Reverse(input)),
                                 Format!compareTaskId(<<0>> \o Reverse(input), <<0>> \o input)>>,
                     table |-> Format!toFqn(Format!schema(input), Format!table(input)),
                     catalog |-> Format!catalog(input), simpleSchema |-> Format!simpleSchema(input)])

Traces == is("failures") /\ computed(Format!formatStackTrace(input))

operatorStage ==
    [plan |-> planOf(input[1], input[2], 0), operators |-> operatorsOf(input[3]),
     tasks |-> <<[number |-> 2, operators |-> numbersOf(operatorsOf(input[3]))],
                 [number |-> 0, operators |-> {}],
                 [number |-> 1, operators |-> numbersOf(operatorsOf(input[3]))]>>]
OperatorGraphs ==
    /\ is("operators")
    /\ computed([chains |-> Graph!computeOperatorGraphs(operatorStage.plan, Graph!computeOperatorMap(operatorStage)),
                 drawn |-> Graph!updateD3Graph(operatorStage)])

\* The stages are drawn twice, with the statistics of two answers.
StageViews ==
    /\ is("stages")
    /\ LET query(stats) == stageOf(input[1], input[2], input[3], stats, 0)
       IN  computed([listed |-> Graph!getStages(query(1)), tasks |-> Graph!getTasksFromStage(query(1)),
                     menu |-> Graph!getAllStageIds(query(1)),
                     found |-> [s \in 0 .. MaxStage + 1 |-> Graph!findStage(s, query(1))],
                     plan |-> Graph!updateD3Plan(Graph!updateD3Plan(Graph!NoDrawing, query(1)), query(2))])

Next == \/ Dates \/ Weeks \/ DateTexts \/ Spans \/ RelativeTimes \/ Sheets \/ Queries \/ Runs \/ Tasks
        \/ NumberTexts \/ ListViews \/ Traces \/ OperatorGraphs \/ StageViews

Spec == Init /\ [][Next]_vars

-----------------------------------------------------------------------------
(* Properties.                                                             *)

\* Two moments are ordered, within a unit, in exactly one way.  Their difference in months and
\* ticks, added to the first, gives the second, and is no longer than it has to be.
DatesRelated ==
    \A r \in output :
      LET t == input[1]
          u == input[2]
          early == IF t < u THEN t ELSE u
          late == IF t < u THEN u ELSE t
          months == IF t < u THEN r.apart.months ELSE -r.apart.months
          ticks == IF t < u THEN r.apart.ticks ELSE -r.apart.ticks
      IN  /\ r.before \cup r.same \cup r.after = M!Unit
          /\ r.before \cap r.same = {} /\ r.before \cap r.after = {} /\ r.same \cap r.after = {}
          /\ M!add(early, months, "month") + ticks = late /\ months >= 0 /\ ticks >= 0
          /\ M!add(early, months + 1, "month") > late
          /\ \A x \in {"week", "day"} : /\ t >= u => M!add(u, r.diff[x], x) <= t /\ M!add(u, r.diff[x] + 1, x) > t
                                        /\ t <= u => M!add(t, -r.diff[x], x) <= u

\* A day is in one week of one week year; setting that week again changes nothing, and the
\* first week of the year of the moment is where setWeek goes.
WeeksRelated ==
    \A r \in output :
      LET t == input[1]
          rule == input[2]
      IN  /\ r.week.week \in 1 .. r.last /\ r.last \in {52, 53}
          /\ r.again = t
          /\ M!weekOfYear(r.first, rule.dow, rule.doy) = [year |-> r.week.year, week |-> 1]
          /\ LET w == M!weekOfYear(r.nextYear, rule.dow, rule.doy)
             IN  w.year = r.week.year + 1 /\ (w.week = r.week.week \/ r.week.week = 53)

\* A span is spelt in one sign, with less than a year of months and less than a day of ticks.
SpansNormal ==
    \A r \in output :
      /\ r.ticks \in -(Ticks - 1) .. Ticks - 1 /\ r.months \in -11 .. 11 /\ r.days \in -31 .. 31
      /\ \/ \A p \in DOMAIN r : r[p] >= 0
         \/ \A p \in DOMAIN r : r[p] <= 0

\* The longer of two spans never reads shorter.
RelativeTimeGrows ==
    \A r \in output :
      LET words == <<"s", "m", "mm", "h", "hh", "d", "dd", "M", "MM", "y", "yy">>
          rank(w) == CHOOSE i \in DOMAIN words : words[i] = w
      IN  rank(r[1][1]) < rank(r[2][1]) \/ (r[1][1] = r[2][1] /\ r[1][2] <= r[2][2])

\* The sheet starts on the first day of the week, with a day of the month before, and holds the month.
SheetHoldsMonth ==
    \A r \in output :
      LET first == M!UTC(input[1], input[2], 1)
          last == first + M!daysInMonth(input[1], input[2]) - 1
      IN  /\ (r[0] + 1) % 7 = input[3]
          /\ r[0] < first /\ first <= r[7] /\ last <= r[41]

\* The calendar arithmetic that the date range picker and the pages rely on (moment.js): order,
\* differences, week numbers, normalised spans, spans in words, and the sheet of a month.
CalendarConsistent ==
    /\ is("dates") => DatesRelated
    /\ is("weeks") => WeeksRelated
    /\ is("spans") => SpansNormal
    /\ is("relative time") => RelativeTimeGrows
    /\ is("sheets") => SheetHoldsMonth

\* A date text that is accepted gives a moment whose year, month, day and hour are those that it
\* names, where 24 o'clock is the midnight that follows.  Two parts do not count: the day of the
\* year 0 is as good as none, and beside any other day of the year the month and the day of the
\* month are ignored.  A text with a year is refused only when no day of that year, or no hour, is
\* what it names; a week of a week year only when it is not the first one, or for its weekday
\* (configFromArray, dayOfYearFromWeekInfo, checkOverflow, createLocalOrUTC).
ParsedOrRefused ==
    is("date text") =>
      \A r \in output :
        LET a == input[1]
            dow == input[2].dow
            nth == a.dayOfYear \ {0}
            named(y, m, d) == /\ a.year \subseteq {y}
                              /\ nth = {} => a.month \subseteq {m} /\ a.date \subseteq {d}
                              /\ nth \subseteq {M!UTC(y, m, d) - M!yearStart(y) + 1}
        IN  /\ \A t \in r.moment :
                 /\ LET midnight == t - (IF a.hour = {Ticks} THEN Ticks ELSE M!tick(t))
                    IN  a.w = {} => named(M!year(midnight), M!month(midnight), M!date(midnight))
                 /\ a.hour \subseteq {M!tick(t), Ticks}
                 /\ \A w \in a.w :
                      LET week == M!weekOfYear(t, dow, input[2].doy)
                      IN  w.year \subseteq {week.year} /\ w.week \subseteq {week.week}
                            /\ \A d \in w.weekday : M!day(t) = d % 7
            /\ r.moment = {} /\ a.hour \subseteq 0 .. Ticks =>
                 /\ \A y \in a.year : \A m \in 0 .. 11 : \A d \in 1 .. M!daysInMonth(y, m) : ~named(y, m, d)
                 /\ \A w \in a.w : w.week \subseteq {1} => ~(w.weekday \subseteq dow .. dow + 6)

-----------------------------------------------------------------------------
\* What a query looks like agrees with what it is: a query that is over offers no button and
\* shows no running or waiting split; it can be suspended or resumed, never both; a bar that is
\* not full says how far it is; a title that says BLOCKED has the colour of a blocked query, and
\* the colour and the title of a failed one name the same failure; the history shows a query that
\* is over as the monitor does, unless its user canceled it.  A run that failed shows its error
\* and nothing else, wherever its output went; only its owner may kill it, and only before it is
\* over; one that shows nothing at all has no output and is over, or is in one of the states
\* between two that the table knows.  A task is found under exactly one filter besides ALL, a
\* blocked one under RUNNING; only one that flushes its output, or that was stopped to be resumed,
\* is under none (QueryHeader, QueryMonitor, QueryList, RunsTable, QueryDetail).
LookHonest ==
    /\ is("queries") => \A r \in output :
         /\ Look!isQueryEnded(input) => r.header.buttons = {} /\ r.row.running = 0 /\ r.row.queued = 0
         /\ ~Look!isQueryEnded(input) => "Kill" \in r.header.buttons
         /\ ~({"Suspend", "Resume"} \subseteq r.header.buttons)
         /\ "Suspend" \in r.header.buttons => r.header.title.state.word \in {"RUNNING", "BLOCKED"}
         /\ r.header.width \in 0 .. 100
         /\ r.header.width < 100 => r.header.title.percent = {r.header.width}
         /\ r.row.title.state.word = "BLOCKED" => r.row.color = "BLOCKED"
         /\ (r.row.color = "CANCELED") <=> (r.row.title.state.word = "USER CANCELED")
         /\ input.state = "FAILED" =>
              (r.row.color \in {"UNKNOWN_ERROR"}) <=> (r.row.title.state.word \in {"INTERNAL ERROR", "FAILED"})
         /\ Look!isQueryEnded(input) /\ ~input.canceled =>
              r.history.color = r.row.color /\ r.history.title = r.row.title.state
    /\ is("runs") => \A r \in output :
         /\ "kill" \in r.output => input.mine /\ input.state \notin {"FINISHED", "CANCELED", "FAILED"}
         /\ "kill" \in r.output => r.status \in {"default", "info"}
         /\ r.status = "danger" <=> r.output = {"error"}
         /\ r.output = {} => /\ input.output = "nowhere"
                             /\ input.state \in {"FINISHED", "CANCELED", "WAITING_FOR_RESOURCES", "DISPATCHING",
                                                 "PLANNING", "STARTING", "FINISHING", "FINISHED_EXECUTION"}
    /\ is("tasks") => \A r \in output :
         /\ "ALL" \in r.filters
         /\ Cardinality(r.filters) = IF input.state \in {"FLUSHING", "CANCELED_TO_RESUME", "RESUMABLE_FAILURE"}
                                     THEN 1 ELSE 2
         /\ r.shown = "BLOCKED" => r.filters = {"ALL", "RUNNING"} /\ r.stage = "BLOCKED"
         /\ "FAILED" \in r.filters => r.stage \in {"CANCELED", "UNKNOWN_ERROR"}

\* |x - y| is at most one part in 200 of x, and one more for what was cut off.
close(x, y) == LET d == IF x < y THEN y - x ELSE x - y IN d <= x \div 200 + 1

sumOf(f) == FoldFunctionOnSet(LAMBDA a, b : a + b, 0, f, DOMAIN f)

RECURSIVE failuresOf(_, _)
failuresOf(info, parentStack) ==
    LET under(infos) == FlattenSeq([i \in DOMAIN infos |-> failuresOf(infos[i], info.stack)])
    IN  <<[stack |-> info.stack, parent |-> parentStack]>> \o under(info.suppressed) \o under(info.cause)

\* What is printed is what was there: a number is right to half a percent; a printed size or
\* duration reads back as what was printed, but for sizes in KB and durations in weeks, which
\* cannot be read, while a size in kB, as the coordinator sends it, can; each value is counted
\* in a histogram once; sorting keeps every item,
\* largest first, and the order of equal ones; ports are shown exactly when a host has two; no line
\* of a query is lost or shifted against the others; tasks are ordered one way and the parts of a
\* name make up the name; and every stack can be put together again from a trace (utils.js, fqn.js,
\* renderHistogram, showPortNumbers, compareTaskId, getAllQueryText, formatStackTrace).
PrintedFaithfully ==
    /\ is("numbers") => \A r \in output :
         /\ close(input, Format!times(r.size.hundredths, Format!bytes[r.size.unit]))
         /\ close(input, Format!times(r.duration.hundredths, Format!milliseconds[r.duration.unit]))
         /\ close(input, Format!times(r.count.hundredths, Format!pieces[r.count.unit]))
         /\ \A y \in r.sizeAgain \cup r.sizeSent \cup r.durationAgain : close(input, y)
         /\ r.sizeSent # {}
         /\ r.sizeAgain = {} <=> input \in 1024 .. 1048575
         /\ r.durationAgain = {} <=> input > 604800000
    /\ is("lists") => \A r \in output :
         /\ sumOf(r.histogram) = Len(input)
         /\ {r.sorted[i].at : i \in DOMAIN r.sorted} = DOMAIN input
         /\ \A i, j \in DOMAIN r.sorted : i < j =>
              \/ r.sorted[i].value > r.sorted[j].value
              \/ r.sorted[i].value = r.sorted[j].value /\ r.sorted[i].at < r.sorted[j].at
         /\ r.ports <=> \E i, j \in DOMAIN input : input[i] \div 2 = input[j] \div 2 /\ input[i] # input[j]
         /\ LET kept == SelectSeq(input, LAMBDA x : x > 0)
            IN  /\ Len(r.text) = Len(kept)
                /\ \A i, j \in DOMAIN kept : r.text[i] - r.text[j] = kept[i] - kept[j]
                /\ kept # <<>> => \E i \in DOMAIN kept : r.text[i] = 0
         /\ r.order[1] = -r.order[2] /\ (r.order[1] = 0 <=> input = Reverse(input))
         /\ Len(input) >= 2 => r.table = input
         /\ Len(input) >= 3 => \A s \in r.simpleSchema : r.catalog \o <<s, Format!table(input)>> = input
    /\ is("failures") => \A r \in output :
         LET all == failuresOf(input, <<>>)
         IN  /\ Len(r) = Len(all)
             /\ \A i \in DOMAIN all :
                  LET parent == all[i].parent
                  IN  r[i].frames \o SubSeq(parent, Len(parent) - r[i].more + 1, Len(parent)) = all[i].stack

\* Operators that are left out of the graph: all those below a node of an unknown type, and some
\* below two sources of a node that share a pipeline.
below(n) == reach(input[1], n) \ {n}
clash(n) == LET pipelinesOf(i) == UNION {input[3][k] : k \in reach(input[1], i)}
                sources == Range(childrenOf(input[1], n))
            IN  \E i, j \in sources : i # j /\ pipelinesOf(i) \cap pipelinesOf(j) # {}

\* Every pipeline is one chain, from its source to its sink.  Where no two sources of a node share
\* a pipeline, the operators drawn are all those that are not below a node of an unknown type.
OperatorsDrawn ==
    \A r \in output :
      LET all == operatorsOf(input[3])
          drawn(p) == Range(r.chains[p])
      IN  /\ \A p \in DOMAIN r.chains :
               /\ Cardinality(drawn(p)) = Len(r.chains[p])
               /\ \A o \in drawn(p) : o.pipelineId = p
               /\ \A i, j \in DOMAIN r.chains[p] : i < j =>
                    /\ r.chains[p][i].operatorId < r.chains[p][j].operatorId
                    /\ r.chains[p][i].planNodeId \in reach(input[1], r.chains[p][j].planNodeId)
               /\ r.drawn[p].boxes = drawn(p) /\ Cardinality(r.drawn[p].edges) = Cardinality(drawn(p)) - 1
          /\ (\A n \in 0 .. MaxNode : ~clash(n)) =>
               UNION {drawn(p) : p \in DOMAIN r.chains} = {o \in all : \A n \in input[2] : o.planNodeId \notin below(n)}
          /\ \A o \in UNION {r.drawn[p].boxes : p \in DOMAIN r.drawn} :
               /\ Graph!handleOperatorClick(operatorStage, o) = {o}
               /\ LET tasks == Graph!getOperatorTasks(operatorStage, o)
                  IN  [i \in DOMAIN tasks |-> tasks[i].number] = <<1, 2>>

\* Every stage is listed, found and drawn once, and joined to the stage it feeds.
StagesDrawn ==
    \A r \in output :
      LET all == 0 .. MaxStage
          shared == input[2]
          drawnAs(s) == IF shared # <<>> /\ shared[2] = s THEN shared[1] ELSE s
          frame(n) == {f[2] : f \in {f \in r.plan.frames : f[1] = n}}
          boxes == DOMAIN r.plan.boxes
      IN  /\ Len(r.listed) = MaxStage + 1 /\ {r.listed[i].id : i \in DOMAIN r.listed} = all
          /\ r.menu = [i \in DOMAIN r.listed |-> r.listed[i].id] /\ r.menu[1] = 0
          /\ \A s \in all : {t.id : t \in r.found[s]} = {s}
          /\ r.found[MaxStage + 1] = {}
          /\ Len(r.tasks) = 2 * (MaxStage + 1) /\ {t.stage : t \in Range(r.tasks)} = all
          /\ \A s \in all : r.plan.boxes[Graph!root(drawnAs(s))] = 2
          /\ \A n \in boxes : Cardinality(frame(n)) = 1
          /\ \A e \in DOMAIN r.plan.edges : e[1] \in boxes /\ e[2] \in boxes
          /\ \A s \in 1 .. MaxStage : \E e \in DOMAIN r.plan.edges :
               e[1] = Graph!root(drawnAs(s)) /\ frame(e[2]) = {input[1][s]}

\* No stage or task is missing, and no operator but those below a plan node of a type that
\* getChildren does not know, or below two sources of a node that share a pipeline; nothing is
\* drawn twice.  Every pipeline is one chain from its source to its sink, and a click on an
\* operator finds its tasks; on the live plan every box is in
\* one stage, every edge joins two boxes, each stage is joined to the one it feeds, and its box
\* has the statistics of the last answer (QueryDetail, StageDetail, LivePlan).
PlanDrawnWhole ==
    /\ is("operators") => OperatorsDrawn
    /\ is("stages") => StagesDrawn
=============================================================================
