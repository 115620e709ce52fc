------------------------------ MODULE WebFormats ------------------------------
(***************************************************************************)
(* The small computations of the web UI on numbers, lists and texts:       *)
(* numbers printed with a unit and read back, histograms, task lists,      *)
(* stack traces, query texts and the names of tables (utils.js,            *)
(* QueryDetail.jsx, QueryMonitor.jsx, QueryList.jsx, fqn.js).              *)
(*                                                                         *)
(* A printed number is [hundredths, unit], the unit as it is written.  A   *)
(* text is the sequence of its lines and a line its indentation, Blank for *)
(* a line with nothing in it.                                              *)
(***************************************************************************)
EXTENDS Integers, Sequences, FiniteSets, SequencesExt

-----------------------------------------------------------------------------
(* Numbers.  A value is the fraction value / size of a unit.               *)

\* n / d with that many decimals, in hundredths.  (The second form keeps the products small.)
toFixed(n, d, decimals) ==
    LET step == CASE decimals = 2 -> 100 [] decimals = 1 -> 10 [] OTHER -> 1
        whole == n \div d
        rounded == IF d % (2 * step) # 0 THEN ((n % d) * step + d \div 2) \div d
                   ELSE ((n % d) + d \div (2 * step)) \div (d \div step)
    IN  (whole * step + rounded) * (100 \div step)

\* Three digits.
precisionRound(n, d) ==
    CASE n \div d < 10 -> toFixed(n, d, 2)
      [] n \div d \in 10 .. 99 -> toFixed(n, d, 1)
      [] OTHER -> toFixed(n, d, 0)

\* The value of each unit that is printed, smallest first, and of each that is read: airlift,
\* which prints the sizes and durations of the coordinator, writes kB and no weeks.
sizeUnits == <<"B", "KB", "MB", "GB">>
durationUnits == <<"ms", "s", "m", "h", "d", "w">>
countUnits == <<"", "K", "M", "B">>
bytes == [B |-> 1, KB |-> 1024, kB |-> 1024, MB |-> 1048576, GB |-> 1073741824]
milliseconds == [ms |-> 1, s |-> 1000, m |-> 60000, h |-> 3600000, d |-> 86400000, w |-> 604800000]
pieces == [u \in Range(countUnits) |-> CASE u = "" -> 1 [] u = "K" -> 1000 [] u = "M" -> 1000000
                                         [] u = "B" -> 1000000000]
sizesRead == {"B", "kB", "MB", "GB"}
durationsRead == {"ms", "s", "m", "h", "d"}

\* A size is printed in the largest unit that it reaches, a duration or a count in the largest
\* that it exceeds.
printed(n, units, size, u) == [hundredths |-> precisionRound(n, size[units[u]]), unit |-> units[u]]
formatDataSizeMinUnit(n) ==
    printed(n, sizeUnits, bytes, CHOOSE i \in DOMAIN sizeUnits :
              /\ i = 1 \/ n >= bytes[sizeUnits[i]]
              /\ i = Len(sizeUnits) \/ n < bytes[sizeUnits[i + 1]])
exceeding(n, units, size) ==
    printed(n, units, size, CHOOSE i \in DOMAIN units :
              /\ i = 1 \/ n > size[units[i]]
              /\ i = Len(units) \/ n <= size[units[i + 1]])
formatDuration(n) == exceeding(n, durationUnits, milliseconds)
formatCount(n) == exceeding(n, countUnits, pieces)

\* Reading a text: {} (null) when the unit is not known.
times(hundredths, unit) ==
    (hundredths \div 100) * unit + (hundredths % 100) * (unit \div 100)
      + ((hundredths % 100) * (unit % 100)) \div 100
parseDataSize_KB(text) ==
    IF text.unit \in Range(sizeUnits) THEN {times(text.hundredths, bytes[text.unit])} ELSE {}
parseDataSize(text) ==
    IF text.unit \in sizesRead THEN {times(text.hundredths, bytes[text.unit])} ELSE {}
parseDuration(text) ==
    IF text.unit \in durationsRead THEN {times(text.hundredths, milliseconds[text.unit])} ELSE {}

-----------------------------------------------------------------------------
(* Lists.                                                                  *)

minOf(data) == CHOOSE x \in Range(data) : \A y \in Range(data) : x <= y
maxOf(data) == CHOOSE x \in Range(data) : \A y \in Range(data) : x >= y
squareRoot(n) == CHOOSE r \in 0 .. n : r * r <= n /\ (r + 1) * (r + 1) > n

\* The bars of a histogram.  Their number is the square root of the number of values, which is
\* not rounded (for fewer than 175^2 values, the width of the chart); the largest value falls
\* into a bar of its own when the root is whole.
bars_NoSpare(n) == LET r == squareRoot(n) IN IF r * r = n THEN r ELSE r + 1
bars(n) == LET r == squareRoot(n) IN IF r * r = n THEN r + 1 ELSE r + 2
renderHistogram(inputData) ==
    LET n == Len(inputData)
        spread == maxOf(inputData) - minOf(inputData)
        bucket(x) == squareRoot(((x - minOf(inputData)) * (x - minOf(inputData)) * n) \div (spread * spread))
    IN  IF spread = 0 THEN [i \in {0} |-> n]
        ELSE [i \in 0 .. bars(n) - 1 |-> Cardinality({k \in 1 .. n : bucket(inputData[k]) = i})]

\* Largest first; equal values keep their order.
bubbled(arr, j) ==
    IF arr[j].value < arr[j + 1].value THEN [arr EXCEPT ![j] = arr[j + 1], ![j + 1] = arr[j]] ELSE arr
bubbleSort(arr) ==
    LET n == Len(arr)
        pass(a, i) == FoldLeft(bubbled, a, [j \in 1 .. n - i |-> j])
    IN  FoldLeft(pass, arr, [i \in 1 .. n - 1 |-> i])

\* A task id is the query, the stage and the task, numbers after the first.
removeQueryId(id) == IF Len(id) > 1 THEN Tail(id) ELSE id
compareTaskId(taskA, taskB) ==
    LET a == removeQueryId(taskA)
        b == removeQueryId(taskB)
        differ == {i \in DOMAIN a : i \notin DOMAIN b \/ a[i] # b[i]}
        first == CHOOSE i \in differ : \A j \in differ : i <= j
    IN  CASE Len(a) > Len(b) -> 1
          [] Len(a) <= Len(b) /\ differ = {} -> 0
          [] OTHER -> IF a[first] > b[first] THEN 1 ELSE -1

\* Ports are shown when some host is seen with a port other than its last one.
showPortNumbers(tasks) ==
    \E i \in DOMAIN tasks :
      LET before == {j \in 1 .. i - 1 : tasks[j].host = tasks[i].host}
      IN  before # {} /\ tasks[CHOOSE j \in before : \A k \in before : j >= k].port # tasks[i].port

-----------------------------------------------------------------------------
(* Texts.                                                                  *)

Blank == -1

\* The indentation that all lines share is cut off, empty lines are left out.
getAllQueryText_FirstLine(lines) ==
    LET text == SelectSeq(lines, LAMBDA l : l # Blank)
    IN  [i \in DOMAIN text |-> IF text[i] >= text[1] THEN text[i] - text[1] ELSE 0]
getAllQueryText(lines) ==
    LET text == SelectSeq(lines, LAMBDA l : l # Blank)
        minLeadingWhitespace == minOf(text)
    IN  IF text = <<>> THEN <<>> ELSE [i \in DOMAIN text |-> text[i] - minLeadingWhitespace]

\* A failure is [stack, suppressed, cause]; what is printed of it is its own frames and the
\* number of those at the end that it shares with the failure it is printed under.
countSharedStackFrames_FromTop(stack, parentStack) ==
    LET same(n) == \A i \in 1 .. n : stack[i] = parentStack[i]
        shortest == IF Len(stack) < Len(parentStack) THEN Len(stack) ELSE Len(parentStack)
    IN  CHOOSE n \in 0 .. shortest : same(n) /\ (n = shortest \/ ~same(n + 1))
countSharedStackFrames(stack, parentStack) ==
    LET same(n) == \A i \in 0 .. n - 1 : stack[Len(stack) - i] = parentStack[Len(parentStack) - i]
        shortest == IF Len(stack) < Len(parentStack) THEN Len(stack) ELSE Len(parentStack)
    IN  CHOOSE n \in 0 .. shortest : same(n) /\ (n = shortest \/ ~same(n + 1))

RECURSIVE formatStackTraceHelper(_, _, _, _)
formatStackTraceHelper(info, parentStack, prefix, depth) ==
    LET shared == countSharedStackFrames(info.stack, parentStack)
        own == [prefix |-> prefix, depth |-> depth, more |-> shared,
                frames |-> SubSeq(info.stack, 1, Len(info.stack) - shared)]
        under(infos, kind, d) ==
            FlattenSeq([i \in DOMAIN infos |-> formatStackTraceHelper(infos[i], info.stack, kind, d)])
    IN  <<own>> \o under(info.suppressed, "Suppressed", depth + 1) \o under(info.cause, "Caused by", depth)

formatStackTrace(info) == formatStackTraceHelper(info, <<>>, "", 0)

\* The parts of a name between its dots: the last is the table, the one before it the schema.
schema(parts) == IF Len(parts) <= 1 THEN parts ELSE SubSeq(parts, 1, Len(parts) - 1)
catalog(parts) == IF Len(parts) <= 2 THEN <<parts[1]>> ELSE SubSeq(parts, 1, Len(parts) - 2)
simpleSchema(parts) == IF Len(parts) >= 2 THEN {parts[Len(parts) - 1]} ELSE {}
table(parts) == parts[Len(parts)]
toFqn(schemaParts, name) == Append(schemaParts, name)
=============================================================================
