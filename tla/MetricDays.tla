----------------------------- MODULE MetricDays -----------------------------
(***************************************************************************)
(* What the services of the API share: rates, growth and averages, the     *)
(* days of a query, and how the days without a value are filled            *)
(* (apps/api/src/utils.ts and pipes/metric-query.pipe.ts).                 *)
(*                                                                         *)
(* A moment is a number of units of time, DayLength of them to a day.      *)
(* A rate, a growth or an average is rounded to two decimals by the code   *)
(* and counted in hundredths here.                                         *)
(***************************************************************************)
EXTENDS Integers, Sequences, SequencesExt

CONSTANTS
    DayLength, \* units of time of a day
    One        \* the unit in which counts are kept: 1, or a number that makes averages whole

ASSUME MetricDaysAssumption == DayLength \in Nat \ {0} /\ One \in Nat \ {0}

Day(t) == t \div DayLength
StartOf(day) == day * DayLength
EndOf(day) == StartOf(day) + DayLength - 1
Later(a, b) == IF a > b THEN a ELSE b

\* A finite set of numbers, smallest first.
InOrder(S) == CHOOSE s \in SetToSeqs(S) : \A i, j \in DOMAIN s : i < j => s[i] < s[j]

-----------------------------------------------------------------------------
(* Numbers                                                                 *)

\* roundToDecimals with two decimals, of the fraction n / q: Math.round rounds
\* a half towards plus infinity.
Hundredths(n, q) == (200 * n + q) \div (2 * q)

\* A zero denominator counts as one.
OrOne(n, one) == IF n = 0 THEN one ELSE n

getGrowthIn(current, prev, one) == Hundredths(current - prev, OrOne(current, one))
getGrowth(current, prev) == getGrowthIn(current, prev, One)
getRate(current, prev) == Hundredths(current, OrOne(prev, One))

getAverage(values) ==
    IF values = <<>> THEN 0
    ELSE Hundredths(FoldSeq(LAMBDA n, sum : n + sum, 0, values), Len(values))

-----------------------------------------------------------------------------
(* Days                                                                    *)

\* MetricQueryPipe.transform: without `from` a query begins at the first
\* transaction, or at a date fixed when the process started; without `to` it
\* ends now.  An interval moves the end to that of the interval before.
Absent == -1
metricQuery(from, to, interval, first, fallback, now) ==
    LET until == IF to = Absent THEN now ELSE to
    IN  [from |-> IF from # Absent THEN from ELSE IF first # Absent THEN first ELSE fallback,
         to   |-> IF interval = Absent THEN until ELSE (until \div interval) * interval - 1]

\* Steps of 24 hours from the time of day of `from`, each widened to its day.
getDailyIntervals(from, to) ==
    LET steps == IF to < from THEN 0 ELSE (to - from) \div DayLength + 1
    IN  [i \in 1 .. steps |->
            LET day == Day(from) + i - 1 IN [start |-> StartOf(day), end |-> EndOf(day)]]

\* Mutant: a day without a value has the first value before it.
PatchedWithFirst(metrics, day, type) ==
    LET before == SelectInSeq(metrics, LAMBDA m : Day(m.timestamp) <= Day(day.end))
    IN  [timestamp |-> day.end, count |-> IF before = 0 THEN 0 ELSE metrics[before].count]

\* One day of the answer: its own metric if there is one; else a total carries
\* the last value before it on, and a daily value is 0.
Patched(metrics, day, type) ==
    LET same   == SelectInSeq(metrics, LAMBDA m : Day(m.timestamp) = Day(day.end))
        before == SelectLastInSeq(metrics, LAMBDA m : Day(m.timestamp) < Day(day.end))
    IN  [timestamp |-> day.end,
         count |-> CASE same # 0 -> metrics[same].count
                     [] same = 0 /\ type = "Total" /\ before # 0 -> metrics[before].count
                     [] OTHER -> 0]

patchMetricDays(query, metrics, type) ==
    IF metrics = <<>> THEN metrics
    ELSE LET days == getDailyIntervals(Later(metrics[1].timestamp, query.from), query.to)
         IN  [i \in DOMAIN days |-> Patched(metrics, days[i], type)]

=============================================================================
