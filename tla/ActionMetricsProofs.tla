------------------------ MODULE ActionMetricsProofs ------------------------
(***************************************************************************)
(* The charts made of recorded and of rebuilt rows, for any number of days *)
(* and receipts.                                                           *)
(*                                                                         *)
(* What every proof needs is how the counted receipts can change: they     *)
(* only become more, and what is new became known today.  So a value, in   *)
(* hand or in a row of any day, lies between what was known before the day *)
(* it was asked and what was known up to that day.                         *)
(***************************************************************************)
EXTENDS ActionMetrics, SumTheorems

-----------------------------------------------------------------------------
(* The lists of metrics                                                    *)

\* The metrics looked at are some of the list.
LEMMA SelectedFrom ==
    ASSUME NEW T, NEW list \in Seq(T)
    PROVE  Selected(list) \in Seq(T)
<1> DEFINE Longer(v, k) == IF list[k] \in Metrics THEN Append(v, list[k]) ELSE v
           IsOf(g, n) == g = [k \in 0 .. n |-> IF k = 0 THEN <<>> ELSE Longer(g[k - 1], k)]
           G == {n \in Nat : \E g : IsOf(g, n)}
<1>1. 0 \in G
  <2>1. IsOf([k \in 0 .. 0 |-> <<>>], 0)
    OBVIOUS
  <2> QED
    BY <2>1
<1>2. ASSUME NEW n \in Nat, n \in G PROVE n + 1 \in G
  <2>1. PICK g : IsOf(g, n)
    BY <1>2
  <2> HIDE DEF Longer
  <2> DEFINE h == [k \in 0 .. n + 1 |-> IF k = 0 THEN <<>> ELSE Longer(g[k - 1], k)]
             h2 == [k \in 0 .. n + 1 |-> IF k = 0 THEN <<>> ELSE Longer(h[k - 1], k)]
  <2>2. \A k \in 0 .. n : h[k] = g[k]
    <3>1. \A k \in 0 .. n : k \in 0 .. n + 1
      OBVIOUS
    <3> QED
      BY <2>1, <3>1
  <2>3. \A k \in 0 .. n + 1 : h[k] = h2[k]
    <3>1. \A k \in 0 .. n + 1 : k # 0 => k - 1 \in 0 .. n
      OBVIOUS
    <3> QED
      BY <2>2, <3>1
  <2>4. IsOf(h, n + 1)
    BY <2>3
  <2> HIDE DEF h, IsOf
  <2> QED
    BY <2>4
<1>3. Len(list) \in Nat /\ \E g : IsOf(g, Len(list))
  <2> HIDE DEF IsOf
  <2>1. Nat \subseteq G
    <3> HIDE DEF G
    <3> QED
      BY <1>1, <1>2, NaturalInduction
  <2> QED
    BY <2>1
<1> DEFINE of == CHOOSE g : IsOf(g, Len(list))
<1>4. IsOf(of, Len(list))
  <2> HIDE DEF IsOf
  <2> QED
    BY <1>3
<1>5. Selected(list) = of[Len(list)]
  BY DEF Selected
<1> HIDE DEF of
<1> DEFINE H == {n \in Nat : n <= Len(list) => of[n] \in Seq(T)}
<1>6. 0 \in H
  BY <1>3, <1>4
<1>7. ASSUME NEW n \in Nat, n \in H PROVE n + 1 \in H
  <2> SUFFICES ASSUME n + 1 <= Len(list) PROVE of[n + 1] \in Seq(T)
    OBVIOUS
  <2>1. of[n] \in Seq(T) /\ list[n + 1] \in T /\ n + 1 \in 0 .. Len(list) /\ n + 1 # 0
    BY <1>3, <1>7
  <2>2. of[n + 1] = IF list[n + 1] \in Metrics THEN Append(of[n], list[n + 1]) ELSE of[n]
    <3>1. (n + 1) - 1 = n
      OBVIOUS
    <3> QED
      BY <1>4, <2>1, <3>1
  <2> QED
    BY <2>1, <2>2
<1>8. Nat \subseteq H
  <2> HIDE DEF H
  <2> QED
    BY <1>6, <1>7, NaturalInduction
<1> QED
  BY <1>3, <1>5, <1>8

\* The metrics that are rebuilt are among those with a history.
LEMMA HistoricalSeq ==
    /\ Historical \in Seq({"BALANCE", "DEPOSITS_IN", "VALUE_IN", "DEPOSITS_OUT", "VALUE_OUT"})
    /\ Len(Historical) \in Nat
<1> DEFINE T == {"BALANCE", "DEPOSITS_IN", "VALUE_IN", "DEPOSITS_OUT", "VALUE_OUT"}
<1>1. DAO_HISTORICAL_METRICS \in Seq(T)
  BY DEF DAO_HISTORICAL_METRICS
<1> HIDE DEF T
<1>2. Historical \in Seq(T)
  BY <1>1, SelectedFrom DEF Historical
<1> QED
  BY <1>2 DEF T

-----------------------------------------------------------------------------
(* The log                                                                 *)

Accounts == {"dao", "user"}
Directions == {"from", "to"}
Entries == [day : Days, from : Accounts, to : Accounts, kind : {k.kind : k \in Kinds},
            deposit : Nat \cup {NoDeposit}, status : {"none", "SUCCESS", "FAILURE"},
            known : Days \cup {Never}]

TypeOK ==
    /\ today \in Days
    /\ log \in Seq(Entries)
    /\ rebuilt \in Nat
    /\ valueOn \in Days /\ handOn \in Days
    /\ history = [day \in Days |-> [m \in Metrics |-> history[day][m]]]
    /\ asked = [day \in Days |-> [m \in Metrics |-> asked[day][m]]]
    /\ \A day \in Days, m \in Metrics : asked[day][m] \in Days

\* A receipt is of a day that has come, and its outcome known no earlier.
LogOK ==
    \A i \in DOMAIN log :
        /\ log[i].day <= today
        /\ log[i].status # "none" => log[i].known \in log[i].day .. today

\* The log is a sequence of entries with finitely many places.
LEMMA LogFacts ==
    ASSUME TypeOK
    PROVE  /\ DOMAIN log = 1 .. Len(log) /\ Len(log) \in Nat
           /\ IsFiniteSet(DOMAIN log)
           /\ \A i \in DOMAIN log : log[i] \in Entries
<1>1. DOMAIN log = 1 .. Len(log) /\ Len(log) \in Nat /\ \A i \in DOMAIN log : log[i] \in Entries
  BY DEF TypeOK
<1> QED
  BY <1>1, FS_Interval

\* A new receipt is at the end of the log.
LEMMA ReceiptLog ==
    ASSUME TypeOK, NEW from \in Accounts, NEW to \in Accounts, NEW carried \in Kinds,
           Receipt(from, to, carried)
    PROVE  /\ log' \in Seq(Entries)
           /\ DOMAIN log' = DOMAIN log \cup {Len(log) + 1} /\ Len(log) + 1 \notin DOMAIN log
           /\ \A i \in DOMAIN log : log'[i] = log[i]
           /\ log'[Len(log) + 1].status = "none" /\ log'[Len(log) + 1].day = today
<1> DEFINE entry == [day |-> today, from |-> from, to |-> to, kind |-> carried.kind,
                     deposit |-> carried.deposit, status |-> "none", known |-> Never]
<1>1. entry \in Entries
  BY ActionMetricsAssumption DEF TypeOK, Entries
<1>2. log' = Append(log, entry) /\ log \in Seq(Entries)
  BY DEF Receipt, TypeOK
<1> QED
  BY <1>1, <1>2, LogFacts

\* An outcome changes the status of one receipt, and when it is known.
LEMMA OutcomeLog ==
    ASSUME TypeOK, NEW i \in DOMAIN log, NEW status \in {"SUCCESS", "FAILURE"},
           Outcome(i, status)
    PROVE  /\ log' \in Seq(Entries) /\ DOMAIN log' = DOMAIN log
           /\ \A j \in DOMAIN log \ {i} : log'[j] = log[j]
           /\ log'[i] = [log[i] EXCEPT !.status = status, !.known = today]
           /\ log[i].status = "none"
<1>1. log[i] \in Entries
  BY LogFacts
<1> DEFINE entry == [log[i] EXCEPT !.status = status, !.known = today]
<1>2. entry \in Entries
  BY <1>1 DEF TypeOK, Entries
<1>3. log' = [log EXCEPT ![i] = entry] /\ log[i].status = "none"
  BY <1>1 DEF Outcome, Entries
<1>4. log \in Seq(Entries)
  BY DEF TypeOK
<1> QED
  BY <1>2, <1>3, <1>4

\* Rows of the metrics for every day.
IsTable(f) == f = [day \in Days |-> [n \in Metrics |-> f[day][n]]]

\* A table of rows is one after a row of it was set.
LEMMA TableChanged ==
    ASSUME NEW f, IsTable(f), NEW d, NEW m, NEW v
    PROVE  IsTable([f EXCEPT ![d][m] = v])
<1> DEFINE g == [f EXCEPT ![d][m] = v]
<1>1. DOMAIN f = Days /\ \A day \in Days : f[day] = [n \in Metrics |-> f[day][n]]
  BY DEF IsTable
<1>2. g = [day \in Days |-> IF day = d THEN [f[day] EXCEPT ![m] = v] ELSE f[day]]
  BY <1>1
<1> HIDE DEF g
<1>3. \A day \in Days : g[day] = [n \in Metrics |-> g[day][n]]
  <2> SUFFICES ASSUME NEW day \in Days PROVE g[day] = [n \in Metrics |-> g[day][n]]
    OBVIOUS
  <2>1. g[day] = f[day] \/ g[day] = [f[day] EXCEPT ![m] = v]
    BY <1>2
  <2> QED
    BY <1>1, <2>1
<1>4. g = [day \in Days |-> [n \in Metrics |-> g[day][n]]]
  BY <1>2, <1>3
<1> QED
  BY <1>4 DEF IsTable, g

\* The log, the days and the tables have their types, in all steps.
LEMMA TypeStep == ASSUME TypeOK, [Next]_vars PROVE TypeOK'
<1> USE DEF rows, sweep, remake
<1>0. 0 \in Days /\ today \in Days
  BY ActionMetricsAssumption DEF Days, TypeOK
<1>1. ASSUME NEW from \in Accounts, NEW to \in Accounts, NEW carried \in Kinds,
             Receipt(from, to, carried)
      PROVE  TypeOK'
  <2>1. log' \in Seq(Entries)
    BY <1>1, ReceiptLog
  <2> QED
    BY <1>1, <2>1 DEF Receipt, TypeOK
<1>2. ASSUME NEW i \in DOMAIN log, NEW status \in {"SUCCESS", "FAILURE"}, Outcome(i, status)
      PROVE  TypeOK'
  <2>1. log' \in Seq(Entries)
    BY <1>2, OutcomeLog
  <2> QED
    BY <1>2, <2>1 DEF Outcome, TypeOK
<1>3. CASE Ask \/ SaveStats \/ Miss \/ Die \/ DaysInserted
  BY <1>0, <1>3 DEF Ask, SaveStats, Miss, Die, DaysInserted, TypeOK
<1>4. CASE SaveHistory
  <2> DEFINE m == Order[swept + 1]
  <2>1. UNCHANGED <<today, log, rebuilt, handOn>> /\ valueOn' = 0
        /\ history' = [history EXCEPT ![today][m] = value]
        /\ asked' = [asked EXCEPT ![today][m] = valueOn]
    BY <1>4 DEF SaveHistory
  <2> HIDE DEF m
  <2>2. /\ history' = [day \in Days |-> [n \in Metrics |-> history'[day][n]]]
        /\ asked' = [day \in Days |-> [n \in Metrics |-> asked'[day][n]]]
    <3>1. IsTable(history) /\ IsTable(asked)
      BY DEF IsTable, TypeOK
    <3>2. IsTable(history') /\ IsTable(asked')
      BY <2>1, <3>1, TableChanged
    <3> QED
      BY <3>2 DEF IsTable
  <2>3. \A day \in Days, n \in Metrics : asked'[day][n] \in {asked[day][n], valueOn}
    BY <2>1, SMTT(60) DEF TypeOK
  <2> QED
    BY <1>0, <2>1, <2>2, <2>3 DEF TypeOK
<1>5. CASE Midnight
  BY <1>5, ActionMetricsAssumption DEF Midnight, TypeOK, Days
<1>6. CASE AskDays
  BY <1>0, <1>6 DEF AskDays, TypeOK
<1>7. ASSUME NEW d \in Days, InsertDay(d) PROVE TypeOK'
  <2> DEFINE m == Historical[rebuilt]
  <2>1. /\ UNCHANGED <<today, log, rebuilt, handOn, valueOn>>
    BY <1>7 DEF InsertDay
  <2>2. \/ UNCHANGED <<history, asked>>
        \/ /\ history' = [history EXCEPT ![d][m] = hand[d]]
           /\ asked' = [asked EXCEPT ![d][m] = handOn]
    BY <1>7 DEF InsertDay
  <2> HIDE DEF m
  <2>3. CASE UNCHANGED <<history, asked>>
    BY <2>1, <2>3 DEF TypeOK
  <2>4. CASE /\ history' = [history EXCEPT ![d][m] = hand[d]]
             /\ asked' = [asked EXCEPT ![d][m] = handOn]
    <3>1. /\ history' = [day \in Days |-> [n \in Metrics |-> history'[day][n]]]
          /\ asked' = [day \in Days |-> [n \in Metrics |-> asked'[day][n]]]
      <4>1. IsTable(history) /\ IsTable(asked)
        BY DEF IsTable, TypeOK
      <4>2. IsTable(history') /\ IsTable(asked')
        BY <2>4, <4>1, TableChanged
      <4> QED
        BY <4>2 DEF IsTable
    <3>2. \A day \in Days, n \in Metrics : asked'[day][n] \in {asked[day][n], handOn}
      BY <2>4, SMTT(60) DEF TypeOK
    <3> QED
      BY <2>1, <3>1, <3>2 DEF TypeOK
  <2> QED
    BY <2>2, <2>3, <2>4
<1>8. CASE RebuildFails
  <2>1. Len(Historical) \in Nat
    BY HistoricalSeq
  <2>2. rebuilt' \in Nat
    BY <1>8, <2>1 DEF RebuildFails, TypeOK
  <2> QED
    BY <1>0, <1>8, <2>2 DEF RebuildFails, TypeOK
<1>9. CASE UNCHANGED vars
  BY <1>9 DEF vars, TypeOK
<1> QED
  BY <1>1, <1>2, <1>3, <1>4, <1>5, <1>6, <1>7, <1>8, <1>9 DEF Next, Accounts

\* The receipts that are counted only become more, and the new ones are known since
\* today.
Grows ==
    /\ today <= today'
    /\ DOMAIN log \subseteq DOMAIN log'
    /\ \A d \in Directions :
          /\ Counted(d) \subseteq Counted(d)'
          /\ \A i \in Counted(d) : log'[i] = log[i]
          /\ \A i \in Counted(d)' \ Counted(d) : log'[i].known = today

\* Every step only adds counted receipts, and those became known today.
LEMMA LogGrows == ASSUME TypeOK, LogOK, [Next]_vars PROVE Grows /\ LogOK'
<1>1. today \in Int
  BY ActionMetricsAssumption DEF TypeOK, Days
<1>2. ASSUME NEW from \in Accounts, NEW to \in Accounts, NEW carried \in Kinds,
             Receipt(from, to, carried)
      PROVE  Grows /\ LogOK'
  <2>1. today' = today
    BY <1>2 DEF Receipt
  <2>2. \A d \in Directions : Counted(d)' = Counted(d)
    BY <1>2, ReceiptLog DEF Counted
  <2>3. LogOK'
    BY <1>1, <1>2, <2>1, ReceiptLog DEF LogOK
  <2>4. Grows
    BY <1>1, <1>2, <2>1, <2>2, ReceiptLog DEF Grows, Counted
  <2> QED
    BY <2>3, <2>4
<1>3. ASSUME NEW i \in DOMAIN log, NEW status \in {"SUCCESS", "FAILURE"}, Outcome(i, status)
      PROVE  Grows /\ LogOK'
  <2>1. /\ today' = today /\ log[i] \in Entries
        /\ log'[i].status = status /\ log'[i].known = today /\ log'[i].day = log[i].day
        /\ log[i].day \in Int
    <3>1. today' = today /\ log[i] \in Entries
      BY <1>3, LogFacts DEF Outcome
    <3>2. log'[i] = [log[i] EXCEPT !.status = status, !.known = today]
      BY <1>3, OutcomeLog
    <3>3. log[i].day \in Int
      BY <3>1, ActionMetricsAssumption DEF Entries, Days
    <3>4. /\ log'[i].status = status /\ log'[i].known = today /\ log'[i].day = log[i].day
      BY <3>1, <3>2 DEF Entries
    <3> QED
      BY <3>1, <3>3, <3>4
  <2>2. ASSUME NEW d \in Directions
        PROVE  Counted(d) \subseteq Counted(d)' /\ Counted(d)' \subseteq Counted(d) \cup {i}
               /\ i \notin Counted(d)
    BY <1>3, OutcomeLog DEF Counted
  <2>3. LogOK'
    <3> SUFFICES ASSUME NEW j \in DOMAIN log
                 PROVE  /\ log'[j].day <= today
                        /\ log'[j].status # "none" => log'[j].known \in log'[j].day .. today
      BY <1>3, <2>1, OutcomeLog DEF LogOK
    <3>1. CASE j = i
      BY <1>1, <2>1, <3>1 DEF LogOK
    <3>2. CASE j # i
      <4>1. log'[j] = log[j]
        BY <1>3, <3>2, OutcomeLog
      <4> QED
        BY <4>1 DEF LogOK
    <3> QED
      BY <3>1, <3>2
  <2>4. Grows
    <3>1. DOMAIN log' = DOMAIN log /\ \A j \in DOMAIN log \ {i} : log'[j] = log[j]
      BY <1>3, OutcomeLog
    <3>2. \A d \in Directions : Counted(d) \subseteq DOMAIN log
      BY DEF Counted
    <3>3. ASSUME NEW d \in Directions
          PROVE  /\ \A j \in Counted(d) : log'[j] = log[j]
                 /\ \A j \in Counted(d)' \ Counted(d) : log'[j].known = today
      BY <2>1, <2>2, <3>1, <3>2
    <3> QED
      BY <1>1, <2>1, <2>2, <3>1, <3>3 DEF Grows
  <2> QED
    BY <2>3, <2>4
<1>4. CASE UNCHANGED log /\ today' \in {today, today + 1}
  <2>1. \A d \in Directions : Counted(d)' = Counted(d)
    BY <1>4 DEF Counted
  <2>2. \A j \in DOMAIN log : log[j].day \in Int
    <3>1. \A j \in DOMAIN log : log[j] \in Entries
      BY LogFacts
    <3> QED
      BY <3>1, ActionMetricsAssumption DEF Entries, Days
  <2>3. LogOK'
    BY <1>1, <1>4, <2>2 DEF LogOK
  <2> QED
    BY <1>1, <1>4, <2>1, <2>3 DEF Grows
<1> QED
  BY <1>2, <1>3, <1>4 DEF Next, Ask, SaveStats, SaveHistory, Miss, Die, Midnight, AskDays,
     InsertDay, DaysInserted, RebuildFails, vars, Accounts

-----------------------------------------------------------------------------
(* What receipts are worth to a metric                                     *)

Charted == {"DEPOSITS_IN", "VALUE_IN", "VALUE_OUT"}
Counts == {"IN", "CALLS_IN", "DEPOSITS_IN"}
Measured == Charted \cup Counts
Direction(m) == IF m = "VALUE_OUT" THEN "from" ELSE "to"
Ids(m) == CASE m \in Charted  -> WithDeposit(Counted(Direction(m)))
            [] m = "IN"       -> Counted("to")
            [] m = "CALLS_IN" -> OfKind(Counted("to"), "FUNCTION_CALL")
Worth(m, ids) == IF m \in Counts THEN Cardinality(ids) ELSE Deposits(ids)

\* The receipts dated up to a day; those of them known before another, or up to it.
Dated(m, day) == {i \in Ids(m) : log[i].day <= day}
KnownBefore(m, day, other) == {i \in Dated(m, day) : log[i].known < other}
KnownUpTo(m, day, other) == {i \in Dated(m, day) : log[i].known <= other}

\* The receipts of a metric are finitely many, and their deposits naturals where they
\* are added up.
LEMMA IdsFacts ==
    ASSUME TypeOK, NEW m \in Measured, NEW ids, ids \subseteq Ids(m)
    PROVE  /\ Direction(m) \in Directions
           /\ Ids(m) \subseteq Counted(Direction(m)) /\ Counted(Direction(m)) \subseteq DOMAIN log
           /\ IsFiniteSet(Ids(m)) /\ IsFiniteSet(ids)
           /\ m \notin Counts => Naturals([i \in DOMAIN log |-> log[i].deposit], ids)
<1>1. /\ Direction(m) \in Directions
      /\ Ids(m) \subseteq Counted(Direction(m)) /\ Counted(Direction(m)) \subseteq DOMAIN log
  BY DEF Direction, Directions, Ids, WithDeposit, OfKind, Counted, Charted, Counts, Measured
<1>2. IsFiniteSet(Ids(m)) /\ IsFiniteSet(ids)
  BY <1>1, LogFacts, FS_Subset
<1>3. ASSUME m \notin Counts, NEW i \in ids PROVE log[i].deposit \in Nat
  <2>1. log[i] \in Entries
    BY <1>1, LogFacts
  <2>2. i \in WithDeposit(Counted(Direction(m)))
    <3>1. m \in Charted
      BY <1>3 DEF Measured
    <3> QED
      BY <3>1 DEF Ids, Charted
  <2> QED
    BY <2>1, <2>2 DEF Entries, WithDeposit
<1>4. m \notin Counts => \A i \in ids : log[i].deposit \in Nat
  BY <1>3
<1> QED
  BY <1>1, <1>2, <1>4 DEF Naturals

\* More receipts are worth more, and two parts as much as both.
LEMMA WorthFacts ==
    ASSUME TypeOK, NEW m \in Measured, NEW S, S \subseteq Ids(m), NEW T, T \subseteq S
    PROVE  /\ Worth(m, S) \in Nat /\ Worth(m, T) \in Nat /\ Worth(m, S \ T) \in Nat
           /\ Worth(m, T) <= Worth(m, S)
           /\ Worth(m, S) = Worth(m, T) + Worth(m, S \ T)
<1> DEFINE f == [i \in DOMAIN log |-> log[i].deposit]
<1>1. /\ IsFiniteSet(S) /\ IsFiniteSet(T) /\ IsFiniteSet(S \ T)
      /\ m \notin Counts => Naturals(f, S)
  BY IdsFacts, FS_Subset
<1> HIDE DEF f
<1>2. CASE m \in Counts
  <2>1. /\ Cardinality(S) \in Nat /\ Cardinality(T) \in Nat /\ Cardinality(S \ T) \in Nat
        /\ Cardinality(S \ T) = Cardinality(S) - Cardinality(S \cap T) /\ S \cap T = T
    BY <1>1, FS_CardinalityType, FS_Difference
  <2>2. /\ Worth(m, S) = Cardinality(S) /\ Worth(m, T) = Cardinality(T)
        /\ Worth(m, S \ T) = Cardinality(S \ T)
    BY <1>2 DEF Worth
  <2>3. Cardinality(S) = Cardinality(T) + Cardinality(S \ T)
    BY <2>1
  <2> QED
    BY <2>1, <2>2, <2>3
<1>3. CASE m \notin Counts
  <2>1. T \cup (S \ T) = S /\ T \cap (S \ T) = {} /\ Numbers(f, S)
    BY <1>1, <1>3 DEF Numbers, Naturals
  <2>2. SumFunctionOnSet(f, S) = SumFunctionOnSet(f, T) + SumFunctionOnSet(f, S \ T)
    <3> DEFINE U == S \ T
    <3> HIDE DEF U
    <3>1. SumFunctionOnSet(f, T \cup U) = SumFunctionOnSet(f, T) + SumFunctionOnSet(f, U)
      BY <1>1, <2>1, SumUnion DEF U
    <3> QED
      BY <2>1, <3>1 DEF U
  <2>3. /\ SumFunctionOnSet(f, S) \in Nat /\ SumFunctionOnSet(f, T) \in Nat
        /\ SumFunctionOnSet(f, S \ T) \in Nat
    BY <1>1, <1>3, SumOfPart
  <2> QED
    BY <1>3, <2>2, <2>3 DEF Worth, Deposits, f
<1> QED
  BY <1>2, <1>3

\* A part and the rest are worth as much as both.
WorthSplits(m, S, T) ==
    /\ Worth(m, T) \in Nat /\ Worth(m, S \ T) \in Nat /\ Worth(m, S) \in Nat
    /\ Worth(m, S) = Worth(m, T) + Worth(m, S \ T)

\* Which is so of all receipts of a metric.
LEMMA WorthOfParts ==
    ASSUME TypeOK, NEW m \in Measured, NEW S, S \subseteq Ids(m), NEW T, T \subseteq S
    PROVE  WorthSplits(m, S, T)
  BY WorthFacts DEF WorthSplits

\* What receipts are worth stays.
LEMMA WorthStays ==
    ASSUME TypeOK, Grows, NEW m \in Measured, NEW S, S \subseteq Ids(m)
    PROVE  Worth(m, S)' = Worth(m, S)
<1> DEFINE f == [i \in DOMAIN log |-> log[i].deposit]
           g == [i \in DOMAIN log' |-> log'[i].deposit]
<1>1. CASE m \in Counts
  BY <1>1 DEF Worth
<1>2. CASE m \notin Counts
  <2>1. /\ IsFiniteSet(S) /\ Numbers(f, S) /\ S \subseteq Counted(Direction(m))
        /\ Direction(m) \in Directions /\ Counted(Direction(m)) \subseteq DOMAIN log
    <3>1. /\ IsFiniteSet(S) /\ Naturals(f, S) /\ S \subseteq Counted(Direction(m))
          /\ Direction(m) \in Directions /\ Counted(Direction(m)) \subseteq DOMAIN log
      BY <1>2, IdsFacts
    <3> QED
      BY <3>1 DEF Numbers, Naturals
  <2>2. \A i \in S : f[i] = g[i]
    BY <2>1 DEF Grows
  <2>3. SumFunctionOnSet(f, S) = SumFunctionOnSet(g, S)
    <3> HIDE DEF f, g
    <3> QED
      BY <2>1, <2>2, SumSame
  <2> QED
    BY <1>2, <2>3 DEF Worth, Deposits
<1> QED
  BY <1>1, <1>2

\* What was known before a day that has come stays, and what was known up to it only
\* becomes more.
LEMMA BoundsStay ==
    ASSUME TypeOK, Grows, NEW m \in Measured, NEW day \in Days, NEW other \in Days,
           other <= today
    PROVE  /\ KnownBefore(m, day, other)' = KnownBefore(m, day, other)
           /\ KnownUpTo(m, day, other) \subseteq KnownUpTo(m, day, other)'
<1> DEFINE d == Direction(m)
<1>1. d \in Directions
  BY IdsFacts
<1>2. /\ Counted(d) \subseteq Counted(d)' /\ \A i \in Counted(d) : log'[i] = log[i]
      /\ \A i \in Counted(d)' \ Counted(d) : log'[i].known = today
  BY <1>1 DEF Grows
<1>3. Ids(m) \subseteq Ids(m)' /\ Ids(m) \subseteq Counted(d)
      /\ \A i \in Ids(m)' \ Ids(m) : i \in Counted(d)' \ Counted(d)
  BY <1>2 DEF Ids, WithDeposit, OfKind, Direction, Measured, Charted, Counts
<1>4. \A i \in Ids(m)' \ Ids(m) : ~ (log'[i].known < other)
  BY <1>2, <1>3, ActionMetricsAssumption DEF Days, TypeOK
<1> QED
  BY <1>2, <1>3, <1>4 DEF KnownBefore, KnownUpTo, Dated

-----------------------------------------------------------------------------
(* The metrics                                                             *)

\* What is recorded is what all receipts are worth.
LEMMA CurrentIs ==
    \A m \in Measured : getCurrentValue(m) = Worth(m, Ids(m)) /\ Answers(m) = {getCurrentValue(m)}
<1> SUFFICES ASSUME NEW m \in Measured
             PROVE  getCurrentValue(m) = Worth(m, Ids(m)) /\ Answers(m) = {getCurrentValue(m)}
  OBVIOUS
<1>1. CASE m = "DEPOSITS_IN"
  BY <1>1 DEF Worth, Ids, Direction, Charted, Counts, getCurrentValue, Answers,
              ActionsDepositInCountMetric, getReceiptActionsDepositCount
<1>2. CASE m = "VALUE_IN"
  BY <1>2 DEF Worth, Ids, Direction, Charted, Counts, getCurrentValue, Answers,
              ActionsDepositInValueMetric, getReceiptActionsDepositAmount
<1>3. CASE m = "VALUE_OUT"
  BY <1>3 DEF Worth, Ids, Direction, Charted, Counts, getCurrentValue, Answers,
              ActionsDepositOutValueMetric, getReceiptActionsDepositAmount
<1>4. CASE m = "IN"
  BY <1>4 DEF Worth, Ids, Charted, Counts, getCurrentValue, Answers,
              ActionsInCountMetric, getReceiptActionsCount
<1>5. CASE m = "CALLS_IN"
  BY <1>5 DEF Worth, Ids, Charted, Counts, getCurrentValue, Answers,
              ActionsFunctionCallInCountMetric, getReceiptActionsFunctionCallCount
<1> QED
  BY <1>1, <1>2, <1>3, <1>4, <1>5 DEF Measured, Charted, Counts

\* What is rebuilt of a day is what the receipts dated up to it are worth.
LEMMA HistoricalIs ==
    ASSUME NEW m \in Charted
    PROVE  getHistoricalValues(m) = [day \in {log[i].day : i \in Ids(m)} |-> Worth(m, Dated(m, day))]
<1>1. CASE m = "DEPOSITS_IN"
  BY <1>1 DEF Worth, Ids, Direction, Charted, Counts, Dated, getHistoricalValues,
              ActionsDepositInCountDays, getReceiptActionsDepositCountDaily, Cumulated
<1>2. CASE m = "VALUE_IN"
  BY <1>2 DEF Worth, Ids, Direction, Charted, Counts, Dated, getHistoricalValues,
              ActionsDepositInValueDays, getReceiptActionsDepositAmountDaily, Cumulated
<1>3. CASE m = "VALUE_OUT"
  BY <1>3 DEF Worth, Ids, Direction, Charted, Counts, Dated, getHistoricalValues,
              ActionsDepositOutValueDays, getReceiptActionsDepositAmountDaily, Cumulated
<1> QED
  BY <1>1, <1>2, <1>3 DEF Charted

-----------------------------------------------------------------------------
(* Rows, and values on their way to one                                    *)

\* A value asked on a day that has come, for a row of any day, is worth at least what
\* was known before it was asked and no more than what was known that day.
Fits(m, day, on, v) ==
    /\ on <= today
    /\ v \in Nat
    /\ Worth(m, KnownBefore(m, day, on)) <= v
    /\ v <= Worth(m, KnownUpTo(m, day, on))

\* The rows of the history, the value between its query and its writes, for whichever
\* day it will be written, and the days the migration has in hand.
RowFits(m, day) == history[day][m] # NoRow => Fits(m, day, asked[day][m], history[day][m])
RowsOK == \A m \in Measured \cap Metrics, day \in Days : RowFits(m, day)
ValueOK ==
    step # "ask" =>
        /\ valueOn <= today /\ swept < Len(Order)
        /\ Order[swept + 1] \in Measured =>
               \A day \in Days : valueOn <= day => Fits(Order[swept + 1], day, valueOn, value)
HandOK ==
    hand # NoHand /\ Historical[rebuilt] \in Measured =>
        \A day \in DOMAIN hand \cap Days : Fits(Historical[rebuilt], day, handOn, hand[day])
ChartOK == RowsOK /\ ValueOK /\ HandOK

\* A counted receipt is dated no later than it is known, and that no later than today.
LEMMA IdsDated ==
    ASSUME TypeOK, LogOK, NEW m \in Measured, NEW i \in Ids(m)
    PROVE  /\ i \in DOMAIN log /\ log[i].day \in Days /\ log[i].known \in Int
           /\ log[i].day <= log[i].known /\ log[i].known <= today
<1>1. i \in DOMAIN log /\ log[i].status = "SUCCESS"
  BY DEF Ids, WithDeposit, OfKind, Counted, Measured, Charted, Counts
<1>2. log[i] \in Entries
  BY <1>1, LogFacts
<1>3. log[i].day \in Days /\ log[i].known \in log[i].day .. today
  BY <1>1, <1>2 DEF LogOK, Entries
<1> QED
  BY <1>1, <1>3, ActionMetricsAssumption DEF Days, TypeOK

\* What was known before a day is known up to it, and all are receipts of the metric.
LEMMA KnownNested ==
    ASSUME TypeOK, LogOK, NEW m \in Measured, NEW day \in Days, NEW other \in Days
    PROVE  /\ KnownBefore(m, day, other) \subseteq KnownUpTo(m, day, other)
           /\ KnownUpTo(m, day, other) \subseteq Dated(m, day)
           /\ Dated(m, day) \subseteq Ids(m)
<1>1. \A i \in Ids(m) : log[i].known \in Int
  BY IdsDated
<1> QED
  BY <1>1, ActionMetricsAssumption DEF KnownBefore, KnownUpTo, Dated, Days

\* Parts of what was known up to a day are worth no more,
PartsLess ==
    \A m \in Measured, day \in Days, other \in Days : \A S \in SUBSET KnownUpTo(m, day, other) :
        /\ Worth(m, S) \in Nat /\ Worth(m, KnownUpTo(m, day, other)) \in Nat
        /\ Worth(m, S) <= Worth(m, KnownUpTo(m, day, other))

\* in every state of the types,
LEMMA PartsFacts == TypeOK /\ LogOK => PartsLess
<1> SUFFICES ASSUME TypeOK, LogOK, NEW m \in Measured, NEW day \in Days, NEW other \in Days,
                    NEW S \in SUBSET KnownUpTo(m, day, other)
             PROVE  /\ Worth(m, S) \in Nat /\ Worth(m, KnownUpTo(m, day, other)) \in Nat
                    /\ Worth(m, S) <= Worth(m, KnownUpTo(m, day, other))
  BY DEF PartsLess
<1>1. KnownUpTo(m, day, other) \subseteq Ids(m)
  BY KnownNested
<1> QED
  BY <1>1, WorthFacts

\* and so in the next one.
LEMMA PartsNext == (TypeOK /\ LogOK)' => PartsLess'
  BY PartsFacts, PTL

\* A value that fits a row fits it after any step.
LEMMA FitsStays ==
    ASSUME TypeOK, LogOK, TypeOK', LogOK', Grows, NEW m \in Measured, NEW day \in Days,
           NEW on \in Days, NEW v, Fits(m, day, on, v)
    PROVE  Fits(m, day, on, v)'
<1>1. /\ on <= today /\ v \in Nat
      /\ Worth(m, KnownBefore(m, day, on)) <= v /\ v <= Worth(m, KnownUpTo(m, day, on))
  BY DEF Fits
<1>2. on <= today'
  BY <1>1, SMTT(60), ActionMetricsAssumption DEF TypeOK, Days, Grows
<1>3. KnownBefore(m, day, on)' = KnownBefore(m, day, on)
      /\ KnownUpTo(m, day, on) \subseteq KnownUpTo(m, day, on)'
  BY <1>1, BoundsStay
<1>4. KnownBefore(m, day, on) \subseteq KnownUpTo(m, day, on) /\ KnownUpTo(m, day, on) \subseteq Ids(m)
      /\ KnownBefore(m, day, on) \subseteq Ids(m)
  BY KnownNested
<1>5. \A S \in SUBSET Ids(m) : Worth(m, S)' = Worth(m, S)
  BY WorthStays
<1>6. Worth(m, KnownBefore(m, day, on))' = Worth(m, KnownBefore(m, day, on))
  <2> DEFINE K == KnownBefore(m, day, on)
  <2>1. \A S \in SUBSET Ids(m) : S = K => Worth(m, S)' = Worth(m, K)
    BY <1>5
  <2> QED
    BY <1>3, <1>4, <2>1 DEF Worth, Deposits
<1>7. PartsLess /\ PartsLess'
  BY PartsFacts, PartsNext
<1>8. Worth(m, KnownUpTo(m, day, on)) <= Worth(m, KnownUpTo(m, day, on))'
  <2> DEFINE D == KnownUpTo(m, day, on)
  <2>1. \A S \in SUBSET KnownUpTo(m, day, on)' : Worth(m, S)' <= Worth(m, KnownUpTo(m, day, on))'
    BY <1>7 DEF PartsLess
  <2>2. \A S \in SUBSET Ids(m) : S = D => Worth(m, S)' = Worth(m, D)
    BY <1>5
  <2> QED
    BY <1>3, <1>4, <2>1, <2>2
<1>9. /\ Worth(m, KnownUpTo(m, day, on)) \in Int /\ Worth(m, KnownUpTo(m, day, on))' \in Int
      /\ Worth(m, KnownBefore(m, day, on)) \in Int
  <2>1. Worth(m, KnownUpTo(m, day, on)) \in Int /\ Worth(m, KnownUpTo(m, day, on))' \in Int
    BY <1>7 DEF PartsLess
  <2>2. Worth(m, KnownBefore(m, day, on)) \in Int
    BY <1>4, <1>7 DEF PartsLess
  <2> QED
    BY <2>1, <2>2
<1>10. v <= Worth(m, KnownUpTo(m, day, on))' /\ Worth(m, KnownBefore(m, day, on))' <= v
  BY <1>1, <1>6, <1>8, <1>9
<1> QED
  BY <1>1, <1>2, <1>10 DEF Fits

\* and so after one that changes neither the log nor the day.
LEMMA FitsSame ==
    ASSUME UNCHANGED <<today, log>>, NEW m, NEW day, NEW on, NEW v, Fits(m, day, on, v)
    PROVE  Fits(m, day, on, v)'
  BY DEF Fits, Worth, Deposits, KnownBefore, KnownUpTo, Dated, Ids, WithDeposit, OfKind, Counted

\* What a query answers fits the row of any day from today on, and what it answers of
\* the days fits theirs.
LEMMA CurrentFits ==
    ASSUME TypeOK, LogOK, NEW m \in Measured, NEW day \in Days, today <= day
    PROVE  Fits(m, day, today, getCurrentValue(m))
<1>1. today \in Days /\ today \in Int /\ day \in Int
  BY ActionMetricsAssumption DEF TypeOK, Days
<1>2. \A i \in Ids(m) : log[i].day <= day /\ log[i].known <= today
  BY <1>1, IdsDated, ActionMetricsAssumption DEF Days
<1>3. KnownUpTo(m, day, today) = Ids(m) /\ KnownBefore(m, day, today) \subseteq Ids(m)
  BY <1>2 DEF KnownUpTo, KnownBefore, Dated
<1>4. getCurrentValue(m) = Worth(m, Ids(m))
  BY CurrentIs
<1>5. Worth(m, Ids(m)) \in Nat /\ Worth(m, KnownBefore(m, day, today)) <= Worth(m, Ids(m))
  BY <1>3, WorthFacts
<1> QED
  BY <1>1, <1>3, <1>4, <1>5 DEF Fits

\* A rebuilt day, likewise: all that is dated up to it is known by now.
LEMMA HistoricalFits ==
    ASSUME TypeOK, LogOK, NEW m \in Charted, NEW day \in Days,
           day \in DOMAIN getHistoricalValues(m)
    PROVE  Fits(m, day, today, getHistoricalValues(m)[day])
<1>1. today \in Days /\ today \in Int /\ m \in Measured
  BY ActionMetricsAssumption DEF TypeOK, Days, Measured
<1>2. getHistoricalValues(m)[day] = Worth(m, Dated(m, day))
  BY HistoricalIs
<1>3. KnownUpTo(m, day, today) = Dated(m, day)
  BY <1>1, IdsDated DEF KnownUpTo, Dated
<1>4. KnownBefore(m, day, today) \subseteq Dated(m, day) /\ Dated(m, day) \subseteq Ids(m)
  BY DEF KnownBefore, Dated
<1>5. Worth(m, Dated(m, day)) \in Nat
      /\ Worth(m, KnownBefore(m, day, today)) <= Worth(m, Dated(m, day))
  BY <1>1, <1>4, WorthFacts
<1> QED
  BY <1>1, <1>2, <1>3, <1>5 DEF Fits

\* Every step keeps the rows within their bounds: what is written to a row is a value
\* or a day in hand, and fits it.
LEMMA RowsStep ==
    ASSUME TypeOK, LogOK, ChartOK, [Next]_vars PROVE RowsOK'
<1>1. TypeOK' /\ LogOK' /\ Grows
  BY TypeStep, LogGrows
<1> SUFFICES ASSUME NEW m \in Measured \cap Metrics, NEW day \in Days,
                    history'[day][m] # NoRow
             PROVE  Fits(m, day, asked[day][m], history[day][m])'
  BY DEF RowsOK, RowFits
<1>2. ASSUME NEW on \in Days, NEW v, Fits(m, day, on, v),
             asked'[day][m] = on, history'[day][m] = v
      PROVE  Fits(m, day, asked[day][m], history[day][m])'
  <2>1. Fits(m, day, on, v)'
    BY <1>1, <1>2, FitsStays
  <2> QED
    BY <1>2, <2>1 DEF Fits
<1>3. CASE history'[day][m] = history[day][m] /\ asked'[day][m] = asked[day][m]
  <2>1. Fits(m, day, asked[day][m], history[day][m]) /\ asked[day][m] \in Days
    BY <1>3 DEF ChartOK, RowsOK, RowFits, TypeOK
  <2>2. \A on \in Days : \A v : Fits(m, day, on, v) /\ asked'[day][m] = on /\ history'[day][m] = v
           => Fits(m, day, asked[day][m], history[day][m])'
    BY <1>2
  <2> QED
    BY <1>3, <2>1, <2>2
<1>4. CASE SaveHistory
  <2> DEFINE n == Order[swept + 1]
  <2>1. /\ history' = [history EXCEPT ![today][n] = value]
        /\ asked' = [asked EXCEPT ![today][n] = valueOn]
        /\ day \in DOMAIN history /\ m \in DOMAIN history[day]
        /\ day \in DOMAIN asked /\ m \in DOMAIN asked[day] /\ step # "ask"
    BY <1>4 DEF SaveHistory, TypeOK
  <2>2. CASE day = today /\ m = n
    <3>1. history'[day][m] = value /\ asked'[day][m] = valueOn
      <4> HIDE DEF n
      <4> QED
        BY <2>1, <2>2
    <3>2. Fits(m, day, valueOn, value) /\ valueOn \in Days
      BY <2>1, <2>2 DEF ChartOK, ValueOK, TypeOK
    <3>3. \A on \in Days : \A v : Fits(m, day, on, v) /\ asked'[day][m] = on /\ history'[day][m] = v
             => Fits(m, day, asked[day][m], history[day][m])'
      BY <1>2
    <3> QED
      BY <3>1, <3>2, <3>3
  <2>3. CASE ~ (day = today /\ m = n)
    <3> HIDE DEF n
    <3>1. history'[day][m] = history[day][m] /\ asked'[day][m] = asked[day][m]
      BY <2>1, <2>3
    <3> QED
      BY <1>3, <3>1
  <2> QED
    BY <2>2, <2>3
<1>5. ASSUME NEW d \in Days, InsertDay(d) PROVE Fits(m, day, asked[day][m], history[day][m])'
  <2> DEFINE n == Historical[rebuilt]
  <2>1. /\ history' = IF history[d][n] = NoRow THEN [history EXCEPT ![d][n] = hand[d]] ELSE history
        /\ asked' = IF history[d][n] = NoRow THEN [asked EXCEPT ![d][n] = handOn] ELSE asked
        /\ day \in DOMAIN history /\ m \in DOMAIN history[day]
        /\ day \in DOMAIN asked /\ m \in DOMAIN asked[day]
        /\ hand # NoHand /\ d \in DOMAIN hand
    BY <1>5 DEF InsertDay, TypeOK
  <2>2. CASE day = d /\ m = n /\ history[d][n] = NoRow
    <3>1. history'[day][m] = hand[day] /\ asked'[day][m] = handOn
      <4> HIDE DEF n
      <4> QED
        BY <2>1, <2>2
    <3>2. Fits(m, day, handOn, hand[day]) /\ handOn \in Days
      BY <2>1, <2>2 DEF ChartOK, HandOK, TypeOK
    <3>3. \A on \in Days : \A v : Fits(m, day, on, v) /\ asked'[day][m] = on /\ history'[day][m] = v
             => Fits(m, day, asked[day][m], history[day][m])'
      BY <1>2
    <3> QED
      BY <3>1, <3>2, <3>3
  <2>3. CASE ~ (day = d /\ m = n /\ history[d][n] = NoRow)
    <3> HIDE DEF n
    <3>1. history'[day][m] = history[day][m] /\ asked'[day][m] = asked[day][m]
      BY <2>1, <2>3
    <3> QED
      BY <1>3, <3>1
  <2> QED
    BY <2>2, <2>3
<1>6. CASE UNCHANGED <<history, asked>>
  BY <1>3, <1>6
<1> QED
  BY <1>4, <1>5, <1>6 DEF Next, Receipt, Outcome, Ask, SaveStats, Miss, Die, Midnight, AskDays,
     DaysInserted, RebuildFails, rows, vars

\* The value between its query and its writes fits every row it may be written to.
LEMMA ValueStep ==
    ASSUME TypeOK, LogOK, ValueOK, [Next]_vars PROVE ValueOK'
<1>1. TypeOK' /\ LogOK' /\ Grows
  BY TypeStep, LogGrows
<1> DEFINE m == Order[swept + 1]
<1>2. CASE step' = "ask"
  BY <1>2 DEF ValueOK
<1>3. CASE Ask
  <2>1. /\ value' \in Answers(m) /\ valueOn' = today /\ UNCHANGED <<today, log, swept>>
        /\ today \in Int
    BY <1>3, ActionMetricsAssumption DEF Ask, TypeOK, Days
  <2>2. ASSUME NEW k \in Measured, k = m, NEW day \in Days, today <= day
        PROVE  Fits(k, day, valueOn, value)'
    <3>1. value' = getCurrentValue(k)
      BY <2>1, <2>2, CurrentIs
    <3>2. Fits(k, day, today, getCurrentValue(k))
      BY <2>2, CurrentFits
    <3>3. PICK on, v : on = today /\ v = getCurrentValue(k)
      OBVIOUS
    <3>4. Fits(k, day, on, v)'
      BY <2>1, <3>2, <3>3, FitsSame
    <3> QED
      BY <2>1, <3>1, <3>3, <3>4 DEF Fits
  <2>3. swept' < Len(Order) /\ valueOn' <= today' /\ Order[swept + 1]' = m
    BY <1>3, <2>1 DEF Ask
  <2> QED
    BY <2>1, <2>2, <2>3 DEF ValueOK
<1>4. CASE UNCHANGED <<swept, value, valueOn>> /\ step # "ask"
  <2>1. valueOn <= today /\ valueOn \in Days
    BY <1>4 DEF ValueOK, TypeOK
  <2>2. valueOn' <= today'
    BY <1>1, <1>4, <2>1, ActionMetricsAssumption DEF Grows, TypeOK, Days
  <2>3. ASSUME NEW k \in Measured, k = m, NEW day \in Days, valueOn <= day
        PROVE  Fits(k, day, valueOn, value)'
    <3>1. Fits(k, day, valueOn, value)
      BY <1>4, <2>3 DEF ValueOK
    <3>2. \A on \in Days : \A v : Fits(k, day, on, v) => Fits(k, day, on, v)'
      BY <1>1, FitsStays
    <3>3. PICK on, v : on = valueOn /\ v = value
      OBVIOUS
    <3>4. Fits(k, day, on, v)'
      BY <2>1, <3>1, <3>2, <3>3
    <3> QED
      BY <1>4, <3>3, <3>4 DEF Fits
  <2> QED
    BY <1>4, <2>2, <2>3 DEF ValueOK
<1>5. CASE Miss \/ Die \/ SaveHistory
  BY <1>2, <1>5 DEF Miss, Die, SaveHistory
<1>6. CASE Midnight
  <2>1. CASE step = "ask"
    BY <1>2, <1>6, <2>1 DEF Midnight
  <2>2. CASE step # "ask"
    <3>1. swept # Len(Order)
      BY <2>2 DEF ValueOK
    <3> QED
      BY <1>4, <1>6, <2>2, <3>1 DEF Midnight
  <2> QED
    BY <2>1, <2>2
<1>7. CASE UNCHANGED sweep \/ SaveStats
  BY <1>2, <1>4, <1>7 DEF sweep, SaveStats
<1> QED
  BY <1>3, <1>5, <1>6, <1>7 DEF Next, Receipt, Outcome, AskDays, InsertDay,
     DaysInserted, RebuildFails, vars

\* The days in hand fit their rows.
LEMMA HandStep ==
    ASSUME TypeOK, LogOK, HandOK, [Next]_vars PROVE HandOK'
<1>1. TypeOK' /\ LogOK' /\ Grows
  BY TypeStep, LogGrows
<1>2. CASE hand' = NoHand
  BY <1>2 DEF HandOK
<1>3. CASE AskDays
  <2> DEFINE n == Historical[rebuilt + 1]
  <2>1. /\ rebuilt' = rebuilt + 1 /\ UNCHANGED <<today, log>> /\ handOn' = today
        /\ hand' = getHistoricalValues(n)
    BY <1>3 DEF AskDays
  <2>2. n \in {"BALANCE", "DEPOSITS_IN", "VALUE_IN", "DEPOSITS_OUT", "VALUE_OUT"}
    <3>1. rebuilt + 1 \in 1 .. Len(Historical)
      BY <1>3, HistoricalSeq DEF AskDays, TypeOK
    <3> QED
      BY <3>1, HistoricalSeq
  <2>3. ASSUME n \in Measured, NEW day \in DOMAIN hand' \cap Days
        PROVE  Fits(n, day, today, hand'[day])
    <3>1. n \in Charted
      BY <2>2, <2>3 DEF Measured, Charted, Counts
    <3> QED
      BY <2>1, <2>3, <3>1, HistoricalFits
  <2>4. ASSUME NEW k \in Measured, k = n, NEW day \in DOMAIN hand' \cap Days
        PROVE  Fits(k, day, handOn, hand[day])'
    <3>1. Fits(k, day, today, hand'[day])
      BY <2>3, <2>4
    <3>2. PICK on, v : on = today /\ v = hand'[day]
      OBVIOUS
    <3>3. Fits(k, day, on, v)'
      BY <2>1, <3>1, <3>2, FitsSame
    <3> QED
      BY <2>1, <3>2, <3>3 DEF Fits
  <2> QED
    BY <2>1, <2>4 DEF HandOK
<1>4. CASE /\ UNCHANGED <<rebuilt, handOn>> /\ hand # NoHand
           /\ DOMAIN hand' \subseteq DOMAIN hand
           /\ \A day \in DOMAIN hand' : hand'[day] = hand[day]
  <2>1. ASSUME NEW k \in Measured, k = Historical[rebuilt], NEW day \in DOMAIN hand' \cap Days
        PROVE  Fits(k, day, handOn, hand[day])'
    <3>1. Fits(k, day, handOn, hand[day]) /\ handOn \in Days
      BY <1>4, <2>1 DEF HandOK, TypeOK
    <3>2. \A on \in Days : \A v : Fits(k, day, on, v) => Fits(k, day, on, v)'
      BY <1>1, FitsStays
    <3>3. PICK on, v : on = handOn /\ v = hand[day]
      OBVIOUS
    <3>4. Fits(k, day, on, v)'
      BY <3>1, <3>2, <3>3
    <3>5. handOn' = on /\ hand'[day] = v
      BY <1>4, <2>1, <3>3
    <3> QED
      BY <3>4, <3>5 DEF Fits
  <2> QED
    BY <1>4, <2>1 DEF HandOK
<1>5. CASE UNCHANGED remake
  <2>1. CASE hand = NoHand
    BY <1>2, <1>5, <2>1 DEF remake
  <2>2. CASE hand # NoHand
    BY <1>4, <1>5, <2>2 DEF remake
  <2> QED
    BY <2>1, <2>2
<1>6. ASSUME NEW d \in Days, InsertDay(d) PROVE HandOK'
  <2>1. /\ UNCHANGED <<rebuilt, handOn>> /\ hand # NoHand
        /\ hand' = [other \in DOMAIN hand \ {d} |-> hand[other]]
    BY <1>6 DEF InsertDay
  <2>2. DOMAIN hand' \subseteq DOMAIN hand /\ \A day \in DOMAIN hand' : hand'[day] = hand[day]
    BY <2>1
  <2> QED
    BY <1>4, <2>1, <2>2
<1>7. CASE DaysInserted \/ RebuildFails
  BY <1>2, <1>7 DEF DaysInserted, RebuildFails
<1> QED
  BY <1>3, <1>5, <1>6, <1>7 DEF Next, Receipt, Outcome, Ask, SaveStats, SaveHistory, Miss, Die,
     Midnight, vars

\* The initial state, for all invariants of this module.
LEMMA Initially == Init => TypeOK /\ LogOK /\ ChartOK
<1> SUFFICES ASSUME Init PROVE TypeOK /\ LogOK /\ ChartOK
  OBVIOUS
<1>1. today \in Days /\ log \in Seq(Entries) /\ rebuilt \in Nat /\ valueOn \in Days /\ handOn \in Days
  BY ActionMetricsAssumption DEF Init, Days
<1>2. /\ history = [day \in Days |-> [m \in Metrics |-> NoRow]]
      /\ asked = [day \in Days |-> [m \in Metrics |-> 0]] /\ 0 \in Days
  BY ActionMetricsAssumption DEF Init, Days
<1>3. TypeOK
  BY <1>1, <1>2 DEF TypeOK
<1>4. LogOK
  BY DEF Init, LogOK
<1>5. RowsOK
  BY <1>2 DEF RowsOK, RowFits
<1>6. ValueOK /\ HandOK
  BY DEF Init, ValueOK, HandOK
<1> QED
  BY <1>3, <1>4, <1>5, <1>6 DEF ChartOK

\* In every state a row that was recorded, of the day of its query or of a later one,
\* or rebuilt, is no more than what is dated up to its day and was known up to the day
\* of its query, and no less than what was known before that.
THEOREM RowsBounded == Spec => [](TypeOK /\ LogOK /\ ChartOK)
<1>1. TypeOK /\ LogOK /\ ChartOK /\ [Next]_vars => (TypeOK /\ LogOK /\ ChartOK)'
  BY TypeStep, LogGrows, RowsStep, ValueStep, HandStep DEF ChartOK
<1> QED
  BY <1>1, Initially, PTL DEF Spec

-----------------------------------------------------------------------------
(* Charts, and parts of a day                                              *)

\* Two rows of which the first counts nothing the second does not, but for what became
\* known between their queries.
LEMMA RowsCompare ==
    ASSUME TypeOK, LogOK, NEW m \in Measured, NEW day \in Days, NEW other \in Days, day <= other,
           NEW on \in Days, NEW from \in Days, NEW v, NEW w,
           Fits(m, day, on, v), Fits(m, other, from, w)
    PROVE  v <= w + Worth(m, Dated(m, day) \cap KnownBetween(from, on))
<1> DEFINE D == KnownUpTo(m, day, on)
           L == D \cap KnownBetween(from, on)
           E == D \ L
           U == Dated(m, day) \cap KnownBetween(from, on)
           B == KnownBefore(m, other, from)
<1>1. /\ D \subseteq Ids(m) /\ L \subseteq D /\ E \subseteq D /\ B \subseteq Ids(m)
      /\ U \subseteq Ids(m) /\ L \subseteq U /\ L \subseteq Ids(m)
  BY KnownNested
<1>2. E \subseteq B
  <2> SUFFICES ASSUME NEW i \in E PROVE i \in B
    OBVIOUS
  <2>1. i \in Dated(m, day) /\ i \in Ids(m) /\ log[i].known <= on
    BY DEF KnownUpTo, Dated
  <2>2. i \in DOMAIN log /\ log[i].known \in Int /\ log[i].day \in Days
    BY <2>1, IdsDated
  <2>3. log[i].known < from
    BY <2>1, <2>2, ActionMetricsAssumption DEF KnownBetween, Days
  <2>4. log[i].day <= other
    BY <2>1, <2>2, ActionMetricsAssumption DEF Dated, Days
  <2> QED
    BY <2>1, <2>3, <2>4 DEF KnownBefore, Dated
<1>3. /\ v \in Nat /\ w \in Nat /\ v <= Worth(m, D) /\ Worth(m, B) <= w
  BY DEF Fits
<1> HIDE DEF D, L, U, B
<1>4. /\ Worth(m, D) = Worth(m, L) + Worth(m, E) /\ Worth(m, L) \in Nat /\ Worth(m, E) \in Nat
  <2>1. WorthSplits(m, D, L)
    BY <1>1, WorthOfParts
  <2> QED
    BY <2>1 DEF WorthSplits
<1> HIDE DEF E
<1>5. Worth(m, E) <= Worth(m, B) /\ Worth(m, B) \in Nat
  BY <1>1, <1>2, WorthFacts
<1>6. Worth(m, L) <= Worth(m, U) /\ Worth(m, U) \in Nat
  BY <1>1, WorthFacts
<1>7. v <= w + Worth(m, U)
  BY <1>3, <1>4, <1>5, <1>6
<1> QED
  BY <1>7 DEF U

\* Charts made of recorded and of rebuilt rows never fall, except by what became known
\* between the queries of their rows.
THEOREM ChartsGrow == Spec => []ChartGrows
<1>1. ASSUME TypeOK, LogOK, ChartOK PROVE ChartGrows
  <2> SUFFICES ASSUME NEW m \in Charted \cap Metrics, NEW day \in Days, NEW other \in Days,
                      day < other, history[day][m] # NoRow, history[other][m] # NoRow
               PROVE  history[day][m] <= history[other][m]
                        + LateValue(m, {i \in KnownBetween(asked[other][m], asked[day][m]) :
                                           log[i].day <= day})
    BY DEF ChartGrows, Charted
  <2> DEFINE between == KnownBetween(asked[other][m], asked[day][m])
             late == {i \in between : log[i].day <= day}
  <2>1. /\ Fits(m, day, asked[day][m], history[day][m])
        /\ Fits(m, other, asked[other][m], history[other][m])
        /\ asked[day][m] \in Days /\ asked[other][m] \in Days
    BY <1>1 DEF ChartOK, RowsOK, RowFits, TypeOK, Measured
  <2>2. day <= other
    BY ActionMetricsAssumption DEF Days
  <2>3. history[day][m] <= history[other][m] + Worth(m, Dated(m, day) \cap between)
    BY <1>1, <2>1, <2>2, RowsCompare DEF Measured
  <2>4. LateValue(m, late) = Worth(m, Dated(m, day) \cap between)
    <3>1. WithDeposit(late \cap Counted(Direction(m))) = Dated(m, day) \cap between
      BY DEF Dated, Ids, Charted, WithDeposit, Counted, KnownBetween
    <3> QED
      BY <3>1 DEF LateValue, Worth, Direction, Charted, Counts
  <2> QED
    BY <2>3, <2>4
<1> QED
  BY <1>1, RowsBounded, PTL

\* Calls and deposits of a day are no more than all actions of the day, except by those
\* that became known between the queries.
THEOREM PartsInWhole == Spec => []PartsWithinWhole
<1>1. ASSUME TypeOK, LogOK, ChartOK PROVE PartsWithinWhole
  <2> SUFFICES ASSUME NEW part \in {"CALLS_IN", "DEPOSITS_IN"} \cap Metrics, NEW day \in Days,
                      "IN" \in Metrics, history[day][part] # NoRow, history[day]["IN"] # NoRow
               PROVE  history[day][part] <= history[day]["IN"]
                          + Cardinality(Counted("to")
                                \cap KnownBetween(asked[day]["IN"], asked[day][part]))
    BY DEF PartsWithinWhole
  <2> DEFINE on == asked[day][part]
             from == asked[day]["IN"]
             C == Counted("to")
  <2>1. /\ Fits(part, day, on, history[day][part]) /\ Fits("IN", day, from, history[day]["IN"])
        /\ on \in Days /\ from \in Days /\ part \in Measured /\ "IN" \in Measured
    BY <1>1 DEF ChartOK, RowsOK, RowFits, TypeOK, Measured, Counts
  <2>2. Fits("IN", day, on, Worth("IN", KnownUpTo("IN", day, on)))
    <3>1. on <= today
      BY <2>1 DEF Fits
    <3>2. PartsLess /\ KnownBefore("IN", day, on) \subseteq KnownUpTo("IN", day, on)
      BY <1>1, <2>1, PartsFacts, KnownNested
    <3>3. /\ Worth("IN", KnownUpTo("IN", day, on)) \in Nat
          /\ Worth("IN", KnownBefore("IN", day, on)) <= Worth("IN", KnownUpTo("IN", day, on))
      BY <2>1, <3>2 DEF PartsLess
    <3> QED
      BY <3>1, <3>3 DEF Fits
  <2>3. Worth("IN", KnownUpTo("IN", day, on))
          <= history[day]["IN"] + Worth("IN", Dated("IN", day) \cap KnownBetween(from, on))
    <3>1. day <= day
      BY ActionMetricsAssumption DEF Days
    <3> QED
      BY <1>1, <2>1, <2>2, <3>1, RowsCompare
  <2>4. history[day][part] <= Worth("IN", KnownUpTo("IN", day, on))
    <3>1. Ids(part) \subseteq Ids("IN") /\ part \in Counts
      BY DEF Ids, Charted, Counts, Direction, WithDeposit, OfKind
    <3>2. KnownUpTo(part, day, on) \subseteq KnownUpTo("IN", day, on)
      BY <3>1 DEF KnownUpTo, Dated
    <3>3. PartsLess
      BY <1>1, PartsFacts
    <3>4. /\ Worth("IN", KnownUpTo(part, day, on)) <= Worth("IN", KnownUpTo("IN", day, on))
          /\ Worth("IN", KnownUpTo(part, day, on)) \in Nat
          /\ Worth("IN", KnownUpTo("IN", day, on)) \in Nat
      BY <2>1, <3>2, <3>3 DEF PartsLess
    <3>5. Worth(part, KnownUpTo(part, day, on)) = Worth("IN", KnownUpTo(part, day, on))
      BY <3>1 DEF Worth, Counts
    <3>6. history[day][part] \in Nat /\ history[day][part] <= Worth(part, KnownUpTo(part, day, on))
      BY <2>1 DEF Fits
    <3> QED
      BY <3>4, <3>5, <3>6
  <2>5. /\ Worth("IN", Dated("IN", day) \cap KnownBetween(from, on))
             <= Cardinality(C \cap KnownBetween(from, on))
        /\ Worth("IN", Dated("IN", day) \cap KnownBetween(from, on)) \in Nat
        /\ Cardinality(C \cap KnownBetween(from, on)) \in Nat
    <3> DEFINE S == C \cap KnownBetween(from, on)
               T == Dated("IN", day) \cap KnownBetween(from, on)
    <3>1. T \subseteq S /\ S \subseteq Ids("IN")
      BY DEF Dated, Ids, Charted
    <3> HIDE DEF S, T
    <3>2. Worth("IN", T) <= Worth("IN", S) /\ Worth("IN", S) \in Nat /\ Worth("IN", T) \in Nat
      BY <1>1, <2>1, <3>1, WorthFacts
    <3>3. Worth("IN", S) = Cardinality(S)
      BY DEF Worth, Counts
    <3> QED
      BY <3>2, <3>3 DEF S, T
  <2>6. /\ history[day]["IN"] \in Nat /\ history[day][part] \in Nat
        /\ Worth("IN", KnownUpTo("IN", day, on)) \in Nat
    <3>1. PartsLess
      BY <1>1, PartsFacts
    <3> QED
      BY <2>1, <3>1 DEF Fits, PartsLess
  <2> QED
    BY <2>3, <2>4, <2>5, <2>6
<1> QED
  BY <1>1, RowsBounded, PTL

-----------------------------------------------------------------------------
(* What is rebuilt ends at what is recorded                                *)

\* Some of the days have a latest one.
LEMMA LatestDay ==
    ASSUME NEW D \in SUBSET Days, D # {}
    PROVE  \E day \in D : \A other \in D : other <= day
<1>1. MaxDay \in Nat
  BY ActionMetricsAssumption
<1> DEFINE N == {MaxDay - day : day \in D}
<1>2. N \in SUBSET Nat /\ N # {}
  <2>1. \A day \in D : MaxDay - day \in Nat
    BY <1>1 DEF Days
  <2> QED
    BY <2>1
<1>3. PICK n \in N : \A k \in N : n <= k
  <2> HIDE DEF N
  <2> QED
    BY <1>2, LeastNatural
<1>4. PICK day \in D : n = MaxDay - day
  BY <1>3
<1>5. \A other \in D : MaxDay - day <= MaxDay - other
  BY <1>3, <1>4
<1> QED
  BY <1>1, <1>4, <1>5 DEF Days

\* Up to a day, the values of days with receipts give the one of the latest such day,
\* which counts the same receipts, or nothing when there are none.
LEMMA UpToFacts ==
    ASSUME TypeOK, NEW ids, ids \subseteq DOMAIN log, NEW values,
           DOMAIN values = {log[i].day : i \in ids}, NEW day \in Days
    PROVE  LET dated == {i \in ids : log[i].day <= day}
           IN  \/ dated = {} /\ UpTo(values, day) = 0
               \/ \E d \in DOMAIN values :
                     UpTo(values, day) = values[d] /\ {i \in ids : log[i].day <= d} = dated
<1> DEFINE dated == {i \in ids : log[i].day <= day}
           earlier == {d \in DOMAIN values : d <= day}
           part == [d \in earlier |-> values[d]]
<1>1. \A i \in ids : log[i].day \in Days
  <2>1. \A i \in DOMAIN log : log[i] \in Entries
    BY LogFacts
  <2> QED
    BY <2>1 DEF Entries
<1>2. Days \subseteq Int
  BY ActionMetricsAssumption DEF Days
<1>3. CASE earlier = {}
  BY <1>3 DEF UpTo
<1>4. CASE earlier # {}
  <2>1. earlier \in SUBSET Days
    BY <1>1
  <2>2. \E d \in earlier : \A other \in earlier : other <= d
    <3> HIDE DEF earlier
    <3> QED
      BY <1>4, <2>1, LatestDay
  <2> DEFINE d == CHOOSE d \in DOMAIN part : \A other \in DOMAIN part : other <= d
  <2>3. d \in earlier /\ \A other \in earlier : other <= d
    BY <2>2
  <2>4. UpTo(values, day) = values[d]
    <3>1. UpTo(values, day) = ValueOfLast(part)
      BY <1>4 DEF UpTo
    <3>2. ValueOfLast(part) = part[d]
      BY DEF ValueOfLast
    <3> QED
      BY <2>3, <3>1, <3>2
  <2> HIDE DEF d
  <2>5. \A i \in ids : log[i].day <= d <=> log[i].day <= day
    <3> SUFFICES ASSUME NEW i \in ids PROVE log[i].day <= d <=> log[i].day <= day
      OBVIOUS
    <3>1. log[i].day \in Int /\ d \in Int /\ day \in Int /\ d <= day
      BY <1>1, <1>2, <2>1, <2>3
    <3>2. log[i].day <= day => log[i].day <= d
      BY <2>3
    <3> QED
      BY <3>1, <3>2
  <2> QED
    BY <2>3, <2>4, <2>5
<1> QED
  BY <1>3, <1>4

\* The values of a metric up to a day are what the receipts dated up to it are worth.
LEMMA UpToIs ==
    ASSUME TypeOK, NEW m \in Charted, NEW day \in Days
    PROVE  UpTo(getHistoricalValues(m), day) = Worth(m, Dated(m, day))
<1> DEFINE values == getHistoricalValues(m)
<1>1. values = [d \in {log[i].day : i \in Ids(m)} |-> Worth(m, Dated(m, d))]
  BY HistoricalIs
<1>2. DOMAIN values = {log[i].day : i \in Ids(m)} /\ \A d \in DOMAIN values : values[d] = Worth(m, Dated(m, d))
  BY <1>1
<1>3. Ids(m) \subseteq DOMAIN log
  BY IdsFacts DEF Measured
<1> HIDE DEF values
<1>4. \/ Dated(m, day) = {} /\ UpTo(values, day) = 0
      \/ \E d \in DOMAIN values : UpTo(values, day) = values[d] /\ Dated(m, d) = Dated(m, day)
  BY <1>2, <1>3, UpToFacts DEF Dated
<1>5. Worth(m, {}) = 0
  BY SumOfNone, FS_EmptySet DEF Worth, Deposits
<1> QED
  BY <1>2, <1>4, <1>5 DEF values

\* The balance up to a day is what was received less what was sent.
LEMMA BalanceUpToIs ==
    ASSUME TypeOK, NEW day \in Days
    PROVE  UpTo(getAccountBalanceDaily, day)
             = Worth("VALUE_IN", Dated("VALUE_IN", day)) - Worth("VALUE_OUT", Dated("VALUE_OUT", day))
<1> DEFINE in == Ids("VALUE_IN")
           out == Ids("VALUE_OUT")
           Net(ids) == Deposits(ids \cap in) - Deposits(ids \cap out)
           Upto(d) == {i \in in \cup out : log[i].day <= d}
           values == getAccountBalanceDaily
<1>1. values = [d \in {log[i].day : i \in in \cup out} |-> Net(Upto(d))]
  BY DEF getAccountBalanceDaily, Cumulated, Ids, Direction, Charted
<1>2. in \cup out \subseteq DOMAIN log
  BY IdsFacts DEF Measured, Charted
<1>3. DOMAIN values = {log[i].day : i \in in \cup out} /\ \A d \in DOMAIN values : values[d] = Net(Upto(d))
  BY <1>1
<1> HIDE DEF values
<1>4. \/ Upto(day) = {} /\ UpTo(values, day) = 0
      \/ \E d \in DOMAIN values : UpTo(values, day) = values[d] /\ Upto(d) = Upto(day)
  <2> DEFINE ids == in \cup out
  <2> HIDE DEF in, out
  <2>1. ids \subseteq DOMAIN log /\ DOMAIN values = {log[i].day : i \in ids}
    BY <1>2, <1>3
  <2> HIDE DEF ids
  <2>2. \/ {i \in ids : log[i].day <= day} = {} /\ UpTo(values, day) = 0
        \/ \E d \in DOMAIN values : UpTo(values, day) = values[d]
               /\ {i \in ids : log[i].day <= d} = {i \in ids : log[i].day <= day}
    BY <2>1, UpToFacts
  <2> QED
    BY <2>2 DEF ids
<1>5. Net({}) = 0
  <2>1. {} \cap in = {} /\ {} \cap out = {} /\ Deposits({}) = 0
    BY SumOfNone DEF Deposits
  <2> QED
    BY <2>1
<1>6. UpTo(values, day) = Net(Upto(day))
  <2> HIDE DEF Net, Upto
  <2> QED
    BY <1>3, <1>4, <1>5
<1>7. Upto(day) \cap in = Dated("VALUE_IN", day) /\ Upto(day) \cap out = Dated("VALUE_OUT", day)
  BY DEF Dated
<1> QED
  BY <1>6, <1>7 DEF Worth, Counts, values

\* What is rebuilt ends at what would be recorded, and the balance of a day is what was
\* received up to it less what was sent: both count the same receipts, and those of
\* today are all there are.
THEOREM RebuiltAgrees == Spec => []RebuiltAddsUp
<1>1. ASSUME TypeOK, LogOK PROVE RebuiltAddsUp
  <2>1. today \in Days
    BY <1>1 DEF TypeOK
  <2>2. ASSUME NEW m \in Charted PROVE Dated(m, today) = Ids(m)
    <3>1. Ids(m) \subseteq DOMAIN log
      BY <1>1, IdsFacts DEF Measured
    <3> QED
      BY <1>1, <3>1 DEF LogOK, Dated
  <2>3. \A m \in Charted : UpTo(getHistoricalValues(m), today) = getCurrentValue(m)
    BY <1>1, <2>1, <2>2, UpToIs, CurrentIs DEF Measured
  <2>4. \A day \in Days : UpTo(getAccountBalanceDaily, day)
            = UpTo(getHistoricalValues("VALUE_IN"), day) - UpTo(getHistoricalValues("VALUE_OUT"), day)
    BY <1>1, BalanceUpToIs, UpToIs DEF Charted
  <2> QED
    BY <2>3, <2>4 DEF RebuiltAddsUp, Charted
<1> QED
  BY <1>1, RowsBounded, PTL

=============================================================================
