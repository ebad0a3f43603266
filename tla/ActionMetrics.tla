---------------------------- MODULE ActionMetrics ----------------------------
(***************************************************************************)
(* The metrics of a DAO that are counted in the receipt actions of the     *)
(* NEAR indexer (libs/astro/src/metrics/actions and account): what a sweep *)
(* records of them every day, and what the historical migration rebuilds   *)
(* of the days that have no row, from queries of their own.                *)
(*                                                                         *)
(* Query and writes of a metric are steps of their own: the database dates *)
(* the row when it is written, which may be after midnight.                *)
(*                                                                         *)
(* A receipt action is counted once the outcome of its receipt is indexed, *)
(* on the day of the receipt and only if it did not fail.                  *)
(***************************************************************************)
EXTENDS Integers, Sequences, FiniteSets, Functions

CONSTANTS
    Kinds,      \* what receipts carry: [kind, deposit]
    Metrics,    \* the metrics to look at
    Balances,   \* what the state of the account may hold
    NoHand,     \* no value, and no list of days, is held between two steps
    MaxDay, MaxActions, MaxMissed \* bounds

NoDeposit == -1
ASSUME ActionMetricsAssumption ==
    /\ \A k \in Kinds : k.deposit \in Nat \cup {NoDeposit}
    /\ {MaxDay, MaxActions, MaxMissed} \subseteq Nat
    /\ Balances \subseteq Nat

Days == 0 .. MaxDay
NoRow == -1
Never == MaxDay + 1

VARIABLES
    today,
    log,      \* the receipt actions of the DAO: [day, from, to, kind, deposit, status, known]
    swept,    \* the metrics the run under way has passed; all of them between two runs
    step,     \* what comes next for the metric: its query or one of its two writes
    value,    \* what the query answered, while it is not written to both tables
    stats,    \* table dao_stats
    history,  \* table dao_stats_history, by day
    rebuilt,  \* the number of metrics the migration has asked; bound: it runs once
    hand,     \* the days it has read of the last of them and not inserted yet
    missed,   \* counter for the bound
    \* History, read by no action of the program:
    valueOn,  \* the day `value` was asked
    handOn,   \* the day `hand` was asked
    asked     \* the day a row's value was asked

rows   == <<stats, history, asked>>
sweep  == <<swept, step, value, valueOn>>
remake == <<rebuilt, hand, handOn>>
vars   == <<today, log, sweep, rows, remake, missed>>

-----------------------------------------------------------------------------
(* NearIndexerService                                                      *)

\* buildReceiptActionsQuery: a receipt without an outcome is not counted either,
\* as NULL != 'FAILURE' is not true.
Counted(direction) ==
    {i \in DOMAIN log : log[i].status = "SUCCESS" /\ log[i][direction] = "dao"}
WithDeposit(ids) == {i \in ids : log[i].deposit \notin {NoDeposit, 0}}
OfKind(ids, kind) == {i \in ids : log[i].kind = kind}
Deposits(ids) == SumFunctionOnSet([i \in DOMAIN log |-> log[i].deposit], ids)

getReceiptActionsCount(direction) == Cardinality(Counted(direction))
\* Mutant: failed calls are counted too.
CallsWithFailed(direction) ==
    Cardinality({i \in DOMAIN log : log[i][direction] = "dao" /\ log[i].kind = "FUNCTION_CALL"})
getReceiptActionsFunctionCallCount(direction) ==
    Cardinality(OfKind(Counted(direction), "FUNCTION_CALL"))
getReceiptActionsDepositCount(direction) == Cardinality(WithDeposit(Counted(direction)))
getReceiptActionsDepositAmount(direction) == Deposits(WithDeposit(Counted(direction)))

\* The days with any of the receipts, each with the value of all up to it.
Cumulated(ids, Value(_)) ==
    [day \in {log[i].day : i \in ids} |-> Value({i \in ids : log[i].day <= day})]

\* Mutant: every row counts all of them.
CountsOfAllDays(direction) ==
    LET ids == WithDeposit(Counted(direction))
    IN  [day \in {log[i].day : i \in ids} |-> Cardinality(ids)]
getReceiptActionsDepositCountDaily(direction) ==
    Cumulated(WithDeposit(Counted(direction)), Cardinality)
getReceiptActionsDepositAmountDaily(direction) ==
    Cumulated(WithDeposit(Counted(direction)), Deposits)

\* Mutant: what the DAO sends itself is only received.
BalanceWithoutSelf ==
    LET in == WithDeposit(Counted("to"))
        out == WithDeposit(Counted("from")) \ in
    IN  Cumulated(in \cup out, LAMBDA ids : Deposits(ids \cap in) - Deposits(ids \cap out))

\* getAccountBalanceDaily: deposits and withdrawals per day, joined and added up.
getAccountBalanceDaily ==
    LET in == WithDeposit(Counted("to"))
        out == WithDeposit(Counted("from"))
    IN  Cumulated(in \cup out, LAMBDA ids : Deposits(ids \cap in) - Deposits(ids \cap out))

-----------------------------------------------------------------------------
(* The metrics                                                             *)

\* The part of DAO_METRICS that reads the indexer, and DAO_HISTORICAL_METRICS.
DAO_METRICS == <<"BALANCE", "IN", "OUT", "CALLS_IN", "CALLS_OUT",
                 "DEPOSITS_IN", "VALUE_IN", "DEPOSITS_OUT", "VALUE_OUT">>
DAO_HISTORICAL_METRICS == <<"BALANCE", "DEPOSITS_IN", "VALUE_IN", "DEPOSITS_OUT", "VALUE_OUT">>

\* Those of a list that are looked at, in its order.
Selected(list) ==
    LET of[n \in 0 .. Len(list)] == IF n = 0 THEN <<>>
                                    ELSE IF list[n] \in Metrics THEN Append(of[n - 1], list[n])
                                    ELSE of[n - 1]
    IN  of[Len(list)]
Order == Selected(DAO_METRICS)
Historical == Selected(DAO_HISTORICAL_METRICS)

\* What each class asks for the current value, and for the days.  The state of the
\* account moves by more than the receipts that are counted (gas, storage, the
\* deposits of failed receipts), so it may hold anything.
AccountBalanceMetric == Balances
ActionsInCountMetric == getReceiptActionsCount("to")
ActionsOutCountMetric == getReceiptActionsCount("from")
ActionsFunctionCallInCountMetric == getReceiptActionsFunctionCallCount("to")
ActionsFunctionCallOutCountMetric == getReceiptActionsFunctionCallCount("from")
ActionsDepositInCountMetric == getReceiptActionsDepositCount("to")
ActionsDepositInValueMetric == getReceiptActionsDepositAmount("to")
ActionsDepositOutCountMetric == getReceiptActionsCount("from")
ActionsDepositOutValueMetric == getReceiptActionsDepositAmount("from")

getCurrentValue(m) ==
    CASE m = "IN"           -> ActionsInCountMetric
      [] m = "OUT"          -> ActionsOutCountMetric
      [] m = "CALLS_IN"     -> ActionsFunctionCallInCountMetric
      [] m = "CALLS_OUT"    -> ActionsFunctionCallOutCountMetric
      [] m = "DEPOSITS_IN"  -> ActionsDepositInCountMetric
      [] m = "VALUE_IN"     -> ActionsDepositInValueMetric
      [] m = "DEPOSITS_OUT" -> ActionsDepositOutCountMetric
      [] m = "VALUE_OUT"    -> ActionsDepositOutValueMetric
Answers(m) == IF m = "BALANCE" THEN AccountBalanceMetric ELSE {getCurrentValue(m)}

\* A list of days is the function of its days.
AccountBalanceDays == getAccountBalanceDaily
ActionsDepositInCountDays == getReceiptActionsDepositCountDaily("to")
ActionsDepositInValueDays == getReceiptActionsDepositAmountDaily("to")
ActionsDepositOutCountDays == getReceiptActionsDepositCountDaily("from")
ActionsDepositOutValueDays == getReceiptActionsDepositAmountDaily("from")

getHistoricalValues(m) ==
    CASE m = "BALANCE"      -> AccountBalanceDays
      [] m = "DEPOSITS_IN"  -> ActionsDepositInCountDays
      [] m = "VALUE_IN"     -> ActionsDepositInValueDays
      [] m = "DEPOSITS_OUT" -> ActionsDepositOutCountDays
      [] m = "VALUE_OUT"    -> ActionsDepositOutValueDays

-----------------------------------------------------------------------------
(* Actions                                                                 *)

Init ==
    /\ today = 0
    /\ log = <<>>
    /\ swept = 0 /\ step = "ask" /\ value = NoHand /\ valueOn = 0
    /\ stats = [m \in Metrics |-> NoRow]
    /\ history = [day \in Days |-> [m \in Metrics |-> NoRow]]
    /\ asked = [day \in Days |-> [m \in Metrics |-> 0]]
    /\ rebuilt = 0 /\ hand = NoHand /\ handOn = 0
    /\ missed = 0

\* A receipt is included in a block of today.
Receipt(from, to, carried) ==
    /\ Len(log) < MaxActions
    /\ "dao" \in {from, to}
    /\ log' = Append(log, [day |-> today, from |-> from, to |-> to, kind |-> carried.kind,
                           deposit |-> carried.deposit, status |-> "none", known |-> Never])
    /\ UNCHANGED <<today, sweep, rows, remake, missed>>

\* Its outcome is indexed.
Outcome(i, status) ==
    /\ log[i].status = "none"
    /\ log' = [log EXCEPT ![i].status = status, ![i].known = today]
    /\ UNCHANGED <<today, sweep, rows, remake, missed>>

\* The run asks for the next metric.
Ask ==
    /\ swept < Len(Order) /\ step = "ask"
    /\ value' \in Answers(Order[swept + 1]) /\ valueOn' = today
    /\ step' = "stats"
    /\ UNCHANGED <<today, log, swept, rows, remake, missed>>

\* daoStatsService.createOrUpdate
SaveStats ==
    /\ step = "stats" /\ step' = "history"
    /\ stats' = [stats EXCEPT ![Order[swept + 1]] = value]
    /\ UNCHANGED <<today, log, swept, value, valueOn, history, asked, remake, missed>>

\* daoStatsHistoryService.createOrUpdate: the date is the database's, now.
SaveHistory ==
    /\ step = "history" /\ step' = "ask"
    /\ history' = [history EXCEPT ![today][Order[swept + 1]] = value]
    /\ asked' = [asked EXCEPT ![today][Order[swept + 1]] = valueOn]
    /\ swept' = swept + 1 /\ value' = NoHand /\ valueOn' = 0
    /\ UNCHANGED <<today, log, stats, remake, missed>>

\* The query fails.
Miss ==
    /\ missed < MaxMissed /\ missed' = missed + 1
    /\ swept < Len(Order) /\ step = "ask"
    /\ swept' = swept + 1
    /\ UNCHANGED <<today, log, step, value, valueOn, rows, remake>>

\* The run dies, at any point, or there is none that day.
Die ==
    /\ missed < MaxMissed /\ missed' = missed + 1
    /\ swept < Len(Order) /\ swept' = Len(Order)
    /\ step' = "ask" /\ value' = NoHand /\ valueOn' = 0
    /\ UNCHANGED <<today, log, rows, remake>>

\* The tick of a day is ignored while the run of an earlier day is under way.
Midnight ==
    /\ today < MaxDay /\ today' = today + 1
    /\ swept' = IF swept = Len(Order) THEN 0 ELSE swept
    /\ UNCHANGED <<log, step, value, valueOn, rows, remake, missed>>

\* The migration asks for the days of its next metric.
AskDays ==
    /\ hand = NoHand /\ rebuilt < Len(Historical) /\ rebuilt' = rebuilt + 1
    /\ hand' = getHistoricalValues(Historical[rebuilt + 1]) /\ handOn' = today
    /\ UNCHANGED <<today, log, sweep, rows, missed>>

\* createIgnore, one statement a day: a day that has a row keeps it.
InsertDay(day) ==
    LET m == Historical[rebuilt]
        new == history[day][m] = NoRow
    IN  /\ hand # NoHand /\ day \in DOMAIN hand
        /\ history' = IF new THEN [history EXCEPT ![day][m] = hand[day]] ELSE history
        /\ asked' = IF new THEN [asked EXCEPT ![day][m] = handOn] ELSE asked
        /\ hand' = [other \in DOMAIN hand \ {day} |-> hand[other]]
        /\ UNCHANGED <<today, log, sweep, stats, rebuilt, handOn, missed>>

\* All days of the metric are inserted, or there were none.
DaysInserted ==
    /\ hand # NoHand /\ DOMAIN hand = {} /\ hand' = NoHand /\ handOn' = 0
    /\ UNCHANGED <<today, log, sweep, rows, rebuilt, missed>>

\* Its query fails, or the migration stops with days in hand.
RebuildFails ==
    /\ missed < MaxMissed /\ missed' = missed + 1
    /\ rebuilt < Len(Historical)
    /\ rebuilt' \in {rebuilt + 1, Len(Historical)} /\ hand' = NoHand /\ handOn' = 0
    /\ hand # NoHand => rebuilt' = Len(Historical)
    /\ UNCHANGED <<today, log, sweep, rows>>

Next ==
    \/ \E from, to \in {"dao", "user"}, carried \in Kinds : Receipt(from, to, carried)
    \/ \E i \in DOMAIN log, status \in {"SUCCESS", "FAILURE"} : Outcome(i, status)
    \/ Ask \/ SaveStats \/ SaveHistory \/ Miss \/ Die \/ Midnight
    \/ AskDays \/ (\E day \in Days : InsertDay(day)) \/ DaysInserted \/ RebuildFails

Spec == Init /\ [][Next]_vars

-----------------------------------------------------------------------------
(* Properties                                                              *)

ValueOfLast(values) == values[CHOOSE day \in DOMAIN values : \A other \in DOMAIN values : other <= day]
UpTo(values, day) ==
    LET earlier == {d \in DOMAIN values : d <= day}
    IN  IF earlier = {} THEN 0 ELSE ValueOfLast([d \in earlier |-> values[d]])

\* What is rebuilt ends at what would be recorded, for the metrics whose two queries
\* ask the same (see DepositsCounted for the one whose do not), and the balance of a
\* day is what was received up to it less what was sent.  That this balance is what
\* the account holds is not said: near-indexer.service.ts:249 says it is not.
RebuiltAddsUp ==
    /\ \A m \in {"DEPOSITS_IN", "VALUE_IN", "VALUE_OUT"} :
          UpTo(getHistoricalValues(m), today) = getCurrentValue(m)
    /\ \A day \in Days :
          UpTo(getAccountBalanceDaily, day)
            = UpTo(getHistoricalValues("VALUE_IN"), day) - UpTo(getHistoricalValues("VALUE_OUT"), day)

\* What became known from one day to another.
KnownBetween(first, last) == {i \in DOMAIN log : first <= log[i].known /\ log[i].known <= last}
LateValue(m, ids) ==
    LET late == WithDeposit(ids \cap Counted(IF m = "VALUE_OUT" THEN "from" ELSE "to"))
    IN  IF m = "DEPOSITS_IN" THEN Cardinality(late) ELSE Deposits(late)

\* A row is recorded by a sweep that asked on its day or, before midnight, on an
\* earlier one, or rebuilt from a query of a later day.  A chart made of such rows
\* never falls, except by receipts that became known between the query of its later
\* row and that of the earlier one; a chart of recorded rows alone never falls.
ChartGrows ==
    \A m \in {"DEPOSITS_IN", "VALUE_IN", "VALUE_OUT"} \cap Metrics, day, other \in Days :
        LET late == {i \in KnownBetween(asked[other][m], asked[day][m]) : log[i].day <= day}
        IN  (day < other /\ history[day][m] # NoRow /\ history[other][m] # NoRow) =>
                history[day][m] <= history[other][m] + LateValue(m, late)

\* The calls and the deposits of a day are no more than all actions of the day,
\* except by what became known between the queries: they come later in a sweep that
\* midnight may cut in two, or are rebuilt afterwards.
PartsWithinWhole ==
    \A part \in {"CALLS_IN", "DEPOSITS_IN"} \cap Metrics, day \in Days :
        ("IN" \in Metrics /\ history[day][part] # NoRow /\ history[day]["IN"] # NoRow) =>
            history[day][part] <= history[day]["IN"]
                + Cardinality(Counted("to") \cap KnownBetween(asked[day]["IN"], asked[day][part]))

\* What is recorded as the number of outgoing actions with a deposit is no more than
\* those there are.
DepositsCounted ==
    stats["DEPOSITS_OUT"] <= getReceiptActionsDepositCount("from")

=============================================================================
