----------------------------- MODULE LogQueries -----------------------------
(***************************************************************************)
(* What the API answers from the stored transactions and receipt actions   *)
(* of one contract: TransactionService, ReceiptActionService and, built on *)
(* them, UsersService, FlowService and GeneralService.  The tables are     *)
(* written by the aggregator, a batch of receipt actions at a time, and by *)
(* the migration that fills the votes of older transactions.               *)
(*                                                                         *)
(* An operator with the name of a method is its answer from the tables as  *)
(* they stand; where SQL leaves the order of equals open it is the set of  *)
(* the possible answers.  Charts read day by day are the subject of        *)
(* `request`.                                                              *)
(***************************************************************************)
EXTENDS MetricDays, FiniteSets

CONSTANTS
    Users, Daos,     \* accounts
    Factory,         \* account of the contract, which no DAO's name ends with
    NoDao,           \* the context of the whole platform
    Calls,           \* what a user sends to a DAO: [method, vote, deposit]
    Outgoing,        \* what an executed proposal sends: [method, vote, deposit]
    Factor,          \* conversionFactor of the contract
    LeaderboardSize, \* 10 in the code
    Concurrency,     \* queries of a pool under way at once, 5 in the code
    Week, Month,     \* units of time
    MaxNow, MaxTransactions, MaxMigrations \* bounds

\* A deposit is -1 for none or a multiple of Factor, so that \div is the exact
\* division of convertFunds.
ASSUME LogQueriesAssumption ==
    /\ Users \cap Daos = {} /\ NoDao \notin Daos /\ Factory \notin Users \cup Daos
    /\ IsFiniteSet(Daos)
    /\ {Factor, LeaderboardSize, Concurrency, Week, Month} \subseteq Nat \ {0}
    /\ \A call \in Calls \cup Outgoing :
          call.deposit = -1 \/ (call.deposit \in Nat /\ call.deposit % Factor = 0)
    /\ {MaxNow, MaxTransactions, MaxMigrations} \subseteq Nat

Null == "null"
NoDeposit == -1

\* Of the methods of a DAO only act_proposal has an argument `action`, the vote.
ASSUME VotesAssumption ==
    \A call \in Calls \cup Outgoing : call.vote # Null => call.method = "act_proposal"

VARIABLES
    now,       \* the time
    log,       \* the transactions: [at, signer, receiver]
    made,      \* the receipt actions: [tx, at, from, to, method, vote, deposit]
    saved,     \* those of them in table action_receipt_actions
    types,     \* type and vote of the transactions in table transactions
    withVotes, \* the deployed aggregator stores votes
    toMigrate, \* rows the migration has loaded and not yet saved
    migrations,\* counter for the bound
    request    \* <<>> or <<a request for the chart of users>>

tables == <<saved, types>>
vars == <<now, log, made, tables, withVotes, toMigrate, migrations, request>>

-----------------------------------------------------------------------------
(* TransactionService                                                      *)

NoQuery == [from |-> Absent, to |-> Absent]
To(t) == [from |-> Absent, to |-> t]
From(t) == [from |-> t, to |-> Absent]
Within(t, q) == (q.from = Absent \/ t >= q.from) /\ (q.to = Absent \/ t <= q.to)
AccountsOf(ctx) == IF ctx = NoDao THEN Daos ELSE {ctx}

\* getIntervalQueryBuilder: the transactions sent to a DAO of the context.
Transactions(ctx, q) ==
    {i \in DOMAIN types : log[i].receiver \in AccountsOf(ctx) /\ Within(log[i].at, q)}

\* getActivityIntervalQueryBuilder: type != CreateDao is not true of NULL either.
Activity(ctx, q) == {i \in Transactions(ctx, q) : types[i].type \notin {"CreateDao", Null}}

ReceiversOf(ids) == {log[i].receiver : i \in ids}
CountUsers(ids) == Cardinality({log[i].signer : i \in ids})
ActivityOf(ctx, ids) == IF ctx = NoDao THEN Cardinality(ReceiversOf(ids)) ELSE Cardinality(ids)

\* addDailySelection and addIntervalSelection: one row for each period that has
\* any, in their order.  An interval is counted at the start of the next.
Periods(ids, Period(_), Count(_)) ==
    LET rows == InOrder({Period(log[i].at) : i \in ids})
    IN  [n \in DOMAIN rows |->
            [day |-> rows[n], count |-> Count({i \in ids : Period(log[i].at) = rows[n]})]]
Daily(t) == StartOf(Day(t))

\* count per receiver, largest first; equals in any order.
Ranked(rows) == {s \in SetToSeqs(rows) : \A i, j \in DOMAIN s : i < j => s[i].count >= s[j].count}
Limited(s, limit) == SubSeq(s, 1, IF Len(s) < limit THEN Len(s) ELSE limit)
PerDao(ids, Count(_)) ==
    {[dao |-> d, count |-> Count({i \in ids : log[i].receiver = d})] : d \in ReceiversOf(ids)}

getContractActivityCount(ctx, q) == ActivityOf(ctx, Activity(ctx, q))
\* Mutant: DAOs are counted, also on the page of one.
getContractActivityCountHistoryOfDaos(ctx, q, interval) ==
    Periods(Activity(ctx, q), LAMBDA t : (t \div interval + 1) * interval,
            LAMBDA ids : ActivityOf(NoDao, ids))
getContractActivityCountHistory(ctx, q, interval) ==
    Periods(Activity(ctx, q), LAMBDA t : (t \div interval + 1) * interval,
            LAMBDA ids : ActivityOf(ctx, ids))

\* Mutant: counts the rows, not the signers.
getUsersTotalCountOfRows(ctx, q) == Cardinality(Transactions(ctx, q))
getUsersTotalCount(ctx, q) == CountUsers(Transactions(ctx, q))
getUsersTotalCountHistory(ctx, q, interval) ==
    Periods(Transactions(ctx, q), LAMBDA t : (t \div interval + 1) * interval, CountUsers)
getInteractionsCount(ctx, q) == Cardinality(Activity(ctx, q))

\* Mutant: unlike the count, with the transactions of no type.
getInteractionsCountDailyOfAll(ctx, q) == Periods(Transactions(ctx, q), Daily, Cardinality)
getInteractionsCountDaily(ctx, q) == Periods(Activity(ctx, q), Daily, Cardinality)
getDaoUsers(ctx, q) == Ranked(PerDao(Transactions(ctx, q), CountUsers))
getDaoInteractions(ctx, q) == PerDao(Activity(ctx, q), Cardinality)

\* getActivityLeaderboard without `daily`, and its rows with it.
getActivityLeaderboard(ctx, q) ==
    {Limited(s, LeaderboardSize) : s \in Ranked(PerDao(Activity(ctx, q), Cardinality))}
getActivityLeaderboardDaily(ctx, q) ==
    LET Of(d, day) == {i \in Activity(ctx, q) : log[i].receiver = d /\ Daily(log[i].at) = day}
    IN  {[dao |-> k[1], day |-> k[2], count |-> Cardinality(Of(k[1], k[2]))] :
            k \in {<<log[i].receiver, Daily(log[i].at)>> : i \in Activity(ctx, q)}}

-----------------------------------------------------------------------------
(* ReceiptActionService                                                    *)

\* Mutant: transfers between DAOs are taken for incoming ones.
TransfersWithInternal(ctx, transfer, q) ==
    LET In == AccountsOf(ctx)
    IN  {a \in saved : /\ a.deposit # NoDeposit /\ Within(a.at, q)
                       /\ IF transfer = "Incoming" THEN a.to \in In
                          ELSE a.from \in In /\ a.to \notin In}

\* getTransferIntervalQueryBuilder: what crosses the border of the context.
Transfers(ctx, transfer, q) ==
    LET In == AccountsOf(ctx)
    IN  {a \in saved : /\ a.deposit # NoDeposit /\ Within(a.at, q)
                       /\ IF transfer = "Incoming" THEN a.to \in In /\ a.from \notin In
                          ELSE a.from \in In /\ a.to \notin In}

\* count(*) or sum(deposit); the sum of no rows is NULL, and 0 to the code.
Amount(type, actions) ==
    IF type = "Transaction" THEN Cardinality(actions)
    ELSE SumFunctionOnSet([a \in actions |-> a.deposit], actions)

getTotals(ctx, type, transfer, q) == Amount(type, Transfers(ctx, transfer, q))

\* getHistory and the daily getLeaderboard: rows grouped by day, or by day and account.
Account(a, transfer) == IF transfer = "Incoming" THEN a.to ELSE a.from
getHistory(ctx, type, transfer, q) ==
    LET actions == Transfers(ctx, transfer, q)
    IN  {[day |-> day, count |-> Amount(type, {a \in actions : Daily(a.at) = day})] :
            day \in {Daily(a.at) : a \in actions}}
AccountsIn(ctx, type, transfer, q) ==
    LET actions == Transfers(ctx, transfer, q)
    IN  {[dao |-> d, count |-> Amount(type, {a \in actions : Account(a, transfer) = d})] :
            d \in {Account(a, transfer) : a \in actions}}
getLeaderboard(ctx, type, transfer, q) ==
    {Limited(s, LeaderboardSize) : s \in Ranked(AccountsIn(ctx, type, transfer, q))}
getLeaderboardDaily(ctx, type, transfer, q) ==
    LET actions == Transfers(ctx, transfer, q)
        Of(d, day) == {a \in actions : Account(a, transfer) = d /\ Daily(a.at) = day}
    IN  {[dao |-> k[1], day |-> k[2], count |-> Amount(type, Of(k[1], k[2]))] :
            k \in {<<Account(a, transfer), Daily(a.at)>> : a \in actions}}

-----------------------------------------------------------------------------
(* What the services share                                                 *)

DayAgo == now - DayLength
DaysOf(from) == getDailyIntervals(Later(from, 0), now)

\* find(...)?.count || 0
CountOf(rows, d) == IF \E r \in rows : r.dao = d THEN (CHOOSE r \in rows : r.dao = d).count ELSE 0
CountOn(rows, day) == IF \E r \in rows : r.day = day THEN (CHOOSE r \in rows : r.day = day).count ELSE 0
OverviewOf(days, rows, d) ==
    [n \in DOMAIN days |-> [timestamp |-> days[n].end,
                            count |-> CountOn({r \in rows : r.dao = d}, days[n].start)]]
Average(rows) == LET s == SetToSeq(rows) IN getAverage([i \in DOMAIN s |-> s[i].count])

-----------------------------------------------------------------------------
(* UsersService                                                            *)

\* `totals`, without the members, which are a metric (StatsQueries).
usersTotals(ctx) ==
    LET Total(Count(_, _)) ==
            [count |-> Count(ctx, NoQuery),
             growth |-> getGrowth(Count(ctx, NoQuery), Count(ctx, To(DayAgo)))]
        AverageTotal(Rows(_)) ==
            [count |-> Average(Rows(NoQuery)),
             growth |-> getGrowthIn(Average(Rows(NoQuery)), Average(Rows(To(DayAgo))), 100)]
        active == getUsersTotalCount(ctx, From(now - Week))
        weekAgoActive ==
            getUsersTotalCount(ctx, [from |-> now - 2 * Week, to |-> now - Week])
    IN  [users |-> Total(getUsersTotalCount),
         averageUsers |-> AverageTotal(LAMBDA q : PerDao(Transactions(ctx, q), CountUsers)),
         interactions |-> Total(getInteractionsCount),
         averageInteractions |-> AverageTotal(LAMBDA q : getDaoInteractions(ctx, q)),
         activeUsers |-> [count |-> active, growth |-> getGrowth(active, weekAgoActive)]]

\* What the pools of `users`, `averageUsers` and `averageInteractions` ask for each day.
Charts == {"users", "averageUsers", "averageInteractions"}
DayValue(chart, ctx, end) ==
    CASE chart = "users"               -> getUsersTotalCount(ctx, To(end))
      [] chart = "averageUsers"        -> Average(PerDao(Transactions(ctx, To(end)), CountUsers))
      [] chart = "averageInteractions" -> Average(getDaoInteractions(ctx, To(end)))

\* Mutant: in the order in which the days were answered.
combineAsAnswered(byDays) == byDays
combineDailyMetrics(byDays) ==
    CHOOSE sorted \in {[n \in DOMAIN p |-> byDays[p[n]]] : p \in SetToSeqs(DOMAIN byDays)} :
        \A i, j \in DOMAIN sorted : i < j => sorted[i].end <= sorted[j].end

\* `usersLeaderboard`: of all the time, or of an interval against the one before.
usersLeaderboard(interval) ==
    LET days == DaysOf(now - Month)
        all == interval = Absent
        byDays == [n \in DOMAIN days |->
                     PerDao(Transactions(NoDao, [from |-> IF all THEN Absent ELSE days[n].start,
                                                 to   |-> days[n].end]), CountUsers)]
        since == now - (IF all THEN DayLength ELSE interval)
        before == PerDao(Transactions(NoDao, [from |-> IF all THEN Absent ELSE now - 2 * interval,
                                              to |-> since]), CountUsers)
        Entry(row) ==
            [dao |-> row.dao,
             activity |-> [count |-> row.count,
                           growth |-> getGrowth(row.count, CountOf(before, row.dao))],
             overview |-> [n \in DOMAIN days |-> [timestamp |-> days[n].end,
                                                  count |-> CountOf(byDays[n], row.dao)]]]
    IN  {[i \in 1 .. Len(Limited(rows, LeaderboardSize)) |-> Entry(rows[i])] :
            rows \in getDaoUsers(NoDao, [from |-> IF all THEN Absent ELSE since, to |-> now])}

ToMetrics(rows) == [n \in DOMAIN rows |-> [timestamp |-> rows[n].day, count |-> rows[n].count]]
activeUsers(ctx, q, interval) == ToMetrics(getUsersTotalCountHistory(ctx, q, interval))
interactions(ctx, q) == patchMetricDays(q, ToMetrics(getInteractionsCountDaily(ctx, q)), "Daily")

\* A row of a leaderboard with what it was the day before, if it was on that of the day before.
Entry(row, dayAgoRows, days, byDays) ==
    [dao |-> row.dao,
     activity |-> [count |-> row.count,
                   growth |-> getGrowth(row.count, CountOf(ToSet(dayAgoRows), row.dao))],
     overview |-> OverviewOf(days, byDays, row.dao)]

\* `interactionsLeaderboard`, which is also `activeLeaderboard` of GeneralService.
interactionsLeaderboard ==
    LET days == DaysOf(now - Month)
        byDays == getActivityLeaderboardDaily(NoDao, [from |-> now - Month, to |-> now])
    IN  {[i \in DOMAIN rows |-> Entry(rows[i], dayAgoRows, days, byDays)] :
            rows \in getActivityLeaderboard(NoDao, To(now)),
            dayAgoRows \in getActivityLeaderboard(NoDao, To(DayAgo))}

-----------------------------------------------------------------------------
(* GeneralService                                                          *)

\* The activity of `totals`: of the last month against the month before.
generalActivity(ctx) ==
    LET activity == getContractActivityCount(ctx, From(now - Month))
        monthAgo == getContractActivityCount(ctx, [from |-> now - 2 * Month, to |-> now - Month])
    IN  [count |-> activity, growth |-> getGrowth(activity, monthAgo)]
active(ctx, q) == ToMetrics(getContractActivityCountHistory(ctx, q, Week))
activeLeaderboard == interactionsLeaderboard

-----------------------------------------------------------------------------
(* FlowService                                                             *)

\* A sum of deposits comes as text, so a 0 is not false: 0 / "0" is not a number.
NotANumber == "NaN"
FundGrowth(current, prev, rows) ==
    IF current = 0 /\ rows # {} THEN NotANumber ELSE getGrowth(current, prev)

flowTotals(ctx) ==
    LET Funds(transfer) ==
            LET sum == getTotals(ctx, "Fund", transfer, NoQuery)
            IN  [count |-> sum \div Factor,
                 growth |-> FundGrowth(sum, getTotals(ctx, "Fund", transfer, To(DayAgo)),
                                       Transfers(ctx, transfer, NoQuery))]
        Number(transfer) ==
            LET count == getTotals(ctx, "Transaction", transfer, NoQuery)
            IN  [count |-> count,
                 growth |-> getGrowth(count, getTotals(ctx, "Transaction", transfer, To(DayAgo)))]
    IN  [totalIn |-> Funds("Incoming"), totalOut |-> Funds("Outgoing"),
         transactionsIn |-> Number("Incoming"), transactionsOut |-> Number("Outgoing")]

Shown(type, count) == IF type = "Fund" THEN count \div Factor ELSE count

flowHistory(ctx, type, q) ==
    LET incoming == getHistory(ctx, type, "Incoming", q)
        outgoing == getHistory(ctx, type, "Outgoing", q)
        days == InOrder({r.day : r \in incoming \cup outgoing})
    IN  [n \in DOMAIN days |-> [timestamp |-> EndOf(Day(days[n])),
                                incoming |-> Shown(type, CountOn(incoming, days[n])),
                                outgoing |-> Shown(type, CountOn(outgoing, days[n]))]]

\* getLeaderboardMetrics.
LeaderboardMetric(type, row, dayAgoRows, days, byDays) ==
    LET dayAgo == CountOf(ToSet(dayAgoRows), row.dao)
        overview == OverviewOf(days, byDays, row.dao)
    IN  [dao |-> row.dao,
         activity |-> [count |-> Shown(type, row.count),
                       growth |-> IF type = "Fund" THEN FundGrowth(row.count, dayAgo, {row})
                                  ELSE getGrowth(row.count, dayAgo)],
         overview |-> [n \in DOMAIN days |->
                          [overview[n] EXCEPT !.count = Shown(type, @)]]]

flowLeaderboard(ctx, type, transfer) ==
    LET days == DaysOf(now - Month)
        byDays == getLeaderboardDaily(ctx, type, transfer, [from |-> now - Month, to |-> now])
    IN  {[i \in DOMAIN rows |-> LeaderboardMetric(type, rows[i], dayAgoRows, days, byDays)] :
            rows \in getLeaderboard(ctx, type, transfer, To(now)),
            dayAgoRows \in getLeaderboard(ctx, type, transfer, To(DayAgo))}

-----------------------------------------------------------------------------
(* The world, the aggregator and the migration                             *)

Init ==
    /\ now = 0
    /\ log = <<>> /\ made = {}
    /\ saved = {} /\ types = [i \in {} |-> Null]
    /\ withVotes = FALSE
    /\ toMigrate = {} /\ migrations = 0
    /\ request = <<>>

\* Bound: a request is answered within a unit of time, and what happens on chain in
\* it happens before the request: it is not in the tables until the next batch.
NoRequest == request = <<>>

Tick ==
    /\ now < MaxNow /\ NoRequest
    /\ now' = now + 1
    /\ UNCHANGED <<log, made, tables, withVotes, toMigrate, migrations, request>>

Action(tx, from, to, call) ==
    [tx |-> tx, at |-> now, from |-> from, to |-> to,
     method |-> call.method, vote |-> call.vote, deposit |-> call.deposit]

\* A user calls a DAO or sends it funds.
Call(signer, dao, call) ==
    /\ Len(log) < MaxTransactions /\ NoRequest
    /\ log' = Append(log, [at |-> now, signer |-> signer, receiver |-> dao])
    /\ made' = made \cup {Action(Len(log) + 1, signer, dao, call)}
    /\ UNCHANGED <<now, tables, withVotes, toMigrate, migrations, request>>

\* A vote executes a proposal: the DAO sends a receipt of the same transaction.
Execute(i, to, call) ==
    /\ \E a \in made : a.tx = i /\ a.method = "act_proposal"
    /\ ~ \E a \in made : a.tx = i /\ a.from = log[i].receiver
    /\ to # log[i].receiver /\ NoRequest
    /\ (call.method = "create") = (to = Factory)
    /\ call.method = "add_proposal" => to \in Daos
    /\ made' = made \cup {Action(i, log[i].receiver, to, call)}
    /\ UNCHANGED <<now, log, tables, withVotes, toMigrate, migrations, request>>

\* getTransactionType and getVoteType, of one receipt action.
getTransactionType(a) ==
    CASE a.method = "create"       -> "CreateDao"
      [] a.method = "add_proposal" -> "AddProposal"
      [] a.method = "act_proposal" -> "ActProposal"
      [] OTHER                     -> Null
getVoteType(a) == a.vote

\* The aggregator saves a batch: a transaction takes the type and the vote of one
\* of its actions in the batch, whatever an earlier batch made of it.
Sync ==
    LET batch == made \ saved
        stored == {a.tx : a \in batch}
    IN  /\ batch # {}
        /\ saved' = made
        /\ \E pick \in {f \in [stored -> batch] : \A i \in stored : f[i].tx = i} :
              types' = [i \in DOMAIN types \cup stored |->
                          IF i \notin stored THEN types[i]
                          ELSE [type |-> getTransactionType(pick[i]),
                                vote |-> IF withVotes THEN getVoteType(pick[i]) ELSE Null]]
        /\ UNCHANGED <<now, log, made, withVotes, toMigrate, migrations, request>>

\* The version that stores votes is deployed.
Upgrade ==
    /\ ~ withVotes /\ withVotes' = TRUE /\ NoRequest
    /\ UNCHANGED <<now, log, made, tables, toMigrate, migrations, request>>

\* The vote in any of the actions stored of a transaction.
VoteIn(i) ==
    LET votes == {a.vote : a \in {a \in saved : a.tx = i}}
    IN  IF "VoteApprove" \in votes THEN "VoteApprove"
        ELSE IF "VoteReject" \in votes THEN "VoteReject" ELSE Null

\* Mutant: all transactions without a vote are loaded.
LoadAll ==
    /\ withVotes /\ toMigrate = {} /\ NoRequest
    /\ migrations < MaxMigrations /\ migrations' = migrations + 1
    /\ toMigrate' = {[tx |-> i, type |-> types[i].type, vote |-> VoteIn(i)] :
                        i \in {i \in DOMAIN types : types[i].vote = Null}}
    /\ UNCHANGED <<now, log, made, tables, withVotes, request>>

\* TransactionProposalVoteMigration loads the rows to fill, and saves them one by
\* one with all their columns; a row that cannot be saved is logged and left.
Load ==
    /\ withVotes /\ toMigrate = {} /\ NoRequest
    /\ migrations < MaxMigrations /\ migrations' = migrations + 1
    /\ toMigrate' = {[tx |-> i, type |-> types[i].type, vote |-> VoteIn(i)] :
                        i \in {i \in DOMAIN types : types[i] = [type |-> "ActProposal", vote |-> Null]}}
    /\ UNCHANGED <<now, log, made, tables, withVotes, request>>

MigrateRow(row) ==
    /\ row \in toMigrate
    /\ toMigrate' = toMigrate \ {row}
    /\ types' = [types EXCEPT ![row.tx] = [type |-> row.type, vote |-> row.vote]]
    /\ UNCHANGED <<now, log, made, saved, withVotes, migrations, request>>

RowFails(row) ==
    /\ row \in toMigrate
    /\ toMigrate' = toMigrate \ {row}
    /\ UNCHANGED <<now, log, made, tables, withVotes, migrations, request>>

-----------------------------------------------------------------------------
(* A chart read day by day: `users`                                        *)

UsersUpTo(days) == [n \in DOMAIN days |-> DayValue("users", NoDao, days[n].end)]
\* Bound: it is made before votes are stored, which it does not read.
StartRequest ==
    LET days == DaysOf(0)
    IN  /\ NoRequest /\ ~ withVotes
        /\ request' = <<[days |-> days, todo |-> days, failed |-> {}, got |-> <<>>,
                         atFirst |-> UsersUpTo(days)]>>
        /\ UNCHANGED <<now, log, made, tables, withVotes, toMigrate, migrations>>

\* One of the queries under way is answered or fails.
UnderWay(asked) == {n \in DOMAIN asked.todo : n <= Concurrency}
DayAnswered ==
    \E asked \in ToSet(request) : \E n \in UnderWay(asked) :
        /\ request' = <<[asked EXCEPT
                !.todo = RemoveAt(@, n),
                !.got = Append(@, [end |-> asked.todo[n].end,
                                   count |-> DayValue("users", NoDao, asked.todo[n].end)])]>>
        /\ UNCHANGED <<now, log, made, tables, withVotes, toMigrate, migrations>>
DayFails ==
    \E asked \in ToSet(request) : \E n \in UnderWay(asked) :
        /\ request' = <<[asked EXCEPT !.todo = RemoveAt(@, n),
                                      !.failed = @ \cup {asked.todo[n].end}]>>
        /\ UNCHANGED <<now, log, made, tables, withVotes, toMigrate, migrations>>
EndRequest ==
    /\ request # <<>> /\ request[1].todo = <<>>
    /\ request' = <<>>
    /\ UNCHANGED <<now, log, made, tables, withVotes, toMigrate, migrations>>

Next ==
    \/ Tick
    \/ \E signer \in Users, dao \in Daos, call \in Calls : Call(signer, dao, call)
    \/ \E i \in DOMAIN log, to \in Users \cup Daos \cup {Factory}, call \in Outgoing :
          Execute(i, to, call)
    \/ Sync \/ Upgrade \/ Load
    \/ \E row \in toMigrate : MigrateRow(row) \/ RowFails(row)
    \/ StartRequest \/ DayAnswered \/ DayFails \/ EndRequest

Spec == Init /\ [][Next]_vars

-----------------------------------------------------------------------------
(* Properties                                                              *)

\* The type of a transaction is that of one of its stored actions, and only a
\* transaction of type ActProposal has a vote, whichever of the aggregator and
\* the migration wrote the row last and whatever the other one wrote before.
TypesFromActions ==
    \A i \in DOMAIN types :
        LET actions == {a \in saved : a.tx = i}
        IN  /\ \E a \in actions : types[i].type = getTransactionType(a)
            /\ types[i].vote # Null => /\ types[i].type = "ActProposal"
                                       /\ \E a \in actions : types[i].vote = getVoteType(a)

\* The tables do not change and no answer is under way.  Bound: votes are not stored
\* yet; no answer reads them, and with them the types are those of before.
Settled == saved = made /\ request = <<>> /\ ~ withVotes
Contexts == Daos \cup {NoDao}
Queries == [from : 0 .. now, to : {now, StartOf(Day(now))}]
AddedUp(counts) == SumFunctionOnSet(counts, DOMAIN counts)
Counts(points) == [n \in DOMAIN points |-> points[n].count]

\* A transfer between two DAOs is no flow of the platform but one of each of the
\* DAOs: what flows into all DAOs less what flows out of them is nevertheless
\* what flows into the platform less what flows out, in numbers and in funds.
FlowConserved ==
    Settled =>
    \A type \in {"Transaction", "Fund"}, q \in Queries :
        LET Net(ctx) == getTotals(ctx, type, "Incoming", q) - getTotals(ctx, type, "Outgoing", q)
        IN  SumFunctionOnSet([d \in Daos |-> Net(d)], Daos) = Net(NoDao)

\* The points of a chart of flows add up to the totals; those of the chart of
\* interactions to the interactions of its days, of which the last is missing
\* when the query ends at an earlier time of day than it begins.
ChartsAddUp ==
    Settled =>
    \A ctx \in Contexts :
        /\ LET totals == flowTotals(ctx)
               funds == flowHistory(ctx, "Fund", NoQuery)
               numbers == flowHistory(ctx, "Transaction", NoQuery)
               In(points) == [n \in DOMAIN points |-> points[n].incoming]
               Out(points) == [n \in DOMAIN points |-> points[n].outgoing]
           IN  /\ AddedUp(In(funds)) = totals.totalIn.count
               /\ AddedUp(Out(funds)) = totals.totalOut.count
               /\ AddedUp(In(numbers)) = totals.transactionsIn.count
               /\ AddedUp(Out(numbers)) = totals.transactionsOut.count
        /\ \A q \in Queries :
              LET points == interactions(ctx, q)
                  last == IF points = <<>> THEN q.to ELSE points[Len(points)].timestamp
              IN  /\ AddedUp(Counts(points))
                        = getInteractionsCount(ctx, [q EXCEPT !.to = IF last < @ THEN last ELSE @])
                  /\ points # <<>> => Day(q.to) - Day(last) \in {0, 1}

\* A leaderboard says of a DAO what the DAO's own page says, except that
\*   - the growth of interactions is that of a DAO without any the day before when
\*     it was not among the first ones then, which as many DAOs with at least its
\*     interactions were;
\*   - the flows of the platform leave out those to and from other DAOs.
LeaderboardsMatchPages ==
    Settled =>
    /\ \A entries \in usersLeaderboard(Absent) : \A i \in DOMAIN entries :
          entries[i].activity = usersTotals(entries[i].dao).users
    /\ \A entries \in usersLeaderboard(Week) : \A i \in DOMAIN entries :
          entries[i].activity = usersTotals(entries[i].dao).activeUsers
    /\ \A entries \in interactionsLeaderboard : \A i \in DOMAIN entries :
          LET d == entries[i].dao
              before == getInteractionsCount(d, To(DayAgo))
              ahead == {e \in Daos \ {d} : getInteractionsCount(e, To(DayAgo)) >= before}
          IN  \/ entries[i].activity = usersTotals(d).interactions
              \/ /\ entries[i].activity = [usersTotals(d).interactions EXCEPT !.growth = 100]
                 /\ Cardinality(ahead) >= LeaderboardSize
    /\ \A entries \in flowLeaderboard(NoDao, "Transaction", "Incoming") : \A i \in DOMAIN entries :
          LET internal == {a \in saved : a.to = entries[i].dao /\ a.from \in Daos}
          IN  entries[i].activity.count
                = flowTotals(entries[i].dao).transactionsIn.count
                    - Cardinality({a \in internal : a.deposit # NoDeposit})

\* The activity of a month is no more than the sum of its weeks, as a DAO that is
\* active in two of them counts in each, and that of one DAO exactly the sum.  The
\* last point of a chart of users or averages is the total.
TotalsFromHistory ==
    Settled =>
    \A ctx \in Contexts :
        LET weeks == AddedUp(Counts(active(ctx, From(now - Month))))
            totals == usersTotals(ctx)
        IN  /\ generalActivity(ctx).count <= weeks
            /\ ctx # NoDao => generalActivity(ctx).count = weeks
            /\ totals.activeUsers.count <= AddedUp(Counts(activeUsers(ctx, From(now - Week), Week)))
            /\ \A chart \in Charts : DayValue(chart, ctx, EndOf(Day(now))) = totals[chart].count

\* Whatever the order in which the days of a chart are answered, and whatever is
\* stored meanwhile, the chart has the days that did not fail, in their order, and
\* of each the users at some moment of the request.
UsersAnswered ==
    \A asked \in ToSet(request) :
        asked.todo = <<>> =>
        LET points == combineDailyMetrics(asked.got)
            nowThere == UsersUpTo(asked.days)
        IN  /\ {points[n].end : n \in DOMAIN points}
                  = {asked.days[m].end : m \in DOMAIN asked.days} \ asked.failed
            /\ \A n, m \in DOMAIN points : n < m => points[n].end < points[m].end
            /\ \A n \in DOMAIN points : \A m \in DOMAIN asked.days :
                  asked.days[m].end = points[n].end =>
                      points[n].count \in asked.atFirst[m] .. nowThere[m]

=============================================================================
