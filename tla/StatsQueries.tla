---------------------------- MODULE StatsQueries ----------------------------
(***************************************************************************)
(* What the API answers from dao_stats and dao_stats_history:              *)
(* DaoStatsService, DaoStatsHistoryService, MetricService and the services *)
(* built on them, for one contract.  The tables are written by sweeps that *)
(* record one metric of one DAO at a time, in one table after the other,   *)
(* may fail to record some, die, or go on past midnight, and never delete  *)
(* a row, not even of a DAO that was purged.                               *)
(*                                                                         *)
(* An operator with the name of a method is its answer from the tables as  *)
(* they stand.  A request reads them by several queries at once; what      *)
(* they see in between is the subject of `request`.                        *)
(***************************************************************************)
EXTENDS MetricDays, FiniteSets

CONSTANTS
    Daos,            \* DAOs of the contract
    NoDao,           \* the context of the whole platform
    LeaderboardSize, \* entries of a leaderboard, 10 in the code
    Month,           \* days of a month
    MaxDay,          \* bound: days that pass
    MaxChanges,      \* bound: changes to the DAOs
    MaxTroubles      \* bound: metrics that fail, DAOs that are purged, sweeps that die or
                     \* go on past midnight

ASSUME ConstantsAssumption ==
    /\ NoDao \notin Daos /\ IsFiniteSet(Daos)
    /\ \A n \in 1 .. Cardinality(Daos) : One % n = 0
    /\ LeaderboardSize \in Nat /\ Month \in Nat
    /\ MaxDay \in Nat /\ MaxChanges \in Nat /\ MaxTroubles \in Nat

\* Mutant: the parts come before the total.
ApprovedFirst ==
    <<"BALANCE", "APPROVED", "PROPOSALS", "TRANSFER", "FTS_VL">>

\* The order of DAO_METRICS; the metrics that no property tells apart are left
\* out, and MEMBER and BOUNTY, which are always 0 (see ContractMetrics).
Order == <<"BALANCE", "PROPOSALS", "TRANSFER", "APPROVED", "FTS_VL">>
Metrics == ToSet(Order)
Keys == Daos \X Metrics
Days == 0 .. MaxDay
NoRow == -1

\* DaoStatsMetricGroup.
TotalValueLocked == {"BALANCE", "FTS_VL"}
BountiesAndGrantsValueLocked == {"BOUNTIES_VL"}

VARIABLES
    today,      \* the day it is
    chain,      \* the value of each metric on chain
    proposedOn, \* AddProposal transactions of each DAO per day
    registry,   \* table daos
    stored,     \* table transactions: of the AddProposal transactions, those stored
    stats,      \* table dao_stats
    history,    \* table dao_stats_history, by day
    todo,       \* sweep: DAOs it has not reached
    dao, at, list, \* sweep: the DAO under way, the metrics done, its lists as cached
    half,       \* sweep: the metric at hand is in dao_stats already
    swept,      \* the tick of the day has been
    request,    \* <<>> or <<a request for the totals of the platform>>
    changes, troubles, \* counters for the bounds
    \* History, read by no action of the program:
    failed,     \* keys that could not be read when last tried
    unreached   \* keys a sweep had no row of the day for when it died, or only one of the
                \* day before

missing == <<failed, unreached>>
sweep  == <<swept, todo, dao, at, list, half>>
tables == <<stored, stats, history>>
world  == <<today, chain, proposedOn, registry>>
vars   == <<world, tables, sweep, missing, request, changes, troubles>>

-----------------------------------------------------------------------------
(* Queries                                                                 *)

\* A context without a DAO selects the rows of all DAOs, registered or not.
DaosOf(ctx) == IF ctx = NoDao THEN Daos ELSE {ctx}
Rows(table, ctx, ms) == {k \in DaosOf(ctx) \X (ms \cap Metrics) : table[k] # NoRow}

\* The rows are summed up per DAO, then over the DAOs or as their average.
SumOf(table, rows, daoAverage) ==
    LET sum == SumFunctionOnSet(table, rows)
    IN  IF daoAverage /\ rows # {} THEN sum \div Cardinality({k[1] : k \in rows}) ELSE sum

\* Mutant: only the DAOs that are registered are counted.
GetValueOfRegistered(ctx, ms, daoAverage) ==
    SumOf(stats, {k \in Rows(stats, ctx, ms) : k[1] \in registry}, daoAverage)

\* DaoStatsService.getValue.
GetValue(ctx, ms, daoAverage) == SumOf(stats, Rows(stats, ctx, ms), daoAverage)

DaysWithRows(ctx, ms, days) == {day \in days \cap Days : Rows(history[day], ctx, ms) # {}}
UpTo(day) == {other \in Days : other <= day}
Since(day) == {other \in Days : other >= day}

\* DaoStatsHistoryService.getLastValue: of the latest of the days with a row.
GetLastValue(ctx, ms, daoAverage, days) ==
    LET found == DaysWithRows(ctx, ms, days)
        day == CHOOSE day \in found : \A other \in found : other <= day
    IN  IF found = {} THEN 0 ELSE SumOf(history[day], Rows(history[day], ctx, ms), daoAverage)

\* DaoStatsHistoryService.getHistory: the days with a row, in their order.
GetHistory(ctx, ms, daoAverage, days) ==
    LET found == InOrder(DaysWithRows(ctx, ms, days))
    IN  [i \in DOMAIN found |->
            [date |-> found[i],
             value |-> SumOf(history[found[i]], Rows(history[found[i]], ctx, ms), daoAverage)]]

\* DaoStatsService.getLeaderboard: largest first, equals in any order; a limit
\* of 0 is none.
GetLeaderboard(ctx, ms, limit) ==
    LET daos == {k[1] : k \in Rows(stats, ctx, ms)}
        Entry(d) == [dao |-> d, value |-> SumOf(stats, Rows(stats, d, ms), FALSE)]
        sorted == {s \in SetToSeqs({Entry(d) : d \in daos}) :
                      \A i, j \in DOMAIN s : i < j => s[i].value >= s[j].value}
    IN  {SubSeq(s, 1, IF limit = 0 \/ Len(s) < limit THEN Len(s) ELSE limit) : s \in sorted}

-----------------------------------------------------------------------------
(* MetricService                                                           *)

DayAgo == UpTo(today - 1)

total(ctx, ms, daoAverage) ==
    LET current == GetValue(ctx, ms, daoAverage)
        prev == GetLastValue(ctx, ms, daoAverage, DayAgo)
    IN  [count |-> current, growth |-> getGrowth(current, prev)]

ToMetrics(rows) ==
    [i \in DOMAIN rows |-> [timestamp |-> StartOf(rows[i].date), count |-> rows[i].value]]
DaysOf(q) == Since(Day(q.from)) \cap UpTo(Day(q.to))

metricHistory(ctx, q, ms, daoAverage) ==
    patchMetricDays(q, ToMetrics(GetHistory(ctx, ms, daoAverage, DaysOf(q))), "Total")

\* Mutant: growth is against the month before.
LeaderboardEntryOfMonth(entry, ms) ==
    [dao |-> entry.dao,
     count |-> entry.value,
     growth |-> getGrowth(entry.value, GetLastValue(entry.dao, ms, FALSE, UpTo(today - Month))),
     overview |-> ToMetrics(GetHistory(entry.dao, ms, FALSE, Since(today - Month)))]

LeaderboardEntry(entry, ms) ==
    [dao |-> entry.dao,
     count |-> entry.value,
     growth |-> getGrowth(entry.value, GetLastValue(entry.dao, ms, FALSE, DayAgo)),
     overview |-> ToMetrics(GetHistory(entry.dao, ms, FALSE, Since(today - Month)))]

leaderboard(ms) ==
    {[i \in DOMAIN entries |-> LeaderboardEntry(entries[i], ms)] :
        entries \in GetLeaderboard(NoDao, ms, LeaderboardSize)}

-----------------------------------------------------------------------------
(* GovernanceService                                                       *)

\* The seven queries of `totals`, made at once, and what each sees on `day`.
Reads == {"proposals", "dayAgoProposals", "approved", "dayAgoApproved",
          "transfer", "bounty", "member"}
Read(query, ctx, day) ==
    LET Current(m) == GetValue(ctx, {m}, FALSE)
        Before(m)  == GetLastValue(ctx, {m}, FALSE, UpTo(day - 1))
    IN  CASE query = "proposals"       -> Current("PROPOSALS")
          [] query = "approved"        -> Current("APPROVED")
          [] query = "transfer"        -> Current("TRANSFER")
          [] query = "bounty"          -> Current("BOUNTY")
          [] query = "member"          -> Current("MEMBER")
          [] query = "dayAgoProposals" -> Before("PROPOSALS")
          [] query = "dayAgoApproved"  -> Before("APPROVED")

\* `totals` from the values of its queries.
totals(got) ==
    LET voteRate == getRate(got["approved"], got["proposals"])
    IN  [proposals |->
            [count |-> got["proposals"],
             growth |-> getGrowth(got["proposals"], got["dayAgoProposals"])],
         proposalsByType |->
            [governance |-> got["proposals"] - (got["transfer"] + got["bounty"] + got["member"]),
             financial |-> got["transfer"], bounties |-> got["bounty"],
             members |-> got["member"]],
         voteRate |->
            [count |-> voteRate,
             growth |-> getGrowthIn(voteRate,
                            getRate(got["dayAgoApproved"], got["dayAgoProposals"]), 100)]]

governanceTotals(ctx) == totals([query \in Reads |-> Read(query, ctx, today)])

\* The value of a day in a history; a day without a row, like a value of 0, is false to ||.
ValueOn(rows, date) ==
    LET found == SelectInSeq(rows, LAMBDA row : row.date = date)
    IN  IF found = 0 THEN 0 ELSE rows[found].value
Or(a, b) == IF a # 0 THEN a ELSE b

\* `proposals`: the days with a stored AddProposal transaction, with what the sweep
\* recorded on that day or else the number of those transactions up to it.
\* The bound of that query is never reached: milliseconds are taken for seconds.
DaysProposed(ctx) == {day \in UpTo(today) : \E d \in DaosOf(ctx) : stored[day][d] > 0}
CountUpTo(transactions, ctx, day) ==
    SumFunctionOnSet([k \in Days \X Daos |-> transactions[k[1]][k[2]]], UpTo(day) \X DaosOf(ctx))
ProposedUpTo(ctx, day) == CountUpTo(stored, ctx, day)

\* Mutant: all the transactions are counted on each of the days.
proposalsOfToday(ctx, q) ==
    LET days == InOrder(DaysProposed(ctx))
    IN  patchMetricDays(q,
            [i \in DOMAIN days |-> [timestamp |-> StartOf(days[i]),
                                    count |-> ProposedUpTo(ctx, today)]],
            "Total")

proposals(ctx, q) ==
    LET recorded == GetHistory(ctx, {"PROPOSALS"}, FALSE, Days)
        days == InOrder(DaysProposed(ctx))
    IN  patchMetricDays(q,
            [i \in DOMAIN days |->
                [timestamp |-> StartOf(days[i]),
                 count |-> Or(ValueOn(recorded, days[i]), ProposedUpTo(ctx, days[i]))]],
            "Total")

\* `proposalsTypes`: + binds closer than ||, so the first of the parts that is
\* not 0 is what governance is reduced by.
proposalsTypes(ctx, q) ==
    LET Of(m) == GetHistory(ctx, {m}, FALSE, DaysOf(q))
        all == Of("PROPOSALS")
        Parts(date) == Or(ValueOn(Of("TRANSFER"), date),
                          Or(ValueOn(Of("BOUNTY"), date), ValueOn(Of("MEMBER"), date)))
    IN  [governance |-> [i \in DOMAIN all |->
            [date |-> all[i].date, value |-> all[i].value - Parts(all[i].date)]],
         financial |-> Of("TRANSFER"), bounties |-> Of("BOUNTY"), members |-> Of("MEMBER")]

proposalsTypesLeaderboard ==
    {[i \in DOMAIN daos |->
        LET Part(m) == GetValue(daos[i].dao, {m}, FALSE)
            parts == Part("TRANSFER") + Part("BOUNTY") + Part("MEMBER")
        IN  [dao |-> daos[i].dao,
             proposalsByType |->
                [governance |-> daos[i].value - parts, financial |-> Part("TRANSFER"),
                 bounties |-> Part("BOUNTY"), members |-> Part("MEMBER")]]] :
        daos \in GetLeaderboard(NoDao, {"PROPOSALS"}, LeaderboardSize)}

RatesOf(all, approved) ==
    [i \in DOMAIN all |->
        [timestamp |-> StartOf(all[i].date),
         count |-> getRate(ValueOn(approved, all[i].date), all[i].value)]]

voteRate(ctx, q) ==
    patchMetricDays(q, RatesOf(GetHistory(ctx, {"PROPOSALS"}, FALSE, DaysOf(q)),
                               GetHistory(ctx, {"APPROVED"}, FALSE, DaysOf(q))), "Total")

\* `voteRateLeaderboard`: all DAOs by their rate, then the first ten with growth and overview.
VoteRateEntry(d) ==
    LET Now(m)    == GetValue(d, {m}, FALSE)
        Before(m) == GetLastValue(d, {m}, FALSE, DayAgo)
        Month30(m) == GetHistory(d, {m}, FALSE, Since(today - 30 * Month))
        rate == getRate(Now("APPROVED"), Now("PROPOSALS"))
    IN  [dao |-> d,
         proposals |-> [count |-> Now("PROPOSALS"),
                        growth |-> getGrowth(Now("PROPOSALS"), Before("PROPOSALS"))],
         approvedProposals |-> [count |-> Now("APPROVED"),
                        growth |-> getGrowth(Now("APPROVED"), Before("APPROVED"))],
         voteRate |-> [count |-> rate,
                       growth |-> getGrowthIn(rate,
                                    getRate(Before("APPROVED"), Before("PROPOSALS")), 100)],
         overview |-> RatesOf(Month30("PROPOSALS"), Month30("APPROVED"))]

voteRateLeaderboard(ctx) ==
    LET daos == {k[1] : k \in Rows(stats, ctx, {"PROPOSALS"})}
        sorted == {s \in SetToSeqs({VoteRateEntry(d) : d \in daos}) :
                      \A i, j \in DOMAIN s : i < j => s[i].voteRate.count >= s[j].voteRate.count}
    IN  {SubSeq(s, 1, IF Len(s) < LeaderboardSize THEN Len(s) ELSE LeaderboardSize) : s \in sorted}

-----------------------------------------------------------------------------
(* TvlService, TokensService                                             *)

tvlTotals(ctx) ==
    [tvl |-> total(ctx, TotalValueLocked, FALSE),
     bountiesAndGrantsVl |-> total(ctx, BountiesAndGrantsValueLocked, FALSE),
     ftsVl |-> total(ctx, {"FTS_VL"}, FALSE)]
daoTotals(ctx) ==
    [grants |-> [number |-> [count |-> 0, growth |-> 0], vl |-> [count |-> 0, growth |-> 0]],
     bounties |-> [number |-> total(ctx, {"BOUNTIES"}, FALSE),
                   vl |-> total(ctx, {"BOUNTIES_VL"}, FALSE)],
     tvl |-> total(ctx, TotalValueLocked, FALSE)]
tokensTotals(ctx) ==
    [fts |-> total(ctx, {"FTS"}, FALSE), ftsVl |-> total(ctx, {"FTS_VL"}, FALSE),
     nfts |-> total(ctx, {"NFTS"}, FALSE)]

\* What the charts of these services show.
tvlCharts == {TotalValueLocked, BountiesAndGrantsValueLocked, {"BOUNTIES"}, {"BOUNTIES_VL"}}
tokensCharts == {{"FTS"}, {"FTS_VL"}, {"NFTS"}}
proposalsLeaderboard == leaderboard({"PROPOSALS"})
tvlLeaderboard == leaderboard(TotalValueLocked)
ftsVlLeaderboard == leaderboard({"FTS_VL"})

-----------------------------------------------------------------------------
(* The sweeps and the world                                                *)

Init ==
    /\ today = 0
    /\ chain = [k \in Keys |-> 0]
    /\ proposedOn = [day \in Days |-> [d \in Daos |-> 0]]
    /\ registry = Daos
    /\ stored = proposedOn
    /\ stats = [k \in Keys |-> NoRow]
    /\ history = [day \in Days |-> [k \in Keys |-> NoRow]]
    /\ swept = FALSE /\ failed = {} /\ unreached = {}
    /\ todo = {} /\ dao = NoDao /\ at = 0 /\ list = <<>> /\ half = FALSE
    /\ request = <<>>
    /\ changes = 0 /\ troubles = 0

Sweeping == todo # {} \/ dao # NoDao

\* What the queries of the request under way may have seen: those for an earlier value see
\* days before the one it began on, of which nothing is written any more.
CurrentReads == Reads \ {"dayAgoProposals", "dayAgoApproved"}
Observe ==
    \/ request = <<>> /\ request' = <<>>
    \/ \E asked \in {request[i] : i \in DOMAIN request} :
          request' = <<[asked EXCEPT !.seen = [query \in CurrentReads |->
                          @[query] \cup {Read(query, NoDao, today)'}]]>>

\* The cron job starts one run a day, which first stores the transactions made so far
\* (what it may miss of them is the subject of ReceiptSync).
StartSweep ==
    /\ ~ swept /\ swept' = TRUE
    /\ stored' = proposedOn
    /\ todo' = registry
    /\ UNCHANGED <<world, stats, history, dao, at, list, half, missing, request, changes, troubles>>

\* The metrics of a DAO are computed from lists read once (ContractMetrics).
NextDao(d) ==
    /\ dao = NoDao /\ d \in todo
    /\ todo' = todo \ {d} /\ dao' = d /\ at' = 0
    /\ list' = [m \in Metrics |-> chain[<<d, m>>]]
    /\ UNCHANGED <<world, tables, swept, half, missing, request, changes, troubles>>

\* The metric at hand, and those of the DAO that are still to be recorded.
Key == <<dao, Order[at + 1]>>
KeysLeft == {<<dao, Order[i]>> : i \in at + 1 .. Len(Order)}

\* The next metric is done: the last one ends the DAO.
Advance ==
    /\ IF at + 1 = Len(Order) THEN dao' = NoDao /\ at' = 0 /\ list' = <<>>
       ELSE dao' = dao /\ at' = at + 1 /\ list' = list
    /\ half' = FALSE

\* daoStatsService.createOrUpdate.
SaveStats ==
    /\ dao # NoDao /\ ~ half
    /\ stats' = [stats EXCEPT ![Key] = list[Order[at + 1]]]
    /\ half' = TRUE
    /\ UNCHANGED <<world, stored, history, swept, todo, dao, at, list, missing, changes, troubles>>
    /\ Observe

\* daoStatsHistoryService.createOrUpdate: the database has its own date.  The queries of a
\* request do not see the row: those for an earlier value look at days before it.
SaveHistory ==
    /\ half
    /\ history' = [history EXCEPT ![today][Key] = list[Order[at + 1]]]
    /\ failed' = failed \ {Key} /\ unreached' = unreached \ {Key}
    /\ Advance
    /\ UNCHANGED <<world, stored, stats, swept, todo, request, changes, troubles>>

MetricFails ==
    /\ dao # NoDao /\ ~ half
    /\ troubles < MaxTroubles /\ troubles' = troubles + 1
    /\ failed' = failed \cup {Key}
    /\ Advance
    /\ UNCHANGED <<world, tables, swept, todo, unreached, request, changes>>

\* A run dies: at a database error, or with its process.  The next tick starts a run.
Crash ==
    /\ Sweeping
    /\ troubles < MaxTroubles /\ troubles' = troubles + 1
    /\ unreached' = unreached \cup (todo \X Metrics) \cup (IF dao = NoDao THEN {} ELSE KeysLeft)
    /\ todo' = {} /\ dao' = NoDao /\ at' = 0 /\ list' = <<>> /\ half' = FALSE
    /\ UNCHANGED <<world, tables, swept, failed, request, changes>>

\* purgeInactive, before the metrics of a run: the DAO is gone, its rows stay.
Purge(d) ==
    /\ ~ swept
    /\ d \in registry
    /\ troubles < MaxTroubles /\ troubles' = troubles + 1
    /\ registry' = registry \ {d}
    /\ UNCHANGED <<today, chain, proposedOn, tables, sweep, missing, request, changes>>

\* A request for the totals of the platform, and its answer.
StartRequest ==
    /\ request = <<>>
    /\ request' = <<[whole |-> failed = {},
                     seen |-> [query \in CurrentReads |-> {Read(query, NoDao, today)}]]>>
    /\ UNCHANGED <<world, tables, sweep, missing, changes, troubles>>

EndRequest ==
    /\ request # <<>>
    /\ request' = <<>>
    /\ UNCHANGED <<world, tables, sweep, missing, changes, troubles>>

\* A tick while a run is under way is ignored: that run goes on, under the new date.
Midnight ==
    /\ today < MaxDay /\ today' = today + 1
    /\ swept' = Sweeping
    /\ Sweeping => troubles < MaxTroubles
    /\ troubles' = IF Sweeping THEN troubles + 1 ELSE troubles
    /\ unreached' = IF Sweeping THEN unreached \cup {k \in Keys : history[today][k] # NoRow}
                    ELSE unreached
    /\ UNCHANGED <<chain, proposedOn, registry, tables, todo, dao, at, list, half, failed,
                   request, changes>>

\* A transaction adds a proposal, a proposal is approved, funds come in.
Grow(d, ms) ==
    /\ d \in registry
    /\ changes < MaxChanges /\ changes' = changes + 1
    /\ chain' = [k \in Keys |-> IF k \in {d} \X ms THEN chain[k] + One ELSE chain[k]]
    /\ UNCHANGED <<today, registry, tables, sweep, missing, request, troubles>>

ProposalKinds == {{"PROPOSALS"}, {"PROPOSALS", "TRANSFER"}}
Propose(d, ms) ==
    /\ Grow(d, ms)
    /\ proposedOn' = [proposedOn EXCEPT ![today][d] = @ + One]

Approve(d) ==
    /\ chain[<<d, "APPROVED">>] < chain[<<d, "PROPOSALS">>]
    /\ Grow(d, {"APPROVED"})
    /\ UNCHANGED proposedOn

ReceiveFunds(d, m) == Grow(d, {m}) /\ UNCHANGED proposedOn

Next ==
    \/ StartSweep \/ SaveStats \/ SaveHistory \/ MetricFails \/ Crash
    \/ \E d \in Daos : NextDao(d) \/ Purge(d)
    \/ StartRequest \/ EndRequest
    \/ Midnight
    \/ \E d \in Daos, ms \in ProposalKinds : Propose(d, ms)
    \/ \E d \in Daos : Approve(d)
    \/ \E d \in Daos, m \in TotalValueLocked : ReceiveFunds(d, m)

Spec == Init /\ [][Next]_vars

-----------------------------------------------------------------------------
(* Properties                                                              *)

Greatest(S) == CHOOSE x \in S : \A y \in S : y <= x
Least(S) == CHOOSE x \in S : \A y \in S : x <= y
Spread(query) == Greatest(request[1].seen[query]) - Least(request[1].seen[query])

\* The seven queries of governance totals see the tables at different moments.
\* Whatever they see, the approved and the transfers exceed the proposals by
\* no more than what was recorded of them during the request: a request that
\* meets no write is consistent even between two writes of a sweep, so the
\* vote rate is at most 1 and no share negative.  (A request that begins while a
\* metric that failed has not been recorded again finds parts of different sweeps.)
TornOnlyByWrites ==
    (request # <<>> /\ request[1].whole) =>
        \A total_ \in request[1].seen["proposals"] :
            /\ \A part \in request[1].seen["approved"] : part <= total_ + Spread("approved")
            /\ \A part \in request[1].seen["transfer"] : part <= total_ + Spread("transfer")

\* No sweep and no request is under way, and the tick of the day has been.
Quiet == swept /\ ~ Sweeping /\ request = <<>>

\* A total exceeds the newest point of its chart by the rows that the last sweep did not
\* write under the date of today: those of the purged DAOs, of metrics that failed, of what
\* it had not reached when it died, and of what it had recorded when midnight came.  They
\* are counted until they are recorded again, or for ever.  The vote rate and the share of
\* governance, a quotient and a difference of metrics, are those of their charts
\* once all are recorded.
UnwrittenStillCounted ==
    Quiet =>
        \A m \in Metrics :
            LET unwritten == {k \in Rows(stats, NoDao, {m}) : history[today][k] = NoRow}
            IN  DaysWithRows(NoDao, {m}, {today}) # {} =>
                    /\ GetValue(NoDao, {m}, FALSE)
                         = GetLastValue(NoDao, {m}, FALSE, UpTo(today)) + SumOf(stats, unwritten, FALSE)
                    /\ unwritten \subseteq failed \cup unreached \cup (Daos \ registry) \X Metrics
                    /\ (m = "PROPOSALS" /\ failed = {} /\ unreached = {} /\ registry = Daos) =>
                          LET q == [from |-> 0, to |-> EndOf(today)]
                          IN  /\ Last(voteRate(NoDao, q)).count
                                     = governanceTotals(NoDao).voteRate.count
                              /\ Last(proposalsTypes(NoDao, q).governance).value
                                     = governanceTotals(NoDao).proposalsByType.governance

Queries == {metricQuery(from, to, Absent, 0, 0, EndOf(today)) :
                from \in {Absent} \cup 0 .. EndOf(today), to \in {Absent, StartOf(today)}}
AllCharts == {{"PROPOSALS"}} \cup tvlCharts \cup tokensCharts

\* A chart has one point for each day from its first one to the end of the query,
\* with the value of the latest day up to it that has rows.  Only the last day may
\* be missing, when the query ends at an earlier time of day than it begins.
ChartsCarryOn ==
    Quiet =>
    \A ctx \in Daos \cup {NoDao}, q \in Queries, ms \in AllCharts :
        LET daoAverage == ms = {"PROPOSALS"}
            points == metricHistory(ctx, q, ms, daoAverage)
            days == DaysWithRows(ctx, ms, DaysOf(q))
            first == Later(StartOf(Least(days)), q.from)
        IN  IF days = {} THEN points = <<>>
            ELSE /\ Len(points) = Day(q.to) - Day(first)
                        + (IF first % DayLength > q.to % DayLength THEN 0 ELSE 1)
                 /\ \A i \in DOMAIN points :
                       LET day == Day(first) + i - 1
                           row == Greatest({d \in days : d <= day})
                       IN  /\ Day(points[i].timestamp) = day
                           /\ points[i].count = SumOf(history[row],
                                     Rows(history[row], ctx, ms), daoAverage)

\* An entry of a leaderboard says of a DAO what the page of that DAO says: the
\* same value, growth, shares and vote rate, by other queries.
LeaderboardsMatchPages ==
    Quiet =>
    /\ \A entries \in tvlLeaderboard : \A i \in DOMAIN entries :
          LET told == [count |-> entries[i].count, growth |-> entries[i].growth]
          IN  /\ told = tvlTotals(entries[i].dao).tvl
              /\ told = daoTotals(entries[i].dao).tvl
    /\ \A entries \in ftsVlLeaderboard : \A i \in DOMAIN entries :
          [count |-> entries[i].count, growth |-> entries[i].growth]
              = tokensTotals(entries[i].dao).ftsVl
    /\ \A entries \in proposalsLeaderboard : \A i \in DOMAIN entries :
          [count |-> entries[i].count, growth |-> entries[i].growth]
              = governanceTotals(entries[i].dao).proposals
    /\ \A entries \in proposalsTypesLeaderboard : \A i \in DOMAIN entries :
          entries[i].proposalsByType = governanceTotals(entries[i].dao).proposalsByType
    /\ \A entries \in voteRateLeaderboard(NoDao) : \A i \in DOMAIN entries :
          /\ entries[i].voteRate = governanceTotals(entries[i].dao).voteRate
          /\ entries[i].proposals = governanceTotals(entries[i].dao).proposals

\* The chart of proposals shows on a day at most the proposals made by then, whatever is
\* recorded late, in part or not at all.  As long as every sweep recorded all metrics on one
\* day, it has a point for every day before today on which some were made, and lacks on a
\* day at most those made since the beginning of the last such day up to it: the value of a
\* day is what the sweep of that day found.
ProposalsLag ==
    Quiet =>
    LET points == proposals(NoDao, [from |-> 0, to |-> EndOf(today)])
        Made(day) == CountUpTo(proposedOn, NoDao, day)
    IN  /\ \A i \in DOMAIN points :
              LET day  == Day(points[i].timestamp)
                  last == Greatest({d \in DaysProposed(NoDao) : d <= day})
              IN  /\ points[i].count <= Made(day)
                  /\ troubles = 0 => points[i].count >= Made(last - 1)
        /\ troubles = 0 =>
              \A day \in Days, d \in Daos :
                  day < today /\ proposedOn[day][d] > 0 => day \in DaysProposed(NoDao)

=============================================================================
