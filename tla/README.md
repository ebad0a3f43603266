# A verification project for dao-stats-api

dao-stats-api collects statistics about the DAOs of NEAR platforms (Astro, later
Sputnik) and serves them over HTTP.  This directory holds TLA+ modules that model
it, TLC configurations that check them on small instances, and TLAPS proofs.

All source paths below are relative to the root of the repository.

## 1. Inventory

### The parts and the state they keep

| Part | Code | State | Operations |
| --- | --- | --- | --- |
| Aggregator | `apps/aggregator/src/aggregator.service.ts`, `libs/astro/src/aggregation.service.ts` | `running` in memory; locals of the run | a cron job starts a run: receipts, DAOs, metrics, prices of every contract, then the cache is cleared |
| Receipt log | `libs/receipt`, `libs/transaction`, tables `receipt_actions`, `receipts`, `transactions` | one row per receipt action | `create` (upsert of a batch in one transaction), `lastTransaction`, queries |
| NEAR indexer | `libs/near-indexer` | somebody else's database, read-only | receipt actions of a time window, counts and sums per account |
| DAO registry | `libs/common/src/dao.service.ts`, table `daos` | the DAOs of a contract | `create`, `purgeInactive`, `findById` |
| Contracts on chain | `libs/astro/src/contracts`, `libs/astro/src/metrics` | a 300 s cache in memory | list of DAOs, proposals, groups, bounties; one value per metric |
| Stats tables | `libs/common/src/dao-stats*.service.ts` | `dao_stats` (current value), `dao_stats_history` (value per day) | upserts, `createIgnore`, totals, histories, leaderboards |
| Price feed | `libs/exchange`, `coin-price-history.service.ts` | `coin_price_history` | Sodaki, with CoinGecko as second choice |
| Migrations | `libs/migrations` | the same tables | scripts named in the environment, run one after another next to the aggregator |
| HTTP cache | `libs/cache`, `apps/api/src/interceptors` | responses in Redis | hit, miss, deferred store, expiry, reset |
| API | `apps/api/src` | none of its own | contexts, pipes, one service per topic |

### How they interact

The aggregator is one process (one replica).  It is the only writer of the tables
but for the migrations, and it shares two things with the API: the database and
the Redis store of cached responses, which it resets at the end of a run.  There is
no other message between the two.  Within the aggregator everything is
sequential, so what interleaves with a run is the outside world (the clock, the
indexer, the chain, midnight), a migration, requests to the API, and crashes: an
error nobody catches rejects the promise of the cron callback and ends the
process, which Kubernetes restarts with `running = false`.

### What is hard, and what makes each part correct

* The receipt log has no cursor.  A run resumes at the last transaction that was
  stored, so a gap behind it is never filled.  Correct means: no gap appears
  except where the program knowingly moves on (an outage longer than its
  retries, an indexer that is behind), and a run always ends.
* Metrics are written twice, in two statements, with the date of the moment.
  Correct means: the two tables tell the same story, a failing metric costs only
  itself, and a past day is final, whatever midnight and the migration do.
* The registry is purged from a list read earlier, in one call or, when that fails, page
  by page.  Correct means: only DAOs the factory removed disappear, but for those that
  pages of different moments left out, and listed ones get in.
* The cache stands before every check.  Correct means: a response is never older
  than the time to live and the time of one request, also when the run that
  should have cleared it died.

The hazards, each at its line, are listed in `PROJECT.json`.

## 2. Plan

| Order | Module | Models | Uses | State |
| --- | --- | --- | --- | --- |
| 1 | `ReceiptSync` | runs, windows, retries, crashes | | done |
| 2 | `CollectedLog` | abstract specification: a log behind a cursor, implemented by 1 | | done |
| 3 | `ReceiptSyncProofs` | theorems about 1, and that 1 implements 2 | 1, 2 | done |
| 4 | `StatsCollection` | registry, metrics, history migration | | done |
| 5 | `HttpCache` | cached responses, DAO check | | done |
| 6 | `ContractMetrics` | the metrics of a DAO's groups, proposals, bounties and NFTs, read page by page | | done |
| 7 | `ActionMetrics` | the metrics counted in the indexer: current values and the days the migration rebuilds | | done |
| 8 | `PriceFeed` | token metrics, prices, fallback, price migration | | done |
| 9 | `MetricDays` | growth, rates, the days of a query, how missing days are filled | | done |
| 10 | `StatsQueries` | totals, charts and leaderboards over the tables of 4 | 9 | done |
| 11 | `LogQueries` | what the API answers from the log of 1; the vote migration; a chart read day by day | 9 | done |
| 12 | `ApiProofs`, `StatsCollectionProofs` | theorems about 5 and 10, and about 4 | 4, 5, 10, 13 | done |
| 13 | `SumTheorems` | lemmas about sums over finite sets and their classes, whole division, and order | | done |
| 14 | `PriceFeedProofs`, `ActionMetricsProofs`, `ContractMetricsProofs`, `LogQueriesProofs` | theorems about 8, 7, 6 and 11 | 6, 7, 8, 11, 13 | done |

What could come next: a table of current values as the abstract specification of
`StatsCollection`, and the order of interceptors and pipes as a module of its own.

## 3. The modules and the code

An action stands for everything the code does between two points at which something
else can happen: an `await`, a `yield`, or a crash.  Variables under "History" in a
module are read by no action; they record what the properties speak about.

### `ReceiptSync`

| In the module | In the code |
| --- | --- |
| `running`, `Tick` | `running` and the guard at the top of `scheduleAggregation`; a tick during a run returns at once |
| `from`, `to`, `StartContract` | the locals of the run.  They are assigned only while undefined and outlive an iteration, so a second contract inherits them |
| `LastTransaction` | `TransactionService.lastTransaction`, given as the set of the one value it yields |
| `lo`, `WindowEnd`, `Window` | the loop of `aggregateReceiptActions`, both ends inclusive |
| `QuerySucceeds`, `QueryFails`, `GiveUp` | the `try`/`catch` around the query with `retryCount`; a window that fails too often counts as empty |
| `Save` | `receiptActionService.create`: one `save` in one database transaction, after which the generator is resumed |
| `FinishContract` | the rest of the iteration: DAOs, metrics, prices (modelled in `StatsCollection`) |
| `ClearCache` | `clearCache` and `running = false` |
| `Crash` | any rejection nobody handles, and the end of the pod: locals and `running` are lost, rows stay |
| `now`, `head` | the wall clock and what the indexer has ingested; the indexer is external |

Time is counted in units of half a window; a receipt action has the time of its
transaction (`tx`) and of the block of its receipt (`incl`), which is the same or later.
The query filters by `incl` and the resume point is a `tx`: the model keeps both
because the difference decides what a resumed run asks for again.

`passedOver` collects the actions that lay in a completed window (or before the start
of one) and were not returned: because the indexer was behind, because the program gave
up, or because a contract inherited a `from` beyond them.  The first two are losses the
code accepts, the third one it incurs.  Every safety property says that there is no other way to lose one.

`CollectedLog` is the same log without runs, windows, retries and crashes: per contract a
cursor that only moves forward, a log that grows at its end, and a set of lost actions.
`ReceiptSync` maps `stored`, `passedOver \ stored` and `frontier` to it.

### `StatsCollection`

| In the module | In the code |
| --- | --- |
| `FetchList`, `FetchPages`, `ReadPage`, `JoinPages` | `getDaoList`: one call, or when it throws `getDaos`, which asks for the number of DAOs and then for all pages at once; they are answered in any order, each from the list of its moment |
| `cached`, `ListExpires` | the answer of either is kept for 300 seconds; `aggregateDaos`, `DAO_COUNT` and the loop over the DAOs' metrics ask for it |
| `StartRun`, `StartDaos`, `SaveDao`, `Purge` | `aggregateDaos` with `daoService.create`, then `purgeInactive` with the ids just saved |
| `ReadMetric`, `MetricFails` | `getCurrentValue` in `aggregateMetrics`, and its `catch` with `continue`; first the factory's metrics, then (`StartMetrics`) the DAOs' |
| `SaveStats`, `SaveHistory` | the two upserts per metric, two statements; the date of the history row is the database's at that moment |
| `RebuildMetric`, `InsertRebuilt` | the historical-aggregation migration, which inserts with `createIgnore` |
| `Midnight`, `Enlist`, `Delist`, `ValueChanges`, `Crash` | the database's clock, the factory, the DAOs, the process |

The factory is a sequence, as pages are parts of it.  When a DAO leaves, those behind it move up or the last
one takes its place (`Without`): the factory is another repository's, and either is usual.  `moved` is history: the DAOs
that changed their place while the pages in use were read.  The order of DAOs and metrics inside a loop is left open, which only adds behaviours.

### `HttpCache`

| In the module | In the code |
| --- | --- |
| `Hit`, `Miss`, `Store`, `StoreFails` | Nest's `CacheInterceptor`, of which `HttpCacheInterceptor` is a subclass; storing is not awaited |
| `CheckDao` | `DaoContractContextInterceptor`, which runs behind the cache |
| `ReadDb` | a service that queries the database, such as `MetricService.total` |
| `StartRun`, `Write`, `ClearCache`, `CrashRun` | a run of the aggregator as the cache sees it; `CacheService.clearCache` resets the whole store |
| `Tick` | one unit of time; Redis drops what has outlived its time to live |

One URL is modelled: entries of different URLs meet only when the store is reset.  The
event by which the aggregator could be told to clear the cache is published nowhere in
the repository, so it is not an action.

### `ContractMetrics`

| In the module | In the code |
| --- | --- |
| `StartReading`, `ReadPage`, `FinishReading`, `Pages` | `DaoContract.getProposals` and `getBounties`, which ask for the number of entries and then for all pages at once, and `NfTokenContract.getTokensForOwner`, which asks for page after page until one is not full.  `reading` has a place per page, as pages are answered in any order |
| `ReadGroups` | `getGroups`, one call.  The groups keep their places in the policy, a sequence of roles over `Members`; of two councils the first one counts |
| `cache`, `Keep`, `ReadKept`, `Expires` | each list is cached for 300 seconds |
| `ProposalsBy`, `IsProposalKind`, `IsRoleGroupCouncil` | `getProposalsBy` and the helpers of `libs/astro/src/utils.ts` |
| `CouncilSizeMetric` ... `NftsCountMetric` | `getCurrentValue` of the metric classes, one operator each |
| `Order`, `Store`, `MetricFails`, `NftsUnreadable`, `FinishSweep` | the inner loop of `aggregateMetrics` over `DAO_METRICS` |
| `GovernanceShare`, `Approved`, `Total` | the totals of the governance service |
| `AddProposal`, `Decide`, `SetPolicy`, `AddBounty`, `TransferNft` | the contracts, external |

A value and its row in `dao_stats` are one step here (the two statements are
`StatsCollection`'s subject).  The DAO keeps a removed proposal with the status `Removed`, as the
repository's types have it.  Amounts are whole units.  NFTs are those of one contract and have ids, so that
an entry read twice is told from two entries; when one leaves, the others move as in `Without`.  `steady` is history: the
places of the list being read that held one entry all the while.

### `ActionMetrics`

| In the module | In the code |
| --- | --- |
| `Counted`, `getReceiptActions...`, `getAccountBalanceDaily` | the queries of `NearIndexerService`, under their names |
| `AccountBalanceMetric` ..., `AccountBalanceDays` ... | `getCurrentValue` and `getHistoricalValues` of the classes in `metrics/account` and `metrics/actions` |
| `Ask`, `SaveStats`, `SaveHistory` | the sweep of a day, one metric at a time: the query and the two upserts, each awaited |
| `Miss`, `Die`, `Midnight` | a query fails; a run dies or there is none that day; midnight, at any point of a run, whose next tick is then ignored |
| `AskDays`, `InsertDay`, `DaysInserted`, `RebuildFails` | the historical migration: the query of a metric, then one `createIgnore` a day, each awaited |
| `Receipt`, `Outcome` | the chain and the indexer: an action counts once its receipt's outcome is indexed, on the day of the receipt |

The current balance is the state of the account, which gas, storage and refunds move as well as the deposits that are
counted; it is external and may be any of `Balances`.  `libs/near-indexer/src/near-indexer.service.ts:249` says that the
balance the migration rebuilds is "slightly different from state", and no property compares the two.
`valueOn`, `handOn` and `asked` are history: the day on which a value was asked for, in hand or in a row.

### `PriceFeed`

| In the module | In the code |
| --- | --- |
| `CountTokens`, `ReadTokens`, `likely` | `FtsCountMetric`, the first part of `FtsValueLockedMetric`, and what `findLikelyTokens` keeps for 300 seconds |
| `ReadNear`, `AskSodaki`, `spot` | `SodakiService.getCoinSpotPrice` over `getSpotPrices`, kept for 30 seconds; a symbol that is not listed costs 0 |
| `ValueTokens`, `TokenValue`, `TotalOf` | the balances, prices and the division; the sum is kept as zero, positive, infinite or not a number |
| `AskPrice`, `SodakiFails`, `AskCoinGecko`, `SavePrice`, `EndRun` | the loop over coins at the end of a run |
| `Crash` | both price services fail (the second call is outside the `try`), or the process ends |
| `ReadPoints`, `WritePoint` | the near-price-history migration |
| `PriceHistory` | `CoinPriceHistoryService.findByDateRange` and the market service |

### `MetricDays`, `StatsQueries`, `LogQueries`

An operator with the name of a method is what the method answers from the tables as they stand.
Where SQL leaves the order of equal rows open, the operator is the set of the possible answers.

* `MetricDays`: `apps/api/src/utils.ts` and the query pipe.  Rates and growth are counted in
  hundredths, as the code rounds to two decimals.
* `StatsQueries`: `DaoStatsService`, `DaoStatsHistoryService`, `MetricService` and what the
  governance, tvl and tokens services make of them.  `StartSweep` (the run first stores the
  transactions made so far, which is when `getProposals` sees them), `SaveStats`, `SaveHistory`, `MetricFails`, `Purge`,
  `Crash` and `Midnight`, also in mid-sweep, are the sweeps that write the tables; `failed` and `unreached` are history:
  why a row of today is missing.  `request` is an answer put together from seven queries that
  may see the tables at different moments (`GovernanceService.totals`).  Answers of the
  general and users services that are one call of `MetricService` with another metric (DAOs, groups,
  members) are not repeated; `ChartsCarryOn` also covers the average over DAOs that one of them uses.
* `LogQueries`: `TransactionService`, `ReceiptActionService` and what the users, flow and general
  services make of them.  `Sync` saves a batch of receipt actions, each with its transaction;
  Only calls of
  `act_proposal` carry a vote (`VotesAssumption`): `findAllByKey` looks for an argument `action`, which no other
  method of a DAO has.  There are finitely many DAOs.  `Load`, `MigrateRow` and `RowFails` are the vote migration; `StartRequest`, `DayAnswered`, `DayFails` are
  the promise pool of a chart that is read by one query a day.

## 4. The runs

### Passing runs

| Run | Instance | What it shows |
| --- | --- | --- |
| `receipts` | `FairSpec`; 1 contract, 2 actions, lag 1, outages longer than the retries and without end, 1 crash | `ResumePointSound`: before the resume point everything is stored or was passed over; `LogGrowsAtItsEnd`; `ImplementsLog`: the runs implement `CollectedLog`; `RunsEnd` and `EventuallyStored` |
| `receipts_two` | 2 contracts, 1 crash, outages the retries bridge, no lag | `LostOnlyBehindAnother`: the second contract inherits the resume point of the first and loses actions by it only after a run that died between the two |
| `stats_crashes` | 2 DAOs with one metric each, pages of 1, 2 days, 2 values, 1 crash, 1 change of the factory, 1 rebuilt metric, 2 runs | `StatsHistoryAgree`: the two tables part only by a crash or a rebuilt metric; `RunCoversList`: a run misses only metrics that failed; `RecordedNotRebuilt` and `PastDaysFinal` next to a migration |
| `stats_world` | `FairSpec`; 2 DAOs, pages of 1, 3 changes of the factory, 1 crash, any number of runs | `OnlyDelistedPurged`: but for DAOs that moved while the pages were read; `ListedRegistered` |
| `cache` | `FairSpec`; 2 overlapping requests, TTL 2, 2 writes | `BoundedStaleness`, `PurgedSoonRefused`, `StaleOnlyByOverlap`, `EventuallyFresh` |
| `metrics` | 2 policies, 2 kinds, 2 NFTs of 3 ids, pages of 1 entry, 2 changes, 1 failure, any number of sweeps | `PartsWithinTotal`, also for a reader in mid-sweep; `GroupsAgree`; `ReadsWhole`: a list read page by page while it changes has a length it had meanwhile, and every entry that kept its place at that place |
| `stats_queries` | 2 DAOs, 2 days, 2 changes, 1 failure, purge, crash or midnight in mid-sweep, leaderboards of 1 | `TornOnlyByWrites`: an answer of several queries is off by no more than what was written meanwhile; `UnwrittenStillCounted`: a total exceeds its chart by rows with no row of today, each for one of four reasons; `ChartsCarryOn`; `LeaderboardsMatchPages`; `ProposalsLag` |
| `log_queries` | 2 users, 2 DAOs, 2 transactions with the receipts they cause, 3 moments in 2 days, leaderboards of 1 | `TypesFromActions` whichever of aggregator and migration wrote last; `FlowConserved`; `ChartsAddUp`; `LeaderboardsMatchPages`; `TotalsFromHistory`; `UsersAnswered` |
| `actions` | 3 metrics, 2 receipt actions of 3 kinds, 2 days, 1 missed metric, dead run or failed rebuild | `RebuiltAddsUp`: what is rebuilt ends at what would be recorded; `ChartGrows` and `PartsWithinWhole`, but for what became known between the queries of the rows |
| `prices` | 2 prices, 2 tokens, 2 days, 1 crash or failure, 1 migration | `PriceOfItsDay`, `OnePricePerRun`, `ValueOfCountedTokens`, `GapsExplained`, `PastPricesFinal` |

`TypeOK` is checked in `receipts` and `cache`, and proved for these two modules, `StatsCollection`,
`ContractMetrics`, `ActionMetrics` and `PriceFeed` (the last three state it in their module of proofs).

### Runs that find a violation

* `metrics_kinds`: `getProposalsBy` asks a proposal to be of *every* kind of the filter
  (`libs/astro/src/contracts/dao.contract.ts:102`).  The two metrics that pass two kinds,
  `PROPOSALS_BOUNTY_COUNT` and `PROPOSALS_MEMBER_COUNT`, therefore are 0 for every
  DAO, and the governance totals count bounty and member proposals as governance.
* `actions_deposits`: the current value of `ACTIONS_DEPOSIT_OUT_COUNT` is asked for with the
  query that counts all outgoing actions
  (`libs/astro/src/metrics/actions/actions-deposit-out-count.metric.ts:24`), its history with the one
  that counts those with a deposit.  One chart is made of both.

### What the models showed besides

None of this contradicts a statement of the repository, so there is no run for it; the properties
named say how far it goes.

* A DAO the factory still lists can be purged: when `getDaoList` falls back to pages
  (`libs/astro/src/contracts/dao-factory.contract.ts:28`) and another DAO leaves between two of them, the one that
  took its place is on none (`OnlyDelistedPurged`, the part about `moved`).  The next run registers it again
  (`ListedRegistered`).
* In the same way an NFT is missed, or read twice, when one before it leaves while the pages are read
  (`ReadsWhole` speaks of those that kept their place).
* With two contracts, a crash after the first is saved makes the second resume at the last transaction of the
  first, and what it had not stored by then is lost, though no query failed (`LostOnlyBehindAnother`).
* A value asked before midnight is dated after it.  A chart can therefore fall where the migration rebuilds the day
  before from a later query, and a part exceed its whole (`ChartGrows`, `PartsWithinWhole`).
* Rows of a purged DAO stay in `dao_stats`: totals and leaderboards count them for ever, charts
  only until its last row.  What a dead sweep had not reached, or a sweep had recorded before midnight, is in the total
  and not in the point of today until it is recorded again (`UnwrittenStillCounted`).
* The chart of proposals takes the value of the sweep early on a day, before that day's
  proposals, and has days only for proposals whose transaction is stored, which the next run does (`ProposalsLag`).
* A DAO that was not among yesterday's first ten grows by 100 % in a leaderboard
  (`LeaderboardsMatchPages` of `LogQueries`).
* A chart ends a day early when the query ends at an earlier time of day than it begins (`ChartsCarryOn`,
  `ChartsAddUp`).
* In `proposalsTypes`, `+` binds closer than `||`
  (`apps/api/src/governance/governance.service.ts:228`), so only the first part that is not 0 is
  subtracted.  It does not show, as the other two parts are always 0 (`metrics_kinds`).
* A sum of deposits is text, so the growth of funds that sum to 0 is not a number (`FundGrowth`).
* The type of a transaction is that of the action saved last: one that executes a proposal
  loses `ActProposal` when a later receipt of it is saved in a later batch (`TypesFromActions`).
* When Sodaki lists no NEAR, a price of 0 is stored and token values are infinite or not a
  number (`PriceOfItsDay`, `OnePricePerRun`).
* With two contracts the log need not grow at its end (`LogGrowsAtItsEnd` is checked and proved for one).
* When both price services fail, the rejection is not handled and the process ends before it clears the
  cache (`Crash` of `PriceFeed` and of `HttpCache`).
* A window is queried twelve times before the run gives up: `retryCount` is compared with `<=` before
  it is incremented, and the first attempt is not counted.

### Bounds

* Receipts: three windows and a fraction (`MaxTime`), two actions and one crash, in either run.
  A gap needs an action in a window that was completed, one behind it that becomes
  the resume point, and at most a crash in between.
  `RetryThreshold` is 1 so that reaching it, passing it and the reset after it all happen.
* Stored transactions: the answers are compared where everything made is stored, no request is
  under way and votes are not stored yet, as no answer reads a vote.  Two transactions give
  a transfer between two DAOs, two users of one DAO and one user of two.
* Two days are enough for a run to pass midnight and for a migration to meet a day the
  aggregator has written; two DAOs for one to be purged while another stays, and
  for a transfer between DAOs.  Pages of one DAO and three changes are enough for one to leave
  between two pages, the other to take its place, and a third change after it.  `MaxRuns = 0` means no bound.
* Two requests are enough to overlap each other and a clearing.  `TTL` is larger than
  `MaxHandling`, so that an entry outlives the request that stored it.
  `MaxHandling` bounds the time of one request; the code sets no such bound, and the
  staleness properties are relative to it.
* Leaderboards have one entry and pages one entry, so that limits and page borders are
  met by two DAOs and two proposals; a week is shorter than a month and a day has two moments, so
  that intervals begin inside a day.
* `StatsQueries` leaves out the metrics no property tells apart.  `One` is the unit of counts, chosen so
  that an average over two DAOs is whole.
* In `LogQueries` a request is answered within a unit of time, and what happens on chain in that unit
  happens before it; batches may be saved during it.
* Symmetry is used for actions, accounts, tokens and DAOs in runs without liveness properties.

`CHECK_DEADLOCK FALSE` is set because the bounded clock, values and counters let an
instance come to rest.

### Fairness

* `ReceiptSync!FairSpec`: the cron job keeps firing, an awaited call is resumed some time,
  the clock ticks and the indexer catches up.  A query need never succeed (`WF_vars(Run)` can
  be met by failures) and a crash is never owed.  `MaxFailures` is larger than the
  retries, so the give-up is what ends them.
* `StatsCollection!FairSpec`: runs proceed, and a cached list expires.  `ListExpires` is disabled while a run asks for
  the list and uses what is there, as nothing can expire inside that step, and enabled again after it.  The
  expiry is by the clock, so runs that keep finding the list in between do not put it off:
  hence strong fairness for it and weak fairness for runs.  That a query or a metric ever succeeds is not assumed.
* `HttpCache!FairSpec`: time passes and a request that has begun is finished.  Neither a
  request nor the end of a run is owed.

The other modules state safety only: what they model either happens or does not, and what must happen in the end is the subject of these three.

## 5. What is proved

All theorems are about all values of the constants that satisfy the assumptions of their modules.  A
module of proofs extends the module it is about; `SumTheorems` holds what four of them need
of sums.  One lemma per invariant and group of actions says that a step preserves it, and the theorems put
these together.

### `ReceiptSyncProofs`

`ReceiptSyncProofs` proves, for all values of the constants that satisfy
`ConstantsAssumption` (any contracts, actions, window length, threshold, lag, number of
outages and crashes):

| Theorem | States | Under |
| --- | --- | --- |
| `TypeCorrect` | `[]TypeOK` | |
| `ResumePoint` | `[]ResumePointSound` | |
| `LogOrder` | `LogGrowsAtItsEnd` | `OneContract` |
| `Refinement` | `ImplementsLog` | `OneContract` |
| `NoLoss` | `[]LostOnlyBehindAnother` | `GoodEnvironment`: no lag, no more failures in a row than retries |
| `NoLossOfOne` | nothing is passed over | `GoodEnvironment` and `OneContract` |

`ResumePointSound` is not inductive: it does not say where the window under way begins, nor what
a pending batch is.  The inductive invariant `IInv` adds, besides the types and which locals
are defined (`LocalsOK`):

* `FrontierCovers`: everything up to the end of the last completed window is stored or was passed over;
* `StoredBelowFrontier`: nothing beyond it is stored (from this and the previous one
  the resume point follows: a stored transaction is not later than its own receipt, which is
  not beyond the frontier);
* `BeforeWindowCovered`: so is everything before the window under way;
* `BatchIsWindow`: what waits to be saved, with what was passed over, is the whole window.
  Without it, `Save` could advance over rows it does not have.

All three ways of completing a window (an empty answer, giving up, a save) go through the
lemma `AdvanceCovers`.  A crash needs nothing but that `frontier`, `stored` and `passedOver` stay.

With one contract `from` is recomputed in each run; `SingleInv` adds that no stored transaction is
later than the start of the window under way, from which the order of the log and, with
`AdvanceCompletes`, the refinement follow: completing a window is `Complete`, everything else
is `Overlook` or a stutter.  With two contracts the second may start before its
own last transaction and find what an outage had cost it, so `LogGrowsAtItsEnd` does not
hold for two contracts; `ResumePoint` does.

`NoLoss` rests on two more invariants.  `LossInv`: the indexer is level with the clock, `to` never lies in the
future, `from` is the time of a stored transaction, and what was passed over lies behind a stored action of
another contract, after a crash.  `LevelInv`: as long as no run has died, the contracts a run has not begun are
level with each other and those it is done with have reached `to`, so that the resume point they share is
behind all of them.  A crash between two contracts is what ends it.

### `ApiProofs`

About `HttpCache`, for any number of requests, time to live and handling time, and about
`StatsQueries`, for any DAOs, lengths of a day, days, limits, changes and failures.  (`CacheSpec`, `CacheInit` and
`CacheNext` are the specification of `HttpCache`, so that one module can extend both.)

| Theorem | States |
| --- | --- |
| `TypeCorrect` | `CacheSpec => []TypeOK` |
| `Staleness` | `[]BoundedStaleness` |
| `PurgeRefusal` | `[]PurgedSoonRefused` |
| `ClearingOverlap` | `[]StaleOnlyByOverlap` |
| `StatsInvariance` | `Spec => []StatsOK` |
| `TotalsTornOnlyByWrites` | `[]TornOnlyByWrites` |
| `LeaderboardsAgreeWithPages` | `[]LeaderboardsMatchPages` |
| `ChartsCarryTotalsOn` | `[]ChartsCarryOn` |
| `TotalsCountUnwritten` | `[]UnwrittenStillCounted` |
| `ProposalsLagByADay` | `[]ProposalsLag` |

The four of the cache follow from one invariant, `CacheOK` (theorem `Invariance`).  The bound on what is served is not
inductive, because it says nothing of what waits to be served.  `CacheOK` adds: the reads of a request under way
are no older than `MaxHandling` (`RequestOK`); the age of an entry and the time it has left are together
no more than the bound (`EntryOK`), so a hit cannot exceed it at any moment; neither is older than the
purge of the DAO; and what was read before the last clearing carries the mark of an overlap.  The step of
the clock, in which all ages grow at once, is the one that needs all of it.

Those of `StatsQueries` follow from `StatsOK`, of which each part is needed for the next:

* `OnChain`: what is approved or a transfer was proposed before, on chain.  An approval is guarded by *less
  than*, so the invariant also says that counts are multiples of the unit in which they grow.
* `Recording`: the same of the table `dao_stats`, also between the two writes of a metric.  It holds in mid-sweep only
  because the total is recorded before its parts (`DAO_METRICS`), all from one list, and because a total that failed is
  excepted.
* `Answers`: a request that began with all metrics recorded has seen, of each part, a value that no total
  it sees, now or later, is below.  Totals only grow, so the first read bounds all later ones;
  `TornOnlyByWrites` measures the others against it.
* `OfTheDay`: the rows of today agree with the current ones, there are none of a later day and none of what the
  sweep is still to record, and what it is done with has one, or failed, or is *unreached*: a sweep died before it, or
  midnight came after it.  Hence the difference between a total and its newest point is what
  is not in today's rows (`CountAsSum`, `SumOfOthers`), and that is purged, failed or unreached.
* `Proposed`: what a sweep recorded of a day is no more than the proposals made by its end and, before the first
  trouble, no less than those made before it.  The transactions stored are among those made, and are
  all of those of past days once a sweep has begun and before trouble.  `NoTrouble`: until then all DAOs have a row of a
  day that has any.  `ProposalsLag` adds up both over the DAOs.

`PatchedDay` and `PatchFacts` say what `patchMetricDays` answers: one point a day, with the value of the latest
metric up to it.  They rest on `StepsOfDays`, the number and the ends of the steps of 24 hours from any time of day, and on
`OrderedDays`, that a finite set of days can be put in order in one way.
`LeaderboardsMatchPages` and `ChartsCarryOn` hold in every state with the right types: they compare two ways of
asking the same tables.

### `StatsCollectionProofs`

For any DAOs, metrics, days and values:

| Theorem | States |
| --- | --- |
| `TypeCorrect` | `[]TypeOK` |
| `DaysFinal` | `PastDaysFinal` |
| `NotRebuilt` | `RecordedNotRebuilt` |
| `PurgeSound` | `OnlyDelistedPurged` |
| `RunComplete` | `[]RunCoversList` |
| `TablesAgree` | `[]StatsHistoryAgree` |

`DaysFinal` and `NotRebuilt` need the types and the lemma `HistoryStep`, which lists the ways a row can be
written.  `PurgeSound` rests on `ListsOK`: whatever list a run holds or the cache keeps has every registered DAO
but those delisted, or moved while its pages were read.  While pages are read, every registered DAO is found already, delisted, moved, or
on a page that is not answered yet (`OnPage`): one that keeps its place is on the page it was on at first.
`RunComplete` rests on `LoopsOK`: every metric the loop under way has to cover is still to do, failed, in hand
between its two writes, or has a row since the beginning of the run.

`TablesAgree` needs to count.  `AgreeOK` says that the keys whose tables differ, but for the one between its
two writes and the one the migration is inserting, are no more than the crashes and the migrations
that are done.  Only a crash turns an excused key into one that counts, and it brings its own unit; the
lemma `OneMore` compares the cardinalities.

### `ContractMetricsProofs`

For any policies, kinds, statuses, amounts, page size, changes and failures:

| Theorem | States |
| --- | --- |
| `MetricsInvariant` | `[](TypeOK /\ ReadingOK /\ FreshOK /\ MixedOK)` |
| `TotalsHold` | `[]PartsWithinTotal` |
| `ValuesAgree` | `[]GroupsAgree` |
| `ListsWhole` | `ReadsWhole` |

* `ReadingOK`: a page that was answered is full unless it is the last, and the last ends between the
  least and the greatest length of the list so far; each proposal of it is the one now at its place, at the same
  time or earlier (`Later`: a decision stays).  `SteadyRead`: an entry that kept its place is at that place of what was
  read, or on a page to come.  `JoinPage` and `Flattened` say where an entry of a page is in
  the concatenation.
* `FreshOK`: in an undisturbed sweep a metric that is done has the value of the list that is kept.
* `MixedOK`: what a reader sees in mid-sweep is half of this sweep and half of the one before.  There is
  an *older list* from which all values of proposals that are not done yet stem, and of which the list this sweep
  keeps or is reading is a later state (`Extends`).  From one list to a later one the total only
  grows, and so do the decided proposals, whereas open ones may become decided; which is why the order of the
  metrics matters, and `MixedParts` goes through it.

### `ActionMetricsProofs`

For any days, metrics, kinds of actions and sweeps or runs missed:

| Theorem | States |
| --- | --- |
| `RowsBounded` | `[](TypeOK /\ LogOK /\ ChartOK)` |
| `ChartsGrow` | `[]ChartGrows` |
| `PartsInWhole` | `[]PartsWithinWhole` |
| `RebuiltAgrees` | `[]RebuiltAddsUp` |

A value *fits* a day and the day it was asked on (`Fits`) when it is worth at least what was known before it was asked, of the receipts dated
up to the day, and at most what was known by its end.  `ChartOK` says so of every row with the day in `asked`,
of the value a run holds, for whichever day it will be written (it may pass midnight), and of the days the
migration has in hand.  Receipts only become known, so a fitting value keeps fitting (`FitsStays`).  `ChartGrows` and
`PartsWithinWhole` compare two fitting rows (`RowsCompare`, `PartsLess`): one exceeds the other by no more than
what became known between their queries.  What a rebuilt chart says up to a day (`UpToIs`, `BalanceUpToIs`) is
a sum over receipts, which `SumUnion` adds up.

### `PriceFeedProofs`

For any prices, tokens, days, crashes, failures and migrations:

| Theorem | States |
| --- | --- |
| `TypeCorrect` | `[]TypeOK` |
| `PricesOfTheirDays` | `[]PriceOfItsDay` |
| `PastPricesStay` | `PastPricesFinal` |
| `OnePrice` | `[]OnePricePerRun` |
| `ValuesCounted` | `[]ValueOfCountedTokens` |
| `GapsHaveReasons` | `[]GapsExplained` |

`PriceOfItsDay` speaks of rows; `AnswersOK` adds where they come from: an answer that is kept, in hand or loaded
by the migration was the price of a day, which is today or, if midnight met it, yesterday.  `RunOK`,
`CountOK` and `DoneOK` do so for the price of a run, the list of tokens and the row of a day.

### `LogQueriesProofs`

For any users, DAOs, calls, limits and lengths of a day, a week and a month:

| Theorem | States |
| --- | --- |
| `Invariance` | `[](LogOK /\ StoredOK)` |
| `TypesHold` | `[]TypesFromActions` |
| `FlowsAddUp` | `[]FlowConserved` |
| `LeaderboardsMatch` | `[]LeaderboardsMatchPages` |
| `RequestInvariance` | `[](LogOK /\ StoredOK /\ RequestOK)` |
| `UsersAnsweredHolds` | `[]UsersAnswered` |
| `TotalsFromHistoryHolds` | `[]TotalsFromHistory` |
| `ChartsAddUpHolds` | `[]ChartsAddUp` |

`TypesFromActions` is not inductive because of rows the migration has loaded and not yet saved.
`StoredOK` adds `RowOK`: they too are backed by stored actions, whatever the aggregator saves meanwhile.
`FlowsAddUp` is an induction over the set of DAOs (`NetOfDaos`): what flows into a set of them less what
flows out of it is the sum of their flows, transfers inside it cancel.
`LeaderboardsMatch` holds in every state that satisfies the invariant.  Its core is `FirstRows`: a limited ranking
has the value of a DAO, unless it is full of other DAOs with at least that value; these are
mapped injectively into the DAOs ahead.

`UsersAnswered` speaks of a request whose queries are all done.  `RequestOK` says what holds before: each day of the
chart is still to ask, failed or answered, never two of these (`AskedOK`), and an answer lies between the users of
its day when the request began and those of now (`AnswerOf`).  Every step that adds users keeps it, since users of stored
transactions never become fewer (`UsersGrow`).  `RequestBegins` says that the days of
a chart are distinct and in order, and `AnswersSorted` what putting the answers in order keeps.

`TotalsFromHistory` and `ChartsAddUp` compare a chart with a count over the whole log.  A chart divides
the rows of a query into classes, one per interval, and the value of the rows is *additive* (transactions,
deposits) or only *subadditive* (signers and DAOs, who come back in a later interval): `ClassesAlong` says that the
points then add up to the total, or to no less.  Deposits need one fact more, `FundsOK`: they are
multiples of `Factor`, so that dividing by it comes to the same before and after adding up.  The code divides exactly, as decimals (`convertFunds`); the model divides whole numbers, which is the same for
multiples of `Factor`, and the assumption on the deposits of calls, of any size, keeps to those.

### `SumTheorems`

The library's induction theorems take an operator as a parameter.  `SmallestSet`, `NaturalInduction` and
`SetInduction` say the same of a *set* of instances, which has a minimal counterexample; with them the
module proves that `SumFunctionOnSet`, which the community modules define by a CHOOSE in an iteration, can be
taken apart (`SumRecursion`), and from it how it meets unions, parts, images, pairs, changes and pointwise sums.
`SumOfClasses` adds up the values of the classes of a set, `SumAlong` goes from a sum over a set to one along
a sequence, and `SumOfMultiples` divides a sum of multiples.  Whole division is given by its remainder
(`Division`), whence the number of steps of a given length between two moments (`StepsUpTo`), for the days of `StatsQueries`
and of `LogQueries` alike.  `OrderExists` and `SequenceOfSet` do so for the sequences of a set: it can be put in order,
and each member is in it once.

### Only model-checked

Every invariant and action property of a passing run is a theorem, and so is the refinement of `CollectedLog`.
What is left to TLC:

* Liveness (`RunsEnd`, `EventuallyStored`, `ListedRegistered`, `EventuallyFresh`): fairness and ENABLED are out of
  the prover's reach.
* `DepositsCounted` and `CountsEitherKind` are what the violated runs check.

## 6. What is not modelled

The components with the status `not_modelled` in `PROJECT.json`: controllers and DTOs (routing and
declarations), the schema (DDL), configuration and providers (wiring), and the Sputnik aggregation (a
stub that yields nothing).  Inside the modelled parts:

* the contents of a DAO's metadata, and `nfts-value-locked`, which is in no list of metrics;
* `getDaoCountDaily`, the history of the number of DAOs;
* what moves the state of an account besides the deposits that are counted (gas, storage, refunds): the current
  balance is unconstrained;
* a second contract in every module but `ReceiptSync`: the tables are keyed by contract, but `purgeInactive` and
  the metrics read the one contract named in the configuration;
* the migrations that compute a column from other columns of the same row (contract id, arguments, block
  timestamp) or insert constants (contracts), and the runner, a loop over names that skips one it does
  not know;
* CoinGecko's own cache of 30 seconds: a run asks it at most once;
* two replicas of the aggregator: the deployment has one, and `running` is not shared.
