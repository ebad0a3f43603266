-------------------------- MODULE StatsCollection --------------------------
(***************************************************************************)
(* The part of a run that follows the receipt actions, for one contract:   *)
(* AggregatorService.scheduleAggregation from aggregateDaos to the metric  *)
(* loop, with AggregationService.aggregateDaos and aggregateMetrics, and   *)
(* the historical-aggregation migration that may run next to it.           *)
(*                                                                         *)
(* A run reads the factory's list of DAOs and saves every one, purges the  *)
(* rest, reads the list again and then reads one metric at a time from the *)
(* chain.  Each value is written twice: over the current value in          *)
(* dao_stats and, under the date of the moment, in dao_stats_history.      *)
(*                                                                         *)
(* The list is read in one call or, when that fails, page by page; it is   *)
(* kept in memory for 300 seconds.  As the factory numbers the DAOs anew   *)
(* when one leaves, pages of different moments may leave out a DAO.        *)
(***************************************************************************)
EXTENDS Integers, Sequences, FiniteSets, SequencesExt

CONSTANTS
    Daos,              \* DAOs the factory may ever list
    Factory,           \* the factory's own account, the `dao` of its metrics
    Metrics,           \* DAO_METRICS
    FactoryMetrics,    \* FACTORY_METRICS
    ChunkSize,         \* DAOs of a page, 200 in the code
    MaxDay,            \* bound: days that pass
    MaxValue,          \* bound: values a metric takes on the chain
    MaxFactoryChanges, \* bound: DAOs created or removed
    MaxRuns,           \* bound: runs, 0 for no bound
    MaxCrashes,        \* bound: crashes of the aggregator
    MaxMigrations      \* bound: metrics the migration processes

ASSUME ConstantsAssumption ==
    /\ Factory \notin Daos
    /\ IsFiniteSet(Daos) /\ IsFiniteSet(Metrics) /\ IsFiniteSet(FactoryMetrics)
    /\ ChunkSize \in Nat \ {0}
    /\ MaxDay \in Nat \ {0}
    /\ MaxValue \in Nat \ {0}
    /\ MaxFactoryChanges \in Nat
    /\ MaxRuns \in Nat
    /\ MaxCrashes \in Nat
    /\ MaxMigrations \in Nat

Days == 1 .. MaxDay
FactoryKeys == {Factory} \X FactoryMetrics
KeysOf(ds) == ds \X Metrics
Keys == FactoryKeys \cup KeysOf(Daos)

NoRow == 0
Rebuilt == MaxValue + 1       \* what the migration computes for a past day
Values == 1 .. MaxValue
Rows == NoRow .. Rebuilt
NoKey == <<>>

VARIABLES
    today,     \* CURRENT_DATE of the database
    factory,   \* the DAOs the factory lists, in its order
    truth,     \* what a metric evaluates to on the chain
    registry,  \* table daos
    stats,     \* table dao_stats
    history,   \* table dao_stats_history
    cached,    \* the list cached in memory for 300 seconds, as <<list>> or <<>>
    unread, found, \* getDaos: the pages not answered yet, as <<pages>> or <<>>, and the DAOs read
    pc,        \* where the run is
    list,      \* daoContracts of the loop under way
    todo,      \* what the loop under way has not reached: DAOs, then keys
    key, value,\* the metric being stored
    mkey, mdays, \* migration: the metric, and the days not inserted yet
    changes, runs, crashes, migrations, \* counters for the bounds
    \* History, read by no action of the program:
    delisted,  \* DAOs the factory has ever removed
    moved,     \* DAOs that changed their place while the list in use was read page by page
    skipped,   \* metrics that failed in this run
    since      \* the day this run began

tables == <<registry, stats, history>>
reading == <<cached, unread, found>>
local  == <<pc, list, todo, key, value>>
migration == <<mkey, mdays, migrations>>
world  == <<today, factory, truth, changes, delisted>>
vars   == <<world, moved, tables, reading, local, migration, runs, crashes, skipped, since>>

PCs == {"idle", "list", "daos", "factory", "metrics", "stats", "history"}
Listed == Range(factory)

-----------------------------------------------------------------------------
Init ==
    /\ today = 1
    /\ \E ds \in SUBSET Daos : factory \in SetToSeqs(ds)
    /\ truth = [k \in Keys |-> 1]
    /\ registry = {}
    /\ stats = [k \in Keys |-> NoRow]
    /\ history = [d \in Days |-> [k \in Keys |-> NoRow]]
    /\ cached = <<>> /\ unread = <<>> /\ found = {}
    /\ pc = "idle" /\ list = {} /\ todo = {} /\ key = NoKey /\ value = NoRow
    /\ mkey = NoKey /\ mdays = {}
    /\ changes = 0 /\ runs = 0 /\ crashes = 0 /\ migrations = 0
    /\ delisted = {} /\ moved = {} /\ skipped = {} /\ since = 1

\* The list is asked for, by aggregateDaos or, after it, by DAO_COUNT and for the
\* metrics of the DAOs, and is not kept.
ListMissing == pc \in {"list", "factory"} /\ cached = <<>>

\* DaoFactoryContract.getDaoList: get_dao_list answers ...
FetchList ==
    /\ ListMissing /\ unread = <<>>
    /\ cached' = <<Listed>> /\ moved' = {}
    /\ UNCHANGED <<world, tables, unread, found, local, migration, runs, crashes, skipped, since>>

\* Mutant: the first page is taken for all.
FetchFirstPage ==
    /\ ListMissing /\ unread = <<>>
    /\ unread' = <<{0}>> /\ found' = {} /\ moved' = {}
    /\ UNCHANGED <<world, tables, cached, local, migration, runs, crashes, skipped, since>>

\* ... or throws, and getDaos asks for all pages at once, as many as the number of DAOs
\* at this moment calls for.
FetchPages ==
    /\ ListMissing /\ unread = <<>>
    /\ unread' = <<0 .. Len(factory) \div ChunkSize>> /\ found' = {} /\ moved' = {}
    /\ UNCHANGED <<world, tables, cached, local, migration, runs, crashes, skipped, since>>

\* A page is answered, in any order.  A DAO that two pages hold is saved twice.
ReadPage(page) ==
    /\ unread # <<>> /\ page \in unread[1]
    /\ unread' = <<unread[1] \ {page}>>
    /\ found' = found \cup {factory[i] : i \in {j \in DOMAIN factory : (j - 1) \div ChunkSize = page}}
    /\ UNCHANGED <<world, moved, tables, cached, local, migration, runs, crashes, skipped, since>>

\* The pages are one list, which is kept like the other.
JoinPages ==
    /\ unread = <<{}>>
    /\ cached' = <<found>> /\ unread' = <<>> /\ found' = {}
    /\ UNCHANGED <<world, moved, tables, local, migration, runs, crashes, skipped, since>>

\* The receipt actions are in; aggregateDaos asks for the list.
StartRun ==
    /\ pc = "idle"
    /\ MaxRuns > 0 => runs < MaxRuns
    /\ runs' = IF MaxRuns > 0 THEN runs + 1 ELSE runs
    /\ pc' = "list"
    /\ skipped' = {} /\ since' = today
    /\ UNCHANGED <<world, moved, tables, reading, list, todo, key, value, migration, crashes>>

\* AstroService.getDaoContracts: the loop over the list begins.
StartDaos ==
    /\ pc = "list" /\ cached # <<>>
    /\ list' = cached[1]
    /\ todo' = list'
    /\ pc' = "daos"
    /\ UNCHANGED <<world, moved, tables, reading, key, value, migration, runs, crashes, skipped, since>>

\* Mutant: only rows that exist are saved.
UpdateDao(d) ==
    /\ pc = "daos" /\ d \in todo
    /\ todo' = todo \ {d}
    /\ UNCHANGED <<world, moved, tables, reading, pc, list, key, value, migration,
                   runs, crashes, skipped, since>>

\* daoService.create for the next DAO of the list; metadata that cannot be
\* read or parsed is left out, the DAO is saved all the same.
SaveDao(d) ==
    /\ pc = "daos" /\ d \in todo
    /\ registry' = registry \cup {d}
    /\ todo' = todo \ {d}
    /\ UNCHANGED <<world, moved, stats, history, reading, pc, list, key, value, migration,
                   runs, crashes, skipped, since>>

\* purgeInactive deletes every DAO that is not among those just saved.
\* aggregateMetrics then begins with the metrics of the factory.
Purge ==
    /\ pc = "daos" /\ todo = {}
    /\ registry' = registry \cap list
    /\ pc' = "factory"
    /\ todo' = FactoryKeys
    /\ UNCHANGED <<world, moved, stats, history, reading, list, key, value, migration,
                   runs, crashes, skipped, since>>

\* Mutant: the loop stops at a failure.
MetricFailsAll(k) ==
    /\ pc \in {"factory", "metrics"} /\ k \in todo
    /\ todo' = {}
    /\ skipped' = skipped \cup {k}
    /\ unread' = <<>> /\ found' = {}
    /\ UNCHANGED <<world, moved, tables, cached, pc, list, key, value, migration,
                   runs, crashes, since>>

\* getCurrentValue of the next metric answers: DAO_COUNT, of the factory, has its list ...
ReadMetric(k) ==
    /\ pc \in {"factory", "metrics"} /\ k \in todo
    /\ pc = "factory" => cached # <<>>
    /\ key' = k /\ value' = truth[k]
    /\ todo' = todo \ {k}
    /\ pc' = "stats"
    /\ UNCHANGED <<world, moved, tables, reading, list, migration, runs, crashes, skipped, since>>

\* ... or throws: logged, and the loop continues with the next metric.
MetricFails(k) ==
    /\ pc \in {"factory", "metrics"} /\ k \in todo
    /\ todo' = todo \ {k}
    /\ skipped' = skipped \cup {k}
    /\ unread' = <<>> /\ found' = {}
    /\ UNCHANGED <<world, moved, tables, cached, pc, list, key, value, migration,
                   runs, crashes, since>>

\* daoStatsService.createOrUpdate: upsert on (contract, dao, metric).
SaveStats ==
    /\ pc = "stats"
    /\ stats' = [stats EXCEPT ![key] = value]
    /\ pc' = "history"
    /\ UNCHANGED <<world, moved, registry, history, reading, list, todo, key, value, migration,
                   runs, crashes, skipped, since>>

\* Mutant: the row of the day is written once.
SaveHistoryOnce ==
    /\ pc = "history"
    /\ history' = IF history[today][key] = NoRow
                  THEN [history EXCEPT ![today][key] = value] ELSE history
    /\ pc' = IF key \in FactoryKeys THEN "factory" ELSE "metrics"
    /\ key' = NoKey /\ value' = NoRow
    /\ UNCHANGED <<world, moved, registry, stats, reading, list, todo, migration,
                   runs, crashes, skipped, since>>

\* Mutant: the row is dated with the day the run began.
SaveHistoryOfRun ==
    /\ pc = "history"
    /\ history' = [history EXCEPT ![since][key] = value]
    /\ pc' = IF key \in FactoryKeys THEN "factory" ELSE "metrics"
    /\ key' = NoKey /\ value' = NoRow
    /\ UNCHANGED <<world, moved, registry, stats, reading, list, todo, migration,
                   runs, crashes, skipped, since>>

\* daoStatsHistoryService.createOrUpdate: upsert on (date, contract, dao,
\* metric), where the date defaults to the current one.
SaveHistory ==
    /\ pc = "history"
    /\ history' = [history EXCEPT ![today][key] = value]
    /\ pc' = IF key \in FactoryKeys THEN "factory" ELSE "metrics"
    /\ key' = NoKey /\ value' = NoRow
    /\ UNCHANGED <<world, moved, registry, stats, reading, list, todo, migration,
                   runs, crashes, skipped, since>>

\* The metrics of the factory are done: the list is asked for a second time.
StartMetrics ==
    /\ pc = "factory" /\ todo = {} /\ cached # <<>>
    /\ list' = cached[1]
    /\ todo' = KeysOf(list')
    /\ pc' = "metrics"
    /\ UNCHANGED <<world, moved, tables, reading, key, value, migration, runs, crashes, skipped, since>>

\* The loop is done; prices and the cache are another module's business.
FinishMetrics ==
    /\ pc = "metrics" /\ todo = {}
    /\ pc' = "idle" /\ list' = {}
    /\ UNCHANGED <<world, moved, tables, reading, todo, key, value, migration,
                   runs, crashes, skipped, since>>

\* A database error, a failing getDaoContracts or the end of the pod: the
\* process restarts with an empty memory.  What was written stays.
Crash ==
    /\ pc # "idle"
    /\ crashes < MaxCrashes
    /\ crashes' = crashes + 1
    /\ cached' = <<>> /\ unread' = <<>> /\ found' = {} /\ moved' = {}
    /\ pc' = "idle" /\ list' = {} /\ todo' = {} /\ key' = NoKey /\ value' = NoRow
    /\ UNCHANGED <<world, tables, migration, runs, skipped, since>>

\* The 300 seconds of the cached list are over.  Asking for it and using what is there
\* are one step of the program: nothing expires in between.
ListExpires ==
    /\ cached # <<>> /\ pc \notin {"list", "factory"}
    /\ cached' = <<>>
    /\ UNCHANGED <<world, moved, unread, found, tables, local, migration, runs, crashes, skipped, since>>

-----------------------------------------------------------------------------
(* The migration                                                           *)

\* getHistoricalValues of the next metric: one value per day up to today.
RebuildMetric(k) ==
    /\ mdays = {}
    /\ migrations < MaxMigrations
    /\ migrations' = migrations + 1
    /\ mkey' = k
    /\ mdays' \in (SUBSET (1 .. today)) \ {{}}
    /\ UNCHANGED <<world, moved, tables, reading, local, runs, crashes, skipped, since>>

\* Mutant: on conflict, update.
UpsertRebuilt(d) ==
    /\ d \in mdays
    /\ history' = [history EXCEPT ![d][mkey] = Rebuilt]
    /\ mdays' = mdays \ {d}
    /\ mkey' = IF mdays' = {} THEN NoKey ELSE mkey
    /\ UNCHANGED <<world, moved, registry, stats, reading, local, migrations,
                   runs, crashes, skipped, since>>

\* daoStatsHistoryService.createIgnore: on conflict, do nothing.
InsertRebuilt(d) ==
    /\ d \in mdays
    /\ history' = IF history[d][mkey] = NoRow
                  THEN [history EXCEPT ![d][mkey] = Rebuilt]
                  ELSE history
    /\ mdays' = mdays \ {d}
    /\ mkey' = IF mdays' = {} THEN NoKey ELSE mkey
    /\ UNCHANGED <<world, moved, registry, stats, reading, local, migrations,
                   runs, crashes, skipped, since>>

-----------------------------------------------------------------------------
(* The world: midnight, the factory, the DAOs                              *)

Midnight ==
    /\ today < MaxDay
    /\ today' = today + 1
    /\ UNCHANGED <<factory, truth, changes, delisted, moved, tables, reading, local, migration,
                   runs, crashes, skipped, since>>

\* The list of the factory when a DAO leaves it: those behind it move up, or the last
\* one takes its place.
Without(ds, i) ==
    {RemoveAt(ds, i), SubSeq([ds EXCEPT ![i] = ds[Len(ds)]], 1, Len(ds) - 1)}

\* Where a DAO is in a list, 0 where it is not.
Place(ds, d) == IF d \in Range(ds) THEN CHOOSE i \in DOMAIN ds : ds[i] = d ELSE 0

Relists(ds) ==
    /\ changes < MaxFactoryChanges
    /\ changes' = changes + 1
    /\ factory' = ds
    /\ delisted' = delisted \cup (Listed \ Range(ds))
    /\ moved' = IF unread = <<>> THEN moved
                ELSE moved \cup {d \in Listed : Place(ds, d) # Place(factory, d)}
    /\ UNCHANGED <<today, truth, tables, reading, local, migration, runs, crashes, skipped, since>>

Enlist(d) == d \notin Listed /\ Relists(Append(factory, d))

Delist(i) == \E ds \in Without(factory, i) : Relists(ds)

ValueChanges(k) ==
    /\ truth[k] < MaxValue
    /\ truth' = [truth EXCEPT ![k] = @ + 1]
    /\ UNCHANGED <<today, factory, changes, delisted, moved, tables, reading, local, migration,
                   runs, crashes, skipped, since>>

Run == \/ StartRun \/ StartDaos
       \/ FetchList \/ FetchPages \/ JoinPages
       \/ unread # <<>> /\ \E page \in unread[1] : ReadPage(page)
       \/ \E d \in Daos : SaveDao(d)
       \/ Purge
       \/ \E k \in Keys : ReadMetric(k) \/ MetricFails(k)
       \/ SaveStats \/ SaveHistory
       \/ StartMetrics \/ FinishMetrics

Next == \/ Run \/ Crash \/ ListExpires
        \/ \E k \in Keys : RebuildMetric(k)
        \/ \E d \in Days : InsertRebuilt(d)
        \/ Midnight
        \/ \E d \in Daos : Enlist(d)
        \/ \E i \in DOMAIN factory : Delist(i)
        \/ \E k \in Keys : ValueChanges(k)

Spec == Init /\ [][Next]_vars

\* The cron job keeps starting runs, awaited calls are resumed, and a list that is kept
\* expires by the clock, which no run that finds it in between holds up.  Nothing else is
\* owed, not even that a metric ever succeeds.
FairSpec == Spec /\ WF_vars(Run) /\ SF_vars(ListExpires)

-----------------------------------------------------------------------------
(* Properties                                                              *)

\* Every variable has its type.
TypeOK ==
    /\ today \in Days /\ since \in 1 .. today
    /\ factory \in Seq(Daos) /\ moved \subseteq Daos /\ registry \subseteq Daos /\ delisted \subseteq Daos
    /\ truth \in [Keys -> Values]
    /\ stats \in [Keys -> Rows]
    /\ history \in [Days -> [Keys -> Rows]]
    /\ cached = <<>> \/ cached \in {<<ds>> : ds \in SUBSET Daos}
    /\ unread = <<>> \/ unread \in {<<pages>> : pages \in SUBSET Nat}
    /\ found \subseteq Daos
    /\ pc \in PCs
    /\ list \subseteq Daos
    /\ todo \subseteq IF pc = "daos" THEN Daos ELSE Keys
    /\ pc \in {"stats", "history"} => key \in Keys /\ value \in Values
    /\ mdays \subseteq 1 .. today
    /\ mdays # {} => mkey \in Keys
    /\ skipped \subseteq Keys
    /\ changes \in 0 .. MaxFactoryChanges /\ runs \in 0 .. MaxRuns
    /\ crashes \in 0 .. MaxCrashes /\ migrations \in 0 .. MaxMigrations

\* "Purging DAOs that were removed from contract": a DAO leaves the table only
\* if the factory did delist it, whatever list a run worked from: a cached one,
\* or one read before DAOs were created or before a crash.  The exception is a list
\* read page by page: a DAO that is still listed is purged as well if, while that very
\* list was read, another one left the factory and it took another place.
OnlyDelistedPurged == [][registry \ registry' \subseteq delisted \cup moved]_vars

LastDay(k) == {d \in Days : /\ history[d][k] # NoRow
                            /\ \A e \in Days : e > d => history[e][k] = NoRow}
Agree(k) == IF LastDay(k) = {} THEN stats[k] = NoRow
            ELSE \A d \in LastDay(k) : stats[k] = history[d][k]

\* The current value and the newest row of the history agree, except for the
\* metric between its two writes, for one metric per crash and for one per
\* metric that the migration rebuilt: nothing else makes the two tables diverge,
\* and the next successful run of the metric heals it.
StatsHistoryAgree ==
    Cardinality({k \in Keys : ~ Agree(k)})
        <= crashes + migrations + (IF pc = "history" THEN 1 ELSE 0)

\* A run that reaches its end has left a row, dated since its beginning, for
\* every metric of every DAO of its list, but for the metrics that failed: a
\* failure costs one metric and not those after it, and no midnight, list
\* change or concurrent migration makes the run miss one.
RunCoversList ==
    (pc = "metrics" /\ todo = {}) =>
        \A k \in (FactoryKeys \cup KeysOf(list)) \ skipped :
            \E d \in since .. today : history[d][k] # NoRow

\* A row of a past day is never changed or deleted, neither by a run that
\* stays busy past midnight nor by a migration that rebuilds that day.
PastDaysFinal ==
    [][\A d \in Days, k \in Keys :
           d < today /\ history[d][k] # NoRow => history'[d][k] = history[d][k]]_vars

\* The migration never puts its reconstruction in the place of a value the
\* aggregator recorded, not even today's.
RecordedNotRebuilt ==
    [][\A d \in Days, k \in Keys :
           history[d][k] \in Values => history'[d][k] \in Values]_vars

\* A DAO the factory keeps listing is registered sooner or later, although
\* every metric may fail and a run may work from a list read before, or from pages that
\* leave it out.
ListedRegistered ==
    \A d \in Daos : <>[](d \in Listed) => <>[](d \in registry)

=============================================================================
