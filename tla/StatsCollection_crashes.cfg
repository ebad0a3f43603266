\* Runs with failing metrics, crashes, changing values, a migration and midnight in the
\* middle.
SPECIFICATION Spec
CONSTANTS
    d1 = d1
    d2 = d2
    f = f
    m = m
    Daos = {d1,d2}
    Factory = f
    Metrics = {m}
    FactoryMetrics = {}
    ChunkSize = 1
    MaxDay = 2
    MaxValue = 2
    MaxFactoryChanges = 1
    MaxRuns = 2
    MaxCrashes = 1
    MaxMigrations = 1
SYMMETRY DaoSymmetry
INVARIANTS StatsHistoryAgree RunCoversList
PROPERTIES RecordedNotRebuilt PastDaysFinal
CHECK_DEADLOCK FALSE
