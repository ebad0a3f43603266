\* DAOs come and go while runs read the list, in one call or page by page, under fair
\* scheduling.
SPECIFICATION FairSpec
CONSTANTS
    d1 = d1
    d2 = d2
    f = f
    m = m
    n = n
    Daos = {d1, d2}
    Factory = f
    Metrics = {m}
    FactoryMetrics = {n}
    ChunkSize = 1
    MaxDay = 1
    MaxValue = 1
    MaxFactoryChanges = 3
    MaxRuns = 0
    MaxCrashes = 1
    MaxMigrations = 0
PROPERTIES OnlyDelistedPurged ListedRegistered
CHECK_DEADLOCK FALSE
