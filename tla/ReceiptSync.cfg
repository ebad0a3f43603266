\* One contract under fair scheduling: a lagging indexer, outages longer than the
\* retries and without end, one crash.
SPECIFICATION FairSpec
CONSTANTS
    c1 = c1
    a1 = a1
    a2 = a2
    NoContract = NoContract
    Contracts = {c1}
    Actions = {a1,a2}
    FirstBlock = 1
    ChunkSize = 2
    RetryThreshold = 1
    MaxTime = 5
    MaxLag = 1
    MaxFailures = 3
    MaxCrashes = 1
INVARIANTS TypeOK ResumePointSound
PROPERTIES LogGrowsAtItsEnd ImplementsLog RunsEnd EventuallyStored
CHECK_DEADLOCK FALSE
