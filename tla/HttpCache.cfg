\* Two overlapping requests, runs that write, purge, clear or die.
SPECIFICATION FairSpec
CONSTANTS
    r1 = r1
    r2 = r2
    Requests = {r1, r2}
    Cacheable = TRUE
    TTL = 2
    MaxHandling = 1
    MaxVersion = 2
INVARIANTS TypeOK BoundedStaleness PurgedSoonRefused StaleOnlyByOverlap
PROPERTY EventuallyFresh
CHECK_DEADLOCK FALSE
