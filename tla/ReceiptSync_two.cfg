\* Two contracts share from and to; an indexer in step, failures within the retries, a crash.
SPECIFICATION Spec
CONSTANTS
    c1 = c1
    c2 = c2
    a1 = a1
    a2 = a2
    NoContract = NoContract
    Contracts = {c1,c2}
    Actions = {a1,a2}
    FirstBlock = 1
    ChunkSize = 2
    RetryThreshold = 1
    MaxTime = 5
    MaxLag = 0
    MaxFailures = 2
    MaxCrashes = 1
SYMMETRY ActionSymmetry
INVARIANT LostOnlyBehindAnother
CHECK_DEADLOCK FALSE
