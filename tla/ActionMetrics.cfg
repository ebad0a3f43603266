\* Two days, receipts whose outcome comes late, a sweep that fails, dies or passes midnight.
SPECIFICATION Spec
CONSTANTS
    Kinds <- SomeKinds
    Metrics = {"IN", "CALLS_IN", "DEPOSITS_IN"}
    Balances = {0}
    NoHand = NoHand
    MaxDay = 1
    MaxActions = 2
    MaxMissed = 1
INVARIANTS RebuiltAddsUp ChartGrows PartsWithinWhole
CHECK_DEADLOCK FALSE
