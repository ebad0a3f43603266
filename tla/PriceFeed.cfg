\* Runs and the migration while NEAR moves, services omit NEAR or fail, and
\* tokens arrive.
SPECIFICATION Spec
CONSTANTS
    Prices = {1, 2}
    t1 = t1
    t2 = t2
    Tokens = {t1, t2}
    Ways <- TwoWays
    MaxDay = 1
    MaxMoves = 2
    MaxTroubles = 1
    MaxMigrations = 1
SYMMETRY TokenSymmetry
INVARIANTS PriceOfItsDay OnePricePerRun ValueOfCountedTokens GapsExplained
PROPERTY PastPricesFinal
CHECK_DEADLOCK FALSE
