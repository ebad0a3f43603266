\* The number of outgoing actions with a deposit.
SPECIFICATION Spec
CONSTANTS
    Kinds <- AllKinds
    Metrics = {"DEPOSITS_OUT"}
    Balances = {0}
    NoHand = NoHand
    MaxDay = 1
    MaxActions = 2
    MaxMissed = 1
INVARIANTS DepositsCounted
CHECK_DEADLOCK FALSE
