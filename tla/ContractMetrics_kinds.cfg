\* Every kind of proposal, against the description of the two metrics.
SPECIFICATION Spec
CONSTANTS
    Members = {"a", "b", "c"}
    Policies <- NoPolicies
    Kinds <- AllKinds
    Outcomes = {"Approved", "Expired"}
    Amounts <- NoAmounts
    Tokens = {}
    Owned <- NoNfts
    ChunkSize = 1
    MaxFailures = 1
    MaxChanges = 1
INVARIANT CountsEitherKind
CHECK_DEADLOCK FALSE
