\* Proposals, policies and bounties change while sweeps collect them.
SPECIFICATION Spec
CONSTANTS
    Members = {"a", "b", "c"}
    Policies <- SomePolicies
    Kinds <- TwoKinds
    Outcomes = {"Approved", "Expired"}
    Amounts <- SomeAmounts
    Tokens = {"n1", "n2", "n3"}
    Owned <- TwoNfts
    ChunkSize = 1
    MaxFailures = 1
    MaxChanges = 2
INVARIANTS PartsWithinTotal GroupsAgree
PROPERTY ReadsWhole
CHECK_DEADLOCK FALSE
