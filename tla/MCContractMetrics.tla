------------------------- MODULE MCContractMetrics -------------------------
(* Small instances of ContractMetrics for TLC.                             *)
EXTENDS ContractMetrics

Group(name, members) == [name |-> name, group |-> TRUE, members |-> members]
Everyone == [name |-> "all", group |-> FALSE, members |-> {}]

NoPolicies == {<<>>}
SomePolicies ==
    {<<Everyone>>,
     <<Group("other", {"b"}), Everyone, Group("council", {"a", "b"}), Group("Council", {"c"})>>}

NoKinds == {}
TwoKinds == {"Transfer", "ChangePolicy"}
NoAmounts == {}
SomeAmounts == {2}
TwoNfts == <<"n1", "n2">>
NoNfts == <<>>
AllKinds == ProposalKinds

============================================================================
