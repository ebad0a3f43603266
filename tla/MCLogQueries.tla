---------------------------- MODULE MCLogQueries ----------------------------
EXTENDS LogQueries, TLC

CONSTANTS u1, u2, d1, d2

OneFactor == 2
Sent(method, vote, deposit) == [method |-> method, vote |-> vote, deposit |-> deposit]
SomeCalls == {Sent("add_proposal", Null, OneFactor), Sent("act_proposal", "VoteApprove", 0),
              Sent(Null, Null, OneFactor)}
SomeOutgoing == {Sent(Null, Null, OneFactor), Sent("create", Null, NoDeposit)}

AccountSymmetry == Permutations({u1, u2}) \cup Permutations({d1, d2})
=============================================================================
