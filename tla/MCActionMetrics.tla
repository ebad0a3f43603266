--------------------------- MODULE MCActionMetrics ---------------------------
EXTENDS ActionMetrics

SomeKinds == {[kind |-> "FUNCTION_CALL", deposit |-> 0],
              [kind |-> "TRANSFER", deposit |-> 2]}
AllKinds == SomeKinds \cup {[kind |-> "CREATE_ACCOUNT", deposit |-> NoDeposit]}
=============================================================================
