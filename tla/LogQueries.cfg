\* Two users and two DAOs, two transactions over two days.
SPECIFICATION Spec
CONSTANTS
    DayLength = 2
    One = 1
    u1 = u1
    u2 = u2
    d1 = d1
    d2 = d2
    Users = {u1, u2}
    Daos = {d1, d2}
    Factory = Factory
    NoDao = NoDao
    Calls <- SomeCalls
    Outgoing <- SomeOutgoing
    Factor = 2
    LeaderboardSize = 1
    Concurrency = 2
    Week = 1
    Month = 3
    MaxNow = 2
    MaxTransactions = 2
    MaxMigrations = 1
SYMMETRY AccountSymmetry
INVARIANTS TypesFromActions FlowConserved ChartsAddUp LeaderboardsMatchPages TotalsFromHistory UsersAnswered
CHECK_DEADLOCK FALSE
