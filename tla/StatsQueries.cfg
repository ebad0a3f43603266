\* Two DAOs, sweeps that fail, die, pass midnight or meet a request, a DAO that is purged.
SPECIFICATION Spec
CONSTANTS
    DayLength = 2
    One = 2
    d1 = d1
    d2 = d2
    NoDao = NoDao
    Daos = {d1, d2}
    LeaderboardSize = 1
    Month = 2
    MaxDay = 1
    MaxChanges = 2
    MaxTroubles = 1
SYMMETRY DaoSymmetry
INVARIANTS TornOnlyByWrites UnwrittenStillCounted ChartsCarryOn LeaderboardsMatchPages ProposalsLag
CHECK_DEADLOCK FALSE
