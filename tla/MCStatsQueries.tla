--------------------------- MODULE MCStatsQueries ---------------------------
EXTENDS StatsQueries, TLC

CONSTANTS d1, d2

DaoSymmetry == Permutations({d1, d2})
=============================================================================
