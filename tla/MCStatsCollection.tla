------------------------ MODULE MCStatsCollection ------------------------
(* Small instances of StatsCollection for TLC.                             *)
EXTENDS StatsCollection, TLC

DaoSymmetry == Permutations(Daos)

==========================================================================
