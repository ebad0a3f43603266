--------------------------- MODULE MCHttpCache ---------------------------
(* Small instances of HttpCache for TLC.                                   *)
EXTENDS HttpCache, TLC

RequestSymmetry == Permutations(Requests)

==========================================================================
