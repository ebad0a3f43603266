----------------------------- MODULE MCPriceFeed -----------------------------
(* A small instance of PriceFeed for TLC.                                  *)
EXTENDS PriceFeed, TLC

CONSTANTS t1, t2

TokenSymmetry == Permutations({t1, t2})
TwoWays == {"received", "ownershipChangeEvents"}
=============================================================================
