-------------------------- MODULE MCReceiptSync --------------------------
(* Small instances of ReceiptSync for TLC.                                 *)
EXTENDS ReceiptSync, TLC

ActionSymmetry == Permutations(Actions)

==========================================================================
