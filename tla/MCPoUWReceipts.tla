--------------------------- MODULE MCPoUWReceipts ---------------------------
(***************************************************************************)
(* TLC instance of PoUWReceipts: two receipts, two overlapping flushes.    *)
(***************************************************************************)
EXTENDS PoUWReceipts, TLC

Symmetry == Permutations(Flushes) \cup Permutations(Receipts)
=============================================================================
