--------------------------- MODULE MCTokenTransfer ---------------------------
(***************************************************************************)
(* TLC instance of TokenTransfer: two presses, two gateways, two threads.  *)
(***************************************************************************)
EXTENDS TokenTransfer
=============================================================================
