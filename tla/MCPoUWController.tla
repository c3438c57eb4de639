-------------------------- MODULE MCPoUWController --------------------------
(***************************************************************************)
(* TLC instance of PoUWController.                                         *)
(***************************************************************************)
EXTENDS PoUWController

BothOrHash == {{"manifest", "content"}, {"manifest", "hash"}}
=============================================================================
