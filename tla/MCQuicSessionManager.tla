------------------------ MODULE MCQuicSessionManager ------------------------
(***************************************************************************)
(* TLC instance of QuicSessionManager: two identities, two concurrent      *)
(* callers and three session names.                                        *)
(***************************************************************************)
EXTENDS QuicSessionManager, TLC

Symmetry == Permutations(Opens) \cup Permutations(Callers) \cup Permutations(Dids)
=============================================================================
