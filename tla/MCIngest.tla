------------------------------ MODULE MCIngest ------------------------------
(***************************************************************************)
(* TLC instance of Ingest: texts of two generations, one of them a read    *)
(* receipt, and a buffer that holds two of the three.                      *)
(***************************************************************************)
EXTENDS Ingest, TLC

CONSTANTS g1, g2, t1, t2, r2, w1, w2, d1, d2

GenOfTexts == t1 :> g1 @@ t2 :> g2 @@ r2 :> g2
\* Distinct positions; two texts, or a text and a receipt, that are the first
\* of their handshakes.
SomeLayouts == {t1 :> 1 @@ t2 :> 2 @@ r2 :> 3,
                t1 :> 1 @@ t2 :> 1 @@ r2 :> 2,
                t1 :> 1 @@ t2 :> 2 @@ r2 :> 1}
Symmetric == Permutations(Workers) \cup Permutations(Drains)
=============================================================================
