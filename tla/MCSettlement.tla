----------------------------- MODULE MCSettlement -----------------------------
(* A small instance of Settlement for TLC.                                 *)
EXTENDS Settlement, TLC

\* Blobs are interchangeable.
Symmetry == Permutations(Blobs)
=============================================================================
