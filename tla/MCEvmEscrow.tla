----------------------------- MODULE MCEvmEscrow -----------------------------
(* A small instance of EvmEscrow for TLC.                                  *)
EXTENDS EvmEscrow, TLC

\* Users, relayers and blobs are interchangeable.
Symmetry == Permutations(Users) \union Permutations(Relayers) \union Permutations(Blobs)
=============================================================================
