----------------------------- MODULE MCStoreQueue -----------------------------
(* Small instances of StoreQueue for TLC.                                  *)
EXTENDS StoreQueue, TLC

\* Processes, tick slots, intents and objects are interchangeable.
Symmetry == Permutations(Procs) \union Permutations(Ticks)
            \union Permutations(Intents) \union Permutations(Objects)
=============================================================================
