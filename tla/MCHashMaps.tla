---------------------------- MODULE MCHashMaps -----------------------------
(* Instances of HashMaps for TLC: threads, keys and values are interchangeable. *)
EXTENDS HashMaps, TLC
Symmetry == Permutations(Threads) \cup Permutations(Keys) \cup Permutations(Values)
=============================================================================
