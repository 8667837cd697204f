------------------------------ MODULE MCCsmap ------------------------------
(* Instances of Csmap for TLC: keys are 1, 2, ..., values and threads are interchangeable. *)
EXTENDS Csmap, TLC
CONSTANTS MaxKey
MCKeys == 1 .. MaxKey
MCEnd == MaxKey + 1
\* Ranges that reach to the end of the map, and ranges that end at a key.
OpenRanges == {<<1, MCEnd>>}
ClosedRanges == MCKeys \X MCKeys
Symmetry == Permutations(Threads) \cup Permutations(Values)
=============================================================================
