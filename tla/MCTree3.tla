------------------------------ MODULE MCTree3 ------------------------------
(* Instances of Tree3 for TLC: keys and places are small integers.         *)
EXTENDS Tree3, TLC
CONSTANTS MaxKeys, MaxLeaves
MCKeys == 1 .. MaxKeys
MCLeafIds == 1 .. MaxLeaves
MCInnerIds == 101 .. 100 + MaxLeaves
=============================================================================
