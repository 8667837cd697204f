------------------------------ MODULE MCBTree ------------------------------
(* Instances of BTree for TLC: the keys and places are small integers.     *)
EXTENDS BTree
CONSTANTS MaxKey, MaxNode
MCKeys == 1 .. MaxKey
MCNodeIds == 1 .. MaxNode
=============================================================================
