---------------------------- MODULE MCHeteroRadix ----------------------------
(* Instances of HeteroRadix for TLC: the keys are interchangeable, which the *)
(* safety runs use to look at one representative of each set of states.      *)
EXTENDS HeteroRadix, TLC

KeySymmetry == Permutations(Keys)
=============================================================================
