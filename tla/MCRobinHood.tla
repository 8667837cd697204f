----------------------------- MODULE MCRobinHood -----------------------------
(* Instances of RobinHood for TLC: the keys are interchangeable, as the hash *)
(* of each is chosen in the initial state.                                   *)
EXTENDS RobinHood, TLC

KeySymmetry == Permutations(Keys)
=============================================================================
