--------------------------- MODULE MCApplication ---------------------------
(* Instances of Application for TLC: a comparator that reverses the order  *)
(* and one that calls the first two keys equal.                            *)
EXTENDS Application, TLC

CONSTANTS reversing, folding, object

MCRank == NoItem :> [k \in Keys |-> k] @@ reversing :> [k \in Keys |-> -k] @@ folding :> [k \in Keys |-> k \div 2]

Member(k, item) == [key |-> k, item |-> item]
MCJsonTexts == {
  <<Member("allocator", object)>>,
  <<Member("comparator", Plain), Member("allocator", object)>>,
  <<Member("allocator", Plain), Member("allocator", object)>>,
  <<Member("allocator", object), Member("comparator", Bad)>> }
=============================================================================
