------------------------------- MODULE Walks -------------------------------
(***************************************************************************)
(* A walk over records in an order, as every query of an ordered engine    *)
(* makes one: radix::iterate and iterate_through_pairs of                  *)
(* src/src/iterator.h.  The order is a function that ranks the records; no *)
(* two of them have one rank.                                              *)
(***************************************************************************)
EXTENDS Integers, Sequences, FiniteSets

\* The records of S in the order of rank: at n is the one with n - 1 before it.
InOrder(S, rank) ==
  [n \in 1 .. Cardinality(S) |-> CHOOSE k \in S : Cardinality({j \in S : rank[j] < rank[k]}) = n - 1]

\* Records in order, up to the first one whose callback answers non-zero.
Walk(S, rank, stops) ==
  LET all == InOrder(S, rank)
      cut == {n \in DOMAIN all : all[n] \in stops}
  IN IF cut = {} THEN [status |-> "OK", seen |-> all]
     ELSE [status |-> "STOPPED_BY_CB", seen |-> SubSeq(all, 1, CHOOSE n \in cut : \A m \in cut : n <= m)]

\* What a walk over the records of S must report.
Reports(got, S, rank, stops) ==
  LET first == {k \in S : ~\E j \in S \cap stops : rank[j] < rank[k]}
  IN /\ Len(got.seen) = Cardinality(first) /\ {got.seen[n] : n \in DOMAIN got.seen} = first
     /\ \A n, m \in DOMAIN got.seen : n < m => rank[got.seen[n]] < rank[got.seen[m]]
     /\ got.status = "STOPPED_BY_CB" <=> S \cap stops # {}
=============================================================================
