---------------------------- MODULE BTreeProofs ----------------------------
(***************************************************************************)
(* Theorems about BTree, for every capacity of a node, every number of     *)
(* keys and of node places, and any number of crashes and of insertions    *)
(* that are abandoned halfway.                                             *)
(*                                                                         *)
(* The inductive invariant IInv says that the nodes form a tree, which a   *)
(* look at the pointers alone does not: there are functions lo and hi, the *)
(* keys from lo[n] up to hi[n] being the ones node n is there for, h, its  *)
(* height, and up, its parent, such that                                   *)
(*   - the children of a node divide its keys among them (Skeleton),       *)
(*   - each separator is the lo of the child behind it and points to the   *)
(*     leaf that begins there (SepsFit),                                   *)
(*   - a leaf holds keys of its own, in order, and begins with its lo      *)
(*     unless it is the first one (LeafFits),                              *)
(*   - next and prev lead to the leaves that begin and end where this one  *)
(*     ends and begins (Chain),                                            *)
(*   - the leaves hold the keys in the container, and size counts them;    *)
(*   - while an insertion splits, todo lists the inner nodes, all full, on *)
(*     the way down from parent to the leaf for its key, which is full     *)
(*     too, and parent, unless the root is to be split, has room (Waits).  *)
(* The queries follow from it: a place of an iterator stands for the       *)
(* number from which on the keys are ahead of it (StandsAt), and a scan    *)
(* lists the keys between two such numbers (ScanIs).                       *)
(*                                                                         *)
(* Nothing is assumed but what BTree says of its constants.                *)
(***************************************************************************)
EXTENDS BTree, WalksProofs, SequenceTheorems

-----------------------------------------------------------------------------
(* Sequences.                                                              *)

IsInserted(w, q, i, e) ==
  /\ Len(w) = Len(q) + 1
  /\ \A j \in 1 .. Len(q) + 1 : w[j] = IF j < i THEN q[j] ELSE IF j = i THEN e ELSE q[j - 1]
IsRemoved(w, q, i) ==
  /\ Len(w) = Len(q) - 1
  /\ \A j \in 1 .. Len(q) - 1 : w[j] = IF j < i THEN q[j] ELSE q[j + 1]

IsInsertedAfter(w, q, i, e) == IsInserted(w, q, i + 1, e)

LEMMA InsertAtIs ==
  ASSUME NEW X, NEW q \in Seq(X), NEW i \in 1 .. Len(q) + 1, NEW e \in X
  PROVE  InsertAt(q, i, e) \in Seq(X) /\ IsInserted(InsertAt(q, i, e), q, i, e)
<1>1. InsertAt(q, i, e) = Inserted(q, i, e)
    BY DEF InsertAt, Inserted
<1>2. /\ Inserted(q, i, e) \in Seq(X) /\ Len(Inserted(q, i, e)) = Len(q) + 1
      /\ \A j \in 1 .. Len(q) + 1 : Inserted(q, i, e)[j] = IF j < i THEN q[j] ELSE IF j = i THEN e ELSE q[j - 1]
    BY ONLY q \in Seq(X), i \in 1 .. Len(q) + 1, e \in X, InsertedIs
<1> QED
    BY ONLY <1>1, <1>2 DEF IsInserted

LEMMA RemoveAtIs ==
  ASSUME NEW X, NEW q \in Seq(X), NEW i \in 1 .. Len(q)
  PROVE  RemoveAt(q, i) \in Seq(X) /\ IsRemoved(RemoveAt(q, i), q, i)
<1>1. RemoveAt(q, i) = Removed(q, i)
    BY DEF RemoveAt, Removed
<1> QED
    BY <1>1, RemovedIs DEF IsRemoved

LEMMA SubSeqIs ==
  ASSUME NEW X, NEW q \in Seq(X), NEW a \in 1 .. Len(q) + 1, NEW b \in 0 .. Len(q), a <= b + 1
  PROVE  /\ SubSeq(q, a, b) \in Seq(X) /\ Len(SubSeq(q, a, b)) = b - a + 1
         /\ \A j \in 1 .. b - a + 1 : SubSeq(q, a, b)[j] = q[a + j - 1]
<1>1. Len(q) \in Nat /\ \A j \in 1 .. Len(q) : q[j] \in X
    BY ElementOfSeq, LenProperties
<1>2. \A j \in a .. b : q[j] \in X
    BY <1>1
<1> QED
    BY <1>1, <1>2, SubSeqProperties

-----------------------------------------------------------------------------
(* The tree.  Node n serves the integers from lo[n] up to, and without,    *)
(* hi[n]; h decreases on the way down and up[n] is the parent.             *)

Alive(t) == {n \in NodeIds : t[n].kind # "free"}
Leaves(t) == {n \in NodeIds : t[n].kind = "leaf"}
Inners(t) == {n \in NodeIds : t[n].kind = "inner"}

LeafRecords == [kind : {"leaf"}, keys : Seq(Keys), prev : NodeIds \cup {Null}, next : NodeIds \cup {Null}]
InnerRecords == [kind : {"inner"}, seps : Seq(NodeIds \X Keys), kids : Seq(NodeIds)]
Trees == [NodeIds -> {Unallocated} \cup LeafRecords \cup InnerRecords]

LEMMA KindsAre ==
  ASSUME NEW t \in Trees, NEW n \in NodeIds
  PROVE  /\ n \in Leaves(t) => t[n] \in LeafRecords /\ n \in Alive(t)
         /\ n \in Inners(t) => t[n] \in InnerRecords /\ n \in Alive(t) /\ n \notin Leaves(t)
         /\ n \in Alive(t) => n \in Leaves(t) \/ n \in Inners(t)
<1>1. t[n] = Unallocated \/ t[n] \in LeafRecords \/ t[n] \in InnerRecords
    BY DEF Trees
<1>2. Unallocated.kind = "free"
    BY DEF Unallocated
<1>3. t[n] \in LeafRecords => t[n].kind = "leaf"
    BY DEF LeafRecords
<1>4. t[n] \in InnerRecords => t[n].kind = "inner"
    BY DEF InnerRecords
<1> QED
    BY <1>1, <1>2, <1>3, <1>4 DEF Leaves, Inners, Alive

\* The children of n divide what it serves.
Family(kids, n, A, lo, hi, h, up) ==
  /\ Len(kids) \in 2 .. Capacity + 1
  /\ \A i \in 1 .. Len(kids) : kids[i] \in A /\ up[kids[i]] = n /\ h[kids[i]] < h[n]
  /\ lo[kids[1]] = lo[n] /\ hi[kids[Len(kids)]] = hi[n]
  /\ \A i \in 1 .. Len(kids) - 1 : hi[kids[i]] = lo[kids[i + 1]]
  /\ \A i, j \in 1 .. Len(kids) : i < j => lo[kids[i]] < lo[kids[j]]

IsKid(t, n, c) == \E i \in 1 .. Len(t[n].kids) : t[n].kids[i] = c

Ghosts(lo, hi, h, up) ==
  /\ lo \in [NodeIds -> Int] /\ hi \in [NodeIds -> Int] /\ h \in [NodeIds -> Nat]
  /\ up \in [NodeIds -> NodeIds \cup {Null}]

Skeleton(t, r, lo, hi, h, up) ==
  /\ t \in Trees /\ Ghosts(lo, hi, h, up)
  /\ r \in Alive(t) /\ up[r] = Null
  /\ \A n \in Alive(t) : lo[n] < hi[n]
  /\ \A n \in Inners(t) : Family(t[n].kids, n, Alive(t), lo, hi, h, up)
  /\ \A c \in Alive(t) : c # r => up[c] \in Inners(t) /\ IsKid(t, up[c], c)

Covers(lo, hi, n, k) == lo[n] <= k /\ k < hi[n]

\* d is strictly below c.
Inside(lo, hi, h, d, c) ==
  h[d] < h[c] /\ lo[c] <= lo[d] /\ hi[d] <= hi[c] /\ (lo[c] < lo[d] \/ hi[d] < hi[c])

LEMMA SmallFacts ==
  /\ Null \notin NodeIds /\ Null \notin Keys /\ Keys \subseteq Int
  /\ IsFiniteSet(NodeIds) /\ Cardinality(NodeIds) \in Nat
  /\ Capacity \in Nat /\ Capacity >= 3
BY NodeAssumption, KeysAssumption, CapacityAssumption, FS_CardinalityType

LEMMA AliveIs ==
  ASSUME NEW t
  PROVE  Alive(t) \in SUBSET NodeIds /\ Leaves(t) \in SUBSET NodeIds /\ Inners(t) \in SUBSET NodeIds
BY DEF Alive, Leaves, Inners

LEMMA KidsAre ==
  ASSUME NEW t \in Trees, NEW n \in Inners(t)
  PROVE  /\ t[n].kids \in Seq(NodeIds) /\ t[n].seps \in Seq(NodeIds \X Keys)
         /\ Len(t[n].kids) \in Nat /\ Len(t[n].seps) \in Nat
         /\ \A i \in 1 .. Len(t[n].kids) : t[n].kids[i] \in NodeIds
         /\ \A i \in 1 .. Len(t[n].seps) : t[n].seps[i] \in NodeIds \X Keys
         /\ t[n] = Inner(t[n].seps, t[n].kids)
<1>1. t[n] \in InnerRecords
    BY KindsAre, AliveIs
<1>2. t[n].kids \in Seq(NodeIds) /\ t[n].seps \in Seq(NodeIds \X Keys)
    BY <1>1 DEF InnerRecords
<1>3. t[n] = Inner(t[n].seps, t[n].kids)
    BY <1>1 DEF InnerRecords, Inner
<1> QED
    BY <1>2, <1>3, ElementOfSeq, LenProperties

LEMMA KeysAre ==
  ASSUME NEW t \in Trees, NEW n \in Leaves(t)
  PROVE  /\ t[n].keys \in Seq(Keys) /\ Len(t[n].keys) \in Nat
         /\ \A i \in 1 .. Len(t[n].keys) : t[n].keys[i] \in Keys /\ t[n].keys[i] \in Int
         /\ t[n].prev \in NodeIds \cup {Null} /\ t[n].next \in NodeIds \cup {Null}
         /\ t[n] = Leaf(t[n].keys, t[n].prev, t[n].next)
<1>1. t[n] \in LeafRecords
    BY KindsAre, AliveIs
<1>2. t[n].keys \in Seq(Keys) /\ t[n].prev \in NodeIds \cup {Null} /\ t[n].next \in NodeIds \cup {Null}
    BY <1>1 DEF LeafRecords
<1>3. t[n] = Leaf(t[n].keys, t[n].prev, t[n].next)
    BY <1>1 DEF LeafRecords, Leaf
<1> QED
    BY <1>2, <1>3, ElementOfSeq, LenProperties, SmallFacts

\* A child is below its parent.
LEMMA KidIsInside ==
  ASSUME NEW t, NEW r, NEW lo, NEW hi, NEW h, NEW up, Skeleton(t, r, lo, hi, h, up),
         NEW n \in Inners(t), NEW i \in 1 .. Len(t[n].kids)
  PROVE  /\ t[n].kids[i] \in Alive(t) /\ up[t[n].kids[i]] = n /\ Inside(lo, hi, h, t[n].kids[i], n)
         /\ i > 1 => lo[n] < lo[t[n].kids[i]]
         /\ i < Len(t[n].kids) => hi[t[n].kids[i]] < hi[n]
<1> DEFINE kids == t[n].kids
           m == Len(kids)
<1>1. /\ Family(kids, n, Alive(t), lo, hi, h, up) /\ m \in Nat /\ m >= 2
      /\ \A j \in 1 .. m : kids[j] \in Alive(t) /\ lo[kids[j]] < hi[kids[j]] /\ lo[kids[j]] \in Int /\ hi[kids[j]] \in Int /\ h[kids[j]] \in Nat
      /\ lo[n] \in Int /\ hi[n] \in Int /\ h[n] \in Nat
  <2>1. t \in Trees /\ Family(kids, n, Alive(t), lo, hi, h, up) /\ n \in NodeIds
      BY AliveIs DEF Skeleton
  <2>2. m \in Nat /\ m >= 2
      BY <2>1, KidsAre DEF Family
  <2>3. \A j \in 1 .. m : kids[j] \in Alive(t) /\ kids[j] \in NodeIds /\ lo[kids[j]] < hi[kids[j]]
      BY <2>1, AliveIs DEF Skeleton, Family
  <2> HIDE DEF kids, m
  <2> QED
      BY <2>1, <2>2, <2>3 DEF Skeleton, Ghosts
<1> HIDE DEF kids
<1>2. i \in 1 .. m /\ i \in Nat
    BY DEF kids
<1>3. i > 1 => lo[n] < lo[kids[i]]
    BY <1>1, <1>2 DEF Family
<1>4. i = 1 => lo[n] = lo[kids[i]]
    BY <1>1, <1>2 DEF Family
<1>5. i < m => hi[kids[i]] < hi[n]
  <2> SUFFICES ASSUME i < m PROVE hi[kids[i]] < hi[n]
      OBVIOUS
  <2>1. i + 1 \in 1 .. m /\ m \in 1 .. m /\ i \in 1 .. m - 1
      BY <1>1, <1>2
  <2>2. hi[kids[i]] = lo[kids[i + 1]] /\ lo[kids[i + 1]] <= lo[kids[m]]
    <3>1. i + 1 = m \/ i + 1 < m
        BY <1>1, <2>1
    <3>2. hi[kids[i]] = lo[kids[i + 1]]
        BY <1>1, <2>1 DEF Family
    <3>3. i + 1 < m => lo[kids[i + 1]] < lo[kids[m]]
        BY <1>1, <2>1 DEF Family
    <3>4. lo[kids[i + 1]] \in Int /\ lo[kids[m]] \in Int
        BY ONLY <1>1, <2>1
    <3> QED
        BY ONLY <3>1, <3>2, <3>3, <3>4
  <2> QED
      BY <1>1, <2>1, <2>2 DEF Family
<1>6. i = m => hi[kids[i]] = hi[n]
    BY <1>1 DEF Family
<1>7. kids[i] \in Alive(t) /\ up[kids[i]] = n /\ h[kids[i]] < h[n]
    BY <1>1, <1>2 DEF Family
<1> QED
    BY <1>1, <1>2, <1>3, <1>4, <1>5, <1>6, <1>7 DEF Inside, kids
\* One child serves what the node serves.
LEMMA KidCovers ==
  ASSUME NEW t, NEW r, NEW lo, NEW hi, NEW h, NEW up, Skeleton(t, r, lo, hi, h, up),
         NEW n \in Inners(t), NEW k \in Int, Covers(lo, hi, n, k)
  PROVE  \E i \in 1 .. Len(t[n].kids) : /\ Covers(lo, hi, t[n].kids[i], k)
                                        /\ \A j \in 1 .. Len(t[n].kids) : Covers(lo, hi, t[n].kids[j], k) => j = i
<1> DEFINE kids == t[n].kids
           m == Len(kids)
           C == {i \in 1 .. m : k < hi[kids[i]]}
<1>1. /\ Family(kids, n, Alive(t), lo, hi, h, up) /\ m \in Nat /\ m >= 2
      /\ \A j \in 1 .. m : kids[j] \in NodeIds /\ lo[kids[j]] \in Int /\ hi[kids[j]] \in Int
      /\ lo[n] \in Int /\ hi[n] \in Int
  <2>1. t \in Trees /\ Family(kids, n, Alive(t), lo, hi, h, up) /\ n \in NodeIds
      BY AliveIs DEF Skeleton
  <2>2. m \in Nat /\ m >= 2
      BY <2>1, KidsAre DEF Family
  <2>3. \A j \in 1 .. m : kids[j] \in NodeIds
      BY <2>1, KidsAre
  <2> HIDE DEF kids, m
  <2> QED
      BY <2>1, <2>2, <2>3 DEF Skeleton, Ghosts
<1> HIDE DEF kids
<1>2. C \in SUBSET (1 .. m) /\ m \in C
    BY <1>1 DEF Family, Covers
<1>3. PICK i \in C : \A j \in C : i <= j
  <2> HIDE DEF C
  <2> QED
      BY <1>1, <1>2, LeastNumber
<1>4. i \in 1 .. m /\ k < hi[kids[i]] /\ \A j \in 1 .. m : j < i => hi[kids[j]] <= k
  <2>1. \A j \in 1 .. m : j < i => ~(k < hi[kids[j]])
      BY <1>1, <1>3
  <2> QED
      BY <1>1, <1>3, <2>1
<1>5. lo[kids[i]] <= k
  <2>1. CASE i = 1
      BY <1>1, <2>1 DEF Family, Covers
  <2>2. CASE i # 1
    <3>1. i - 1 \in 1 .. m - 1 /\ (i - 1) + 1 = i /\ i - 1 < i
        BY <1>1, <1>4, <2>2
    <3>2. hi[kids[i - 1]] = lo[kids[i]]
      <4>1. hi[kids[i - 1]] = lo[kids[(i - 1) + 1]]
          BY <1>1, <3>1 DEF Family
      <4> QED
          BY <3>1, <4>1
    <3> QED
        BY <1>1, <1>4, <3>1, <3>2
  <2> QED
      BY <2>1, <2>2
<1>6. ASSUME NEW j \in 1 .. m, Covers(lo, hi, kids[j], k) PROVE j = i
  <2>1. ~(j < i)
      BY <1>1, <1>4, <1>6 DEF Covers
  <2>2. ASSUME i < j PROVE FALSE
    <3>1. i \in 1 .. m - 1 /\ i + 1 \in 1 .. m /\ (i + 1 < j \/ i + 1 = j)
        BY <1>1, <1>4, <2>2
    <3>2. lo[kids[i + 1]] <= lo[kids[j]] /\ lo[kids[i + 1]] = hi[kids[i]]
        BY <1>1, <3>1 DEF Family
    <3> QED
        BY <1>1, <1>4, <1>6, <3>1, <3>2 DEF Covers
  <2> QED
      BY <1>1, <1>4, <2>1, <2>2
<1> QED
    BY <1>4, <1>5, <1>6 DEF Covers, kids

-----------------------------------------------------------------------------
(* The ways down: the nodes that serve k lie on one way.                   *)

Way(t, r, lo, hi, up, k, p) ==
  /\ p \in Seq(NodeIds) /\ Len(p) >= 1 /\ p[1] = r
  /\ \A i \in 1 .. Len(p) : p[i] \in Alive(t) /\ Covers(lo, hi, p[i], k)
  /\ \A i \in 1 .. Len(p) - 1 : p[i] \in Inners(t) /\ up[p[i + 1]] = p[i]

LEMMA InsideTwice ==
  ASSUME NEW lo, NEW hi, NEW h, NEW a, NEW b, NEW c,
         \A x \in {a, b, c} : lo[x] \in Int /\ hi[x] \in Int /\ h[x] \in Nat,
         Inside(lo, hi, h, c, b), Inside(lo, hi, h, b, a)
  PROVE  Inside(lo, hi, h, c, a)
<1>1. /\ lo[a] \in Int /\ lo[b] \in Int /\ lo[c] \in Int /\ hi[a] \in Int /\ hi[b] \in Int /\ hi[c] \in Int
      /\ h[a] \in Nat /\ h[b] \in Nat /\ h[c] \in Nat
    OBVIOUS
<1> QED
    BY <1>1 DEF Inside

LEMMA WayGoesDown ==
  ASSUME NEW t, NEW r, NEW lo, NEW hi, NEW h, NEW up, Skeleton(t, r, lo, hi, h, up),
         NEW k \in Int, NEW p, Way(t, r, lo, hi, up, k, p)
  PROVE  /\ Len(p) \in Nat
         /\ \A i \in 1 .. Len(p) - 1 : Inside(lo, hi, h, p[i + 1], p[i])
         /\ \A i, j \in 1 .. Len(p) : i < j => Inside(lo, hi, h, p[j], p[i])
<1>1. Len(p) \in Nat /\ \A i \in 1 .. Len(p) : p[i] \in Alive(t) /\ p[i] \in NodeIds
    BY LenProperties, AliveIs DEF Way
<1>2. \A i \in 1 .. Len(p) : lo[p[i]] \in Int /\ hi[p[i]] \in Int /\ h[p[i]] \in Nat
    BY <1>1 DEF Skeleton, Ghosts
<1>3. ASSUME NEW i \in 1 .. Len(p) - 1 PROVE Inside(lo, hi, h, p[i + 1], p[i])
  <2>1. i + 1 \in 1 .. Len(p) /\ i \in 1 .. Len(p)
      BY <1>1
  <2>2. p[i] \in Inners(t) /\ up[p[i + 1]] = p[i] /\ p[i + 1] \in Alive(t)
      BY <1>1, <2>1 DEF Way
  <2>3. p[i + 1] # r
      BY <2>2, AliveIs, SmallFacts DEF Skeleton
  <2>4. PICK j \in 1 .. Len(t[p[i]].kids) : t[p[i]].kids[j] = p[i + 1]
      BY <2>2, <2>3 DEF Skeleton, IsKid
  <2> QED
      BY <2>2, <2>4, KidIsInside
<1> DEFINE T == {d \in Nat : \A i \in 1 .. Len(p) : i + d + 1 \in 1 .. Len(p) => Inside(lo, hi, h, p[i + d + 1], p[i])}
<1>4. 0 \in T
  <2>1. ASSUME NEW i \in 1 .. Len(p), i + 0 + 1 \in 1 .. Len(p) PROVE Inside(lo, hi, h, p[i + 0 + 1], p[i])
    <3>1. i \in 1 .. Len(p) - 1 /\ i + 0 + 1 = i + 1
        BY <1>1, <2>1
    <3> QED
        BY <1>3, <3>1
  <2> QED
      BY <2>1
<1>5. ASSUME NEW d \in Nat, d \in T PROVE d + 1 \in T
  <2>1. ASSUME NEW i \in 1 .. Len(p), i + (d + 1) + 1 \in 1 .. Len(p)
        PROVE  Inside(lo, hi, h, p[i + (d + 1) + 1], p[i])
    <3> DEFINE a == i + d + 1
    <3>1. a \in 1 .. Len(p) /\ a \in 1 .. Len(p) - 1 /\ i + (d + 1) + 1 = a + 1 /\ a + 1 \in 1 .. Len(p)
        BY <1>1, <2>1
    <3>2. Inside(lo, hi, h, p[a], p[i])
        BY <1>5, <3>1
    <3>3. Inside(lo, hi, h, p[a + 1], p[a])
        BY <1>3, <3>1
    <3> HIDE DEF a
    <3>4. Inside(lo, hi, h, p[a + 1], p[i])
        BY <1>2, <3>1, <3>2, <3>3, InsideTwice
    <3> QED
        BY <3>1, <3>4
  <2> QED
      BY <2>1
<1>6. \A d \in Nat : d \in T
  <2> HIDE DEF T
  <2> QED
      BY <1>4, <1>5, AllNumbers
<1>7. ASSUME NEW i \in 1 .. Len(p), NEW j \in 1 .. Len(p), i < j PROVE Inside(lo, hi, h, p[j], p[i])
  <2>1. j - i - 1 \in Nat /\ i + (j - i - 1) + 1 = j
      BY <1>1, <1>7
  <2> QED
      BY <1>6, <2>1
<1> QED
    BY <1>1, <1>3, <1>7

\* No way is longer than there are nodes.
LEMMA WayIsShort ==
  ASSUME NEW t, NEW r, NEW lo, NEW hi, NEW h, NEW up, Skeleton(t, r, lo, hi, h, up),
         NEW k \in Int, NEW p, Way(t, r, lo, hi, up, k, p)
  PROVE  Len(p) <= Cardinality(NodeIds)
<1>1. Len(p) \in Nat /\ \A i \in 1 .. Len(p) : p[i] \in NodeIds /\ h[p[i]] \in Nat
    BY LenProperties, AliveIs DEF Way, Skeleton, Ghosts
<1>2. \A i, j \in 1 .. Len(p) : i < j => Inside(lo, hi, h, p[j], p[i])
    BY WayGoesDown
<1> DEFINE f == [i \in 1 .. Len(p) |-> p[i]]
<1>3. f \in Injection(1 .. Len(p), NodeIds)
  <2>1. \A i, j \in 1 .. Len(p) : f[i] = f[j] => i = j
    <3> TAKE i, j \in 1 .. Len(p)
    <3>1. i < j => h[p[j]] < h[p[i]]
        BY <1>2 DEF Inside
    <3>2. j < i => h[p[i]] < h[p[j]]
        BY <1>2 DEF Inside
    <3>3. i < j \/ j < i \/ i = j
        BY <1>1
    <3> QED
        BY <1>1, <3>1, <3>2, <3>3
  <2>2. f \in [1 .. Len(p) -> NodeIds]
      BY <1>1
  <2> QED
      BY <2>1, <2>2 DEF Injection, IsInjective
<1>4. IsFiniteSet(1 .. Len(p)) /\ Cardinality(1 .. Len(p)) = Len(p)
  <2>1. \A m \in Nat : IsFiniteSet(1 .. m) /\ Cardinality(1 .. m) = m
      BY FS_Interval
  <2> QED
      BY <1>1, <2>1
<1> HIDE DEF f
<1>5. Cardinality(1 .. Len(p)) <= Cardinality(NodeIds)
    BY <1>3, <1>4, SmallFacts, FS_Injection
<1> QED
    BY <1>4, <1>5

LEMMA WayGoesOn ==
  ASSUME NEW t, NEW r, NEW lo, NEW hi, NEW h, NEW up, Skeleton(t, r, lo, hi, h, up),
         NEW k \in Int, NEW p, Way(t, r, lo, hi, up, k, p), p[Len(p)] \in Inners(t),
         NEW i \in 1 .. Len(t[p[Len(p)]].kids), Covers(lo, hi, t[p[Len(p)]].kids[i], k)
  PROVE  /\ Way(t, r, lo, hi, up, k, Append(p, t[p[Len(p)]].kids[i]))
         /\ Len(Append(p, t[p[Len(p)]].kids[i])) = Len(p) + 1
         /\ Append(p, t[p[Len(p)]].kids[i])[Len(p) + 1] = t[p[Len(p)]].kids[i]
<1> DEFINE c == t[p[Len(p)]].kids[i]
           q == Append(p, c)
<1>1. c \in Alive(t) /\ c \in NodeIds /\ up[c] = p[Len(p)]
    BY KidIsInside, AliveIs
<1> HIDE DEF c
<1>2. p \in Seq(NodeIds) /\ Len(p) \in Nat
    BY LenProperties DEF Way
<1>3. q \in Seq(NodeIds) /\ Len(q) = Len(p) + 1 /\ q[Len(p) + 1] = c /\ \A j \in 1 .. Len(p) : q[j] = p[j]
    BY <1>1, <1>2, AppendProperties
<1> HIDE DEF q
<1>4. ASSUME NEW j \in 1 .. Len(q) PROVE q[j] \in Alive(t) /\ Covers(lo, hi, q[j], k)
  <2>1. j = Len(p) + 1 \/ j \in 1 .. Len(p)
      BY <1>2, <1>3
  <2> QED
      BY <1>1, <1>3, <2>1 DEF Way, c
<1>5. ASSUME NEW j \in 1 .. Len(q) - 1 PROVE q[j] \in Inners(t) /\ up[q[j + 1]] = q[j]
  <2>1. j = Len(p) \/ (j \in 1 .. Len(p) - 1 /\ j + 1 \in 1 .. Len(p))
      BY <1>2, <1>3
  <2>2. j \in 1 .. Len(p) /\ q[j] = p[j]
      BY <1>2, <1>3
  <2> QED
      BY <1>1, <1>3, <2>1, <2>2 DEF Way
<1>6. q[1] = r /\ Len(q) >= 1
    BY <1>2, <1>3 DEF Way
<1> QED
    BY <1>3, <1>4, <1>5, <1>6 DEF Way, q, c

LEMMA WayStarts ==
  ASSUME NEW t, NEW r, NEW lo, NEW hi, NEW h, NEW up, Skeleton(t, r, lo, hi, h, up),
         NEW k, Covers(lo, hi, r, k)
  PROVE  Way(t, r, lo, hi, up, k, <<r>>) /\ Len(<<r>>) = 1
<1>1. r \in Alive(t) /\ r \in NodeIds
    BY AliveIs DEF Skeleton
<1>2. <<r>> \in Seq(NodeIds) /\ Len(<<r>>) = 1 /\ <<r>>[1] = r
    BY <1>1
<1> QED
    BY <1>1, <1>2 DEF Way

LEMMA WayExists ==
  ASSUME NEW t, NEW r, NEW lo, NEW hi, NEW h, NEW up, Skeleton(t, r, lo, hi, h, up),
         NEW k \in Int, Covers(lo, hi, r, k)
  PROVE  \E p : Way(t, r, lo, hi, up, k, p) /\ p[Len(p)] \in Leaves(t)
<1> DEFINE OK(p) == Way(t, r, lo, hi, up, k, p)
           T == {d \in Nat : \E p : OK(p) /\ (p[Len(p)] \in Leaves(t) \/ Len(p) = d + 1)}
<1>1. 0 \in T
  <2>1. OK(<<r>>) /\ Len(<<r>>) = 0 + 1
      BY WayStarts
  <2> QED
      BY <2>1
<1>2. ASSUME NEW d \in Nat, d \in T PROVE d + 1 \in T
  <2>1. PICK p : OK(p) /\ (p[Len(p)] \in Leaves(t) \/ Len(p) = d + 1)
      BY <1>2
  <2>2. CASE p[Len(p)] \in Leaves(t)
      BY <2>1, <2>2
  <2>3. CASE p[Len(p)] \notin Leaves(t)
    <3>1. Len(p) \in Nat /\ Len(p) \in 1 .. Len(p)
        BY <2>1, WayGoesDown DEF Way
    <3>2. p[Len(p)] \in Alive(t) /\ Covers(lo, hi, p[Len(p)], k) /\ t \in Trees
        BY <2>1, <3>1 DEF Way, Skeleton
    <3>3. p[Len(p)] \in Inners(t)
        BY <2>3, <3>2, KindsAre, AliveIs
    <3>4. PICK i \in 1 .. Len(t[p[Len(p)]].kids) : Covers(lo, hi, t[p[Len(p)]].kids[i], k)
        BY <3>2, <3>3, KidCovers
    <3> DEFINE q == Append(p, t[p[Len(p)]].kids[i])
    <3>5. OK(q) /\ Len(q) = Len(p) + 1
        BY <2>1, <3>3, <3>4, WayGoesOn
    <3>6. Len(q) = (d + 1) + 1
        BY <2>1, <2>3, <3>5
    <3> HIDE DEF q
    <3> QED
        BY <3>5, <3>6
  <2> QED
      BY <2>2, <2>3
<1>3. \A d \in Nat : d \in T
  <2> HIDE DEF T
  <2> QED
      BY <1>1, <1>2, AllNumbers
<1>4. PICK p : OK(p) /\ (p[Len(p)] \in Leaves(t) \/ Len(p) = Cardinality(NodeIds) + 1)
    BY <1>3, SmallFacts
<1>5. Len(p) <= Cardinality(NodeIds)
    BY <1>4, WayIsShort
<1> QED
    BY <1>4, <1>5, SmallFacts

LEMMA Highest ==
  ASSUME NEW C \in SUBSET NodeIds, C # {}, NEW h \in [NodeIds -> Nat]
  PROVE  \E n \in C : \A m \in C : h[m] <= h[n]
<1> DEFINE H == {h[n] : n \in C}
           same == [x \in H |-> x]
<1>1. IsFiniteSet(H)
  <2>1. IsFiniteSet(C)
      BY SmallFacts, FS_Subset
  <2> DEFINE g == [n \in C |-> h[n]]
  <2>2. g \in Surjection(C, H)
      BY DEF Surjection
  <2> HIDE DEF g, H
  <2> QED
      BY <2>1, <2>2, FS_Surjection
<1>2. H # {} /\ \A x \in H : x \in Int /\ same[x] = x
    OBVIOUS
<1> HIDE DEF same
<1>3. Orders(same, H)
  <2> HIDE DEF H
  <2> QED
      BY <1>1, <1>2 DEF Orders
<1>4. \E x \in H : \A y \in H : same[y] <= same[x]
  <2> HIDE DEF H
  <2> QED
      BY <1>2, <1>3, EndsExist
<1>5. PICK x \in H : \A y \in H : y <= x
    BY <1>2, <1>4
<1> QED
    BY <1>5

\* Every node that serves k is on the way.
LEMMA WayHasAll ==
  ASSUME NEW t, NEW r, NEW lo, NEW hi, NEW h, NEW up, Skeleton(t, r, lo, hi, h, up),
         NEW k \in Int, NEW p, Way(t, r, lo, hi, up, k, p), p[Len(p)] \in Leaves(t),
         NEW c \in Alive(t), Covers(lo, hi, c, k)
  PROVE  \E i \in 1 .. Len(p) : p[i] = c
<1> DEFINE C == {n \in Alive(t) : Covers(lo, hi, n, k) /\ \A i \in 1 .. Len(p) : p[i] # n}
<1> SUFFICES ASSUME C # {} PROVE FALSE
    OBVIOUS
<1>1. PICK n \in C : \A m \in C : h[m] <= h[n]
  <2>1. C \in SUBSET NodeIds /\ h \in [NodeIds -> Nat]
      BY AliveIs DEF Skeleton, Ghosts
  <2> HIDE DEF C
  <2> QED
      BY <2>1, Highest
<1>2. Len(p) \in Nat /\ 1 \in 1 .. Len(p) /\ p[1] = r
    BY WayGoesDown DEF Way
<1>3. n # r /\ n \in Alive(t) /\ Covers(lo, hi, n, k)
    BY <1>1, <1>2
<1>4. up[n] \in Inners(t) /\ IsKid(t, up[n], n)
    BY <1>3 DEF Skeleton
<1> DEFINE u == up[n]
<1>5. PICK j \in 1 .. Len(t[u].kids) : t[u].kids[j] = n
    BY <1>4 DEF IsKid
<1>6. Inside(lo, hi, h, n, u)
    BY <1>4, <1>5, KidIsInside
<1>7. /\ lo[n] \in Int /\ hi[n] \in Int /\ h[n] \in Nat /\ lo[u] \in Int /\ hi[u] \in Int /\ h[u] \in Nat
      /\ u \in Alive(t) /\ t \in Trees
    BY <1>3, <1>4, KindsAre, AliveIs DEF Skeleton, Ghosts
<1>8. Covers(lo, hi, u, k) /\ h[n] < h[u]
  <2> HIDE DEF u
  <2> QED
      BY <1>3, <1>6, <1>7 DEF Inside, Covers
<1>9. PICK i \in 1 .. Len(p) : p[i] = u
  <2>1. u \notin C
      BY <1>1, <1>7, <1>8
  <2> QED
      BY <1>7, <1>8, <2>1
<1>10. i # Len(p)
    BY <1>4, <1>7, <1>9, KindsAre, AliveIs
<1>11. i \in 1 .. Len(p) - 1 /\ i + 1 \in 1 .. Len(p)
    BY <1>2, <1>10
<1>12. up[p[i + 1]] = u /\ p[i + 1] \in Alive(t) /\ Covers(lo, hi, p[i + 1], k)
    BY <1>9, <1>11 DEF Way
<1>13. p[i + 1] # r
    BY <1>7, <1>12, AliveIs, SmallFacts DEF Skeleton
<1>14. PICK m \in 1 .. Len(t[u].kids) : t[u].kids[m] = p[i + 1]
    BY <1>12, <1>13 DEF Skeleton, IsKid
<1>15. n = p[i + 1]
    BY <1>3, <1>4, <1>5, <1>8, <1>12, <1>14, KidCovers
<1> QED
    BY <1>1, <1>11, <1>15

\* Of two nodes that serve k one is below the other, under a child of it.
LEMMA TwoNodes ==
  ASSUME NEW t, NEW r, NEW lo, NEW hi, NEW h, NEW up, Skeleton(t, r, lo, hi, h, up),
         NEW k \in Int, Covers(lo, hi, r, k),
         NEW c \in Alive(t), NEW d \in Alive(t), c # d, Covers(lo, hi, c, k), Covers(lo, hi, d, k)
  PROVE  \E x, y \in {c, d} :
           /\ x # y /\ x \in Inners(t) /\ Inside(lo, hi, h, y, x)
           /\ \E i \in 1 .. Len(t[x].kids) :
                Covers(lo, hi, t[x].kids[i], k) /\ (y = t[x].kids[i] \/ Inside(lo, hi, h, y, t[x].kids[i]))
<1>1. PICK p : Way(t, r, lo, hi, up, k, p) /\ p[Len(p)] \in Leaves(t)
    BY WayExists
<1>2. PICK i \in 1 .. Len(p), j \in 1 .. Len(p) : p[i] = c /\ p[j] = d
    BY <1>1, WayHasAll
<1>3. Len(p) \in Nat /\ \A a, b \in 1 .. Len(p) : a < b => Inside(lo, hi, h, p[b], p[a])
    BY <1>1, WayGoesDown
<1>4. ASSUME NEW a \in 1 .. Len(p), NEW b \in 1 .. Len(p), a < b
      PROVE  /\ p[a] \in Inners(t) /\ Inside(lo, hi, h, p[b], p[a])
             /\ \E m \in 1 .. Len(t[p[a]].kids) : /\ Covers(lo, hi, t[p[a]].kids[m], k)
                  /\ (p[b] = t[p[a]].kids[m] \/ Inside(lo, hi, h, p[b], t[p[a]].kids[m]))
  <2>1. a \in 1 .. Len(p) - 1 /\ a + 1 \in 1 .. Len(p) /\ (b = a + 1 \/ a + 1 < b)
      BY <1>3, <1>4
  <2>2. p[a] \in Inners(t) /\ up[p[a + 1]] = p[a] /\ p[a + 1] \in Alive(t) /\ Covers(lo, hi, p[a + 1], k)
      BY <1>1, <2>1 DEF Way
  <2>3. p[a + 1] # r
      BY <2>2, AliveIs, SmallFacts DEF Skeleton
  <2>4. PICK m \in 1 .. Len(t[p[a]].kids) : t[p[a]].kids[m] = p[a + 1]
      BY <2>2, <2>3 DEF Skeleton, IsKid
  <2> QED
      BY <1>3, <1>4, <2>1, <2>2, <2>4
<1>5. i < j \/ j < i
    BY <1>2, <1>3
<1>6. CASE i < j
    BY <1>2, <1>4, <1>6
<1>7. CASE j < i
    BY <1>2, <1>4, <1>7
<1> QED
    BY <1>5, <1>6, <1>7

\* The root serves whatever a node serves.
LEMMA RootCovers ==
  ASSUME NEW t, NEW r, NEW lo, NEW hi, NEW h, NEW up, Skeleton(t, r, lo, hi, h, up), NEW c \in Alive(t)
  PROVE  lo[r] <= lo[c] /\ hi[c] <= hi[r] /\ h[c] <= h[r]
<1> DEFINE C == {n \in Alive(t) : ~(lo[r] <= lo[n] /\ hi[n] <= hi[r] /\ h[n] <= h[r])}
<1> SUFFICES ASSUME C # {} PROVE FALSE
    OBVIOUS
<1>1. PICK n \in C : \A m \in C : h[m] <= h[n]
  <2>1. C \in SUBSET NodeIds /\ h \in [NodeIds -> Nat]
      BY AliveIs DEF Skeleton, Ghosts
  <2> HIDE DEF C
  <2> QED
      BY <2>1, Highest
<1>2. \A m \in Alive(t) : m \in NodeIds /\ lo[m] \in Int /\ hi[m] \in Int /\ h[m] \in Nat
    BY AliveIs DEF Skeleton, Ghosts
<1>3. r \in Alive(t) /\ n \in Alive(t) /\ n # r
    BY <1>1, <1>2 DEF Skeleton
<1>4. up[n] \in Inners(t) /\ IsKid(t, up[n], n)
    BY <1>3 DEF Skeleton
<1>5. Inside(lo, hi, h, n, up[n]) /\ up[n] \in Alive(t)
  <2>1. PICK i \in 1 .. Len(t[up[n]].kids) : t[up[n]].kids[i] = n
      BY <1>4 DEF IsKid
  <2>2. Inside(lo, hi, h, t[up[n]].kids[i], up[n])
      BY <1>4, KidIsInside
  <2>3. t \in Trees
      BY DEF Skeleton
  <2> QED
      BY <1>4, <2>1, <2>2, <2>3, KindsAre, AliveIs
<1>6. up[n] \notin C
    BY <1>1, <1>2, <1>3, <1>5 DEF Inside
<1> QED
    BY <1>1, <1>2, <1>3, <1>5, <1>6 DEF Inside

\* Leaf m is the node below all others that serve what it serves.
LEMMA LeafIsLowest ==
  ASSUME NEW t, NEW r, NEW lo, NEW hi, NEW h, NEW up, Skeleton(t, r, lo, hi, h, up),
         NEW m \in Leaves(t), NEW c \in Alive(t), c # m, NEW k \in Int, Covers(lo, hi, m, k), Covers(lo, hi, c, k)
  PROVE  c \in Inners(t) /\ Inside(lo, hi, h, m, c)
<1>1. m \in Alive(t) /\ m \notin Inners(t) /\ r \in Alive(t)
    BY KindsAre, AliveIs DEF Skeleton
<1>2. Covers(lo, hi, r, k)
  <2>1. lo[r] \in Int /\ hi[r] \in Int /\ lo[m] \in Int /\ hi[m] \in Int
      BY <1>1, AliveIs DEF Skeleton, Ghosts
  <2> QED
      BY <1>1, <2>1, RootCovers DEF Covers
<1>3. PICK x, y \in {c, m} : x # y /\ x \in Inners(t) /\ Inside(lo, hi, h, y, x)
    BY <1>1, <1>2, TwoNodes
<1> QED
    BY <1>1, <1>3

\* A node begins where a leaf begins, and ends where a leaf ends.
LEMMA EdgeLeaves ==
  ASSUME NEW t, NEW r, NEW lo, NEW hi, NEW h, NEW up, Skeleton(t, r, lo, hi, h, up), NEW n \in Alive(t)
  PROVE  /\ \E m \in Leaves(t) : lo[m] = lo[n] /\ hi[m] <= hi[n] /\ (m = n \/ Inside(lo, hi, h, m, n))
         /\ \E m \in Leaves(t) : hi[m] = hi[n] /\ lo[n] <= lo[m]
<1>1. \A m \in Alive(t) : m \in NodeIds /\ lo[m] \in Int /\ hi[m] \in Int /\ h[m] \in Nat /\ lo[m] < hi[m]
    BY AliveIs DEF Skeleton, Ghosts
<1>2. ASSUME NEW k \in Int, Covers(lo, hi, n, k)
      PROVE  \E m \in Leaves(t) : m \in Alive(t) /\ Covers(lo, hi, m, k) /\ (m = n \/ Inside(lo, hi, h, m, n))
  <2>1. Covers(lo, hi, r, k)
    <3>1. r \in Alive(t) /\ lo[r] <= lo[n] /\ hi[n] <= hi[r]
        BY RootCovers DEF Skeleton
    <3> QED
        BY <1>1, <1>2, <3>1 DEF Covers
  <2>2. PICK p : Way(t, r, lo, hi, up, k, p) /\ p[Len(p)] \in Leaves(t)
      BY <2>1, WayExists
  <2>3. p[Len(p)] \in Alive(t) /\ Covers(lo, hi, p[Len(p)], k)
      BY <2>2, WayGoesDown DEF Way
  <2> QED
      BY <1>2, <2>2, <2>3, LeafIsLowest
<1>3. PICK m \in Leaves(t) : m \in Alive(t) /\ Covers(lo, hi, m, lo[n]) /\ (m = n \/ Inside(lo, hi, h, m, n))
    BY <1>1, <1>2 DEF Covers
<1>4. PICK l \in Leaves(t) : l \in Alive(t) /\ Covers(lo, hi, l, hi[n] - 1) /\ (l = n \/ Inside(lo, hi, h, l, n))
  <2>1. hi[n] - 1 \in Int /\ Covers(lo, hi, n, hi[n] - 1)
      BY <1>1 DEF Covers
  <2> QED
      BY <1>2, <2>1
<1>5. lo[m] = lo[n] /\ hi[m] <= hi[n]
    BY <1>1, <1>3 DEF Covers, Inside
<1>6. hi[l] = hi[n] /\ lo[n] <= lo[l]
    BY <1>1, <1>4 DEF Covers, Inside
<1> QED
    BY <1>3, <1>5, <1>6

\* A child that is not the first one is the highest node that begins there.
LEMMA CutIsTop ==
  ASSUME NEW t, NEW r, NEW lo, NEW hi, NEW h, NEW up, Skeleton(t, r, lo, hi, h, up),
         NEW n \in Inners(t), NEW i \in 2 .. Len(t[n].kids),
         NEW d \in Alive(t), d # t[n].kids[i], lo[d] = lo[t[n].kids[i]]
  PROVE  Inside(lo, hi, h, d, t[n].kids[i])
<1> DEFINE c == t[n].kids[i]
           k == lo[c]
<1>1. \A m \in Alive(t) : m \in NodeIds /\ lo[m] \in Int /\ hi[m] \in Int /\ h[m] \in Nat /\ lo[m] < hi[m]
    BY AliveIs DEF Skeleton, Ghosts
<1>2. i \in 1 .. Len(t[n].kids) /\ i > 1 /\ n \in Alive(t) /\ r \in Alive(t)
    BY KindsAre, AliveIs DEF Skeleton
<1>3. c \in Alive(t) /\ up[c] = n /\ Inside(lo, hi, h, c, n) /\ lo[n] < k
    BY <1>2, KidIsInside
<1>4. Covers(lo, hi, c, k) /\ Covers(lo, hi, d, k) /\ k \in Int
    BY <1>1, <1>3 DEF Covers
<1>5. Covers(lo, hi, n, k)
  <2> HIDE DEF c
  <2> QED
      BY <1>1, <1>2, <1>3, <1>4 DEF Covers, Inside
<1>6. Covers(lo, hi, r, k)
  <2>1. lo[r] <= lo[n] /\ hi[n] <= hi[r]
      BY <1>2, RootCovers
  <2> HIDE DEF c, k
  <2> QED
      BY <1>1, <1>2, <1>4, <1>5, <2>1 DEF Covers
<1>7. n # d
    BY <1>1, <1>2, <1>3
<1>8. PICK x \in {n, d}, y \in {n, d} :
         /\ x # y /\ x \in Inners(t) /\ Inside(lo, hi, h, y, x)
         /\ \E m \in 1 .. Len(t[x].kids) :
              Covers(lo, hi, t[x].kids[m], k) /\ (y = t[x].kids[m] \/ Inside(lo, hi, h, y, t[x].kids[m]))
  <2> HIDE DEF k
  <2> QED
      BY <1>2, <1>4, <1>5, <1>6, <1>7, TwoNodes
<1>9. ~(x = d)
    BY <1>1, <1>2, <1>3, <1>8 DEF Inside
<1>10. x = n /\ y = d
    BY <1>8, <1>9
<1>11. PICK m \in 1 .. Len(t[n].kids) :
         Covers(lo, hi, t[n].kids[m], k) /\ (d = t[n].kids[m] \/ Inside(lo, hi, h, d, t[n].kids[m]))
    BY <1>8, <1>10
<1>12. m = i
  <2>1. \E j \in 1 .. Len(t[n].kids) : \A a \in 1 .. Len(t[n].kids) : Covers(lo, hi, t[n].kids[a], k) => a = j
    <3> HIDE DEF k
    <3> QED
        BY <1>4, <1>5, KidCovers
  <2> QED
      BY <1>2, <1>4, <1>11, <2>1
<1> QED
    BY <1>11, <1>12

LEMMA CutsDiffer ==
  ASSUME NEW t, NEW r, NEW lo, NEW hi, NEW h, NEW up, Skeleton(t, r, lo, hi, h, up),
         NEW n \in Inners(t), NEW i \in 2 .. Len(t[n].kids), NEW m \in Inners(t), NEW j \in 2 .. Len(t[m].kids),
         lo[t[n].kids[i]] = lo[t[m].kids[j]]
  PROVE  n = m /\ i = j
<1> DEFINE c == t[n].kids[i]
           d == t[m].kids[j]
<1>1. i \in 1 .. Len(t[n].kids) /\ j \in 1 .. Len(t[m].kids)
    OBVIOUS
<1>2. c \in Alive(t) /\ up[c] = n /\ d \in Alive(t) /\ up[d] = m
    BY <1>1, KidIsInside
<1>3. h[c] \in Nat /\ h[d] \in Nat
    BY <1>2, AliveIs DEF Skeleton, Ghosts
<1>4. c = d
  <2> SUFFICES ASSUME c # d PROVE FALSE
      OBVIOUS
  <2>1. Inside(lo, hi, h, d, c) /\ Inside(lo, hi, h, c, d)
      BY <1>2, CutIsTop
  <2> QED
      BY <1>3, <2>1 DEF Inside
<1>5. n = m
    BY <1>2, <1>4
<1>6. \A a, b \in 1 .. Len(t[n].kids) : a < b => lo[t[n].kids[a]] < lo[t[n].kids[b]]
    BY DEF Skeleton, Family
<1>7. lo[c] \in Int
    BY <1>2, AliveIs DEF Skeleton, Ghosts
<1>8. ~(i < j) /\ ~(j < i)
    BY <1>1, <1>5, <1>6, <1>7
<1> QED
    BY <1>5, <1>8

\* A leaf is known by where it begins.
LEMMA LeavesDiffer ==
  ASSUME NEW t, NEW r, NEW lo, NEW hi, NEW h, NEW up, Skeleton(t, r, lo, hi, h, up),
         NEW l \in Leaves(t), NEW m \in Leaves(t), NEW k \in Int, Covers(lo, hi, l, k), Covers(lo, hi, m, k)
  PROVE  l = m
<1>1. t \in Trees /\ m \in Alive(t) /\ m \notin Inners(t)
    BY KindsAre, AliveIs DEF Skeleton
<1> QED
    BY <1>1, LeafIsLowest

-----------------------------------------------------------------------------
(* Descending by the separators.                                           *)

\* A separator is the place where a leaf begins.
SepsFit(t, lo) ==
  \A n \in Inners(t) :
    /\ Len(t[n].seps) = Len(t[n].kids) - 1
    /\ \A i \in 1 .. Len(t[n].seps) :
         t[n].seps[i][2] = lo[t[n].kids[i + 1]] /\ t[n].seps[i][1] \in Leaves(t) /\ lo[t[n].seps[i][1]] = t[n].seps[i][2]

LEMMA CountIs ==
  ASSUME NEW n \in Nat, NEW B \in SUBSET (1 .. n), NEW c \in 0 .. n, \A j \in 1 .. n : j \in B <=> j <= c
  PROVE  Cardinality(B) = c /\ IsFiniteSet(B)
<1>1. \A j : j \in B <=> j \in 1 .. c
  <2>1. \A j : j \in 1 .. c <=> j \in 1 .. n /\ j <= c
      OBVIOUS
  <2> QED
      BY <2>1
<1>2. B = 1 .. c
    BY <1>1
<1> QED
    BY <1>2, FS_Interval

\* The separators at most k are those before the child that serves k.
LEMMA SepsBelow ==
  ASSUME NEW t, NEW r, NEW lo, NEW hi, NEW h, NEW up, Skeleton(t, r, lo, hi, h, up), SepsFit(t, lo),
         NEW n \in Inners(t), NEW i \in 1 .. Len(t[n].kids), NEW k \in Int, Covers(lo, hi, t[n].kids[i], k)
  PROVE  /\ AtMost(t[n].seps, k) = i - 1
         /\ lo[t[n].kids[i]] < k \/ i = 1 => LessThan(t[n].seps, k) = i - 1
         /\ \A j \in 1 .. Len(t[n].seps) : t[n].seps[j][2] \in Int /\ (t[n].seps[j][2] <= k <=> j <= i - 1)
<1> DEFINE kids == t[n].kids
           seps == t[n].seps
           m == Len(seps)
           A == {j \in DOMAIN seps : seps[j][2] <= k}
           B == {j \in DOMAIN seps : seps[j][2] < k}
<1>1. /\ m \in Nat /\ Len(kids) = m + 1 /\ DOMAIN seps = 1 .. m
      /\ \A j \in 1 .. m : seps[j][2] = lo[kids[j + 1]]
  <2>1. t \in Trees
      BY DEF Skeleton
  <2>2. seps \in Seq(NodeIds \X Keys) /\ m \in Nat /\ Len(kids) \in Nat
      BY <2>1, KidsAre
  <2>3. DOMAIN seps = 1 .. m
      BY <2>2, LenProperties
  <2>4. Len(kids) = m + 1
      BY <2>2 DEF SepsFit
  <2> QED
      BY <2>2, <2>3, <2>4 DEF SepsFit
<1>2. /\ \A j \in 1 .. m + 1 : lo[kids[j]] \in Int /\ hi[kids[j]] \in Int
      /\ \A a, b \in 1 .. m + 1 : a < b => lo[kids[a]] < lo[kids[b]]
      /\ \A j \in 1 .. m : hi[kids[j]] = lo[kids[j + 1]]
  <2>1. Family(kids, n, Alive(t), lo, hi, h, up)
      BY DEF Skeleton
  <2>2. \A j \in 1 .. m + 1 : kids[j] \in NodeIds
      BY <1>1, <2>1, AliveIs DEF Family
  <2>3. lo \in [NodeIds -> Int] /\ hi \in [NodeIds -> Int]
      BY DEF Skeleton, Ghosts
  <2>4. (m + 1) - 1 = m /\ Len(kids) = m + 1
      BY <1>1
  <2> HIDE DEF kids, m
  <2> QED
      BY <2>1, <2>2, <2>3, <2>4 DEF Family
<1>3. i \in 1 .. m + 1 /\ lo[kids[i]] <= k /\ k < hi[kids[i]]
    BY <1>1 DEF Covers
<1> HIDE DEF kids, seps, m
<1>4. ASSUME NEW j \in 1 .. m, j <= i - 1 PROVE seps[j][2] <= lo[kids[i]] /\ seps[j][2] \in Int
  <2>1. j + 1 \in 1 .. m + 1 /\ (j + 1 = i \/ j + 1 < i)
      BY <1>1, <1>3, <1>4
  <2>2. seps[j][2] = lo[kids[j + 1]] /\ lo[kids[j + 1]] \in Int /\ lo[kids[i]] \in Int
      BY <1>1, <1>2, <1>3, <2>1
  <2>3. j + 1 < i => lo[kids[j + 1]] < lo[kids[i]]
      BY <1>2, <1>3, <2>1
  <2> QED
      BY <2>1, <2>2, <2>3
<1>5. ASSUME NEW j \in 1 .. m, ~(j <= i - 1) PROVE seps[j][2] >= hi[kids[i]] /\ seps[j][2] \in Int
  <2>1. j + 1 \in 1 .. m + 1 /\ i \in 1 .. m /\ i + 1 \in 1 .. m + 1 /\ (j + 1 = i + 1 \/ i + 1 < j + 1)
      BY <1>1, <1>3, <1>5
  <2>2. seps[j][2] = lo[kids[j + 1]] /\ hi[kids[i]] = lo[kids[i + 1]]
      BY <1>1, <1>2, <2>1
  <2> QED
      BY <1>2, <2>1, <2>2
<1>6. \A j \in 1 .. m : seps[j][2] \in Int /\ (seps[j][2] <= k <=> j <= i - 1)
  <2> TAKE j \in 1 .. m
  <2>1. CASE j <= i - 1
      BY <1>2, <1>3, <1>4, <2>1
  <2>2. CASE ~(j <= i - 1)
      BY <1>2, <1>3, <1>5, <2>2
  <2> QED
      BY <2>1, <2>2
<1>7. Cardinality(A) = i - 1
  <2>1. A \in SUBSET (1 .. m) /\ \A j \in 1 .. m : j \in A <=> j <= i - 1
      BY <1>1, <1>6
  <2>2. i - 1 \in 0 .. m
      BY <1>1, <1>3
  <2> HIDE DEF A
  <2> QED
      BY <1>1, <2>1, <2>2, CountIs
<1>8. ASSUME lo[kids[i]] < k \/ i = 1 PROVE Cardinality(B) = i - 1
  <2>1. ASSUME NEW j \in 1 .. m PROVE seps[j][2] < k <=> j <= i - 1
    <3>1. CASE j <= i - 1
      <4>1. i # 1
          BY <1>1, <1>3, <3>1
      <4> QED
          BY <1>2, <1>3, <1>4, <1>8, <3>1, <4>1
    <3>2. CASE ~(j <= i - 1)
        BY <1>2, <1>3, <1>5, <3>2
    <3> QED
        BY <3>1, <3>2
  <2>2. B \in SUBSET (1 .. m) /\ \A j \in 1 .. m : j \in B <=> j <= i - 1
      BY <1>1, <2>1
  <2>3. i - 1 \in 0 .. m
      BY <1>1, <1>3
  <2> HIDE DEF B
  <2> QED
      BY <1>1, <2>2, <2>3, CountIs
<1> QED
    BY <1>6, <1>7, <1>8 DEF AtMost, LessThan, m, kids, seps

\* The child a descent goes on with, and the places of its separators.
LEMMA ChildIs ==
  ASSUME NEW t, NEW r, NEW lo, NEW hi, NEW h, NEW up, Skeleton(t, r, lo, hi, h, up), SepsFit(t, lo),
         NEW n \in Inners(t), NEW k \in Int, Covers(lo, hi, n, k)
  PROVE  \E i \in 1 .. Len(t[n].kids) :
           /\ Covers(lo, hi, t[n].kids[i], k) /\ ChildIn(t, n, k) = t[n].kids[i] /\ AtMost(t[n].seps, k) = i - 1
           /\ t[n].kids[i] \in Alive(t) /\ up[t[n].kids[i]] = n
<1>1. PICK i \in 1 .. Len(t[n].kids) : Covers(lo, hi, t[n].kids[i], k)
    BY KidCovers
<1>2. AtMost(t[n].seps, k) = i - 1 /\ (i - 1) + 1 = i
    BY <1>1, SepsBelow
<1>3. ChildIn(t, n, k) = t[n].kids[i]
    BY <1>2 DEF ChildIn
<1>4. t[n].kids[i] \in Alive(t) /\ up[t[n].kids[i]] = n
    BY KidIsInside
<1> QED
    BY <1>1, <1>2, <1>3, <1>4

\* A function that starts at x0 and goes on by go, in the form the
\* definitions of BTree have.
Iterates(f, X, x0, go) == f \in [Nat -> X] /\ f = [d \in Nat |-> IF d = 0 THEN x0 ELSE go[f[d - 1]]]

LEMMA DescentExists ==
  ASSUME NEW X, NEW x0 \in X, NEW go \in [X -> X]
  PROVE  \E f : Iterates(f, X, x0, go)
<1> DEFINE step == [p \in Nat \X X |-> go[p[2]]]
<1>1. step \in [Nat \X X -> X] /\ \A p \in Nat \X X : step[p] = go[p[2]]
    OBVIOUS
<1> HIDE DEF step
<1>2. PICK f : Recurs(f, X, x0, step)
    BY ONLY <1>1, x0 \in X, RecursionExists
<1>3. f \in [Nat -> X] /\ f[0] = x0 /\ \A n \in Nat : f[n + 1] = step[<<n, f[n]>>]
    BY <1>2 DEF Recurs
<1>4. \A d \in Nat : f[d] = IF d = 0 THEN x0 ELSE go[f[d - 1]]
  <2> TAKE d \in Nat
  <2>1. CASE d = 0
      BY <1>3, <2>1
  <2>2. CASE d # 0
    <3>1. d - 1 \in Nat /\ (d - 1) + 1 = d
        BY <2>2
    <3>2. f[d] = step[<<d - 1, f[d - 1]>>] /\ <<d - 1, f[d - 1]>> \in Nat \X X
        BY <1>3, <3>1
    <3> QED
        BY <1>1, <2>2, <3>2
  <2> QED
      BY <2>1, <2>2
<1> QED
    BY <1>3, <1>4 DEF Iterates

\* PathTo is the way down for k.
LEMMA PathToIs ==
  ASSUME NEW lo, NEW hi, NEW h, NEW up, Skeleton(node, root, lo, hi, h, up), SepsFit(node, lo),
         NEW k \in Int, Covers(lo, hi, root, k)
  PROVE  Way(node, root, lo, hi, up, k, PathTo(k)) /\ FindLeaf(k) \in Leaves(node)
<1> DEFINE Goes(p) == IF IsLeaf(Last(p)) THEN p ELSE Append(p, GetChild(Last(p), k))
           Downs(f) == f = [d \in Nat |-> IF d = 0 THEN <<root>> ELSE Goes(f[d - 1])]
           X == {p \in Seq(NodeIds) : Way(node, root, lo, hi, up, k, p)}
           go == [p \in X |-> Goes(p)]
<1>1. <<root>> \in X /\ Len(<<root>>) = 1
  <2>1. Way(node, root, lo, hi, up, k, <<root>>) /\ Len(<<root>>) = 1
      BY WayStarts
  <2> QED
      BY <2>1 DEF Way
<1>2. ASSUME NEW p \in X
      PROVE  Goes(p) \in X /\ (p[Len(p)] \in Leaves(node) \/ Len(Goes(p)) = Len(p) + 1)
  <2>1. Way(node, root, lo, hi, up, k, p) /\ Len(p) \in Nat /\ Len(p) \in 1 .. Len(p) /\ Last(p) = p[Len(p)]
      BY WayGoesDown DEF Way, Last
  <2>2. p[Len(p)] \in Alive(node) /\ Covers(lo, hi, p[Len(p)], k) /\ node \in Trees
      BY <2>1 DEF Way, Skeleton
  <2>3. CASE IsLeaf(p[Len(p)])
    <3>1. p[Len(p)] \in Leaves(node)
        BY <2>2, <2>3, AliveIs DEF IsLeaf, Leaves
    <3> QED
        BY <2>1, <2>3, <3>1
  <2>4. CASE ~IsLeaf(p[Len(p)])
    <3>1. p[Len(p)] \in Inners(node)
        BY <2>2, <2>4, KindsAre, AliveIs DEF IsLeaf, Leaves
    <3>2. PICK i \in 1 .. Len(node[p[Len(p)]].kids) :
            /\ Covers(lo, hi, node[p[Len(p)]].kids[i], k)
            /\ ChildIn(node, p[Len(p)], k) = node[p[Len(p)]].kids[i]
        BY <2>2, <3>1, ChildIs
    <3>3. Goes(p) = Append(p, node[p[Len(p)]].kids[i])
        BY <2>1, <2>4, <3>2 DEF GetChild, ChildIn
    <3>4. /\ Way(node, root, lo, hi, up, k, Append(p, node[p[Len(p)]].kids[i]))
          /\ Len(Append(p, node[p[Len(p)]].kids[i])) = Len(p) + 1
        BY <2>1, <3>1, <3>2, WayGoesOn
    <3> HIDE DEF Goes
    <3> QED
        BY <3>3, <3>4 DEF Way
  <2> QED
      BY <2>1, <2>3, <2>4
<1> HIDE DEF Goes
<1>3. go \in [X -> X] /\ \A p \in X : go[p] = Goes(p)
    BY <1>2
<1> HIDE DEF X, go
<1>4. PICK f0 : f0 \in [Nat -> X] /\ f0 = [d \in Nat |-> IF d = 0 THEN <<root>> ELSE go[f0[d - 1]]]
  <2>1. \E f : Iterates(f, X, <<root>>, go)
      BY ONLY <1>1, <1>3, DescentExists
  <2> QED
      BY ONLY <2>1, Zenon DEF Iterates
<1>5. Downs(f0)
  <2>1. \A d \in Nat : d # 0 => f0[d - 1] \in X
      BY <1>4
  <2>2. \A d \in Nat : f0[d] = IF d = 0 THEN <<root>> ELSE go[f0[d - 1]]
      BY <1>4, Zenon
  <2>3. \A d \in Nat : f0[d] = IF d = 0 THEN <<root>> ELSE Goes(f0[d - 1])
      BY <1>3, <2>1, <2>2
  <2> QED
      BY <1>4, <2>3
<1> DEFINE Down == CHOOSE f : Downs(f)
<1>6. Downs(Down)
    BY <1>5, Zenon
<1>7. PathTo(k) = Down[Cardinality(NodeIds)]
    BY Zenon DEF PathTo, Goes
<1> HIDE DEF Down
<1>8. Down[0] = <<root>> /\ \A d \in Nat : Down[d + 1] = Goes(Down[d])
  <2>1. \A d \in Nat : Down[d] = IF d = 0 THEN <<root>> ELSE Goes(Down[d - 1])
      BY <1>6
  <2>2. \A d \in Nat : d + 1 \in Nat /\ d + 1 # 0 /\ (d + 1) - 1 = d
      OBVIOUS
  <2> HIDE DEF Downs
  <2> QED
      BY <2>1, <2>2
<1> DEFINE T == {d \in Nat : Down[d] \in X /\ (Down[d][Len(Down[d])] \in Leaves(node) \/ Len(Down[d]) = d + 1)}
<1>9. \A d \in Nat : d \in T
  <2>1. 0 \in T
      BY ONLY <1>1, <1>8
  <2>2. ASSUME NEW d \in Nat, d \in T PROVE d + 1 \in T
    <3> DEFINE p == Down[d]
    <3>1. p \in X /\ (p[Len(p)] \in Leaves(node) \/ Len(p) = d + 1)
        BY <2>2
    <3>2. Down[d + 1] = Goes(p) /\ Goes(p) \in X
        BY <1>2, <1>8, <3>1
    <3> HIDE DEF p
    <3>3. CASE p[Len(p)] \in Leaves(node)
      <4>1. Goes(p) = p
          BY <3>3 DEF Goes, IsLeaf, Leaves, Last
      <4> QED
          BY <3>2, <3>3, <4>1
    <3>4. CASE p[Len(p)] \notin Leaves(node)
      <4>1. Len(Goes(p)) = (d + 1) + 1
          BY <1>2, <3>1, <3>4
      <4> QED
          BY <3>2, <4>1
    <3> QED
        BY <3>3, <3>4
  <2> HIDE DEF T
  <2> QED
      BY <2>1, <2>2, AllNumbers
<1> DEFINE q == Down[Cardinality(NodeIds)]
<1>10. q \in X /\ (q[Len(q)] \in Leaves(node) \/ Len(q) = Cardinality(NodeIds) + 1)
    BY <1>9, SmallFacts
<1> HIDE DEF q
<1>11. Way(node, root, lo, hi, up, k, q)
    BY <1>10 DEF X
<1>12. Len(q) <= Cardinality(NodeIds)
    BY <1>11, WayIsShort
<1>13. q[Len(q)] \in Leaves(node)
    BY <1>10, <1>12, SmallFacts
<1>14. PathTo(k) = q
    BY <1>7 DEF q
<1> QED
    BY <1>11, <1>13, <1>14 DEF FindLeaf, Last

\* One step of a descent through nodes that serve k, and what it does.
Descends(go, X, t, lo, hi, h, k) ==
  /\ go \in [X -> X]
  /\ \A m \in X : /\ m \in Alive(t) /\ Covers(lo, hi, m, k)
                  /\ (m \in Leaves(t) /\ go[m] = m) \/ Inside(lo, hi, h, go[m], m)

Follows(f, go, c) == f[0] = c /\ \A d \in Nat : f[d + 1] = go[f[d]]

\* No descent needs more steps than there are nodes.
LEMMA DescentEnds ==
  ASSUME NEW t, NEW r, NEW lo, NEW hi, NEW h, NEW up, Skeleton(t, r, lo, hi, h, up), NEW k \in Int,
         NEW X, NEW go, Descends(go, X, t, lo, hi, h, k), NEW c \in X,
         NEW f, Follows(f, go, c)
  PROVE  f[Cardinality(NodeIds)] \in X /\ f[Cardinality(NodeIds)] \in Leaves(t)
<1>1. \A m \in X : m \in Alive(t) /\ m \in NodeIds /\ Covers(lo, hi, m, k) /\ h[m] \in Nat /\ go[m] \in X
    BY AliveIs DEF Descends, Skeleton, Ghosts
<1>2. PICK p : Way(t, r, lo, hi, up, k, p) /\ p[Len(p)] \in Leaves(t)
  <2>1. Covers(lo, hi, r, k)
    <3>1. /\ lo[r] <= lo[c] /\ hi[c] <= hi[r] /\ Covers(lo, hi, c, k)
          /\ lo[r] \in Int /\ hi[r] \in Int /\ lo[c] \in Int /\ hi[c] \in Int
        BY <1>1, RootCovers, AliveIs DEF Skeleton, Ghosts
    <3> QED
        BY <3>1 DEF Covers
  <2> QED
      BY <2>1, WayExists
<1>3. Len(p) \in Nat /\ Len(p) <= Cardinality(NodeIds)
    BY <1>2, WayGoesDown, WayIsShort
<1> DEFINE Deep(m, d) == \E i \in 1 .. Len(p) : p[i] = m /\ i > d
           T == {d \in Nat : f[d] \in X /\ (f[d] \in Leaves(t) \/ Deep(f[d], d))}
<1>4. ASSUME NEW m \in X PROVE \E i \in 1 .. Len(p) : p[i] = m
    BY <1>1, <1>2, WayHasAll
<1>5. \A i, j \in 1 .. Len(p) : i < j => h[p[j]] < h[p[i]]
  <2>1. \A i, j \in 1 .. Len(p) : i < j => Inside(lo, hi, h, p[j], p[i])
      BY <1>2, WayGoesDown
  <2> QED
      BY <2>1 DEF Inside
<1>6. \A d \in Nat : d \in T
  <2>1. 0 \in T
    <3>1. PICK i \in 1 .. Len(p) : p[i] = c
        BY <1>4
    <3>2. f[0] = c
        BY DEF Follows
    <3>3. Deep(c, 0)
        BY <1>3, <3>1
    <3> HIDE DEF Deep
    <3> QED
        BY <3>2, <3>3
  <2>2. ASSUME NEW d \in Nat, d \in T PROVE d + 1 \in T
    <3> PICK m, n : m = f[d] /\ n = go[m]
        OBVIOUS
    <3>1. m \in X /\ (m \in Leaves(t) \/ Deep(m, d))
        BY <2>2
    <3>2. f[d + 1] = n
        BY DEF Follows
    <3>3. n \in X /\ ((m \in Leaves(t) /\ n = m) \/ Inside(lo, hi, h, n, m))
        BY <1>1, <3>1 DEF Descends
    <3>4. CASE m \in Leaves(t) /\ n = m
        BY <3>2, <3>3, <3>4
    <3>5. CASE Inside(lo, hi, h, n, m) /\ Deep(m, d)
      <4>1. PICK i \in 1 .. Len(p) : p[i] = m /\ i > d
          BY <3>5
      <4>2. PICK j \in 1 .. Len(p) : p[j] = n
          BY <1>4, <3>3
      <4>3. h[p[j]] < h[p[i]] /\ h[p[i]] \in Nat /\ h[p[j]] \in Nat
          BY <1>1, <3>1, <3>3, <3>5, <4>1, <4>2 DEF Inside
      <4>4. ~(j < i) /\ j # i
          BY <1>5, <4>3
      <4>5. j > d + 1
          BY <1>3, <4>1, <4>4
      <4>6. Deep(n, d + 1)
          BY <4>2, <4>5
      <4> HIDE DEF Deep
      <4> QED
          BY <3>2, <3>3, <4>6
    <3>6. ~(Inside(lo, hi, h, n, m) /\ m \in Leaves(t))
      <4>1. Covers(lo, hi, n, k) /\ Covers(lo, hi, m, k) /\ n \in Alive(t) /\ m \in Alive(t) /\ h[n] \in Nat /\ h[m] \in Nat
          BY <1>1, <3>1, <3>3
      <4>2. ASSUME m \in Leaves(t), n # m PROVE Inside(lo, hi, h, m, n)
          BY <4>1, <4>2, LeafIsLowest
      <4>3. ASSUME Inside(lo, hi, h, n, m), Inside(lo, hi, h, m, n) PROVE FALSE
          BY <4>1, <4>3 DEF Inside
      <4>4. ASSUME Inside(lo, hi, h, n, m) PROVE n # m
          BY <4>1, <4>4 DEF Inside
      <4> QED
          BY <4>2, <4>3, <4>4
    <3> QED
        BY <3>1, <3>3, <3>4, <3>5, <3>6
  <2> HIDE DEF T
  <2> QED
      BY <2>1, <2>2, AllNumbers
<1> PICK e : e = Cardinality(NodeIds)
    OBVIOUS
<1>7. e \in Nat /\ e \in T /\ ~ \E i \in 1 .. Len(p) : i > e
    BY <1>3, <1>6, SmallFacts
<1> QED
    BY <1>7

\* The leaf that begins where c begins.
LEMMA LeftmostIs ==
  ASSUME NEW t, NEW r, NEW lo, NEW hi, NEW h, NEW up, Skeleton(t, r, lo, hi, h, up), NEW c \in Alive(t)
  PROVE  Leftmost(t, c) \in Leaves(t) /\ lo[Leftmost(t, c)] = lo[c]
<1> DEFINE Goes(m) == IF t[m].kind = "leaf" THEN m ELSE t[m].kids[1]
           Downs(f) == f = [d \in Nat |-> IF d = 0 THEN c ELSE Goes(f[d - 1])]
           X == {m \in Alive(t) : lo[m] = lo[c]}
           go == [m \in X |-> Goes(m)]
           k == lo[c]
<1>1. c \in X /\ k \in Int
    BY AliveIs DEF Skeleton, Ghosts
<1>2. ASSUME NEW m \in X
      PROVE  Goes(m) \in X /\ ((m \in Leaves(t) /\ Goes(m) = m) \/ Inside(lo, hi, h, Goes(m), m))
  <2>1. m \in Alive(t) /\ m \in NodeIds /\ t \in Trees /\ lo[m] = lo[c]
      BY AliveIs DEF Skeleton
  <2>2. CASE m \in Leaves(t)
      BY <2>1, <2>2 DEF Leaves
  <2>3. CASE m \in Inners(t)
    <3>1. Goes(m) = t[m].kids[1]
        BY <2>3 DEF Inners
    <3>2. Family(t[m].kids, m, Alive(t), lo, hi, h, up) /\ Len(t[m].kids) \in Nat
        BY <2>1, <2>3, KidsAre DEF Skeleton
    <3>3. 1 \in 1 .. Len(t[m].kids) /\ lo[t[m].kids[1]] = lo[m]
        BY <3>2 DEF Family
    <3>4. t[m].kids[1] \in Alive(t) /\ Inside(lo, hi, h, t[m].kids[1], m)
        BY <2>3, <3>3, KidIsInside
    <3> HIDE DEF Goes
    <3> QED
        BY <2>1, <2>3, <3>1, <3>3, <3>4
  <2> QED
      BY <2>1, <2>2, <2>3, KindsAre
<1> HIDE DEF Goes
<1>3. go \in [X -> X] /\ \A m \in X : go[m] = Goes(m)
    BY <1>2
<1> HIDE DEF go
<1>4. PICK f0 : f0 \in [Nat -> X] /\ f0 = [d \in Nat |-> IF d = 0 THEN c ELSE go[f0[d - 1]]]
  <2> HIDE DEF X
  <2>1. \E f : Iterates(f, X, c, go)
      BY ONLY <1>1, <1>3, DescentExists
  <2> QED
      BY ONLY <2>1, Zenon DEF Iterates
<1>5. Downs(f0)
  <2>1. \A d \in Nat : d # 0 => f0[d - 1] \in X
    <3> HIDE DEF X
    <3> QED
        BY <1>4
  <2>2. \A d \in Nat : f0[d] = IF d = 0 THEN c ELSE go[f0[d - 1]]
      BY <1>4, Zenon
  <2>3. \A d \in Nat : f0[d] = IF d = 0 THEN c ELSE Goes(f0[d - 1])
    <3> HIDE DEF X
    <3> QED
        BY <1>3, <2>1, <2>2
  <2> HIDE DEF X
  <2> QED
      BY <1>4, <2>3
<1> DEFINE Down == CHOOSE f : Downs(f)
<1>6. Downs(Down)
    BY <1>5, Zenon
<1>7. Leftmost(t, c) = Down[Cardinality(NodeIds)]
    BY Zenon DEF Leftmost, Goes
<1> HIDE DEF Down
<1>8. Down[0] = c /\ \A d \in Nat : Down[d + 1] = Goes(Down[d])
  <2>1. \A d \in Nat : Down[d] = IF d = 0 THEN c ELSE Goes(Down[d - 1])
      BY <1>6
  <2>2. \A d \in Nat : d + 1 \in Nat /\ d + 1 # 0 /\ (d + 1) - 1 = d
      OBVIOUS
  <2> HIDE DEF Downs
  <2> QED
      BY <2>1, <2>2
<1>9. Descends(go, X, t, lo, hi, h, k)
  <2>1. ASSUME NEW m \in X PROVE m \in Alive(t) /\ Covers(lo, hi, m, k)
      BY AliveIs DEF Covers, Skeleton, Ghosts
  <2> HIDE DEF X, k
  <2> QED
      BY <1>2, <1>3, <2>1 DEF Descends, Goes
<1> HIDE DEF X, k
<1>10. \A d \in Nat : Down[d] \in X
  <2> DEFINE T == {d \in Nat : Down[d] \in X}
  <2>1. 0 \in T /\ \A d \in Nat : d \in T => d + 1 \in T
      BY <1>1, <1>2, <1>8
  <2> HIDE DEF T
  <2>2. \A d \in Nat : d \in T
      BY <2>1, AllNumbers
  <2> QED
      BY <2>2 DEF T
<1>11. Follows(Down, go, c)
    BY <1>3, <1>8, <1>10 DEF Follows
<1>12. Down[Cardinality(NodeIds)] \in X /\ Down[Cardinality(NodeIds)] \in Leaves(t)
    BY <1>1, <1>9, <1>11, DescentEnds
<1> QED
    BY <1>7, <1>12 DEF X

\* The leaf that ends where the root ends.
LEMMA RightmostIs ==
  ASSUME NEW lo, NEW hi, NEW h, NEW up, Skeleton(node, root, lo, hi, h, up)
  PROVE  Rightmost \in Leaves(node) /\ hi[Rightmost] = hi[root]
<1> DEFINE Goes(m) == IF IsLeaf(m) THEN m ELSE Last(node[m].kids)
           Downs(f) == f = [d \in Nat |-> IF d = 0 THEN root ELSE Goes(f[d - 1])]
           X == {m \in Alive(node) : hi[m] = hi[root]}
           go == [m \in X |-> Goes(m)]
           k == hi[root] - 1
<1>1. root \in X /\ root \in Alive(node) /\ k \in Int /\ hi[root] \in Int
    BY AliveIs DEF Skeleton, Ghosts
<1>2. ASSUME NEW m \in X
      PROVE  Goes(m) \in X /\ ((m \in Leaves(node) /\ Goes(m) = m) \/ Inside(lo, hi, h, Goes(m), m))
  <2>1. m \in Alive(node) /\ m \in NodeIds /\ node \in Trees /\ hi[m] = hi[root]
      BY AliveIs DEF Skeleton
  <2>2. CASE m \in Leaves(node)
      BY <2>1, <2>2 DEF Leaves, IsLeaf
  <2>3. CASE m \in Inners(node)
    <3> PICK kids : kids = node[m].kids
        OBVIOUS
    <3>1. Family(kids, m, Alive(node), lo, hi, h, up) /\ Len(kids) \in Nat
        BY <2>1, <2>3, KidsAre DEF Skeleton
    <3> PICK n : n = Len(kids)
        OBVIOUS
    <3>2. n \in 1 .. Len(kids) /\ hi[kids[n]] = hi[m]
        BY <3>1, SmallFacts DEF Family
    <3>3. Goes(m) = kids[n]
        BY <2>3 DEF Inners, IsLeaf, Last
    <3>4. kids[n] \in Alive(node) /\ Inside(lo, hi, h, kids[n], m)
        BY <2>3, <3>2, KidIsInside
    <3> HIDE DEF Goes
    <3> QED
        BY <2>1, <3>2, <3>3, <3>4
  <2> QED
      BY <2>1, <2>2, <2>3, KindsAre
<1> HIDE DEF Goes
<1>3. go \in [X -> X] /\ \A m \in X : go[m] = Goes(m)
    BY <1>2
<1>4. Descends(go, X, node, lo, hi, h, k)
  <2>1. ASSUME NEW m \in X PROVE m \in Alive(node) /\ Covers(lo, hi, m, k)
    <3>1. m \in Alive(node) /\ hi[m] = hi[root] /\ lo[m] \in Int /\ lo[m] < hi[m]
        BY AliveIs DEF Skeleton, Ghosts
    <3> QED
        BY <1>1, <3>1 DEF Covers
  <2> HIDE DEF go, X, k
  <2> QED
      BY <1>2, <1>3, <2>1 DEF Descends
<1> HIDE DEF go, X, k
<1>5. PICK f0 : f0 \in [Nat -> X] /\ f0 = [d \in Nat |-> IF d = 0 THEN root ELSE go[f0[d - 1]]]
  <2>1. \E f : Iterates(f, X, root, go)
      BY ONLY <1>1, <1>3, DescentExists
  <2> QED
      BY ONLY <2>1, Zenon DEF Iterates
<1>6. Downs(f0)
  <2>1. \A d \in Nat : d # 0 => f0[d - 1] \in X
      BY <1>5
  <2>2. \A d \in Nat : f0[d] = IF d = 0 THEN root ELSE go[f0[d - 1]]
      BY <1>5, Zenon
  <2>3. \A d \in Nat : f0[d] = IF d = 0 THEN root ELSE Goes(f0[d - 1])
      BY <1>3, <2>1, <2>2
  <2> QED
      BY <1>5, <2>3
<1> DEFINE Down == CHOOSE f : Downs(f)
<1>7. Downs(Down)
    BY <1>6, Zenon
<1>8. Rightmost = Down[Cardinality(NodeIds)]
    BY Zenon DEF Rightmost, Goes
<1> HIDE DEF Down
<1>9. Down[0] = root /\ \A d \in Nat : Down[d + 1] = Goes(Down[d])
  <2>1. \A d \in Nat : Down[d] = IF d = 0 THEN root ELSE Goes(Down[d - 1])
      BY <1>7
  <2>2. \A d \in Nat : d + 1 \in Nat /\ d + 1 # 0 /\ (d + 1) - 1 = d
      OBVIOUS
  <2> HIDE DEF Downs
  <2> QED
      BY <2>1, <2>2
<1>10. \A d \in Nat : Down[d] \in X
  <2> DEFINE T == {d \in Nat : Down[d] \in X}
  <2>1. 0 \in T /\ \A d \in Nat : d \in T => d + 1 \in T
      BY <1>1, <1>2, <1>9
  <2> HIDE DEF T
  <2>2. \A d \in Nat : d \in T
      BY <2>1, AllNumbers
  <2> QED
      BY <2>2 DEF T
<1>11. \A d \in Nat : Down[d + 1] = go[Down[d]]
    BY <1>3, <1>9, <1>10
<1>12. Down[Cardinality(NodeIds)] \in X /\ Down[Cardinality(NodeIds)] \in Leaves(node)
  <2>1. Follows(Down, go, root)
      BY <1>9, <1>11 DEF Follows
  <2> QED
      BY <1>1, <1>4, <2>1, DescentEnds
<1> QED
    BY <1>8, <1>12 DEF X

-----------------------------------------------------------------------------
(* A node is split: src keeps what is below x, n takes the rest.           *)

\* A child a of q gives the part from x on to a new child n behind it.
ChildParts(lo, hi, h, lo2, hi2, h2, up2, kids, q, a, n, x) ==
  /\ lo[kids[a]] < x /\ x < hi[kids[a]]
  /\ lo2[n] = x /\ hi2[n] = hi[kids[a]] /\ hi2[kids[a]] = x /\ h2[n] < h[q] /\ up2[n] = q
  /\ \A j \in 1 .. Len(kids) : /\ lo2[kids[j]] = lo[kids[j]] /\ (j # a => hi2[kids[j]] = hi[kids[j]])
                               /\ h2[kids[j]] = h[kids[j]] /\ up2[kids[j]] = q
  /\ lo2[q] = lo[q] /\ hi2[q] = hi[q] /\ h2[q] = h[q]

LEMMA FamilyInserts ==
  ASSUME NEW A \in SUBSET NodeIds, NEW B \in SUBSET NodeIds, A \subseteq B,
         NEW lo, NEW hi, NEW h, NEW up, NEW lo2, NEW hi2, NEW h2, NEW up2,
         Ghosts(lo, hi, h, up), Ghosts(lo2, hi2, h2, up2),
         NEW kids \in Seq(NodeIds), NEW q \in NodeIds, Family(kids, q, A, lo, hi, h, up), Len(kids) <= Capacity,
         NEW a \in 1 .. Len(kids), NEW n \in B, NEW x \in Int,
         NEW kids2, IsInsertedAfter(kids2, kids, a, n), ChildParts(lo, hi, h, lo2, hi2, h2, up2, kids, q, a, n, x)
  PROVE  Family(kids2, q, B, lo2, hi2, h2, up2)
<1> DEFINE m == Len(kids)
<1>1. /\ m \in Nat /\ m >= 2 /\ a \in 1 .. m /\ Capacity \in Nat
      /\ \A j \in 1 .. m : kids[j] \in NodeIds /\ lo[kids[j]] \in Int /\ hi[kids[j]] \in Int
  <2>1. m \in Nat /\ \A j \in 1 .. m : kids[j] \in NodeIds
      BY ElementOfSeq, LenProperties
  <2>2. lo \in [NodeIds -> Int] /\ hi \in [NodeIds -> Int]
      BY DEF Ghosts
  <2>3. m >= 2
      BY <2>1 DEF Family
  <2> HIDE DEF m
  <2> QED
      BY <2>1, <2>2, <2>3, SmallFacts DEF m
<1>2. /\ Len(kids2) = m + 1
      /\ \A j \in 1 .. m + 1 : kids2[j] = IF j < a + 1 THEN kids[j] ELSE IF j = a + 1 THEN n ELSE kids[j - 1]
    BY DEF IsInsertedAfter, IsInserted
<1>3. /\ \A j \in 1 .. m : kids[j] \in A /\ up[kids[j]] = q /\ h[kids[j]] < h[q]
      /\ lo[kids[1]] = lo[q] /\ hi[kids[m]] = hi[q]
      /\ \A j \in 1 .. m - 1 : hi[kids[j]] = lo[kids[j + 1]]
      /\ \A i, j \in 1 .. m : i < j => lo[kids[i]] < lo[kids[j]]
    BY DEF Family
<1>4. /\ m <= Capacity /\ lo[kids[a]] < x /\ x < hi[kids[a]]
      /\ lo2[n] = x /\ hi2[n] = hi[kids[a]] /\ hi2[kids[a]] = x /\ h2[n] < h[q] /\ up2[n] = q
      /\ \A j \in 1 .. m : /\ lo2[kids[j]] = lo[kids[j]] /\ (j # a => hi2[kids[j]] = hi[kids[j]])
                            /\ h2[kids[j]] = h[kids[j]] /\ up2[kids[j]] = q
      /\ lo2[q] = lo[q] /\ hi2[q] = hi[q] /\ h2[q] = h[q]
    BY DEF ChildParts
<1> HIDE DEF m
<1>5. ASSUME NEW j \in 1 .. m + 1
      PROVE  /\ kids2[j] \in B /\ up2[kids2[j]] = q /\ h2[kids2[j]] < h2[q]
             /\ lo2[kids2[j]] = IF j < a + 1 THEN lo[kids[j]] ELSE IF j = a + 1 THEN x ELSE lo[kids[j - 1]]
             /\ hi2[kids2[j]] = IF j < a THEN hi[kids[j]] ELSE IF j = a THEN x ELSE hi[kids[j - 1]]
  <2>1. CASE j < a + 1
    <3>1. j \in 1 .. m /\ (j < a \/ j = a) /\ kids2[j] = kids[j]
        BY <1>1, <1>2, <2>1
    <3>2. j # a => hi2[kids[j]] = hi[kids[j]]
        BY <1>4, <3>1
    <3>3. kids[j] \in B /\ up2[kids[j]] = q /\ h2[kids[j]] < h2[q] /\ lo2[kids[j]] = lo[kids[j]]
        BY <1>3, <1>4, <3>1
    <3> QED
        BY <1>1, <1>4, <2>1, <3>1, <3>2, <3>3
  <2>2. CASE j = a + 1
    <3>1. kids2[j] = n /\ j - 1 = a /\ ~(j < a) /\ j # a
        BY <1>1, <1>2, <2>2
    <3> QED
        BY <1>1, <1>4, <2>2, <3>1
  <2>3. CASE ~(j < a + 1) /\ j # a + 1
    <3> DEFINE c == j - 1
    <3>1. c \in 1 .. m /\ c # a /\ kids2[j] = kids[c] /\ ~(j < a) /\ j # a
        BY <1>1, <1>2, <2>3
    <3> HIDE DEF c
    <3>2. /\ kids2[j] \in B /\ up2[kids2[j]] = q /\ h2[kids2[j]] < h2[q]
          /\ lo2[kids2[j]] = lo[kids[c]] /\ hi2[kids2[j]] = hi[kids[c]]
        BY <1>3, <1>4, <3>1
    <3> QED
        BY <2>3, <3>1, <3>2 DEF c
  <2> QED
      BY <2>1, <2>2, <2>3
<1>6. Len(kids2) \in 2 .. Capacity + 1
    BY <1>1, <1>2, <1>4
<1>7. lo2[kids2[1]] = lo2[q] /\ hi2[kids2[m + 1]] = hi2[q]
  <2>1. 1 \in 1 .. m + 1 /\ 1 < a + 1 /\ m + 1 \in 1 .. m + 1 /\ ~(m + 1 < a) /\ m + 1 # a /\ (m + 1) - 1 = m
      BY <1>1
  <2> QED
      BY <1>3, <1>4, <1>5, <2>1
<1>8. ASSUME NEW j \in 1 .. (m + 1) - 1 PROVE hi2[kids2[j]] = lo2[kids2[j + 1]]
  <2>1. j \in 1 .. m + 1 /\ j + 1 \in 1 .. m + 1 /\ j \in 1 .. m
      BY <1>1
  <2>2. CASE j < a
    <3>1. j \in 1 .. m - 1 /\ j + 1 < a + 1
        BY <1>1, <2>2
    <3> QED
        BY <1>3, <1>5, <2>1, <2>2, <3>1
  <2>3. CASE j = a
      BY <1>1, <1>5, <2>1, <2>3
  <2>4. CASE ~(j < a) /\ j # a
    <3>1. j - 1 \in 1 .. m - 1 /\ (j - 1) + 1 = j /\ ~(j + 1 < a + 1) /\ j + 1 # a + 1 /\ (j + 1) - 1 = j
        BY <1>1, <2>4
    <3>2. hi2[kids2[j]] = hi[kids[j - 1]] /\ lo2[kids2[j + 1]] = lo[kids[(j + 1) - 1]]
        BY <1>5, <2>1, <2>4, <3>1
    <3>3. hi[kids[j - 1]] = lo[kids[(j - 1) + 1]]
        BY <1>3, <3>1
    <3> QED
        BY <3>1, <3>2, <3>3
  <2> QED
      BY <2>2, <2>3, <2>4
<1>9. ASSUME NEW i \in 1 .. m + 1, NEW j \in 1 .. m + 1, i < j PROVE lo2[kids2[i]] < lo2[kids2[j]]
  <2>1. a < m => a + 1 \in 1 .. m /\ hi[kids[a]] = lo[kids[a + 1]]
      BY <1>1, <1>3
  <2>2. \A b \in 1 .. m : a < b => x < lo[kids[b]]
    <3> TAKE b \in 1 .. m
    <3> HAVE a < b
    <3>1. a < m /\ (a + 1 = b \/ a + 1 < b)
        BY <1>1
    <3>2. x < lo[kids[a + 1]]
        BY <1>1, <1>4, <2>1, <3>1
    <3>3. a + 1 < b => lo[kids[a + 1]] < lo[kids[b]]
        BY <1>3, <2>1, <3>1
    <3>4. x \in Int /\ lo[kids[a + 1]] \in Int /\ lo[kids[b]] \in Int
        BY <1>1, <2>1, <3>1
    <3> QED
        BY ONLY <3>1, <3>2, <3>3, <3>4
  <2>3. \A b \in 1 .. m : b <= a => lo[kids[b]] < x
    <3> TAKE b \in 1 .. m
    <3>1. b < a => lo[kids[b]] < lo[kids[a]]
        BY <1>1, <1>3
    <3> QED
        BY <1>1, <1>4, <3>1
  <2>4. CASE j < a + 1
    <3>1. i < a + 1 /\ i \in 1 .. m /\ j \in 1 .. m
        BY <1>1, <1>9, <2>4
    <3> QED
        BY <1>3, <1>5, <1>9, <2>4, <3>1
  <2>5. CASE j = a + 1
    <3>1. i < a + 1 /\ i \in 1 .. m /\ i <= a
        BY <1>1, <1>9, <2>5
    <3> QED
        BY <1>5, <2>3, <2>5, <3>1
  <2>6. CASE ~(j < a + 1) /\ j # a + 1
    <3>1. j - 1 \in 1 .. m /\ a < j - 1
        BY <1>1, <2>6
    <3>2. lo2[kids2[j]] = lo[kids[j - 1]]
        BY <1>5, <2>6
    <3>3. CASE i < a + 1
      <4>1. i \in 1 .. m /\ i < j - 1
          BY <1>1, <3>1, <3>3
      <4> QED
          BY <1>3, <1>5, <3>1, <3>2, <3>3, <4>1
    <3>4. CASE i = a + 1
        BY <1>5, <2>2, <3>1, <3>2, <3>4
    <3>5. CASE ~(i < a + 1) /\ i # a + 1
      <4>1. i - 1 \in 1 .. m /\ i - 1 < j - 1
          BY <1>1, <1>9, <3>5
      <4> QED
          BY <1>3, <1>5, <3>1, <3>2, <3>5, <4>1
    <3> QED
        BY <3>3, <3>4, <3>5
  <2> QED
      BY <2>4, <2>5, <2>6
<1> QED
    BY <1>2, <1>5, <1>6, <1>7, <1>8, <1>9 DEF Family

LEMMA FamilyPart ==
  ASSUME NEW A \in SUBSET NodeIds, NEW B \in SUBSET NodeIds, A \subseteq B,
         NEW lo, NEW hi, NEW h, NEW up, NEW lo2, NEW hi2, NEW h2, NEW up2,
         NEW kids \in Seq(NodeIds), NEW q, Family(kids, q, A, lo, hi, h, up),
         NEW a \in 1 .. Len(kids), NEW b \in 1 .. Len(kids), a < b, NEW n,
         lo2[n] = lo[kids[a]], hi2[n] = hi[kids[b]], h2[n] = h[q],
         \A j \in a .. b : /\ lo2[kids[j]] = lo[kids[j]] /\ hi2[kids[j]] = hi[kids[j]]
                           /\ h2[kids[j]] = h[kids[j]] /\ up2[kids[j]] = n
  PROVE  Family(SubSeq(kids, a, b), n, B, lo2, hi2, h2, up2)
<1> DEFINE m == b - a + 1
           part == SubSeq(kids, a, b)
<1>1. Len(kids) \in Nat /\ Len(kids) <= Capacity + 1 /\ Capacity \in Nat
    BY LenProperties, SmallFacts DEF Family
<1>2. /\ m \in 2 .. Capacity + 1 /\ a + m - 1 = b
      /\ \A j \in 1 .. m : a + j - 1 \in a .. b /\ a + j - 1 \in 1 .. Len(kids)
    BY ONLY <1>1, a \in 1 .. Len(kids), b \in 1 .. Len(kids), a < b
<1>3. Len(part) = m /\ \A j \in 1 .. m : part[j] = kids[a + j - 1]
  <2>1. a \in 1 .. Len(kids) + 1 /\ b \in 0 .. Len(kids) /\ a <= b + 1
      BY <1>1
  <2> QED
      BY <2>1, SubSeqIs
<1> HIDE DEF m, part
<1>4. ASSUME NEW j \in 1 .. m
      PROVE  /\ part[j] \in B /\ up2[part[j]] = n /\ h2[part[j]] < h2[n]
             /\ lo2[part[j]] = lo[kids[a + j - 1]] /\ hi2[part[j]] = hi[kids[a + j - 1]]
    BY <1>2, <1>3 DEF Family
<1>5. lo2[part[1]] = lo2[n] /\ hi2[part[m]] = hi2[n]
  <2>1. 1 \in 1 .. m /\ m \in 1 .. m /\ a + 1 - 1 = a
      BY <1>2
  <2> QED
      BY <1>2, <1>4, <2>1
<1>6. ASSUME NEW j \in 1 .. m - 1 PROVE hi2[part[j]] = lo2[part[j + 1]]
  <2>1. j \in 1 .. m /\ j + 1 \in 1 .. m /\ a + (j + 1) - 1 = (a + j - 1) + 1
      BY ONLY <1>1, <1>2, a \in 1 .. Len(kids), j \in 1 .. m - 1
  <2>2. a + j - 1 \in 1 .. Len(kids) - 1
      BY <1>1, <1>2 DEF m
  <2>3. hi[kids[a + j - 1]] = lo[kids[(a + j - 1) + 1]]
      BY <2>2 DEF Family
  <2>4. hi2[part[j]] = hi[kids[a + j - 1]] /\ lo2[part[j + 1]] = lo[kids[a + (j + 1) - 1]]
      BY <1>4, <2>1
  <2> QED
      BY <2>1, <2>3, <2>4
<1>7. ASSUME NEW i \in 1 .. m, NEW j \in 1 .. m, i < j PROVE lo2[part[i]] < lo2[part[j]]
  <2>1. a + i - 1 \in 1 .. Len(kids) /\ a + j - 1 \in 1 .. Len(kids)
      BY <1>2
  <2>2. a + i - 1 < a + j - 1
      BY <1>1, <1>2, <1>7
  <2> QED
      BY <1>4, <2>1, <2>2 DEF Family
<1> QED
    BY <1>2, <1>3, <1>4, <1>5, <1>6, <1>7 DEF Family, part

\* The children of src that go to n; src and n are children of q, which is
\* the parent that src had or, above the root, a new one.
Moved(t, src, b) == {c \in Alive(t) : src \in Inners(t) /\ \E j \in b + 1 .. Len(t[src].kids) : t[src].kids[j] = c}
SplitLo(lo, r, src, n, q, x) ==
  [c \in NodeIds |-> IF c = n THEN x ELSE IF c = q /\ src = r THEN lo[src] ELSE lo[c]]
SplitHi(hi, r, src, n, q, x) ==
  [c \in NodeIds |-> IF c = src THEN x ELSE IF c = n \/ (c = q /\ src = r) THEN hi[src] ELSE hi[c]]
SplitH(h, r, src, n, q) ==
  [c \in NodeIds |-> IF c = n THEN h[src] ELSE IF c = q /\ src = r THEN h[src] + 1 ELSE h[c]]
SplitUp(up, r, src, n, q, moved) ==
  [c \in NodeIds |-> IF c \in {src, n} THEN q ELSE IF c = q /\ src = r THEN Null ELSE IF c \in moved THEN n ELSE up[c]]
Serve(t, r, lo, hi, h, up, src, n, q, b, x, lo2, hi2, h2, up2) ==
  /\ lo2 = SplitLo(lo, r, src, n, q, x) /\ hi2 = SplitHi(hi, r, src, n, q, x) /\ h2 = SplitH(h, r, src, n, q)
  /\ up2 = SplitUp(up, r, src, n, q, Moved(t, src, b))

Halved(t, t2, lo, src, n, b, x) ==
  \/ src \in Leaves(t) /\ {src, n} \subseteq Leaves(t2)
  \/ /\ src \in Inners(t) /\ {src, n} \subseteq Inners(t2)
     /\ b \in 2 .. Len(t[src].kids) - 2 /\ x = lo[t[src].kids[b + 1]]
     /\ t2[src].kids = SubSeq(t[src].kids, 1, b)
     /\ t2[n].kids = SubSeq(t[src].kids, b + 1, Len(t[src].kids))
Adopted(t, t2, r, up, src, n, q) ==
  \/ src = r /\ q \notin Alive(t) \cup {n} /\ t2[q].kids = <<src, n>>
  \/ /\ src # r /\ q = up[src] /\ Len(t[q].kids) <= Capacity
     /\ \E a \in 1 .. Len(t[q].kids) : t[q].kids[a] = src /\ IsInsertedAfter(t2[q].kids, t[q].kids, a, n)
SplitAt(t, t2, r, lo, hi, up, src, n, q, b, x) ==
  /\ t2 \in Trees /\ n \notin Alive(t) /\ lo[src] < x /\ x < hi[src]
  /\ \A c \in NodeIds \ {src, n, q} : /\ c \in Leaves(t2) <=> c \in Leaves(t)
                                      /\ c \in Inners(t2) <=> c \in Inners(t)
                                      /\ c \in Inners(t) => t2[c].kids = t[c].kids
  /\ q \in Inners(t2) /\ Adopted(t, t2, r, up, src, n, q) /\ Halved(t, t2, lo, src, n, b, x)

LEMMA SplitGhosts ==
  ASSUME NEW t, NEW t2, NEW r, NEW lo, NEW hi, NEW h, NEW up, Skeleton(t, r, lo, hi, h, up),
         NEW src \in Alive(t), NEW n \in NodeIds, NEW q \in NodeIds, NEW b, NEW x \in Int
  PROVE  Ghosts(SplitLo(lo, r, src, n, q, x), SplitHi(hi, r, src, n, q, x), SplitH(h, r, src, n, q),
                SplitUp(up, r, src, n, q, Moved(t, src, b)))
<1>1. src \in NodeIds /\ Ghosts(lo, hi, h, up)
    BY AliveIs DEF Skeleton
<1>2. SplitLo(lo, r, src, n, q, x) \in [NodeIds -> Int]
    BY <1>1 DEF Ghosts, SplitLo
<1>3. SplitHi(hi, r, src, n, q, x) \in [NodeIds -> Int]
    BY <1>1 DEF Ghosts, SplitHi
<1>4. SplitH(h, r, src, n, q) \in [NodeIds -> Nat]
    BY <1>1 DEF Ghosts, SplitH
<1>5. SplitUp(up, r, src, n, q, Moved(t, src, b)) \in [NodeIds -> NodeIds \cup {Null}]
    BY <1>1 DEF Ghosts, SplitUp
<1> QED
    BY <1>2, <1>3, <1>4, <1>5 DEF Ghosts

\* The nodes that are new, and that they are new.
NodesOf(t, t2, r, h, up, src, n, q) ==
  /\ Alive(t2) = Alive(t) \cup {n, q} /\ src # n /\ q # n /\ q # src
  /\ src = r => q \notin Alive(t)
  /\ src # r => q = up[src] /\ q \in Inners(t) /\ h[src] < h[q]

LEMMA SplitNodes ==
  ASSUME NEW t, NEW t2, NEW r, NEW lo, NEW hi, NEW h, NEW up, Skeleton(t, r, lo, hi, h, up),
         NEW src \in Alive(t), NEW n \in NodeIds, NEW q \in NodeIds, NEW b, NEW x \in Int,
         SplitAt(t, t2, r, lo, hi, up, src, n, q, b, x)
  PROVE  NodesOf(t, t2, r, h, up, src, n, q)
<1>1. src \in NodeIds /\ t \in Trees /\ t2 \in Trees /\ src # n
    BY AliveIs DEF Skeleton, SplitAt
<1>2. src # r => q = up[src] /\ q \in Inners(t) /\ h[src] < h[q] /\ q \in Alive(t)
  <2> SUFFICES ASSUME src # r PROVE q = up[src] /\ q \in Inners(t) /\ h[src] < h[q] /\ q \in Alive(t)
      OBVIOUS
  <2>1. q = up[src] /\ q \in Inners(t) /\ IsKid(t, q, src)
      BY DEF SplitAt, Adopted, Skeleton
  <2>2. PICK a \in 1 .. Len(t[q].kids) : t[q].kids[a] = src
      BY <2>1 DEF IsKid
  <2>3. h[src] < h[q]
      BY <2>1, <2>2, KidIsInside DEF Inside
  <2> QED
      BY <1>1, <2>1, <2>3, KindsAre, AliveIs
<1>3. src = r => q \notin Alive(t) /\ q # n
    BY DEF SplitAt, Adopted
<1>4. q # n /\ q # src
  <2>1. h[src] \in Nat
      BY <1>1 DEF Skeleton, Ghosts
  <2> QED
      BY <1>2, <1>3, <2>1 DEF SplitAt
<1>5. {src, n, q} \subseteq Alive(t2)
  <2>1. src \in Leaves(t2) \cup Inners(t2) /\ n \in Leaves(t2) \cup Inners(t2) /\ q \in Inners(t2)
      BY DEF SplitAt, Halved
  <2> QED
      BY <1>1, <2>1, KindsAre
<1>6. \A c \in NodeIds \ {src, n, q} : c \in Alive(t2) <=> c \in Alive(t)
  <2> TAKE c \in NodeIds \ {src, n, q}
  <2>1. c \in Alive(t) <=> c \in Leaves(t) \cup Inners(t)
      BY <1>1, KindsAre
  <2>2. c \in Alive(t2) <=> c \in Leaves(t2) \cup Inners(t2)
      BY <1>1, KindsAre
  <2> QED
      BY <2>1, <2>2 DEF SplitAt
<1>7. \A c \in NodeIds : c \in Alive(t2) <=> c \in Alive(t) \cup {n, q}
    BY <1>1, <1>5, <1>6
<1> QED
    BY <1>1, <1>2, <1>3, <1>4, <1>7, AliveIs DEF NodesOf

\* The four functions where they change, and where they do not.
Values(t, r, lo, hi, h, up, src, n, q, b, x, lo2, hi2, h2, up2) ==
  /\ lo2[n] = x /\ hi2[n] = hi[src] /\ h2[n] = h[src] /\ up2[n] = q
  /\ lo2[src] = lo[src] /\ hi2[src] = x /\ h2[src] = h[src] /\ up2[src] = q
  /\ src = r => lo2[q] = lo[src] /\ hi2[q] = hi[src] /\ h2[q] = h[src] + 1 /\ up2[q] = Null
  /\ \A c \in Alive(t) : lo2[c] = lo[c] /\ (c # src => hi2[c] = hi[c]) /\ h2[c] = h[c]
  /\ \A c \in Alive(t) \ {src} : up2[c] = IF c \in Moved(t, src, b) THEN n ELSE up[c]

LEMMA SplitValues ==
  ASSUME NEW t, NEW t2, NEW r, NEW lo, NEW hi, NEW h, NEW up, Skeleton(t, r, lo, hi, h, up),
         NEW src \in Alive(t), NEW n \in NodeIds, NEW q \in NodeIds, NEW b, NEW x \in Int,
         SplitAt(t, t2, r, lo, hi, up, src, n, q, b, x), NEW lo2, NEW hi2, NEW h2, NEW up2,
         Serve(t, r, lo, hi, h, up, src, n, q, b, x, lo2, hi2, h2, up2)
  PROVE  Values(t, r, lo, hi, h, up, src, n, q, b, x, lo2, hi2, h2, up2)
<1>n. NodesOf(t, t2, r, h, up, src, n, q)
    BY SplitNodes
<1>1. /\ src # n /\ q # n /\ q # src /\ src \in NodeIds /\ n \notin Alive(t)
      /\ src = r => q \notin Alive(t)
    BY <1>n, AliveIs DEF NodesOf, SplitAt
<1>2. /\ lo2[n] = x /\ hi2[n] = hi[src] /\ h2[n] = h[src] /\ up2[n] = q
      /\ lo2[src] = lo[src] /\ hi2[src] = x /\ h2[src] = h[src] /\ up2[src] = q
    BY <1>1 DEF Serve, SplitLo, SplitHi, SplitH, SplitUp
<1>3. src = r => lo2[q] = lo[src] /\ hi2[q] = hi[src] /\ h2[q] = h[src] + 1 /\ up2[q] = Null
    BY <1>1 DEF Serve, SplitLo, SplitHi, SplitH, SplitUp
<1>4. ASSUME NEW c \in Alive(t)
      PROVE  /\ lo2[c] = lo[c] /\ (c # src => hi2[c] = hi[c]) /\ h2[c] = h[c]
             /\ c # src => up2[c] = IF c \in Moved(t, src, b) THEN n ELSE up[c]
  <2>1. c # n /\ c \in NodeIds /\ ~(c = q /\ src = r)
      BY <1>1, AliveIs
  <2> QED
      BY <2>1 DEF Serve, SplitLo, SplitHi, SplitH, SplitUp
<1> QED
    BY <1>2, <1>3, <1>4 DEF Values

LEMMA SplitSkeleton ==
  ASSUME NEW t, NEW t2, NEW r, NEW lo, NEW hi, NEW h, NEW up, Skeleton(t, r, lo, hi, h, up),
         NEW src \in Alive(t), NEW n \in NodeIds, NEW q \in NodeIds, NEW b, NEW x \in Int,
         SplitAt(t, t2, r, lo, hi, up, src, n, q, b, x), NEW lo2, NEW hi2, NEW h2, NEW up2,
         Serve(t, r, lo, hi, h, up, src, n, q, b, x, lo2, hi2, h2, up2)
  PROVE  Skeleton(t2, IF src = r THEN q ELSE r, lo2, hi2, h2, up2)
<1>n. NodesOf(t, t2, r, h, up, src, n, q)
    BY SplitNodes
<1> DEFINE r2 == IF src = r THEN q ELSE r
           M == Moved(t, src, b)
<1> HIDE DEF r2, M
<1>v. Values(t, r, lo, hi, h, up, src, n, q, b, x, lo2, hi2, h2, up2)
    BY SplitValues
<1>1. /\ lo2[n] = x /\ hi2[n] = hi[src] /\ h2[n] = h[src] /\ up2[n] = q
      /\ lo2[src] = lo[src] /\ hi2[src] = x /\ h2[src] = h[src] /\ up2[src] = q
      /\ src = r => lo2[q] = lo[src] /\ hi2[q] = hi[src] /\ h2[q] = h[src] + 1 /\ up2[q] = Null
      /\ \A c \in Alive(t) : lo2[c] = lo[c] /\ (c # src => hi2[c] = hi[c]) /\ h2[c] = h[c]
      /\ \A c \in Alive(t) \ {src} : up2[c] = IF c \in M THEN n ELSE up[c]
    BY <1>v DEF Values, M
<1>2. Ghosts(lo2, hi2, h2, up2)
    BY SplitGhosts DEF Serve
<1>3. /\ Alive(t2) = Alive(t) \cup {n, q} /\ src # n /\ q # n /\ q # src
      /\ src = r => q \notin Alive(t)
      /\ src # r => q = up[src] /\ q \in Inners(t) /\ h[src] < h[q]
    BY <1>n DEF NodesOf
<1>4. /\ t \in Trees /\ t2 \in Trees /\ src \in NodeIds /\ n \notin Alive(t) /\ lo[src] < x /\ x < hi[src]
      /\ Alive(t) \in SUBSET NodeIds /\ Alive(t2) \in SUBSET NodeIds /\ r \in Alive(t) /\ up[r] = Null
      /\ Ghosts(lo, hi, h, up)
    BY AliveIs DEF Skeleton, SplitAt
<1>5. \A c \in Alive(t) : lo[c] < hi[c] /\ lo[c] \in Int /\ hi[c] \in Int /\ h[c] \in Nat
    BY <1>4 DEF Skeleton, Ghosts
<1>6. M \subseteq Alive(t) /\ \A c \in M : up[c] = src /\ c # src /\ c # q
  <2> SUFFICES ASSUME NEW c \in Moved(t, src, b) PROVE c \in Alive(t) /\ up[c] = src /\ c # src /\ c # q
      BY DEF M
  <2>1. PICK j \in b + 1 .. Len(t[src].kids) : t[src].kids[j] = c
      BY DEF Moved
  <2>2. src \in Inners(t) /\ c \in Alive(t)
      BY DEF Moved
  <2>3. b \in 2 .. Len(t[src].kids) - 2
      BY <1>4, <2>2, KindsAre DEF SplitAt, Halved
  <2>4. j \in 1 .. Len(t[src].kids)
      BY <2>3
  <2>5. up[c] = src /\ h[c] < h[src]
      BY <2>1, <2>2, <2>4, KidIsInside DEF Inside
  <2> QED
      BY <1>3, <1>5, <2>2, <2>5
<1>7. ASSUME NEW c \in Alive(t2) PROVE lo2[c] < hi2[c]
  <2>1. CASE c = n
      BY <1>1, <1>4, <2>1
  <2>2. CASE c = src
      BY <1>1, <1>4, <2>2
  <2>3. CASE c \in Alive(t) /\ c # src
      BY <1>1, <1>5, <2>3
  <2>4. CASE c = q /\ src = r
      BY <1>1, <1>5, <2>4
  <2> QED
      BY <1>3, <1>4, <2>1, <2>2, <2>3, <2>4, KindsAre
\* Nodes that are no part of the split.
<1>8. ASSUME NEW m \in Inners(t2), m \notin {src, n, q} PROVE Family(t2[m].kids, m, Alive(t2), lo2, hi2, h2, up2)
  <2>1. m \in Inners(t) /\ t2[m].kids = t[m].kids /\ m \in Alive(t)
      BY <1>4, <1>8, AliveIs, KindsAre DEF SplitAt
  <2>2. Family(t[m].kids, m, Alive(t), lo, hi, h, up)
      BY <2>1 DEF Skeleton
  <2>3. ASSUME NEW i \in 1 .. Len(t[m].kids)
        PROVE  /\ t[m].kids[i] \in Alive(t2) /\ up2[t[m].kids[i]] = m /\ h2[t[m].kids[i]] = h[t[m].kids[i]]
               /\ lo2[t[m].kids[i]] = lo[t[m].kids[i]] /\ hi2[t[m].kids[i]] = hi[t[m].kids[i]]
    <3> DEFINE c == t[m].kids[i]
    <3>1. c \in Alive(t) /\ up[c] = m
        BY <2>1, KidIsInside
    <3>2. c # src
      <4>1. src = r => up[src] = Null /\ m # Null
          BY <1>4, <2>1, SmallFacts
      <4> QED
          BY <1>3, <1>8, <3>1, <4>1
    <3>3. c \notin M
        BY <1>6, <1>8, <3>1
    <3> HIDE DEF c
    <3>4. c \in Alive(t2) /\ up2[c] = m /\ h2[c] = h[c] /\ lo2[c] = lo[c] /\ hi2[c] = hi[c]
        BY <1>1, <1>3, <3>1, <3>2, <3>3
    <3> QED
        BY <3>4 DEF c
  <2>4. Len(t[m].kids) \in Nat /\ Len(t[m].kids) >= 2
      BY <1>4, <2>1, <2>2, KidsAre DEF Family
  <2>5. lo2[m] = lo[m] /\ hi2[m] = hi[m] /\ h2[m] = h[m]
      BY <1>1, <1>8, <2>1
  <2> DEFINE kids == t[m].kids
             len == Len(kids)
  <2>6. /\ len \in Nat /\ len >= 2 /\ Family(kids, m, Alive(t), lo, hi, h, up)
        /\ \A i \in 1 .. len : /\ kids[i] \in Alive(t2) /\ up2[kids[i]] = m /\ h2[kids[i]] = h[kids[i]]
                               /\ lo2[kids[i]] = lo[kids[i]] /\ hi2[kids[i]] = hi[kids[i]]
      BY <2>2, <2>3, <2>4
  <2> HIDE DEF kids
  <2>7. 1 \in 1 .. len /\ len \in 1 .. len /\ \A i \in 1 .. len - 1 : i \in 1 .. len /\ i + 1 \in 1 .. len
      BY <2>6
  <2>8. Family(kids, m, Alive(t2), lo2, hi2, h2, up2)
      BY <2>5, <2>6, <2>7 DEF Family
  <2> QED
      BY <2>1, <2>8 DEF kids
\* The halves of an inner node.
<1>9. ASSUME src \in Inners(t)
      PROVE  /\ src \in Inners(t2) /\ n \in Inners(t2)
             /\ Family(t2[src].kids, src, Alive(t2), lo2, hi2, h2, up2)
             /\ Family(t2[n].kids, n, Alive(t2), lo2, hi2, h2, up2)
             /\ \A c \in Alive(t) : up[c] = src /\ c # r => IF c \in M THEN IsKid(t2, n, c) ELSE IsKid(t2, src, c)
  <2> DEFINE kids == t[src].kids
             m == Len(kids)
  <2>1. /\ src \notin Leaves(t) /\ b \in 2 .. m - 2 /\ x = lo[kids[b + 1]] /\ t2[src].kids = SubSeq(kids, 1, b)
        /\ t2[n].kids = SubSeq(kids, b + 1, m) /\ src \in Inners(t2) /\ n \in Inners(t2)
      BY <1>4, <1>9, KindsAre DEF SplitAt, Halved
  <2>2. kids \in Seq(NodeIds) /\ m \in Nat /\ Family(kids, src, Alive(t), lo, hi, h, up)
      BY <1>4, <1>9, KidsAre DEF Skeleton
  <2>3. \A j \in 1 .. m : kids[j] \in Alive(t) /\ kids[j] # src /\ (j < b + 1 => kids[j] \notin M) /\ (j >= b + 1 => kids[j] \in M)
    <3> TAKE j \in 1 .. m
    <3>1. kids[j] \in Alive(t) /\ h[kids[j]] < h[src]
        BY <1>9, KidIsInside DEF Inside
    <3>2. j >= b + 1 => kids[j] \in M
        BY <1>9, <2>1, <2>2, <3>1 DEF M, Moved
    <3>3. ASSUME j < b + 1, kids[j] \in M PROVE FALSE
      <4>1. PICK i \in b + 1 .. m : kids[i] = kids[j]
          BY <3>3 DEF M, Moved
      <4>2. i \in 1 .. m /\ j < i
          BY <2>1, <2>2, <3>3
      <4>3. lo[kids[j]] < lo[kids[i]]
          BY <2>2, <4>2 DEF Family
      <4> QED
          BY ONLY <1>5, <3>1, <4>1, <4>3
    <3> QED
        BY <1>5, <3>1, <3>2, <3>3
  <2>4. hi[kids[b]] = x /\ b \in 1 .. m - 1
      BY <2>1, <2>2 DEF Family
  <2>5. \A j \in 1 .. b : /\ lo2[kids[j]] = lo[kids[j]] /\ hi2[kids[j]] = hi[kids[j]]
                          /\ h2[kids[j]] = h[kids[j]] /\ up2[kids[j]] = src
    <3> TAKE j \in 1 .. b
    <3>1. j \in 1 .. m /\ j < b + 1 /\ up[kids[j]] = src
        BY <2>1, <2>2 DEF Family
    <3> HIDE DEF kids, m
    <3> QED
        BY <1>1, <2>3, <3>1
  <2>6. \A j \in b + 1 .. m : /\ lo2[kids[j]] = lo[kids[j]] /\ hi2[kids[j]] = hi[kids[j]]
                              /\ h2[kids[j]] = h[kids[j]] /\ up2[kids[j]] = n
    <3> TAKE j \in b + 1 .. m
    <3>1. j \in 1 .. m /\ j >= b + 1
        BY <2>1, <2>2
    <3> HIDE DEF kids, m
    <3> QED
        BY <1>1, <2>3, <3>1
  <2>7. Alive(t) \subseteq Alive(t2)
      BY <1>3
  <2>8. Family(SubSeq(kids, 1, b), src, Alive(t2), lo2, hi2, h2, up2)
    <3>1. 1 \in 1 .. m /\ b \in 1 .. m /\ 1 < b /\ lo2[src] = lo[kids[1]] /\ hi2[src] = hi[kids[b]] /\ h2[src] = h[src]
        BY <1>1, <2>1, <2>2, <2>4 DEF Family
    <3> HIDE DEF kids
    <3> QED
        BY <1>4, <2>2, <2>5, <2>7, <3>1, FamilyPart
  <2>9. Family(SubSeq(kids, b + 1, m), n, Alive(t2), lo2, hi2, h2, up2)
    <3> DEFINE a == b + 1
    <3>1. a \in 1 .. m /\ m \in 1 .. m /\ a < m /\ lo2[n] = lo[kids[a]] /\ hi2[n] = hi[kids[m]] /\ h2[n] = h[src]
        BY <1>1, <2>1, <2>2 DEF Family
    <3>2. \A j \in a .. m : /\ lo2[kids[j]] = lo[kids[j]] /\ hi2[kids[j]] = hi[kids[j]]
                            /\ h2[kids[j]] = h[kids[j]] /\ up2[kids[j]] = n
        BY <2>6
    <3> HIDE DEF kids, a
    <3>3. Family(SubSeq(kids, a, m), n, Alive(t2), lo2, hi2, h2, up2)
        BY <1>4, <2>2, <2>7, <3>1, <3>2, FamilyPart
    <3> QED
        BY <3>3 DEF a
  <2>10. \A c \in Alive(t) : up[c] = src /\ c # r => IF c \in M THEN IsKid(t2, n, c) ELSE IsKid(t2, src, c)
    <3> SUFFICES ASSUME NEW c \in Alive(t), up[c] = src, c # r PROVE IF c \in M THEN IsKid(t2, n, c) ELSE IsKid(t2, src, c)
        OBVIOUS
    <3>1. PICK j \in 1 .. m : kids[j] = c
        BY DEF Skeleton, IsKid
    <3>2. /\ Len(SubSeq(kids, 1, b)) = b /\ \A i \in 1 .. b : SubSeq(kids, 1, b)[i] = kids[i]
      <4>1. 1 \in 1 .. m + 1 /\ b \in 0 .. m /\ 1 <= b + 1 /\ b - 1 + 1 = b /\ \A i \in 1 .. b : 1 + i - 1 = i
          BY <2>1, <2>2
      <4> HIDE DEF kids
      <4> QED
          BY <2>2, <4>1, SubSeqIs
    <3>3. /\ Len(SubSeq(kids, b + 1, m)) = m - b /\ \A i \in 1 .. m - b : SubSeq(kids, b + 1, m)[i] = kids[b + i]
      <4> DEFINE a == b + 1
      <4>1. a \in 1 .. m + 1 /\ m \in 0 .. m /\ a <= m + 1 /\ m - a + 1 = m - b /\ \A i \in 1 .. m - b : a + i - 1 = b + i
          BY <2>1, <2>2
      <4> HIDE DEF kids, a
      <4>2. Len(SubSeq(kids, a, m)) = m - a + 1 /\ \A i \in 1 .. m - a + 1 : SubSeq(kids, a, m)[i] = kids[a + i - 1]
          BY <2>2, <4>1, SubSeqIs
      <4> QED
          BY <4>1, <4>2 DEF a
    <3>4. CASE j < b + 1
      <4>1. j \in 1 .. b /\ c \notin M
          BY <2>1, <2>3, <3>1, <3>4
      <4> QED
          BY <2>1, <3>1, <3>2, <4>1 DEF IsKid
    <3>5. CASE ~(j < b + 1)
      <4>1. j - b \in 1 .. m - b /\ b + (j - b) = j /\ c \in M
          BY <2>1, <2>2, <2>3, <3>1, <3>5
      <4> QED
          BY <2>1, <3>1, <3>3, <4>1 DEF IsKid
    <3> QED
        BY <3>4, <3>5
  <2> QED
      BY <2>1, <2>8, <2>9, <2>10
\* The node above both.
<1>10. ASSUME src = r
       PROVE  Family(t2[q].kids, q, Alive(t2), lo2, hi2, h2, up2) /\ IsKid(t2, q, src) /\ IsKid(t2, q, n)
  <2>1. t2[q].kids = <<src, n>>
      BY <1>10 DEF SplitAt, Adopted
  <2> DEFINE kids == t2[q].kids
  <2>2. Len(kids) = 2 /\ kids[1] = src /\ kids[2] = n
      BY <2>1
  <2> HIDE DEF kids
  <2>3. 2 \in 2 .. Capacity + 1 /\ \A i \in 1 .. 2 : i = 1 \/ i = 2
      BY SmallFacts
  <2>4. \A i \in 1 .. 2 : kids[i] \in Alive(t2) /\ up2[kids[i]] = q /\ h2[kids[i]] < h2[q]
      BY <1>1, <1>3, <1>5, <1>10, <2>2, <2>3
  <2>5. lo2[kids[1]] = lo2[q] /\ hi2[kids[2]] = hi2[q] /\ hi2[kids[1]] = lo2[kids[2]] /\ lo2[kids[1]] < lo2[kids[2]]
      BY <1>1, <1>4, <1>10, <2>2
  <2>6. Family(kids, q, Alive(t2), lo2, hi2, h2, up2)
    <3>1. \A i \in 1 .. 2 - 1 : i = 1 /\ i + 1 = 2
        OBVIOUS
    <3>2. \A i, j \in 1 .. 2 : i < j => i = 1 /\ j = 2
        OBVIOUS
    <3> QED
        BY <2>2, <2>3, <2>4, <2>5, <3>1, <3>2 DEF Family
  <2>7. 1 \in 1 .. 2 /\ 2 \in 1 .. 2
      OBVIOUS
  <2> QED
      BY <2>2, <2>6, <2>7 DEF kids, IsKid
<1>11. ASSUME src # r
       PROVE  /\ Family(t2[q].kids, q, Alive(t2), lo2, hi2, h2, up2) /\ IsKid(t2, q, src) /\ IsKid(t2, q, n)
              /\ \A c : IsKid(t, q, c) => IsKid(t2, q, c)
  <2> PICK kids, kids2 : kids = t[q].kids /\ kids2 = t2[q].kids
      OBVIOUS
  <2>1. PICK a \in 1 .. Len(kids) : kids[a] = src /\ IsInsertedAfter(kids2, kids, a, n)
      BY <1>11 DEF SplitAt, Adopted
  <2>2. q \in Inners(t) /\ q = up[src] /\ Len(kids) <= Capacity /\ q \in Alive(t) /\ q # src
      BY <1>3, <1>4, <1>11, KindsAre, AliveIs DEF SplitAt, Adopted
  <2>3. kids \in Seq(NodeIds) /\ Len(kids) \in Nat /\ Family(kids, q, Alive(t), lo, hi, h, up)
      BY <1>4, <2>2, KidsAre DEF Skeleton
  <2>4. \A j \in 1 .. Len(kids) : kids[j] \in Alive(t) /\ up[kids[j]] = q /\ kids[j] \notin M /\ (j # a => kids[j] # src)
    <3> TAKE j \in 1 .. Len(kids)
    <3>1. kids[j] \in Alive(t) /\ up[kids[j]] = q
        BY <2>2, KidIsInside
    <3>2. kids[j] \notin M
        BY <1>6, <2>2, <3>1
    <3>3. j # a => kids[j] # src
      <4>1. j < a => lo[kids[j]] < lo[kids[a]]
          BY <2>1, <2>3 DEF Family
      <4>2. a < j => lo[kids[a]] < lo[kids[j]]
          BY <2>1, <2>3 DEF Family
      <4>3. lo[kids[j]] \in Int
          BY <1>5, <3>1
      <4> QED
          BY <2>1, <2>3, <4>1, <4>2, <4>3
    <3> QED
        BY <3>1, <3>2, <3>3
  <2>5. \A j \in 1 .. Len(kids) : /\ lo2[kids[j]] = lo[kids[j]] /\ (j # a => hi2[kids[j]] = hi[kids[j]])
                                  /\ h2[kids[j]] = h[kids[j]] /\ up2[kids[j]] = q
    <3> TAKE j \in 1 .. Len(kids)
    <3>1. CASE j = a
        BY <1>1, <1>5, <2>1, <3>1
    <3>2. CASE j # a
        BY <1>1, <2>4, <3>2
    <3> QED
        BY <3>1, <3>2
  <2>6. Family(kids2, q, Alive(t2), lo2, hi2, h2, up2)
    <3>1. Alive(t) \subseteq Alive(t2) /\ n \in Alive(t2) /\ lo[kids[a]] < x /\ x < hi[kids[a]]
        BY <1>3, <1>4, <2>1
    <3>2. lo2[n] = x /\ hi2[n] = hi[kids[a]] /\ hi2[kids[a]] = x /\ h2[n] < h[q] /\ up2[n] = q
        BY <1>1, <1>3, <1>11, <2>1
    <3>3. lo2[q] = lo[q] /\ hi2[q] = hi[q] /\ h2[q] = h[q]
        BY <1>1, <2>2
    <3>4. ChildParts(lo, hi, h, lo2, hi2, h2, up2, kids, q, a, n, x)
        BY <2>5, <3>1, <3>2, <3>3 DEF ChildParts
    <3> QED
        BY <1>2, <1>4, <2>1, <2>2, <2>3, <3>1, <3>4, FamilyInserts
  <2>7. /\ Len(kids2) = Len(kids) + 1
        /\ \A j \in 1 .. Len(kids) + 1 : kids2[j] = IF j < a + 1 THEN kids[j] ELSE IF j = a + 1 THEN n ELSE kids[j - 1]
      BY <2>1 DEF IsInsertedAfter, IsInserted
  <2>8. \A j \in 1 .. Len(kids) : \E i \in 1 .. Len(kids2) : kids2[i] = kids[j]
    <3> TAKE j \in 1 .. Len(kids)
    <3>1. CASE j < a + 1
      <4>1. j \in 1 .. Len(kids2) /\ j \in 1 .. Len(kids) + 1
          BY <2>3, <2>7
      <4> QED
          BY <2>7, <3>1, <4>1
    <3>2. CASE ~(j < a + 1)
      <4> DEFINE i == j + 1
      <4>1. i \in 1 .. Len(kids2) /\ i \in 1 .. Len(kids) + 1 /\ ~(i < a + 1) /\ i # a + 1 /\ i - 1 = j
          BY <2>3, <2>7, <3>2
      <4> HIDE DEF i
      <4> QED
          BY <2>7, <4>1
    <3> QED
        BY <3>1, <3>2
  <2>9. \E i \in 1 .. Len(kids2) : kids2[i] = n
    <3> DEFINE i == a + 1
    <3>1. i \in 1 .. Len(kids2) /\ i \in 1 .. Len(kids) + 1 /\ ~(i < i) /\ i = a + 1
        BY <2>3, <2>7
    <3> HIDE DEF i
    <3> QED
        BY <2>7, <3>1
  <2> QED
      BY <2>1, <2>6, <2>8, <2>9 DEF IsKid
<1>12. ASSUME NEW m \in Inners(t2) PROVE Family(t2[m].kids, m, Alive(t2), lo2, hi2, h2, up2)
  <2>1. CASE m \in {src, n}
    <3>1. src \in Inners(t)
      <4>1. m \notin Leaves(t2)
          BY <1>4, KindsAre, AliveIs
      <4> QED
          BY <2>1, <4>1 DEF SplitAt, Halved
    <3> QED
        BY <1>9, <2>1, <3>1
  <2> QED
      BY <1>8, <1>10, <1>11, <2>1
<1>13. ASSUME NEW c \in Alive(t2), c # r2 PROVE up2[c] \in Inners(t2) /\ IsKid(t2, up2[c], c)
  <2>1. CASE c \in {src, n}
      BY <1>1, <1>10, <1>11, <2>1 DEF SplitAt
  <2>2. CASE c \notin {src, n}
    <3>1. c \in Alive(t) /\ c # r
      <4>1. src # r => q \in Alive(t)
          BY <1>3, <1>4, KindsAre, AliveIs
      <4> QED
          BY <1>3, <1>13, <2>2, <4>1 DEF r2
    <3>2. up[c] \in Inners(t) /\ IsKid(t, up[c], c) /\ up2[c] = IF c \in M THEN n ELSE up[c]
        BY <1>1, <2>2, <3>1 DEF Skeleton
    <3>3. CASE up[c] = src
      <4>1. src \in Inners(t)
          BY <3>2, <3>3
      <4> QED
          BY <1>9, <3>1, <3>2, <3>3, <4>1
    <3>4. CASE up[c] # src
      <4>1. c \notin M /\ up2[c] = up[c] /\ up[c] # n
          BY <1>4, <1>6, <3>2, <3>4, KindsAre, AliveIs
      <4>2. CASE up[c] = q
        <5>1. src # r
            BY <1>3, <1>4, <3>2, <4>2, KindsAre, AliveIs
        <5> QED
            BY <1>11, <3>2, <4>1, <4>2, <5>1 DEF SplitAt
      <4>3. CASE up[c] # q
        <5>1. up[c] \in NodeIds \ {src, n, q}
            BY <3>2, <3>4, <4>1, <4>3, AliveIs
        <5>2. up[c] \in Inners(t2) /\ t2[up[c]].kids = t[up[c]].kids
            BY <3>2, <5>1 DEF SplitAt
        <5> QED
            BY <3>2, <4>1, <5>2 DEF IsKid
      <4> QED
          BY <4>2, <4>3
    <3> QED
        BY <3>3, <3>4
  <2> QED
      BY <2>1, <2>2
<1>14. r2 \in Alive(t2) /\ up2[r2] = Null
  <2>1. CASE src = r
      BY <1>1, <1>3, <2>1 DEF r2
  <2>2. CASE src # r
    <3>1. r \notin M
        BY <1>4, <1>6, SmallFacts
    <3> QED
        BY <1>1, <1>3, <1>4, <2>2, <3>1 DEF r2
  <2> QED
      BY <2>1, <2>2
<1>15. Skeleton(t2, r2, lo2, hi2, h2, up2)
    BY <1>2, <1>4, <1>7, <1>12, <1>13, <1>14 DEF Skeleton
<1> QED
    BY <1>15 DEF r2

\* The separators go with the children; sep comes between src and n.
SepsHalved(t, t2, src, n, b) ==
  src \in Inners(t) => /\ t2[src].seps = SubSeq(t[src].seps, 1, b - 1)
                       /\ t2[n].seps = SubSeq(t[src].seps, b + 1, Len(t[src].seps))
SepAdopted(t, t2, r, src, q, sep) ==
  IF src = r THEN t2[q].seps = <<sep>>
  ELSE \A a \in 1 .. Len(t[q].kids) : t[q].kids[a] = src => IsInserted(t2[q].seps, t[q].seps, a, sep)

LEMMA SplitLeaves ==
  ASSUME NEW t, NEW t2, NEW r, NEW lo, NEW hi, NEW h, NEW up, Skeleton(t, r, lo, hi, h, up),
         NEW src \in Alive(t), NEW n \in NodeIds, NEW q \in NodeIds, NEW b, NEW x \in Int,
         SplitAt(t, t2, r, lo, hi, up, src, n, q, b, x)
  PROVE  Leaves(t2) = IF src \in Leaves(t) THEN Leaves(t) \cup {n} ELSE Leaves(t)
<1>n. NodesOf(t, t2, r, h, up, src, n, q)
    BY SplitNodes
<1>1. /\ t \in Trees /\ t2 \in Trees /\ src \in NodeIds /\ n \notin Alive(t) /\ q \in Inners(t2)
      /\ src # n /\ q # n /\ q # src
    BY <1>n, AliveIs DEF NodesOf, Skeleton, SplitAt
<1>2. q \notin Leaves(t) /\ q \notin Leaves(t2)
  <2>1. src = r => q \notin Alive(t)
      BY <1>n DEF NodesOf
  <2>2. src # r => q = up[src] /\ q \in Inners(t) /\ h[src] < h[q]
      BY <1>n DEF NodesOf
  <2> QED
      BY <1>1, <2>1, <2>2, KindsAre
<1>3. n \notin Leaves(t)
    BY <1>1, KindsAre
<1>4. \A c \in NodeIds \ {src, n, q} : c \in Leaves(t2) <=> c \in Leaves(t)
    BY DEF SplitAt
<1>5. IF src \in Leaves(t) THEN {src, n} \subseteq Leaves(t2) ELSE src \notin Leaves(t2) /\ n \notin Leaves(t2)
    BY <1>1, KindsAre DEF SplitAt, Halved
<1> QED
    BY <1>1, <1>2, <1>3, <1>4, <1>5, AliveIs

LEMMA SplitSeps ==
  ASSUME NEW t, NEW t2, NEW r, NEW lo, NEW hi, NEW h, NEW up, Skeleton(t, r, lo, hi, h, up), SepsFit(t, lo),
         NEW src \in Alive(t), NEW n \in NodeIds, NEW q \in NodeIds, NEW b, NEW x \in Int,
         SplitAt(t, t2, r, lo, hi, up, src, n, q, b, x), NEW lo2, NEW hi2, NEW h2, NEW up2,
         Serve(t, r, lo, hi, h, up, src, n, q, b, x, lo2, hi2, h2, up2),
         \A c \in Inners(t) \ {src, q} : t2[c].seps = t[c].seps,
         NEW sep, sep[2] = x, sep[1] \in Leaves(t2), lo2[sep[1]] = x,
         SepsHalved(t, t2, src, n, b), SepAdopted(t, t2, r, src, q, sep)
  PROVE  SepsFit(t2, lo2)
<1>n. NodesOf(t, t2, r, h, up, src, n, q)
    BY SplitNodes
<1>v. Values(t, r, lo, hi, h, up, src, n, q, b, x, lo2, hi2, h2, up2)
    BY SplitValues
<1>1. lo2[n] = x /\ \A c \in Alive(t) : lo2[c] = lo[c]
    BY <1>v DEF Values
<1>2. /\ t \in Trees /\ t2 \in Trees /\ src \in NodeIds /\ n \notin Alive(t)
      /\ src # n /\ q # n /\ q # src /\ (src # r => q \in Inners(t))
    BY <1>n, AliveIs DEF NodesOf, Skeleton, SplitAt
<1>3. Leaves(t) \subseteq Leaves(t2)
    BY SplitLeaves
\* A separator that fitted between children of t still does.
<1>4. ASSUME NEW m \in Inners(t), NEW i \in 1 .. Len(t[m].seps)
      PROVE  /\ t[m].seps[i][2] = lo2[t[m].kids[i + 1]] /\ t[m].seps[i][1] \in Leaves(t2)
             /\ lo2[t[m].seps[i][1]] = t[m].seps[i][2]
  <2>1. Len(t[m].seps) \in Nat /\ Len(t[m].kids) \in Nat /\ Len(t[m].seps) = Len(t[m].kids) - 1
      BY <1>2, KidsAre DEF SepsFit
  <2> PICK j : j = i + 1
      OBVIOUS
  <2>2. j \in 1 .. Len(t[m].kids)
      BY <2>1
  <2>3. t[m].kids[j] \in Alive(t)
      BY <2>2, KidIsInside
  <2>4. /\ t[m].seps[i][2] = lo[t[m].kids[j]] /\ t[m].seps[i][1] \in Leaves(t)
        /\ lo[t[m].seps[i][1]] = t[m].seps[i][2]
      BY DEF SepsFit
  <2>5. t[m].seps[i][1] \in Alive(t)
      BY <1>2, <2>4, KindsAre, AliveIs
  <2> QED
      BY <1>1, <1>3, <2>3, <2>4, <2>5
<1>5. \A m \in Inners(t) : Len(t[m].seps) = Len(t[m].kids) - 1 /\ Len(t[m].seps) \in Nat /\ Len(t[m].kids) \in Nat
                           /\ t[m].kids \in Seq(NodeIds) /\ t[m].seps \in Seq(NodeIds \X Keys)
    BY <1>2, KidsAre DEF SepsFit
<1> DEFINE Fits(m) == /\ Len(t2[m].seps) = Len(t2[m].kids) - 1
                      /\ \A i \in 1 .. Len(t2[m].seps) :
                           /\ t2[m].seps[i][2] = lo2[t2[m].kids[i + 1]] /\ t2[m].seps[i][1] \in Leaves(t2)
                           /\ lo2[t2[m].seps[i][1]] = t2[m].seps[i][2]
<1>6. ASSUME NEW m \in Inners(t2), m \notin {src, n, q} PROVE Fits(m)
  <2>1. m \in Inners(t) /\ t2[m].kids = t[m].kids /\ t2[m].seps = t[m].seps
      BY <1>6, AliveIs DEF SplitAt
  <2> QED
      BY <1>4, <1>5, <2>1
<1>7. ASSUME src \in Inners(t) PROVE Fits(src) /\ Fits(n)
  <2> PICK kids, seps, m : kids = t[src].kids /\ seps = t[src].seps /\ m = Len(kids)
      OBVIOUS
  <2>1. b \in 2 .. m - 2 /\ t2[src].kids = SubSeq(kids, 1, b) /\ t2[n].kids = SubSeq(kids, b + 1, m)
      BY <1>2, <1>7, KindsAre, AliveIs DEF SplitAt, Halved
  <2>2. kids \in Seq(NodeIds) /\ seps \in Seq(NodeIds \X Keys) /\ m \in Nat /\ Len(seps) = m - 1
      BY <1>5, <1>7
  <2>3. t2[src].seps = SubSeq(seps, 1, b - 1) /\ t2[n].seps = SubSeq(seps, b + 1, m - 1)
      BY <1>7, <2>2 DEF SepsHalved
  <2>4. Len(t2[src].kids) = b /\ \A i \in 1 .. b : t2[src].kids[i] = kids[i]
    <3>1. 1 \in 1 .. Len(kids) + 1 /\ b \in 0 .. Len(kids) /\ 1 <= b + 1 /\ b - 1 + 1 = b /\ \A i \in 1 .. b : 1 + i - 1 = i
        BY <2>1, <2>2
    <3>2. Len(SubSeq(kids, 1, b)) = b - 1 + 1 /\ \A i \in 1 .. b - 1 + 1 : SubSeq(kids, 1, b)[i] = kids[1 + i - 1]
        BY <2>2, <3>1, SubSeqIs
    <3> QED
        BY <2>1, <3>1, <3>2
  <2>5. Len(t2[src].seps) = b - 1 /\ \A i \in 1 .. b - 1 : t2[src].seps[i] = seps[i]
    <3> PICK c : c = b - 1
        OBVIOUS
    <3>1. 1 \in 1 .. Len(seps) + 1 /\ c \in 0 .. Len(seps) /\ 1 <= c + 1 /\ c - 1 + 1 = c /\ \A i \in 1 .. c : 1 + i - 1 = i
        BY <2>1, <2>2
    <3>2. Len(SubSeq(seps, 1, c)) = c - 1 + 1 /\ \A i \in 1 .. c - 1 + 1 : SubSeq(seps, 1, c)[i] = seps[1 + i - 1]
        BY <2>2, <3>1, SubSeqIs
    <3> QED
        BY <2>3, <3>1, <3>2
  <2>6. Len(t2[n].kids) = m - b /\ \A i \in 1 .. m - b : t2[n].kids[i] = kids[b + i]
    <3> PICK a : a = b + 1
        OBVIOUS
    <3>1. a \in 1 .. Len(kids) + 1 /\ m \in 0 .. Len(kids) /\ a <= m + 1 /\ m - a + 1 = m - b /\ \A i \in 1 .. m - b : a + i - 1 = b + i
        BY <2>1, <2>2
    <3>2. Len(SubSeq(kids, a, m)) = m - a + 1 /\ \A i \in 1 .. m - a + 1 : SubSeq(kids, a, m)[i] = kids[a + i - 1]
      <4>1. kids \in Seq(NodeIds) /\ a \in 1 .. Len(kids) + 1 /\ m \in 0 .. Len(kids) /\ a <= m + 1
          BY <2>2, <3>1
      <4> QED
          BY ONLY <4>1, SubSeqIs
    <3> QED
        BY <2>1, <3>1, <3>2
  <2>7. Len(t2[n].seps) = m - b - 1 /\ \A i \in 1 .. m - b - 1 : t2[n].seps[i] = seps[b + i]
    <3> PICK a, c : a = b + 1 /\ c = m - 1
        OBVIOUS
    <3>1. a \in 1 .. Len(seps) + 1 /\ c \in 0 .. Len(seps) /\ a <= c + 1 /\ c - a + 1 = m - b - 1 /\ \A i \in 1 .. m - b - 1 : a + i - 1 = b + i
        BY <2>1, <2>2
    <3>2. Len(SubSeq(seps, a, c)) = c - a + 1 /\ \A i \in 1 .. c - a + 1 : SubSeq(seps, a, c)[i] = seps[a + i - 1]
      <4>1. seps \in Seq(NodeIds \X Keys) /\ a \in 1 .. Len(seps) + 1 /\ c \in 0 .. Len(seps) /\ a <= c + 1
          BY <2>2, <3>1
      <4> QED
          BY ONLY <4>1, SubSeqIs
    <3>3. t2[n].seps = SubSeq(seps, a, c)
        BY <2>3
    <3> QED
        BY ONLY <3>1, <3>2, <3>3
  <2>8. ASSUME NEW i \in 1 .. m - 1
        PROVE  seps[i][2] = lo2[kids[i + 1]] /\ seps[i][1] \in Leaves(t2) /\ lo2[seps[i][1]] = seps[i][2]
      BY <1>4, <1>7, <2>2
  <2>9. Fits(src)
    <3>1. ASSUME NEW i \in 1 .. b - 1
          PROVE  /\ t2[src].seps[i][2] = lo2[t2[src].kids[i + 1]] /\ t2[src].seps[i][1] \in Leaves(t2)
                 /\ lo2[t2[src].seps[i][1]] = t2[src].seps[i][2]
      <4>1. i \in 1 .. m - 1 /\ i + 1 \in 1 .. b
        <5>1. b \in 2 .. m - 2 /\ m \in Nat
            BY <2>1, <2>2
        <5> QED
            BY ONLY <5>1, i \in 1 .. b - 1
      <4> QED
          BY <2>4, <2>5, <2>8, <4>1
    <3> QED
        BY <2>4, <2>5, <3>1
  <2>10. Fits(n)
    <3>1. ASSUME NEW i \in 1 .. m - b - 1
          PROVE  /\ t2[n].seps[i][2] = lo2[t2[n].kids[i + 1]] /\ t2[n].seps[i][1] \in Leaves(t2)
                 /\ lo2[t2[n].seps[i][1]] = t2[n].seps[i][2]
      <4>1. b + i \in 1 .. m - 1 /\ i + 1 \in 1 .. m - b /\ b + (i + 1) = (b + i) + 1
        <5>1. b \in 2 .. m - 2 /\ m \in Nat
            BY <2>1, <2>2
        <5> QED
            BY ONLY <5>1, i \in 1 .. m - b - 1
      <4>2. t2[n].kids[i + 1] = kids[(b + i) + 1]
          BY <2>6, <4>1
      <4> QED
          BY <2>7, <2>8, <4>1, <4>2
    <3> QED
        BY <2>6, <2>7, <3>1
  <2> QED
      BY <2>9, <2>10
<1>8. Fits(q)
  <2>1. CASE src = r
    <3>1. t2[q].kids = <<src, n>> /\ t2[q].seps = <<sep>>
        BY <2>1 DEF SplitAt, Adopted, SepAdopted
    <3>2. Len(t2[q].kids) = 2 /\ t2[q].kids[2] = n /\ Len(t2[q].seps) = 1 /\ t2[q].seps[1] = sep
        BY <3>1
    <3>3. \A i \in 1 .. 1 : i = 1 /\ i + 1 = 2
        OBVIOUS
    <3> QED
        BY <1>1, <3>2, <3>3
  <2>2. CASE src # r
    <3> PICK kids, seps, kids2, seps2 : kids = t[q].kids /\ seps = t[q].seps /\ kids2 = t2[q].kids /\ seps2 = t2[q].seps
        OBVIOUS
    <3>1. PICK a \in 1 .. Len(kids) : kids[a] = src /\ IsInsertedAfter(kids2, kids, a, n) /\ IsInserted(seps2, seps, a, sep)
      <4>1. PICK a \in 1 .. Len(kids) : kids[a] = src /\ IsInsertedAfter(kids2, kids, a, n)
          BY <2>2 DEF SplitAt, Adopted
      <4> QED
          BY <2>2, <4>1 DEF SepAdopted
    <3> PICK m : m = Len(seps)
        OBVIOUS
    <3>2. m \in Nat /\ Len(kids) = m + 1 /\ a \in 1 .. m + 1
        BY <1>2, <1>5, <2>2
    <3>3. /\ Len(kids2) = m + 2 /\ Len(seps2) = m + 1
          /\ \A j \in 1 .. m + 2 : kids2[j] = IF j < a + 1 THEN kids[j] ELSE IF j = a + 1 THEN n ELSE kids[j - 1]
          /\ \A j \in 1 .. m + 1 : seps2[j] = IF j < a THEN seps[j] ELSE IF j = a THEN sep ELSE seps[j - 1]
      <4>1. Len(kids) + 1 = m + 2 /\ Len(seps) + 1 = m + 1
          BY <3>2
      <4> QED
          BY <3>1, <4>1 DEF IsInsertedAfter, IsInserted
    <3>4. \A j \in 1 .. m : seps[j][2] = lo2[kids[j + 1]] /\ seps[j][1] \in Leaves(t2) /\ lo2[seps[j][1]] = seps[j][2]
        BY <1>2, <1>4, <2>2
    <3>5. ASSUME NEW j \in 1 .. m + 1
          PROVE  seps2[j][2] = lo2[kids2[j + 1]] /\ seps2[j][1] \in Leaves(t2) /\ lo2[seps2[j][1]] = seps2[j][2]
      <4>1. CASE j < a
        <5>1. j \in 1 .. m /\ j + 1 \in 1 .. m + 2 /\ j + 1 < a + 1
            BY <3>2, <4>1
        <5>2. seps2[j] = seps[j] /\ kids2[j + 1] = kids[j + 1]
            BY <3>3, <4>1, <5>1
        <5> QED
            BY <3>4, <5>1, <5>2
      <4>2. CASE j = a
        <5>1. j + 1 \in 1 .. m + 2 /\ ~(j + 1 < a + 1) /\ j + 1 = a + 1 /\ ~(j < a)
            BY <3>2, <4>2
        <5>2. seps2[j] = sep /\ kids2[j + 1] = n
            BY <3>3, <4>2, <5>1
        <5> QED
            BY <1>1, <5>2
      <4>3. CASE ~(j < a) /\ j # a
        <5>1. j - 1 \in 1 .. m /\ (j - 1) + 1 = j /\ j + 1 \in 1 .. m + 2 /\ ~(j + 1 < a + 1) /\ j + 1 # a + 1 /\ (j + 1) - 1 = j
            BY <3>2, <4>3
        <5>2. seps2[j] = seps[j - 1] /\ kids2[j + 1] = kids[(j + 1) - 1]
            BY <3>3, <4>3, <5>1
        <5>3. seps[j - 1][2] = lo2[kids[(j - 1) + 1]] /\ seps[j - 1][1] \in Leaves(t2) /\ lo2[seps[j - 1][1]] = seps[j - 1][2]
            BY <3>4, <5>1
        <5> QED
            BY <5>1, <5>2, <5>3
      <4> QED
          BY <4>1, <4>2, <4>3
    <3> QED
        BY <3>2, <3>3, <3>5
  <2> QED
      BY <2>1, <2>2
<1>9. ASSUME NEW m \in Inners(t2) PROVE Fits(m)
  <2>1. CASE m \in {src, n}
    <3>1. src \in Inners(t)
      <4>1. m \notin Leaves(t2)
          BY <1>2, KindsAre, AliveIs
      <4> QED
          BY <2>1, <4>1 DEF SplitAt, Halved
    <3> QED
        BY <1>7, <2>1, <3>1
  <2> HIDE DEF Fits
  <2> QED
      BY <1>6, <1>8, <2>1
<1> QED
    BY <1>9 DEF SepsFit

-----------------------------------------------------------------------------
(* The keys of a leaf.                                                     *)

Ordered(keys, a, b) ==
  /\ keys \in Seq(Keys) /\ Len(keys) <= Capacity
  /\ \A i, j \in 1 .. Len(keys) : i < j => keys[i] < keys[j]
  /\ \A i \in 1 .. Len(keys) : a <= keys[i] /\ keys[i] < b
Has(keys, k) == \E i \in 1 .. Len(keys) : keys[i] = k

LEMMA OrderedIs ==
  ASSUME NEW keys, NEW a, NEW b, Ordered(keys, a, b)
  PROVE  /\ Len(keys) \in Nat /\ DOMAIN keys = 1 .. Len(keys) /\ Len(keys) <= Capacity
         /\ \A i \in 1 .. Len(keys) : keys[i] \in Keys /\ keys[i] \in Int /\ a <= keys[i] /\ keys[i] < b
         /\ \A i, j \in 1 .. Len(keys) : i < j => keys[i] < keys[j]
<1>1. keys \in Seq(Keys)
    BY DEF Ordered
<1>2. Len(keys) \in Nat /\ DOMAIN keys = 1 .. Len(keys) /\ \A i \in 1 .. Len(keys) : keys[i] \in Keys
    BY <1>1, ElementOfSeq, LenProperties
<1> QED
    BY <1>2, SmallFacts DEF Ordered

LEMMA PlaceIs ==
  ASSUME NEW keys, NEW a, NEW b, Ordered(keys, a, b), NEW k \in Int
  PROVE  /\ FirstAtLeast(keys, k) \in 1 .. Len(keys) + 1
         /\ \A i \in 1 .. Len(keys) : (i < FirstAtLeast(keys, k) => keys[i] < k) /\ (i >= FirstAtLeast(keys, k) => k <= keys[i])
<1> DEFINE B == {i \in DOMAIN keys : keys[i] < k}
<1> PICK n : n = Len(keys)
    OBVIOUS
<1>1. /\ n \in Nat /\ DOMAIN keys = 1 .. n
      /\ \A i \in 1 .. n : keys[i] \in Int
      /\ \A i, j \in 1 .. n : i < j => keys[i] < keys[j]
    BY OrderedIs
<1>2. B \in SUBSET (1 .. n) /\ \A i \in 1 .. n : i \in B <=> keys[i] < k
    BY <1>1
<1> HIDE DEF B
<1>3. \A i \in B, j \in 1 .. n : j < i => j \in B
  <2> TAKE i \in B, j \in 1 .. n
  <2> HAVE j < i
  <2>1. i \in 1 .. n /\ keys[i] < k /\ keys[j] < keys[i] /\ keys[i] \in Int /\ keys[j] \in Int
      BY <1>1, <1>2
  <2> QED
      BY <1>2, <2>1
<1>4. Cardinality(B) \in 0 .. n /\ B = 1 .. Cardinality(B)
    BY <1>1, <1>2, <1>3, SegmentIs
<1>5. FirstAtLeast(keys, k) = Cardinality(B) + 1
    BY DEF FirstAtLeast, B
<1> PICK c : c = Cardinality(B)
    OBVIOUS
<1>6. c \in 0 .. n /\ \A i \in 1 .. n : keys[i] < k <=> i <= c
  <2>1. c \in 0 .. n /\ B = 1 .. c
      BY <1>4
  <2>2. ASSUME NEW i \in 1 .. n PROVE i \in 1 .. c <=> i <= c
      BY ONLY <1>1, <2>1, <2>2
  <2> QED
      BY <1>2, <2>1, <2>2
<1>7. FirstAtLeast(keys, k) = c + 1
    BY <1>5
<1> QED
    BY <1>1, <1>6, <1>7

OneMore(w, keys, k, a, b) ==
  /\ Ordered(w, a, b) /\ Len(w) = Len(keys) + 1
  /\ \A e : Has(w, e) <=> e = k \/ Has(keys, e)
  /\ Len(keys) >= 1 /\ keys[1] < k => w[1] = keys[1]

LEMMA InsertSortedIs ==
  ASSUME NEW keys, NEW a, NEW b, Ordered(keys, a, b), NEW k \in Keys, a <= k, k < b, ~Has(keys, k),
         Len(keys) < Capacity
  PROVE  OneMore(InsertSorted(keys, k), keys, k, a, b)
<1> PICK n, p, w : n = Len(keys) /\ p = FirstAtLeast(keys, k) /\ w = InsertSorted(keys, k)
    OBVIOUS
<1>1. /\ n \in Nat /\ k \in Int /\ Capacity \in Nat
      /\ \A i \in 1 .. n : keys[i] \in Keys /\ keys[i] \in Int /\ a <= keys[i] /\ keys[i] < b /\ keys[i] # k
      /\ \A i, j \in 1 .. n : i < j => keys[i] < keys[j]
    BY OrderedIs, SmallFacts DEF Has
<1>2. p \in 1 .. n + 1 /\ \A i \in 1 .. n : (i < p => keys[i] < k) /\ (i >= p => k < keys[i])
  <2>1. p \in 1 .. n + 1 /\ \A i \in 1 .. n : (i < p => keys[i] < k) /\ (i >= p => k <= keys[i])
      BY <1>1, PlaceIs
  <2> QED
      BY <1>1, <2>1
<1>3. w \in Seq(Keys) /\ IsInserted(w, keys, p, k)
  <2>1. keys \in Seq(Keys) /\ w = InsertAt(keys, p, k) /\ p \in 1 .. Len(keys) + 1
      BY <1>2 DEF InsertSorted, Ordered
  <2> QED
      BY <2>1, InsertAtIs
<1>4. Len(w) = n + 1 /\ \A j \in 1 .. n + 1 : w[j] = IF j < p THEN keys[j] ELSE IF j = p THEN k ELSE keys[j - 1]
    BY <1>3 DEF IsInserted
<1>5. ASSUME NEW j \in 1 .. n + 1
      PROVE  /\ j < p => j \in 1 .. n /\ w[j] = keys[j]
             /\ j = p => w[j] = k
             /\ j > p => j - 1 \in 1 .. n /\ j - 1 >= p /\ w[j] = keys[j - 1]
             /\ j < p \/ j = p \/ j > p
    BY <1>1, <1>2, <1>4
<1>6. \A i \in 1 .. n + 1 : a <= w[i] /\ w[i] < b
    BY <1>1, <1>5
<1>7. ASSUME NEW i \in 1 .. n + 1, NEW j \in 1 .. n + 1, i < j PROVE w[i] < w[j]
  <2>1. CASE i < p /\ j < p
      BY <1>1, <1>5, <1>7, <2>1
  <2>2. CASE i < p /\ j = p
      BY <1>2, <1>5, <2>2
  <2>3. CASE i < p /\ j > p
    <3>1. i \in 1 .. n /\ j - 1 \in 1 .. n /\ i < j - 1
        BY <1>2, <1>5, <2>3
    <3> QED
        BY <1>1, <1>5, <2>3, <3>1
  <2>4. CASE i = p /\ j > p
      BY <1>2, <1>5, <2>4
  <2>5. CASE i > p
    <3>1. j > p /\ i - 1 < j - 1
        BY <1>2, <1>7, <2>5
    <3> QED
        BY <1>1, <1>5, <2>5, <3>1
  <2> QED
      BY <1>2, <1>5, <1>7, <2>1, <2>2, <2>3, <2>4, <2>5
<1>8. ASSUME NEW e PROVE Has(w, e) <=> e = k \/ Has(keys, e)
  <2>1. ASSUME NEW i \in 1 .. n + 1 PROVE w[i] = k \/ Has(keys, w[i])
      BY <1>5 DEF Has
  <2>2. p \in 1 .. n + 1 /\ w[p] = k
      BY <1>2, <1>5
  <2>3. ASSUME NEW i \in 1 .. n PROVE \E j \in 1 .. n + 1 : w[j] = keys[i]
    <3>1. CASE i < p
      <4>1. i \in 1 .. n + 1
          BY <1>1
      <4> QED
          BY <1>5, <3>1, <4>1
    <3>2. CASE ~(i < p)
      <4>1. i + 1 \in 1 .. n + 1 /\ i + 1 > p /\ (i + 1) - 1 = i
          BY <1>1, <1>2, <3>2
      <4>2. w[i + 1] = keys[(i + 1) - 1]
          BY <1>5, <4>1
      <4> QED
          BY <4>1, <4>2
    <3> QED
        BY <3>1, <3>2
  <2> QED
      BY <1>4, <2>1, <2>2, <2>3 DEF Has
<1>9. ASSUME n >= 1, keys[1] < k PROVE w[1] = keys[1]
  <2>1. 1 \in 1 .. n /\ 1 \in 1 .. n + 1
      BY <1>1, <1>9
  <2>2. 1 < p
      BY <1>1, <1>2, <1>9, <2>1
  <2> QED
      BY <1>5, <2>1, <2>2
<1>10. Ordered(w, a, b)
  <2>1. n + 1 <= Capacity
      BY <1>1
  <2> QED
      BY <1>3, <1>4, <1>6, <1>7, <2>1 DEF Ordered
<1> QED
    BY <1>4, <1>8, <1>9, <1>10 DEF OneMore

\* Keys c up to d, which lie between a and b.
Part(w, keys, c, d, a, b) ==
  /\ Ordered(w, a, b) /\ Len(w) = d - c + 1
  /\ \A e : Has(w, e) <=> \E i \in c .. d : keys[i] = e
  /\ c <= d => w[1] = keys[c]
Between(keys, c, d, a, b) ==
  /\ c \in 1 .. Len(keys) + 1 /\ d \in 0 .. Len(keys) /\ c <= d + 1
  /\ \A i \in c .. d : a <= keys[i] /\ keys[i] < b

LEMMA PartOrdered ==
  ASSUME NEW keys, NEW a, NEW b, Ordered(keys, a, b), NEW c, NEW d, NEW a2, NEW b2, Between(keys, c, d, a2, b2)
  PROVE  Part(SubSeq(keys, c, d), keys, c, d, a2, b2)
<1> c \in 1 .. Len(keys) + 1 /\ d \in 0 .. Len(keys) /\ c <= d + 1 /\ \A i \in c .. d : a2 <= keys[i] /\ keys[i] < b2
    BY DEF Between
<1> PICK n, w, m : n = Len(keys) /\ w = SubSeq(keys, c, d) /\ m = d - c + 1
    OBVIOUS
<1>1. /\ n \in Nat /\ Capacity \in Nat /\ n <= Capacity /\ \A i, j \in 1 .. n : i < j => keys[i] < keys[j]
    BY OrderedIs, SmallFacts
<1>2. w \in Seq(Keys) /\ Len(w) = m /\ \A j \in 1 .. m : w[j] = keys[c + j - 1]
  <2>1. keys \in Seq(Keys)
      BY DEF Ordered
  <2> QED
      BY <2>1, SubSeqIs
<1>3. m \in Nat /\ m <= n /\ \A j \in 1 .. m : c + j - 1 \in c .. d /\ c + j - 1 \in 1 .. n
    BY <1>1
<1>4. \A j \in 1 .. m : a2 <= w[j] /\ w[j] < b2
    BY <1>2, <1>3
<1>5. ASSUME NEW i \in 1 .. m, NEW j \in 1 .. m, i < j PROVE w[i] < w[j]
  <2>1. c + i - 1 \in 1 .. n /\ c + j - 1 \in 1 .. n
      BY <1>3
  <2>2. c + i - 1 < c + j - 1
      BY <1>1, <1>5
  <2> QED
      BY <1>1, <1>2, <2>1, <2>2
<1>6. ASSUME NEW e PROVE Has(w, e) <=> \E i \in c .. d : keys[i] = e
  <2>1. ASSUME NEW i \in c .. d PROVE \E j \in 1 .. m : w[j] = keys[i]
    <3>1. i - c + 1 \in 1 .. m /\ c + (i - c + 1) - 1 = i
        BY <1>1
    <3>2. w[i - c + 1] = keys[c + (i - c + 1) - 1]
        BY <1>2, <3>1
    <3> QED
        BY <3>1, <3>2
  <2>2. ASSUME NEW j \in 1 .. m PROVE \E i \in c .. d : keys[i] = w[j]
    <3>1. c + j - 1 \in c .. d /\ w[j] = keys[c + j - 1]
        BY <1>2, <1>3
    <3> QED
        BY <3>1
  <2>3. Has(w, e) <=> \E j \in 1 .. m : w[j] = e
      BY <1>2 DEF Has
  <2>4. ASSUME Has(w, e) PROVE \E i \in c .. d : keys[i] = e
      BY <2>2, <2>3, <2>4
  <2>5. ASSUME NEW i \in c .. d, keys[i] = e PROVE Has(w, e)
      BY <2>1, <2>3, <2>5
  <2> QED
      BY <2>4, <2>5
<1>7. c <= d => w[1] = keys[c]
  <2> HAVE c <= d
  <2>1. 1 \in 1 .. m /\ c + 1 - 1 = c
      BY <1>1
  <2> QED
      BY <1>2, <2>1
<1>8. Ordered(w, a2, b2)
  <2>1. m <= Capacity
      BY <1>1, <1>3
  <2> QED
      BY <1>2, <1>4, <1>5, <2>1 DEF Ordered
<1> QED
    BY <1>2, <1>6, <1>7, <1>8 DEF Part

OneLess(w, keys, p, a, b) ==
  /\ Ordered(w, a, b) /\ Len(w) = Len(keys) - 1
  /\ \A e : Has(w, e) <=> e # keys[p] /\ Has(keys, e)
  /\ Len(keys) > 1 => w[1] = IF p = 1 THEN keys[2] ELSE keys[1]

LEMMA RemoveOrdered ==
  ASSUME NEW keys, NEW a, NEW b, Ordered(keys, a, b), NEW p \in 1 .. Len(keys)
  PROVE  OneLess(RemoveAt(keys, p), keys, p, a, b)
<1> PICK n, w : n = Len(keys) /\ w = RemoveAt(keys, p)
    OBVIOUS
<1>1. /\ n \in Nat /\ Capacity \in Nat /\ n <= Capacity
      /\ \A i, j \in 1 .. n : i < j => keys[i] < keys[j]
      /\ \A i \in 1 .. n : keys[i] \in Int /\ a <= keys[i] /\ keys[i] < b
    BY OrderedIs, SmallFacts
<1>2. w \in Seq(Keys) /\ Len(w) = n - 1 /\ \A j \in 1 .. n - 1 : w[j] = IF j < p THEN keys[j] ELSE keys[j + 1]
  <2>1. keys \in Seq(Keys)
      BY DEF Ordered
  <2> QED
      BY <2>1, RemoveAtIs DEF IsRemoved
<1>3. ASSUME NEW j \in 1 .. n - 1
      PROVE  /\ j < p => w[j] = keys[j]
             /\ ~(j < p) => w[j] = keys[j + 1]
             /\ j \in 1 .. n /\ j + 1 \in 1 .. n
    BY <1>1, <1>2
<1>4. \A j \in 1 .. n - 1 : a <= w[j] /\ w[j] < b
    BY <1>1, <1>3
<1>5. ASSUME NEW i \in 1 .. n - 1, NEW j \in 1 .. n - 1, i < j PROVE w[i] < w[j]
  <2>1. i < j + 1 /\ i + 1 < j + 1 /\ i \in 1 .. n /\ j \in 1 .. n /\ i + 1 \in 1 .. n /\ j + 1 \in 1 .. n
      BY <1>1, <1>5
  <2>2. j < p => i < p
      BY <1>1, <1>5
  <2> QED
      BY <1>1, <1>3, <1>5, <2>1, <2>2
<1>6. ASSUME NEW e PROVE Has(w, e) <=> e # keys[p] /\ Has(keys, e)
  <2>1. ASSUME NEW j \in 1 .. n - 1 PROVE w[j] # keys[p] /\ Has(keys, w[j])
    <3>1. CASE j < p
      <4>1. keys[j] < keys[p] /\ keys[j] \in Int /\ keys[p] \in Int
          BY <1>1, <1>3, <3>1
      <4> QED
          BY <1>3, <3>1, <4>1 DEF Has
    <3>2. CASE ~(j < p)
      <4>1. p < j + 1
          BY <1>1, <3>2
      <4>2. keys[p] < keys[j + 1] /\ keys[j + 1] \in Int /\ keys[p] \in Int
          BY <1>1, <1>3, <4>1
      <4> QED
          BY <1>3, <3>2, <4>2 DEF Has
    <3> QED
        BY <3>1, <3>2
  <2>2. ASSUME NEW i \in 1 .. n, keys[i] # keys[p] PROVE \E j \in 1 .. n - 1 : w[j] = keys[i]
    <3>1. i < p \/ i > p
        BY <1>1, <2>2
    <3>2. CASE i < p
      <4>1. i \in 1 .. n - 1
          BY <1>1, <3>2
      <4> QED
          BY <1>3, <3>2, <4>1
    <3>3. CASE i > p
      <4>1. i - 1 \in 1 .. n - 1 /\ ~(i - 1 < p) /\ (i - 1) + 1 = i
          BY <1>1, <3>3
      <4>2. w[i - 1] = keys[(i - 1) + 1]
          BY <1>3, <4>1
      <4> QED
          BY <4>1, <4>2
    <3> QED
        BY <3>1, <3>2, <3>3
  <2>3. Has(w, e) <=> \E j \in 1 .. n - 1 : w[j] = e
      BY <1>2 DEF Has
  <2>4. Has(keys, e) <=> \E i \in 1 .. n : keys[i] = e
      BY DEF Has
  <2> QED
      BY <2>1, <2>2, <2>3, <2>4
<1>7. n > 1 => w[1] = IF p = 1 THEN keys[2] ELSE keys[1]
  <2> HAVE n > 1
  <2>1. 1 \in 1 .. n - 1 /\ (p # 1 <=> 1 < p) /\ 1 + 1 = 2
      BY <1>1
  <2> QED
      BY <1>3, <2>1
<1>8. Ordered(w, a, b)
  <2>1. n - 1 <= Capacity
      BY <1>1
  <2> QED
      BY <1>2, <1>4, <1>5, <2>1 DEF Ordered
<1> QED
    BY <1>2, <1>6, <1>7, <1>8 DEF OneLess

\* The halves of a full leaf, after the new key has gone to one of them.
LeftHalf(keys, k) ==
  IF Less(keys, k) THEN InsertSorted(SubSeq(keys, 1, Half(keys)), k) ELSE SubSeq(keys, 1, Half(keys))
RightHalf(keys, k) ==
  IF Less(keys, k) THEN SubSeq(keys, Half(keys) + 1, Len(keys))
  ELSE InsertSorted(SubSeq(keys, Half(keys) + 1, Len(keys)), k)

LEMMA HalvesAre ==
  ASSUME NEW keys, NEW a \in Int, NEW b \in Int, Ordered(keys, a, b), Len(keys) = Capacity,
         NEW k \in Keys, a <= k, k < b, ~Has(keys, k)
  PROVE  \E x \in Int :
           /\ x = keys[Half(keys) + 1] /\ a < x /\ x < b
           /\ Ordered(LeftHalf(keys, k), a, x) /\ Len(LeftHalf(keys, k)) >= 1
           /\ Ordered(RightHalf(keys, k), x, b) /\ Len(RightHalf(keys, k)) >= 1 /\ RightHalf(keys, k)[1] = x
           /\ keys[1] < k => LeftHalf(keys, k)[1] = keys[1]
           /\ \A e : Has(LeftHalf(keys, k), e) \/ Has(RightHalf(keys, k), e) <=> e = k \/ Has(keys, e)
<1> PICK n, m : n = Len(keys) /\ m = Half(keys)
    OBVIOUS
<1> PICK x, y, z : x = keys[m + 1] /\ y = SubSeq(keys, 1, m) /\ z = SubSeq(keys, m + 1, n)
    OBVIOUS
<1>1. /\ n \in Nat /\ n = Capacity /\ n >= 3 /\ k \in Int
      /\ \A i \in 1 .. n : keys[i] \in Int /\ a <= keys[i] /\ keys[i] < b /\ keys[i] # k
      /\ \A i, j \in 1 .. n : i < j => keys[i] < keys[j]
    BY OrderedIs, SmallFacts DEF Has
<1>2. m \in 1 .. n - 1 /\ m + 1 \in 1 .. n /\ m < n /\ n - m < n
  <2>1. m = n \div 2
      BY DEF Half
  <2> QED
      BY <1>1, <2>1
<1>3. x \in Int /\ a < x /\ x < b /\ x # k
  <2>1. 1 \in 1 .. n /\ 1 < m + 1
      BY <1>1, <1>2
  <2>2. x \in Int /\ x < b /\ x # k
      BY <1>1, <1>2
  <2>3. keys[1] \in Int /\ a <= keys[1] /\ keys[1] < x /\ a \in Int
      BY <1>1, <1>2, <2>1
  <2> QED
      BY ONLY <2>2, <2>3
<1>4. /\ Ordered(y, a, x) /\ Len(y) = m /\ y[1] = keys[1]
      /\ \A e : Has(y, e) <=> \E i \in 1 .. m : keys[i] = e
  <2>1. 1 \in 1 .. n + 1 /\ m \in 0 .. n /\ 1 <= m + 1 /\ 1 <= m /\ m - 1 + 1 = m
      BY ONLY <1>1, <1>2
  <2>2. ASSUME NEW i \in 1 .. m PROVE a <= keys[i] /\ keys[i] < x
    <3>1. n \in Nat /\ m \in Nat /\ m < n /\ i \in 1 .. m
        BY <1>1, <1>2
    <3>2. i \in 1 .. n /\ i < m + 1
        BY ONLY <3>1
    <3> QED
        BY <1>1, <1>2, <3>2
  <2>3. Between(keys, 1, m, a, x)
      BY <2>1, <2>2 DEF Between
  <2>4. Part(y, keys, 1, m, a, x)
      BY <2>3, PartOrdered
  <2> QED
      BY <2>1, <2>4 DEF Part
<1>5. /\ Ordered(z, x, b) /\ Len(z) = n - m /\ z[1] = x
      /\ \A e : Has(z, e) <=> \E i \in m + 1 .. n : keys[i] = e
  <2>1. m + 1 \in 1 .. n + 1 /\ n \in 0 .. n /\ m + 1 <= n + 1 /\ m + 1 <= n /\ n - (m + 1) + 1 = n - m
      BY ONLY <1>1, <1>2
  <2>2. ASSUME NEW i \in m + 1 .. n PROVE x <= keys[i] /\ keys[i] < b
    <3>1. i \in 1 .. n /\ (i = m + 1 \/ m + 1 < i)
      <4>1. n \in Nat /\ m \in 1 .. n - 1 /\ i \in m + 1 .. n
          BY <1>1, <1>2
      <4> QED
          BY ONLY <4>1
    <3>2. keys[i] \in Int /\ keys[i] < b
        BY <1>1, <3>1
    <3>3. m + 1 < i => x < keys[i]
        BY <1>1, <1>2, <3>1
    <3> QED
        BY <1>3, <3>1, <3>2, <3>3
  <2>3. Between(keys, m + 1, n, x, b)
      BY <2>1, <2>2 DEF Between
  <2>4. Part(z, keys, m + 1, n, x, b)
      BY <2>3, PartOrdered
  <2> QED
      BY <2>1, <2>4 DEF Part
<1>6. \A e : Has(y, e) \/ Has(z, e) <=> Has(keys, e)
  <2>1. ASSUME NEW i PROVE i \in 1 .. n <=> i \in 1 .. m \/ i \in m + 1 .. n
    <3>1. n \in Nat /\ m \in 1 .. n - 1
        BY <1>1, <1>2
    <3> QED
        BY ONLY <3>1
  <2>2. \A e : Has(keys, e) <=> \E i \in 1 .. n : keys[i] = e
      BY DEF Has
  <2> QED
      BY <1>4, <1>5, <2>1, <2>2
<1>7. ~Has(y, k) /\ ~Has(z, k) /\ Len(y) < Capacity /\ Len(z) < Capacity
    BY <1>1, <1>2, <1>4, <1>5, <1>6
<1>8. Less(keys, k) <=> k < x
    BY DEF Less
<1>9. CASE k < x
  <2>1. LeftHalf(keys, k) = InsertSorted(y, k) /\ RightHalf(keys, k) = z
      BY <1>8, <1>9 DEF LeftHalf, RightHalf
  <2>2. OneMore(InsertSorted(y, k), y, k, a, x)
      BY <1>4, <1>7, <1>9, InsertSortedIs
  <2>3. Len(y) >= 1 /\ Len(y) + 1 >= 1 /\ Len(z) >= 1
      BY <1>1, <1>2, <1>4, <1>5
  <2>4. \A e : Has(InsertSorted(y, k), e) \/ Has(z, e) <=> e = k \/ Has(keys, e)
      BY <1>6, <2>2 DEF OneMore
  <2>5. Ordered(LeftHalf(keys, k), a, x) /\ Len(LeftHalf(keys, k)) >= 1
      BY <2>1, <2>2, <2>3 DEF OneMore
  <2>6. Ordered(RightHalf(keys, k), x, b) /\ Len(RightHalf(keys, k)) >= 1 /\ RightHalf(keys, k)[1] = x
      BY <1>5, <2>1, <2>3
  <2>7. keys[1] < k => LeftHalf(keys, k)[1] = keys[1]
      BY <1>4, <2>1, <2>2, <2>3 DEF OneMore
  <2>8. x = keys[Half(keys) + 1]
      OBVIOUS
  <2>9. \A e : Has(LeftHalf(keys, k), e) \/ Has(RightHalf(keys, k), e) <=> e = k \/ Has(keys, e)
      BY <2>1, <2>4
  <2> QED
      BY ONLY <1>3, <2>5, <2>6, <2>7, <2>8, <2>9
<1>10. CASE ~(k < x)
  <2>1. LeftHalf(keys, k) = y /\ RightHalf(keys, k) = InsertSorted(z, k)
      BY <1>8, <1>10 DEF LeftHalf, RightHalf
  <2>2. x <= k /\ x < k
      BY <1>1, <1>3, <1>10
  <2>3. OneMore(InsertSorted(z, k), z, k, x, b)
      BY <1>5, <1>7, <2>2, InsertSortedIs
  <2>4. Len(y) >= 1 /\ Len(z) + 1 >= 1 /\ Len(z) >= 1
    <3>1. n - m >= 1 /\ n - m + 1 >= 1 /\ m >= 1
        BY ONLY <1>1, <1>2
    <3> QED
        BY <1>4, <1>5, <3>1
  <2>5. \A e : Has(y, e) \/ Has(InsertSorted(z, k), e) <=> e = k \/ Has(keys, e)
      BY <1>6, <2>3 DEF OneMore
  <2>6. RightHalf(keys, k)[1] = x
      BY <1>5, <2>1, <2>2, <2>3, <2>4 DEF OneMore
  <2>7. Ordered(InsertSorted(z, k), x, b) /\ Len(InsertSorted(z, k)) >= 1
      BY <2>3, <2>4 DEF OneMore
  <2>8. Ordered(LeftHalf(keys, k), a, x) /\ Len(LeftHalf(keys, k)) >= 1
      BY <1>4, <2>1, <2>4
  <2>9. Ordered(RightHalf(keys, k), x, b) /\ Len(RightHalf(keys, k)) >= 1
      BY <2>1, <2>7
  <2>10. keys[1] < k => LeftHalf(keys, k)[1] = keys[1]
      BY <1>4, <2>1
  <2>11. x = keys[Half(keys) + 1]
      OBVIOUS
  <2>12. \A e : Has(LeftHalf(keys, k), e) \/ Has(RightHalf(keys, k), e) <=> e = k \/ Has(keys, e)
      BY <2>1, <2>5
  <2> QED
      BY ONLY <1>3, <2>6, <2>8, <2>9, <2>10, <2>11, <2>12
<1> QED
    BY <1>9, <1>10

-----------------------------------------------------------------------------
(* The tree and what it holds.                                             *)

\* A leaf is empty only if it is the root, and begins with its first key
\* unless it is the first leaf.
LeafFits(t, r, lo, hi, l) ==
  /\ Ordered(t[l].keys, lo[l], hi[l])
  /\ l = r \/ Len(t[l].keys) >= 1
  /\ lo[l] = lo[r] \/ t[l].keys[1] = lo[l]
Tree(t, r, lo, hi, h, up) ==
  /\ Skeleton(t, r, lo, hi, h, up) /\ SepsFit(t, lo)
  /\ \A k \in Keys : Covers(lo, hi, r, k)
  /\ \A l \in Leaves(t) : LeafFits(t, r, lo, hi, l)

Held(t) == {k \in Keys : \E l \in Leaves(t) : Has(t[l].keys, k)}

SepsMove(t, t2, r, lo2, src, n, q, b, x, sep) ==
  /\ \A c \in Inners(t) \ {src, q} : t2[c].seps = t[c].seps
  /\ sep[2] = x /\ sep[1] \in Leaves(t2) /\ lo2[sep[1]] = x
  /\ SepsHalved(t, t2, src, n, b) /\ SepAdopted(t, t2, r, src, q, sep)

\* y and z are the halves of keys, from a and from x on, with k among them.
TwoHalves(keys, y, z, a, x, b, k) ==
  /\ Ordered(y, a, x) /\ Len(y) >= 1
  /\ Ordered(z, x, b) /\ Len(z) >= 1 /\ z[1] = x
  /\ keys[1] < k => y[1] = keys[1]
  /\ \A e : Has(y, e) \/ Has(z, e) <=> e = k \/ Has(keys, e)

OthersKeep(t, t2, src) == \A c \in Leaves(t) \ {src} : t2[c].keys = t[c].keys

LEMMA SplitCovers ==
  ASSUME NEW t, NEW t2, NEW r, NEW lo, NEW hi, NEW h, NEW up, Skeleton(t, r, lo, hi, h, up),
         NEW src \in Alive(t), NEW n \in NodeIds, NEW q \in NodeIds, NEW b, NEW x \in Int,
         SplitAt(t, t2, r, lo, hi, up, src, n, q, b, x), NEW lo2, NEW hi2, NEW h2, NEW up2,
         Serve(t, r, lo, hi, h, up, src, n, q, b, x, lo2, hi2, h2, up2),
         NEW r2, r2 = IF src = r THEN q ELSE r
  PROVE  lo2[r2] = lo[r] /\ hi2[r2] = hi[r]
<1>1. Values(t, r, lo, hi, h, up, src, n, q, b, x, lo2, hi2, h2, up2)
    BY SplitValues
<1>2. r \in Alive(t)
    BY DEF Skeleton
<1>3. CASE src = r
    BY <1>1, <1>3 DEF Values
<1>4. CASE src # r
    BY <1>1, <1>2, <1>4 DEF Values
<1> QED
    BY <1>3, <1>4

LEMMA TreeSplitsLeaf ==
  ASSUME NEW t, NEW t2, NEW r, NEW lo, NEW hi, NEW h, NEW up, Tree(t, r, lo, hi, h, up),
         NEW src \in Leaves(t), NEW n \in NodeIds, NEW q \in NodeIds, NEW b, NEW x \in Int,
         SplitAt(t, t2, r, lo, hi, up, src, n, q, b, x), NEW lo2, NEW hi2, NEW h2, NEW up2,
         Serve(t, r, lo, hi, h, up, src, n, q, b, x, lo2, hi2, h2, up2),
         NEW sep, SepsMove(t, t2, r, lo2, src, n, q, b, x, sep),
         NEW k \in Keys, Covers(lo, hi, src, k), ~Has(t[src].keys, k),
         TwoHalves(t[src].keys, t2[src].keys, t2[n].keys, lo[src], x, hi[src], k),
         OthersKeep(t, t2, src),
         NEW r2, r2 = IF src = r THEN q ELSE r
  PROVE  Tree(t2, r2, lo2, hi2, h2, up2) /\ Held(t2) = Held(t) \cup {k}
<1>0. \A c \in Leaves(t) \ {src} : t2[c].keys = t[c].keys
    BY DEF OthersKeep
<1>1. /\ Skeleton(t, r, lo, hi, h, up) /\ SepsFit(t, lo) /\ src \in Alive(t) /\ t \in Trees
      /\ lo[r] \in Int /\ lo[src] \in Int /\ hi[src] \in Int /\ k \in Int
  <2>1. t \in Trees /\ Ghosts(lo, hi, h, up) /\ r \in Alive(t) /\ src \in NodeIds /\ r \in NodeIds
      BY AliveIs DEF Tree, Skeleton
  <2> QED
      BY <2>1, KindsAre, SmallFacts DEF Tree, Ghosts
<1>2. Skeleton(t2, r2, lo2, hi2, h2, up2)
    BY <1>1, SplitSkeleton
<1>3. SepsFit(t2, lo2)
    BY <1>1, SplitSeps DEF SepsMove
<1>4. Leaves(t2) = Leaves(t) \cup {n}
    BY <1>1, SplitLeaves
<1>5. lo2[r2] = lo[r] /\ hi2[r2] = hi[r]
    BY <1>1, SplitCovers
<1>6. Values(t, r, lo, hi, h, up, src, n, q, b, x, lo2, hi2, h2, up2) /\ NodesOf(t, t2, r, h, up, src, n, q)
    BY <1>1, SplitValues, SplitNodes
<1>7. \A c \in Leaves(t) : lo2[c] = lo[c] /\ (c # src => hi2[c] = hi[c]) /\ c # n
  <2>1. \A c \in Leaves(t) : c \in Alive(t)
      BY <1>1, KindsAre, AliveIs
  <2>2. n \notin Alive(t)
      BY DEF SplitAt
  <2> QED
      BY <1>6, <2>1, <2>2 DEF Values
<1>8. r2 \notin Leaves(t) \cup {n} \/ (r2 = r /\ src # r)
  <2>1. src = r => q \notin Leaves(t)
      BY <1>1, <1>6, KindsAre, AliveIs DEF NodesOf
  <2>2. src = r => q # n
      BY <1>6 DEF NodesOf
  <2> QED
      BY <2>1, <2>2
<1>9. ASSUME NEW c \in Leaves(t), c # src PROVE LeafFits(t2, r2, lo2, hi2, c)
  <2>1. LeafFits(t, r, lo, hi, c) /\ t2[c].keys = t[c].keys
      BY <1>0, <1>9 DEF Tree
  <2>2. c = r => c = r2
    <3> SUFFICES ASSUME c = r PROVE FALSE
        OBVIOUS
    <3>1. Covers(lo, hi, c, k) /\ c = src
        BY <1>1, LeavesDiffer DEF Tree
    <3> QED
        BY <1>9, <3>1
  <2> QED
      BY <1>5, <1>7, <1>9, <2>1, <2>2 DEF LeafFits
<1>10. LeafFits(t2, r2, lo2, hi2, src)
  <2>1. LeafFits(t, r, lo, hi, src)
      BY DEF Tree
  <2>2. lo[src] = lo[r] \/ t2[src].keys[1] = lo[src]
    <3> SUFFICES ASSUME lo[src] # lo[r] PROVE t2[src].keys[1] = lo[src]
        OBVIOUS
    <3>1. t[src].keys[1] = lo[src] /\ Ordered(t[src].keys, lo[src], hi[src])
        BY <2>1 DEF LeafFits
    <3>2. src # r
        OBVIOUS
    <3>3. 1 \in 1 .. Len(t[src].keys)
        BY <2>1, <3>2, OrderedIs DEF LeafFits
    <3>4. lo[src] <= k /\ k # lo[src]
        BY <3>1, <3>3 DEF Covers, Has
    <3>5. t[src].keys[1] < k
        BY <1>1, <3>1, <3>4
    <3> QED
        BY <3>1, <3>5 DEF TwoHalves
  <2>3. lo2[src] = lo[src] /\ hi2[src] = x
      BY <1>6 DEF Values
  <2> QED
      BY <1>5, <2>2, <2>3 DEF LeafFits, TwoHalves
<1>11. LeafFits(t2, r2, lo2, hi2, n)
  <2>1. lo2[n] = x /\ hi2[n] = hi[src]
      BY <1>6 DEF Values
  <2> QED
      BY <2>1 DEF LeafFits, TwoHalves
<1>12. \A c \in Keys : Covers(lo2, hi2, r2, c)
    BY <1>5 DEF Tree, Covers
<1>13. Held(t2) = Held(t) \cup {k}
  <2>1. ASSUME NEW e \in Keys
        PROVE  (\E l \in Leaves(t2) : Has(t2[l].keys, e)) <=> e = k \/ \E l \in Leaves(t) : Has(t[l].keys, e)
    <3>1. Has(t2[src].keys, e) \/ Has(t2[n].keys, e) <=> e = k \/ Has(t[src].keys, e)
        BY DEF TwoHalves
    <3> QED
        BY <1>0, <1>4, <3>1
  <2> QED
      BY <2>1 DEF Held
<1> QED
    BY <1>2, <1>3, <1>4, <1>9, <1>10, <1>11, <1>12, <1>13 DEF Tree

LEMMA TreeSplitsInner ==
  ASSUME NEW t, NEW t2, NEW r, NEW lo, NEW hi, NEW h, NEW up, Tree(t, r, lo, hi, h, up),
         NEW src \in Inners(t), NEW n \in NodeIds, NEW q \in NodeIds, NEW b, NEW x \in Int,
         SplitAt(t, t2, r, lo, hi, up, src, n, q, b, x), NEW lo2, NEW hi2, NEW h2, NEW up2,
         Serve(t, r, lo, hi, h, up, src, n, q, b, x, lo2, hi2, h2, up2),
         \A c \in Inners(t) \ {src, q} : t2[c].seps = t[c].seps,
         SepsHalved(t, t2, src, n, b), SepAdopted(t, t2, r, src, q, t[src].seps[b]),
         \A c \in Leaves(t) : t2[c].keys = t[c].keys,
         NEW r2, r2 = IF src = r THEN q ELSE r
  PROVE  Tree(t2, r2, lo2, hi2, h2, up2) /\ Held(t2) = Held(t)
<1>1. /\ Skeleton(t, r, lo, hi, h, up) /\ SepsFit(t, lo) /\ src \in Alive(t) /\ t \in Trees /\ src \notin Leaves(t)
      /\ Ghosts(lo, hi, h, up) /\ r \in Alive(t)
  <2>1. t \in Trees /\ Ghosts(lo, hi, h, up) /\ r \in Alive(t) /\ src \in NodeIds
      BY AliveIs DEF Tree, Skeleton
  <2> QED
      BY <2>1, KindsAre DEF Tree
<1>2. Skeleton(t2, r2, lo2, hi2, h2, up2)
    BY <1>1, SplitSkeleton
<1>3. Leaves(t2) = Leaves(t)
    BY <1>1, SplitLeaves
<1>4. lo2[r2] = lo[r] /\ hi2[r2] = hi[r]
    BY <1>1, SplitCovers
<1>5. Values(t, r, lo, hi, h, up, src, n, q, b, x, lo2, hi2, h2, up2) /\ NodesOf(t, t2, r, h, up, src, n, q)
    BY <1>1, SplitValues, SplitNodes
<1>6. \A c \in Leaves(t) : lo2[c] = lo[c] /\ hi2[c] = hi[c]
  <2>1. \A c \in Leaves(t) : c \in Alive(t)
      BY <1>1, KindsAre, AliveIs
  <2> QED
      BY <1>1, <1>5, <2>1 DEF Values
<1> PICK sep : sep = t[src].seps[b]
    OBVIOUS
<1>7. sep[2] = x /\ sep[1] \in Leaves(t) /\ lo2[sep[1]] = x
  <2>1. b \in 2 .. Len(t[src].kids) - 2 /\ x = lo[t[src].kids[b + 1]]
      BY <1>1 DEF SplitAt, Halved
  <2>2. Len(t[src].kids) \in Nat /\ Len(t[src].seps) = Len(t[src].kids) - 1
      BY <1>1, KidsAre DEF SepsFit
  <2>3. b \in 1 .. Len(t[src].seps)
      BY <2>1, <2>2
  <2>4. sep[2] = lo[t[src].kids[b + 1]] /\ sep[1] \in Leaves(t) /\ lo[sep[1]] = sep[2]
      BY <1>1, <2>3 DEF SepsFit
  <2> QED
      BY <1>6, <2>1, <2>4
<1>8. SepsFit(t2, lo2)
  <2>1. SepsHalved(t, t2, src, n, b) /\ SepAdopted(t, t2, r, src, q, sep)
      OBVIOUS
  <2> QED
      BY <1>1, <1>3, <1>7, <2>1, SplitSeps
<1>9. ASSUME NEW c \in Leaves(t) PROVE LeafFits(t2, r2, lo2, hi2, c)
  <2>1. LeafFits(t, r, lo, hi, c) /\ t2[c].keys = t[c].keys
      BY DEF Tree
  <2>2. c = r => c = r2
      BY <1>1
  <2> QED
      BY <1>4, <1>6, <2>1, <2>2 DEF LeafFits
<1>10. \A c \in Keys : Covers(lo2, hi2, r2, c)
    BY <1>4 DEF Tree, Covers
<1>11. Held(t2) = Held(t)
    BY <1>3 DEF Held
<1> QED
    BY <1>2, <1>3, <1>8, <1>9, <1>10, <1>11 DEF Tree

-----------------------------------------------------------------------------
(* Finding a key.                                                          *)

LEMMA LeafFindIs ==
  ASSUME NEW keys, NEW a, NEW b, Ordered(keys, a, b), NEW k \in Int
  PROVE  /\ Has(keys, k) => LeafFind(keys, k) \in 1 .. Len(keys) /\ keys[LeafFind(keys, k)] = k
         /\ ~Has(keys, k) => LeafFind(keys, k) = Len(keys) + 1
<1> PICK n, i : n = Len(keys) /\ i = FirstAtLeast(keys, k)
    OBVIOUS
<1>1. /\ n \in Nat /\ DOMAIN keys = 1 .. n
      /\ \A j \in 1 .. n : keys[j] \in Int
      /\ \A g, j \in 1 .. n : g < j => keys[g] < keys[j]
    BY OrderedIs
<1>2. /\ i \in 1 .. n + 1
      /\ \A j \in 1 .. n : (j < i => keys[j] < k) /\ (j >= i => k <= keys[j])
    BY PlaceIs
<1>3. LeafFind(keys, k) = IF i \in 1 .. n /\ keys[i] = k THEN i ELSE n + 1
    BY <1>1 DEF LeafFind
<1>4. ASSUME Has(keys, k) PROVE i \in 1 .. n /\ keys[i] = k
  <2>1. PICK j \in 1 .. n : keys[j] = k
      BY <1>4 DEF Has
  <2>2. ~(j < i)
      BY <1>1, <1>2, <2>1
  <2>3. i \in 1 .. n
      BY <1>1, <1>2, <2>2
  <2>4. k <= keys[i] /\ keys[i] \in Int
      BY <1>1, <1>2, <2>3
  <2>5. i < j => keys[i] < keys[j]
      BY <1>1, <2>3
  <2>6. i < j \/ i = j
      BY <1>2, <2>2
  <2> QED
      BY <2>1, <2>3, <2>4, <2>5, <2>6
<1>5. ASSUME ~Has(keys, k) PROVE ~(i \in 1 .. n /\ keys[i] = k)
    BY <1>5 DEF Has
<1> QED
    BY <1>3, <1>4, <1>5

\* The leaf that a descent for k ends in, and what it finds there.
FoundIn(l, lo, hi, k) ==
  /\ l = FindLeaf(k) /\ l \in Leaves(node) /\ Covers(lo, hi, l, k)
  /\ Exists(k) <=> k \in Held(node)
  /\ k \in Held(node) <=> Has(node[l].keys, k)
  /\ k \in Held(node) => Find(k) = <<l, LeafFind(node[l].keys, k)>> /\ Get(k) = k
  /\ k \notin Held(node) => Get(k) = Null

LEMMA FindIs ==
  ASSUME NEW lo, NEW hi, NEW h, NEW up, Tree(node, root, lo, hi, h, up), NEW k \in Keys
  PROVE  FoundIn(FindLeaf(k), lo, hi, k)
<1> PICK l : l = FindLeaf(k)
    OBVIOUS
<1>1. Skeleton(node, root, lo, hi, h, up) /\ SepsFit(node, lo) /\ k \in Int /\ Covers(lo, hi, root, k) /\ node \in Trees
    BY SmallFacts DEF Tree, Skeleton
<1>2. Way(node, root, lo, hi, up, k, PathTo(k)) /\ l \in Leaves(node)
    BY <1>1, PathToIs
<1>3. Covers(lo, hi, l, k)
  <2> PICK p : p = PathTo(k)
      OBVIOUS
  <2>1. p \in Seq(NodeIds) /\ Len(p) >= 1 /\ \A i \in 1 .. Len(p) : Covers(lo, hi, p[i], k)
      BY <1>2 DEF Way
  <2>2. l = p[Len(p)] /\ Len(p) \in 1 .. Len(p)
    <3>1. l = Last(p) /\ Len(p) \in Nat
        BY <2>1, LenProperties DEF FindLeaf
    <3> QED
        BY <2>1, <3>1 DEF Last
  <2> QED
      BY <2>1, <2>2
<1> PICK keys : keys = node[l].keys
    OBVIOUS
<1>4. Ordered(keys, lo[l], hi[l])
    BY <1>2 DEF Tree, LeafFits
<1>5. k \in Held(node) <=> Has(keys, k)
  <2>1. ASSUME NEW m \in Leaves(node), Has(node[m].keys, k) PROVE m = l
    <3>1. Ordered(node[m].keys, lo[m], hi[m])
        BY DEF Tree, LeafFits
    <3>2. Covers(lo, hi, m, k)
        BY <2>1, <3>1, OrderedIs DEF Has, Covers
    <3> QED
        BY <1>1, <1>2, <1>3, <3>2, LeavesDiffer
  <2> QED
      BY <1>2, <2>1 DEF Held
<1> PICK i : i = LeafFind(keys, k)
    OBVIOUS
<1>6. Len(keys) \in Nat
    BY <1>4, OrderedIs
<1>7. Has(keys, k) => i \in 1 .. Len(keys) /\ keys[i] = k
    BY <1>1, <1>4, LeafFindIs
<1>8. ~Has(keys, k) => i = Len(keys) + 1
    BY <1>1, <1>4, LeafFindIs
<1>9. Find(k) = IF i = Len(keys) + 1 THEN End ELSE <<l, i>>
    BY DEF Find
<1>10. CASE Has(keys, k)
  <2>1. i \in 1 .. Len(keys) /\ keys[i] = k /\ i # Len(keys) + 1 /\ Find(k) = <<l, i>>
      BY <1>6, <1>7, <1>9, <1>10
  <2>2. <<l, i>> # End
      BY <2>1 DEF End
  <2>3. DOMAIN keys = 1 .. Len(keys)
      BY <1>4, OrderedIs
  <2>4. KeyAt(<<l, i>>) = k
      BY <2>1, <2>3 DEF KeyAt
  <2>5. Exists(k) /\ Get(k) = k
      BY <2>1, <2>2, <2>4 DEF Exists, Get
  <2> QED
      BY <1>2, <1>3, <1>5, <1>10, <2>1, <2>5 DEF FoundIn
<1>11. CASE ~Has(keys, k)
  <2>1. Find(k) = End
      BY <1>8, <1>9, <1>11
  <2>2. ~Exists(k) /\ Get(k) = Null
      BY <2>1 DEF Exists, Get
  <2> QED
      BY <1>2, <1>3, <1>5, <1>11, <2>2 DEF FoundIn
<1> QED
    BY <1>10, <1>11

-----------------------------------------------------------------------------
(* A put that splits nothing.                                              *)

SameShape(t, t2) ==
  /\ t2 \in Trees /\ Leaves(t2) = Leaves(t) /\ Inners(t2) = Inners(t)
  /\ \A n \in Inners(t) : t2[n].kids = t[n].kids

LEMMA SameAlive ==
  ASSUME NEW t \in Trees, NEW t2 \in Trees, Leaves(t2) = Leaves(t), Inners(t2) = Inners(t)
  PROVE  Alive(t2) = Alive(t)
<1>1. \A n \in Alive(t) \cup Alive(t2) : n \in NodeIds
    BY AliveIs
<1>2. \A n \in NodeIds : n \in Alive(t) <=> n \in Leaves(t) \/ n \in Inners(t)
    BY KindsAre
<1>3. \A n \in NodeIds : n \in Alive(t2) <=> n \in Leaves(t2) \/ n \in Inners(t2)
    BY KindsAre
<1> QED
    BY <1>1, <1>2, <1>3

LEMMA SameSkeleton ==
  ASSUME NEW t, NEW t2, NEW r, NEW lo, NEW hi, NEW h, NEW up, Skeleton(t, r, lo, hi, h, up), SameShape(t, t2)
  PROVE  Skeleton(t2, r, lo, hi, h, up)
<1>1. Alive(t2) = Alive(t)
    BY SameAlive DEF SameShape, Skeleton
<1>2. \A n \in Inners(t) : Family(t2[n].kids, n, Alive(t), lo, hi, h, up)
    BY DEF SameShape, Skeleton
<1>3. \A c \in Alive(t) : c # r => up[c] \in Inners(t) /\ IsKid(t2, up[c], c)
    BY DEF SameShape, Skeleton, IsKid
<1>4. t2 \in Trees /\ Inners(t2) = Inners(t)
    BY DEF SameShape
<1>5. Ghosts(lo, hi, h, up) /\ r \in Alive(t) /\ up[r] = Null /\ \A n \in Alive(t) : lo[n] < hi[n]
    BY DEF Skeleton
<1> QED
    BY <1>1, <1>2, <1>3, <1>4, <1>5 DEF Skeleton

\* One leaf gets other keys.
OtherKeys(t, t2, l, keys) ==
  /\ l \in Leaves(t) /\ keys \in Seq(Keys)
  /\ t2 = [t EXCEPT ![l] = Leaf(keys, t[l].prev, t[l].next)]

LEMMA OtherKeysAre ==
  ASSUME NEW t \in Trees, NEW t2, NEW l, NEW keys, OtherKeys(t, t2, l, keys)
  PROVE  /\ SameShape(t, t2) /\ t2[l].keys = keys
         /\ \A n \in NodeIds \ {l} : t2[n] = t[n]
         /\ \A n \in Inners(t) : t2[n] = t[n]
<1>1. l \in NodeIds /\ l \in Leaves(t) /\ l \notin Inners(t)
    BY KindsAre, AliveIs DEF OtherKeys
<1>2. DOMAIN t = NodeIds
    BY DEF Trees
<1> PICK leaf : leaf = Leaf(keys, t[l].prev, t[l].next)
    OBVIOUS
<1>3. t2 = [t EXCEPT ![l] = leaf] /\ t2[l] = leaf /\ \A n \in NodeIds \ {l} : t2[n] = t[n]
    BY <1>1, <1>2 DEF OtherKeys
<1>4. leaf \in LeafRecords /\ leaf.kind = "leaf" /\ leaf.keys = keys
    BY <1>1, KeysAre DEF OtherKeys, LeafRecords, Leaf
<1>5. t2 \in Trees
    BY <1>1, <1>3, <1>4 DEF Trees
<1>6. Leaves(t2) = Leaves(t) /\ Inners(t2) = Inners(t)
    BY <1>1, <1>3, <1>4 DEF Leaves, Inners
<1>7. \A n \in Inners(t) : t2[n] = t[n]
    BY <1>1, <1>3, AliveIs
<1> QED
    BY <1>3, <1>4, <1>5, <1>6, <1>7 DEF SameShape

LEMMA TreeGetsKey ==
  ASSUME NEW t, NEW r, NEW lo, NEW hi, NEW h, NEW up, Tree(t, r, lo, hi, h, up), NEW l \in Leaves(t),
         NEW k \in Keys, Covers(lo, hi, l, k), ~Has(t[l].keys, k), Len(t[l].keys) < Capacity,
         NEW t2, OtherKeys(t, t2, l, InsertSorted(t[l].keys, k))
  PROVE  Tree(t2, r, lo, hi, h, up) /\ Held(t2) = Held(t) \cup {k}
<1>1. Skeleton(t, r, lo, hi, h, up) /\ SepsFit(t, lo) /\ t \in Trees /\ l \in NodeIds
    BY AliveIs DEF Tree, Skeleton
<1> PICK keys, w : keys = t[l].keys /\ w = InsertSorted(keys, k)
    OBVIOUS
<1>2. /\ SameShape(t, t2) /\ t2[l].keys = w
      /\ \A n \in NodeIds \ {l} : t2[n] = t[n]
      /\ \A n \in Inners(t) : t2[n] = t[n]
    BY <1>1, OtherKeysAre
<1>3. Skeleton(t2, r, lo, hi, h, up) /\ Leaves(t2) = Leaves(t)
    BY <1>1, <1>2, SameSkeleton DEF SameShape
<1>4. SepsFit(t2, lo)
  <2>1. Inners(t2) = Inners(t) /\ Leaves(t2) = Leaves(t)
      BY <1>2 DEF SameShape
  <2>2. ASSUME NEW n \in Inners(t)
        PROVE  /\ Len(t2[n].seps) = Len(t2[n].kids) - 1
               /\ \A i \in 1 .. Len(t2[n].seps) : /\ t2[n].seps[i][2] = lo[t2[n].kids[i + 1]]
                                                  /\ t2[n].seps[i][1] \in Leaves(t)
                                                  /\ lo[t2[n].seps[i][1]] = t2[n].seps[i][2]
    <3>1. t2[n] = t[n]
        BY <1>2
    <3> QED
        BY <1>1, <3>1 DEF SepsFit
  <2> QED
      BY <2>1, <2>2 DEF SepsFit
<1>5. LeafFits(t, r, lo, hi, l)
    BY DEF Tree
<1>6. OneMore(w, keys, k, lo[l], hi[l])
    BY <1>5, InsertSortedIs DEF LeafFits, Covers
<1>7. LeafFits(t2, r, lo, hi, l)
  <2>1. Len(keys) \in Nat /\ Len(w) = Len(keys) + 1 /\ Ordered(w, lo[l], hi[l])
      BY <1>5, <1>6, OrderedIs DEF LeafFits, OneMore
  <2>2. lo[l] = lo[r] \/ w[1] = lo[l]
    <3> SUFFICES ASSUME lo[l] # lo[r] PROVE w[1] = lo[l]
        OBVIOUS
    <3>1. l # r /\ keys[1] = lo[l] /\ Len(keys) >= 1
        BY <1>5 DEF LeafFits
    <3>2. 1 \in 1 .. Len(keys)
        BY <2>1, <3>1
    <3>3. lo[l] <= k /\ k # lo[l]
        BY <3>1, <3>2 DEF Covers, Has
    <3>4. keys[1] \in Int /\ k \in Int
        BY <1>5, <3>2, OrderedIs, SmallFacts DEF LeafFits
    <3>5. keys[1] < k
        BY <3>1, <3>3, <3>4
    <3> QED
        BY <1>6, <3>1, <3>5 DEF OneMore
  <2>3. Len(w) >= 1
      BY <2>1
  <2> QED
      BY <1>2, <2>1, <2>2, <2>3 DEF LeafFits
<1>8. ASSUME NEW c \in Leaves(t), c # l PROVE LeafFits(t2, r, lo, hi, c)
  <2>1. t2[c] = t[c] /\ LeafFits(t, r, lo, hi, c)
      BY <1>2, <1>8, AliveIs DEF Tree
  <2> QED
      BY <2>1 DEF LeafFits
<1>9. Held(t2) = Held(t) \cup {k}
  <2>1. \A e : Has(w, e) <=> e = k \/ Has(keys, e)
      BY <1>6 DEF OneMore
  <2>2. \A c \in Leaves(t) : c # l => t2[c].keys = t[c].keys
      BY <1>2, AliveIs
  <2> QED
      BY <1>2, <1>3, <2>1, <2>2 DEF Held
<1> QED
    BY <1>3, <1>4, <1>7, <1>8, <1>9 DEF Tree

-----------------------------------------------------------------------------
(* Places for new nodes.                                                   *)

LEMMA LeastPlace ==
  ASSUME NEW C \in SUBSET NodeIds, C # {}
  PROVE  (CHOOSE n \in C : \A m \in C : n <= m) \in C
<1> DEFINE same == [x \in C |-> x]
<1>1. \A x \in C : x \in Int /\ same[x] = x
    BY NodeAssumption
<1> HIDE DEF same
<1>2. IsFiniteSet(C)
    BY SmallFacts, FS_Subset
<1>3. Orders(same, C)
    BY <1>1, <1>2 DEF Orders
<1>4. \E x \in C : \A y \in C : same[x] <= same[y]
    BY <1>3, EndsExist
<1>5. \E x \in C : \A y \in C : x <= y
    BY <1>1, <1>4
<1> QED
    BY <1>5

LEMMA FreshIs ==
  /\ HasRoom(1) \/ HasRoom(2) => Fresh \in NodeIds \ Alive(node)
  /\ HasRoom(2) => FreshBut(Fresh) \in NodeIds \ (Alive(node) \cup {Fresh})
<1> DEFINE C == NodeIds \ Alive(node)
<1>1. Live = Alive(node)
    BY DEF Live, Alive
<1>2. C \in SUBSET NodeIds /\ IsFiniteSet(C)
    BY SmallFacts, FS_Subset
<1>3. HasRoom(1) \/ HasRoom(2) => C # {}
    BY <1>1, FS_EmptySet DEF HasRoom
<1>4. C # {} => Fresh \in C
  <2>1. Fresh = CHOOSE n \in C : \A m \in C : n <= m
      BY <1>1 DEF Fresh
  <2> HIDE DEF C
  <2> QED
      BY <1>2, <2>1, LeastPlace
<1>5. ASSUME HasRoom(2) PROVE FreshBut(Fresh) \in C \ {Fresh}
  <2> DEFINE D == C \ {Fresh}
  <2>1. FreshBut(Fresh) = CHOOSE n \in D : \A m \in D : n <= m
    <3>1. NodeIds \ (Live \cup {Fresh}) = D
        BY <1>1
    <3> HIDE DEF D
    <3> QED
        BY <3>1 DEF FreshBut
  <2>2. Cardinality(C) >= 2
      BY <1>1, <1>5 DEF HasRoom
  <2>3. D # {}
    <3> SUFFICES ASSUME D = {} PROVE FALSE
        OBVIOUS
    <3>1. C \subseteq {Fresh} 
        OBVIOUS
    <3>2. IsFiniteSet({Fresh}) /\ Cardinality({Fresh}) = 1
        BY FS_Singleton
    <3> HIDE DEF C
    <3>3. Cardinality(C) <= 1
        BY <3>1, <3>2, FS_Subset
    <3>4. Cardinality(C) \in Nat
        BY <1>2, FS_CardinalityType
    <3> QED
        BY <2>2, <3>3, <3>4
  <2>4. D \in SUBSET NodeIds
      BY <1>2
  <2> HIDE DEF D
  <2>5. FreshBut(Fresh) \in D
      BY <2>1, <2>3, <2>4, LeastPlace
  <2> QED
      BY <2>5 DEF D
<1> QED
    BY <1>3, <1>4, <1>5

-----------------------------------------------------------------------------
(* The chain of leaves.                                                    *)

NextIs(t, r, lo, hi, l) ==
  IF hi[l] = hi[r] THEN t[l].next = Null ELSE t[l].next \in Leaves(t) /\ lo[t[l].next] = hi[l]
PrevIs(t, r, lo, hi, l) ==
  IF lo[l] = lo[r] THEN t[l].prev = Null ELSE t[l].prev \in Leaves(t) /\ hi[t[l].prev] = lo[l]
Chain(t, r, lo, hi) == \A l \in Leaves(t) : NextIs(t, r, lo, hi, l) /\ PrevIs(t, r, lo, hi, l)

LEMMA LeafBounds ==
  ASSUME NEW t, NEW r, NEW lo, NEW hi, NEW h, NEW up, Skeleton(t, r, lo, hi, h, up), NEW l \in Leaves(t)
  PROVE  /\ lo[l] \in Int /\ hi[l] \in Int /\ lo[r] \in Int /\ hi[r] \in Int /\ l \in NodeIds /\ l \in Alive(t)
         /\ lo[l] < hi[l] /\ lo[r] <= lo[l] /\ hi[l] <= hi[r] /\ Covers(lo, hi, l, lo[l])
<1>1. t \in Trees /\ Ghosts(lo, hi, h, up) /\ r \in Alive(t) /\ l \in NodeIds /\ r \in NodeIds
    BY AliveIs DEF Skeleton
<1>2. l \in Alive(t)
    BY <1>1, KindsAre
<1>3. lo[r] <= lo[l] /\ hi[l] <= hi[r]
    BY <1>2, RootCovers
<1>4. lo[l] < hi[l]
    BY <1>2 DEF Skeleton
<1>5. lo[l] \in Int /\ hi[l] \in Int /\ lo[r] \in Int /\ hi[r] \in Int
    BY <1>1 DEF Ghosts
<1> QED
    BY <1>1, <1>2, <1>3, <1>4, <1>5 DEF Covers

\* Leaves that begin, or end, at the same place are the same.
LEMMA SameLeaf ==
  ASSUME NEW t, NEW r, NEW lo, NEW hi, NEW h, NEW up, Skeleton(t, r, lo, hi, h, up),
         NEW l \in Leaves(t), NEW m \in Leaves(t), lo[l] = lo[m] \/ hi[l] = hi[m]
  PROVE  l = m
<1>1. /\ lo[l] \in Int /\ hi[l] \in Int /\ lo[l] < hi[l]
      /\ lo[m] \in Int /\ hi[m] \in Int /\ lo[m] < hi[m]
    BY LeafBounds
<1>2. \E k \in Int : Covers(lo, hi, l, k) /\ Covers(lo, hi, m, k)
  <2>1. CASE lo[l] = lo[m]
      BY <1>1, <2>1 DEF Covers
  <2>2. CASE hi[l] = hi[m]
    <3>1. hi[l] - 1 \in Int /\ lo[l] <= hi[l] - 1 /\ lo[m] <= hi[l] - 1 /\ hi[l] - 1 < hi[l] /\ hi[l] - 1 < hi[m]
        BY <1>1, <2>2
    <3> QED
        BY <3>1 DEF Covers
  <2> QED
      BY <2>1, <2>2
<1> QED
    BY <1>2, LeavesDiffer

\* n is linked in behind l.
Links(t, t2, l, n) ==
  /\ t2[l].prev = t[l].prev /\ t2[l].next = n /\ t2[n].prev = l /\ t2[n].next = t[l].next
  /\ \A c \in Leaves(t) \ {l} : t2[c].next = t[c].next /\ t2[c].prev = IF c = t[l].next THEN n ELSE t[c].prev

LEMMA ChainSplits ==
  ASSUME NEW t, NEW t2, NEW r, NEW lo, NEW hi, NEW h, NEW up, Skeleton(t, r, lo, hi, h, up), Chain(t, r, lo, hi),
         NEW src \in Leaves(t), NEW n \in NodeIds, NEW q \in NodeIds, NEW b, NEW x \in Int,
         SplitAt(t, t2, r, lo, hi, up, src, n, q, b, x), NEW lo2, NEW hi2, NEW h2, NEW up2,
         Serve(t, r, lo, hi, h, up, src, n, q, b, x, lo2, hi2, h2, up2), Links(t, t2, src, n),
         NEW r2, r2 = IF src = r THEN q ELSE r
  PROVE  Chain(t2, r2, lo2, hi2)
<1>1. src \in Alive(t) /\ lo[src] < x /\ x < hi[src] /\ n \notin Alive(t)
    BY LeafBounds DEF SplitAt
<1>2. Leaves(t2) = Leaves(t) \cup {n}
    BY <1>1, SplitLeaves
<1>3. lo2[r2] = lo[r] /\ hi2[r2] = hi[r]
    BY <1>1, SplitCovers
<1>4. Values(t, r, lo, hi, h, up, src, n, q, b, x, lo2, hi2, h2, up2)
    BY <1>1, SplitValues
<1>5. /\ \A c \in Leaves(t) : lo2[c] = lo[c] /\ (c # src => hi2[c] = hi[c]) /\ c # n
      /\ lo2[n] = x /\ hi2[n] = hi[src] /\ hi2[src] = x
  <2>1. \A c \in Leaves(t) : c \in Alive(t)
      BY LeafBounds
  <2> QED
      BY <1>1, <1>4, <2>1 DEF Values
<1>6. /\ lo[src] \in Int /\ hi[src] \in Int /\ lo[r] \in Int /\ hi[r] \in Int
      /\ lo[r] <= lo[src] /\ hi[src] <= hi[r] /\ lo[src] < hi[src]
    BY LeafBounds
<1>7. ASSUME NEW c \in Leaves(t), c # src PROVE NextIs(t2, r2, lo2, hi2, c) /\ PrevIs(t2, r2, lo2, hi2, c)
  <2>1. /\ lo[c] \in Int /\ hi[c] \in Int /\ lo[c] < hi[c] /\ hi[c] <= hi[r]
        /\ NextIs(t, r, lo, hi, c) /\ PrevIs(t, r, lo, hi, c) /\ NextIs(t, r, lo, hi, src)
      BY LeafBounds DEF Chain
  <2>2. t2[c].next = t[c].next /\ t2[c].prev = IF c = t[src].next THEN n ELSE t[c].prev
      BY <1>7 DEF Links
  <2>3. lo2[c] = lo[c] /\ hi2[c] = hi[c]
      BY <1>5, <1>7
  <2>4. NextIs(t2, r2, lo2, hi2, c)
      BY <1>2, <1>3, <1>5, <2>1, <2>2, <2>3 DEF NextIs
  <2>5. CASE c = t[src].next
    <3>1. c # Null
        BY SmallFacts, LeafBounds
    <3>2. lo[c] = hi[src]
        BY <2>1, <2>5, <3>1 DEF NextIs
    <3>3. lo[c] # lo[r]
        BY <1>6, <3>2
    <3> QED
        BY <1>2, <1>3, <1>5, <2>2, <2>3, <2>4, <2>5, <3>2, <3>3 DEF PrevIs
  <2>6. CASE c # t[src].next
    <3>1. CASE lo[c] = lo[r]
        BY <1>3, <2>1, <2>2, <2>3, <2>4, <2>6, <3>1 DEF PrevIs
    <3>2. CASE lo[c] # lo[r]
      <4>1. t[c].prev \in Leaves(t) /\ hi[t[c].prev] = lo[c]
          BY <2>1, <3>2 DEF PrevIs
      <4>2. t[c].prev # src
        <5> SUFFICES ASSUME hi[src] = lo[c] PROVE FALSE
            BY <4>1
        <5>1. hi[src] # hi[r]
            BY <1>6, <2>1
        <5>2. t[src].next \in Leaves(t) /\ lo[t[src].next] = lo[c]
            BY <2>1, <5>1 DEF NextIs
        <5> QED
            BY <2>6, <5>2, SameLeaf
      <4>3. hi2[t[c].prev] = lo2[c] /\ t[c].prev \in Leaves(t2) /\ lo2[c] # lo2[r2]
          BY <1>2, <1>3, <1>5, <2>3, <3>2, <4>1, <4>2
      <4> QED
          BY <2>2, <2>4, <2>6, <4>3 DEF PrevIs
    <3> QED
        BY <3>1, <3>2
  <2> QED
      BY <2>5, <2>6
<1>8. NextIs(t2, r2, lo2, hi2, src) /\ PrevIs(t2, r2, lo2, hi2, src)
  <2>1. t2[src].prev = t[src].prev /\ t2[src].next = n /\ PrevIs(t, r, lo, hi, src)
      BY DEF Links, Chain
  <2>2. NextIs(t2, r2, lo2, hi2, src)
    <3>1. hi2[src] # hi2[r2]
        BY <1>1, <1>3, <1>5, <1>6
    <3> QED
        BY <1>2, <1>5, <2>1, <3>1 DEF NextIs
  <2>3. PrevIs(t2, r2, lo2, hi2, src)
    <3>1. CASE lo[src] = lo[r]
        BY <1>3, <1>5, <2>1, <3>1 DEF PrevIs
    <3>2. CASE lo[src] # lo[r]
      <4>1. t[src].prev \in Leaves(t) /\ hi[t[src].prev] = lo[src]
          BY <2>1, <3>2 DEF PrevIs
      <4>2. t[src].prev # src
          BY <1>6, <4>1
      <4> QED
          BY <1>2, <1>3, <1>5, <2>1, <3>2, <4>1, <4>2 DEF PrevIs
    <3> QED
        BY <3>1, <3>2
  <2> QED
      BY <2>2, <2>3
<1>9. NextIs(t2, r2, lo2, hi2, n) /\ PrevIs(t2, r2, lo2, hi2, n)
  <2>1. t2[n].prev = src /\ t2[n].next = t[src].next /\ NextIs(t, r, lo, hi, src)
      BY DEF Links, Chain
  <2>2. lo2[n] # lo2[r2]
      BY <1>1, <1>3, <1>5, <1>6
  <2>3. PrevIs(t2, r2, lo2, hi2, n)
      BY <1>2, <1>5, <2>1, <2>2 DEF PrevIs
  <2>4. NextIs(t2, r2, lo2, hi2, n)
      BY <1>2, <1>3, <1>5, <2>1 DEF NextIs
  <2> QED
      BY <2>3, <2>4
<1> QED
    BY <1>2, <1>7, <1>8, <1>9 DEF Chain

LEMMA ChainKept ==
  ASSUME NEW t, NEW t2, NEW r, NEW r2, NEW lo, NEW hi, NEW lo2, NEW hi2, Chain(t, r, lo, hi), Leaves(t2) = Leaves(t),
         \A l \in Leaves(t) : t2[l].next = t[l].next /\ t2[l].prev = t[l].prev /\ lo2[l] = lo[l] /\ hi2[l] = hi[l],
         lo2[r2] = lo[r], hi2[r2] = hi[r]
  PROVE  Chain(t2, r2, lo2, hi2)
<1> SUFFICES ASSUME NEW l \in Leaves(t) PROVE NextIs(t2, r2, lo2, hi2, l) /\ PrevIs(t2, r2, lo2, hi2, l)
    BY DEF Chain
<1>1. NextIs(t, r, lo, hi, l) /\ PrevIs(t, r, lo, hi, l)
    BY DEF Chain
<1>2. NextIs(t2, r2, lo2, hi2, l)
    BY <1>1 DEF NextIs
<1>3. PrevIs(t2, r2, lo2, hi2, l)
    BY <1>1 DEF PrevIs
<1> QED
    BY <1>2, <1>3

-----------------------------------------------------------------------------
(* A leaf is split.                                                        *)

\* The nodes after l has been split, n linked in, and inner put in place q.
LeafSplit(t2, l, n, q, inner, k) ==
  /\ t2 \in Trees /\ t2[q] = inner /\ q \in Inners(t2) /\ {l, n} \subseteq Leaves(t2)
  /\ t2[l].keys = LeftHalf(node[l].keys, k) /\ t2[n].keys = RightHalf(node[l].keys, k)
  /\ Links(node, t2, l, n)
  /\ \A c \in NodeIds \ {l, n, q} : /\ c \in Leaves(t2) <=> c \in Leaves(node)
                                    /\ c \in Inners(t2) <=> c \in Inners(node)
                                    /\ c \in Inners(node) => t2[c] = node[c]
                                    /\ c \in Leaves(node) => t2[c].keys = node[c].keys

LEMMA HalvesGive ==
  ASSUME node \in Trees, NEW l \in Leaves(node), NEW n \in NodeIds \ Alive(node), NEW q \in NodeIds \ {l, n}, q \notin Leaves(node),
         node[l].next = Null \/ (node[l].next \in Leaves(node) /\ node[l].next # l),
         NEW k, LeftHalf(node[l].keys, k) \in Seq(Keys), RightHalf(node[l].keys, k) \in Seq(Keys),
         NEW inner \in InnerRecords, NEW t2, t2 = [Halves(l, n, k) EXCEPT ![q] = inner]
  PROVE  LeafSplit(t2, l, n, q, inner, k)
<1> PICK keys, y, z, m : keys = node[l].keys /\ y = LeftHalf(keys, k) /\ z = RightHalf(keys, k) /\ m = node[l].next
    OBVIOUS
<1> PICK a, b, s : a = Leaf(y, node[l].prev, n) /\ b = Leaf(z, l, m) /\ s = [node EXCEPT ![l] = a, ![n] = b]
    OBVIOUS
<1>1. Halves(l, n, k) = IF m = Null THEN s ELSE [s EXCEPT ![m].prev = n]
    BY DEF Halves, LeftHalf, RightHalf
<1>2. /\ l \in NodeIds /\ n \in NodeIds /\ q \in NodeIds /\ l # n /\ q # l /\ q # n
      /\ node[l].prev \in NodeIds \cup {Null} /\ m \in NodeIds \cup {Null}
      /\ node[l] \in LeafRecords
    BY KindsAre, AliveIs, KeysAre
<1>3. DOMAIN node = NodeIds
    BY DEF Trees
<1>4. s[l] = a /\ s[n] = b /\ (\A c \in NodeIds \ {l, n} : s[c] = node[c]) /\ DOMAIN s = NodeIds
    BY <1>2, <1>3
<1>5. /\ a \in LeafRecords /\ a.kind = "leaf" /\ a.keys = y /\ a.prev = node[l].prev /\ a.next = n
      /\ b \in LeafRecords /\ b.kind = "leaf" /\ b.keys = z /\ b.prev = l /\ b.next = m
    BY <1>2 DEF LeafRecords, Leaf
<1>6. inner.kind = "inner"
    BY DEF InnerRecords
<1>7. m # Null => m \in Leaves(node) /\ m \in NodeIds \ {l, n, q} /\ node[m] \in LeafRecords
  <2> SUFFICES ASSUME m # Null PROVE m \in Leaves(node) /\ m \in NodeIds \ {l, n, q} /\ node[m] \in LeafRecords
      OBVIOUS
  <2>1. m \in Leaves(node) /\ m # l /\ m \in NodeIds
      BY AliveIs
  <2>2. m \in Alive(node) /\ node[m] \in LeafRecords
      BY <2>1, KindsAre
  <2> QED
      BY <2>1, <2>2
\* The other nodes, and the one that follows n.
<1>8. /\ t2 = [c \in NodeIds |-> t2[c]] /\ t2[l] = a /\ t2[n] = b /\ t2[q] = inner
      /\ \A c \in NodeIds \ {l, n, q} : c # m => t2[c] = node[c]
      /\ m # Null => t2[m] = [node[m] EXCEPT !.prev = n]
  <2>1. CASE m = Null
    <3>1. t2 = [s EXCEPT ![q] = inner]
        BY <1>1, <2>1
    <3> QED
        BY <1>2, <1>4, <2>1, <3>1
  <2>2. CASE m # Null
    <3>1. t2 = [[s EXCEPT ![m].prev = n] EXCEPT ![q] = inner]
        BY <1>1, <2>2
    <3> QED
        BY <1>2, <1>4, <1>7, <2>2, <3>1
  <2> QED
      BY <2>1, <2>2
<1>9. m # Null => /\ t2[m] \in LeafRecords /\ t2[m].kind = "leaf" /\ t2[m].keys = node[m].keys
                  /\ t2[m].next = node[m].next /\ t2[m].prev = n
    BY <1>2, <1>7, <1>8 DEF LeafRecords
<1>10. t2 \in Trees
  <2>1. ASSUME NEW c \in NodeIds PROVE t2[c] \in {Unallocated} \cup LeafRecords \cup InnerRecords
    <3>1. CASE c \in {l, n, q}
        BY <1>5, <1>8, <3>1
    <3>2. CASE c \notin {l, n, q} /\ c = m
      <4>1. m # Null
          BY <3>2, SmallFacts
      <4> QED
          BY <1>9, <3>2, <4>1
    <3>3. CASE c \notin {l, n, q} /\ c # m
      <4>1. node[c] \in {Unallocated} \cup LeafRecords \cup InnerRecords
          BY DEF Trees
      <4> QED
          BY <1>8, <3>3, <4>1
    <3> QED
        BY <3>1, <3>2, <3>3
  <2> QED
      BY <1>8, <2>1 DEF Trees
<1>11. q \in Inners(t2) /\ {l, n} \subseteq Leaves(t2)
    BY <1>2, <1>5, <1>6, <1>8 DEF Inners, Leaves
<1>12. Links(node, t2, l, n)
  <2>1. t2[l].prev = node[l].prev /\ t2[l].next = n /\ t2[n].prev = l /\ t2[n].next = node[l].next
      BY <1>5, <1>8
  <2>2. ASSUME NEW c \in Leaves(node) \ {l}
        PROVE  t2[c].next = node[c].next /\ t2[c].prev = IF c = node[l].next THEN n ELSE node[c].prev
    <3>1. c \in NodeIds /\ c \in Alive(node)
        BY AliveIs, KindsAre
    <3>2. c \in NodeIds \ {l, n, q} /\ c # Null
        BY <3>1, SmallFacts
    <3> QED
        BY <1>8, <1>9, <3>2
  <2> QED
      BY <2>1, <2>2 DEF Links
<1>13. ASSUME NEW c \in NodeIds \ {l, n, q}
       PROVE  /\ c \in Leaves(t2) <=> c \in Leaves(node)
              /\ c \in Inners(t2) <=> c \in Inners(node)
              /\ c \in Inners(node) => t2[c] = node[c]
              /\ c \in Leaves(node) => t2[c].keys = node[c].keys
  <2>1. CASE c = m
    <3>1. m # Null
        BY <2>1, SmallFacts
    <3>2. t2[c].kind = "leaf" /\ node[c].kind = "leaf" /\ t2[c].keys = node[c].keys
        BY <1>7, <1>9, <2>1, <3>1 DEF Leaves
    <3> QED
        BY <3>2 DEF Leaves, Inners
  <2>2. CASE c # m
    <3>1. t2[c] = node[c]
        BY <1>8, <2>2
    <3> QED
        BY <3>1 DEF Leaves, Inners
  <2> QED
      BY <2>1, <2>2
<1> QED
    BY <1>5, <1>8, <1>10, <1>11, <1>12, <1>13 DEF LeafSplit

\* The parent after its child a has given birth to right.
Updated(w, inner, a, sep, right) ==
  w \in InnerRecords /\ IsInserted(w.seps, inner.seps, a, sep) /\ IsInsertedAfter(w.kids, inner.kids, a, right)

LEMMA UpdatedIs ==
  ASSUME NEW t, NEW r, NEW lo, NEW hi, NEW h, NEW up, Skeleton(t, r, lo, hi, h, up), SepsFit(t, lo),
         NEW q \in Inners(t), NEW a \in 1 .. Len(t[q].kids), NEW x \in Int,
         lo[t[q].kids[a]] < x, x < hi[t[q].kids[a]],
         NEW right \in NodeIds, NEW sep \in NodeIds \X Keys, sep[2] = x
  PROVE  Updated(UpdateSplittedChild(t[q], sep, right), t[q], a, sep, right)
<1> PICK c, seps, kids : c = t[q].kids[a] /\ seps = t[q].seps /\ kids = t[q].kids
    OBVIOUS
<1>1. t \in Trees /\ lo[c] \in Int
  <2>1. c \in Alive(t) /\ Ghosts(lo, hi, h, up) /\ t \in Trees
      BY KidIsInside DEF Skeleton
  <2> QED
      BY <2>1, AliveIs DEF Ghosts
<1>2. Covers(lo, hi, c, x)
    BY <1>1 DEF Covers
<1>3. LessThan(seps, x) = a - 1
    BY <1>2, SepsBelow
<1>4. /\ seps \in Seq(NodeIds \X Keys) /\ kids \in Seq(NodeIds) /\ Len(kids) \in Nat /\ Len(seps) \in Nat
      /\ Len(seps) = Len(kids) - 1
    BY <1>1, KidsAre DEF SepsFit
<1> PICK w1, w2 : w1 = InsertAt(seps, a, sep) /\ w2 = InsertAt(kids, a + 1, right)
    OBVIOUS
<1>5. UpdateSplittedChild(t[q], sep, right) = Inner(w1, w2)
  <2>1. LessThan(seps, x) + 1 = a
      BY <1>3
  <2> QED
      BY <2>1 DEF UpdateSplittedChild
<1>6. a \in 1 .. Len(seps) + 1 /\ a + 1 \in 1 .. Len(kids) + 1
    BY <1>4
<1>7. w1 \in Seq(NodeIds \X Keys) /\ IsInserted(w1, seps, a, sep)
    BY <1>4, <1>6, InsertAtIs
<1>8. w2 \in Seq(NodeIds) /\ IsInsertedAfter(w2, kids, a, right)
    BY <1>4, <1>6, InsertAtIs DEF IsInsertedAfter
<1>9. Inner(w1, w2) \in InnerRecords /\ Inner(w1, w2).seps = w1 /\ Inner(w1, w2).kids = w2
    BY <1>7, <1>8 DEF Inner, InnerRecords
<1> QED
    BY <1>5, <1>7, <1>8, <1>9 DEF Updated

\* What a transaction that splits l for k leaves in place q.
Above(l, n, q, x, up, inner) ==
  \/ l = root /\ q \notin Alive(node) /\ inner = NewRoot(<<n, x>>, l, n)
  \/ l # root /\ q = up[l] /\ Len(node[q].seps) < Capacity /\ inner = UpdateSplittedChild(node[q], <<n, x>>, n)

\* A tree from r that holds the keys of S.
TreeOf(t, r, S) == \E lo, hi, h, up : Tree(t, r, lo, hi, h, up) /\ Chain(t, r, lo, hi) /\ Held(t) = S

SplitsLeaf(t2, r2, k, l, n, q, y, up, inner) ==
  /\ l = FindLeaf(k) /\ Len(node[l].keys) = Capacity /\ y = node[l].keys[Half(node[l].keys) + 1]
  /\ n \in NodeIds \ Alive(node) /\ q \in NodeIds \ {l, n} /\ Above(l, n, q, y, up, inner)
  /\ t2 = [Halves(l, n, k) EXCEPT ![q] = inner] /\ r2 = IF l = root THEN q ELSE root

LEMMA LeafStep ==
  ASSUME NEW lo, NEW hi, NEW h, NEW up, Tree(node, root, lo, hi, h, up), Chain(node, root, lo, hi),
         NEW k \in Keys, k \notin Held(node), NEW t2, NEW r2, NEW l, NEW n, NEW q, NEW y, NEW inner,
         SplitsLeaf(t2, r2, k, l, n, q, y, up, inner)
  PROVE  TreeOf(t2, r2, Held(node) \cup {k})
<1> /\ l = FindLeaf(k) /\ Len(node[l].keys) = Capacity /\ y = node[l].keys[Half(node[l].keys) + 1]
    /\ n \in NodeIds \ Alive(node) /\ q \in NodeIds \ {l, n} /\ Above(l, n, q, y, up, inner)
    /\ t2 = [Halves(l, n, k) EXCEPT ![q] = inner] /\ r2 = IF l = root THEN q ELSE root
    BY DEF SplitsLeaf
<1>1. Skeleton(node, root, lo, hi, h, up) /\ SepsFit(node, lo) /\ node \in Trees
    BY DEF Tree, Skeleton
<1>2. l \in Leaves(node) /\ Covers(lo, hi, l, k) /\ ~Has(node[l].keys, k)
    BY FindIs DEF FoundIn
<1>3. /\ l \in NodeIds /\ l \in Alive(node) /\ lo[l] \in Int /\ hi[l] \in Int /\ lo[l] < hi[l]
    BY <1>1, <1>2, LeafBounds
<1>4. Ordered(node[l].keys, lo[l], hi[l])
    BY <1>2 DEF Tree, LeafFits
<1> PICK keys : keys = node[l].keys
    OBVIOUS
<1>5. PICK x \in Int :
        /\ x = keys[Half(keys) + 1] /\ lo[l] < x /\ x < hi[l]
        /\ Ordered(LeftHalf(keys, k), lo[l], x) /\ Len(LeftHalf(keys, k)) >= 1
        /\ Ordered(RightHalf(keys, k), x, hi[l]) /\ Len(RightHalf(keys, k)) >= 1 /\ RightHalf(keys, k)[1] = x
        /\ keys[1] < k => LeftHalf(keys, k)[1] = keys[1]
        /\ \A e : Has(LeftHalf(keys, k), e) \/ Has(RightHalf(keys, k), e) <=> e = k \/ Has(keys, e)
    BY <1>2, <1>3, <1>4, HalvesAre DEF Covers
<1>6. TwoHalves(keys, LeftHalf(keys, k), RightHalf(keys, k), lo[l], x, hi[l], k)
    BY <1>5 DEF TwoHalves
<1>7. LeftHalf(keys, k) \in Seq(Keys) /\ RightHalf(keys, k) \in Seq(Keys) /\ x \in Keys
  <2>1. 1 \in 1 .. Len(RightHalf(keys, k))
      BY <1>5, OrderedIs
  <2> QED
      BY <1>5, <2>1, OrderedIs DEF Ordered
<1>8. node[l].next = Null \/ (node[l].next \in Leaves(node) /\ node[l].next # l)
  <2>1. NextIs(node, root, lo, hi, l)
      BY <1>2 DEF Chain
  <2> QED
      BY <1>3, <2>1 DEF NextIs
<1> PICK sep : sep = <<n, x>>
    OBVIOUS
<1>9. sep \in NodeIds \X Keys /\ sep[1] = n /\ sep[2] = x
    BY <1>7
<1>10. Above(l, n, q, x, up, inner)
    BY <1>5
<1>11. q \in Alive(node) => l # root /\ q = up[l] /\ q \in Inners(node) /\ IsKid(node, q, l)
    BY <1>1, <1>3, <1>10 DEF Above, Skeleton
<1>12. q \notin Leaves(node)
    BY <1>1, <1>11, KindsAre, AliveIs
<1>13. l # root => q \in Alive(node) /\ q \in Inners(node) /\ IsKid(node, q, l)
  <2>1. l # root => q = up[l] /\ up[l] \in Inners(node) /\ IsKid(node, up[l], l)
      BY <1>1, <1>3, <1>10 DEF Above, Skeleton
  <2> QED
      BY <1>1, <2>1, KindsAre, AliveIs
\* The parent that l had.
<1>14. ASSUME l # root, NEW a \in 1 .. Len(node[q].kids), node[q].kids[a] = l
       PROVE  Updated(inner, node[q], a, sep, n)
  <2>1. inner = UpdateSplittedChild(node[q], sep, n)
      BY <1>10, <1>14 DEF Above
  <2> QED
      BY <1>1, <1>5, <1>9, <1>13, <1>14, <2>1, UpdatedIs
<1>15. inner \in InnerRecords
  <2>1. CASE l = root
    <3>1. inner = Inner(<<sep>>, <<l, n>>)
        BY <1>10, <2>1 DEF Above, NewRoot
    <3>2. <<sep>> \in Seq(NodeIds \X Keys) /\ <<l, n>> \in Seq(NodeIds)
        BY <1>3, <1>9
    <3> QED
        BY <3>1, <3>2 DEF Inner, InnerRecords
  <2>2. CASE l # root
      BY <1>13, <1>14, <2>2 DEF IsKid, Updated
  <2> QED
      BY <2>1, <2>2
<1>16. LeafSplit(t2, l, n, q, inner, k)
    BY <1>1, <1>2, <1>7, <1>8, <1>12, <1>15, HalvesGive
<1>17. SplitAt(node, t2, root, lo, hi, up, l, n, q, 1, x)
  <2>1. Halved(node, t2, lo, l, n, 1, x)
      BY <1>2, <1>16 DEF Halved, LeafSplit
  <2>2. Adopted(node, t2, root, up, l, n, q)
    <3>1. CASE l = root
        BY <1>10, <1>16, <3>1 DEF Above, NewRoot, Inner, LeafSplit, Adopted
    <3>2. CASE l # root
      <4>1. PICK a \in 1 .. Len(node[q].kids) : node[q].kids[a] = l
          BY <1>13, <3>2 DEF IsKid
      <4>2. IsInsertedAfter(t2[q].kids, node[q].kids, a, n)
          BY <1>14, <1>16, <3>2, <4>1 DEF Updated, LeafSplit
      <4>3. Len(node[q].kids) <= Capacity
        <5>1. /\ Len(node[q].seps) < Capacity /\ Len(node[q].seps) = Len(node[q].kids) - 1
              /\ Len(node[q].kids) \in Nat /\ Capacity \in Nat
            BY <1>1, <1>10, <1>13, <3>2, KidsAre, SmallFacts DEF Above, SepsFit
        <5> QED
            BY <5>1
      <4> QED
          BY <1>10, <3>2, <4>1, <4>2, <4>3 DEF Above, Adopted
    <3> QED
        BY <3>1, <3>2
  <2>3. \A c \in NodeIds \ {l, n, q} : /\ c \in Leaves(t2) <=> c \in Leaves(node)
                                       /\ c \in Inners(t2) <=> c \in Inners(node)
                                       /\ c \in Inners(node) => t2[c].kids = node[c].kids
      BY <1>16 DEF LeafSplit
  <2>4. t2 \in Trees /\ q \in Inners(t2)
      BY <1>16 DEF LeafSplit
  <2> QED
      BY <1>5, <2>1, <2>2, <2>3, <2>4 DEF SplitAt
<1> PICK lo2, hi2, h2, up2 : Serve(node, root, lo, hi, h, up, l, n, q, 1, x, lo2, hi2, h2, up2)
    BY DEF Serve
<1>18. Values(node, root, lo, hi, h, up, l, n, q, 1, x, lo2, hi2, h2, up2) /\ NodesOf(node, t2, root, h, up, l, n, q)
    BY <1>1, <1>3, <1>17, SplitValues, SplitNodes
<1>19. SepsMove(node, t2, root, lo2, l, n, q, 1, x, sep)
  <2>1. ASSUME NEW c \in Inners(node) \ {l, q} PROVE t2[c].seps = node[c].seps
    <3>1. c \in NodeIds /\ c \in Alive(node)
        BY <1>1, KindsAre, AliveIs
    <3> QED
        BY <1>16, <3>1 DEF LeafSplit
  <2>2. SepsHalved(node, t2, l, n, 1)
      BY <1>1, <1>2, <1>3, KindsAre DEF SepsHalved
  <2>3. SepAdopted(node, t2, root, l, q, sep)
    <3>1. CASE l = root
        BY <1>10, <1>16, <3>1 DEF Above, NewRoot, Inner, LeafSplit, SepAdopted
    <3>2. CASE l # root
        BY <1>14, <1>16, <3>2 DEF Updated, LeafSplit, SepAdopted
    <3> QED
        BY <3>1, <3>2
  <2>4. sep[1] \in Leaves(t2) /\ lo2[sep[1]] = x
      BY <1>9, <1>16, <1>18 DEF LeafSplit, Values
  <2> QED
      BY <1>9, <2>1, <2>2, <2>3, <2>4 DEF SepsMove
<1>20. TwoHalves(node[l].keys, t2[l].keys, t2[n].keys, lo[l], x, hi[l], k)
    BY <1>6, <1>16 DEF LeafSplit
<1>21. OthersKeep(node, t2, l)
  <2>1. ASSUME NEW c \in Leaves(node) \ {l} PROVE t2[c].keys = node[c].keys
    <3>1. c \in NodeIds /\ c \in Alive(node) /\ c # q
        BY <1>1, <1>12, KindsAre, AliveIs
    <3> QED
        BY <1>16, <3>1 DEF LeafSplit
  <2> QED
      BY <2>1 DEF OthersKeep
<1>22. Tree(t2, r2, lo2, hi2, h2, up2) /\ Held(t2) = Held(node) \cup {k}
  <2>1. n \in NodeIds /\ q \in NodeIds /\ 1 \in Int /\ l \in Leaves(node) /\ Covers(lo, hi, l, k) /\ ~Has(node[l].keys, k)
      BY <1>2
  <2>2. /\ Tree(node, root, lo, hi, h, up)
        /\ SplitAt(node, t2, root, lo, hi, up, l, n, q, 1, x)
        /\ Serve(node, root, lo, hi, h, up, l, n, q, 1, x, lo2, hi2, h2, up2)
        /\ SepsMove(node, t2, root, lo2, l, n, q, 1, x, sep)
        /\ TwoHalves(node[l].keys, t2[l].keys, t2[n].keys, lo[l], x, hi[l], k)
        /\ OthersKeep(node, t2, l)
        /\ r2 = IF l = root THEN q ELSE root
      BY <1>17, <1>19, <1>20, <1>21
  <2> QED
      BY ONLY <2>1, <2>2, TreeSplitsLeaf, k \in Keys, x \in Int
<1>23. Chain(t2, r2, lo2, hi2)
  <2>1. Links(node, t2, l, n)
      BY <1>16 DEF LeafSplit
  <2> QED
      BY <1>1, <1>2, <1>17, <2>1, ChainSplits
<1> QED
    BY <1>22, <1>23 DEF TreeOf

-----------------------------------------------------------------------------
(* An inner node is split.                                                 *)

LEMMA InnerIs ==
  ASSUME NEW seps \in Seq(NodeIds \X Keys), NEW kids \in Seq(NodeIds)
  PROVE  Inner(seps, kids) \in InnerRecords /\ Inner(seps, kids).seps = seps /\ Inner(seps, kids).kids = kids
BY DEF Inner, InnerRecords

LEMMA CutIs ==
  ASSUME NEW X, NEW q \in Seq(X), NEW n, n = Len(q), NEW a \in 1 .. n + 1, NEW b \in 0 .. n, a <= b + 1,
         NEW w, w = SubSeq(q, a, b)
  PROVE  w \in Seq(X) /\ Len(w) = b - a + 1
BY SubSeqIs

\* The halves of inner are the records left and right; b children stay.
Parts(inner, left, right, sep, b) ==
  /\ left \in InnerRecords /\ right \in InnerRecords /\ sep \in NodeIds \X Keys
  /\ left.kids = SubSeq(inner.kids, 1, b) /\ right.kids = SubSeq(inner.kids, b + 1, Len(inner.kids))
  /\ left.seps = SubSeq(inner.seps, 1, b - 1) /\ right.seps = SubSeq(inner.seps, b + 1, Len(inner.seps))
  /\ sep = inner.seps[b] /\ b \in 2 .. Len(inner.kids) - 2
  /\ Len(left.seps) < Capacity /\ Len(right.seps) < Capacity

LEMMA PartitionIs ==
  ASSUME NEW t, NEW r, NEW lo, NEW hi, NEW h, NEW up, Skeleton(t, r, lo, hi, h, up), SepsFit(t, lo),
         NEW src \in Inners(t), Len(t[src].seps) = Capacity
  PROVE  \E b \in Nat :
           /\ Parts(t[src], Partition(t[src]).left, Partition(t[src]).right, Partition(t[src]).key, b)
           /\ Partition(t[src]).key[2] = lo[t[src].kids[b + 1]]
           /\ lo[src] < lo[t[src].kids[b + 1]] /\ lo[t[src].kids[b + 1]] < hi[src]
<1> PICK seps, kids, m : seps = t[src].seps /\ kids = t[src].kids /\ m = Half(seps)
    OBVIOUS
<1> PICK b, v, g : b = m + 1 /\ v = Len(seps) /\ g = Len(kids)
    OBVIOUS
<1>1. /\ t \in Trees /\ seps \in Seq(NodeIds \X Keys) /\ kids \in Seq(NodeIds)
      /\ v = Capacity /\ Capacity \in Nat /\ Capacity >= 3 /\ g \in Nat /\ v = g - 1
  <2>1. t \in Trees
      BY DEF Skeleton
  <2> QED
      BY <2>1, KidsAre, SmallFacts DEF SepsFit
<1>2. m \in 1 .. v - 2
  <2>1. m = v \div 2
      BY DEF Half
  <2>2. v \in Nat /\ v >= 3
      BY <1>1
  <2> QED
      BY ONLY <2>1, <2>2
<1>3. /\ b \in 2 .. g - 2 /\ b \in Nat /\ b - 1 = m /\ b + 1 = m + 2 /\ b \in 1 .. v
      /\ 1 \in 1 .. v + 1 /\ m \in 0 .. v /\ 1 <= m + 1 /\ m - 1 + 1 = m
      /\ m + 2 \in 1 .. v + 1 /\ v \in 0 .. v /\ m + 2 <= v + 1 /\ v - (m + 2) + 1 = v - m - 1
      /\ 1 \in 1 .. g + 1 /\ b \in 0 .. g /\ 1 <= b + 1
      /\ m + 2 \in 1 .. g + 1 /\ g \in 0 .. g /\ m + 2 <= g + 1
      /\ m < v /\ v - m - 1 < v /\ b + 1 \in 1 .. g /\ b + 1 > 1
  <2>1. b = m + 1 /\ v \in Nat /\ g = v + 1 /\ m \in 1 .. v - 2
      BY <1>1, <1>2
  <2> QED
      BY ONLY <2>1
<1> PICK s1, s2, k1, k2 :
      /\ s1 = SubSeq(seps, 1, m) /\ s2 = SubSeq(seps, m + 2, v)
      /\ k1 = SubSeq(kids, 1, b) /\ k2 = SubSeq(kids, m + 2, g)
    OBVIOUS
<1>4. s1 \in Seq(NodeIds \X Keys) /\ Len(s1) = m
  <2> PICK X : X = NodeIds \X Keys
      OBVIOUS
  <2>1. seps \in Seq(X) /\ v = Len(seps) /\ 1 \in 1 .. v + 1 /\ m \in 0 .. v /\ 1 <= m + 1 /\ s1 = SubSeq(seps, 1, m)
      BY <1>1, <1>3
  <2>2. s1 \in Seq(X) /\ Len(s1) = m - 1 + 1
      BY ONLY <2>1, CutIs
  <2>3. s1 \in Seq(NodeIds \X Keys) /\ Len(s1) = m - 1 + 1
      BY <2>2
  <2> QED
      BY <1>3, <2>3
<1>5. s2 \in Seq(NodeIds \X Keys) /\ Len(s2) = v - m - 1
  <2> PICK X, c : X = NodeIds \X Keys /\ c = m + 2
      OBVIOUS
  <2>1. seps \in Seq(X) /\ v = Len(seps) /\ c \in 1 .. v + 1 /\ v \in 0 .. v /\ c <= v + 1 /\ s2 = SubSeq(seps, c, v)
      BY <1>1, <1>3
  <2>2. s2 \in Seq(X) /\ Len(s2) = v - c + 1
      BY ONLY <2>1, CutIs
  <2>3. s2 \in Seq(NodeIds \X Keys) /\ Len(s2) = v - (m + 2) + 1
      BY <2>2
  <2> QED
      BY <1>3, <2>3
<1>6. k1 \in Seq(NodeIds) /\ k2 \in Seq(NodeIds)
    BY <1>1, <1>3, SubSeqIs
<1>7. seps[b] \in NodeIds \X Keys
    BY <1>1, <1>3, ElementOfSeq
<1> PICK p : p = Partition(t[src])
    OBVIOUS
<1>8. p.left = Inner(s1, k1) /\ p.key = seps[b] /\ p.right = Inner(s2, k2)
  <2>1. p = [left |-> Inner(s1, k1), key |-> seps[b], right |-> Inner(s2, k2)]
      BY DEF Partition
  <2> QED
      BY <2>1
<1>9. /\ p.left \in InnerRecords /\ p.left.seps = s1 /\ p.left.kids = k1
      /\ p.right \in InnerRecords /\ p.right.seps = s2 /\ p.right.kids = k2
  <2>1. Inner(s1, k1) \in InnerRecords /\ Inner(s1, k1).seps = s1 /\ Inner(s1, k1).kids = k1
    <3>1. s1 \in Seq(NodeIds \X Keys) /\ k1 \in Seq(NodeIds)
        BY <1>4, <1>6
    <3> QED
        BY ONLY <3>1, InnerIs
  <2>2. Inner(s2, k2) \in InnerRecords /\ Inner(s2, k2).seps = s2 /\ Inner(s2, k2).kids = k2
    <3>1. s2 \in Seq(NodeIds \X Keys) /\ k2 \in Seq(NodeIds)
        BY <1>5, <1>6
    <3> QED
        BY ONLY <3>1, InnerIs
  <2> QED
      BY <1>8, <2>1, <2>2
<1>10. Parts(t[src], p.left, p.right, p.key, b)
    BY <1>1, <1>3, <1>4, <1>5, <1>7, <1>8, <1>9 DEF Parts
<1>11. p.key[2] = lo[kids[b + 1]]
    BY <1>3, <1>8 DEF SepsFit
<1>12. lo[src] < lo[kids[b + 1]] /\ lo[kids[b + 1]] < hi[src]
  <2> PICK c : c = kids[b + 1]
      OBVIOUS
  <2>1. c \in Alive(t) /\ Inside(lo, hi, h, c, src) /\ lo[src] < lo[c]
    <3>1. b + 1 \in 1 .. Len(t[src].kids) /\ b + 1 > 1 /\ c = t[src].kids[b + 1]
        BY <1>3
    <3> QED
        BY ONLY Skeleton(t, r, lo, hi, h, up), src \in Inners(t), <3>1, KidIsInside
  <2>2. lo[c] < hi[c] /\ hi[c] <= hi[src]
      BY <2>1 DEF Skeleton, Inside
  <2>3. lo[c] \in Int /\ hi[c] \in Int /\ hi[src] \in Int
      BY <2>1, AliveIs DEF Skeleton, Ghosts
  <2> QED
      BY <2>1, <2>2, <2>3
<1> QED
    BY <1>3, <1>10, <1>11, <1>12

\* What a transaction that splits the inner node src leaves in place q.
AboveInner(src, n, q, sep, up, inner) ==
  \/ src = root /\ q \notin Alive(node) /\ inner = NewRoot(sep, src, n)
  \/ src # root /\ q = up[src] /\ Len(node[q].seps) < Capacity /\ inner = UpdateSplittedChild(node[q], sep, n)

\* What the split leaves as it is, and what it makes.
InnerSplit(t2, lo, hi, h, up, lo2, hi2, h2, up2, src, n, q, b, x) ==
  /\ Values(node, root, lo, hi, h, up, src, n, q, b, x, lo2, hi2, h2, up2) /\ NodesOf(node, t2, root, h, up, src, n, q)
  /\ \A c \in Alive(node) \ {src, q} : t2[c] = node[c]
  /\ {src, n, q} \subseteq Inners(t2) /\ Len(t2[src].seps) < Capacity /\ Len(t2[n].seps) < Capacity
  /\ IsKid(t2, q, src) /\ IsKid(t2, q, n) /\ b \in Int /\ b >= 1

SplitsInner(t2, r2, src, n, q, p, up, inner) ==
  /\ src \in Inners(node) /\ Len(node[src].seps) = Capacity /\ p = Partition(node[src])
  /\ n \in NodeIds \ Alive(node) /\ q \in NodeIds \ {src, n} /\ AboveInner(src, n, q, p.key, up, inner)
  /\ t2 = [node EXCEPT ![src] = p.left, ![n] = p.right, ![q] = inner]
  /\ r2 = IF src = root THEN q ELSE root
InnerDone(t2, r2, lo, hi, h, up, src, n, q) ==
  \E lo2, hi2, h2, up2, b, x :
    /\ Tree(t2, r2, lo2, hi2, h2, up2) /\ Chain(t2, r2, lo2, hi2) /\ Held(t2) = Held(node)
    /\ InnerSplit(t2, lo, hi, h, up, lo2, hi2, h2, up2, src, n, q, b, x)

LEMMA InnerStep ==
  ASSUME NEW lo, NEW hi, NEW h, NEW up, Tree(node, root, lo, hi, h, up), Chain(node, root, lo, hi),
         NEW t2, NEW r2, NEW src, NEW n, NEW q, NEW p, NEW inner, SplitsInner(t2, r2, src, n, q, p, up, inner)
  PROVE  InnerDone(t2, r2, lo, hi, h, up, src, n, q)
<1> /\ src \in Inners(node) /\ Len(node[src].seps) = Capacity /\ p = Partition(node[src])
    /\ n \in NodeIds \ Alive(node) /\ q \in NodeIds \ {src, n} /\ AboveInner(src, n, q, p.key, up, inner)
    /\ t2 = [node EXCEPT ![src] = p.left, ![n] = p.right, ![q] = inner]
    /\ r2 = IF src = root THEN q ELSE root
    BY DEF SplitsInner
<1>1. Skeleton(node, root, lo, hi, h, up) /\ SepsFit(node, lo) /\ node \in Trees /\ Ghosts(lo, hi, h, up)
    BY DEF Tree, Skeleton
<1>2. src \in NodeIds /\ src \in Alive(node) /\ src \notin Leaves(node)
    BY <1>1, KindsAre, AliveIs
<1> PICK seps, kids, sep : seps = node[src].seps /\ kids = node[src].kids /\ sep = p.key
    OBVIOUS
<1>3. PICK b \in Nat :
        /\ Parts(node[src], p.left, p.right, p.key, b) /\ p.key[2] = lo[kids[b + 1]]
        /\ lo[src] < lo[kids[b + 1]] /\ lo[kids[b + 1]] < hi[src]
    BY <1>1, PartitionIs
<1> PICK x : x = lo[kids[b + 1]]
    OBVIOUS
<1>4. /\ sep \in NodeIds \X Keys /\ sep[2] = x /\ sep = seps[b] /\ x \in Int /\ lo[src] < x /\ x < hi[src]
      /\ b \in 2 .. Len(kids) - 2
  <2>1. sep \in NodeIds \X Keys /\ sep[2] = x /\ sep = seps[b] /\ b \in 2 .. Len(kids) - 2
      BY <1>3 DEF Parts
  <2> QED
      BY <1>3, <2>1, SmallFacts
<1>5. src # root => q \in Alive(node) /\ q \in Inners(node) /\ IsKid(node, q, src)
  <2>1. src # root => q = up[src] /\ up[src] \in Inners(node) /\ IsKid(node, up[src], src)
      BY <1>1, <1>2 DEF AboveInner, Skeleton
  <2> QED
      BY <1>1, <2>1, KindsAre, AliveIs
<1>6. q \notin Leaves(node)
  <2>1. src = root => q \notin Alive(node)
      BY DEF AboveInner
  <2> QED
      BY <1>1, <1>5, <2>1, KindsAre, AliveIs
<1>7. ASSUME src # root, NEW a \in 1 .. Len(node[q].kids), node[q].kids[a] = src
      PROVE  Updated(inner, node[q], a, sep, n)
  <2>1. inner = UpdateSplittedChild(node[q], sep, n)
      BY <1>7 DEF AboveInner
  <2> QED
    <3>1. Skeleton(node, root, lo, hi, h, up) /\ SepsFit(node, lo) /\ q \in Inners(node) /\ n \in NodeIds
        BY <1>1, <1>5, <1>7
    <3>2. lo[node[q].kids[a]] < x /\ x < hi[node[q].kids[a]]
        BY <1>4, <1>7
    <3> QED
        BY ONLY <1>4, <2>1, <3>1, <3>2, a \in 1 .. Len(node[q].kids), UpdatedIs, Zenon
<1>8. inner \in InnerRecords
  <2>1. CASE src = root
    <3>1. inner = Inner(<<sep>>, <<src, n>>)
        BY <2>1 DEF AboveInner, NewRoot
    <3>2. <<sep>> \in Seq(NodeIds \X Keys) /\ <<src, n>> \in Seq(NodeIds)
        BY <1>2, <1>4
    <3> QED
        BY <3>1, <3>2 DEF Inner, InnerRecords
  <2>2. CASE src # root
      BY <1>5, <1>7, <2>2 DEF IsKid, Updated
  <2> QED
      BY <2>1, <2>2
<1>9. src = root => q \notin Alive(node) \cup {n} /\ inner.kids = <<src, n>> /\ inner.seps = <<sep>>
  <2> HAVE src = root
  <2>1. inner = Inner(<<sep>>, <<src, n>>) /\ q \notin Alive(node)
      BY DEF AboveInner, NewRoot
  <2>2. <<sep>> \in Seq(NodeIds \X Keys) /\ <<src, n>> \in Seq(NodeIds)
      BY <1>2, <1>4
  <2> QED
      BY <2>1, <2>2, InnerIs
<1>10. /\ p.left \in InnerRecords /\ p.right \in InnerRecords
      /\ p.left.kids = SubSeq(kids, 1, b) /\ p.right.kids = SubSeq(kids, b + 1, Len(kids))
      /\ p.left.seps = SubSeq(seps, 1, b - 1) /\ p.right.seps = SubSeq(seps, b + 1, Len(seps))
      /\ Len(p.left.seps) < Capacity /\ Len(p.right.seps) < Capacity
    BY <1>3 DEF Parts
<1>11. /\ t2[src] = p.left /\ t2[n] = p.right /\ t2[q] = inner /\ t2 \in Trees
       /\ \A c \in NodeIds \ {src, n, q} : t2[c] = node[c]
  <2>1. DOMAIN node = NodeIds
      BY <1>1 DEF Trees
  <2>2. /\ t2[src] = p.left /\ t2[n] = p.right /\ t2[q] = inner
        /\ \A c \in NodeIds \ {src, n, q} : t2[c] = node[c]
      BY <1>2, <2>1
  <2>3. t2 \in Trees
      BY <1>1, <1>2, <1>8, <1>10 DEF Trees
  <2> QED
      BY <2>2, <2>3
<1>12. \A c \in {src, n, q} : t2[c].kind = "inner"
    BY <1>8, <1>10, <1>11 DEF InnerRecords
<1>13. {src, n, q} \subseteq Inners(t2) /\ \A c \in {src, n, q} : c \notin Leaves(t2)
    BY <1>2, <1>12 DEF Inners, Leaves
<1>14. \A c \in NodeIds \ {src, n, q} : /\ c \in Leaves(t2) <=> c \in Leaves(node)
                                        /\ c \in Inners(t2) <=> c \in Inners(node)
                                        /\ c \in Inners(node) => t2[c].kids = node[c].kids
    BY <1>11 DEF Leaves, Inners
<1>15. Adopted(node, t2, root, up, src, n, q)
  <2>1. CASE src = root
      BY <1>11, <1>9, <2>1 DEF Adopted
  <2>2. CASE src # root
    <3>1. PICK a \in 1 .. Len(node[q].kids) : node[q].kids[a] = src
        BY <1>5, <2>2 DEF IsKid
    <3>2. IsInsertedAfter(t2[q].kids, node[q].kids, a, n)
        BY <1>7, <1>11, <2>2, <3>1 DEF Updated
    <3>3. Len(node[q].kids) <= Capacity
      <4>1. /\ Len(node[q].seps) < Capacity /\ Len(node[q].seps) = Len(node[q].kids) - 1
            /\ Len(node[q].kids) \in Nat /\ Capacity \in Nat
          BY <1>1, <1>5, <2>2, KidsAre, SmallFacts DEF AboveInner, SepsFit
      <4> QED
          BY <4>1
    <3> QED
        BY <2>2, <3>1, <3>2, <3>3 DEF AboveInner, Adopted
  <2> QED
      BY <2>1, <2>2
<1>16. Halved(node, t2, lo, src, n, b, x)
    BY <1>4, <1>10, <1>11, <1>13 DEF Halved
<1>17. SplitAt(node, t2, root, lo, hi, up, src, n, q, b, x)
    BY <1>4, <1>11, <1>13, <1>14, <1>15, <1>16 DEF SplitAt
<1> PICK lo2, hi2, h2, up2 : Serve(node, root, lo, hi, h, up, src, n, q, b, x, lo2, hi2, h2, up2)
    BY DEF Serve
<1>18. Values(node, root, lo, hi, h, up, src, n, q, b, x, lo2, hi2, h2, up2) /\ NodesOf(node, t2, root, h, up, src, n, q)
    BY <1>1, <1>2, <1>4, <1>17, SplitValues, SplitNodes
<1>19. \A c \in Inners(node) \ {src, q} : t2[c].seps = node[c].seps
  <2>1. \A c \in Inners(node) : c \in NodeIds \ {n}
      BY <1>1, KindsAre, AliveIs
  <2> QED
      BY <1>11, <2>1
<1>20. SepsHalved(node, t2, src, n, b)
    BY <1>10, <1>11 DEF SepsHalved
<1>21. SepAdopted(node, t2, root, src, q, node[src].seps[b])
  <2>1. CASE src = root
      BY <1>4, <1>11, <1>9, <2>1 DEF SepAdopted
  <2>2. CASE src # root
      BY <1>4, <1>7, <1>11, <2>2 DEF Updated, SepAdopted
  <2> QED
      BY <2>1, <2>2
<1>22. \A c \in Alive(node) \ {src, q} : t2[c] = node[c]
    BY <1>11, AliveIs
<1>23. \A c \in Leaves(node) : t2[c] = node[c] /\ c \in Alive(node) \ {src, q}
    BY <1>1, <1>2, <1>6, <1>22, KindsAre, AliveIs
<1>24. Tree(t2, r2, lo2, hi2, h2, up2) /\ Held(t2) = Held(node)
  <2>1. \A c \in Leaves(node) : t2[c].keys = node[c].keys
      BY <1>23
  <2>2. /\ n \in NodeIds /\ q \in NodeIds /\ x \in Int /\ src \in Inners(node)
        /\ Tree(node, root, lo, hi, h, up) /\ SplitAt(node, t2, root, lo, hi, up, src, n, q, b, x)
        /\ Serve(node, root, lo, hi, h, up, src, n, q, b, x, lo2, hi2, h2, up2)
        /\ r2 = IF src = root THEN q ELSE root
      BY <1>4, <1>17
  <2> QED
      BY ONLY <1>19, <1>20, <1>21, <2>1, <2>2, TreeSplitsInner
<1>25. Chain(t2, r2, lo2, hi2)
  <2>1. Leaves(t2) = Leaves(node)
      BY <1>1, <1>2, <1>4, <1>17, SplitLeaves
  <2>2. lo2[r2] = lo[root] /\ hi2[r2] = hi[root]
      BY <1>1, <1>2, <1>4, <1>17, SplitCovers
  <2>3. \A c \in Leaves(node) : t2[c].next = node[c].next /\ t2[c].prev = node[c].prev /\ lo2[c] = lo[c] /\ hi2[c] = hi[c]
      BY <1>18, <1>23 DEF Values
  <2>4. Chain(node, root, lo, hi)
      OBVIOUS
  <2> QED
      BY ONLY <2>1, <2>2, <2>3, <2>4, ChainKept
<1>26. IsKid(t2, q, src) /\ IsKid(t2, q, n)
  <2>1. CASE src = root
    <3>1. t2[q].kids = <<src, n>>
        BY <1>15, <2>1 DEF Adopted
    <3>2. Len(<<src, n>>) = 2 /\ <<src, n>>[1] = src /\ <<src, n>>[2] = n
        OBVIOUS
    <3>3. \A w : w = <<src, n>> => 1 \in 1 .. Len(w) /\ 2 \in 1 .. Len(w) /\ w[1] = src /\ w[2] = n
        BY <3>2
    <3> QED
        BY <3>1, <3>3 DEF IsKid
  <2>2. CASE src # root
    <3>1. PICK a \in 1 .. Len(node[q].kids) : node[q].kids[a] = src /\ IsInsertedAfter(t2[q].kids, node[q].kids, a, n)
        BY <1>15, <2>2 DEF Adopted
    <3> PICK g : g = Len(node[q].kids)
        OBVIOUS
    <3>2. g \in Nat /\ Len(t2[q].kids) = g + 1
        BY <1>1, <1>5, <2>2, <3>1, KidsAre DEF IsInsertedAfter, IsInserted
    <3>3. a \in 1 .. g + 1 /\ a + 1 \in 1 .. g + 1 /\ a < a + 1
        BY <3>2
    <3>4. \A j \in 1 .. g + 1 : t2[q].kids[j] = IF j < a + 1 THEN node[q].kids[j]
                                                 ELSE IF j = a + 1 THEN n ELSE node[q].kids[j - 1]
        BY <3>1 DEF IsInsertedAfter, IsInserted
    <3>5. t2[q].kids[a] = node[q].kids[a] /\ ~(a + 1 < a + 1)
      <4>1. a \in Int /\ a \in 1 .. g + 1
          BY <3>3
      <4>2. a < a + 1 /\ ~(a + 1 < a + 1)
          BY ONLY <4>1
      <4> QED
          BY <3>4, <4>1, <4>2
    <3>6. t2[q].kids[a + 1] = n
        BY <3>3, <3>4, <3>5
    <3> QED
        BY <3>1, <3>2, <3>3, <3>5, <3>6 DEF IsKid
  <2> QED
      BY <2>1, <2>2
<1>27. b \in Int /\ b >= 1
    BY <1>4
<1>28. InnerSplit(t2, lo, hi, h, up, lo2, hi2, h2, up2, src, n, q, b, x)
    BY <1>10, <1>11, <1>13, <1>18, <1>22, <1>26, <1>27 DEF InnerSplit
<1> QED
    BY <1>24, <1>25, <1>28 DEF InnerDone

-----------------------------------------------------------------------------
(* The transactions of one insertion.                                      *)

\* w leads on to the full leaf for k, by full nodes; p, which is not full, is above them.
OnWay(t, lo, hi, h, up, k, p, w) ==
  /\ w \in Seq(NodeIds) /\ Len(w) >= 1
  /\ \A i \in 1 .. Len(w) : w[i] \in Alive(t) /\ Covers(lo, hi, w[i], k)
  /\ \A i \in 1 .. Len(w) - 1 : w[i] \in Inners(t) /\ Len(t[w[i]].seps) = Capacity /\ up[w[i + 1]] = w[i]
  /\ \A i, j \in 1 .. Len(w) : i < j => h[w[j]] < h[w[i]]
  /\ w[Len(w)] \in Leaves(t) /\ Len(t[w[Len(w)]].keys) = Capacity
  /\ up[w[1]] = p
  /\ IF p = Null THEN Len(w) >= 2 ELSE p \in Inners(t) /\ Len(t[p].seps) < Capacity

\* Which of the halves goes on towards k.
LEMMA HalfForKey ==
  ASSUME NEW lo, NEW hi, NEW h, NEW up, Skeleton(node, root, lo, hi, h, up),
         NEW src \in Inners(node), NEW n \in NodeIds \ Alive(node), NEW q \in NodeIds \ {src, n}, NEW k \in Int, Covers(lo, hi, src, k),
         NEW t2, NEW r2, NEW lo2, NEW hi2, NEW h2, NEW up2, Tree(t2, r2, lo2, hi2, h2, up2), NEW b, NEW x,
         InnerSplit(t2, lo, hi, h, up, lo2, hi2, h2, up2, src, n, q, b, x),
         NEW d \in {src, n}, Covers(lo2, hi2, d, k)
  PROVE  d = ChildIn(t2, q, k)
<1>1. Skeleton(t2, r2, lo2, hi2, h2, up2) /\ SepsFit(t2, lo2) /\ q \in Inners(t2) /\ IsKid(t2, q, d)
    BY DEF Tree, InnerSplit
<1>2. PICK j \in 1 .. Len(t2[q].kids) : t2[q].kids[j] = d
    BY <1>1 DEF IsKid
<1>3. Covers(lo2, hi2, q, k)
  <2>1. Inside(lo2, hi2, h2, d, q) /\ d \in Alive(t2)
      BY <1>1, <1>2, KidIsInside
  <2>2. lo2[q] <= lo2[d] /\ hi2[d] <= hi2[q] /\ lo2[d] <= k /\ k < hi2[d]
      BY <2>1 DEF Inside, Covers
  <2>3. lo2[q] \in Int /\ lo2[d] \in Int /\ hi2[q] \in Int /\ hi2[d] \in Int
      BY <1>1, <2>1, AliveIs DEF Skeleton, Ghosts
  <2> QED
      BY <2>2, <2>3 DEF Covers
<1>4. PICK i \in 1 .. Len(t2[q].kids) : Covers(lo2, hi2, t2[q].kids[i], k) /\ ChildIn(t2, q, k) = t2[q].kids[i]
    BY <1>1, <1>3, ChildIs
<1>5. i = j
  <2>1. PICK g \in 1 .. Len(t2[q].kids) :
          /\ Covers(lo2, hi2, t2[q].kids[g], k)
          /\ \A y \in 1 .. Len(t2[q].kids) : Covers(lo2, hi2, t2[q].kids[y], k) => y = g
      BY <1>1, <1>3, KidCovers
  <2> QED
      BY <1>2, <1>4, <2>1
<1> QED
    BY <1>2, <1>4, <1>5

LEMMA WayAfterSplit ==
  ASSUME NEW lo, NEW hi, NEW h, NEW up, Skeleton(node, root, lo, hi, h, up), NEW k \in Int, NEW p, NEW w,
         OnWay(node, lo, hi, h, up, k, p, w), Len(w) >= 2, NEW src, src = w[1],
         NEW n \in NodeIds \ Alive(node), NEW q \in NodeIds \ {src, n},
         NEW t2, NEW r2, NEW lo2, NEW hi2, NEW h2, NEW up2, Tree(t2, r2, lo2, hi2, h2, up2), NEW b, NEW x,
         InnerSplit(t2, lo, hi, h, up, lo2, hi2, h2, up2, src, n, q, b, x)
  PROVE  OnWay(t2, lo2, hi2, h2, up2, k, ChildIn(t2, q, k), Tail(w))
<1> PICK g, v, p2 : g = Len(w) /\ v = Tail(w) /\ p2 = ChildIn(t2, q, k)
    OBVIOUS
<1>1. /\ w \in Seq(NodeIds) /\ g \in Nat /\ g >= 2
      /\ \A i \in 1 .. g : w[i] \in Alive(node) /\ Covers(lo, hi, w[i], k)
      /\ \A i \in 1 .. g - 1 : w[i] \in Inners(node) /\ Len(node[w[i]].seps) = Capacity /\ up[w[i + 1]] = w[i]
      /\ \A i, j \in 1 .. g : i < j => h[w[j]] < h[w[i]]
      /\ w[g] \in Leaves(node) /\ Len(node[w[g]].keys) = Capacity
    BY LenProperties DEF OnWay
<1>2. /\ Values(node, root, lo, hi, h, up, src, n, q, b, x, lo2, hi2, h2, up2) /\ NodesOf(node, t2, root, h, up, src, n, q)
      /\ \A c \in Alive(node) \ {src, q} : t2[c] = node[c]
      /\ {src, n, q} \subseteq Inners(t2) /\ Len(t2[src].seps) < Capacity /\ Len(t2[n].seps) < Capacity
    BY DEF InnerSplit
<1>3. v \in Seq(NodeIds) /\ Len(v) = g - 1 /\ \A i \in 1 .. g - 1 : v[i] = w[i + 1]
  <2>1. w # <<>>
      BY <1>1
  <2> QED
      BY <1>1, <2>1, HeadTailProperties
<1>4. src \in Inners(node) /\ src \in Alive(node) /\ Covers(lo, hi, src, k) /\ src \in NodeIds
  <2>1. 1 \in 1 .. g /\ 1 \in 1 .. g - 1
      BY <1>1
  <2> QED
      BY <1>1, <2>1, AliveIs
<1>5. node \in Trees /\ Ghosts(lo, hi, h, up) /\ Skeleton(t2, r2, lo2, hi2, h2, up2) /\ t2 \in Trees /\ Ghosts(lo2, hi2, h2, up2)
    BY DEF Tree, Skeleton
\* The nodes behind the first are none of those that change.
<1>6. ASSUME NEW i \in 2 .. g
      PROVE  /\ w[i] \in Alive(node) \ {src, q, n} /\ w[i] \in NodeIds /\ t2[w[i]] = node[w[i]]
             /\ lo2[w[i]] = lo[w[i]] /\ hi2[w[i]] = hi[w[i]] /\ h2[w[i]] = h[w[i]]
             /\ w[i] \in Alive(t2) /\ Covers(lo2, hi2, w[i], k)
  <2>1. i \in 1 .. g /\ 1 \in 1 .. g /\ 1 < i
      BY <1>1
  <2>2. w[i] \in Alive(node) /\ Covers(lo, hi, w[i], k) /\ h[w[i]] < h[src] /\ w[i] \in NodeIds
      BY <1>1, <2>1, AliveIs
  <2>3. h[w[i]] \in Nat /\ h[src] \in Nat /\ h[q] \in Nat
      BY <1>4, <1>5, <2>2 DEF Ghosts
  <2>4. w[i] # src
      BY <2>2, <2>3
  <2>5. w[i] # q
    <3>1. CASE src = root
        BY <1>2, <2>2, <3>1 DEF NodesOf
    <3>2. CASE src # root
      <4>1. h[src] < h[q]
          BY <1>2, <3>2 DEF NodesOf
      <4> QED
          BY <2>2, <2>3, <4>1
    <3> QED
        BY <3>1, <3>2
  <2>6. lo2[w[i]] = lo[w[i]] /\ hi2[w[i]] = hi[w[i]] /\ h2[w[i]] = h[w[i]]
      BY <1>2, <2>2, <2>4 DEF Values
  <2>7. w[i] \in Alive(t2)
      BY <1>2, <2>2 DEF NodesOf
  <2> QED
      BY <1>2, <2>2, <2>4, <2>5, <2>6, <2>7 DEF Covers
<1>7. \A c \in NodeIds : t2[c] = node[c] => /\ c \in Inners(t2) <=> c \in Inners(node)
                                            /\ c \in Leaves(t2) <=> c \in Leaves(node)
    BY DEF Inners, Leaves
<1>8. \A c \in Moved(node, src, b) : up[c] = src
  <2> SUFFICES ASSUME NEW c \in Moved(node, src, b) PROVE up[c] = src
      OBVIOUS
  <2>1. PICK j \in b + 1 .. Len(node[src].kids) : node[src].kids[j] = c
      BY DEF Moved
  <2>2. \E j2 \in 1 .. Len(node[src].kids) : node[src].kids[j2] = c
    <3>1. b \in Int /\ b >= 1
        BY DEF InnerSplit
    <3> QED
        BY <2>1, <3>1
  <2>3. PICK j2 \in 1 .. Len(node[src].kids) : node[src].kids[j2] = c
      BY <2>2
  <2> QED
      BY <1>4, <2>3, KidIsInside
\* The second node of w goes with one of the halves, and that is the one for k.
<1>9. up2[w[2]] = p2 /\ p2 \in {src, n}
  <2> PICK d, c : d = w[2] /\ c = up2[d]
      OBVIOUS
  <2>1. d \in Alive(node) \ {src, q, n} /\ d \in Alive(t2) /\ Covers(lo2, hi2, d, k) /\ d \in NodeIds
      BY <1>1, <1>6
  <2>2. up[d] = src
    <3>1. 1 \in 1 .. g - 1 /\ 1 + 1 = 2
        BY <1>1
    <3> QED
        BY <1>1, <3>1
  <2>3. c \in {src, n}
      BY <1>2, <2>1, <2>2 DEF Values
  <2>4. d # r2
      BY <1>4, <1>5, <2>3, SmallFacts DEF Skeleton
  <2>5. c \in Inners(t2) /\ IsKid(t2, c, d)
      BY <1>5, <2>1, <2>4 DEF Skeleton
  <2>6. Inside(lo2, hi2, h2, d, c)
      BY <1>5, <2>5, KidIsInside DEF IsKid
  <2>7. Covers(lo2, hi2, c, k)
    <3>1. lo2[c] <= lo2[d] /\ hi2[d] <= hi2[c] /\ lo2[d] <= k /\ k < hi2[d]
        BY <2>1, <2>6 DEF Inside, Covers
    <3>2. c \in NodeIds /\ lo2[c] \in Int /\ lo2[d] \in Int /\ hi2[c] \in Int /\ hi2[d] \in Int
        BY <1>4, <1>5, <2>1, <2>3 DEF Ghosts
    <3> QED
        BY <3>1, <3>2 DEF Covers
  <2> QED
      BY <1>4, <2>3, <2>7, HalfForKey
<1>10. ASSUME NEW i \in 1 .. g - 1
       PROVE  /\ v[i] = w[i + 1] /\ i + 1 \in 2 .. g /\ v[i] \in Alive(t2) /\ Covers(lo2, hi2, v[i], k)
              /\ i < g - 1 => v[i] \in Inners(t2) /\ Len(t2[v[i]].seps) = Capacity /\ up2[v[i + 1]] = v[i]
  <2>1. i + 1 \in 2 .. g /\ i + 1 \in 1 .. g
      BY <1>1
  <2>2. v[i] = w[i + 1]
      BY <1>3
  <2>3. ASSUME i < g - 1 PROVE v[i] \in Inners(t2) /\ Len(t2[v[i]].seps) = Capacity /\ up2[v[i + 1]] = v[i]
    <3>1. i + 1 \in 1 .. g - 1 /\ (i + 1) + 1 \in 2 .. g
        BY <1>1, <2>3
    <3>2. w[i + 1] \in Inners(node) /\ Len(node[w[i + 1]].seps) = Capacity /\ up[w[(i + 1) + 1]] = w[i + 1]
        BY <1>1, <3>1
    <3>3. v[i + 1] = w[(i + 1) + 1]
        BY <1>3, <3>1
    <3>4. w[i + 1] \in Inners(t2) /\ Len(t2[w[i + 1]].seps) = Capacity
        BY <1>6, <1>7, <2>1, <3>2
    <3>5. up2[w[(i + 1) + 1]] = w[i + 1]
      <4> PICK c : c = w[(i + 1) + 1]
          OBVIOUS
      <4>1. c \in Alive(node) \ {src} /\ up[c] = w[i + 1] /\ w[i + 1] # src
          BY <1>6, <2>1, <3>1, <3>2
      <4>2. c \notin Moved(node, src, b)
          BY <1>8, <4>1
      <4> QED
          BY <1>2, <4>1, <4>2 DEF Values
    <3> QED
        BY <2>2, <3>3, <3>4, <3>5
  <2> QED
      BY <1>6, <2>1, <2>2, <2>3
<1>11. ASSUME NEW i \in 1 .. g - 1, NEW j \in 1 .. g - 1, i < j PROVE h2[v[j]] < h2[v[i]]
  <2>1. i + 1 \in 2 .. g /\ j + 1 \in 2 .. g /\ i + 1 \in 1 .. g /\ j + 1 \in 1 .. g /\ i + 1 < j + 1
      BY <1>1, <1>11
  <2>2. h[w[j + 1]] < h[w[i + 1]]
      BY <1>1, <2>1
  <2> QED
      BY <1>3, <1>6, <2>1, <2>2
<1>12. v[g - 1] \in Leaves(t2) /\ Len(t2[v[g - 1]].keys) = Capacity
  <2>1. g - 1 \in 1 .. g - 1 /\ g \in 2 .. g /\ (g - 1) + 1 = g
      BY <1>1
  <2>2. v[g - 1] = w[(g - 1) + 1]
      BY <1>3, <2>1
  <2>3. v[g - 1] = w[g] /\ w[g] \in NodeIds /\ t2[w[g]] = node[w[g]]
      BY <1>6, <2>1, <2>2
  <2> QED
      BY <1>1, <1>7, <2>3
<1>13. up2[v[1]] = p2
  <2>1. 1 \in 1 .. g - 1 /\ 1 + 1 = 2
      BY <1>1
  <2> QED
      BY <1>3, <1>9, <2>1
<1>14. p2 # Null /\ p2 \in Inners(t2) /\ Len(t2[p2].seps) < Capacity
    BY <1>2, <1>4, <1>9, SmallFacts
<1>15. Len(v) - 1 = (g - 1) - 1 /\ \A i \in 1 .. (g - 1) - 1 : i \in 1 .. g - 1 /\ i < g - 1
    BY <1>1, <1>3
<1>16. \A i \in 1 .. Len(v) - 1 : v[i] \in Inners(t2) /\ Len(t2[v[i]].seps) = Capacity /\ up2[v[i + 1]] = v[i]
    BY <1>10, <1>15
<1>17. \A i \in 1 .. Len(v) : v[i] \in Alive(t2) /\ Covers(lo2, hi2, v[i], k)
    BY <1>3, <1>10
<1>18. \A i, j \in 1 .. Len(v) : i < j => h2[v[j]] < h2[v[i]]
    BY <1>3, <1>11
<1>19. Len(v) >= 1
    BY <1>1, <1>3
<1> QED
    BY <1>3, <1>12, <1>13, <1>14, <1>16, <1>17, <1>18, <1>19 DEF OnWay

\* The inner nodes of w, which are still to be split.
ToSplit(ts, w) == ts \in Seq(NodeIds) /\ Len(ts) = Len(w) - 1 /\ \A i \in 1 .. Len(ts) : ts[i] = w[i]

LEMMA RestOfWay ==
  ASSUME NEW lo, NEW hi, NEW h, NEW up, Skeleton(node, root, lo, hi, h, up), NEW k \in Int, NEW p,
         Way(node, root, lo, hi, up, k, p), p[Len(p)] \in Leaves(node), Len(node[p[Len(p)]].keys) = Capacity,
         NEW g, g = Len(p), NEW c \in 1 .. g,
         \A j \in c .. g - 1 : Len(node[p[j]].seps) = Capacity,
         NEW pr, up[p[c]] = pr, IF pr = Null THEN c < g ELSE pr \in Inners(node) /\ Len(node[pr].seps) < Capacity
  PROVE  /\ OnWay(node, lo, hi, h, up, k, pr, SubSeq(p, c, g))
         /\ ToSplit(SubSeq(Front(p), c, g - 1), SubSeq(p, c, g))
<1>1. /\ p \in Seq(NodeIds) /\ g \in Nat /\ c \in Nat
      /\ \A i \in 1 .. g : p[i] \in Alive(node) /\ Covers(lo, hi, p[i], k)
      /\ \A i \in 1 .. g - 1 : p[i] \in Inners(node) /\ up[p[i + 1]] = p[i]
    BY LenProperties DEF Way
<1> PICK w, m : w = SubSeq(p, c, g) /\ m = g - c + 1
    OBVIOUS
<1>2. /\ w \in Seq(NodeIds) /\ Len(w) = m /\ \A j \in 1 .. m : w[j] = p[c + j - 1]
  <2>1. c \in 1 .. Len(p) + 1 /\ g \in 0 .. Len(p) /\ c <= g + 1
      BY <1>1
  <2> QED
      BY <1>1, <2>1, SubSeqIs
<1>3. m \in Nat /\ m >= 1 /\ c + m - 1 = g /\ c + 1 - 1 = c
    BY <1>1
<1>4. ASSUME NEW j \in 1 .. m
      PROVE  c + j - 1 \in 1 .. g /\ w[j] = p[c + j - 1] /\ w[j] \in Alive(node) /\ Covers(lo, hi, w[j], k)
  <2>1. c + j - 1 \in 1 .. g
      BY <1>1
  <2> QED
      BY <1>1, <1>2, <2>1
<1>5. ASSUME NEW j \in 1 .. m - 1
      PROVE  w[j] \in Inners(node) /\ Len(node[w[j]].seps) = Capacity /\ up[w[j + 1]] = w[j]
  <2>1. /\ c + j - 1 \in 1 .. g - 1 /\ c + j - 1 \in c .. g - 1 /\ j \in 1 .. m /\ j + 1 \in 1 .. m
        /\ (c + j - 1) + 1 = c + (j + 1) - 1
      BY <1>1
  <2>2. w[j] = p[c + j - 1] /\ w[j + 1] = p[c + (j + 1) - 1]
      BY <1>4, <2>1
  <2>3. p[c + j - 1] \in Inners(node) /\ up[p[(c + j - 1) + 1]] = p[c + j - 1] /\ Len(node[p[c + j - 1]].seps) = Capacity
      BY <1>1, <2>1
  <2> QED
      BY <2>1, <2>2, <2>3
<1>6. ASSUME NEW i \in 1 .. m, NEW j \in 1 .. m, i < j PROVE h[w[j]] < h[w[i]]
  <2>1. c + i - 1 \in 1 .. g /\ c + j - 1 \in 1 .. g /\ c + i - 1 < c + j - 1
      BY <1>1, <1>6
  <2>2. Inside(lo, hi, h, p[c + j - 1], p[c + i - 1])
      BY <2>1, WayGoesDown
  <2> QED
      BY <1>4, <2>2 DEF Inside
<1>7. w[1] = p[c] /\ w[m] = p[g]
  <2>1. 1 \in 1 .. m /\ m \in 1 .. m
      BY <1>3
  <2> QED
      BY <1>2, <1>3, <2>1
<1>8. IF pr = Null THEN m >= 2 ELSE pr \in Inners(node) /\ Len(node[pr].seps) < Capacity
  <2>1. c < g => m >= 2
      BY <1>1
  <2> QED
      BY <2>1
<1>9. OnWay(node, lo, hi, h, up, k, pr, w)
    BY <1>2, <1>3, <1>4, <1>5, <1>6, <1>7, <1>8 DEF OnWay
<1> PICK f : f = Front(p)
    OBVIOUS
<1>10. f \in Seq(NodeIds) /\ Len(f) = g - 1 /\ \A j \in 1 .. g - 1 : f[j] = p[j]
  <2>1. f = SubSeq(p, 1, g - 1) /\ 1 \in 1 .. Len(p) + 1 /\ g - 1 \in 0 .. Len(p) /\ 1 <= (g - 1) + 1 /\ (g - 1) - 1 + 1 = g - 1
      BY <1>1 DEF Front
  <2>2. /\ f \in Seq(NodeIds) /\ Len(f) = (g - 1) - 1 + 1
        /\ \A j \in 1 .. (g - 1) - 1 + 1 : f[j] = p[1 + j - 1]
      BY <1>1, <2>1, SubSeqIs
  <2>3. \A j \in 1 .. g - 1 : 1 + j - 1 = j
      BY <1>1
  <2> QED
      BY <2>1, <2>2, <2>3
<1> PICK ts : ts = SubSeq(f, c, g - 1)
    OBVIOUS
<1>11. ts \in Seq(NodeIds) /\ Len(ts) = m - 1 /\ \A j \in 1 .. m - 1 : ts[j] = f[c + j - 1]
  <2>1. /\ c \in 1 .. Len(f) + 1 /\ g - 1 \in 0 .. Len(f) /\ c <= (g - 1) + 1 /\ (g - 1) - c + 1 = m - 1
      BY <1>1, <1>10
  <2>2. /\ ts \in Seq(NodeIds) /\ Len(ts) = (g - 1) - c + 1
        /\ \A j \in 1 .. (g - 1) - c + 1 : ts[j] = f[c + j - 1]
      BY <1>10, <2>1, SubSeqIs
  <2> QED
      BY <2>1, <2>2
<1>12. ASSUME NEW j \in 1 .. m - 1 PROVE ts[j] = w[j]
  <2>1. c + j - 1 \in 1 .. g - 1 /\ j \in 1 .. m
      BY <1>1
  <2> QED
      BY <1>2, <1>10, <1>11, <2>1
<1>13. ToSplit(ts, w)
    BY <1>2, <1>11, <1>12 DEF ToSplit
<1> QED
    BY <1>9, <1>13

LEMMA FullIs ==
  ASSUME NEW lo, NEW hi, NEW h, NEW up, Tree(node, root, lo, hi, h, up)
  PROVE  /\ \A n \in Leaves(node) : /\ Full(n) => Len(node[n].keys) = Capacity
                                    /\ ~Full(n) => Len(node[n].keys) < Capacity
         /\ \A n \in Inners(node) : /\ Full(n) => Len(node[n].seps) = Capacity
                                    /\ ~Full(n) => Len(node[n].seps) < Capacity
<1>1. Skeleton(node, root, lo, hi, h, up) /\ SepsFit(node, lo) /\ node \in Trees
    BY DEF Tree, Skeleton
<1>2. ASSUME NEW n \in Leaves(node)
      PROVE  /\ Full(n) => Len(node[n].keys) = Capacity
             /\ ~Full(n) => Len(node[n].keys) < Capacity
  <2>1. IsLeaf(n)
      BY DEF IsLeaf, Leaves
  <2>2. Len(node[n].keys) <= Capacity /\ Len(node[n].keys) \in Nat
      BY OrderedIs DEF Tree, LeafFits
  <2> QED
      BY <2>1, <2>2, SmallFacts DEF Full
<1>3. ASSUME NEW n \in Inners(node)
      PROVE  /\ Full(n) => Len(node[n].seps) = Capacity
             /\ ~Full(n) => Len(node[n].seps) < Capacity
  <2>1. ~IsLeaf(n)
      BY DEF IsLeaf, Inners
  <2>2. Len(node[n].seps) = Len(node[n].kids) - 1 /\ Len(node[n].kids) \in Nat /\ Len(node[n].kids) <= Capacity + 1
      BY <1>1, KidsAre DEF SepsFit, Skeleton, Family
  <2>3. Len(node[n].seps) <= Capacity /\ Len(node[n].seps) \in Int
      BY <2>2, SmallFacts
  <2> QED
      BY <2>1, <2>3, SmallFacts DEF Full
<1> QED
    BY <1>2, <1>3

\* What StartSplit chooses to split.
LEMMA PlanIs ==
  ASSUME NEW lo, NEW hi, NEW h, NEW up, Tree(node, root, lo, hi, h, up), NEW k \in Keys,
         NEW path, path = Front(PathTo(k)), path # <<>>, Full(FindLeaf(k)), NEW i, i = Room(path)
  PROVE  /\ Full(path[i]) => \E w : /\ OnWay(node, lo, hi, h, up, k, Null, w)
                                    /\ ToSplit(SubSeq(path, i, Len(path)), w)
         /\ ~Full(path[i]) => \E w : /\ OnWay(node, lo, hi, h, up, k, path[i], w)
                                     /\ ToSplit(SubSeq(path, i + 1, Len(path)), w)
<1> PICK p, g : p = PathTo(k) /\ g = Len(p)
    OBVIOUS
<1>1. Skeleton(node, root, lo, hi, h, up) /\ SepsFit(node, lo) /\ k \in Int /\ Covers(lo, hi, root, k) /\ up[root] = Null
    BY SmallFacts DEF Tree, Skeleton
<1>2. Way(node, root, lo, hi, up, k, p) /\ FindLeaf(k) \in Leaves(node)
    BY <1>1, PathToIs
<1>3. /\ p \in Seq(NodeIds) /\ g \in Nat /\ g >= 1 /\ p[1] = root
      /\ \A j \in 1 .. g : p[j] \in Alive(node) /\ Covers(lo, hi, p[j], k)
      /\ \A j \in 1 .. g - 1 : p[j] \in Inners(node) /\ up[p[j + 1]] = p[j]
    BY <1>2, LenProperties DEF Way
<1>4. p[g] \in Leaves(node) /\ Len(node[p[g]].keys) = Capacity
  <2>1. p[g] = FindLeaf(k)
      BY DEF FindLeaf, Last
  <2> QED
      BY <1>2, <2>1, FullIs
<1>5. Len(path) = g - 1 /\ \A j \in 1 .. g - 1 : path[j] = p[j]
  <2>1. path = SubSeq(p, 1, g - 1) /\ 1 \in 1 .. Len(p) + 1 /\ g - 1 \in 0 .. Len(p) /\ 1 <= (g - 1) + 1 /\ (g - 1) - 1 + 1 = g - 1
      BY <1>3 DEF Front
  <2>2. Len(path) = (g - 1) - 1 + 1 /\ \A j \in 1 .. (g - 1) - 1 + 1 : path[j] = p[1 + j - 1]
      BY <1>3, <2>1, SubSeqIs
  <2>3. \A j \in 1 .. g - 1 : 1 + j - 1 = j
      BY <1>3
  <2> QED
      BY <2>1, <2>2, <2>3
<1>6. g >= 2
  <2> SUFFICES ASSUME g = 1 PROVE FALSE
      BY <1>3
  <2>1. path = SubSeq(p, 1, 0)
      BY DEF Front
  <2>2. path = <<>>
      BY <1>3, <1>5, <2>1, EmptySeq
  <2> QED
      BY <2>2
<1> PICK roomy : roomy = {j \in 2 .. Len(path) : ~Full(path[j])}
    OBVIOUS
<1>7. i = IF roomy = {} THEN 1 ELSE CHOOSE j \in roomy : \A y \in roomy : y <= j
    BY DEF Room
\* All nodes behind place i are full, and only in place 1 i may be.
<1>8. i \in 1 .. g - 1 /\ (Full(path[i]) => i = 1) /\ \A j \in i + 1 .. g - 1 : Full(path[j])
  <2>1. CASE roomy = {}
    <3>1. i = 1 /\ i \in 1 .. g - 1
        BY <1>3, <1>6, <1>7, <2>1
    <3>2. \A j \in 2 .. g - 1 : Full(path[j])
        BY <1>5, <2>1
    <3> QED
        BY <3>1, <3>2
  <2>2. CASE roomy # {}
    <3> DEFINE same == [j \in roomy |-> j]
    <3>1. roomy \in SUBSET (1 .. g - 1) /\ \A j \in roomy : j \in Int /\ same[j] = j
        BY <1>3, <1>5
    <3>2. IsFiniteSet(roomy)
      <4>1. IsFiniteSet(1 .. g - 1)
          BY <1>3, FS_Interval
      <4> QED
          BY <3>1, <4>1, FS_Subset
    <3> HIDE DEF same
    <3>3. Orders(same, roomy)
        BY <3>1, <3>2 DEF Orders
    <3>4. \E j \in roomy : \A y \in roomy : same[y] <= same[j]
        BY ONLY <2>2, <3>3, EndsExist
    <3>5. \E j \in roomy : \A y \in roomy : y <= j
        BY ONLY <3>1, <3>4
    <3>6. i \in roomy /\ \A y \in roomy : y <= i
        BY <1>7, <2>2, <3>5
    <3>7. i \in 2 .. g - 1 /\ ~Full(path[i])
        BY <1>5, <3>6
    <3>8. ASSUME NEW j \in i + 1 .. g - 1 PROVE Full(path[j])
      <4>1. j \in 2 .. g - 1 /\ j > i
          BY <1>3, <3>7
      <4>2. j \notin roomy
          BY <3>6, <3>7, <4>1
      <4> QED
          BY <1>5, <4>1, <4>2
    <3>9. i \in 1 .. g - 1
        BY <1>3, <3>7
    <3> QED
        BY <3>7, <3>8, <3>9
  <2> QED
      BY <2>1, <2>2
<1>9. \A j \in 1 .. g - 1 : /\ Full(path[j]) => Len(node[p[j]].seps) = Capacity
                            /\ ~Full(path[j]) => Len(node[p[j]].seps) < Capacity
    BY <1>3, <1>5, FullIs
<1>10. ASSUME Full(path[i])
       PROVE  \E w : OnWay(node, lo, hi, h, up, k, Null, w) /\ ToSplit(SubSeq(path, i, Len(path)), w)
  <2>1. i = 1 /\ 1 \in 1 .. g /\ 1 < g
      BY <1>3, <1>6, <1>8, <1>10
  <2>2. \A j \in 1 .. g - 1 : Len(node[p[j]].seps) = Capacity
    <3>1. \A j \in 1 .. g - 1 : j = i \/ j \in i + 1 .. g - 1
        BY <1>3, <2>1
    <3> QED
        BY <1>8, <1>9, <1>10, <3>1
  <2>3. up[p[1]] = Null
      BY <1>1, <1>3
  <2>4. OnWay(node, lo, hi, h, up, k, Null, SubSeq(p, 1, g)) /\ ToSplit(SubSeq(Front(p), 1, g - 1), SubSeq(p, 1, g))
      BY <1>1, <1>2, <1>4, <2>1, <2>2, <2>3, RestOfWay
  <2> QED
      BY <1>5, <2>1, <2>4
<1>11. ASSUME ~Full(path[i])
       PROVE  \E w : OnWay(node, lo, hi, h, up, k, path[i], w) /\ ToSplit(SubSeq(path, i + 1, Len(path)), w)
  <2> PICK c : c = i + 1
      OBVIOUS
  <2>1. c \in 1 .. g /\ \A j \in c .. g - 1 : j \in i + 1 .. g - 1 /\ j \in 1 .. g - 1
      BY <1>3, <1>8
  <2>2. \A j \in c .. g - 1 : Len(node[p[j]].seps) = Capacity
      BY <1>8, <1>9, <2>1
  <2>3. up[p[c]] = path[i] /\ path[i] \in Inners(node) /\ Len(node[path[i]].seps) < Capacity
      BY <1>3, <1>5, <1>8, <1>9, <1>11
  <2>4. path[i] # Null
      BY <1>1, <2>3, AliveIs, SmallFacts
  <2>5. OnWay(node, lo, hi, h, up, k, path[i], SubSeq(p, c, g)) /\ ToSplit(SubSeq(Front(p), c, g - 1), SubSeq(p, c, g))
    <3>1. /\ Skeleton(node, root, lo, hi, h, up) /\ k \in Int /\ Way(node, root, lo, hi, up, k, p)
          /\ p[Len(p)] \in Leaves(node) /\ Len(node[p[Len(p)]].keys) = Capacity /\ g = Len(p) /\ c \in 1 .. g
        BY <1>1, <1>2, <1>4, <2>1
    <3>2. IF path[i] = Null THEN c < g ELSE path[i] \in Inners(node) /\ Len(node[path[i]].seps) < Capacity
        BY <2>3, <2>4
    <3> QED
        BY ONLY <2>2, <2>3, <3>1, <3>2, RestOfWay, Zenon
  <2> QED
      BY <1>5, <2>5
<1> QED
    BY <1>10, <1>11

-----------------------------------------------------------------------------
(* The invariant: some such functions exist, for the nodes as they are     *)
(* between any two transactions.                                           *)

Sound(t, r, held, count, lo, hi, h, up) ==
  /\ Tree(t, r, lo, hi, h, up) /\ Chain(t, r, lo, hi)
  /\ Held(t) = held /\ count = Cardinality(held)
Waits(t, held, state, k, ts, p, lo, hi, h, up) ==
  \/ state = "idle"
  \/ /\ state = "split" /\ k \in Keys /\ k \notin held
     /\ \E w : OnWay(t, lo, hi, h, up, k, p, w) /\ ToSplit(ts, w)
IInv == \E lo, hi, h, up : /\ Sound(node, root, contents, size, lo, hi, h, up)
                           /\ Waits(node, contents, pc, key, todo, parent, lo, hi, h, up)

LEMMA HeldIs ==
  ASSUME NEW t
  PROVE  Held(t) \subseteq Keys /\ IsFiniteSet(Held(t)) /\ Cardinality(Held(t)) \in Nat
<1>1. Held(t) \subseteq Keys /\ Held(t) \in SUBSET Keys
    BY DEF Held
<1> QED
    BY <1>1, KeysAssumption, FS_Subset, FS_CardinalityType

LEMMA OneMoreHeld ==
  ASSUME NEW t, NEW k, k \notin Held(t)
  PROVE  Cardinality(Held(t)) + 1 = Cardinality(Held(t) \cup {k})
BY HeldIs, FS_AddElement

LEMMA OneLessHeld ==
  ASSUME NEW t, NEW k \in Held(t)
  PROVE  Cardinality(Held(t)) - 1 = Cardinality(Held(t) \ {k})
BY HeldIs, FS_RemoveElement

LEMMA PutInLeafKeeps ==
  ASSUME IInv, NEW k \in Keys, PutInLeaf(k)
  PROVE  IInv'
<1> PICK lo, hi, h, up : Sound(node, root, contents, size, lo, hi, h, up)
    BY DEF IInv
<1>1. Tree(node, root, lo, hi, h, up) /\ Chain(node, root, lo, hi) /\ Held(node) = contents /\ size = Cardinality(contents)
    BY DEF Sound
<1> PICK l : l = FindLeaf(k)
    OBVIOUS
<1>2. /\ ~Exists(k) /\ ~Full(l) /\ node' = [node EXCEPT ![l].keys = InsertSorted(@, k)]
      /\ root' = root /\ size' = size + 1 /\ contents' = contents \cup {k} /\ pc = "idle" /\ pc' = pc
    BY DEF PutInLeaf, Idle, callVars
<1>3. l \in Leaves(node) /\ Covers(lo, hi, l, k) /\ k \notin Held(node) /\ ~Has(node[l].keys, k)
    BY <1>1, <1>2, FindIs DEF FoundIn
<1>4. Len(node[l].keys) < Capacity
    BY <1>1, <1>2, <1>3, FullIs
<1>5. node \in Trees
    BY <1>1 DEF Tree, Skeleton
<1>6. OtherKeys(node, node', l, InsertSorted(node[l].keys, k))
  <2> PICK w : w = InsertSorted(node[l].keys, k)
      OBVIOUS
  <2>1. w \in Seq(Keys)
    <3>1. Ordered(node[l].keys, lo[l], hi[l])
        BY <1>1, <1>3 DEF Tree, LeafFits
    <3>2. OneMore(w, node[l].keys, k, lo[l], hi[l])
        BY <1>3, <1>4, <3>1, InsertSortedIs DEF Covers
    <3> QED
        BY <3>2 DEF OneMore, Ordered
  <2>2. l \in NodeIds /\ node[l] = Leaf(node[l].keys, node[l].prev, node[l].next)
      BY <1>3, <1>5, AliveIs, KeysAre
  <2>3. [node[l] EXCEPT !.keys = w] = Leaf(w, node[l].prev, node[l].next)
      BY <2>2 DEF Leaf
  <2>4. node' = [node EXCEPT ![l] = [node[l] EXCEPT !.keys = w]]
      BY <1>2
  <2> QED
      BY <1>3, <2>1, <2>3, <2>4 DEF OtherKeys
<1>7. Tree(node', root, lo, hi, h, up) /\ Held(node') = Held(node) \cup {k}
    BY <1>1, <1>3, <1>4, <1>6, TreeGetsKey
<1>8. Chain(node', root, lo, hi)
  <2>1. /\ Leaves(node') = Leaves(node)
        /\ \A n \in NodeIds \ {l} : node'[n] = node[n]
      BY <1>5, <1>6, OtherKeysAre DEF SameShape
  <2>2. node'[l].prev = node[l].prev /\ node'[l].next = node[l].next
    <3>1. l \in NodeIds /\ DOMAIN node = NodeIds
        BY <1>3, <1>5, AliveIs DEF Trees
    <3> QED
        BY <1>6, <3>1 DEF OtherKeys, Leaf
  <2>3. \A c \in Leaves(node) : node'[c].next = node[c].next /\ node'[c].prev = node[c].prev
      BY <2>1, <2>2, AliveIs
  <2> QED
      BY <1>1, <2>1, <2>3, ChainKept
<1>9. Sound(node', root', contents', size', lo, hi, h, up)
  <2>1. Held(node') = contents'
      BY <1>1, <1>2, <1>7
  <2>2. size' = Cardinality(contents')
      BY <1>1, <1>2, <1>3, OneMoreHeld
  <2> QED
      BY <1>1, <1>2, <1>7, <1>8, <2>1, <2>2 DEF Sound
<1> QED
    BY <1>2, <1>9 DEF IInv, Waits

\* The second half begins with the key that separates the halves.
LEMMA FrontIs ==
  ASSUME NEW lo, NEW hi, NEW h, NEW up, Tree(node, root, lo, hi, h, up), Chain(node, root, lo, hi),
         NEW l \in Leaves(node), NEW k \in Keys, Covers(lo, hi, l, k), ~Has(node[l].keys, k), Len(node[l].keys) = Capacity,
         NEW n \in NodeIds \ Alive(node)
  PROVE  FrontOf(Halves(l, n, k), n) = <<n, node[l].keys[Half(node[l].keys) + 1]>>
<1> PICK keys, z, m : keys = node[l].keys /\ z = RightHalf(keys, k) /\ m = node[l].next
    OBVIOUS
<1> PICK a, b, s : /\ a = Leaf(LeftHalf(keys, k), node[l].prev, n) /\ b = Leaf(z, l, m)
                   /\ s = [node EXCEPT ![l] = a, ![n] = b]
    OBVIOUS
<1>1. Skeleton(node, root, lo, hi, h, up) /\ node \in Trees /\ Ordered(keys, lo[l], hi[l])
    BY DEF Tree, Skeleton, LeafFits
<1>2. lo[l] \in Int /\ hi[l] \in Int /\ l \in NodeIds /\ l \in Alive(node)
    BY <1>1, LeafBounds
<1>3. z[1] = keys[Half(keys) + 1]
    BY <1>1, <1>2, HalvesAre DEF Covers
<1>4. Halves(l, n, k) = IF m = Null THEN s ELSE [s EXCEPT ![m].prev = n]
    BY DEF Halves, LeftHalf, RightHalf
<1>5. m # Null => m # n /\ m \in NodeIds
  <2>1. NextIs(node, root, lo, hi, l)
      BY DEF Chain
  <2> QED
      BY <1>1, <2>1, KindsAre, AliveIs DEF NextIs
<1>6. DOMAIN node = NodeIds
    BY <1>1 DEF Trees
<1>7. s[n] = b /\ DOMAIN s = NodeIds
    BY <1>2, <1>6
<1>8. Halves(l, n, k)[n] = b
    BY <1>4, <1>5, <1>7
<1>9. b.keys = z
    BY DEF Leaf
<1> QED
    BY <1>3, <1>8, <1>9 DEF FrontOf

LEMMA PutSplitsRootLeafKeeps ==
  ASSUME IInv, NEW k \in Keys, PutSplitsRootLeaf(k)
  PROVE  IInv'
<1> PICK lo, hi, h, up : Sound(node, root, contents, size, lo, hi, h, up)
    BY DEF IInv
<1>1. Tree(node, root, lo, hi, h, up) /\ Chain(node, root, lo, hi) /\ Held(node) = contents /\ size = Cardinality(contents)
    BY DEF Sound
<1> PICK l, n, halves, q : l = FindLeaf(k) /\ n = Fresh /\ halves = Halves(l, n, k) /\ q = FreshBut(n)
    OBVIOUS
<1>2. /\ ~Exists(k) /\ Full(l) /\ l = root /\ HasRoom(2) /\ root' = q
      /\ node' = [halves EXCEPT ![q] = NewRoot(FrontOf(halves, n), l, n)]
      /\ size' = size + 1 /\ contents' = contents \cup {k} /\ pc = "idle" /\ pc' = pc
    BY DEF PutSplitsRootLeaf, Idle, callVars
<1>3. l \in Leaves(node) /\ Covers(lo, hi, l, k) /\ k \notin Held(node) /\ ~Has(node[l].keys, k)
    BY <1>1, <1>2, FindIs DEF FoundIn
<1>4. Len(node[l].keys) = Capacity
    BY <1>1, <1>2, <1>3, FullIs
<1>5. n \in NodeIds \ Alive(node) /\ q \in NodeIds \ (Alive(node) \cup {n})
    BY <1>2, FreshIs
<1>6. node \in Trees /\ l \in Alive(node) /\ l \in NodeIds
    BY <1>1, <1>3, KindsAre, AliveIs DEF Tree, Skeleton
<1> PICK inner : inner = NewRoot(FrontOf(halves, n), l, n)
    OBVIOUS
<1>7. FrontOf(halves, n) = <<n, node[l].keys[Half(node[l].keys) + 1]>>
    BY <1>1, <1>3, <1>4, <1>5, FrontIs
<1> PICK y : y = node[l].keys[Half(node[l].keys) + 1]
    OBVIOUS
<1>8. y = node[l].keys[Half(node[l].keys) + 1] /\ Above(l, n, q, y, up, inner)
    BY <1>2, <1>5, <1>7 DEF Above
<1>9. q \in NodeIds \ {l, n} /\ k \notin Held(node) /\ node' = [Halves(l, n, k) EXCEPT ![q] = inner]
    BY <1>2, <1>3, <1>5, <1>6
<1>10. PICK lo2, hi2, h2, up2 :
         Tree(node', q, lo2, hi2, h2, up2) /\ Chain(node', q, lo2, hi2) /\ Held(node') = Held(node) \cup {k}
  <2> PICK t2 : t2 = node'
      OBVIOUS
  <2>1. q = (IF l = root THEN q ELSE root) /\ k \in Keys /\ l = FindLeaf(k) /\ t2 = [Halves(l, n, k) EXCEPT ![q] = inner]
      BY <1>2, <1>9
  <2>2. SplitsLeaf(t2, q, k, l, n, q, y, up, inner)
      BY <1>4, <1>5, <1>8, <1>9, <2>1 DEF SplitsLeaf
  <2>3. TreeOf(t2, q, Held(node) \cup {k})
      BY <1>1, <1>9, <2>2, LeafStep
  <2> QED
      BY <2>3 DEF TreeOf
<1>11. Sound(node', root', contents', size', lo2, hi2, h2, up2)
  <2>1. Held(node') = contents'
      BY <1>1, <1>2, <1>10
  <2>2. size' = Cardinality(contents')
      BY <1>1, <1>2, <1>3, OneMoreHeld
  <2> QED
      BY <1>2, <1>10, <2>1, <2>2 DEF Sound
<1> QED
    BY <1>2, <1>11 DEF IInv, Waits

LEMMA StartSplitKeeps ==
  ASSUME IInv, NEW k \in Keys, StartSplit(k)
  PROVE  IInv'
<1> PICK lo, hi, h, up : Sound(node, root, contents, size, lo, hi, h, up)
    BY DEF IInv
<1>1. Tree(node, root, lo, hi, h, up) /\ Held(node) = contents
    BY DEF Sound
<1> PICK path, i : path = Front(PathTo(k)) /\ i = Room(path)
    OBVIOUS
<1>2. /\ ~Exists(k) /\ Full(FindLeaf(k)) /\ path # <<>>
      /\ pc' = "split" /\ key' = k /\ node' = node /\ root' = root /\ size' = size /\ contents' = contents
      /\ Full(path[i]) => parent' = Null /\ todo' = SubSeq(path, i, Len(path))
      /\ ~Full(path[i]) => parent' = path[i] /\ todo' = SubSeq(path, i + 1, Len(path))
    BY DEF StartSplit, treeVars
<1>3. k \notin contents
    BY <1>1, <1>2, FindIs DEF FoundIn
<1>4. \E w : OnWay(node, lo, hi, h, up, k, parent', w) /\ ToSplit(todo', w)
  <2>1. /\ Full(path[i]) => \E w : /\ OnWay(node, lo, hi, h, up, k, Null, w)
                                   /\ ToSplit(SubSeq(path, i, Len(path)), w)
        /\ ~Full(path[i]) => \E w : /\ OnWay(node, lo, hi, h, up, k, path[i], w)
                                    /\ ToSplit(SubSeq(path, i + 1, Len(path)), w)
      BY <1>1, <1>2, PlanIs
  <2>2. CASE Full(path[i])
      BY <1>2, <2>1, <2>2
  <2>3. CASE ~Full(path[i])
      BY <1>2, <2>1, <2>3
  <2> QED
      BY <2>2, <2>3
<1>5. Waits(node', contents', pc', key', todo', parent', lo, hi, h, up)
    BY <1>2, <1>3, <1>4 DEF Waits
<1>6. Sound(node', root', contents', size', lo, hi, h, up)
    BY <1>2
<1> QED
    BY <1>5, <1>6 DEF IInv

\* The first node to split is the head of the way, a full child of p.
IsHead(t, up, p, w, ts) ==
  /\ Len(w) >= 2 /\ Head(ts) = w[1] /\ w[1] \in Inners(t) /\ w[1] \in Alive(t)
  /\ Len(t[w[1]].seps) = Capacity /\ up[w[1]] = p /\ ToSplit(Tail(ts), Tail(w))

LEMMA WayHead ==
  ASSUME NEW t, NEW lo, NEW hi, NEW h, NEW up, NEW k, NEW p, NEW w, NEW ts,
         OnWay(t, lo, hi, h, up, k, p, w), ToSplit(ts, w), ts # <<>>
  PROVE  IsHead(t, up, p, w, ts)
<1> PICK g : g = Len(w)
    OBVIOUS
<1>1. w \in Seq(NodeIds) /\ g \in Nat /\ g >= 1 /\ ts \in Seq(NodeIds) /\ Len(ts) = g - 1 /\ \A i \in 1 .. g - 1 : ts[i] = w[i]
    BY LenProperties DEF OnWay, ToSplit
<1>2. g >= 2 /\ 1 \in 1 .. g - 1 /\ 1 \in 1 .. g
  <2>1. Len(ts) # 0
      BY <1>1, EmptySeq
  <2> QED
      BY <1>1, <2>1
<1>3. Head(ts) = w[1]
    BY <1>1, <1>2, HeadTailProperties
<1>4. w # <<>>
    BY <1>1, <1>2
<1>5. /\ Tail(ts) \in Seq(NodeIds) /\ Len(Tail(ts)) = (g - 1) - 1 /\ \A i \in 1 .. (g - 1) - 1 : Tail(ts)[i] = ts[i + 1]
      /\ Len(Tail(w)) = g - 1 /\ \A i \in 1 .. g - 1 : Tail(w)[i] = w[i + 1]
    BY <1>1, <1>4, HeadTailProperties
<1>6. ASSUME NEW i \in 1 .. (g - 1) - 1 PROVE Tail(ts)[i] = Tail(w)[i]
  <2>1. i \in 1 .. g - 1 /\ i + 1 \in 1 .. g - 1
      BY <1>1
  <2> QED
      BY <1>1, <1>5, <2>1
<1>7. ToSplit(Tail(ts), Tail(w))
    BY <1>5, <1>6 DEF ToSplit
<1>8. /\ w[1] \in Inners(t) /\ w[1] \in Alive(t) /\ Len(t[w[1]].seps) = Capacity /\ up[w[1]] = p
    BY <1>2 DEF OnWay
<1> QED
    BY <1>2, <1>3, <1>7, <1>8 DEF IsHead

\* Both transactions that split an inner node.
LEMMA SplitKeeps ==
  ASSUME NEW lo, NEW hi, NEW h, NEW up, Sound(node, root, contents, size, lo, hi, h, up),
         pc = "split", key \in Keys, key \notin contents, NEW w,
         OnWay(node, lo, hi, h, up, key, parent, w), ToSplit(todo, w), todo # <<>>,
         NEW src, src = Head(todo), NEW n, NEW q, NEW p, NEW inner, SplitsInner(node', root', src, n, q, p, up, inner),
         parent' = ChildIn(node', q, key), todo' = Tail(todo), UNCHANGED <<size, pc, key, contents>>
  PROVE  IInv'
<1>1. /\ Tree(node, root, lo, hi, h, up) /\ Chain(node, root, lo, hi) /\ Held(node) = contents /\ size = Cardinality(contents)
      /\ Skeleton(node, root, lo, hi, h, up) /\ key \in Int
    BY SmallFacts DEF Sound, Tree
<1>2. InnerDone(node', root', lo, hi, h, up, src, n, q)
    BY <1>1, InnerStep
<1> PICK lo2, hi2, h2, up2, b, x :
       /\ Tree(node', root', lo2, hi2, h2, up2) /\ Chain(node', root', lo2, hi2) /\ Held(node') = Held(node)
       /\ InnerSplit(node', lo, hi, h, up, lo2, hi2, h2, up2, src, n, q, b, x)
    BY <1>2 DEF InnerDone
<1>3. Len(w) >= 2 /\ src = w[1] /\ ToSplit(Tail(todo), Tail(w))
    BY WayHead DEF IsHead
<1>4. n \in NodeIds \ Alive(node) /\ q \in NodeIds \ {src, n}
    BY DEF SplitsInner
<1>5. OnWay(node', lo2, hi2, h2, up2, key, ChildIn(node', q, key), Tail(w))
    BY <1>1, <1>3, <1>4, WayAfterSplit
<1>6. Sound(node', root', contents', size', lo2, hi2, h2, up2)
    BY <1>1 DEF Sound
<1>7. Waits(node', contents', pc', key', todo', parent', lo2, hi2, h2, up2)
    BY <1>3, <1>5 DEF Waits
<1> QED
    BY <1>6, <1>7 DEF IInv

LEMMA SplitRootKeeps ==
  ASSUME IInv, SplitRoot
  PROVE  IInv'
<1> PICK lo, hi, h, up : /\ Sound(node, root, contents, size, lo, hi, h, up)
                         /\ Waits(node, contents, pc, key, todo, parent, lo, hi, h, up)
    BY DEF IInv
<1> PICK src, p, n, q : src = Head(todo) /\ p = Partition(node[src]) /\ n = Fresh /\ q = FreshBut(n)
    OBVIOUS
<1>1. /\ pc = "split" /\ todo # <<>> /\ parent = Null /\ HasRoom(2) /\ root' = q
      /\ node' = [node EXCEPT ![src] = p.left, ![n] = p.right, ![q] = NewRoot(p.key, src, n)]
      /\ parent' = ChildIn(node', q, key) /\ todo' = Tail(todo) /\ UNCHANGED <<size, pc, key, contents>>
    BY DEF SplitRoot
<1>2. PICK w : OnWay(node, lo, hi, h, up, key, parent, w) /\ ToSplit(todo, w)
    BY <1>1 DEF Waits
<1>3. key \in Keys /\ key \notin contents
    BY <1>1 DEF Waits
<1>4. src \in Inners(node) /\ src \in Alive(node) /\ Len(node[src].seps) = Capacity /\ up[src] = Null
  <2>1. IsHead(node, up, parent, w, todo)
      BY <1>1, <1>2, WayHead
  <2> QED
      BY <1>1, <2>1 DEF IsHead
<1>5. src = root
  <2>1. Skeleton(node, root, lo, hi, h, up)
      BY DEF Sound, Tree
  <2> QED
      BY <1>4, <2>1, AliveIs, SmallFacts DEF Skeleton
<1>6. n \in NodeIds \ Alive(node) /\ q \in NodeIds \ (Alive(node) \cup {n})
    BY <1>1, FreshIs
<1>7. SplitsInner(node', root', src, n, q, p, up, NewRoot(p.key, src, n))
    BY <1>1, <1>4, <1>5, <1>6 DEF SplitsInner, AboveInner
<1> QED
    BY <1>1, <1>2, <1>3, <1>7, SplitKeeps

LEMMA SplitInnerKeeps ==
  ASSUME IInv, SplitInner
  PROVE  IInv'
<1> PICK lo, hi, h, up : /\ Sound(node, root, contents, size, lo, hi, h, up)
                         /\ Waits(node, contents, pc, key, todo, parent, lo, hi, h, up)
    BY DEF IInv
<1> PICK src, p, n, q : src = Head(todo) /\ p = Partition(node[src]) /\ n = Fresh /\ q = parent
    OBVIOUS
<1>1. /\ pc = "split" /\ todo # <<>> /\ parent # Null /\ HasRoom(1) /\ root' = root
      /\ node' = [node EXCEPT ![src] = p.left, ![n] = p.right, ![parent] = UpdateSplittedChild(@, p.key, n)]
      /\ parent' = ChildIn(node', parent, key) /\ todo' = Tail(todo) /\ UNCHANGED <<size, pc, key, contents>>
    BY DEF SplitInner
<1>2. PICK w : OnWay(node, lo, hi, h, up, key, parent, w) /\ ToSplit(todo, w)
    BY <1>1 DEF Waits
<1>3. key \in Keys /\ key \notin contents
    BY <1>1 DEF Waits
<1>4. src \in Inners(node) /\ src \in Alive(node) /\ Len(node[src].seps) = Capacity /\ up[src] = q
  <2>1. IsHead(node, up, parent, w, todo)
      BY <1>1, <1>2, WayHead
  <2> QED
      BY <1>1, <2>1 DEF IsHead
<1>5. Skeleton(node, root, lo, hi, h, up) /\ node \in Trees /\ Ghosts(lo, hi, h, up) /\ up[root] = Null
    BY DEF Sound, Tree, Skeleton
<1>6. src # root /\ q \in Inners(node) /\ Len(node[q].seps) < Capacity /\ IsKid(node, q, src)
  <2>1. src # root
      BY <1>1, <1>4, <1>5
  <2>2. q \in Inners(node) /\ Len(node[q].seps) < Capacity
      BY <1>1, <1>2 DEF OnWay
  <2> QED
      BY <1>4, <1>5, <2>1, <2>2 DEF Skeleton
<1>7. n \in NodeIds \ Alive(node) /\ src \in NodeIds
    BY <1>1, <1>4, FreshIs, AliveIs
<1>8. q \in NodeIds /\ q # n /\ q # src
  <2>1. Inside(lo, hi, h, src, q) /\ q \in NodeIds /\ q \in Alive(node)
      BY <1>5, <1>6, KidIsInside, KindsAre, AliveIs DEF IsKid
  <2>2. h[src] < h[q] /\ h[src] \in Nat /\ h[q] \in Nat
      BY <1>5, <1>7, <2>1 DEF Inside, Ghosts
  <2> QED
      BY <1>7, <2>1, <2>2
<1> PICK inner : inner = UpdateSplittedChild(node[q], p.key, n)
    OBVIOUS
<1>9. node' = [node EXCEPT ![src] = p.left, ![n] = p.right, ![q] = inner]
    BY <1>1, <1>8
<1>10. SplitsInner(node', root', src, n, q, p, up, inner)
    BY <1>1, <1>4, <1>6, <1>7, <1>8, <1>9 DEF SplitsInner, AboveInner
<1> QED
    BY <1>1, <1>2, <1>3, <1>10, SplitKeeps

LEMMA SplitLeafKeeps ==
  ASSUME IInv, SplitLeaf
  PROVE  IInv'
<1> PICK lo, hi, h, up : /\ Sound(node, root, contents, size, lo, hi, h, up)
                         /\ Waits(node, contents, pc, key, todo, parent, lo, hi, h, up)
    BY DEF IInv
<1>1. /\ Tree(node, root, lo, hi, h, up) /\ Chain(node, root, lo, hi) /\ Held(node) = contents /\ size = Cardinality(contents)
      /\ Skeleton(node, root, lo, hi, h, up) /\ node \in Trees /\ up[root] = Null /\ Ghosts(lo, hi, h, up)
    BY DEF Sound, Tree, Skeleton
<1> PICK l, n, halves, q : l = FindLeaf(key) /\ n = Fresh /\ halves = Halves(l, n, key) /\ q = parent
    OBVIOUS
<1>2. /\ pc = "split" /\ todo = <<>> /\ HasRoom(1)
      /\ node' = [halves EXCEPT ![q] = UpdateSplittedChild(@, FrontOf(halves, n), n)]
      /\ size' = size + 1 /\ contents' = contents \cup {key} /\ root' = root /\ pc' = "idle"
    BY DEF SplitLeaf, Finished
<1>3. PICK w : OnWay(node, lo, hi, h, up, key, parent, w) /\ ToSplit(todo, w)
    BY <1>2 DEF Waits
<1>4. key \in Keys /\ key \notin Held(node) /\ key \in Int
    BY <1>1, <1>2, SmallFacts DEF Waits
<1>5. l \in Leaves(node) /\ Covers(lo, hi, l, key) /\ ~Has(node[l].keys, key)
    BY <1>1, <1>4, FindIs DEF FoundIn
<1>6. Len(node[l].keys) = Capacity /\ up[l] = q /\ q # Null /\ q \in Inners(node) /\ Len(node[q].seps) < Capacity
  <2>1. Len(w) = 1
    <3>1. Len(w) \in Nat /\ Len(todo) = 0
        BY <1>2, <1>3, LenProperties DEF OnWay
    <3> QED
        BY <1>3, <3>1 DEF ToSplit
  <2>2. w[1] \in Leaves(node) /\ Covers(lo, hi, w[1], key) /\ Len(node[w[1]].keys) = Capacity /\ up[w[1]] = q
    <3>1. 1 \in 1 .. Len(w)
        BY <2>1
    <3> QED
        BY <1>3, <2>1, <3>1 DEF OnWay
  <2>3. w[1] = l
      BY <1>1, <1>4, <1>5, <2>2, LeavesDiffer
  <2>4. q # Null /\ q \in Inners(node) /\ Len(node[q].seps) < Capacity
      BY <1>3, <2>1 DEF OnWay
  <2> QED
      BY <2>2, <2>3, <2>4
<1>7. n \in NodeIds \ Alive(node)
    BY <1>2, FreshIs
<1>8. /\ l # root /\ q \in NodeIds \ {l, n} /\ q \in Alive(node) /\ q \notin Leaves(node)
      /\ l \in NodeIds /\ l \in Alive(node)
  <2>1. q \in NodeIds /\ q \in Alive(node) /\ q \notin Leaves(node)
      BY <1>1, <1>6, KindsAre, AliveIs
  <2> QED
      BY <1>1, <1>5, <1>6, <1>7, <2>1, KindsAre, AliveIs
<1> PICK y : y = node[l].keys[Half(node[l].keys) + 1]
    OBVIOUS
<1>9. FrontOf(halves, n) = <<n, y>>
    BY <1>1, <1>4, <1>5, <1>6, <1>7, FrontIs
<1>10. halves[q] = node[q] /\ DOMAIN halves = NodeIds
  <2> PICK m, a, b : /\ m = node[l].next
                     /\ a = Leaf(LeftHalf(node[l].keys, key), node[l].prev, n)
                     /\ b = Leaf(RightHalf(node[l].keys, key), l, node[l].next)
      OBVIOUS
  <2> PICK s : s = [node EXCEPT ![l] = a, ![n] = b]
      OBVIOUS
  <2>1. halves = IF m = Null THEN s ELSE [s EXCEPT ![m].prev = n]
      BY DEF Halves, LeftHalf, RightHalf
  <2>2. DOMAIN node = NodeIds
      BY <1>1 DEF Trees
  <2>3. m # Null => m # q
    <3>1. NextIs(node, root, lo, hi, l)
        BY <1>1, <1>5 DEF Chain
    <3> QED
        BY <1>8, <3>1 DEF NextIs
  <2> QED
      BY <1>8, <2>2, <2>3, <2>1
<1> PICK inner : inner = UpdateSplittedChild(node[q], <<n, y>>, n)
    OBVIOUS
<1>11. node' = [Halves(l, n, key) EXCEPT ![q] = inner]
    BY <1>2, <1>8, <1>9, <1>10
<1>12. SplitsLeaf(node', root', key, l, n, q, y, up, inner)
    BY <1>2, <1>6, <1>7, <1>8, <1>11 DEF SplitsLeaf, Above
<1>13. TreeOf(node', root', Held(node) \cup {key})
    BY <1>1, <1>4, <1>12, LeafStep
<1>14. PICK lo2, hi2, h2, up2 :
         Tree(node', root', lo2, hi2, h2, up2) /\ Chain(node', root', lo2, hi2) /\ Held(node') = Held(node) \cup {key}
    BY <1>13 DEF TreeOf
<1>15. Sound(node', root', contents', size', lo2, hi2, h2, up2)
  <2>1. Held(node') = contents'
      BY <1>1, <1>2, <1>14
  <2>2. size' = Cardinality(contents')
      BY <1>1, <1>2, <1>4, OneMoreHeld
  <2> QED
      BY <1>14, <2>1, <2>2 DEF Sound
<1> QED
    BY <1>2, <1>15 DEF IInv, Waits

LEMMA AbandonKeeps ==
  ASSUME IInv, Abandon
  PROVE  IInv'
<1>1. node' = node /\ root' = root /\ size' = size /\ contents' = contents /\ pc' = "idle"
    BY DEF Abandon, Finished, treeVars
<1>2. PICK lo, hi, h, up : Sound(node, root, contents, size, lo, hi, h, up)
    BY DEF IInv
<1>3. Sound(node', root', contents', size', lo, hi, h, up)
    BY <1>1, <1>2
<1> QED
    BY <1>1, <1>3 DEF IInv, Waits

-----------------------------------------------------------------------------
(* A key goes: the border of its leaf moves, or the leaf goes with it.     *)

\* No node begins or ends inside what a leaf serves.
LEMMA LeafEdges ==
  ASSUME NEW t, NEW r, NEW lo, NEW hi, NEW h, NEW up, Skeleton(t, r, lo, hi, h, up),
         NEW l \in Leaves(t), NEW n \in Alive(t)
  PROVE  /\ lo[n] \in Int /\ hi[n] \in Int /\ lo[n] < hi[n]
         /\ lo[n] <= lo[l] \/ hi[l] <= lo[n]
         /\ hi[n] <= lo[l] \/ hi[l] <= hi[n]
<1>1. lo[n] \in Int /\ hi[n] \in Int /\ lo[n] < hi[n] /\ lo[l] \in Int /\ hi[l] \in Int /\ lo[l] < hi[l]
    BY AliveIs, LeafBounds DEF Skeleton, Ghosts
<1>2. PICK m \in Leaves(t) : lo[m] = lo[n]
    BY EdgeLeaves
<1>3. PICK d \in Leaves(t) : hi[d] = hi[n]
    BY EdgeLeaves
<1>4. lo[m] \in Int /\ hi[m] \in Int /\ lo[m] < hi[m] /\ lo[d] \in Int /\ hi[d] \in Int /\ lo[d] < hi[d]
    BY LeafBounds
<1>5. ~(lo[l] < lo[n] /\ lo[n] < hi[l])
  <2> SUFFICES ASSUME lo[l] < lo[n], lo[n] < hi[l] PROVE FALSE
      OBVIOUS
  <2>1. Covers(lo, hi, l, lo[n]) /\ Covers(lo, hi, m, lo[n])
      BY <1>1, <1>2, <1>4 DEF Covers
  <2>2. l = m
      BY <1>1, <2>1, LeavesDiffer
  <2> QED
      BY <1>1, <1>2, <2>2
<1>6. ~(lo[l] < hi[n] /\ hi[n] < hi[l])
  <2> SUFFICES ASSUME lo[l] < hi[n], hi[n] < hi[l] PROVE FALSE
      OBVIOUS
  <2> PICK k \in Int : k = hi[n] - 1
      BY <1>1
  <2>1. Covers(lo, hi, l, k) /\ Covers(lo, hi, d, k)
      BY <1>1, <1>3, <1>4 DEF Covers
  <2>2. l = d
      BY <2>1, LeavesDiffer
  <2> QED
      BY <1>1, <1>3, <2>2
<1> QED
    BY <1>1, <1>5, <1>6

\* An edge moves inside what a leaf serves, or from one end of it to the other.
Shift(f, from, to) == [n \in NodeIds |-> IF f[n] = from THEN to ELSE f[n]]
Moves(a, b, from, to) ==
  /\ from \in Int /\ to \in Int
  /\ (from = a /\ a <= to /\ to <= b) \/ (from = b /\ to = a)
Shifted(lo, hi, lo2, hi2, from, to) == lo2 = Shift(lo, from, to) /\ hi2 = Shift(hi, from, to)
ShiftedAt(lo, hi, lo2, hi2, from, to) ==
  \A n \in NodeIds : /\ lo2[n] = IF lo[n] = from THEN to ELSE lo[n]
                     /\ hi2[n] = IF hi[n] = from THEN to ELSE hi[n]

LEMMA ShiftGhosts ==
  ASSUME NEW lo, NEW hi, NEW h, NEW up, Ghosts(lo, hi, h, up), NEW from, NEW to \in Int,
         NEW lo2, NEW hi2, Shifted(lo, hi, lo2, hi2, from, to)
  PROVE  Ghosts(lo2, hi2, h, up) /\ ShiftedAt(lo, hi, lo2, hi2, from, to)
BY DEF Ghosts, Shifted, Shift, ShiftedAt

LEMMA ShiftRises ==
  ASSUME NEW a \in Int, NEW b \in Int, a < b, NEW from, NEW to, Moves(a, b, from, to),
         NEW v \in Int, NEW w \in Int, v < w, v <= a \/ b <= v, w <= a \/ b <= w,
         (from = a /\ to < b) \/ ~(v = a /\ w = b)
  PROVE  (IF v = from THEN to ELSE v) < (IF w = from THEN to ELSE w)
BY DEF Moves

\* The children of a node, after the shift.
LEMMA FamilyShifts ==
  ASSUME NEW lo, NEW hi, NEW h, NEW up, Ghosts(lo, hi, h, up), NEW from, NEW to \in Int,
         NEW lo2, NEW hi2, Shifted(lo, hi, lo2, hi2, from, to),
         NEW kids \in Seq(NodeIds), NEW n \in NodeIds, NEW A, Family(kids, n, A, lo, hi, h, up), NEW B, NEW up2,
         \A i \in 1 .. Len(kids) : kids[i] \in B /\ up2[kids[i]] = n,
         \A i, j \in 1 .. Len(kids) : i < j => lo2[kids[i]] < lo2[kids[j]]
  PROVE  Family(kids, n, B, lo2, hi2, h, up2)
<1>1. \A c \in NodeIds : /\ lo2[c] = IF lo[c] = from THEN to ELSE lo[c]
                         /\ hi2[c] = IF hi[c] = from THEN to ELSE hi[c]
  <2>1. ShiftedAt(lo, hi, lo2, hi2, from, to)
      BY ONLY Ghosts(lo, hi, h, up), to \in Int, Shifted(lo, hi, lo2, hi2, from, to), ShiftGhosts
  <2> QED
      BY <2>1 DEF ShiftedAt
<1>2. Len(kids) \in Nat /\ \A i \in 1 .. Len(kids) : kids[i] \in NodeIds
    BY LenProperties, ElementOfSeq
<1>3. 1 \in 1 .. Len(kids) /\ Len(kids) \in 1 .. Len(kids) /\ Len(kids) \in 2 .. Capacity + 1
    BY <1>2, SmallFacts DEF Family
<1>4. lo2[kids[1]] = lo2[n] /\ hi2[kids[Len(kids)]] = hi2[n]
    BY <1>1, <1>2, <1>3 DEF Family
<1>5. ASSUME NEW i \in 1 .. Len(kids) - 1 PROVE hi2[kids[i]] = lo2[kids[i + 1]]
  <2>1. i \in 1 .. Len(kids) /\ i + 1 \in 1 .. Len(kids)
      BY <1>2
  <2> QED
      BY <1>1, <1>2, <2>1 DEF Family
<1> QED
    BY <1>3, <1>4, <1>5 DEF Family

\* The leaf l begins later.
LEMMA SkeletonShifts ==
  ASSUME NEW t, NEW r, NEW lo, NEW hi, NEW h, NEW up, Skeleton(t, r, lo, hi, h, up),
         NEW l \in Leaves(t), NEW x \in Int, lo[l] <= x, x < hi[l],
         NEW lo2, NEW hi2, Shifted(lo, hi, lo2, hi2, lo[l], x)
  PROVE  Skeleton(t, r, lo2, hi2, h, up)
<1>1. /\ t \in Trees /\ Ghosts(lo, hi, h, up) /\ r \in Alive(t) /\ up[r] = Null
      /\ \A n \in Inners(t) : Family(t[n].kids, n, Alive(t), lo, hi, h, up)
      /\ \A c \in Alive(t) : c # r => up[c] \in Inners(t) /\ IsKid(t, up[c], c)
    BY DEF Skeleton
<1>2. lo[l] \in Int /\ hi[l] \in Int /\ lo[l] < hi[l]
    BY LeafBounds
<1>3. Moves(lo[l], hi[l], lo[l], x)
    BY <1>2 DEF Moves
<1>4. \A c \in NodeIds : /\ lo2[c] = IF lo[c] = lo[l] THEN x ELSE lo[c]
                         /\ hi2[c] = IF hi[c] = lo[l] THEN x ELSE hi[c]
  <2>1. ShiftedAt(lo, hi, lo2, hi2, lo[l], x)
      BY <1>1, ShiftGhosts
  <2> QED
      BY <2>1 DEF ShiftedAt
<1>5. ASSUME NEW n \in Alive(t) PROVE lo2[n] < hi2[n]
  <2> PICK v, w : v = lo[n] /\ w = hi[n]
      OBVIOUS
  <2>1. v \in Int /\ w \in Int /\ v < w /\ (v <= lo[l] \/ hi[l] <= v) /\ (w <= lo[l] \/ hi[l] <= w)
      BY LeafEdges
  <2>2. (IF v = lo[l] THEN x ELSE v) < (IF w = lo[l] THEN x ELSE w)
      BY <1>2, <1>3, <2>1, ShiftRises
  <2> QED
      BY <1>4, <2>2, AliveIs
<1>6. ASSUME NEW n \in Inners(t) PROVE Family(t[n].kids, n, Alive(t), lo2, hi2, h, up)
  <2> PICK kids : kids = t[n].kids
      OBVIOUS
  <2>1. kids \in Seq(NodeIds) /\ n \in NodeIds /\ Family(kids, n, Alive(t), lo, hi, h, up)
      BY <1>1, KidsAre, AliveIs
  <2>2. \A i \in 1 .. Len(kids) : kids[i] \in Alive(t) /\ up[kids[i]] = n
      BY <2>1 DEF Family
  <2>3. ASSUME NEW i \in 1 .. Len(kids), NEW j \in 1 .. Len(kids), i < j PROVE lo2[kids[i]] < lo2[kids[j]]
    <3> PICK v, w : v = lo[kids[i]] /\ w = lo[kids[j]]
        OBVIOUS
    <3>1. v < w
        BY <2>1, <2>3 DEF Family
    <3>2. v \in Int /\ w \in Int /\ (v <= lo[l] \/ hi[l] <= v) /\ (w <= lo[l] \/ hi[l] <= w)
        BY <2>2, LeafEdges
    <3>3. (IF v = lo[l] THEN x ELSE v) < (IF w = lo[l] THEN x ELSE w)
      <4> PICK y, z : y = lo[l] /\ z = hi[l]
          OBVIOUS
      <4>1. y \in Int /\ z \in Int /\ v \in Int /\ w \in Int /\ v < w /\ y <= x /\ x < z
            /\ (v <= y \/ z <= v) /\ (w <= y \/ z <= w)
          BY <1>2, <3>1, <3>2
      <4>2. (IF v = y THEN x ELSE v) < (IF w = y THEN x ELSE w)
          BY ONLY x \in Int, <4>1
      <4> QED
          BY <4>2
    <3> QED
        BY <1>4, <2>2, <3>3, AliveIs
  <2>4. Family(kids, n, Alive(t), lo2, hi2, h, up)
      BY <1>1, <2>1, <2>2, <2>3, FamilyShifts
  <2> QED
      BY <2>4
<1>7. Ghosts(lo2, hi2, h, up)
    BY <1>1, ShiftGhosts
<1> QED
    BY <1>1, <1>5, <1>6, <1>7 DEF Skeleton

\* What PathTo gives, with the inner nodes of it.
WayDown(p, lo, hi, up, k) ==
  /\ Way(node, root, lo, hi, up, k, p) /\ Len(p) \in Nat /\ Last(p) = p[Len(p)] /\ Last(p) \in Leaves(node)
  /\ Len(Front(p)) = Len(p) - 1 /\ \A j \in 1 .. Len(p) - 1 : Front(p)[j] = p[j]
  /\ DOMAIN Front(p) = 1 .. Len(p) - 1

LEMMA WayDownIs ==
  ASSUME NEW lo, NEW hi, NEW h, NEW up, Tree(node, root, lo, hi, h, up), NEW k \in Keys
  PROVE  WayDown(PathTo(k), lo, hi, up, k)
<1> PICK p, g, path : p = PathTo(k) /\ g = Len(p) /\ path = Front(p)
    OBVIOUS
<1>1. Skeleton(node, root, lo, hi, h, up) /\ SepsFit(node, lo) /\ k \in Int /\ Covers(lo, hi, root, k)
    BY SmallFacts DEF Tree
<1>2. Way(node, root, lo, hi, up, k, p) /\ FindLeaf(k) \in Leaves(node)
    BY <1>1, PathToIs
<1>3. p \in Seq(NodeIds) /\ g \in Nat /\ g >= 1
    BY <1>2, LenProperties DEF Way
<1>4. p[g] = FindLeaf(k) /\ Last(p) = p[g]
    BY DEF FindLeaf, Last
<1>5. path \in Seq(NodeIds) /\ Len(path) = g - 1 /\ \A j \in 1 .. g - 1 : path[j] = p[j]
  <2>1. path = SubSeq(p, 1, g - 1) /\ 1 \in 1 .. Len(p) + 1 /\ g - 1 \in 0 .. Len(p) /\ 1 <= (g - 1) + 1 /\ (g - 1) - 1 + 1 = g - 1
      BY <1>3 DEF Front
  <2>2. /\ path \in Seq(NodeIds) /\ Len(path) = (g - 1) - 1 + 1
        /\ \A j \in 1 .. (g - 1) - 1 + 1 : path[j] = p[1 + j - 1]
      BY <1>3, <2>1, SubSeqIs
  <2>3. \A j \in 1 .. g - 1 : 1 + j - 1 = j
      BY <1>3
  <2> QED
      BY <2>1, <2>2, <2>3
<1>6. DOMAIN path = 1 .. g - 1
    BY <1>5, LenProperties
<1> QED
    BY <1>2, <1>3, <1>4, <1>5, <1>6 DEF WayDown

\* The separators equal to k.
SpotsFor(t, S, k) ==
  /\ \A s \in S : /\ s = <<s[1], s[2]>> /\ s[1] \in Inners(t) /\ s[2] \in 1 .. Len(t[s[1]].seps)
                  /\ t[s[1]].seps[s[2]][2] = k
  /\ \A m \in Inners(t) : \A j \in 1 .. Len(t[m].seps) : t[m].seps[j][2] = k => <<m, j>> \in S

LEMMA SpotsAre ==
  ASSUME NEW lo, NEW hi, NEW h, NEW up, Tree(node, root, lo, hi, h, up), NEW k \in Keys,
         NEW S, S = ToReplace(Front(PathTo(k)), k)
  PROVE  SpotsFor(node, S, k)
<1> PICK p, g, path : p = PathTo(k) /\ g = Len(p) /\ path = Front(p)
    OBVIOUS
<1>1. Skeleton(node, root, lo, hi, h, up) /\ SepsFit(node, lo) /\ k \in Int /\ node \in Trees /\ Ghosts(lo, hi, h, up)
    BY SmallFacts DEF Tree, Skeleton
<1>2. /\ Way(node, root, lo, hi, up, k, p) /\ p[g] \in Leaves(node) /\ g \in Nat
      /\ \A j \in 1 .. g - 1 : path[j] = p[j]
      /\ DOMAIN path = 1 .. g - 1
    BY WayDownIs DEF WayDown
<1>3. /\ \A j \in 1 .. g : p[j] \in Alive(node) /\ Covers(lo, hi, p[j], k)
      /\ \A j \in 1 .. g - 1 : p[j] \in Inners(node)
    BY <1>2 DEF Way
<1>4. ToSet(path) = {p[j] : j \in 1 .. g - 1}
    BY <1>2 DEF ToSet
<1>5. S = {s \in ToSet(path) \X (1 .. Capacity) : s[2] = SepIndex(s[1], k) /\ node[s[1]].seps[s[2]][2] = k}
    BY DEF ToReplace
\* The places of the separators of a node that serves k.
<1>6. ASSUME NEW m \in Inners(node)
      PROVE  /\ Len(node[m].kids) \in 2 .. Capacity + 1 /\ Len(node[m].seps) = Len(node[m].kids) - 1
             /\ Len(node[m].seps) \in Nat
  <2>1. Family(node[m].kids, m, Alive(node), lo, hi, h, up)
      BY <1>1 DEF Skeleton
  <2> QED
      BY <1>1, <2>1, KidsAre DEF SepsFit, Family
<1>7. ASSUME NEW s \in S
      PROVE  /\ s = <<s[1], s[2]>> /\ s[1] \in Inners(node) /\ s[2] \in 1 .. Len(node[s[1]].seps)
             /\ node[s[1]].seps[s[2]][2] = k
  <2>1. s = <<s[1], s[2]>> /\ s[1] \in ToSet(path) /\ s[2] = SepIndex(s[1], k) /\ node[s[1]].seps[s[2]][2] = k
      BY <1>5
  <2> PICK m : m = s[1]
      OBVIOUS
  <2>2. m \in Inners(node) /\ Covers(lo, hi, m, k)
    <3> PICK j \in 1 .. g - 1 : m = p[j]
        BY <1>4, <2>1
    <3>1. j \in 1 .. g
        BY <1>2
    <3> QED
        BY <1>3, <3>1
  <2> PICK i \in 1 .. Len(node[m].kids) : Covers(lo, hi, node[m].kids[i], k)
      BY <1>1, <2>2, KidCovers
  <2>3. AtMost(node[m].seps, k) = i - 1
      BY <1>1, <2>2, SepsBelow
  <2>4. SepIndex(m, k) \in 1 .. Len(node[m].seps)
    <3>1. SepIndex(m, k) = IF i - 1 = 0 THEN 1 ELSE i - 1
        BY <2>3 DEF SepIndex
    <3> QED
        BY <1>6, <2>2, <3>1
  <2> QED
      BY <2>1, <2>2, <2>4
<1>8. ASSUME NEW m \in Inners(node), NEW j \in 1 .. Len(node[m].seps), node[m].seps[j][2] = k
      PROVE  <<m, j>> \in S
  <2> PICK i : i = j + 1
      OBVIOUS
  <2>1. i \in 1 .. Len(node[m].kids) /\ i > 1 /\ i - 1 = j /\ j \in 1 .. Capacity
      BY <1>6, SmallFacts
  <2> PICK c : c = node[m].kids[i]
      OBVIOUS
  <2>2. lo[c] = k
      BY <1>1, <1>8 DEF SepsFit
  <2>3. c \in Alive(node) /\ Inside(lo, hi, h, c, m)
      BY <1>1, <2>1, KidIsInside
  <2>4. m \in Alive(node) /\ c \in NodeIds /\ m \in NodeIds
      BY <1>1, <2>3, AliveIs, KindsAre
  <2>5. lo[c] \in Int /\ hi[c] \in Int /\ lo[m] \in Int /\ hi[m] \in Int /\ lo[c] < hi[c]
      BY <1>1, <2>3, <2>4 DEF Skeleton, Ghosts
  <2>6. Covers(lo, hi, c, k) /\ Covers(lo, hi, m, k)
      BY <2>2, <2>3, <2>5 DEF Covers, Inside
  <2> PICK y \in 1 .. g : p[y] = m
      BY <1>1, <1>2, <2>4, <2>6, WayHasAll
  <2>7. y \in 1 .. g - 1
    <3>1. y # g
        BY <1>1, <1>2, <2>4, KindsAre
    <3> QED
        BY <1>2, <3>1
  <2>8. m \in ToSet(path)
      BY <1>4, <2>7
  <2>9. SepIndex(m, k) = j
    <3>1. AtMost(node[m].seps, k) = i - 1
        BY <1>1, <2>1, <2>6, SepsBelow
    <3> QED
        BY <2>1, <3>1 DEF SepIndex
  <2> QED
      BY <1>5, <1>8, <2>1, <2>8, <2>9
<1> QED
    BY <1>7, <1>8 DEF SpotsFor

\* A separator that points to where its child begins, and the nodes all of
\* whose separators do, or are in S.
SepFits(t, lo, n, i) ==
  /\ t[n].seps[i][2] = lo[t[n].kids[i + 1]] /\ t[n].seps[i][1] \in Leaves(t)
  /\ lo[t[n].seps[i][1]] = t[n].seps[i][2]
SepsFitBut(t, lo, S) ==
  \A n \in Inners(t) :
    /\ Len(t[n].seps) = Len(t[n].kids) - 1
    /\ \A i \in 1 .. Len(t[n].seps) : <<n, i>> \in S \/ SepFits(t, lo, n, i)
OnePlace(S) ==
  /\ \A s \in S : s = <<s[1], s[2]>> /\ s[2] \in Int /\ s[2] >= 1
  /\ \A s, s2 \in S : s[1] = s2[1] => s[2] = s2[2]
RepointedIs(t, t2, lo) ==
  /\ SameShape(t, t2) /\ SepsFit(t2, lo)
  /\ \A n \in NodeIds \ Inners(t) : t2[n] = t[n]

LEMMA RepointedFits ==
  ASSUME NEW t, NEW r, NEW lo, NEW hi, NEW h, NEW up, Skeleton(t, r, lo, hi, h, up),
         \A l \in Leaves(t) : LeafFits(t, r, lo, hi, l),
         NEW S, OnePlace(S), SepsFitBut(t, lo, S), NEW t2, t2 = Repointed(t, S)
  PROVE  RepointedIs(t, t2, lo)
<1>1. t \in Trees /\ Ghosts(lo, hi, h, up) /\ r \in Alive(t)
    BY DEF Skeleton
\* The entry a separator is given.
<1>2. ASSUME NEW n \in Inners(t), NEW i \in 1 .. Len(t[n].seps), NEW e, e = SuitableEntry(t, n, i)
      PROVE  e \in NodeIds \X Keys /\ e[1] \in Leaves(t) /\ e[2] = lo[t[n].kids[i + 1]] /\ lo[e[1]] = e[2]
  <2> PICK j, c, m : j = i + 1 /\ c = t[n].kids[j] /\ m = Leftmost(t, c)
      OBVIOUS
  <2>1. j \in 1 .. Len(t[n].kids) /\ j > 1
    <3>1. Len(t[n].seps) = Len(t[n].kids) - 1
        BY DEF SepsFitBut
    <3> QED
        BY <1>1, <3>1, KidsAre
  <2>2. c \in Alive(t) /\ lo[n] < lo[c]
      BY <2>1, KidIsInside
  <2>3. m \in Leaves(t) /\ lo[m] = lo[c]
      BY <2>2, LeftmostIs
  <2>4. lo[m] # lo[r] /\ m # r
    <3>1. lo[r] <= lo[n] /\ n \in NodeIds /\ r \in NodeIds /\ c \in NodeIds
        BY <1>1, <2>2, RootCovers, KindsAre, AliveIs
    <3>2. lo[r] \in Int /\ lo[n] \in Int /\ lo[c] \in Int
        BY <1>1, <3>1 DEF Ghosts
    <3> QED
        BY <2>2, <2>3, <3>1, <3>2
  <2>5. t[m].keys[1] = lo[m] /\ Len(t[m].keys) >= 1
      BY <2>3, <2>4 DEF LeafFits
  <2>6. t[m].keys[1] \in Keys /\ m \in NodeIds
    <3>1. 1 \in 1 .. Len(t[m].keys)
        BY <1>1, <2>3, <2>5, KeysAre
    <3> QED
        BY <1>1, <2>3, <3>1, KeysAre, AliveIs
  <2>7. e = <<m, t[m].keys[1]>>
      BY <1>2 DEF SuitableEntry, FrontOf
  <2> QED
      BY <2>3, <2>5, <2>6, <2>7
\* A node is left alone, or one of its separators is replaced.
<1>3. ASSUME NEW n \in NodeIds, NEW i, <<n, i>> \in S, n \in Inners(t), i <= Len(t[n].seps)
      PROVE  /\ i \in 1 .. Len(t[n].seps) /\ \A j : <<n, j>> \in S => j = i
             /\ t2[n] = Replace(t[n], i, SuitableEntry(t, n, i))
  <2>1. i \in Int /\ i >= 1 /\ \A j : <<n, j>> \in S => j = i
      BY <1>3 DEF OnePlace
  <2> PICK s : s = CHOOSE z \in S : z[1] = n
      OBVIOUS
  <2>2. \E z \in S : z[1] = n
      BY <1>3
  <2>3. s \in S /\ s[1] = n
      BY <2>2
  <2>4. s[2] = i
      BY <1>3, <2>3 DEF OnePlace
  <2>5. \E z \in S : z[1] = n /\ t[n].kind = "inner" /\ z[2] <= Len(t[n].seps)
      BY <1>3 DEF Inners
  <2>6. t2[n] = Replace(t[n], s[2], SuitableEntry(t, n, s[2]))
      BY <2>5 DEF Repointed
  <2>7. i \in 1 .. Len(t[n].seps)
      BY <1>1, <1>3, <2>1, KidsAre
  <2> QED
      BY <2>1, <2>4, <2>6, <2>7
<1>4. ASSUME NEW n \in NodeIds, ~ \E s \in S : s[1] = n /\ n \in Inners(t) /\ s[2] <= Len(t[n].seps)
      PROVE  t2[n] = t[n]
  <2>1. ~ \E s \in S : s[1] = n /\ t[n].kind = "inner" /\ s[2] <= Len(t[n].seps)
      BY <1>4 DEF Inners
  <2> QED
      BY <2>1 DEF Repointed
<1>5. ASSUME NEW n \in NodeIds, n \notin Inners(t) PROVE t2[n] = t[n]
    BY <1>4, <1>5
\* What becomes of an inner node.
<1>6. ASSUME NEW n \in Inners(t)
      PROVE  /\ t2[n] \in InnerRecords /\ t2[n].kids = t[n].kids
             /\ Len(t2[n].seps) = Len(t[n].kids) - 1
             /\ \A j \in 1 .. Len(t2[n].seps) :
                  /\ t2[n].seps[j][2] = lo[t[n].kids[j + 1]] /\ t2[n].seps[j][1] \in Leaves(t)
                  /\ lo[t2[n].seps[j][1]] = t2[n].seps[j][2]
  <2>1. n \in NodeIds /\ t[n] \in InnerRecords /\ t[n].seps \in Seq(NodeIds \X Keys) /\ Len(t[n].seps) \in Nat
      BY <1>1, AliveIs, KindsAre, KidsAre
  <2>2. /\ Len(t[n].seps) = Len(t[n].kids) - 1
        /\ \A j \in 1 .. Len(t[n].seps) : <<n, j>> \in S \/ SepFits(t, lo, n, j)
      BY DEF SepsFitBut
  <2>3. CASE \E s \in S : s[1] = n /\ s[2] <= Len(t[n].seps)
    <3> PICK s \in S : s[1] = n /\ s[2] <= Len(t[n].seps)
        BY <2>3
    <3> PICK i : i = s[2]
        OBVIOUS
    <3>1. <<n, i>> \in S
        BY DEF OnePlace
    <3>2. /\ i \in 1 .. Len(t[n].seps) /\ \A j : <<n, j>> \in S => j = i
          /\ t2[n] = Replace(t[n], i, SuitableEntry(t, n, i))
        BY <1>3, <2>1, <2>3, <3>1
    <3> PICK e : e = SuitableEntry(t, n, i)
        OBVIOUS
    <3>3. e \in NodeIds \X Keys /\ e[1] \in Leaves(t) /\ e[2] = lo[t[n].kids[i + 1]] /\ lo[e[1]] = e[2]
        BY <1>2, <3>2
    <3>4. t2[n] = [t[n] EXCEPT !.seps = [t[n].seps EXCEPT ![i] = e]]
        BY <3>2 DEF Replace
    <3> PICK w : w = [t[n].seps EXCEPT ![i] = e]
        OBVIOUS
    <3>5. w \in Seq(NodeIds \X Keys) /\ Len(w) = Len(t[n].seps) /\ \A j \in 1 .. Len(w) : w[j] = IF j = i THEN e ELSE t[n].seps[j]
        BY <2>1, <3>2, <3>3, ExceptSeq
    <3>6. t2[n] \in InnerRecords /\ t2[n].kids = t[n].kids /\ t2[n].seps = w
        BY <2>1, <3>4, <3>5 DEF InnerRecords
    <3>7. ASSUME NEW j \in 1 .. Len(w)
          PROVE  w[j][2] = lo[t[n].kids[j + 1]] /\ w[j][1] \in Leaves(t) /\ lo[w[j][1]] = w[j][2]
      <4>1. CASE j = i
          BY <3>3, <3>5, <4>1
      <4>2. CASE j # i
        <5>1. SepFits(t, lo, n, j)
            BY <2>2, <3>2, <3>5, <4>2
        <5> QED
            BY <3>5, <4>2, <5>1 DEF SepFits
      <4> QED
          BY <4>1, <4>2
    <3>8. Len(t2[n].seps) = Len(t[n].kids) - 1
        BY <2>2, <3>5, <3>6
    <3>9. \A j \in 1 .. Len(t2[n].seps) :
            /\ t2[n].seps[j][2] = lo[t[n].kids[j + 1]] /\ t2[n].seps[j][1] \in Leaves(t)
            /\ lo[t2[n].seps[j][1]] = t2[n].seps[j][2]
        BY <3>6, <3>7
    <3> QED
        BY <3>6, <3>8, <3>9
  <2>4. CASE ~ \E s \in S : s[1] = n /\ s[2] <= Len(t[n].seps)
    <3>1. t2[n] = t[n]
        BY <1>4, <2>1, <2>4
    <3>2. ASSUME NEW j \in 1 .. Len(t[n].seps) PROVE SepFits(t, lo, n, j)
      <4>1. <<n, j>> \notin S
          BY <2>1, <2>4
      <4> QED
          BY <2>2, <4>1
    <3> QED
        BY <2>1, <2>2, <3>1, <3>2 DEF SepFits
  <2> QED
      BY <2>3, <2>4
<1>7. ASSUME NEW n \in NodeIds
      PROVE  /\ t2[n] \in {Unallocated} \cup LeafRecords \cup InnerRecords
             /\ n \in Inners(t2) <=> n \in Inners(t)
             /\ n \in Leaves(t2) <=> n \in Leaves(t)
  <2>1. CASE n \in Inners(t)
      BY <1>6, <2>1 DEF Inners, Leaves, InnerRecords
  <2>2. CASE n \notin Inners(t)
    <3>1. t2[n] = t[n]
        BY <1>5, <2>2
    <3>2. t[n] \in {Unallocated} \cup LeafRecords \cup InnerRecords
        BY <1>1 DEF Trees
    <3> QED
        BY <3>1, <3>2 DEF Inners, Leaves
  <2> QED
      BY <2>1, <2>2
<1>8. t2 \in Trees
  <2>1. DOMAIN t2 = NodeIds /\ t2 = [n \in NodeIds |-> t2[n]]
      BY DEF Repointed
  <2> QED
      BY <1>7, <2>1 DEF Trees
<1>9. Leaves(t2) = Leaves(t) /\ Inners(t2) = Inners(t)
    BY <1>7 DEF Leaves, Inners
<1>10. SameShape(t, t2)
    BY <1>6, <1>8, <1>9 DEF SameShape
<1>11. SepsFit(t2, lo)
    BY <1>6, <1>9 DEF SepsFit
<1> QED
    BY <1>5, <1>10, <1>11 DEF RepointedIs

\* No two separators of a node are equal.
LEMMA SpotsApart ==
  ASSUME NEW t, NEW r, NEW lo, NEW hi, NEW h, NEW up, Skeleton(t, r, lo, hi, h, up), SepsFit(t, lo),
         NEW S, NEW k, SpotsFor(t, S, k)
  PROVE  OnePlace(S)
<1>1. ASSUME NEW s \in S
      PROVE  /\ s = <<s[1], s[2]>> /\ s[1] \in Inners(t) /\ s[2] \in Int /\ s[2] >= 1
             /\ s[2] + 1 \in 2 .. Len(t[s[1]].kids) /\ lo[t[s[1]].kids[s[2] + 1]] = k
  <2>1. /\ s = <<s[1], s[2]>> /\ s[1] \in Inners(t) /\ s[2] \in 1 .. Len(t[s[1]].seps)
        /\ t[s[1]].seps[s[2]][2] = k
      BY DEF SpotsFor
  <2> PICK m, i : m = s[1] /\ i = s[2]
      OBVIOUS
  <2>2. Len(t[m].seps) = Len(t[m].kids) - 1 /\ t[m].seps[i][2] = lo[t[m].kids[i + 1]]
      BY <2>1 DEF SepsFit
  <2>3. Len(t[m].kids) \in Nat
      BY <2>1, KidsAre DEF Skeleton
  <2> QED
      BY <2>1, <2>2, <2>3
<1>2. ASSUME NEW s \in S, NEW s2 \in S, s[1] = s2[1] PROVE s[2] = s2[2]
  <2> PICK m, i, j : m = s[1] /\ i = s[2] + 1 /\ j = s2[2] + 1
      OBVIOUS
  <2>1. m \in Inners(t) /\ i \in 2 .. Len(t[m].kids) /\ j \in 2 .. Len(t[m].kids) /\ lo[t[m].kids[i]] = lo[t[m].kids[j]]
      BY <1>1, <1>2
  <2>2. i = j
      BY <2>1, CutsDiffer
  <2> QED
      BY <1>1, <2>2
<1> QED
    BY <1>1, <1>2 DEF OnePlace

\* Where the nodes begin and end when the leaf l begins at x.
BeginsAt(t, r, lo, hi, lo2, hi2, l, x) ==
  /\ lo2[r] = lo[r] /\ hi2[r] = hi[r] /\ lo2[l] = x /\ hi2[l] = hi[l]
  /\ \A c \in Alive(t) : /\ lo2[c] = IF lo[c] = lo[l] THEN x ELSE lo[c]
                         /\ hi2[c] = IF hi[c] = lo[l] THEN x ELSE hi[c]
  /\ \A m \in Leaves(t) \ {l} : lo2[m] = lo[m] /\ lo[m] # lo[l] /\ hi2[m] >= hi[m]

LEMMA StartsAre ==
  ASSUME NEW t, NEW r, NEW lo, NEW hi, NEW h, NEW up, Skeleton(t, r, lo, hi, h, up),
         NEW l \in Leaves(t), NEW x \in Int, lo[l] <= x, x < hi[l], lo[l] = lo[r] => x = lo[l],
         NEW lo2, NEW hi2, Shifted(lo, hi, lo2, hi2, lo[l], x)
  PROVE  BeginsAt(t, r, lo, hi, lo2, hi2, l, x)
<1>1. Ghosts(lo, hi, h, up) /\ r \in Alive(t) /\ l \in Alive(t) /\ t \in Trees
    BY LeafBounds DEF Skeleton
<1>2. \A c \in NodeIds : /\ lo2[c] = IF lo[c] = lo[l] THEN x ELSE lo[c]
                         /\ hi2[c] = IF hi[c] = lo[l] THEN x ELSE hi[c]
  <2>1. ShiftedAt(lo, hi, lo2, hi2, lo[l], x)
      BY <1>1, ShiftGhosts
  <2> QED
      BY <2>1 DEF ShiftedAt
<1>3. /\ lo[l] \in Int /\ hi[l] \in Int /\ lo[r] \in Int /\ hi[r] \in Int /\ l \in NodeIds /\ r \in NodeIds
      /\ lo[l] < hi[l] /\ lo[r] <= lo[l] /\ hi[l] <= hi[r]
    BY <1>1, LeafBounds, AliveIs
<1>4. lo2[r] = lo[r] /\ hi2[r] = hi[r] /\ lo2[l] = x /\ hi2[l] = hi[l]
    BY <1>2, <1>3
<1>5. ASSUME NEW m \in Leaves(t) \ {l} PROVE lo2[m] = lo[m] /\ lo[m] # lo[l] /\ hi2[m] >= hi[m]
  <2>1. lo[m] # lo[l]
      BY SameLeaf
  <2>2. m \in NodeIds /\ hi[m] \in Int
      BY LeafBounds
  <2> QED
      BY <1>2, <1>3, <2>1, <2>2
<1> QED
    BY <1>2, <1>4, <1>5, AliveIs DEF BeginsAt

LEMMA ChainStarts ==
  ASSUME NEW t, NEW r, NEW lo, NEW hi, NEW h, NEW up, Skeleton(t, r, lo, hi, h, up), Chain(t, r, lo, hi),
         NEW l \in Leaves(t), NEW x \in Int, lo[l] <= x, x < hi[l], lo[l] = lo[r] => x = lo[l],
         NEW lo2, NEW hi2, BeginsAt(t, r, lo, hi, lo2, hi2, l, x),
         NEW t2, Leaves(t2) = Leaves(t), \A c \in Leaves(t) : t2[c].next = t[c].next /\ t2[c].prev = t[c].prev
  PROVE  Chain(t2, r, lo2, hi2)
<1>1. /\ lo2[r] = lo[r] /\ hi2[r] = hi[r]
      /\ \A c \in Alive(t) : /\ lo2[c] = IF lo[c] = lo[l] THEN x ELSE lo[c]
                             /\ hi2[c] = IF hi[c] = lo[l] THEN x ELSE hi[c]
    BY DEF BeginsAt
<1>2. /\ lo[l] \in Int /\ hi[l] \in Int /\ lo[r] \in Int /\ hi[r] \in Int
      /\ lo[l] < hi[l] /\ lo[r] <= lo[l] /\ hi[l] <= hi[r]
    BY LeafBounds
<1>3. \A c \in Leaves(t) : c \in Alive(t) /\ lo[c] \in Int /\ hi[c] \in Int
    BY LeafBounds
<1>4. ASSUME NEW c \in Leaves(t) PROVE NextIs(t2, r, lo2, hi2, c)
  <2>1. NextIs(t, r, lo, hi, c)
      BY DEF Chain
  <2>2. hi2[c] = hi2[r] <=> hi[c] = hi[r]
      BY <1>1, <1>2, <1>3
  <2> QED
      BY <1>1, <1>3, <2>1, <2>2 DEF NextIs
<1>5. ASSUME NEW c \in Leaves(t) PROVE PrevIs(t2, r, lo2, hi2, c)
  <2>1. PrevIs(t, r, lo, hi, c)
      BY DEF Chain
  <2>2. lo2[c] = lo2[r] <=> lo[c] = lo[r]
      BY <1>1, <1>2, <1>3
  <2> QED
      BY <1>1, <1>3, <2>1, <2>2 DEF PrevIs
<1> QED
    BY <1>4, <1>5 DEF Chain

\* Where a leaf begins that loses the key in place p and keeps the keys w.
NewStart(t, r, lo, l, p, w) == IF lo[l] = lo[r] \/ p # 1 \/ w = <<>> THEN lo[l] ELSE w[1]

\* The leaf without the key fits where it begins then.
LEMMA LeafStarts ==
  ASSUME NEW t, NEW r, NEW lo, NEW hi, NEW h, NEW up, Skeleton(t, r, lo, hi, h, up),
         NEW l \in Leaves(t), LeafFits(t, r, lo, hi, l),
         NEW p \in 1 .. Len(t[l].keys), Len(t[l].keys) > 1 \/ l = r,
         NEW w, w = RemoveAt(t[l].keys, p), NEW x, x = NewStart(t, r, lo, l, p, w)
  PROVE  /\ x \in Int /\ lo[l] <= x /\ x < hi[l] /\ (lo[l] = lo[r] => x = lo[l])
         /\ Ordered(w, x, hi[l]) /\ (l = r \/ Len(w) >= 1) /\ (x = lo[r] \/ w[1] = x)
         /\ x # lo[l] => t[l].keys[p] = lo[l]
         /\ \A e : Has(w, e) <=> e # t[l].keys[p] /\ Has(t[l].keys, e)
<1> PICK keys, n : keys = t[l].keys /\ n = Len(keys)
    OBVIOUS
<1>1. lo[l] \in Int /\ hi[l] \in Int /\ lo[l] < hi[l]
    BY LeafBounds
<1>2. Ordered(keys, lo[l], hi[l]) /\ (lo[l] = lo[r] \/ keys[1] = lo[l])
    BY DEF LeafFits
<1>3. n \in Nat /\ p \in 1 .. n
    BY <1>2, OrderedIs
<1>4. /\ Ordered(w, lo[l], hi[l]) /\ Len(w) = n - 1
      /\ \A e : Has(w, e) <=> e # keys[p] /\ Has(keys, e)
      /\ n > 1 => w[1] = IF p = 1 THEN keys[2] ELSE keys[1]
    BY <1>2, RemoveOrdered DEF OneLess
<1>5. Len(w) >= 1 => w[1] \in Int /\ lo[l] <= w[1] /\ w[1] < hi[l]
  <2> SUFFICES ASSUME Len(w) >= 1 PROVE w[1] \in Int /\ lo[l] <= w[1] /\ w[1] < hi[l]
      OBVIOUS
  <2>1. 1 \in 1 .. Len(w)
      BY <1>3, <1>4
  <2> QED
      BY <1>4, <2>1, OrderedIs
<1>6. CASE lo[l] = lo[r] \/ p # 1 \/ w = <<>>
  <2>1. x = lo[l]
      BY <1>6 DEF NewStart
  <2>2. l = r \/ Len(w) >= 1
      BY <1>3, <1>4
  <2>3. lo[l] = lo[r] \/ w[1] = lo[l]
    <3> SUFFICES ASSUME lo[l] # lo[r] PROVE w[1] = lo[l]
        OBVIOUS
    <3>1. n > 1
        OBVIOUS
    <3>2. Len(w) # 0
        BY <1>3, <1>4, <3>1
    <3>3. w # <<>>
        BY <3>2
    <3> QED
        BY <1>2, <1>4, <1>6, <3>1, <3>3
  <2> QED
      BY <1>1, <1>4, <2>1, <2>2, <2>3
<1>7. CASE ~(lo[l] = lo[r] \/ p # 1 \/ w = <<>>)
  <2>1. x = w[1] /\ keys[1] = lo[l] /\ p = 1
      BY <1>2, <1>7 DEF NewStart
  <2>2. Len(w) >= 1
    <3>1. n > 1
        BY <1>7
    <3> QED
        BY <1>3, <1>4, <3>1
  <2>3. Ordered(w, x, hi[l])
    <3>1. ASSUME NEW i \in 1 .. Len(w) PROVE x <= w[i]
      <4>1. 1 \in 1 .. Len(w) /\ w[1] \in Int /\ w[i] \in Int /\ (1 < i => w[1] < w[i])
          BY <1>3, <1>4, <2>2, OrderedIs
      <4> QED
          BY <2>1, <4>1
    <3> QED
        BY <1>4, <3>1 DEF Ordered
  <2> QED
      BY <1>4, <1>5, <1>7, <2>1, <2>2, <2>3
<1> QED
    BY <1>6, <1>7

\* The tree that is left when a leaf loses the key in place p.
LosesKey(t, t2, r, l, p, S) ==
  /\ l \in Leaves(t) /\ p \in 1 .. Len(t[l].keys) /\ (Len(t[l].keys) > 1 \/ l = r)
  /\ SpotsFor(t, S, t[l].keys[p])
  /\ \E t1, w : /\ w = RemoveAt(t[l].keys, p) /\ t1 = [t EXCEPT ![l] = Leaf(w, t[l].prev, t[l].next)]
                /\ t2 = IF w = <<>> THEN t1 ELSE Repointed(t1, S)

LEMMA TreeLosesKey ==
  ASSUME NEW t, NEW t2, NEW r, NEW lo, NEW hi, NEW h, NEW up, Tree(t, r, lo, hi, h, up), Chain(t, r, lo, hi),
         NEW l, NEW p, NEW S, LosesKey(t, t2, r, l, p, S), NEW k, k = t[l].keys[p]
  PROVE  TreeOf(t2, r, Held(t) \ {k})
<1> PICK t1, w : /\ w = RemoveAt(t[l].keys, p) /\ t1 = [t EXCEPT ![l] = Leaf(w, t[l].prev, t[l].next)]
                 /\ t2 = IF w = <<>> THEN t1 ELSE Repointed(t1, S)
    BY DEF LosesKey
<1>1. /\ l \in Leaves(t) /\ p \in 1 .. Len(t[l].keys) /\ (Len(t[l].keys) > 1 \/ l = r) /\ SpotsFor(t, S, k)
    BY DEF LosesKey
<1>2. /\ Skeleton(t, r, lo, hi, h, up) /\ SepsFit(t, lo) /\ t \in Trees /\ Ghosts(lo, hi, h, up)
      /\ \A c \in Leaves(t) : LeafFits(t, r, lo, hi, c)
    BY DEF Tree, Skeleton
<1> PICK x : x = NewStart(t, r, lo, l, p, w)
    OBVIOUS
<1>3. /\ x \in Int /\ lo[l] <= x /\ x < hi[l] /\ (lo[l] = lo[r] => x = lo[l])
      /\ Ordered(w, x, hi[l]) /\ (l = r \/ Len(w) >= 1) /\ (x = lo[r] \/ w[1] = x)
      /\ x # lo[l] => k = lo[l]
      /\ \A e : Has(w, e) <=> e # k /\ Has(t[l].keys, e)
    BY <1>1, <1>2, LeafStarts
<1> PICK lo2, hi2 : lo2 = Shift(lo, lo[l], x) /\ hi2 = Shift(hi, lo[l], x)
    OBVIOUS
<1>4. Shifted(lo, hi, lo2, hi2, lo[l], x)
    BY DEF Shifted
<1>5. Skeleton(t, r, lo2, hi2, h, up)
    BY <1>1, <1>2, <1>3, <1>4, SkeletonShifts
<1>6. BeginsAt(t, r, lo, hi, lo2, hi2, l, x)
    BY <1>1, <1>2, <1>3, <1>4, StartsAre
<1>7. /\ lo2[r] = lo[r] /\ hi2[r] = hi[r] /\ lo2[l] = x /\ hi2[l] = hi[l]
      /\ \A c \in Alive(t) : lo2[c] = IF lo[c] = lo[l] THEN x ELSE lo[c]
      /\ \A m \in Leaves(t) \ {l} : lo2[m] = lo[m] /\ lo[m] # lo[l] /\ hi2[m] >= hi[m]
    BY <1>6 DEF BeginsAt
\* The leaf with its other keys.
<1>8. OtherKeys(t, t1, l, w)
    BY <1>1, <1>3 DEF OtherKeys, Ordered
<1>9. /\ SameShape(t, t1) /\ t1[l].keys = w
      /\ \A n \in NodeIds \ {l} : t1[n] = t[n]
      /\ \A n \in Inners(t) : t1[n] = t[n]
  <2>1. t \in Trees
      BY <1>2
  <2> QED
      BY ONLY <1>8, <2>1, OtherKeysAre
<1>10. Skeleton(t1, r, lo2, hi2, h, up) /\ Leaves(t1) = Leaves(t) /\ Inners(t1) = Inners(t)
    BY <1>5, <1>9, SameSkeleton DEF SameShape
<1>11. ASSUME NEW c \in Leaves(t) PROVE LeafFits(t1, r, lo2, hi2, c)
  <2>1. CASE c = l
      BY <1>3, <1>7, <1>9, <2>1 DEF LeafFits
  <2>2. CASE c # l
    <3>1. t1[c] = t[c] /\ LeafFits(t, r, lo, hi, c)
        BY <1>2, <1>9, <2>2, AliveIs
    <3>2. lo2[c] = lo[c] /\ hi2[c] >= hi[c] /\ lo2[r] = lo[r]
        BY <1>7, <2>2
    <3>3. hi[c] \in Int /\ hi2[c] \in Int
        BY <1>2, <1>5, LeafBounds
    <3>4. Ordered(t[c].keys, lo[c], hi[c]) /\ (c = r \/ Len(t[c].keys) >= 1) /\ (lo[c] = lo[r] \/ t[c].keys[1] = lo[c])
        BY <3>1 DEF LeafFits
    <3>5. Ordered(t[c].keys, lo[c], hi2[c])
      <4>1. \A i \in 1 .. Len(t[c].keys) : t[c].keys[i] \in Int /\ lo[c] <= t[c].keys[i] /\ t[c].keys[i] < hi[c]
          BY <3>4, OrderedIs
      <4>2. \A i \in 1 .. Len(t[c].keys) : lo[c] <= t[c].keys[i] /\ t[c].keys[i] < hi2[c]
          BY <3>2, <3>3, <4>1
      <4> QED
          BY <3>4, <4>2 DEF Ordered
    <3> QED
        BY <3>1, <3>2, <3>4, <3>5 DEF LeafFits
  <2> QED
      BY <2>1, <2>2
\* A separator other than k still fits.
<1>12. ASSUME NEW c \in Alive(t), lo[c] = lo[l] => k # lo[l] PROVE lo2[c] = lo[c]
    BY <1>3, <1>7, <1>12
<1>13. ASSUME NEW n \in Inners(t)
       PROVE  /\ t1[n] = t[n] /\ Len(t[n].seps) = Len(t[n].kids) - 1
              /\ \A i \in 1 .. Len(t[n].seps) : <<n, i>> \in S \/ SepFits(t1, lo2, n, i)
  <2>1. t1[n] = t[n] /\ Len(t[n].seps) = Len(t[n].kids) - 1
      BY <1>2, <1>9 DEF SepsFit
  <2>2. ASSUME NEW i \in 1 .. Len(t[n].seps), <<n, i>> \notin S PROVE SepFits(t1, lo2, n, i)
    <3> PICK v, c, m : v = t[n].seps[i][2] /\ c = t[n].kids[i + 1] /\ m = t[n].seps[i][1]
        OBVIOUS
    <3>1. v = lo[c] /\ m \in Leaves(t) /\ lo[m] = v
        BY <1>2 DEF SepsFit
    <3>2. v # k
        BY <1>1, <2>2 DEF SpotsFor
    <3>3. c \in Alive(t) /\ m \in Alive(t)
      <4>1. i + 1 \in 1 .. Len(t[n].kids)
          BY <1>2, <2>1, KidsAre
      <4> QED
          BY <1>2, <3>1, <4>1, KidIsInside, LeafBounds
    <3>4. lo2[c] = v /\ lo2[m] = v
        BY <1>12, <3>1, <3>2, <3>3
    <3> QED
        BY <1>10, <2>1, <3>1, <3>4 DEF SepFits
  <2> QED
      BY <2>1, <2>2
<1>14. OnePlace(S)
    BY <1>1, <1>2, SpotsApart
<1>15. /\ Leaves(t2) = Leaves(t) /\ Skeleton(t2, r, lo2, hi2, h, up) /\ SepsFit(t2, lo2)
       /\ \A c \in Leaves(t) : t2[c] = t1[c]
  <2>1. CASE w = <<>>
    <3>1. t2 = t1
        BY <2>1
    <3>2. x = lo[l]
        BY <2>1 DEF NewStart
    <3>3. \A c \in Alive(t) : lo2[c] = lo[c]
        BY <1>7, <3>2
    <3>4. ASSUME NEW n \in Inners(t), NEW i \in 1 .. Len(t[n].seps) PROVE SepFits(t1, lo2, n, i)
      <4> PICK v, c, m : v = t[n].seps[i][2] /\ c = t[n].kids[i + 1] /\ m = t[n].seps[i][1]
          OBVIOUS
      <4>1. v = lo[c] /\ m \in Leaves(t) /\ lo[m] = v
          BY <1>2 DEF SepsFit
      <4>2. c \in Alive(t) /\ m \in Alive(t)
        <5>1. i + 1 \in 1 .. Len(t[n].kids)
            BY <1>2, <1>13, KidsAre
        <5> QED
            BY <1>2, <4>1, <5>1, KidIsInside, LeafBounds
      <4> QED
        <5>1. m \in Leaves(t1) /\ t1[n] = t[n] /\ lo2[c] = v /\ lo2[m] = v
            BY <1>10, <1>13, <3>3, <4>1, <4>2
        <5>2. t1[n].seps[i][2] = v /\ t1[n].kids[i + 1] = c /\ t1[n].seps[i][1] = m
            BY <5>1
        <5> QED
            BY ONLY <5>1, <5>2 DEF SepFits
    <3>5. SepsFit(t1, lo2)
      <4>1. ASSUME NEW n \in Inners(t1)
            PROVE  /\ Len(t1[n].seps) = Len(t1[n].kids) - 1
                   /\ \A i \in 1 .. Len(t1[n].seps) :
                        t1[n].seps[i][2] = lo2[t1[n].kids[i + 1]] /\ t1[n].seps[i][1] \in Leaves(t1)
                        /\ lo2[t1[n].seps[i][1]] = t1[n].seps[i][2]
        <5>1. n \in Inners(t) /\ t1[n] = t[n] /\ Len(t[n].seps) = Len(t[n].kids) - 1
            BY <1>10, <1>13
        <5> QED
            BY <3>4, <5>1 DEF SepFits
      <4> QED
          BY <4>1 DEF SepsFit
    <3> QED
        BY <1>10, <3>1, <3>5
  <2>2. CASE w # <<>>
    <3>1. t2 = Repointed(t1, S)
        BY <2>2
    <3>2. SepsFitBut(t1, lo2, S)
        BY <1>10, <1>13 DEF SepsFitBut
    <3>3. \A c \in Leaves(t1) : LeafFits(t1, r, lo2, hi2, c)
        BY <1>10, <1>11
    <3>4. RepointedIs(t1, t2, lo2)
        BY <1>10, <1>14, <3>1, <3>2, <3>3, RepointedFits
    <3>5. SameShape(t1, t2) /\ SepsFit(t2, lo2) /\ \A n \in NodeIds \ Inners(t1) : t2[n] = t1[n]
        BY <3>4 DEF RepointedIs
    <3>6. Skeleton(t2, r, lo2, hi2, h, up) /\ Leaves(t2) = Leaves(t)
        BY ONLY <1>10, <3>5, SameSkeleton DEF SameShape
    <3>7. \A c \in Leaves(t) : c \in NodeIds \ Inners(t1)
        BY <1>2, <1>10, AliveIs, KindsAre
    <3> QED
        BY <3>5, <3>6, <3>7
  <2> QED
      BY <2>1, <2>2
<1>16. \A c \in Leaves(t2) : LeafFits(t2, r, lo2, hi2, c)
  <2> SUFFICES ASSUME NEW c \in Leaves(t2) PROVE LeafFits(t2, r, lo2, hi2, c)
      OBVIOUS
  <2>1. t2[c] = t1[c] /\ LeafFits(t1, r, lo2, hi2, c)
      BY <1>11, <1>15
  <2> QED
      BY ONLY <2>1 DEF LeafFits
<1>17. \A y \in Keys : Covers(lo2, hi2, r, y)
    BY <1>7 DEF Tree, Covers
<1>18. Tree(t2, r, lo2, hi2, h, up)
    BY <1>15, <1>16, <1>17 DEF Tree
<1>19. Chain(t2, r, lo2, hi2)
  <2>1. \A c \in Leaves(t) : t2[c].next = t[c].next /\ t2[c].prev = t[c].prev
    <3>1. t1[l].next = t[l].next /\ t1[l].prev = t[l].prev
      <4>1. l \in NodeIds /\ DOMAIN t = NodeIds
          BY <1>1, <1>2, AliveIs DEF Trees
      <4> QED
          BY <4>1 DEF Leaf
    <3> QED
        BY <1>9, <1>15, <3>1, AliveIs
  <2>2. Chain(t, r, lo, hi) /\ Leaves(t2) = Leaves(t) /\ x \in Int /\ lo[l] <= x /\ x < hi[l] /\ (lo[l] = lo[r] => x = lo[l])
      BY <1>3, <1>15
  <2>3. Skeleton(t, r, lo, hi, h, up) /\ l \in Leaves(t)
      BY <1>1, <1>2
  <2> QED
      BY ONLY <1>6, <2>1, <2>2, <2>3, ChainStarts
<1>20. Held(t2) = Held(t) \ {k}
  <2>1. ASSUME NEW c \in Leaves(t), c # l PROVE t2[c].keys = t[c].keys /\ ~Has(t[c].keys, k)
    <3>1. t2[c].keys = t[c].keys
        BY <1>9, <1>15, <2>1, AliveIs
    <3>2. ~Has(t[c].keys, k)
      <4> SUFFICES ASSUME Has(t[c].keys, k) PROVE FALSE
          OBVIOUS
      <4>1. Covers(lo, hi, c, k) /\ k \in Int
          BY <1>2, OrderedIs DEF LeafFits, Has, Covers
      <4>2. Covers(lo, hi, l, k)
          BY <1>1, <1>2, OrderedIs DEF LeafFits, Covers
      <4> QED
          BY <1>1, <1>2, <2>1, <4>1, <4>2, LeavesDiffer
    <3> QED
        BY <3>1, <3>2
  <2>2. t2[l].keys = w
      BY <1>1, <1>9, <1>15
  <2>3. ASSUME NEW e \in Keys
        PROVE  (\E c \in Leaves(t2) : Has(t2[c].keys, e)) <=> e # k /\ \E c \in Leaves(t) : Has(t[c].keys, e)
    <3>1. ASSUME NEW c \in Leaves(t) PROVE Has(t2[c].keys, e) <=> e # k /\ Has(t[c].keys, e)
      <4>1. CASE c = l
          BY <1>3, <2>2, <4>1
      <4>2. CASE c # l
          BY <2>1, <4>2
      <4> QED
          BY <4>1, <4>2
    <3>2. Leaves(t2) = Leaves(t)
        BY <1>15
    <3> QED
        BY ONLY <3>1, <3>2
  <2> QED
      BY <2>3 DEF Held
<1> QED
    BY <1>18, <1>19, <1>20 DEF TreeOf

LEMMA EraseFromLeafKeeps ==
  ASSUME IInv, NEW k \in Keys, EraseFromLeaf(k)
  PROVE  IInv'
<1> PICK lo, hi, h, up : Sound(node, root, contents, size, lo, hi, h, up)
    BY DEF IInv
<1>1. Tree(node, root, lo, hi, h, up) /\ Chain(node, root, lo, hi) /\ Held(node) = contents /\ size = Cardinality(contents)
    BY DEF Sound
<1> PICK path, l, S : path = PathTo(k) /\ l = Last(path) /\ S = ToReplace(Front(path), k)
    OBVIOUS
<1> PICK left : left = [node EXCEPT ![l] = WithoutEntry(@, Find(k)[2])]
    OBVIOUS
<1>2. /\ Exists(k) /\ (Len(node[l].keys) > 1 \/ l = root) /\ pc = "idle" /\ pc' = pc
      /\ node' = IF left[l].keys = <<>> THEN left ELSE Repointed(left, S)
      /\ root' = root /\ size' = size - 1 /\ contents' = contents \ {k}
    BY DEF EraseFromLeaf, Idle, callVars
<1>3. FoundIn(l, lo, hi, k)
  <2>1. l = FindLeaf(k)
      BY DEF FindLeaf
  <2> QED
      BY <1>1, <2>1, FindIs
<1>4. l \in Leaves(node) /\ k \in Held(node) /\ Has(node[l].keys, k)
    BY <1>2, <1>3 DEF FoundIn
<1> PICK p : p = LeafFind(node[l].keys, k)
    OBVIOUS
<1>5. Find(k)[2] = p
    BY <1>3, <1>4 DEF FoundIn
<1>6. p \in 1 .. Len(node[l].keys) /\ node[l].keys[p] = k
  <2>1. Ordered(node[l].keys, lo[l], hi[l])
      BY <1>1, <1>4 DEF Tree, LeafFits
  <2> QED
      BY <1>4, <2>1, LeafFindIs, SmallFacts
<1>7. SpotsFor(node, S, k)
    BY <1>1, SpotsAre
<1>8. LosesKey(node, node', root, l, p, S)
  <2> PICK w : w = RemoveAt(node[l].keys, p)
      OBVIOUS
  <2>1. node \in Trees /\ l \in NodeIds /\ DOMAIN node = NodeIds
      BY <1>1, <1>4, AliveIs DEF Tree, Skeleton, Trees
  <2>2. WithoutEntry(node[l], p) = Leaf(w, node[l].prev, node[l].next)
    <3>1. node[l] = Leaf(node[l].keys, node[l].prev, node[l].next)
        BY <1>4, <2>1, KeysAre
    <3> QED
        BY <3>1 DEF WithoutEntry, Leaf
  <2>3. left = [node EXCEPT ![l] = Leaf(w, node[l].prev, node[l].next)]
      BY <1>5, <2>1, <2>2
  <2>4. left[l].keys = w
      BY <2>1, <2>3 DEF Leaf
  <2> QED
      BY <1>2, <1>4, <1>6, <1>7, <2>3, <2>4 DEF LosesKey
<1>9. TreeOf(node', root, Held(node) \ {k})
    BY <1>1, <1>6, <1>8, TreeLosesKey
<1>10. PICK lo2, hi2, h2, up2 :
         Tree(node', root, lo2, hi2, h2, up2) /\ Chain(node', root, lo2, hi2) /\ Held(node') = Held(node) \ {k}
    BY <1>9 DEF TreeOf
<1>11. Sound(node', root', contents', size', lo2, hi2, h2, up2)
  <2>1. Held(node') = contents'
      BY <1>1, <1>2, <1>10
  <2>2. size' = Cardinality(contents')
      BY <1>1, <1>2, <1>4, OneLessHeld
  <2> QED
      BY <1>2, <1>10, <2>1, <2>2 DEF Sound
<1> QED
    BY <1>2, <1>11 DEF IInv, Waits

-----------------------------------------------------------------------------
(* A leaf goes: the leaf before it serves what it served, or, if it was    *)
(* the first one, the leaf behind it.                                      *)

From(r, lo, hi, l) == IF lo[l] = lo[r] THEN hi[l] ELSE lo[l]
To(r, lo, hi, l) == IF lo[l] = lo[r] THEN lo[l] ELSE hi[l]

\* Where the nodes begin and end without l.
Gone(t, r, lo, hi, lo2, hi2, l) ==
  /\ \A c \in NodeIds : /\ lo2[c] = IF lo[c] = From(r, lo, hi, l) THEN To(r, lo, hi, l) ELSE lo[c]
                        /\ hi2[c] = IF hi[c] = From(r, lo, hi, l) THEN To(r, lo, hi, l) ELSE hi[c]
  /\ \A c \in Alive(t) \ {l} : lo2[c] < hi2[c]
  /\ \A c, d \in Alive(t) : lo[c] < lo[d] /\ ~(lo[c] = lo[l] /\ lo[d] = hi[l]) => lo2[c] < lo2[d]
  /\ lo2[l] = hi2[l] /\ lo2[r] = lo[r] /\ hi2[r] = hi[r]

LEMMA GoneIs ==
  ASSUME NEW t, NEW r, NEW lo, NEW hi, NEW h, NEW up, Skeleton(t, r, lo, hi, h, up), NEW l \in Leaves(t), l # r,
         NEW lo2, NEW hi2, Shifted(lo, hi, lo2, hi2, From(r, lo, hi, l), To(r, lo, hi, l))
  PROVE  Gone(t, r, lo, hi, lo2, hi2, l) /\ Ghosts(lo2, hi2, h, up)
<1> PICK from, to : from = From(r, lo, hi, l) /\ to = To(r, lo, hi, l)
    OBVIOUS
<1>1. Ghosts(lo, hi, h, up) /\ r \in Alive(t) /\ Shifted(lo, hi, lo2, hi2, from, to)
    BY DEF Skeleton
<1>2. /\ lo[l] \in Int /\ hi[l] \in Int /\ lo[r] \in Int /\ hi[r] \in Int /\ l \in NodeIds /\ l \in Alive(t)
      /\ lo[l] < hi[l] /\ lo[r] <= lo[l] /\ hi[l] <= hi[r] /\ Covers(lo, hi, l, lo[l]) /\ r \in NodeIds
    BY <1>1, LeafBounds, AliveIs
<1>3. \/ lo[l] = lo[r] /\ from = hi[l] /\ to = lo[l]
      \/ lo[l] # lo[r] /\ from = lo[l] /\ to = hi[l]
    BY DEF From, To
<1>4. to \in Int /\ from \in Int /\ Moves(lo[l], hi[l], from, to)
    BY <1>2, <1>3 DEF Moves
<1>5. /\ Ghosts(lo2, hi2, h, up)
      /\ \A c \in NodeIds : /\ lo2[c] = IF lo[c] = from THEN to ELSE lo[c]
                            /\ hi2[c] = IF hi[c] = from THEN to ELSE hi[c]
  <2>1. Ghosts(lo2, hi2, h, up) /\ ShiftedAt(lo, hi, lo2, hi2, from, to)
      BY <1>1, <1>4, ShiftGhosts
  <2> QED
      BY <2>1 DEF ShiftedAt
\* Another node that serves what l serves serves more.
<1>6. ASSUME NEW c \in Alive(t), c # l PROVE ~(lo[c] = lo[l] /\ hi[c] = hi[l])
  <2> SUFFICES ASSUME lo[c] = lo[l], hi[c] = hi[l] PROVE FALSE
      OBVIOUS
  <2>1. Covers(lo, hi, c, lo[l])
      BY <1>2 DEF Covers
  <2>2. Inside(lo, hi, h, l, c)
      BY <1>2, <1>6, <2>1, LeafIsLowest
  <2> QED
      BY <1>2, <2>2 DEF Inside
<1>7. ASSUME NEW c \in Alive(t) \ {l} PROVE lo2[c] < hi2[c]
  <2> PICK v, w : v = lo[c] /\ w = hi[c]
      OBVIOUS
  <2>1. v \in Int /\ w \in Int /\ v < w /\ (v <= lo[l] \/ hi[l] <= v) /\ (w <= lo[l] \/ hi[l] <= w)
      BY LeafEdges
  <2>2. (IF v = from THEN to ELSE v) < (IF w = from THEN to ELSE w)
      BY <1>2, <1>4, <1>6, <2>1, ShiftRises
  <2> QED
      BY <1>5, <2>2, AliveIs
<1>8. ASSUME NEW c \in Alive(t), NEW d \in Alive(t), lo[c] < lo[d], ~(lo[c] = lo[l] /\ lo[d] = hi[l])
      PROVE  lo2[c] < lo2[d]
  <2> PICK v, w : v = lo[c] /\ w = lo[d]
      OBVIOUS
  <2>1. v \in Int /\ w \in Int /\ v < w /\ (v <= lo[l] \/ hi[l] <= v) /\ (w <= lo[l] \/ hi[l] <= w)
      BY <1>8, LeafEdges
  <2>2. (IF v = from THEN to ELSE v) < (IF w = from THEN to ELSE w)
      BY <1>2, <1>4, <1>8, <2>1, ShiftRises
  <2> QED
      BY <1>5, <2>2, AliveIs
<1>9. lo2[l] = hi2[l]
    BY <1>2, <1>3, <1>5
<1>10. lo2[r] = lo[r] /\ hi2[r] = hi[r]
  <2>1. lo[r] # from
      BY <1>2, <1>3
  <2>2. hi[r] # from
      BY <1>1, <1>2, <1>3, <1>6
  <2> QED
      BY <1>2, <1>5, <2>1, <2>2
<1> QED
    BY <1>5, <1>7, <1>8, <1>9, <1>10 DEF Gone

\* Of two children the first ends before the second begins.
LEMMA KidsApart ==
  ASSUME NEW t, NEW r, NEW lo, NEW hi, NEW h, NEW up, Skeleton(t, r, lo, hi, h, up),
         NEW n \in Inners(t), NEW i \in 1 .. Len(t[n].kids), NEW j \in 1 .. Len(t[n].kids), i < j
  PROVE  /\ lo[t[n].kids[i]] \in Int /\ hi[t[n].kids[i]] \in Int /\ lo[t[n].kids[j]] \in Int
         /\ lo[t[n].kids[i]] < hi[t[n].kids[i]] /\ hi[t[n].kids[i]] <= lo[t[n].kids[j]]
<1> PICK kids, m : kids = t[n].kids /\ m = Len(kids)
    OBVIOUS
<1>1. t \in Trees /\ Ghosts(lo, hi, h, up) /\ Family(kids, n, Alive(t), lo, hi, h, up) /\ \A c \in Alive(t) : lo[c] < hi[c]
    BY DEF Skeleton
<1>2. m \in Nat /\ i + 1 \in 1 .. m /\ i \in 1 .. m - 1
    BY <1>1, KidsAre
<1>3. \A y \in 1 .. m : kids[y] \in Alive(t) /\ lo[kids[y]] \in Int /\ hi[kids[y]] \in Int
    BY <1>1, AliveIs DEF Family, Ghosts
<1>4. hi[kids[i]] = lo[kids[i + 1]] /\ (i + 1 < j => lo[kids[i + 1]] < lo[kids[j]])
    BY <1>1, <1>2 DEF Family
<1>5. hi[kids[i]] <= lo[kids[j]]
  <2>1. CASE i + 1 = j
      BY <1>3, <1>4, <2>1
  <2>2. CASE i + 1 < j
      BY <1>2, <1>3, <1>4, <2>2
  <2> QED
      BY <1>2, <2>1, <2>2
<1> QED
    BY <1>1, <1>3, <1>5

LEMMA KidsRise ==
  ASSUME NEW t, NEW r, NEW lo, NEW hi, NEW h, NEW up, Skeleton(t, r, lo, hi, h, up), NEW l \in Leaves(t),
         NEW lo2, NEW hi2, Gone(t, r, lo, hi, lo2, hi2, l),
         NEW n \in Inners(t), NEW i \in 1 .. Len(t[n].kids), NEW j \in 1 .. Len(t[n].kids), i < j, t[n].kids[i] # l
  PROVE  lo2[t[n].kids[i]] < lo2[t[n].kids[j]]
<1> PICK c, d : c = t[n].kids[i] /\ d = t[n].kids[j]
    OBVIOUS
<1>1. lo[c] \in Int /\ hi[c] \in Int /\ lo[d] \in Int /\ lo[c] < hi[c] /\ hi[c] <= lo[d]
    BY KidsApart
<1>2. c \in Alive(t) /\ d \in Alive(t)
    BY KidIsInside
<1>3. /\ lo[l] \in Int /\ hi[l] \in Int /\ lo[l] < hi[l] /\ Covers(lo, hi, l, lo[l])
    BY LeafBounds
<1>4. ~(lo[c] = lo[l] /\ lo[d] = hi[l])
  <2> SUFFICES ASSUME lo[c] = lo[l], lo[d] = hi[l] PROVE FALSE
      OBVIOUS
  <2>1. Covers(lo, hi, c, lo[l])
      BY <1>1, <1>3 DEF Covers
  <2>2. Inside(lo, hi, h, l, c)
      BY <1>2, <1>3, <2>1, LeafIsLowest
  <2> QED
      BY <1>1, <1>3, <2>2 DEF Inside
<1> QED
    BY <1>1, <1>2, <1>4 DEF Gone

\* The children of a node that keeps them.
LEMMA FamilyStays ==
  ASSUME NEW t, NEW r, NEW lo, NEW hi, NEW h, NEW up, Skeleton(t, r, lo, hi, h, up), NEW l \in Leaves(t),
         NEW lo2, NEW hi2, Gone(t, r, lo, hi, lo2, hi2, l), NEW n \in Inners(t), up[l] # n
  PROVE  Family(t[n].kids, n, Alive(t) \ {l}, lo2, hi2, h, up)
<1> PICK kids, m : kids = t[n].kids /\ m = Len(kids)
    OBVIOUS
<1>1. t \in Trees /\ Family(kids, n, Alive(t), lo, hi, h, up) /\ n \in NodeIds
    BY AliveIs DEF Skeleton
<1>2. m \in Nat /\ m \in 2 .. Capacity + 1 /\ \A i \in 1 .. m : kids[i] \in Alive(t) /\ kids[i] \in NodeIds /\ up[kids[i]] = n /\ kids[i] # l
    BY <1>1, KidsAre DEF Family
<1>3. \A c \in NodeIds : /\ lo2[c] = IF lo[c] = From(r, lo, hi, l) THEN To(r, lo, hi, l) ELSE lo[c]
                         /\ hi2[c] = IF hi[c] = From(r, lo, hi, l) THEN To(r, lo, hi, l) ELSE hi[c]
    BY DEF Gone
<1>4. 1 \in 1 .. m /\ m \in 1 .. m
    BY <1>2, SmallFacts
<1>5. lo2[kids[1]] = lo2[n] /\ hi2[kids[m]] = hi2[n]
    BY <1>1, <1>2, <1>3, <1>4 DEF Family
<1>6. ASSUME NEW i \in 1 .. m - 1 PROVE hi2[kids[i]] = lo2[kids[i + 1]]
  <2>1. i \in 1 .. m /\ i + 1 \in 1 .. m
      BY <1>2
  <2> QED
      BY <1>1, <1>2, <1>3, <2>1 DEF Family
<1>7. \A i, j \in 1 .. m : i < j => lo2[kids[i]] < lo2[kids[j]]
    BY <1>2, KidsRise
<1>8. \A i \in 1 .. m : h[kids[i]] < h[n]
    BY <1>1 DEF Family
<1> QED
    BY <1>2, <1>5, <1>6, <1>7, <1>8 DEF Family

\* The children of the parent of l, without l.
LEMMA FamilyDrops ==
  ASSUME NEW t, NEW r, NEW lo, NEW hi, NEW h, NEW up, Skeleton(t, r, lo, hi, h, up), NEW l \in Leaves(t),
         NEW lo2, NEW hi2, Gone(t, r, lo, hi, lo2, hi2, l),
         NEW n \in Inners(t), NEW a \in 1 .. Len(t[n].kids), t[n].kids[a] = l, Len(t[n].kids) >= 3,
         NEW kids2, IsRemoved(kids2, t[n].kids, a)
  PROVE  Family(kids2, n, Alive(t) \ {l}, lo2, hi2, h, up)
<1> PICK kids, m : kids = t[n].kids /\ m = Len(kids)
    OBVIOUS
<1>1. t \in Trees /\ Family(kids, n, Alive(t), lo, hi, h, up) /\ n \in NodeIds /\ l \in NodeIds
    BY AliveIs DEF Skeleton
<1>2. /\ m \in Nat /\ m >= 3 /\ m <= Capacity + 1 /\ a \in 1 .. m
      /\ \A i \in 1 .. m : kids[i] \in Alive(t) /\ kids[i] \in NodeIds /\ up[kids[i]] = n /\ h[kids[i]] < h[n]
    BY <1>1, KidsAre, SmallFacts DEF Family
<1>3. ASSUME NEW i \in 1 .. m, i # a PROVE kids[i] # l
  <2>1. i \in Int /\ a \in Int
      BY <1>2
  <2>2. CASE i < a
    <3>1. lo[kids[i]] \in Int /\ lo[kids[i]] < hi[kids[i]] /\ hi[kids[i]] <= lo[kids[a]] /\ hi[kids[i]] \in Int /\ lo[kids[a]] \in Int
        BY <2>2, KidsApart
    <3>2. kids[a] = l
        OBVIOUS
    <3> QED
        BY ONLY <3>1, <3>2
  <2>3. CASE a < i
    <3>1. lo[kids[a]] \in Int /\ lo[kids[a]] < hi[kids[a]] /\ hi[kids[a]] <= lo[kids[i]] /\ hi[kids[a]] \in Int /\ lo[kids[i]] \in Int
        BY <2>3, KidsApart
    <3>2. kids[a] = l
        OBVIOUS
    <3> QED
        BY ONLY <3>1, <3>2
  <2> QED
      BY <1>3, <2>1, <2>2, <2>3
<1>4. /\ Len(kids2) = m - 1
      /\ \A j \in 1 .. m - 1 : kids2[j] = IF j < a THEN kids[j] ELSE kids[j + 1]
    BY DEF IsRemoved
<1> PICK from, to : from = From(r, lo, hi, l) /\ to = To(r, lo, hi, l)
    OBVIOUS
<1>5. \A c \in NodeIds : /\ lo2[c] = IF lo[c] = from THEN to ELSE lo[c]
                         /\ hi2[c] = IF hi[c] = from THEN to ELSE hi[c]
    BY DEF Gone
<1>6. lo2[l] = hi2[l]
    BY DEF Gone
<1>7. ASSUME NEW j \in 1 .. m - 1
      PROVE  /\ kids2[j] \in Alive(t) \ {l} /\ up[kids2[j]] = n /\ h[kids2[j]] < h[n]
             /\ \E i \in 1 .. m : i # a /\ kids2[j] = kids[i] /\ i = IF j < a THEN j ELSE j + 1
  <2> PICK i : i = IF j < a THEN j ELSE j + 1
      OBVIOUS
  <2>1. i \in 1 .. m /\ i # a /\ kids2[j] = kids[i]
      BY <1>2, <1>4
  <2> QED
      BY <1>2, <1>3, <2>1
<1>8. ASSUME NEW i \in 1 .. m - 1, NEW j \in 1 .. m - 1, i < j PROVE lo2[kids2[i]] < lo2[kids2[j]]
  <2> PICK x \in 1 .. m : x # a /\ kids2[i] = kids[x] /\ x = IF i < a THEN i ELSE i + 1
      BY <1>7
  <2> PICK y \in 1 .. m : y # a /\ kids2[j] = kids[y] /\ y = IF j < a THEN j ELSE j + 1
      BY <1>7
  <2>1. x < y
      BY <1>2, <1>8
  <2>2. kids[x] # l
      BY <1>3
  <2> QED
      BY <2>1, <2>2, KidsRise
\* What the child before l ends with, and the child behind it begins with.
<1>9. a > 1 => hi[kids[a - 1]] = lo[l] /\ hi2[kids[a - 1]] = lo2[l]
  <2> SUFFICES ASSUME a > 1 PROVE hi[kids[a - 1]] = lo[l] /\ hi2[kids[a - 1]] = lo2[l]
      OBVIOUS
  <2> PICK y : y = a - 1
      OBVIOUS
  <2>1. y \in 1 .. m - 1 /\ y \in 1 .. m /\ y + 1 = a
      BY <1>2
  <2>2. hi[kids[y]] = lo[kids[y + 1]]
      BY <1>1, <2>1 DEF Family
  <2> QED
      BY <1>1, <1>2, <1>5, <2>1, <2>2
<1>10. a < m => lo[kids[a + 1]] = hi[l] /\ lo2[kids[a + 1]] = hi2[l]
  <2> SUFFICES ASSUME a < m PROVE lo[kids[a + 1]] = hi[l] /\ lo2[kids[a + 1]] = hi2[l]
      OBVIOUS
  <2>1. a \in 1 .. m - 1 /\ a + 1 \in 1 .. m
      BY <1>2
  <2>2. hi[kids[a]] = lo[kids[a + 1]]
      BY <1>1, <2>1 DEF Family
  <2> QED
      BY <1>1, <1>2, <1>5, <2>1, <2>2
<1>11. lo[kids[1]] = lo[n] /\ hi[kids[m]] = hi[n]
    BY <1>1 DEF Family
<1>12. lo2[kids2[1]] = lo2[n]
  <2>1. CASE a = 1
    <3>1. kids2[1] = kids[a + 1] /\ lo[l] = lo[n]
        BY <1>2, <1>4, <1>11, <2>1
    <3>2. lo2[l] = lo2[n]
        BY <1>1, <1>5, <3>1
    <3> QED
        BY <1>2, <1>6, <1>10, <2>1, <3>1, <3>2
  <2>2. CASE a # 1
    <3>1. kids2[1] = kids[1] /\ 1 \in 1 .. m
        BY <1>2, <1>4, <2>2
    <3> QED
        BY <1>1, <1>2, <1>5, <1>11, <3>1
  <2> QED
      BY <2>1, <2>2
<1>13. hi2[kids2[m - 1]] = hi2[n]
  <2>0. m - 1 \in 1 .. m - 1 /\ (m - 1) + 1 = m /\ m \in 1 .. m
      BY <1>2
  <2>1. CASE a = m
    <3>1. kids2[m - 1] = kids[a - 1] /\ hi[l] = hi[n]
        BY <1>2, <1>4, <1>11, <2>0, <2>1
    <3>2. hi2[l] = hi2[n]
        BY <1>1, <1>5, <3>1
    <3> QED
        BY <1>2, <1>6, <1>9, <2>1, <3>1, <3>2
  <2>2. CASE a # m
    <3>1. kids2[m - 1] = kids[m]
      <4>1. ~(m - 1 < a)
          BY <1>2, <2>2
      <4> QED
          BY ONLY <1>4, <2>0, <4>1
    <3>2. kids[m] \in NodeIds /\ n \in NodeIds /\ hi[kids[m]] = hi[n]
        BY <1>1, <1>2, <1>11, <2>0
    <3>3. hi2[kids[m]] = hi2[n]
        BY ONLY <1>5, <3>2
    <3> QED
        BY ONLY <3>1, <3>2, <3>3
  <2> QED
      BY <2>1, <2>2
<1>14. ASSUME NEW i \in 1 .. (m - 1) - 1 PROVE hi2[kids2[i]] = lo2[kids2[i + 1]]
  <2>1. i \in 1 .. m - 1 /\ i + 1 \in 1 .. m - 1 /\ i \in Int
      BY <1>2
  <2>2. CASE i = a - 1
    <3>1. kids2[i] = kids[a - 1] /\ kids2[i + 1] = kids[a + 1] /\ a > 1 /\ a < m
      <4>1. a > 1 /\ a < m /\ i < a /\ ~(i + 1 < a) /\ (i + 1) + 1 = a + 1
          BY <1>2, <2>1, <2>2
      <4> QED
          BY ONLY <1>4, <2>1, <2>2, <4>1
    <3> QED
        BY <1>6, <1>9, <1>10, <3>1
  <2>3. CASE i # a - 1
    <3> PICK y : y = IF i < a THEN i ELSE i + 1
        OBVIOUS
    <3>1. y \in 1 .. m - 1 /\ y \in 1 .. m /\ y + 1 \in 1 .. m /\ kids2[i] = kids[y] /\ kids2[i + 1] = kids[y + 1]
      <4>1. /\ y \in 1 .. m - 1 /\ y \in 1 .. m /\ y + 1 \in 1 .. m
            /\ IF i < a THEN y = i /\ i + 1 < a ELSE y = i + 1 /\ ~(i + 1 < a)
          BY <1>2, <2>1, <2>3
      <4>2. /\ kids2[i] = IF i < a THEN kids[i] ELSE kids[i + 1]
            /\ kids2[i + 1] = IF i + 1 < a THEN kids[i + 1] ELSE kids[(i + 1) + 1]
          BY <1>4, <2>1
      <4> QED
          BY ONLY <4>1, <4>2
    <3>2. hi[kids[y]] = lo[kids[y + 1]]
        BY <1>1, <3>1 DEF Family
    <3> PICK c, d : c = kids[y] /\ d = kids[y + 1]
        OBVIOUS
    <3>3. c \in NodeIds /\ d \in NodeIds /\ hi[c] = lo[d] /\ kids2[i] = c /\ kids2[i + 1] = d
        BY <1>2, <3>1, <3>2
    <3>4. hi2[c] = lo2[d]
        BY ONLY <1>5, <3>3
    <3> QED
        BY ONLY <3>3, <3>4
  <2> QED
      BY <2>2, <2>3
<1>15. Len(kids2) \in 2 .. Capacity + 1
    BY <1>2, <1>4, SmallFacts
<1> QED
    BY <1>4, <1>7, <1>8, <1>12, <1>13, <1>14, <1>15 DEF Family

\* A child gives its place to one that serves the same.
Replaced(kids2, kids, c, d) ==
  Len(kids2) = Len(kids) /\ \A j \in 1 .. Len(kids) : kids2[j] = IF kids[j] = c THEN d ELSE kids[j]

LEMMA FamilyReplaces ==
  ASSUME NEW lo, NEW hi, NEW h, NEW up, Ghosts(lo, hi, h, up),
         NEW n \in NodeIds, NEW c \in NodeIds, NEW d \in NodeIds, NEW A, NEW B, A \ {c} \subseteq B, d \in B, d # c,
         NEW kids \in Seq(NodeIds), Family(kids, n, A, lo, hi, h, up),
         NEW kids2, Replaced(kids2, kids, c, d), lo[d] = lo[c], hi[d] = hi[c], h[d] < h[c],
         NEW up2, up[c] = n => up2[d] = n, \A e \in A \ {d} : up2[e] = up[e], up[d] # n
  PROVE  Family(kids2, n, B, lo, hi, h, up2)
<1> PICK m : m = Len(kids)
    OBVIOUS
<1>1. m \in Nat /\ Len(kids2) = m /\ m \in 2 .. Capacity + 1 /\ h[c] \in Nat /\ h[d] \in Nat /\ h[n] \in Nat
    BY LenProperties DEF Replaced, Family, Ghosts
<1>2. ASSUME NEW j \in 1 .. m
      PROVE  /\ kids2[j] \in B /\ up2[kids2[j]] = n /\ h[kids2[j]] < h[n]
             /\ lo[kids2[j]] = lo[kids[j]] /\ hi[kids2[j]] = hi[kids[j]]
  <2>1. kids[j] \in A /\ up[kids[j]] = n /\ h[kids[j]] < h[n] /\ kids2[j] = IF kids[j] = c THEN d ELSE kids[j]
      BY DEF Family, Replaced
  <2>2. CASE kids[j] = c
      BY <1>1, <2>1, <2>2
  <2>3. CASE kids[j] # c
      BY <2>1, <2>3
  <2> QED
      BY <2>2, <2>3
<1>3. 1 \in 1 .. m /\ m \in 1 .. m
    BY <1>1, SmallFacts
<1>4. lo[kids2[1]] = lo[n] /\ hi[kids2[m]] = hi[n]
    BY <1>2, <1>3 DEF Family
<1>5. ASSUME NEW i \in 1 .. m - 1 PROVE hi[kids2[i]] = lo[kids2[i + 1]]
  <2>1. i \in 1 .. m /\ i + 1 \in 1 .. m
      BY <1>1
  <2> QED
      BY <1>2, <2>1 DEF Family
<1>6. \A i, j \in 1 .. m : i < j => lo[kids2[i]] < lo[kids2[j]]
    BY <1>2 DEF Family
<1> QED
    BY <1>1, <1>2, <1>4, <1>5, <1>6 DEF Family

\* The leaf l goes, and p, its parent, keeps other children.
LeafDrops(t, t2, up, l, p, a) ==
  /\ t2 \in Trees /\ Leaves(t2) = Leaves(t) \ {l} /\ Inners(t2) = Inners(t)
  /\ p = up[l] /\ a \in 1 .. Len(t[p].kids) /\ t[p].kids[a] = l /\ Len(t[p].kids) >= 3
  /\ IsRemoved(t2[p].kids, t[p].kids, a) /\ IsRemoved(t2[p].seps, t[p].seps, IF a = 1 THEN 1 ELSE a - 1)
  /\ \A n \in Inners(t) \ {p} : t2[n] = t[n]

\* The leaf l and its parent p go, and s, the other child of p, takes the
\* place of p.
LeafPasses(t, t2, r, r2, up, up2, l, p, a, s) ==
  /\ t2 \in Trees /\ Leaves(t2) = Leaves(t) \ {l} /\ Inners(t2) = Inners(t) \ {p}
  /\ p = up[l] /\ a \in 1 .. 2 /\ t[p].kids[a] = l /\ Len(t[p].kids) = 2 /\ s = t[p].kids[3 - a]
  /\ \A n \in Inners(t) \ {p} : t2[n].seps = t[n].seps /\ Replaced(t2[n].kids, t[n].kids, p, s)
  /\ r2 = (IF p = r THEN s ELSE r) /\ up2 = [up EXCEPT ![s] = up[p]]

LEMMA AliveParts ==
  ASSUME NEW t \in Trees
  PROVE  Alive(t) = Leaves(t) \cup Inners(t) /\ Leaves(t) \cap Inners(t) = {}
BY AliveIs, KindsAre

LEMMA DropSkeleton ==
  ASSUME NEW t, NEW t2, NEW r, NEW lo, NEW hi, NEW h, NEW up, Skeleton(t, r, lo, hi, h, up), NEW l \in Leaves(t), l # r,
         NEW lo2, NEW hi2, Gone(t, r, lo, hi, lo2, hi2, l), Ghosts(lo2, hi2, h, up),
         NEW p, NEW a, LeafDrops(t, t2, up, l, p, a)
  PROVE  Skeleton(t2, r, lo2, hi2, h, up)
<1> PICK kids, kids2 : kids = t[p].kids /\ kids2 = t2[p].kids
    OBVIOUS
<1>1. /\ t2 \in Trees /\ Leaves(t2) = Leaves(t) \ {l} /\ Inners(t2) = Inners(t)
      /\ p = up[l] /\ a \in 1 .. Len(kids) /\ kids[a] = l /\ Len(kids) >= 3
      /\ IsRemoved(kids2, kids, a) /\ \A n \in Inners(t) \ {p} : t2[n] = t[n]
    BY DEF LeafDrops
<1>2. /\ t \in Trees /\ Ghosts(lo, hi, h, up) /\ r \in Alive(t) /\ up[r] = Null
      /\ \A c \in Alive(t) : c # r => up[c] \in Inners(t) /\ IsKid(t, up[c], c)
    BY DEF Skeleton
<1>3. Alive(t2) = Alive(t) \ {l} /\ l \in Alive(t)
    BY <1>1, <1>2, AliveParts
<1>4. p \in Inners(t)
    BY <1>1, <1>2, <1>3
<1>5. ASSUME NEW n \in Inners(t2) PROVE Family(t2[n].kids, n, Alive(t2), lo2, hi2, h, up)
  <2>1. CASE n = p
    <3>1. a \in 1 .. Len(t[p].kids) /\ t[p].kids[a] = l /\ Len(t[p].kids) >= 3 /\ IsRemoved(t2[p].kids, t[p].kids, a)
        BY <1>1
    <3>2. Family(t2[p].kids, p, Alive(t) \ {l}, lo2, hi2, h, up)
        BY <1>4, <3>1, FamilyDrops
    <3> QED
        BY <1>3, <2>1, <3>2
  <2>2. CASE n # p
    <3>1. t2[n] = t[n] /\ n \in Inners(t) /\ up[l] # n
        BY <1>1, <2>2
    <3>2. Family(t[n].kids, n, Alive(t) \ {l}, lo2, hi2, h, up)
        BY <3>1, FamilyStays
    <3> QED
        BY <1>3, <3>1, <3>2
  <2> QED
      BY <2>1, <2>2
<1>6. ASSUME NEW c \in Alive(t2), c # r PROVE up[c] \in Inners(t2) /\ IsKid(t2, up[c], c)
  <2>1. up[c] \in Inners(t) /\ IsKid(t, up[c], c) /\ c # l
      BY <1>2, <1>3, <1>6
  <2>2. CASE up[c] = p
    <3> PICK i \in 1 .. Len(kids) : kids[i] = c
        BY <2>1, <2>2 DEF IsKid
    <3>1. Len(kids) \in Nat /\ i # a
        BY <1>1, <1>2, <1>4, <2>1, KidsAre
    <3> PICK j : j = IF i < a THEN i ELSE i - 1
        OBVIOUS
    <3>2. j \in 1 .. Len(kids) - 1 /\ i = IF j < a THEN j ELSE j + 1
        BY <1>1, <3>1
    <3>3. Len(kids2) = Len(kids) - 1 /\ kids2[j] = c
        BY <1>1, <3>2 DEF IsRemoved
    <3> QED
        BY <1>1, <2>1, <2>2, <3>2, <3>3 DEF IsKid
  <2>3. CASE up[c] # p
      BY <1>1, <2>1, <2>3 DEF IsKid
  <2> QED
      BY <2>2, <2>3
<1>7. \A c \in Alive(t2) : lo2[c] < hi2[c]
    BY <1>3 DEF Gone
<1> QED
    BY <1>1, <1>2, <1>3, <1>5, <1>6, <1>7 DEF Skeleton

\* The child that takes the place of p.
LEMMA SiblingIs ==
  ASSUME NEW t, NEW r, NEW lo, NEW hi, NEW h, NEW up, Skeleton(t, r, lo, hi, h, up), NEW l \in Leaves(t),
         NEW lo2, NEW hi2, Gone(t, r, lo, hi, lo2, hi2, l),
         NEW p \in Inners(t), NEW a \in 1 .. 2, t[p].kids[a] = l, Len(t[p].kids) = 2, NEW s, s = t[p].kids[3 - a]
  PROVE  /\ s \in Alive(t) /\ s # l /\ s # p /\ up[s] = p /\ h[s] < h[p]
         /\ lo2[s] = lo2[p] /\ hi2[s] = hi2[p]
         /\ \A c : IsKid(t, p, c) => c \in {l, s}
<1> PICK kids : kids = t[p].kids
    OBVIOUS
<1>1. /\ kids[1] \in Alive(t) /\ kids[2] \in Alive(t) /\ up[kids[1]] = p /\ up[kids[2]] = p
      /\ h[kids[1]] < h[p] /\ h[kids[2]] < h[p]
      /\ lo[kids[1]] = lo[p] /\ hi[kids[2]] = hi[p] /\ lo[kids[1]] < lo[kids[2]]
      /\ hi[kids[1]] = lo[kids[2]]
    BY DEF Skeleton, Family
<1>2. (a = 1 /\ l = kids[1] /\ s = kids[2]) \/ (a = 2 /\ l = kids[2] /\ s = kids[1])
    OBVIOUS
<1>3. p \in NodeIds /\ p \in Alive(t) /\ kids[1] \in NodeIds /\ kids[2] \in NodeIds
    BY <1>1, AliveIs, KindsAre DEF Skeleton
<1>4. h[p] \in Nat /\ lo[kids[1]] \in Int /\ lo[kids[2]] \in Int
    BY <1>3 DEF Skeleton, Ghosts
<1>5. lo2[s] = lo2[p] /\ hi2[s] = hi2[p]
  <2> PICK from, to : from = From(r, lo, hi, l) /\ to = To(r, lo, hi, l)
      OBVIOUS
  <2>1. /\ \A c \in NodeIds : /\ lo2[c] = IF lo[c] = from THEN to ELSE lo[c]
                              /\ hi2[c] = IF hi[c] = from THEN to ELSE hi[c]
        /\ lo2[l] = hi2[l]
      BY DEF Gone
  <2> QED
      BY <1>1, <1>2, <1>3, <2>1
<1>6. s # l /\ s # p
    BY <1>1, <1>2, <1>4
<1>7. ASSUME NEW c, IsKid(t, p, c) PROVE c \in {l, s}
  <2> PICK i \in 1 .. 2 : kids[i] = c
      BY <1>7 DEF IsKid
  <2> QED
      BY <1>2
<1> QED
    BY <1>1, <1>2, <1>5, <1>6, <1>7

LEMMA PassSkeleton ==
  ASSUME NEW t, NEW t2, NEW r, NEW lo, NEW hi, NEW h, NEW up, Skeleton(t, r, lo, hi, h, up), NEW l \in Leaves(t), l # r,
         NEW lo2, NEW hi2, Gone(t, r, lo, hi, lo2, hi2, l), Ghosts(lo2, hi2, h, up),
         NEW r2, NEW up2, NEW p, NEW a, NEW s, LeafPasses(t, t2, r, r2, up, up2, l, p, a, s)
  PROVE  Skeleton(t2, r2, lo2, hi2, h, up2) /\ lo2[r2] = lo2[r] /\ hi2[r2] = hi2[r]
<1>1. /\ t2 \in Trees /\ Leaves(t2) = Leaves(t) \ {l} /\ Inners(t2) = Inners(t) \ {p}
      /\ p = up[l] /\ a \in 1 .. 2 /\ t[p].kids[a] = l /\ Len(t[p].kids) = 2 /\ s = t[p].kids[3 - a]
      /\ \A n \in Inners(t) \ {p} : Replaced(t2[n].kids, t[n].kids, p, s)
      /\ r2 = (IF p = r THEN s ELSE r) /\ up2 = [up EXCEPT ![s] = up[p]]
    BY DEF LeafPasses
<1>2. /\ t \in Trees /\ Ghosts(lo, hi, h, up) /\ r \in Alive(t) /\ up[r] = Null
      /\ \A c \in Alive(t) : c # r => up[c] \in Inners(t) /\ IsKid(t, up[c], c)
    BY DEF Skeleton
<1>3. l \in Alive(t)
    BY <1>2, AliveParts
<1>4. p \in Inners(t) /\ p \in Alive(t) /\ p # l /\ p \in NodeIds
    BY <1>1, <1>2, <1>3, AliveIs, KindsAre
<1>5. /\ s \in Alive(t) /\ s # l /\ s # p /\ up[s] = p /\ h[s] < h[p]
      /\ lo2[s] = lo2[p] /\ hi2[s] = hi2[p]
      /\ \A c : IsKid(t, p, c) => c \in {l, s}
    BY <1>1, <1>4, SiblingIs
<1>6. Alive(t2) = Alive(t) \ {l, p}
    BY <1>1, <1>2, <1>4, AliveParts
<1>7. s \in NodeIds /\ r \in NodeIds /\ DOMAIN up = NodeIds
    BY <1>2, <1>5, AliveIs DEF Ghosts
<1>8. up2[s] = up[p] /\ \A e \in NodeIds \ {s} : up2[e] = up[e]
    BY <1>1, <1>7
<1>9. ASSUME NEW n \in Inners(t) \ {p} PROVE Family(t2[n].kids, n, Alive(t2), lo2, hi2, h, up2)
  <2> PICK kids, kids2, A : kids = t[n].kids /\ kids2 = t2[n].kids /\ A = Alive(t) \ {l}
      OBVIOUS
  <2>1. Family(kids, n, A, lo2, hi2, h, up)
      BY <1>1, FamilyStays
  <2>2. Replaced(kids2, kids, p, s) /\ kids \in Seq(NodeIds) /\ n \in NodeIds
      BY <1>1, <1>2, KidsAre, AliveIs
  <2>3. A \ {p} \subseteq Alive(t2) /\ s \in Alive(t2) /\ \A e \in A \ {s} : up2[e] = up[e]
      BY <1>5, <1>6, <1>8, AliveIs
  <2>4. (up[p] = n => up2[s] = n) /\ up[s] # n
      BY <1>5, <1>8
  <2>5. Family(kids2, n, Alive(t2), lo2, hi2, h, up2)
      BY <1>4, <1>5, <1>7, <2>1, <2>2, <2>3, <2>4, FamilyReplaces
  <2> QED
      BY <2>5
<1>10. r2 \in Alive(t2) /\ up2[r2] = Null
  <2>1. CASE p = r
      BY <1>1, <1>2, <1>5, <1>6, <1>8, <2>1
  <2>2. CASE p # r
    <3>1. r # s
        BY <1>2, <1>4, <1>5, SmallFacts
    <3> QED
        BY <1>1, <1>2, <1>6, <1>7, <1>8, <2>2, <3>1
  <2> QED
      BY <2>1, <2>2
<1>11. ASSUME NEW c \in Alive(t2), c # r2 PROVE up2[c] \in Inners(t2) /\ IsKid(t2, up2[c], c)
  <2> PICK q : q = IF c = s THEN up[p] ELSE up[c]
      OBVIOUS
  <2> PICK d : d = IF c = s THEN p ELSE c
      OBVIOUS
  <2>1. up2[c] = q /\ d \in Alive(t) /\ q = up[d] /\ c \in Alive(t) /\ c # l /\ c # p
      BY <1>4, <1>6, <1>8, AliveIs
  <2>2. d # r
      BY <1>1, <1>11, <2>1
  <2>3. q \in Inners(t) /\ IsKid(t, q, d)
      BY <1>2, <2>1, <2>2
  <2>4. q # p
    <3>1. CASE c = s
      <4>1. p # s /\ p # l
          BY <1>4, <1>5
      <4> QED
          BY <1>5, <2>3, <3>1, <4>1
    <3>2. CASE c # s
        BY <1>5, <2>1, <2>3, <3>2
    <3> QED
        BY <3>1, <3>2
  <2> PICK i \in 1 .. Len(t[q].kids) : t[q].kids[i] = d
      BY <2>3 DEF IsKid
  <2>5. Len(t2[q].kids) = Len(t[q].kids) /\ t2[q].kids[i] = c
    <3>1. Replaced(t2[q].kids, t[q].kids, p, s)
        BY <1>1, <2>3, <2>4
    <3>2. Len(t2[q].kids) = Len(t[q].kids) /\ t2[q].kids[i] = IF d = p THEN s ELSE d
        BY <3>1 DEF Replaced
    <3> QED
        BY <2>1, <3>2
  <2> QED
      BY <1>1, <2>1, <2>3, <2>4, <2>5 DEF IsKid
<1>12. Ghosts(lo2, hi2, h, up2)
  <2>1. up[p] \in NodeIds \cup {Null}
      BY <1>2, <1>4 DEF Ghosts
  <2> QED
      BY <1>1, <2>1 DEF Ghosts
<1>13. \A c \in Alive(t2) : lo2[c] < hi2[c]
    BY <1>6 DEF Gone
<1> QED
    BY <1>1, <1>5, <1>9, <1>10, <1>11, <1>12, <1>13 DEF Skeleton

\* The chain without l.
Unlinked(t, t2, l) ==
  \A c \in Leaves(t) \ {l} :
    /\ t2[c].keys = t[c].keys
    /\ t2[c].next = IF c = t[l].prev THEN t[l].next ELSE t[c].next
    /\ t2[c].prev = IF c = t[l].next THEN t[l].prev ELSE t[c].prev

\* Where the other leaves begin and end.
LEMMA LeavesWithout ==
  ASSUME NEW t, NEW r, NEW lo, NEW hi, NEW h, NEW up, Skeleton(t, r, lo, hi, h, up), NEW l \in Leaves(t), l # r,
         NEW lo2, NEW hi2, Gone(t, r, lo, hi, lo2, hi2, l), NEW c \in Leaves(t) \ {l}
  PROVE  /\ c # r /\ lo2[c] \in Int /\ hi2[c] \in Int /\ lo2[c] <= lo[c] /\ hi[c] <= hi2[c]
         /\ lo[c] # lo[l] /\ hi[c] # hi[l]
         /\ lo2[c] = IF lo[l] = lo[r] /\ lo[c] = hi[l] THEN lo[r] ELSE lo[c]
         /\ hi2[c] = IF lo[l] # lo[r] /\ hi[c] = lo[l] THEN hi[l] ELSE hi[c]
<1>1. /\ lo[l] \in Int /\ hi[l] \in Int /\ lo[r] \in Int /\ hi[r] \in Int /\ l \in NodeIds
      /\ lo[l] < hi[l] /\ lo[r] <= lo[l] /\ hi[l] <= hi[r] /\ Covers(lo, hi, l, lo[l])
    BY LeafBounds
<1>2. lo[c] \in Int /\ hi[c] \in Int /\ c \in NodeIds /\ lo[c] < hi[c]
    BY LeafBounds
<1>3. lo[c] # lo[l] /\ hi[c] # hi[l]
    BY SameLeaf
<1>4. c # r
  <2> SUFFICES ASSUME c = r PROVE FALSE
      OBVIOUS
  <2>1. Covers(lo, hi, c, lo[l])
      BY <1>1 DEF Covers
  <2>2. l = c
      BY <1>1, <2>1, LeavesDiffer
  <2> QED
      BY <2>2
<1>5. /\ lo2[c] = IF lo[c] = From(r, lo, hi, l) THEN To(r, lo, hi, l) ELSE lo[c]
      /\ hi2[c] = IF hi[c] = From(r, lo, hi, l) THEN To(r, lo, hi, l) ELSE hi[c]
    BY <1>2 DEF Gone
<1>6. CASE lo[l] = lo[r]
    BY <1>1, <1>2, <1>3, <1>4, <1>5, <1>6 DEF From, To
<1>7. CASE lo[l] # lo[r]
    BY <1>1, <1>2, <1>3, <1>4, <1>5, <1>7 DEF From, To
<1> QED
    BY <1>6, <1>7

LEMMA FitsWithout ==
  ASSUME NEW t, NEW r, NEW lo, NEW hi, NEW h, NEW up, Skeleton(t, r, lo, hi, h, up), NEW l \in Leaves(t), l # r,
         NEW lo2, NEW hi2, Gone(t, r, lo, hi, lo2, hi2, l), NEW c \in Leaves(t) \ {l}, LeafFits(t, r, lo, hi, c),
         NEW t2, t2[c].keys = t[c].keys, NEW r2, lo2[r2] = lo[r]
  PROVE  LeafFits(t2, r2, lo2, hi2, c)
<1> PICK keys : keys = t[c].keys
    OBVIOUS
<1>1. /\ c # r /\ lo2[c] \in Int /\ hi2[c] \in Int /\ lo2[c] <= lo[c] /\ hi[c] <= hi2[c]
      /\ lo2[c] = IF lo[l] = lo[r] /\ lo[c] = hi[l] THEN lo[r] ELSE lo[c]
    BY LeavesWithout
<1>2. lo[c] \in Int /\ hi[c] \in Int
    BY LeafBounds
<1>3. Ordered(keys, lo[c], hi[c]) /\ Len(keys) >= 1 /\ (lo[c] = lo[r] \/ keys[1] = lo[c])
    BY <1>1 DEF LeafFits
<1>4. Ordered(keys, lo2[c], hi2[c])
  <2>1. \A i \in 1 .. Len(keys) : keys[i] \in Int /\ lo[c] <= keys[i] /\ keys[i] < hi[c]
      BY <1>3, OrderedIs
  <2>2. \A i \in 1 .. Len(keys) : lo2[c] <= keys[i] /\ keys[i] < hi2[c]
      BY <1>1, <1>2, <2>1
  <2> QED
      BY <1>3, <2>2 DEF Ordered
<1>5. lo2[c] = lo2[r2] \/ keys[1] = lo2[c]
    BY <1>1, <1>3
<1> QED
    BY <1>3, <1>4, <1>5 DEF LeafFits

LEMMA ChainWithout ==
  ASSUME NEW t, NEW r, NEW lo, NEW hi, NEW h, NEW up, Skeleton(t, r, lo, hi, h, up), Chain(t, r, lo, hi),
         NEW l \in Leaves(t), l # r, NEW lo2, NEW hi2, Gone(t, r, lo, hi, lo2, hi2, l),
         NEW t2, Leaves(t2) = Leaves(t) \ {l}, Unlinked(t, t2, l), NEW r2, lo2[r2] = lo[r], hi2[r2] = hi[r]
  PROVE  Chain(t2, r2, lo2, hi2)
<1>1. /\ lo[l] \in Int /\ hi[l] \in Int /\ lo[r] \in Int /\ hi[r] \in Int
      /\ lo[l] < hi[l] /\ lo[r] <= lo[l] /\ hi[l] <= hi[r]
    BY LeafBounds
<1>2. ASSUME NEW c \in Leaves(t) \ {l}
      PROVE  /\ lo[c] \in Int /\ hi[c] \in Int /\ lo[c] < hi[c] /\ lo[r] <= lo[c] /\ hi[c] <= hi[r]
             /\ lo[c] # lo[l] /\ hi[c] # hi[l]
             /\ lo2[c] = IF lo[l] = lo[r] /\ lo[c] = hi[l] THEN lo[r] ELSE lo[c]
             /\ hi2[c] = IF lo[l] # lo[r] /\ hi[c] = lo[l] THEN hi[l] ELSE hi[c]
    BY LeafBounds, LeavesWithout
<1>3. /\ IF hi[l] = hi[r] THEN t[l].next = Null ELSE t[l].next \in Leaves(t) /\ lo[t[l].next] = hi[l]
      /\ IF lo[l] = lo[r] THEN t[l].prev = Null ELSE t[l].prev \in Leaves(t) /\ hi[t[l].prev] = lo[l]
    BY DEF Chain, NextIs, PrevIs
<1>4. Null \notin Leaves(t)
    BY AliveIs, SmallFacts
\* The leaf before l, and the leaf behind it.
<1>5. ASSUME NEW c \in Leaves(t) \ {l} PROVE c = t[l].prev <=> hi[c] = lo[l]
  <2>1. CASE lo[l] = lo[r]
      BY <1>1, <1>2, <1>3, <1>4, <2>1
  <2>2. CASE lo[l] # lo[r]
      BY <1>3, <2>2, SameLeaf
  <2> QED
      BY <2>1, <2>2
<1>6. ASSUME NEW c \in Leaves(t) \ {l} PROVE c = t[l].next <=> lo[c] = hi[l]
  <2>1. CASE hi[l] = hi[r]
      BY <1>1, <1>2, <1>3, <1>4, <2>1
  <2>2. CASE hi[l] # hi[r]
      BY <1>3, <2>2, SameLeaf
  <2> QED
      BY <2>1, <2>2
<1>7. ASSUME NEW c \in Leaves(t) \ {l} PROVE NextIs(t2, r2, lo2, hi2, c)
  <2>1. IF hi[c] = hi[r] THEN t[c].next = Null ELSE t[c].next \in Leaves(t) /\ lo[t[c].next] = hi[c]
      BY DEF Chain, NextIs
  <2>2. CASE c = t[l].prev
    <3>1. t2[c].next = t[l].next
        BY <2>2 DEF Unlinked
    <3>2. hi[c] = lo[l] /\ lo[l] # lo[r] /\ hi2[c] = hi[l]
        BY <1>2, <1>3, <1>4, <1>5, <2>2
    <3>3. CASE hi[l] = hi[r]
        BY <1>3, <3>1, <3>2, <3>3 DEF NextIs
    <3>4. CASE hi[l] # hi[r]
      <4> PICK d : d = t[l].next
          OBVIOUS
      <4>1. d \in Leaves(t) /\ lo[d] = hi[l]
          BY <1>3, <3>4
      <4>2. d # l
          BY <1>1, <4>1
      <4>3. lo2[d] = hi[l]
          BY <1>2, <3>2, <4>1, <4>2
      <4> QED
          BY <3>1, <3>2, <3>4, <4>1, <4>2, <4>3 DEF NextIs
    <3> QED
        BY <3>3, <3>4
  <2>3. CASE c # t[l].prev
    <3>1. t2[c].next = t[c].next
        BY <2>3 DEF Unlinked
    <3>2. hi[c] # lo[l] /\ hi2[c] = hi[c]
        BY <1>2, <1>5, <2>3
    <3>3. CASE hi[c] = hi[r]
        BY <2>1, <3>1, <3>2, <3>3 DEF NextIs
    <3>4. CASE hi[c] # hi[r]
      <4> PICK d : d = t[c].next
          OBVIOUS
      <4>1. d \in Leaves(t) /\ lo[d] = hi[c]
          BY <2>1, <3>4
      <4>2. d # l
          BY <3>2, <4>1
      <4>3. lo[d] # hi[l]
          BY <1>2, <4>1
      <4>4. lo2[d] = hi[c]
          BY <1>2, <4>1, <4>2, <4>3
      <4> QED
          BY <3>1, <3>2, <3>4, <4>1, <4>2, <4>4 DEF NextIs
    <3> QED
        BY <3>3, <3>4
  <2> QED
      BY <2>2, <2>3
<1>8. ASSUME NEW c \in Leaves(t) \ {l} PROVE PrevIs(t2, r2, lo2, hi2, c)
  <2>1. IF lo[c] = lo[r] THEN t[c].prev = Null ELSE t[c].prev \in Leaves(t) /\ hi[t[c].prev] = lo[c]
      BY DEF Chain, PrevIs
  <2>2. CASE c = t[l].next
    <3>1. t2[c].prev = t[l].prev /\ lo[c] = hi[l]
        BY <1>6, <2>2 DEF Unlinked
    <3>2. CASE lo[l] = lo[r]
        BY <1>2, <1>3, <3>1, <3>2 DEF PrevIs
    <3>3. CASE lo[l] # lo[r]
      <4> PICK d : d = t[l].prev
          OBVIOUS
      <4>1. d \in Leaves(t) /\ hi[d] = lo[l]
          BY <1>3, <3>3
      <4>2. d # l
          BY <1>1, <4>1
      <4>3. lo2[c] = hi[l] /\ hi2[d] = hi[l] /\ lo2[c] # lo[r]
          BY <1>1, <1>2, <3>1, <3>3, <4>1, <4>2
      <4> QED
          BY <3>1, <4>1, <4>2, <4>3 DEF PrevIs
    <3> QED
        BY <3>2, <3>3
  <2>3. CASE c # t[l].next
    <3>1. t2[c].prev = t[c].prev
        BY <2>3 DEF Unlinked
    <3>2. lo[c] # hi[l] /\ lo2[c] = lo[c]
        BY <1>2, <1>6, <2>3
    <3>3. CASE lo[c] = lo[r]
        BY <2>1, <3>1, <3>2, <3>3 DEF PrevIs
    <3>4. CASE lo[c] # lo[r]
      <4> PICK d : d = t[c].prev
          OBVIOUS
      <4>1. d \in Leaves(t) /\ hi[d] = lo[c]
          BY <2>1, <3>4
      <4>2. d # l
          BY <3>2, <4>1
      <4>3. hi[d] # lo[l]
          BY <1>2, <4>1
      <4>4. hi2[d] = lo[c]
          BY <1>2, <4>1, <4>2, <4>3
      <4> QED
          BY <3>1, <3>2, <3>4, <4>1, <4>2, <4>4 DEF PrevIs
    <3> QED
        BY <3>3, <3>4
  <2> QED
      BY <2>2, <2>3
<1> QED
    BY <1>7, <1>8 DEF Chain

\* k is the only key of l, and the parent of l is p.
Only(t, r, lo, up, l, p, a, k) ==
  /\ l \in Leaves(t) /\ l # r /\ p = up[l] /\ a \in 1 .. Len(t[p].kids) /\ t[p].kids[a] = l
  /\ Len(t[l].keys) = 1 /\ t[l].keys[1] = k

\* Where the key and the leaf are.
OnlyAt(t, r, lo, hi, l, p, a, k) ==
  /\ p \in Inners(t) /\ k \in Keys /\ Covers(lo, hi, l, k) /\ (lo[l] # lo[r] => k = lo[l])
  /\ (a = 1 => lo[l] = lo[p]) /\ (a # 1 => lo[l] # lo[r])
  /\ \A e : Has(t[l].keys, e) <=> e = k

LEMMA OnlyIs ==
  ASSUME NEW t, NEW r, NEW lo, NEW hi, NEW h, NEW up, Skeleton(t, r, lo, hi, h, up),
         NEW l, LeafFits(t, r, lo, hi, l), NEW p, NEW a, NEW k, Only(t, r, lo, up, l, p, a, k)
  PROVE  OnlyAt(t, r, lo, hi, l, p, a, k)
<1>1. /\ l \in Leaves(t) /\ l # r /\ p = up[l] /\ a \in 1 .. Len(t[p].kids) /\ t[p].kids[a] = l
      /\ Len(t[l].keys) = 1 /\ t[l].keys[1] = k
    BY DEF Only
<1>2. Ordered(t[l].keys, lo[l], hi[l]) /\ (lo[l] = lo[r] \/ k = lo[l])
    BY <1>1 DEF LeafFits
<1>3. k \in Keys /\ Covers(lo, hi, l, k)
  <2>1. 1 \in 1 .. Len(t[l].keys)
      BY <1>1
  <2> QED
      BY <1>1, <1>2, <2>1, OrderedIs DEF Covers
<1>4. p \in Inners(t)
    BY <1>1, LeafBounds DEF Skeleton
<1>5. a = 1 => lo[l] = lo[p]
    BY <1>1, <1>4 DEF Skeleton, Family
<1>6. a # 1 => lo[l] # lo[r]
  <2> SUFFICES ASSUME a # 1 PROVE lo[l] # lo[r]
      OBVIOUS
  <2>1. a > 1
      BY <1>1
  <2>2. lo[p] < lo[l]
      BY <1>1, <1>4, <2>1, KidIsInside
  <2>3. p \in Alive(t) /\ p \in NodeIds
      BY <1>4, AliveIs, KindsAre DEF Skeleton
  <2>4. lo[r] <= lo[p] /\ lo[r] \in Int /\ lo[p] \in Int /\ lo[l] \in Int
      BY <1>1, <2>3, RootCovers, LeafBounds DEF Skeleton, Ghosts
  <2> QED
      BY <2>2, <2>4
<1>7. ASSUME NEW e PROVE Has(t[l].keys, e) <=> e = k
  <2>1. \A i : i \in 1 .. 1 <=> i = 1
      OBVIOUS
  <2> QED
      BY <1>1, <2>1 DEF Has
<1> QED
    BY <1>2, <1>3, <1>4, <1>5, <1>6, <1>7 DEF OnlyAt

\* A separator that stays, and goes on pointing to where its child begins.
SepStays(t, lo2, l, n, i) ==
  /\ t[n].seps[i][2] = lo2[t[n].kids[i + 1]] /\ t[n].seps[i][1] \in Leaves(t) \ {l}
  /\ lo2[t[n].seps[i][1]] = t[n].seps[i][2]

LEMMA SepsStay ==
  ASSUME NEW t, NEW r, NEW lo, NEW hi, NEW h, NEW up, Skeleton(t, r, lo, hi, h, up), SepsFit(t, lo),
         NEW l, NEW p, NEW a, NEW k, Only(t, r, lo, up, l, p, a, k), OnlyAt(t, r, lo, hi, l, p, a, k),
         NEW lo2, NEW hi2, Gone(t, r, lo, hi, lo2, hi2, l),
         NEW n \in Inners(t), NEW i \in 1 .. Len(t[n].seps), t[n].seps[i][2] # k, ~(n = p /\ a = 1 /\ i = 1)
  PROVE  SepStays(t, lo2, l, n, i)
<1> PICK j, v : j = i + 1 /\ v = t[n].seps[i][2]
    OBVIOUS
<1> PICK c, m : c = t[n].kids[j] /\ m = t[n].seps[i][1]
    OBVIOUS
<1>1. /\ l \in Leaves(t) /\ l # r /\ p \in Inners(t) /\ a \in 1 .. Len(t[p].kids) /\ t[p].kids[a] = l
      /\ (lo[l] # lo[r] => k = lo[l]) /\ (a # 1 => lo[l] # lo[r])
    BY DEF Only, OnlyAt
<1>2. v = lo[c] /\ m \in Leaves(t) /\ lo[m] = v /\ Len(t[n].seps) = Len(t[n].kids) - 1
    BY DEF SepsFit
<1>3. t \in Trees /\ Ghosts(lo, hi, h, up)
    BY DEF Skeleton
<1>4. j \in 1 .. Len(t[n].kids) /\ j \in 2 .. Len(t[n].kids) /\ j > 1 /\ i \in Int
    BY <1>2, <1>3, KidsAre
<1>5. c \in Alive(t) /\ lo[n] < lo[c]
    BY <1>4, KidIsInside
<1>6. /\ c \in NodeIds /\ m \in NodeIds /\ n \in Alive(t) /\ lo[l] \in Int /\ hi[l] \in Int /\ lo[l] < hi[l] /\ lo[r] \in Int
    BY <1>1, <1>2, <1>3, <1>5, AliveIs, KindsAre, LeafBounds
<1>7. lo[r] < v
  <2>1. lo[r] <= lo[n] /\ n \in NodeIds
      BY <1>6, RootCovers, AliveIs
  <2>2. lo[n] \in Int /\ lo[c] \in Int
      BY <1>3, <1>6, <2>1 DEF Ghosts
  <2> QED
      BY <1>2, <1>5, <1>6, <2>1, <2>2
<1>8. v # From(r, lo, hi, l) /\ v # lo[l]
  <2>1. CASE lo[l] # lo[r]
      BY <1>1, <2>1 DEF From
  <2>2. CASE lo[l] = lo[r]
    <3>1. a = 1 /\ From(r, lo, hi, l) = hi[l] /\ v # lo[l]
        BY <1>1, <1>6, <1>7, <2>2 DEF From
    <3>2. v # hi[l]
      <4> SUFFICES ASSUME v = hi[l] PROVE FALSE
          OBVIOUS
      <4>1. Family(t[p].kids, p, Alive(t), lo, hi, h, up)
          BY <1>1 DEF Skeleton
      <4>2. 2 \in 2 .. Len(t[p].kids) /\ hi[t[p].kids[1]] = lo[t[p].kids[2]]
        <5>1. Len(t[p].kids) \in Nat /\ Len(t[p].kids) >= 2
            BY <1>1, <1>3, <4>1, KidsAre, SmallFacts DEF Family
        <5>2. 1 \in 1 .. Len(t[p].kids) - 1 /\ 1 + 1 = 2
            BY <5>1
        <5>3. \A y \in 1 .. Len(t[p].kids) - 1 : hi[t[p].kids[y]] = lo[t[p].kids[y + 1]]
            BY <4>1 DEF Family
        <5>4. hi[t[p].kids[1]] = lo[t[p].kids[1 + 1]]
            BY <5>2, <5>3
        <5> QED
            BY <5>1, <5>2, <5>4
      <4>3. lo[t[n].kids[j]] = lo[t[p].kids[2]]
          BY <1>1, <1>2, <3>1, <4>2
      <4>4. n = p /\ j = 2
          BY <1>1, <1>4, <4>2, <4>3, CutsDiffer
      <4> QED
          BY <1>4, <3>1, <4>4
    <3> QED
        BY <3>1, <3>2
  <2> QED
      BY <2>1, <2>2
<1>9. lo2[c] = v /\ lo2[m] = v /\ m # l
    BY <1>2, <1>6, <1>8 DEF Gone
<1> QED
    BY <1>2, <1>9 DEF SepStays

\* The separators when p keeps other children.
LEMMA DropSeps ==
  ASSUME NEW t, NEW r, NEW lo, NEW hi, NEW h, NEW up, Skeleton(t, r, lo, hi, h, up), SepsFit(t, lo),
         NEW l, NEW p, NEW a, NEW k, Only(t, r, lo, up, l, p, a, k), OnlyAt(t, r, lo, hi, l, p, a, k),
         NEW lo2, NEW hi2, Gone(t, r, lo, hi, lo2, hi2, l), NEW S, SpotsFor(t, S, k),
         NEW t2, LeafDrops(t, t2, up, l, p, a)
  PROVE  SepsFitBut(t2, lo2, S)
<1> PICK kids, kids2, seps, seps2, d :
      kids = t[p].kids /\ kids2 = t2[p].kids /\ seps = t[p].seps /\ seps2 = t2[p].seps /\ d = IF a = 1 THEN 1 ELSE a - 1
    OBVIOUS
<1>1. /\ Leaves(t2) = Leaves(t) \ {l} /\ Inners(t2) = Inners(t)
      /\ a \in 1 .. Len(kids) /\ kids[a] = l /\ Len(kids) >= 3
      /\ IsRemoved(kids2, kids, a) /\ IsRemoved(seps2, seps, d) /\ \A n \in Inners(t) \ {p} : t2[n] = t[n]
    BY DEF LeafDrops
<1>2. /\ p \in Inners(t) /\ k \in Int /\ lo[l] <= k /\ k < hi[l] /\ (a # 1 => k = lo[l]) /\ l \in Leaves(t)
    BY SmallFacts DEF OnlyAt, Only, Covers
<1>3. Len(kids) \in Nat /\ Len(seps) = Len(kids) - 1 /\ Len(seps) \in Nat
    BY <1>2, KidsAre DEF Skeleton, SepsFit
<1>4. Len(kids2) = Len(kids) - 1 /\ Len(seps2) = Len(seps) - 1
    BY <1>1 DEF IsRemoved
\* A separator of p other than the one that goes is not k.
<1>5. ASSUME NEW i \in 1 .. Len(seps), i # d PROVE SepStays(t, lo2, l, p, i)
  <2> PICK j : j = i + 1
      OBVIOUS
  <2>1. j \in 1 .. Len(kids) /\ i \in Int /\ j # a
      BY <1>1, <1>3, <1>5
  <2>2. seps[i][2] = lo[kids[j]]
      BY <1>2 DEF SepsFit
  <2>3. lo[l] \in Int /\ hi[l] \in Int
      BY <1>2, LeafBounds
  <2>4. seps[i][2] # k
    <3>1. CASE a < j
      <4>1. hi[l] <= lo[kids[j]] /\ lo[kids[j]] \in Int
          BY <1>1, <1>2, <2>1, <3>1, KidsApart
      <4> QED
          BY <1>2, <2>2, <2>3, <4>1
    <3>2. CASE j < a
      <4>1. lo[kids[j]] < hi[kids[j]] /\ hi[kids[j]] <= lo[l] /\ lo[kids[j]] \in Int /\ hi[kids[j]] \in Int
          BY <1>1, <1>2, <2>1, <3>2, KidsApart
      <4> QED
          BY <1>2, <2>2, <2>3, <4>1
    <3> QED
        BY <1>1, <2>1, <3>1, <3>2
  <2>5. ~(p = p /\ a = 1 /\ i = 1)
      BY <1>5
  <2> QED
      BY <1>2, <2>4, <2>5, SepsStay
<1>6. ASSUME NEW i \in 1 .. Len(seps2) PROVE SepFits(t2, lo2, p, i)
  <2> PICK y : y = IF i < d THEN i ELSE i + 1
      OBVIOUS
  <2>1. i \in 1 .. Len(seps) - 1 /\ i + 1 \in 1 .. Len(kids) - 1 /\ y \in 1 .. Len(seps) /\ y # d
      BY <1>1, <1>3, <1>4
  <2>2. seps2[i] = seps[y]
      BY <1>1, <2>1 DEF IsRemoved
  <2>3. kids2[i + 1] = kids[y + 1]
    <3> PICK z : z = i + 1
        OBVIOUS
    <3>1. kids2[z] = IF z < a THEN kids[z] ELSE kids[z + 1]
        BY <1>1, <2>1 DEF IsRemoved
    <3>2. y + 1 = IF z < a THEN z ELSE z + 1
        BY <1>1, <1>3, <2>1
    <3> QED
        BY <3>1, <3>2
  <2>4. SepStays(t, lo2, l, p, y)
      BY <1>5, <2>1
  <2> QED
      BY <1>1, <2>2, <2>3, <2>4 DEF SepFits, SepStays
<1>7. ASSUME NEW n \in Inners(t) \ {p}
      PROVE  /\ t2[n] = t[n] /\ Len(t[n].seps) = Len(t[n].kids) - 1
             /\ \A i \in 1 .. Len(t[n].seps) : <<n, i>> \in S \/ SepFits(t2, lo2, n, i)
  <2>1. t2[n] = t[n] /\ Len(t[n].seps) = Len(t[n].kids) - 1
      BY <1>1 DEF SepsFit
  <2>2. ASSUME NEW i \in 1 .. Len(t[n].seps), <<n, i>> \notin S PROVE SepFits(t2, lo2, n, i)
    <3>1. t[n].seps[i][2] # k
        BY <2>2 DEF SpotsFor
    <3>2. SepStays(t, lo2, l, n, i)
        BY <3>1, SepsStay
    <3> QED
        BY <1>1, <2>1, <3>2 DEF SepFits, SepStays
  <2> QED
      BY <2>1, <2>2
<1>8. ASSUME NEW n \in Inners(t2)
      PROVE  /\ Len(t2[n].seps) = Len(t2[n].kids) - 1
             /\ \A i \in 1 .. Len(t2[n].seps) : <<n, i>> \in S \/ SepFits(t2, lo2, n, i)
  <2>1. CASE n = p
      BY <1>3, <1>4, <1>6, <2>1
  <2>2. CASE n # p
      BY <1>1, <1>7, <2>2
  <2> QED
      BY <2>1, <2>2
<1> QED
    BY <1>8 DEF SepsFitBut

\* The separators when another child takes the place of p.  If p was the
\* root, none of them is k.
LEMMA PassSeps ==
  ASSUME NEW t, NEW r, NEW lo, NEW hi, NEW h, NEW up, Skeleton(t, r, lo, hi, h, up), SepsFit(t, lo),
         NEW l, NEW p, NEW a, NEW k, Only(t, r, lo, up, l, p, a, k), OnlyAt(t, r, lo, hi, l, p, a, k),
         NEW lo2, NEW hi2, Gone(t, r, lo, hi, lo2, hi2, l), NEW S, SpotsFor(t, S, k),
         NEW t2, NEW r2, NEW up2, NEW s, LeafPasses(t, t2, r, r2, up, up2, l, p, a, s)
  PROVE  SepsFitBut(t2, lo2, S) /\ (p = r => SepsFit(t2, lo2))
<1>1. /\ Leaves(t2) = Leaves(t) \ {l} /\ Inners(t2) = Inners(t) \ {p}
      /\ a \in 1 .. 2 /\ t[p].kids[a] = l /\ Len(t[p].kids) = 2 /\ s = t[p].kids[3 - a]
      /\ \A n \in Inners(t) \ {p} : t2[n].seps = t[n].seps /\ Replaced(t2[n].kids, t[n].kids, p, s)
    BY DEF LeafPasses
<1>2. /\ p \in Inners(t) /\ l \in Leaves(t) /\ k \in Int /\ Covers(lo, hi, l, k) /\ (lo[l] # lo[r] => k = lo[l])
      /\ (a = 1 => lo[l] = lo[p])
    BY SmallFacts DEF OnlyAt, Only
<1>3. lo2[s] = lo2[p]
    BY <1>1, <1>2, SiblingIs
<1>4. ASSUME NEW n \in Inners(t) \ {p}, NEW i \in 1 .. Len(t[n].seps), t[n].seps[i][2] # k PROVE SepFits(t2, lo2, n, i)
  <2> PICK j : j = i + 1
      OBVIOUS
  <2>1. SepStays(t, lo2, l, n, i)
      BY <1>4, SepsStay
  <2>2. j \in 1 .. Len(t[n].kids)
      BY KidsAre DEF Skeleton, SepsFit
  <2>3. Replaced(t2[n].kids, t[n].kids, p, s) /\ t2[n].seps = t[n].seps
      BY <1>1
  <2>4. lo2[t2[n].kids[j]] = lo2[t[n].kids[j]]
      BY <1>3, <2>2, <2>3 DEF Replaced
  <2> QED
      BY <1>1, <2>1, <2>3, <2>4 DEF SepFits, SepStays
<1>5. ASSUME NEW n \in Inners(t) \ {p} PROVE Len(t2[n].seps) = Len(t2[n].kids) - 1 /\ t2[n].seps = t[n].seps
    BY <1>1 DEF SepsFit, Replaced
<1>6. SepsFitBut(t2, lo2, S)
  <2>1. ASSUME NEW n \in Inners(t) \ {p}, NEW i \in 1 .. Len(t[n].seps) PROVE <<n, i>> \in S \/ SepFits(t2, lo2, n, i)
      BY <1>4 DEF SpotsFor
  <2> QED
      BY <1>1, <1>5, <2>1 DEF SepsFitBut
<1>7. ASSUME p = r, NEW n \in Inners(t) \ {p}, NEW i \in 1 .. Len(t[n].seps) PROVE t[n].seps[i][2] # k
  <2> SUFFICES ASSUME t[n].seps[i][2] = k PROVE FALSE
      OBVIOUS
  <2> PICK m, j : m = t[n].seps[i][1] /\ j = i + 1
      OBVIOUS
  <2>1. m \in Leaves(t) /\ lo[m] = k /\ lo[t[n].kids[j]] = k /\ Len(t[n].seps) = Len(t[n].kids) - 1
      BY DEF SepsFit
  <2>2. j \in 2 .. Len(t[n].kids) /\ j \in 1 .. Len(t[n].kids) /\ j > 1
      BY <2>1, KidsAre DEF Skeleton
  <2>3. m = l
    <3>1. Covers(lo, hi, m, k)
        BY <2>1, LeafBounds
    <3> QED
        BY <1>2, <2>1, <3>1, LeavesDiffer
  <2>4. CASE a = 1
    <3>1. lo[n] < k /\ t[n].kids[j] \in Alive(t)
        BY <2>1, <2>2, KidIsInside
    <3>2. n \in Alive(t) /\ n \in NodeIds
        BY AliveIs, KindsAre DEF Skeleton
    <3>3. lo[r] <= lo[n] /\ lo[r] \in Int /\ lo[n] \in Int
        BY <1>2, <3>2, RootCovers, LeafBounds DEF Skeleton, Ghosts
    <3>4. k = lo[r]
        BY <1>2, <1>7, <2>1, <2>3, <2>4
    <3> QED
        BY <3>1, <3>3, <3>4
  <2>5. CASE a = 2
    <3>1. lo[t[p].kids[a]] = k /\ a \in 2 .. Len(t[p].kids)
        BY <1>1, <2>1, <2>3, <2>5
    <3>2. n = p
        BY <1>2, <2>1, <2>2, <3>1, CutsDiffer
    <3> QED
        BY <3>2
  <2> QED
      BY <1>1, <2>4, <2>5
<1>8. p = r => SepsFit(t2, lo2)
  <2> SUFFICES ASSUME p = r PROVE SepsFit(t2, lo2)
      OBVIOUS
  <2>1. ASSUME NEW n \in Inners(t) \ {p}, NEW i \in 1 .. Len(t[n].seps) PROVE SepFits(t2, lo2, n, i)
      BY <1>4, <1>7
  <2> QED
      BY <1>1, <1>5, <2>1 DEF SepsFit, SepFits
<1> QED
    BY <1>6, <1>8

\* A tree but for its separators.
Bare(t, r, lo, hi, h, up, held) ==
  /\ Skeleton(t, r, lo, hi, h, up) /\ Chain(t, r, lo, hi)
  /\ \A l \in Leaves(t) : LeafFits(t, r, lo, hi, l)
  /\ \A k \in Keys : Covers(lo, hi, r, k)
  /\ Held(t) = held

LEMMA BareIsTree ==
  ASSUME NEW t, NEW r, NEW lo, NEW hi, NEW h, NEW up, NEW held, Bare(t, r, lo, hi, h, up, held), SepsFit(t, lo)
  PROVE  TreeOf(t, r, held)
<1>1. Tree(t, r, lo, hi, h, up) /\ Chain(t, r, lo, hi) /\ Held(t) = held
    BY DEF Bare, Tree
<1> QED
    BY <1>1 DEF TreeOf

LEMMA RepointedTree ==
  ASSUME NEW t, NEW r, NEW lo, NEW hi, NEW h, NEW up, NEW held, Bare(t, r, lo, hi, h, up, held),
         NEW S, OnePlace(S), SepsFitBut(t, lo, S), NEW t2, t2 = Repointed(t, S)
  PROVE  TreeOf(t2, r, held)
<1>1. /\ Skeleton(t, r, lo, hi, h, up) /\ Chain(t, r, lo, hi) /\ (\A l \in Leaves(t) : LeafFits(t, r, lo, hi, l))
      /\ (\A k \in Keys : Covers(lo, hi, r, k)) /\ Held(t) = held /\ t \in Trees
    BY DEF Bare, Skeleton
<1>2. RepointedIs(t, t2, lo)
    BY <1>1, RepointedFits
<1>3. SameShape(t, t2) /\ SepsFit(t2, lo) /\ \A n \in NodeIds \ Inners(t) : t2[n] = t[n]
    BY <1>2 DEF RepointedIs
<1>4. Skeleton(t2, r, lo, hi, h, up) /\ Leaves(t2) = Leaves(t)
    BY <1>1, <1>3, SameSkeleton DEF SameShape
<1>5. \A c \in Leaves(t) : t2[c] = t[c]
    BY <1>1, <1>3, AliveIs, KindsAre
<1>6. \A c \in Leaves(t2) : LeafFits(t2, r, lo, hi, c)
    BY <1>1, <1>4, <1>5 DEF LeafFits
<1>7. Chain(t2, r, lo, hi)
    BY <1>1, <1>4, <1>5, ChainKept
<1>8. Held(t2) = held
    BY <1>1, <1>4, <1>5 DEF Held
<1>9. Bare(t2, r, lo, hi, h, up, held)
    BY <1>1, <1>4, <1>6, <1>7, <1>8 DEF Bare
<1> QED
    BY <1>3, <1>9, BareIsTree

\* What is left when the leaf of k goes.
LEMMA BareWithout ==
  ASSUME NEW t, NEW r, NEW lo, NEW hi, NEW h, NEW up, Tree(t, r, lo, hi, h, up), Chain(t, r, lo, hi),
         NEW l, NEW p, NEW a, NEW k, Only(t, r, lo, up, l, p, a, k), OnlyAt(t, r, lo, hi, l, p, a, k),
         NEW lo2, NEW hi2, Gone(t, r, lo, hi, lo2, hi2, l),
         NEW t1, NEW r2, NEW up2, Skeleton(t1, r2, lo2, hi2, h, up2), lo2[r2] = lo[r], hi2[r2] = hi[r],
         Leaves(t1) = Leaves(t) \ {l}, Unlinked(t, t1, l)
  PROVE  Bare(t1, r2, lo2, hi2, h, up2, Held(t) \ {k})
<1>1. /\ Skeleton(t, r, lo, hi, h, up) /\ l \in Leaves(t) /\ l # r /\ (\A c \in Leaves(t) : LeafFits(t, r, lo, hi, c))
      /\ k \in Keys /\ Covers(lo, hi, l, k) /\ \A e : Has(t[l].keys, e) <=> e = k
    BY DEF Tree, Only, OnlyAt
<1>2. \A c \in Leaves(t) \ {l} : t1[c].keys = t[c].keys
    BY DEF Unlinked
<1>3. \A c \in Leaves(t1) : LeafFits(t1, r2, lo2, hi2, c)
    BY <1>1, <1>2, FitsWithout
<1>4. Chain(t1, r2, lo2, hi2)
    BY <1>1, ChainWithout
<1>5. \A y \in Keys : Covers(lo2, hi2, r2, y)
    BY DEF Tree, Covers
<1>6. Held(t1) = Held(t) \ {k}
  <2>1. ASSUME NEW c \in Leaves(t) \ {l} PROVE ~Has(t[c].keys, k)
    <3> SUFFICES ASSUME Has(t[c].keys, k) PROVE FALSE
        OBVIOUS
    <3>1. Covers(lo, hi, c, k) /\ k \in Int
        BY <1>1, OrderedIs DEF LeafFits, Has, Covers
    <3> QED
        BY <1>1, <3>1, LeavesDiffer
  <2>2. ASSUME NEW e \in Keys
        PROVE  (\E c \in Leaves(t1) : Has(t1[c].keys, e)) <=> e # k /\ \E c \in Leaves(t) : Has(t[c].keys, e)
    <3>1. (\E c \in Leaves(t1) : Has(t1[c].keys, e)) <=> \E c \in Leaves(t) \ {l} : Has(t[c].keys, e)
        BY <1>2
    <3> QED
        BY <1>1, <2>1, <3>1
  <2> QED
      BY <2>2 DEF Held
<1> QED
    BY <1>3, <1>4, <1>5, <1>6 DEF Bare

\* The tree t1 without the leaf l, whose parent p keeps other children or
\* goes too, and t2, which is t1 with the separators put right.
LosesLeaf(t, t1, t2, r, r2, lo, up, l, p, a, S, k) ==
  /\ Only(t, r, lo, up, l, p, a, k) /\ SpotsFor(t, S, k) /\ Unlinked(t, t1, l)
  /\ \/ LeafDrops(t, t1, up, l, p, a) /\ r2 = r /\ t2 = Repointed(t1, S)
     \/ \E up2, s : LeafPasses(t, t1, r, r2, up, up2, l, p, a, s) /\ t2 = IF p = r THEN t1 ELSE Repointed(t1, S)

LEMMA TreeLosesLeaf ==
  ASSUME NEW t, NEW r, NEW lo, NEW hi, NEW h, NEW up, Tree(t, r, lo, hi, h, up), Chain(t, r, lo, hi),
         NEW t1, NEW t2, NEW r2, NEW l, NEW p, NEW a, NEW S, NEW k, LosesLeaf(t, t1, t2, r, r2, lo, up, l, p, a, S, k)
  PROVE  TreeOf(t2, r2, Held(t) \ {k})
<1>1. Only(t, r, lo, up, l, p, a, k) /\ SpotsFor(t, S, k) /\ Unlinked(t, t1, l) /\ l \in Leaves(t) /\ l # r
    BY DEF LosesLeaf, Only
<1>2. Skeleton(t, r, lo, hi, h, up) /\ SepsFit(t, lo) /\ LeafFits(t, r, lo, hi, l)
    BY <1>1 DEF Tree
<1>3. OnlyAt(t, r, lo, hi, l, p, a, k)
    BY ONLY <1>1, <1>2, OnlyIs
<1>4. OnePlace(S)
    BY ONLY <1>1, <1>2, SpotsApart
<1> PICK lo2, hi2 : lo2 = Shift(lo, From(r, lo, hi, l), To(r, lo, hi, l)) /\ hi2 = Shift(hi, From(r, lo, hi, l), To(r, lo, hi, l))
    OBVIOUS
<1>5. Gone(t, r, lo, hi, lo2, hi2, l) /\ Ghosts(lo2, hi2, h, up)
  <2>1. Shifted(lo, hi, lo2, hi2, From(r, lo, hi, l), To(r, lo, hi, l))
      BY DEF Shifted
  <2> QED
      BY ONLY <1>1, <1>2, <2>1, GoneIs
<1>6. lo2[r] = lo[r] /\ hi2[r] = hi[r]
    BY <1>5 DEF Gone
<1>7. CASE LeafDrops(t, t1, up, l, p, a) /\ r2 = r /\ t2 = Repointed(t1, S)
  <2>1. Skeleton(t1, r, lo2, hi2, h, up)
      BY ONLY <1>1, <1>2, <1>5, <1>7, DropSkeleton
  <2>2. Leaves(t1) = Leaves(t) \ {l}
      BY <1>7 DEF LeafDrops
  <2>3. Tree(t, r, lo, hi, h, up) /\ Chain(t, r, lo, hi)
      OBVIOUS
  <2>4. Bare(t1, r, lo2, hi2, h, up, Held(t) \ {k})
      BY ONLY <1>1, <1>3, <1>5, <1>6, <2>1, <2>2, <2>3, BareWithout
  <2>5. SepsFitBut(t1, lo2, S)
      BY ONLY <1>1, <1>2, <1>3, <1>5, <1>7, DropSeps
  <2> QED
      BY ONLY <1>4, <1>7, <2>4, <2>5, RepointedTree
<1>8. ASSUME NEW up2, NEW s, LeafPasses(t, t1, r, r2, up, up2, l, p, a, s), t2 = IF p = r THEN t1 ELSE Repointed(t1, S)
      PROVE  TreeOf(t2, r2, Held(t) \ {k})
  <2>1. Skeleton(t1, r2, lo2, hi2, h, up2) /\ lo2[r2] = lo2[r] /\ hi2[r2] = hi2[r]
      BY ONLY <1>1, <1>2, <1>5, <1>8, PassSkeleton
  <2>2. Leaves(t1) = Leaves(t) \ {l}
      BY <1>8 DEF LeafPasses
  <2>3. Tree(t, r, lo, hi, h, up) /\ Chain(t, r, lo, hi) /\ lo2[r2] = lo[r] /\ hi2[r2] = hi[r]
      BY <1>6, <2>1
  <2>4. Bare(t1, r2, lo2, hi2, h, up2, Held(t) \ {k})
      BY ONLY <1>1, <1>3, <1>5, <2>1, <2>2, <2>3, BareWithout
  <2>5. SepsFitBut(t1, lo2, S) /\ (p = r => SepsFit(t1, lo2))
      BY ONLY <1>1, <1>2, <1>3, <1>5, <1>8, PassSeps
  <2>6. CASE p = r
      BY <1>8, <2>4, <2>5, <2>6, BareIsTree
  <2>7. CASE p # r
    <3>1. t2 = Repointed(t1, S)
        BY <1>8, <2>7
    <3> QED
        BY ONLY <1>4, <2>4, <2>5, <3>1, RepointedTree
  <2> QED
      BY <2>6, <2>7
<1> QED
    BY <1>7, <1>8 DEF LosesLeaf

\* What erase computes at the parent n of the node c on the way down for k.
PlaceAt(n, c, i, k) ==
  /\ n \in Inners(node) /\ i \in 1 .. Len(node[n].kids) /\ node[n].kids[i] = c
  /\ Len(node[n].seps) = Len(node[n].kids) - 1 /\ Len(node[n].kids) >= 2
  /\ SepIndex(n, k) = (IF i = 1 THEN 1 ELSE i - 1) /\ (LeftSibling(n, k) = Null <=> i = 1)
  /\ \A j \in 1 .. Len(node[n].kids) : node[n].kids[j] = c <=> j = i
  /\ Len(node[n].kids) = 2 =>
       (IF LeftSibling(n, k) # Null THEN LeftSibling(n, k) ELSE RightSibling(n, k)) = node[n].kids[3 - i]

LEMMA PlaceOf ==
  ASSUME NEW lo, NEW hi, NEW h, NEW up, Tree(node, root, lo, hi, h, up),
         NEW c \in Alive(node), c # root, NEW n, n = up[c], NEW k \in Int, Covers(lo, hi, c, k)
  PROVE  \E i : PlaceAt(n, c, i, k)
<1>1. Skeleton(node, root, lo, hi, h, up) /\ SepsFit(node, lo) /\ node \in Trees
    BY DEF Tree, Skeleton
<1>2. n \in Inners(node) /\ IsKid(node, n, c)
    BY <1>1 DEF Skeleton
<1> PICK i \in 1 .. Len(node[n].kids) : node[n].kids[i] = c
    BY <1>2 DEF IsKid
<1> PICK kids, seps : kids = node[n].kids /\ seps = node[n].seps
    OBVIOUS
<1>3. Len(kids) \in Nat /\ Len(seps) = Len(kids) - 1 /\ (\A j \in 1 .. Len(kids) : kids[j] \in NodeIds) /\ Len(kids) >= 2
  <2>1. Family(kids, n, Alive(node), lo, hi, h, up)
      BY <1>1, <1>2 DEF Skeleton
  <2>2. Len(kids) \in Nat /\ (\A j \in 1 .. Len(kids) : kids[j] \in NodeIds)
      BY <1>1, <1>2, KidsAre
  <2> QED
      BY <1>1, <1>2, <2>1, <2>2, SmallFacts DEF Family, SepsFit
<1>4. AtMost(seps, k) = i - 1
    BY <1>1, <1>2, SepsBelow
<1>5. SepIndex(n, k) = (IF i = 1 THEN 1 ELSE i - 1)
    BY <1>3, <1>4 DEF SepIndex
<1>6. LeftSibling(n, k) = IF i = 1 THEN Null ELSE kids[i - 1]
    BY <1>3, <1>4 DEF LeftSibling
<1>7. i # 1 => i - 1 \in 1 .. Len(kids) /\ kids[i - 1] # Null
    BY <1>3, SmallFacts
<1>8. Len(kids) = 2 => (IF LeftSibling(n, k) # Null THEN LeftSibling(n, k) ELSE RightSibling(n, k)) = kids[3 - i]
  <2> SUFFICES ASSUME Len(kids) = 2
               PROVE  (IF LeftSibling(n, k) # Null THEN LeftSibling(n, k) ELSE RightSibling(n, k)) = kids[3 - i]
      OBVIOUS
  <2>1. CASE i = 1
    <3>1. RightSibling(n, k) = kids[2]
        BY <1>3, <1>4, <2>1 DEF RightSibling
    <3> QED
        BY <1>6, <2>1, <3>1
  <2>2. CASE i = 2
      BY <1>6, <1>7, <2>2
  <2> QED
      BY <2>1, <2>2
<1>9. ASSUME NEW j \in 1 .. Len(kids), kids[j] = c PROVE j = i
  <2>1. CASE j < i
    <3>1. lo[kids[j]] < hi[kids[j]] /\ hi[kids[j]] <= lo[kids[i]] /\ lo[kids[j]] \in Int /\ hi[kids[j]] \in Int
        BY <1>1, <1>2, <2>1, KidsApart
    <3> QED
        BY <1>9, <3>1
  <2>2. CASE i < j
    <3>1. lo[kids[i]] < hi[kids[i]] /\ hi[kids[i]] <= lo[kids[j]] /\ lo[kids[i]] \in Int /\ hi[kids[i]] \in Int
        BY <1>1, <1>2, <2>2, KidsApart
    <3> QED
        BY <1>9, <3>1
  <2> QED
      BY <1>3, <2>1, <2>2
<1> QED
    BY <1>2, <1>3, <1>5, <1>6, <1>7, <1>8, <1>9 DEF PlaceAt

\* The nodes once l is out of the chain.
CutOff(u, l) ==
  /\ u \in Trees /\ Leaves(u) = Leaves(node) \ {l} /\ Inners(u) = Inners(node)
  /\ Unlinked(node, u, l) /\ \A n \in Inners(node) : u[n] = node[n]

LEMMA UnlinkIs ==
  ASSUME NEW lo, NEW hi, NEW h, NEW up, Skeleton(node, root, lo, hi, h, up), Chain(node, root, lo, hi), NEW l \in Leaves(node)
  PROVE  CutOff(Unlink(l), l)
<1> PICK u, prev, next : u = Unlink(l) /\ prev = node[l].prev /\ next = node[l].next
    OBVIOUS
<1>1. node \in Trees /\ l \in NodeIds /\ Null \notin NodeIds
    BY AliveIs, SmallFacts DEF Skeleton
<1>2. lo[l] \in Int /\ hi[l] \in Int /\ lo[l] < hi[l]
    BY LeafBounds
<1>3. (prev = Null \/ (prev \in Leaves(node) /\ hi[prev] = lo[l])) /\ (next = Null \/ (next \in Leaves(node) /\ lo[next] = hi[l]))
    BY DEF Chain, NextIs, PrevIs
<1>4. prev # l /\ next # l /\ (prev = next => prev = Null)
  <2>1. prev # Null => lo[prev] < hi[prev] /\ lo[prev] \in Int /\ hi[prev] \in Int
      BY <1>3, LeafBounds
  <2> QED
      BY <1>1, <1>2, <1>3, <2>1
<1>5. u = [n \in NodeIds |-> CASE n = l -> Unallocated
                               [] n = prev -> [node[n] EXCEPT !.next = next]
                               [] n = next -> [node[n] EXCEPT !.prev = prev]
                               [] OTHER -> node[n]]
    BY DEF Unlink
<1>6. u[l] = Unallocated
    BY <1>1, <1>4, <1>5
<1>7. prev # Null => u[prev] = Leaf(node[prev].keys, node[prev].prev, next)
  <2> SUFFICES ASSUME prev # Null PROVE u[prev] = Leaf(node[prev].keys, node[prev].prev, next)
      OBVIOUS
  <2>1. prev \in Leaves(node) /\ prev \in NodeIds
      BY <1>3, AliveIs
  <2>2. u[prev] = [node[prev] EXCEPT !.next = next]
      BY <1>4, <1>5, <2>1
  <2>3. node[prev] = Leaf(node[prev].keys, node[prev].prev, node[prev].next)
      BY <1>1, <2>1, KeysAre
  <2> QED
      BY <2>2, <2>3 DEF Leaf
<1>8. next # Null => u[next] = Leaf(node[next].keys, prev, node[next].next)
  <2> SUFFICES ASSUME next # Null PROVE u[next] = Leaf(node[next].keys, prev, node[next].next)
      OBVIOUS
  <2>1. next \in Leaves(node) /\ next \in NodeIds
      BY <1>3, AliveIs
  <2>2. u[next] = [node[next] EXCEPT !.prev = prev]
      BY <1>4, <1>5, <2>1
  <2>3. node[next] = Leaf(node[next].keys, node[next].prev, node[next].next)
      BY <1>1, <2>1, KeysAre
  <2> QED
      BY <2>2, <2>3 DEF Leaf
<1>9. \A n \in NodeIds \ {l, prev, next} : u[n] = node[n]
    BY <1>5
<1>10. prev \in NodeIds \cup {Null} /\ next \in NodeIds \cup {Null}
    BY <1>1, KeysAre
<1>11. ASSUME NEW c \in Leaves(node) \ {l}
       PROVE  /\ u[c] \in LeafRecords /\ u[c].keys = node[c].keys
              /\ u[c].next = (IF c = prev THEN next ELSE node[c].next)
              /\ u[c].prev = (IF c = next THEN prev ELSE node[c].prev)
  <2>1. c \in NodeIds /\ node[c].keys \in Seq(Keys) /\ node[c].prev \in NodeIds \cup {Null} /\ node[c].next \in NodeIds \cup {Null}
        /\ node[c] = Leaf(node[c].keys, node[c].prev, node[c].next)
      BY <1>1, AliveIs, KeysAre
  <2>2. CASE c = prev
      BY <1>1, <1>4, <1>7, <1>10, <2>1, <2>2 DEF Leaf, LeafRecords
  <2>3. CASE c = next /\ c # prev
      BY <1>1, <1>8, <1>10, <2>1, <2>3 DEF Leaf, LeafRecords
  <2>4. CASE c # next /\ c # prev
    <3>1. u[c] = node[c]
        BY <1>9, <2>1, <2>4
    <3>2. node[c] \in LeafRecords
        BY <1>1, <2>1, KindsAre
    <3> QED
        BY <2>4, <3>1, <3>2
  <2> QED
      BY <2>2, <2>3, <2>4
<1>12. ASSUME NEW n \in NodeIds \ Leaves(node) PROVE u[n] = node[n] /\ (u[n] = Unallocated \/ u[n] \in InnerRecords)
  <2>1. u[n] = node[n]
      BY <1>1, <1>3, <1>9
  <2>2. node[n] \in {Unallocated} \cup LeafRecords \cup InnerRecords
      BY <1>1 DEF Trees
  <2>3. node[n] \notin LeafRecords
      BY DEF Leaves, LeafRecords
  <2> QED
      BY <2>1, <2>2, <2>3
<1>13. u \in Trees
  <2>1. ASSUME NEW n \in NodeIds PROVE u[n] \in {Unallocated} \cup LeafRecords \cup InnerRecords
      BY <1>6, <1>11, <1>12
  <2>2. u \in [NodeIds -> {Unallocated} \cup LeafRecords \cup InnerRecords]
      BY <1>5, <2>1
  <2> QED
      BY <2>2 DEF Trees
<1>14. ASSUME NEW n \in NodeIds
       PROVE  (n \in Leaves(u) <=> n \in Leaves(node) \ {l}) /\ (n \in Inners(u) <=> n \in Inners(node))
  <2>1. CASE n = l
    <3>1. n \notin Inners(node)
        BY <1>1, <2>1, KindsAre
    <3> QED
        BY <1>6, <2>1, <3>1 DEF Unallocated, Leaves, Inners
  <2>2. CASE n \in Leaves(node) \ {l}
    <3>1. n \notin Inners(node) /\ u[n] \in LeafRecords
        BY <1>1, <1>11, <2>2, KindsAre
    <3> QED
        BY <2>2, <3>1 DEF LeafRecords, Leaves, Inners
  <2>3. CASE n \notin Leaves(node)
    <3>1. u[n] = node[n]
        BY <1>12, <2>3
    <3> QED
        BY <2>3, <3>1 DEF Leaves, Inners
  <2> QED
      BY <2>1, <2>2, <2>3
<1>15. Leaves(u) = Leaves(node) \ {l} /\ Inners(u) = Inners(node)
    BY <1>14, AliveIs
<1>16. Unlinked(node, u, l)
    BY <1>11 DEF Unlinked
<1>17. \A n \in Inners(node) : u[n] = node[n]
    BY <1>1, <1>12, AliveIs, KindsAre
<1> QED
    BY <1>13, <1>15, <1>16, <1>17 DEF CutOff

\* An inner node becomes e, another inner node or free.
Becomes(u, t1, p, e) == u \in Trees /\ p \in Inners(u) /\ t1 = [u EXCEPT ![p] = e]
Became(u, t1, p, e, inners) ==
  /\ t1 \in Trees /\ t1[p] = e /\ Leaves(t1) = Leaves(u) /\ Inners(t1) = inners
  /\ \A n \in NodeIds \ {p} : t1[n] = u[n]

LEMMA NodeChanges ==
  ASSUME NEW u, NEW t1, NEW p, NEW e \in InnerRecords, Becomes(u, t1, p, e)
  PROVE  Became(u, t1, p, e, Inners(u))
<1>1. u \in Trees /\ p \in NodeIds /\ u[p].kind = "inner" /\ t1 = [u EXCEPT ![p] = e]
    BY DEF Becomes, Inners
<1>2. t1 \in Trees /\ t1[p] = e /\ \A n \in NodeIds \ {p} : t1[n] = u[n]
    BY <1>1 DEF Trees
<1>3. e.kind = "inner"
    BY DEF InnerRecords
<1>4. \A n \in NodeIds : (n \in Leaves(t1) <=> n \in Leaves(u)) /\ (n \in Inners(t1) <=> n \in Inners(u))
    BY <1>1, <1>2, <1>3 DEF Leaves, Inners
<1>5. Leaves(t1) = Leaves(u) /\ Inners(t1) = Inners(u)
    BY <1>4, AliveIs
<1> QED
    BY <1>2, <1>5 DEF Became

LEMMA NodeFreed ==
  ASSUME NEW u, NEW t1, NEW p, Becomes(u, t1, p, Unallocated)
  PROVE  Became(u, t1, p, Unallocated, Inners(u) \ {p})
<1>1. u \in Trees /\ p \in NodeIds /\ u[p].kind = "inner" /\ t1 = [u EXCEPT ![p] = Unallocated]
    BY DEF Becomes, Inners
<1>2. t1 \in Trees /\ t1[p] = Unallocated /\ \A n \in NodeIds \ {p} : t1[n] = u[n]
    BY <1>1 DEF Trees
<1>3. Unallocated.kind = "free"
    BY DEF Unallocated
<1>4. \A n \in NodeIds : (n \in Leaves(t1) <=> n \in Leaves(u)) /\ (n \in Inners(t1) <=> n \in Inners(u) \ {p})
    BY <1>1, <1>2, <1>3 DEF Leaves, Inners
<1>5. Leaves(t1) = Leaves(u) /\ Inners(t1) = Inners(u) \ {p}
    BY <1>4, AliveIs
<1> QED
    BY <1>2, <1>5 DEF Became

\* The parent p of l loses the child a, and keeps others.
Loses(t1, u, p, a) ==
  t1 = [u EXCEPT ![p] = Inner(RemoveAt(node[p].seps, IF a = 1 THEN 1 ELSE a - 1), RemoveAt(node[p].kids, a))]
Drops(u, t1, up, l, p, a, k) ==
  /\ CutOff(u, l) /\ p = up[l] /\ PlaceAt(p, l, a, k) /\ Len(node[p].kids) # 2 /\ Loses(t1, u, p, a)

LEMMA DropIs ==
  ASSUME node \in Trees, NEW l \in Leaves(node), NEW u, NEW t1, NEW up, NEW p, NEW a, NEW k, Drops(u, t1, up, l, p, a, k)
  PROVE  LeafDrops(node, t1, up, l, p, a) /\ Unlinked(node, t1, l)
<1>0. CutOff(u, l) /\ p = up[l] /\ PlaceAt(p, l, a, k) /\ Len(node[p].kids) # 2 /\ Loses(t1, u, p, a)
    BY DEF Drops
<1> PICK kids, seps, d : kids = node[p].kids /\ seps = node[p].seps /\ d = IF a = 1 THEN 1 ELSE a - 1
    OBVIOUS
<1> PICK s2, k2 : s2 = RemoveAt(seps, d) /\ k2 = RemoveAt(kids, a)
    OBVIOUS
<1>1. /\ u \in Trees /\ Leaves(u) = Leaves(node) \ {l} /\ Inners(u) = Inners(node)
      /\ Unlinked(node, u, l) /\ \A n \in Inners(node) : u[n] = node[n]
    BY <1>0 DEF CutOff
<1>2. /\ p \in Inners(node) /\ a \in 1 .. Len(kids) /\ kids[a] = l /\ Len(seps) = Len(kids) - 1 /\ Len(kids) >= 2
    BY <1>0 DEF PlaceAt
<1>3. kids \in Seq(NodeIds) /\ seps \in Seq(NodeIds \X Keys) /\ Len(kids) \in Nat
    BY <1>2, KidsAre
<1>4. d \in 1 .. Len(seps) /\ Len(kids) >= 3
    BY <1>0, <1>2, <1>3
<1>5. k2 \in Seq(NodeIds) /\ IsRemoved(k2, kids, a)
    BY <1>2, <1>3, RemoveAtIs
<1>6. s2 \in Seq(NodeIds \X Keys) /\ IsRemoved(s2, seps, d)
    BY <1>3, <1>4, RemoveAtIs
<1> PICK e : e = Inner(s2, k2)
    OBVIOUS
<1>7. e \in InnerRecords /\ e.seps = s2 /\ e.kids = k2 /\ e # Unallocated
  <2>1. e \in InnerRecords /\ e.seps = s2 /\ e.kids = k2
      BY <1>5, <1>6, InnerIs
  <2> QED
      BY <2>1 DEF InnerRecords, Unallocated
<1>8. t1 = [u EXCEPT ![p] = e]
    BY <1>0 DEF Loses
<1>9. /\ t1 \in Trees /\ t1[p] = e /\ Leaves(t1) = Leaves(node) \ {l} /\ Inners(t1) = Inners(node)
      /\ \A n \in NodeIds \ {p} : t1[n] = u[n]
  <2>1. Becomes(u, t1, p, e)
      BY <1>1, <1>2, <1>8 DEF Becomes
  <2>2. Became(u, t1, p, e, Inners(u))
      BY ONLY <1>7, <2>1, NodeChanges
  <2> QED
      BY <1>1, <2>2 DEF Became
<1>10. \A n \in Inners(node) \ {p} : t1[n] = node[n]
    BY <1>1, <1>9, AliveIs
<1>11. Unlinked(node, t1, l)
  <2>1. \A c \in Leaves(node) \ {l} : t1[c] = u[c]
      BY <1>2, <1>9, AliveIs, KindsAre
  <2> QED
      BY <1>1, <2>1 DEF Unlinked
<1>12. LeafDrops(node, t1, up, l, p, a)
  <2>1. IsRemoved(t1[p].kids, kids, a) /\ IsRemoved(t1[p].seps, seps, d)
      BY <1>5, <1>6, <1>7, <1>9
  <2> QED
      BY <1>0, <1>2, <1>4, <1>9, <1>10, <2>1 DEF LeafDrops
<1> QED
    BY <1>11, <1>12

\* The parent goes, and q, if there is one above it, gets s in its place.
Passes(u, t1, p, q, b, s) ==
  IF p = root THEN t1 = [u EXCEPT ![p] = Unallocated]
  ELSE t1 = [u EXCEPT ![p] = Unallocated, ![q] = [node[q] EXCEPT !.kids[b] = s]]

Hands(u, t1, r2, up, up2, l, p, q, a, b, s, k) ==
  /\ CutOff(u, l) /\ p = up[l] /\ PlaceAt(p, l, a, k) /\ Len(node[p].kids) = 2 /\ s = node[p].kids[3 - a]
  /\ (p # root => q = up[p] /\ PlaceAt(q, p, b, k)) /\ Passes(u, t1, p, q, b, s)
  /\ r2 = (IF p = root THEN s ELSE root) /\ up2 = [up EXCEPT ![s] = up[p]]

LEMMA PassIs ==
  ASSUME NEW lo, NEW hi, NEW h, NEW up, Skeleton(node, root, lo, hi, h, up), NEW l \in Leaves(node),
         NEW u, NEW t1, NEW r2, NEW up2, NEW p, NEW q, NEW a, NEW b, NEW s, NEW k, Hands(u, t1, r2, up, up2, l, p, q, a, b, s, k)
  PROVE  LeafPasses(node, t1, root, r2, up, up2, l, p, a, s) /\ Unlinked(node, t1, l)
<1>0. /\ CutOff(u, l) /\ p = up[l] /\ PlaceAt(p, l, a, k) /\ Len(node[p].kids) = 2 /\ s = node[p].kids[3 - a]
      /\ (p # root => q = up[p] /\ PlaceAt(q, p, b, k)) /\ Passes(u, t1, p, q, b, s)
      /\ r2 = (IF p = root THEN s ELSE root) /\ up2 = [up EXCEPT ![s] = up[p]]
    BY DEF Hands
<1>1. /\ u \in Trees /\ Leaves(u) = Leaves(node) \ {l} /\ Inners(u) = Inners(node)
      /\ Unlinked(node, u, l) /\ \A n \in Inners(node) : u[n] = node[n]
    BY <1>0 DEF CutOff
<1>2. /\ p \in Inners(node) /\ a \in 1 .. 2 /\ node[p].kids[a] = l /\ Len(node[p].kids) = 2
    BY <1>0 DEF PlaceAt
<1>3. node \in Trees /\ p \in NodeIds /\ s \in NodeIds
  <2>1. node \in Trees
      BY DEF Skeleton
  <2>2. 3 - a \in 1 .. Len(node[p].kids)
      BY <1>2
  <2> QED
      BY <1>0, <1>2, <2>1, <2>2, AliveIs, KidsAre
\* Without p, and the same but for the children of q.
<1> PICK v : v = [u EXCEPT ![p] = Unallocated]
    OBVIOUS
<1>4. /\ v \in Trees /\ Leaves(v) = Leaves(node) \ {l} /\ Inners(v) = Inners(node) \ {p}
      /\ \A n \in NodeIds \ {p} : v[n] = u[n]
  <2>1. Becomes(u, v, p, Unallocated)
      BY <1>1, <1>2 DEF Becomes
  <2>2. Became(u, v, p, Unallocated, Inners(u) \ {p})
      BY ONLY <2>1, NodeFreed
  <2> QED
      BY <1>1, <2>2 DEF Became
<1>5. ASSUME p # root, NEW e, e = [node[q] EXCEPT !.kids[b] = s]
      PROVE  /\ q \in Inners(node) \ {p} /\ e \in InnerRecords /\ e.seps = node[q].seps
             /\ Replaced(e.kids, node[q].kids, p, s) /\ e # Unallocated
  <2> PICK kids : kids = node[q].kids
      OBVIOUS
  <2>1. /\ q \in Inners(node) /\ b \in 1 .. Len(kids) /\ kids[b] = p
        /\ \A j \in 1 .. Len(kids) : kids[j] = p <=> j = b
      BY <1>0, <1>5 DEF PlaceAt
  <2>2. q # p
    <3>1. h[kids[b]] < h[q] /\ h[q] \in Nat
      <4>1. Inside(lo, hi, h, node[q].kids[b], q)
          BY <2>1, KidIsInside
      <4>2. q \in NodeIds /\ h \in [NodeIds -> Nat]
          BY <2>1, AliveIs DEF Skeleton, Ghosts
      <4> QED
          BY <4>1, <4>2 DEF Inside
    <3> QED
        BY <2>1, <3>1
  <2>3. node[q] = Inner(node[q].seps, kids) /\ kids \in Seq(NodeIds) /\ node[q].seps \in Seq(NodeIds \X Keys)
      BY <1>3, <2>1, KidsAre
  <2> PICK k2 : k2 = [kids EXCEPT ![b] = s]
      OBVIOUS
  <2>4. e = Inner(node[q].seps, k2)
    <3> PICK seps : seps = node[q].seps
        OBVIOUS
    <3>1. e = [Inner(seps, kids) EXCEPT !.kids[b] = s]
        BY <1>5, <2>3
    <3>2. Inner(seps, kids).kids = kids
        BY DEF Inner
    <3>3. e = [Inner(seps, kids) EXCEPT !.kids = k2]
        BY <3>1, <3>2
    <3> QED
        BY <3>3 DEF Inner
  <2>5. k2 \in Seq(NodeIds) /\ Len(k2) = Len(kids)
      BY <1>3, <2>1, <2>3
  <2>6. e \in InnerRecords /\ e.seps = node[q].seps /\ e.kids = k2
      BY <2>3, <2>4, <2>5, InnerIs
  <2>7. Replaced(k2, kids, p, s)
      BY <1>3, <2>1, <2>3, <2>5 DEF Replaced
  <2>8. e # Unallocated
      BY <2>6 DEF InnerRecords, Unallocated
  <2> QED
      BY <2>1, <2>2, <2>6, <2>7, <2>8
<1>6. ASSUME NEW n \in Inners(node), n = p \/ n # q \/ p = root, n # p PROVE Replaced(node[n].kids, node[n].kids, p, s)
  <2>1. ASSUME NEW j \in 1 .. Len(node[n].kids) PROVE node[n].kids[j] # p
    <3>1. up[node[n].kids[j]] = n
        BY KidIsInside
    <3>2. n \in NodeIds /\ (p = root => up[p] = Null)
        BY AliveIs DEF Skeleton
    <3> QED
        BY <1>0, <1>6, <3>1, <3>2, SmallFacts
  <2> QED
      BY <2>1 DEF Replaced
<1>7. ASSUME p # root
      PROVE  /\ t1 \in Trees /\ Leaves(t1) = Leaves(node) \ {l} /\ Inners(t1) = Inners(node) \ {p}
             /\ \A c \in Leaves(node) \ {l} : t1[c] = u[c]
             /\ \A n \in Inners(node) \ {p} : t1[n].seps = node[n].seps /\ Replaced(t1[n].kids, node[n].kids, p, s)
  <2> PICK e : e = [node[q] EXCEPT !.kids[b] = s]
      OBVIOUS
  <2>1. /\ q \in Inners(node) \ {p} /\ e \in InnerRecords /\ e.seps = node[q].seps
        /\ Replaced(e.kids, node[q].kids, p, s) /\ e # Unallocated
      BY <1>5, <1>7
  <2>2. t1 = [v EXCEPT ![q] = e]
      BY <1>0, <1>7 DEF Passes
  <2>3. /\ t1 \in Trees /\ t1[q] = e /\ Leaves(t1) = Leaves(v) /\ Inners(t1) = Inners(v) /\ \A n \in NodeIds \ {q} : t1[n] = v[n]
    <3>1. Becomes(v, t1, q, e)
        BY <1>4, <2>1, <2>2 DEF Becomes
    <3>2. Became(v, t1, q, e, Inners(v))
        BY ONLY <2>1, <3>1, NodeChanges
    <3> QED
        BY <3>2 DEF Became
  <2>4. \A c \in Leaves(node) \ {l} : t1[c] = u[c]
    <3>1. \A c \in Leaves(node) : c \in NodeIds /\ c # q /\ c # p
        BY <1>2, <1>3, <2>1, AliveIs, KindsAre
    <3> QED
        BY <1>4, <2>3, <3>1
  <2>5. ASSUME NEW n \in Inners(node) \ {p} PROVE t1[n].seps = node[n].seps /\ Replaced(t1[n].kids, node[n].kids, p, s)
    <3>1. CASE n = q
        BY <2>1, <2>3, <3>1
    <3>2. CASE n # q
      <4>1. t1[n] = node[n]
          BY <1>1, <1>4, <2>3, <3>2, AliveIs
      <4> QED
          BY <1>6, <3>2, <4>1
    <3> QED
        BY <3>1, <3>2
  <2> QED
      BY <1>4, <2>3, <2>4, <2>5
<1>8. ASSUME p = root
      PROVE  /\ t1 \in Trees /\ Leaves(t1) = Leaves(node) \ {l} /\ Inners(t1) = Inners(node) \ {p}
             /\ \A c \in Leaves(node) \ {l} : t1[c] = u[c]
             /\ \A n \in Inners(node) \ {p} : t1[n].seps = node[n].seps /\ Replaced(t1[n].kids, node[n].kids, p, s)
  <2>1. t1 = v
      BY <1>0, <1>8 DEF Passes
  <2>2. \A c \in Leaves(node) : c \in NodeIds /\ c # p
      BY <1>2, <1>3, AliveIs, KindsAre
  <2>3. \A n \in Inners(node) \ {p} : t1[n] = node[n]
      BY <1>1, <1>4, <2>1, AliveIs
  <2> QED
      BY <1>4, <1>6, <1>8, <2>1, <2>2, <2>3
<1>9. /\ t1 \in Trees /\ Leaves(t1) = Leaves(node) \ {l} /\ Inners(t1) = Inners(node) \ {p}
      /\ \A c \in Leaves(node) \ {l} : t1[c] = u[c]
      /\ \A n \in Inners(node) \ {p} : t1[n].seps = node[n].seps /\ Replaced(t1[n].kids, node[n].kids, p, s)
    BY <1>7, <1>8
<1>10. Unlinked(node, t1, l)
    BY <1>1, <1>9 DEF Unlinked
<1>11. LeafPasses(node, t1, root, r2, up, up2, l, p, a, s)
    BY <1>0, <1>2, <1>9 DEF LeafPasses
<1> QED
    BY <1>10, <1>11

LEMMA EraseLeafKeeps ==
  ASSUME IInv, NEW k \in Keys, EraseLeaf(k)
  PROVE  IInv'
<1> PICK lo, hi, h, up : Sound(node, root, contents, size, lo, hi, h, up)
    BY DEF IInv
<1>1. /\ Tree(node, root, lo, hi, h, up) /\ Chain(node, root, lo, hi) /\ Held(node) = contents /\ size = Cardinality(contents)
      /\ Skeleton(node, root, lo, hi, h, up) /\ node \in Trees
    BY DEF Sound, Tree, Skeleton
<1> PICK path, l, way, p, q, g : path = PathTo(k) /\ l = Last(path) /\ way = Front(path) /\ p = Last(way) /\ q = way[Len(way) - 1] /\ g = Len(path)
    OBVIOUS
<1> PICK S, s, u : /\ S = ToReplace(way, k) /\ u = Unlink(l)
                   /\ s = IF LeftSibling(p, k) # Null THEN LeftSibling(p, k) ELSE RightSibling(p, k)
    OBVIOUS
<1> PICK cut : cut = [u EXCEPT ![p] = DeleteWithChild(@, SepIndex(p, k), LeftSibling(p, k) = Null)]
    OBVIOUS
<1> PICK tree : tree = IF cut[p].seps = <<>> /\ Len(way) > 1 THEN Inherit(cut, q, k, p, s) ELSE cut
    OBVIOUS
<1>2. /\ Exists(k) /\ Len(node[l].keys) = 1 /\ l # root /\ pc = "idle" /\ pc' = pc
      /\ node' = IF cut[p].seps = <<>> /\ Len(way) = 1 THEN [tree EXCEPT ![p] = Unallocated] ELSE Repointed(tree, S)
      /\ root' = IF cut[p].seps = <<>> /\ Len(way) = 1 THEN s ELSE root
      /\ size' = size - 1 /\ contents' = contents \ {k}
    BY DEF EraseLeaf, Idle, callVars
<1>3. FoundIn(l, lo, hi, k)
  <2>1. l = FindLeaf(k)
      BY DEF FindLeaf
  <2> QED
      BY <1>1, <2>1, FindIs
<1>4. l \in Leaves(node) /\ k \in Held(node) /\ Has(node[l].keys, k) /\ Covers(lo, hi, l, k) /\ k \in Int /\ l \in Alive(node)
    BY <1>1, <1>2, <1>3, LeafBounds, SmallFacts DEF FoundIn
<1>5. node[l].keys[1] = k
    BY <1>2, <1>4 DEF Has
\* The parent of the leaf, and the node above it.
<1>6. /\ Way(node, root, lo, hi, up, k, path) /\ g \in Nat /\ l = path[g]
      /\ Len(way) = g - 1 /\ \A j \in 1 .. g - 1 : way[j] = path[j]
    BY <1>1, WayDownIs DEF WayDown
<1>7. /\ g >= 1 /\ path[1] = root /\ \A j \in 1 .. g : path[j] \in Alive(node) /\ Covers(lo, hi, path[j], k)
      /\ \A j \in 1 .. g - 1 : path[j] \in Inners(node) /\ up[path[j + 1]] = path[j]
    BY <1>6 DEF Way
<1>8. g >= 2 /\ p = path[g - 1]
  <2>1. g # 1
      BY <1>2, <1>6, <1>7
  <2> QED
      BY <1>6, <1>7, <2>1 DEF Last
<1>9. p = up[l] /\ p \in Alive(node) /\ Covers(lo, hi, p, k) /\ p \in NodeIds /\ p \in Inners(node)
  <2> PICK j : j = g - 1
      OBVIOUS
  <2>1. j \in 1 .. g - 1 /\ j \in 1 .. g /\ j + 1 = g
      BY <1>6, <1>8
  <2> QED
      BY <1>6, <1>7, <1>8, <2>1, AliveIs
<1>10. IF g = 2 THEN p = root ELSE p # root /\ q = up[p]
  <2>1. CASE g = 2
      BY <1>7, <1>8, <2>1
  <2>2. CASE g # 2
    <3> PICK j : j = g - 2
        OBVIOUS
    <3>1. j \in 1 .. g - 1 /\ j + 1 = g - 1 /\ Len(way) - 1 = j
        BY <1>6, <1>8, <2>2
    <3>2. path[j] \in Inners(node) /\ up[p] = path[j] /\ q = path[j]
        BY <1>6, <1>7, <1>8, <3>1
    <3>3. path[j] # Null /\ up[root] = Null
        BY <1>1, <3>2, AliveIs, SmallFacts DEF Skeleton
    <3> QED
        BY <2>2, <3>2, <3>3
  <2> QED
      BY <2>1, <2>2
<1>11. PICK a : PlaceAt(p, l, a, k)
    BY <1>1, <1>2, <1>4, <1>9, PlaceOf
<1> PICK kids, seps, d : kids = node[p].kids /\ seps = node[p].seps /\ d = IF a = 1 THEN 1 ELSE a - 1
    OBVIOUS
<1>12. /\ a \in 1 .. Len(kids) /\ kids[a] = l /\ Len(seps) = Len(kids) - 1 /\ Len(kids) >= 2
       /\ SepIndex(p, k) = d /\ (LeftSibling(p, k) = Null <=> a = 1) /\ (Len(kids) = 2 => s = kids[3 - a])
    BY <1>11 DEF PlaceAt
<1>13. kids \in Seq(NodeIds) /\ seps \in Seq(NodeIds \X Keys) /\ Len(kids) \in Nat
    BY <1>1, <1>9, KidsAre
<1>14. CutOff(u, l)
    BY <1>1, <1>4, UnlinkIs
<1>15. u \in Trees /\ p \in Inners(u) /\ u[p] = node[p]
    BY <1>9, <1>14 DEF CutOff
<1>16. cut = [u EXCEPT ![p] = Inner(RemoveAt(seps, d), RemoveAt(kids, a))]
  <2>1. d = (IF a = 1 THEN 1 ELSE a - 1) /\ (IF LeftSibling(p, k) = Null THEN d ELSE d + 1) = a
      BY <1>12, <1>13
  <2>2. DeleteWithChild(node[p], SepIndex(p, k), LeftSibling(p, k) = Null) = Inner(RemoveAt(seps, d), RemoveAt(kids, a))
      BY <1>12, <2>1 DEF DeleteWithChild
  <2>3. p \in DOMAIN u
      BY <1>9, <1>15 DEF Trees
  <2> QED
      BY <1>15, <2>2, <2>3
<1>17. cut[p].seps = <<>> <=> Len(kids) = 2
  <2>1. cut[p].seps = RemoveAt(seps, d)
    <3>1. cut[p] = Inner(RemoveAt(seps, d), RemoveAt(kids, a))
        BY <1>9, <1>15, <1>16 DEF Trees
    <3> QED
        BY <3>1 DEF Inner
  <2>2. d \in 1 .. Len(seps)
      BY <1>12, <1>13
  <2>3. RemoveAt(seps, d) \in Seq(NodeIds \X Keys) /\ Len(RemoveAt(seps, d)) = Len(seps) - 1
      BY <1>13, <2>2, RemoveAtIs DEF IsRemoved
  <2>4. RemoveAt(seps, d) = <<>> <=> Len(RemoveAt(seps, d)) = 0
      BY <2>3
  <2>5. Len(seps) - 1 = 0 <=> Len(kids) = 2
      BY <1>12, <1>13
  <2> QED
      BY ONLY <2>1, <2>3, <2>4, <2>5
<1>18. Only(node, root, lo, up, l, p, a, k) /\ SpotsFor(node, S, k)
  <2>1. SpotsFor(node, S, k)
      BY <1>1, SpotsAre
  <2> QED
      BY <1>2, <1>4, <1>5, <1>9, <1>12, <2>1 DEF Only
<1>19. TreeOf(node', root', Held(node) \ {k})
  <2>1. CASE Len(kids) # 2
    <3>1. tree = cut /\ node' = Repointed(cut, S) /\ root' = root
        BY <1>2, <1>17, <2>1
    <3>2. LeafDrops(node, cut, up, l, p, a) /\ Unlinked(node, cut, l)
      <4>1. Drops(u, cut, up, l, p, a, k)
          BY <1>9, <1>11, <1>14, <1>16, <2>1 DEF Drops, Loses
      <4> QED
          BY ONLY <1>1, <1>4, <4>1, DropIs
    <3>3. LosesLeaf(node, cut, node', root, root', lo, up, l, p, a, S, k)
        BY <1>18, <3>1, <3>2 DEF LosesLeaf
    <3> QED
        BY ONLY <1>1, <3>3, TreeLosesLeaf
  <2>2. CASE Len(kids) = 2
    <3> PICK t1, up2 : /\ t1 = (IF p = root THEN [tree EXCEPT ![p] = Unallocated] ELSE tree)
                       /\ up2 = [up EXCEPT ![s] = up[p]]
        OBVIOUS
    <3>1. /\ node' = (IF p = root THEN t1 ELSE Repointed(t1, S)) /\ root' = (IF p = root THEN s ELSE root)
          /\ (p = root <=> Len(way) = 1) /\ (p # root <=> Len(way) > 1)
      <4>1. (p = root <=> Len(way) = 1) /\ (p # root <=> Len(way) > 1)
          BY <1>6, <1>8, <1>10
      <4> QED
          BY <1>2, <1>17, <2>2, <4>1
    <3>2. p # root => \E b : PlaceAt(q, p, b, k)
        BY <1>1, <1>4, <1>9, <1>10, PlaceOf
    <3>3. PICK b : p # root => PlaceAt(q, p, b, k)
        BY <3>2
    <3>4. ASSUME p = root PROVE Passes(u, t1, p, q, b, s)
      <4>1. tree = cut /\ t1 = [cut EXCEPT ![p] = Unallocated]
          BY <3>1, <3>4
      <4>2. t1 = [u EXCEPT ![p] = Unallocated]
          BY ONLY <1>16, <4>1
      <4> QED
          BY <3>4, <4>2 DEF Passes
    <3>5. ASSUME p # root PROVE Passes(u, t1, p, q, b, s)
      <4>1. t1 = Inherit(cut, q, k, p, s)
          BY <1>17, <2>2, <3>1, <3>5
      <4>2. q \in Inners(node) /\ q # p /\ q \in NodeIds
        <5>1. q \in Inners(node) /\ b \in 1 .. Len(node[q].kids) /\ node[q].kids[b] = p
            BY <3>3, <3>5 DEF PlaceAt
        <5>2. Inside(lo, hi, h, p, q)
            BY <1>1, <5>1, KidIsInside
        <5>3. q \in NodeIds /\ h \in [NodeIds -> Nat]
            BY <1>1, <5>1, AliveIs DEF Skeleton, Ghosts
        <5> QED
            BY <5>1, <5>2, <5>3 DEF Inside
      <4>3. cut[q] = node[q]
        <5>1. u[q] = node[q]
            BY <1>14, <4>2 DEF CutOff
        <5> QED
            BY <1>16, <4>2, <5>1
      <4>4. InheritChild(node[q], SepIndex(q, k), s, LeftSibling(q, k) = Null) = [node[q] EXCEPT !.kids[b] = s]
        <5>1. /\ b \in 1 .. Len(node[q].kids) /\ SepIndex(q, k) = (IF b = 1 THEN 1 ELSE b - 1)
              /\ (LeftSibling(q, k) = Null <=> b = 1)
            BY <3>3, <3>5 DEF PlaceAt
        <5>2. (IF LeftSibling(q, k) = Null THEN SepIndex(q, k) ELSE SepIndex(q, k) + 1) = b
          <6>1. b \in Int
              BY <5>1
          <6> QED
              BY <5>1, <6>1
        <5> QED
            BY <5>2 DEF InheritChild
      <4> PICK v : v = [cut EXCEPT ![p] = Unallocated]
          OBVIOUS
      <4>5. v = [u EXCEPT ![p] = Unallocated]
          BY <1>16
      <4>6. v[q] = node[q] /\ DOMAIN v = NodeIds
        <5>1. DOMAIN u = NodeIds
            BY <1>15 DEF Trees
        <5> QED
            BY <4>2, <4>3, <4>5, <5>1
      <4>7. t1 = [v EXCEPT ![q] = InheritChild(cut[q], SepIndex(q, k), s, LeftSibling(q, k) = Null)]
          BY <4>1 DEF Inherit
      <4>8. t1 = [v EXCEPT ![q] = [node[q] EXCEPT !.kids[b] = s]]
          BY ONLY <4>3, <4>4, <4>7
      <4> QED
          BY <3>5, <4>5, <4>8 DEF Passes
    <3>6. Passes(u, t1, p, q, b, s)
        BY <3>4, <3>5
    <3>7. LeafPasses(node, t1, root, root', up, up2, l, p, a, s) /\ Unlinked(node, t1, l)
      <4>1. p # root => q = up[p] /\ PlaceAt(q, p, b, k)
          BY <1>10, <3>3
      <4>2. Hands(u, t1, root', up, up2, l, p, q, a, b, s, k)
          BY <1>9, <1>11, <1>12, <1>14, <2>2, <3>1, <3>6, <4>1 DEF Hands
      <4> QED
          BY ONLY <1>1, <1>4, <4>2, PassIs
    <3>8. LosesLeaf(node, t1, node', root, root', lo, up, l, p, a, S, k)
        BY <1>18, <3>1, <3>7 DEF LosesLeaf
    <3> QED
        BY ONLY <1>1, <3>8, TreeLosesLeaf
  <2> QED
      BY <2>1, <2>2
<1>20. PICK lo2, hi2, h2, up2 :
         Tree(node', root', lo2, hi2, h2, up2) /\ Chain(node', root', lo2, hi2) /\ Held(node') = Held(node) \ {k}
    BY <1>19 DEF TreeOf
<1>21. Sound(node', root', contents', size', lo2, hi2, h2, up2)
  <2>1. Held(node') = contents'
      BY <1>1, <1>2, <1>20
  <2>2. size' = Cardinality(contents')
      BY <1>1, <1>2, <1>4, OneLessHeld
  <2> QED
      BY <1>20, <2>1, <2>2 DEF Sound
<1> QED
    BY <1>2, <1>21 DEF IInv, Waits

-----------------------------------------------------------------------------
(* The invariant holds of every state the program can be in.               *)

\* Integers around the keys.
LEMMA KeysAreBounded == \E a, b \in Int : a < b /\ \A k \in Keys : a <= k /\ k < b
<1>1. CASE Keys = {}
  <2>1. 0 \in Int /\ 1 \in Int /\ 0 < 1
      OBVIOUS
  <2> QED
      BY <1>1, <2>1
<1>2. CASE Keys # {}
  <2> DEFINE same == [x \in Keys |-> x]
  <2>1. \A x \in Keys : x \in Int /\ same[x] = x
      BY KeysAssumption
  <2> HIDE DEF same
  <2>2. Orders(same, Keys)
      BY <2>1, KeysAssumption DEF Orders
  <2>3. (\E k \in Keys : \A j \in Keys : same[k] <= same[j]) /\ \E k \in Keys : \A j \in Keys : same[j] <= same[k]
      BY <1>2, <2>2, EndsExist
  <2>4. PICK c \in Keys : \A j \in Keys : same[c] <= same[j]
      BY <2>3
  <2>5. PICK d \in Keys : \A j \in Keys : same[j] <= same[d]
      BY <2>3
  <2>6. c \in Int /\ d + 1 \in Int /\ c < d + 1 /\ \A j \in Keys : c <= j /\ j < d + 1
      BY <2>1, <2>4, <2>5
  <2> QED
      BY <2>6
<1> QED
    BY <1>1, <1>2

\* A tree that is one empty leaf.
OneLeaf(t, r) == r \in NodeIds /\ t = [n \in NodeIds |-> IF n = r THEN Leaf(<<>>, Null, Null) ELSE Unallocated]

LEMMA OneLeafIsTree ==
  ASSUME NEW t, NEW r, OneLeaf(t, r)
  PROVE  \E lo, hi, h, up : Sound(t, r, {}, 0, lo, hi, h, up)
<1> PICK a \in Int, b \in Int : a < b /\ \A k \in Keys : a <= k /\ k < b
    BY KeysAreBounded
<1> PICK lo, hi, h, up : /\ lo = [n \in NodeIds |-> a] /\ hi = [n \in NodeIds |-> b]
                         /\ h = [n \in NodeIds |-> 0] /\ up = [n \in NodeIds |-> Null]
    OBVIOUS
<1>1. r \in NodeIds /\ t[r] = Leaf(<<>>, Null, Null) /\ \A n \in NodeIds \ {r} : t[n] = Unallocated
    BY DEF OneLeaf
<1>2. t \in Trees
  <2>1. <<>> \in Seq(Keys)
      OBVIOUS
  <2>2. Leaf(<<>>, Null, Null) \in LeafRecords
      BY <2>1 DEF Leaf, LeafRecords
  <2>3. \A n \in NodeIds : t[n] \in {Unallocated} \cup LeafRecords \cup InnerRecords
      BY <1>1, <2>2
  <2>4. t \in [NodeIds -> {Unallocated} \cup LeafRecords \cup InnerRecords]
      BY <2>3 DEF OneLeaf
  <2> QED
      BY <2>4 DEF Trees
<1>3. Alive(t) = {r} /\ Leaves(t) = {r} /\ Inners(t) = {}
  <2>1. t[r].kind = "leaf" /\ \A n \in NodeIds \ {r} : t[n].kind = "free"
      BY <1>1 DEF Leaf, Unallocated
  <2> QED
      BY <1>1, <2>1 DEF Alive, Leaves, Inners
<1>4. Ghosts(lo, hi, h, up) /\ lo[r] = a /\ hi[r] = b /\ up[r] = Null
    BY <1>1 DEF Ghosts
<1>5. Skeleton(t, r, lo, hi, h, up)
    BY <1>2, <1>3, <1>4 DEF Skeleton
<1>6. SepsFit(t, lo)
    BY <1>3 DEF SepsFit
<1>7. t[r].keys = <<>> /\ t[r].prev = Null /\ t[r].next = Null
    BY <1>1 DEF Leaf
<1>8. LeafFits(t, r, lo, hi, r)
  <2>1. Ordered(<<>>, a, b)
    <3>1. <<>> \in Seq(Keys) /\ Len(<<>>) = 0
        OBVIOUS
    <3> QED
        BY <3>1, SmallFacts DEF Ordered
  <2> QED
      BY <1>4, <1>7, <2>1 DEF LeafFits
<1>9. Tree(t, r, lo, hi, h, up)
    BY <1>3, <1>4, <1>5, <1>6, <1>8 DEF Tree, Covers
<1>10. Chain(t, r, lo, hi)
    BY <1>3, <1>7 DEF Chain, NextIs, PrevIs
<1>11. Held(t) = {}
  <2>1. \A e : ~Has(<<>>, e)
      BY DEF Has
  <2> QED
      BY <1>3, <1>7, <2>1 DEF Held
<1> QED
    BY <1>9, <1>10, <1>11, FS_EmptySet DEF Sound

LEMMA InitHolds == Init => IInv
<1> SUFFICES ASSUME Init PROVE IInv
    OBVIOUS
<1> PICK r : r = CHOOSE n \in NodeIds : \A m \in NodeIds : n <= m
    OBVIOUS
<1>1. r \in NodeIds
    BY NodeAssumption, LeastPlace
<1>2. /\ root = r /\ node = [n \in NodeIds |-> IF n = r THEN Leaf(<<>>, Null, Null) ELSE Unallocated]
      /\ size = 0 /\ pc = "idle" /\ contents = {}
    BY DEF Init
<1>3. OneLeaf(node, root)
    BY <1>1, <1>2 DEF OneLeaf
<1>4. PICK lo, hi, h, up : Sound(node, root, {}, 0, lo, hi, h, up)
    BY <1>3, OneLeafIsTree
<1> QED
    BY <1>2, <1>4 DEF IInv, Waits

LEMMA StepHolds == IInv /\ [Next]_vars => IInv'
<1> SUFFICES ASSUME IInv, [Next]_vars PROVE IInv'
    OBVIOUS
<1>1. ASSUME UNCHANGED vars PROVE IInv'
  <2>1. root' = root /\ node' = node /\ size' = size /\ pc' = pc /\ key' = key /\ todo' = todo /\ parent' = parent /\ contents' = contents
      BY <1>1 DEF vars
  <2> QED
      BY <2>1 DEF IInv
<1>2. ASSUME NEW k \in Keys, PutExisting(k) PROVE IInv'
    BY <1>1, <1>2 DEF PutExisting
<1>3. ASSUME NEW k \in Keys, EraseMissing(k) PROVE IInv'
    BY <1>1, <1>3 DEF EraseMissing
<1>4. ASSUME NEW k \in Keys, PutInLeaf(k) PROVE IInv'
    BY <1>4, PutInLeafKeeps
<1>5. ASSUME NEW k \in Keys, PutSplitsRootLeaf(k) PROVE IInv'
    BY <1>5, PutSplitsRootLeafKeeps
<1>6. ASSUME NEW k \in Keys, StartSplit(k) PROVE IInv'
    BY <1>6, StartSplitKeeps
<1>7. ASSUME NEW k \in Keys, EraseFromLeaf(k) PROVE IInv'
    BY <1>7, EraseFromLeafKeeps
<1>8. ASSUME NEW k \in Keys, EraseLeaf(k) PROVE IInv'
    BY <1>8, EraseLeafKeeps
<1>9. CASE SplitRoot
    BY <1>9, SplitRootKeeps
<1>10. CASE SplitInner
    BY <1>10, SplitInnerKeeps
<1>11. CASE SplitLeaf
    BY <1>11, SplitLeafKeeps
<1>12. CASE Abandon
    BY <1>12, AbandonKeeps
<1> QED
    BY <1>1, <1>2, <1>3, <1>4, <1>5, <1>6, <1>7, <1>8, <1>9, <1>10, <1>11, <1>12 DEF Next

LEMMA InvariantHolds == Spec => []IInv
BY InitHolds, StepHolds, PTL DEF Spec

-----------------------------------------------------------------------------
(* What follows.                                                           *)

LEMMA FindIsExactNow == IInv => FindIsExact
<1> SUFFICES ASSUME IInv PROVE FindIsExact
    OBVIOUS
<1> PICK lo, hi, h, up : Sound(node, root, contents, size, lo, hi, h, up)
    BY DEF IInv
<1>1. Tree(node, root, lo, hi, h, up) /\ Held(node) = contents /\ size = Cardinality(contents)
    BY DEF Sound
<1>2. ASSUME NEW k \in Keys
      PROVE  (Exists(k) <=> k \in contents) /\ Get(k) = IF k \in contents THEN k ELSE Null
  <2>1. FoundIn(FindLeaf(k), lo, hi, k)
      BY <1>1, FindIs
  <2> QED
      BY <1>1, <2>1 DEF FoundIn
<1> QED
    BY <1>1, <1>2 DEF FindIsExact, CountAll

LEMMA FrontsNow == IInv => SeparatorsAreFronts
<1> SUFFICES ASSUME IInv PROVE SeparatorsAreFronts
    OBVIOUS
<1> PICK lo, hi, h, up : Sound(node, root, contents, size, lo, hi, h, up)
    BY DEF IInv
<1>1. /\ Skeleton(node, root, lo, hi, h, up) /\ SepsFit(node, lo) /\ \A l \in Leaves(node) : LeafFits(node, root, lo, hi, l)
      /\ node \in Trees
    BY DEF Sound, Tree, Skeleton
<1> PICK spots : spots = {s \in Live \X (1 .. Capacity) : ~IsLeaf(s[1]) /\ s[2] <= Len(node[s[1]].seps)}
    OBVIOUS
<1>2. ASSUME NEW s \in spots
      PROVE  \E n \in Inners(node) : \E i \in 1 .. Len(node[n].seps) : s = <<n, i>>
  <2>1. PICK n \in Live, i \in 1 .. Capacity : s = <<n, i>> /\ ~IsLeaf(n) /\ i <= Len(node[n].seps)
      OBVIOUS
  <2>2. n \in Inners(node)
      BY <1>1, <2>1, KindsAre DEF Live, IsLeaf, Alive, Leaves
  <2>3. Len(node[n].seps) \in Nat
      BY <1>1, <2>2, KidsAre
  <2> QED
      BY <2>1, <2>2, <2>3
<1>3. ASSUME NEW n \in Inners(node), NEW i \in 1 .. Len(node[n].seps)
      PROVE  /\ i + 1 \in 2 .. Len(node[n].kids) /\ node[n].seps[i][2] = lo[node[n].kids[i + 1]]
             /\ node[n].seps[i] = SuitableEntry(node, n, i)
  <2> PICK j, sep : j = i + 1 /\ sep = node[n].seps[i]
      OBVIOUS
  <2> PICK c : c = node[n].kids[j]
      OBVIOUS
  <2>1. sep[2] = lo[c] /\ sep[1] \in Leaves(node) /\ lo[sep[1]] = sep[2] /\ Len(node[n].seps) = Len(node[n].kids) - 1
      BY <1>1 DEF SepsFit
  <2>2. j \in 2 .. Len(node[n].kids) /\ j \in 1 .. Len(node[n].kids) /\ j > 1 /\ sep \in NodeIds \X Keys
      BY <1>1, <2>1, KidsAre
  <2>3. c \in Alive(node) /\ lo[n] < lo[c]
      BY <1>1, <2>2, KidIsInside
  <2> PICK m : m = Leftmost(node, c)
      OBVIOUS
  <2>4. m \in Leaves(node) /\ lo[m] = lo[c]
      BY <1>1, <2>3, LeftmostIs
  <2>5. sep[1] = m
      BY <1>1, <2>1, <2>4, SameLeaf
  <2>6. lo[m] # lo[root]
    <3>1. lo[root] <= lo[n] /\ n \in NodeIds
        BY <1>1, RootCovers, AliveIs, KindsAre
    <3>2. lo[root] \in Int /\ lo[n] \in Int /\ lo[m] \in Int
        BY <1>1, <2>4, <3>1, LeafBounds DEF Skeleton, Ghosts
    <3> QED
        BY <2>3, <2>4, <3>1, <3>2
  <2>7. node[m].keys[1] = lo[m]
      BY <1>1, <2>4, <2>6 DEF LeafFits
  <2>8. SuitableEntry(node, n, i) = <<m, node[m].keys[1]>>
      BY DEF SuitableEntry, FrontOf
  <2>9. sep = <<sep[1], sep[2]>>
      BY <2>2
  <2> QED
      BY <2>1, <2>2, <2>4, <2>5, <2>7, <2>8, <2>9
<1>4. ASSUME NEW s \in spots PROVE node[s[1]].seps[s[2]] = SuitableEntry(node, s[1], s[2])
    BY <1>2, <1>3
<1>5. ASSUME NEW s \in spots, NEW t \in spots, node[s[1]].seps[s[2]] = node[t[1]].seps[t[2]] PROVE s = t
  <2>1. PICK n, i : n \in Inners(node) /\ i \in 1 .. Len(node[n].seps) /\ s = <<n, i>>
      BY <1>2
  <2>2. PICK m, j : m \in Inners(node) /\ j \in 1 .. Len(node[m].seps) /\ t = <<m, j>>
      BY <1>2
  <2> PICK x, y : x = i + 1 /\ y = j + 1
      OBVIOUS
  <2>3. /\ x \in 2 .. Len(node[n].kids) /\ y \in 2 .. Len(node[m].kids) /\ lo[node[n].kids[x]] = lo[node[m].kids[y]]
      BY <1>3, <1>5, <2>1, <2>2
  <2>4. n = m /\ x = y
      BY <1>1, <2>1, <2>2, <2>3, CutsDiffer
  <2> QED
      BY <2>1, <2>2, <2>4
<1> QED
    BY <1>4, <1>5 DEF SeparatorsAreFronts

LEMMA TypesNow == IInv => TypeOK
<1> SUFFICES ASSUME IInv PROVE TypeOK
    OBVIOUS
<1> PICK lo, hi, h, up : Sound(node, root, contents, size, lo, hi, h, up)
    BY DEF IInv
<1>1. /\ Skeleton(node, root, lo, hi, h, up) /\ SepsFit(node, lo) /\ \A l \in Leaves(node) : LeafFits(node, root, lo, hi, l)
      /\ node \in Trees /\ Chain(node, root, lo, hi) /\ size = Cardinality(Held(node)) /\ root \in Alive(node)
    BY DEF Sound, Tree, Skeleton
<1>2. root \in NodeIds /\ size \in 0 .. Cardinality(Keys)
  <2>1. Held(node) \in SUBSET Keys
      BY HeldIs
  <2>2. Cardinality(Held(node)) <= Cardinality(Keys) /\ Cardinality(Keys) \in Nat /\ Cardinality(Held(node)) \in Nat
      BY <2>1, HeldIs, KeysAssumption, FS_Subset, FS_CardinalityType
  <2> QED
      BY <1>1, <2>2, AliveIs
<1>3. Live = Alive(node)
    BY DEF Live, Alive
<1>4. ASSUME NEW n \in Leaves(node)
      PROVE  IsLeaf(n) /\ Len(node[n].keys) <= Capacity /\ {node[n].prev, node[n].next} \subseteq Live \cup {Null}
  <2>1. node[n].kind = "leaf"
      BY DEF Leaves
  <2>2. Len(node[n].keys) <= Capacity
      BY <1>1 DEF LeafFits, Ordered
  <2>3. node[n].prev \in Leaves(node) \cup {Null} /\ node[n].next \in Leaves(node) \cup {Null}
      BY <1>1 DEF Chain, NextIs, PrevIs
  <2> QED
      BY <1>1, <1>3, <2>1, <2>2, <2>3, AliveParts DEF IsLeaf
<1>5. ASSUME NEW n \in Inners(node)
      PROVE  node[n].kind = "inner" /\ Len(node[n].seps) \in 1 .. Capacity /\ Len(node[n].kids) = Len(node[n].seps) + 1
  <2>1. node[n].kind = "inner"
      BY DEF Inners
  <2>2. Family(node[n].kids, n, Alive(node), lo, hi, h, up) /\ Len(node[n].seps) = Len(node[n].kids) - 1
      BY <1>1 DEF Skeleton, SepsFit
  <2>3. Len(node[n].kids) \in 2 .. Capacity + 1
      BY <2>2 DEF Family
  <2> QED
      BY <2>1, <2>2, <2>3, SmallFacts
<1> QED
    BY <1>1, <1>2, <1>3, <1>4, <1>5, AliveParts DEF TypeOK

-----------------------------------------------------------------------------
(* Where an iterator stands: on an entry with key p, or at the end, which  *)
(* counts as where the last leaf ends.                                     *)

StandsAt(it, hi, p) ==
  \/ /\ it[1] \in Leaves(node) /\ it[2] \in 1 .. Len(node[it[1]].keys) /\ it = <<it[1], it[2]>>
     /\ p = node[it[1]].keys[it[2]]
  \/ it = End /\ p = hi[root]

Linked(lo, hi, h, up) == Tree(node, root, lo, hi, h, up) /\ Chain(node, root, lo, hi)

\* The last leaf.
IsLast(l, hi) == l \in Leaves(node) /\ hi[l] = hi[root] /\ node[l].next = Null
LEMMA EndIs ==
  ASSUME NEW lo, NEW hi, NEW h, NEW up, Linked(lo, hi, h, up)
  PROVE  /\ IsLast(Rightmost, hi) /\ End = <<Rightmost, Len(node[Rightmost].keys) + 1>>
         /\ \A l \in Leaves(node) : node[l].next = Null => l = Rightmost
<1> PICK r : r = Rightmost
    OBVIOUS
<1>1. Skeleton(node, root, lo, hi, h, up) /\ Chain(node, root, lo, hi)
    BY DEF Linked, Tree
<1>2. r \in Leaves(node) /\ hi[r] = hi[root]
    BY <1>1, RightmostIs
<1>3. node[r].next = Null
    BY <1>1, <1>2 DEF Chain, NextIs
<1>4. ASSUME NEW l \in Leaves(node), node[l].next = Null PROVE l = r
  <2>1. Null \notin Leaves(node)
      BY SmallFacts, AliveIs
  <2>2. hi[l] = hi[root]
      BY <1>1, <1>4, <2>1 DEF Chain, NextIs
  <2> QED
      BY <1>1, <1>2, <2>2, SameLeaf
<1> QED
    BY <1>2, <1>3, <1>4 DEF IsLast, End

\* A key that is held is in the leaf that serves it.
LEMMA HeldInLeaf ==
  ASSUME NEW lo, NEW hi, NEW h, NEW up, Tree(node, root, lo, hi, h, up), NEW l \in Leaves(node),
         NEW c \in Held(node), Covers(lo, hi, l, c)
  PROVE  Has(node[l].keys, c)
<1>1. PICK m \in Leaves(node) : Has(node[m].keys, c)
    BY DEF Held
<1>2. Ordered(node[m].keys, lo[m], hi[m]) /\ Skeleton(node, root, lo, hi, h, up) /\ c \in Int
    BY SmallFacts DEF Tree, LeafFits, Held
<1>3. Covers(lo, hi, m, c)
    BY <1>1, <1>2, OrderedIs DEF Has, Covers
<1>4. l = m
    BY <1>2, <1>3, LeavesDiffer
<1> QED
    BY <1>1, <1>4

LEMMA LeafIs ==
  ASSUME NEW lo, NEW hi, NEW h, NEW up, Tree(node, root, lo, hi, h, up), NEW l \in Leaves(node)
  PROVE  /\ Ordered(node[l].keys, lo[l], hi[l])
         /\ Len(node[l].keys) \in Nat /\ DOMAIN node[l].keys = 1 .. Len(node[l].keys)
         /\ \A i \in 1 .. Len(node[l].keys) :
              /\ node[l].keys[i] \in Held(node) /\ node[l].keys[i] \in Int
              /\ lo[l] <= node[l].keys[i] /\ node[l].keys[i] < hi[l]
         /\ \A i, j \in 1 .. Len(node[l].keys) : i < j => node[l].keys[i] < node[l].keys[j]
         /\ lo[l] \in Int /\ hi[l] \in Int /\ lo[root] \in Int /\ hi[root] \in Int
         /\ lo[l] < hi[l] /\ lo[root] <= lo[l] /\ hi[l] <= hi[root] /\ l \in NodeIds
<1>1. Ordered(node[l].keys, lo[l], hi[l]) /\ Skeleton(node, root, lo, hi, h, up)
    BY DEF Tree, LeafFits
<1>2. /\ Len(node[l].keys) \in Nat /\ DOMAIN node[l].keys = 1 .. Len(node[l].keys)
      /\ \A i \in 1 .. Len(node[l].keys) : /\ node[l].keys[i] \in Keys /\ node[l].keys[i] \in Int
                                           /\ lo[l] <= node[l].keys[i] /\ node[l].keys[i] < hi[l]
      /\ \A i, j \in 1 .. Len(node[l].keys) : i < j => node[l].keys[i] < node[l].keys[j]
    BY <1>1, OrderedIs
<1>3. \A i \in 1 .. Len(node[l].keys) : node[l].keys[i] \in Held(node)
    BY <1>2 DEF Held, Has
<1>4. /\ lo[l] \in Int /\ hi[l] \in Int /\ lo[root] \in Int /\ hi[root] \in Int
      /\ lo[l] < hi[l] /\ lo[root] <= lo[l] /\ hi[l] <= hi[root] /\ l \in NodeIds
    BY <1>1, LeafBounds
<1> QED
    BY <1>1, <1>2, <1>3, <1>4

\* What a place tells, and that no other place tells the same.
LEMMA StandsIs ==
  ASSUME NEW lo, NEW hi, NEW h, NEW up, Linked(lo, hi, h, up), NEW it, NEW p, StandsAt(it, hi, p)
  PROVE  /\ p \in Int /\ lo[root] <= p /\ p <= hi[root] /\ hi[root] \in Int /\ it \in NodeIds \X Nat
         /\ it = End <=> p = hi[root]
         /\ it # End => p \in Held(node) /\ KeyAt(it) = p
<1>1. Tree(node, root, lo, hi, h, up)
    BY DEF Linked
<1> PICK r, n : r = Rightmost /\ n = Len(node[r].keys) + 1
    OBVIOUS
<1>2. r \in Leaves(node) /\ End = <<r, n>>
    BY EndIs DEF IsLast
<1>3. r \in NodeIds /\ n \in Nat /\ hi[root] \in Int /\ lo[root] \in Int /\ lo[root] < hi[root]
    BY <1>1, <1>2, LeafIs
<1>4. CASE it = End /\ p = hi[root]
    BY <1>2, <1>3, <1>4
<1>5. CASE ~(it = End /\ p = hi[root])
  <2> PICK l, i : l = it[1] /\ i = it[2]
      OBVIOUS
  <2>1. l \in Leaves(node) /\ i \in 1 .. Len(node[l].keys) /\ it = <<l, i>> /\ p = node[l].keys[i]
      BY <1>5 DEF StandsAt
  <2>2. /\ Len(node[l].keys) \in Nat /\ DOMAIN node[l].keys = 1 .. Len(node[l].keys) /\ l \in NodeIds
        /\ p \in Held(node) /\ p \in Int /\ lo[l] <= p /\ p < hi[l]
        /\ lo[l] \in Int /\ hi[l] \in Int /\ lo[root] <= lo[l] /\ hi[l] <= hi[root]
      BY <1>1, <2>1, LeafIs
  <2>3. it # End
    <3>1. l = r => i # n
        BY <2>1, <2>2
    <3> QED
        BY <1>2, <2>1, <3>1
  <2>4. KeyAt(it) = p
    <3>1. it[1] = l /\ it[2] = i
        OBVIOUS
    <3> QED
        BY <2>1, <2>2, <3>1 DEF KeyAt
  <2>5. lo[root] <= p /\ p < hi[root]
      BY ONLY <1>3, <2>2
  <2>6. i \in Nat
      BY <2>1, <2>2
  <2> QED
      BY <1>3, <2>1, <2>2, <2>3, <2>4, <2>5, <2>6
<1> QED
    BY <1>4, <1>5

LEMMA StandsOnce ==
  ASSUME NEW lo, NEW hi, NEW h, NEW up, Linked(lo, hi, h, up), NEW p, NEW it, StandsAt(it, hi, p), NEW to, StandsAt(to, hi, p)
  PROVE  it = to
<1>1. Tree(node, root, lo, hi, h, up) /\ Skeleton(node, root, lo, hi, h, up)
    BY DEF Linked, Tree
<1>2. CASE p = hi[root]
    BY <1>2, StandsIs
<1>3. CASE p # hi[root]
  <2> PICK l, i, m, j : l = it[1] /\ i = it[2] /\ m = to[1] /\ j = to[2]
      OBVIOUS
  <2>1. /\ l \in Leaves(node) /\ i \in 1 .. Len(node[l].keys) /\ it = <<l, i>> /\ p = node[l].keys[i]
        /\ m \in Leaves(node) /\ j \in 1 .. Len(node[m].keys) /\ to = <<m, j>> /\ p = node[m].keys[j]
      BY <1>3 DEF StandsAt
  <2>2. p \in Int /\ Covers(lo, hi, l, p) /\ Covers(lo, hi, m, p)
      BY <1>1, <2>1, LeafIs DEF Covers
  <2>3. l = m
      BY <1>1, <2>1, <2>2, LeavesDiffer
  <2>4. /\ Len(node[l].keys) \in Nat
        /\ \A g, g2 \in 1 .. Len(node[l].keys) : g < g2 => node[l].keys[g] < node[l].keys[g2]
      BY <1>1, <2>1, LeafIs
  <2>5. ~(i < j) /\ ~(j < i)
    <3>1. i \in 1 .. Len(node[l].keys) /\ j \in 1 .. Len(node[l].keys) /\ node[l].keys[i] = p /\ node[l].keys[j] = p
        BY <2>1, <2>3
    <3> QED
        BY ONLY <2>2, <2>4, <3>1
  <2> QED
      BY <2>1, <2>3, <2>4, <2>5
<1> QED
    BY <1>2, <1>3

\* The place of entry i of leaf l, or where to go on if there is none.
Entry(l, i) ==
  IF i <= Len(node[l].keys) THEN <<l, i>>
  ELSE IF node[l].next # Null THEN <<node[l].next, 1>> ELSE <<l, i>>

\* An iterator at it has the keys from b on ahead of it, those below behind it.
Cuts(it, hi, b) ==
  \E q : StandsAt(it, hi, q) /\ b <= q /\ \A c \in Held(node) : b <= c <=> q <= c

LEMMA NextLeafIs ==
  ASSUME NEW lo, NEW hi, NEW h, NEW up, Linked(lo, hi, h, up), NEW l \in Leaves(node),
         NEW i, i = Len(node[l].keys) + 1
  PROVE  StandsAt(Entry(l, i), hi, hi[l])
<1>1. Skeleton(node, root, lo, hi, h, up) /\ Tree(node, root, lo, hi, h, up) /\ NextIs(node, root, lo, hi, l)
    BY DEF Linked, Tree, Chain
<1>2. Len(node[l].keys) \in Nat /\ lo[l] < hi[l] /\ lo[root] <= lo[l] /\ lo[l] \in Int /\ hi[l] \in Int /\ lo[root] \in Int
    BY <1>1, LeafIs
<1> PICK m : m = node[l].next
    OBVIOUS
<1>3. Entry(l, i) = IF m # Null THEN <<m, 1>> ELSE <<l, i>>
    BY <1>2 DEF Entry
<1>4. CASE m = Null
  <2>1. l = Rightmost /\ End = <<l, i>> /\ hi[l] = hi[root]
      BY <1>4, EndIs DEF IsLast
  <2> QED
      BY <1>3, <1>4, <2>1 DEF StandsAt
<1>5. CASE m # Null
  <2>1. m \in Leaves(node) /\ lo[m] = hi[l]
      BY <1>1, <1>5 DEF NextIs
  <2>2. lo[m] # lo[root] /\ m # root
      BY <1>2, <2>1
  <2>3. LeafFits(node, root, lo, hi, m) /\ Len(node[m].keys) \in Nat
      BY <1>1, <2>1, LeafIs DEF Tree
  <2>4. 1 \in 1 .. Len(node[m].keys) /\ node[m].keys[1] = hi[l]
      BY <2>1, <2>2, <2>3 DEF LeafFits
  <2>5. Entry(l, i) = <<m, 1>>
      BY <1>3, <1>5
  <2>6. Entry(l, i)[1] = m /\ Entry(l, i)[2] = 1
      BY <2>5
  <2> QED
      BY <2>1, <2>4, <2>5, <2>6 DEF StandsAt
<1> QED
    BY <1>4, <1>5

LEMMA EntryCuts ==
  ASSUME NEW lo, NEW hi, NEW h, NEW up, Linked(lo, hi, h, up), NEW l \in Leaves(node),
         NEW b \in Int, lo[l] <= b, b <= hi[l], NEW i \in 1 .. Len(node[l].keys) + 1,
         \A j \in 1 .. Len(node[l].keys) : (j < i => node[l].keys[j] < b) /\ (j >= i => b <= node[l].keys[j])
  PROVE  Cuts(Entry(l, i), hi, b)
<1> PICK keys, n : keys = node[l].keys /\ n = Len(keys)
    OBVIOUS
<1>1. Tree(node, root, lo, hi, h, up)
    BY DEF Linked
<1>2. /\ n \in Nat /\ lo[l] \in Int /\ hi[l] \in Int
      /\ \A j \in 1 .. n : keys[j] \in Int /\ lo[l] <= keys[j] /\ keys[j] < hi[l]
      /\ \A g, j \in 1 .. n : g < j => keys[g] < keys[j]
    BY <1>1, LeafIs
<1>3. ASSUME NEW c \in Held(node), b <= c PROVE hi[l] <= c \/ \E j \in 1 .. n : j >= i /\ keys[j] = c
  <2>1. c \in Int
      BY SmallFacts DEF Held
  <2>2. CASE c < hi[l]
    <3>1. Covers(lo, hi, l, c)
        BY <1>2, <1>3, <2>1, <2>2 DEF Covers
    <3>2. PICK j \in 1 .. n : keys[j] = c
        BY <1>1, <3>1, HeldInLeaf DEF Has
    <3>3. ~(j < i)
        BY <1>2, <1>3, <2>1, <3>2
    <3> QED
        BY <3>2, <3>3
  <2>3. CASE ~(c < hi[l])
      BY <1>2, <2>1, <2>3
  <2> QED
      BY <2>2, <2>3
<1>4. CASE i <= n
  <2> PICK q : q = keys[i]
      OBVIOUS
  <2>1. i \in 1 .. n /\ q \in Int /\ b <= q /\ q < hi[l]
      BY <1>2, <1>4
  <2>2. Entry(l, i) = <<l, i>>
      BY <1>4 DEF Entry
  <2>3. StandsAt(Entry(l, i), hi, q)
    <3>1. Entry(l, i)[1] = l /\ Entry(l, i)[2] = i
        BY <2>2
    <3> QED
        BY <2>1, <2>2, <3>1 DEF StandsAt
  <2>4. ASSUME NEW c \in Held(node) PROVE b <= c <=> q <= c
    <3>1. c \in Int
        BY SmallFacts DEF Held
    <3>2. ASSUME NEW j \in 1 .. n, j >= i PROVE q <= keys[j]
        BY <1>2, <2>1, <3>2
    <3>3. b <= c => q <= c
        BY <1>2, <1>3, <2>1, <3>1, <3>2
    <3> QED
        BY <2>1, <3>1, <3>3
  <2> QED
      BY <2>1, <2>3, <2>4 DEF Cuts
<1>5. CASE ~(i <= n)
  <2>1. i = n + 1
      BY <1>2, <1>5
  <2>2. StandsAt(Entry(l, i), hi, hi[l])
      BY <2>1, NextLeafIs
  <2>3. ASSUME NEW c \in Held(node) PROVE b <= c <=> hi[l] <= c
    <3>1. c \in Int
        BY SmallFacts DEF Held
    <3>2. ~ \E j \in 1 .. n : j >= i /\ keys[j] = c
        BY <1>2, <2>1
    <3>3. b <= c => hi[l] <= c
        BY <1>3, <3>2
    <3> QED
        BY <1>2, <3>1, <3>3
  <2> QED
      BY <2>2, <2>3 DEF Cuts
<1> QED
    BY <1>4, <1>5

\* The place before all others.
IsFirst(it, lo) == it[1] \in Leaves(node) /\ it[2] = 1 /\ lo[it[1]] = lo[root] /\ node[it[1]].prev = Null

LEMMA BeginCuts ==
  ASSUME NEW lo, NEW hi, NEW h, NEW up, Linked(lo, hi, h, up)
  PROVE  Cuts(Begin, hi, lo[root]) /\ IsFirst(Begin, lo)
<1> PICK l : l = Leftmost(node, root)
    OBVIOUS
<1>1. Tree(node, root, lo, hi, h, up) /\ Skeleton(node, root, lo, hi, h, up)
    BY DEF Linked, Tree
<1>2. l \in Leaves(node) /\ lo[l] = lo[root]
    BY <1>1, LeftmostIs DEF Skeleton
<1>3. Begin = <<l, 1>>
    BY DEF Begin
<1>4. /\ Len(node[l].keys) \in Nat /\ lo[l] \in Int /\ hi[l] \in Int /\ lo[l] < hi[l]
      /\ \A j \in 1 .. Len(node[l].keys) : lo[l] <= node[l].keys[j]
    BY <1>1, <1>2, LeafIs
<1>5. 1 \in 1 .. Len(node[l].keys) + 1
    BY <1>4
<1>6. \A j \in 1 .. Len(node[l].keys) : ~(j < 1)
    BY <1>4
<1>7. Cuts(Entry(l, 1), hi, lo[root])
    BY <1>2, <1>4, <1>5, <1>6, EntryCuts
<1>8. Entry(l, 1) = <<l, 1>>
  <2>1. CASE 1 <= Len(node[l].keys)
      BY <2>1 DEF Entry
  <2>2. CASE ~(1 <= Len(node[l].keys))
    <3>1. l = root
        BY <1>1, <1>2, <1>4, <2>2 DEF Tree, LeafFits
    <3>2. node[l].next = Null
        BY <1>2, <3>1 DEF Linked, Chain, NextIs
    <3> QED
        BY <3>2 DEF Entry
  <2> QED
      BY <2>1, <2>2
<1>9. node[l].prev = Null
    BY <1>2 DEF Linked, Chain, PrevIs
<1> QED
    BY <1>2, <1>3, <1>7, <1>8, <1>9 DEF IsFirst

\* The place of the first key above k, and what is before it in its leaf.
LEMMA FirstAboveIs ==
  ASSUME NEW keys, NEW a, NEW b, Ordered(keys, a, b), NEW k \in Int
  PROVE  /\ FirstAbove(keys, k) \in 1 .. Len(keys) + 1
         /\ \A i \in 1 .. Len(keys) : (i < FirstAbove(keys, k) => keys[i] < k + 1) /\ (i >= FirstAbove(keys, k) => k + 1 <= keys[i])
<1>1. PICK j : j = k + 1
    OBVIOUS
<1>2. \A i \in 1 .. Len(keys) : keys[i] \in Int /\ DOMAIN keys = 1 .. Len(keys)
    BY OrderedIs
<1>3. {i \in DOMAIN keys : keys[i] <= k} = {i \in DOMAIN keys : keys[i] < j}
  <2>1. DOMAIN keys = 1 .. Len(keys)
      BY OrderedIs
  <2> QED
      BY <1>1, <1>2, <2>1
<1>4. FirstAbove(keys, k) = FirstAtLeast(keys, j)
    BY <1>3 DEF FirstAbove, FirstAtLeast
<1>5. /\ FirstAtLeast(keys, j) \in 1 .. Len(keys) + 1
      /\ \A i \in 1 .. Len(keys) : (i < FirstAtLeast(keys, j) => keys[i] < j) /\ (i >= FirstAtLeast(keys, j) => j <= keys[i])
  <2>1. Ordered(keys, a, b) /\ j \in Int
      BY <1>1
  <2> QED
      BY ONLY <2>1, PlaceIs
<1> QED
    BY <1>1, <1>4, <1>5

LEMMA UpperBoundCuts ==
  ASSUME NEW lo, NEW hi, NEW h, NEW up, Linked(lo, hi, h, up), NEW k \in Keys
  PROVE  Cuts(UpperBound(k), hi, k + 1)
<1> PICK l, i, b : l = FindLeaf(k) /\ i = FirstAbove(node[FindLeaf(k)].keys, k) /\ b = k + 1
    OBVIOUS
<1>1. Tree(node, root, lo, hi, h, up) /\ k \in Int
    BY SmallFacts DEF Linked
<1>2. l \in Leaves(node) /\ Covers(lo, hi, l, k)
    BY <1>1, FindIs DEF FoundIn
<1>3. Ordered(node[l].keys, lo[l], hi[l]) /\ Len(node[l].keys) \in Nat /\ lo[l] \in Int /\ hi[l] \in Int
    BY <1>1, <1>2, LeafIs
<1>4. /\ i \in 1 .. Len(node[l].keys) + 1
      /\ \A j \in 1 .. Len(node[l].keys) : (j < i => node[l].keys[j] < b) /\ (j >= i => b <= node[l].keys[j])
    BY <1>1, <1>3, FirstAboveIs
<1>5. b \in Int /\ lo[l] <= b /\ b <= hi[l]
    BY <1>1, <1>2, <1>3 DEF Covers
<1>6. Cuts(Entry(l, i), hi, b)
    BY <1>2, <1>4, <1>5, EntryCuts
<1>7. UpperBound(k) = Entry(l, i)
  <2>1. UpperBound(k) = IF i <= Len(node[l].keys) THEN <<l, i>>
                        ELSE IF node[l].next # Null THEN <<node[l].next, 1>> ELSE End
      BY DEF UpperBound
  <2>2. ASSUME ~(i <= Len(node[l].keys)), node[l].next = Null PROVE End = <<l, i>>
    <3>1. i = Len(node[l].keys) + 1
        BY <1>3, <1>4, <2>2
    <3> QED
        BY <1>2, <2>2, <3>1, EndIs
  <2> QED
      BY <2>1, <2>2 DEF Entry
<1> QED
    BY <1>6, <1>7

\* One step forth.
LEMMA IncrementCuts ==
  ASSUME NEW lo, NEW hi, NEW h, NEW up, Linked(lo, hi, h, up), NEW it, NEW p, StandsAt(it, hi, p), it # End
  PROVE  Cuts(Increment(it), hi, p + 1)
<1> PICK l, i, g, b : l = it[1] /\ i = it[2] /\ g = it[2] + 1 /\ b = p + 1
    OBVIOUS
<1>1. l \in Leaves(node) /\ i \in 1 .. Len(node[l].keys) /\ it = <<l, i>> /\ p = node[l].keys[i]
    BY DEF StandsAt
<1> PICK keys, n : keys = node[l].keys /\ n = Len(keys)
    OBVIOUS
<1>2. /\ n \in Nat /\ lo[l] \in Int /\ hi[l] \in Int
      /\ \A j \in 1 .. n : keys[j] \in Int /\ lo[l] <= keys[j] /\ keys[j] < hi[l]
      /\ \A f, j \in 1 .. n : f < j => keys[f] < keys[j]
  <2>1. Tree(node, root, lo, hi, h, up)
      BY DEF Linked
  <2>2. /\ Len(node[l].keys) \in Nat /\ lo[l] \in Int /\ hi[l] \in Int
        /\ \A j \in 1 .. Len(node[l].keys) :
             node[l].keys[j] \in Int /\ lo[l] <= node[l].keys[j] /\ node[l].keys[j] < hi[l]
        /\ \A f, j \in 1 .. Len(node[l].keys) : f < j => node[l].keys[f] < node[l].keys[j]
      BY ONLY <1>1, <2>1, LeafIs
  <2> QED
      BY <2>2
<1>3. b \in Int /\ lo[l] <= b /\ b <= hi[l] /\ g \in 1 .. n + 1 /\ g = i + 1 /\ i \in 1 .. n /\ b = p + 1
  <2>1. i \in 1 .. n /\ p \in Int /\ lo[l] <= p /\ p < hi[l]
      BY <1>1, <1>2
  <2>2. g = i + 1 /\ b = p + 1
      OBVIOUS
  <2> QED
      BY ONLY <1>2, <2>1, <2>2
<1>4. ASSUME NEW j \in 1 .. n PROVE (j < g => keys[j] < b) /\ (j >= g => b <= keys[j])
  <2>1. j = i \/ j < i \/ i < j
      BY <1>1, <1>2
  <2>2. keys[j] \in Int /\ p \in Int /\ (j < i => keys[j] < p) /\ (i < j => p < keys[j]) /\ (j = i => keys[j] = p)
      BY <1>1, <1>2
  <2> PICK v : v = keys[j]
      OBVIOUS
  <2>3. v \in Int /\ p \in Int /\ (j < i => v < p) /\ (i < j => p < v) /\ (j = i => v = p)
      BY <2>2
  <2>4. (j < g => v < b) /\ (j >= g => b <= v)
      BY ONLY j \in 1 .. n, <1>2, <1>3, <2>1, <2>3
  <2> QED
      BY <2>4
<1>5. Cuts(Entry(l, g), hi, b)
    BY <1>1, <1>3, <1>4, EntryCuts
<1>6. Increment(it) = Entry(l, g)
  <2>1. Increment(it) = IF i = n /\ node[l].next # Null THEN <<node[l].next, 1>> ELSE <<l, g>>
      BY DEF Increment
  <2>2. g <= n <=> i # n
      BY <1>1, <1>2, <1>3
  <2> QED
      BY <2>1, <2>2 DEF Entry
<1> QED
    BY <1>5, <1>6

-----------------------------------------------------------------------------
(* Iterating.                                                              *)

LEMMA NothingListed == Lists(<<>>, {})
<1>1. Len(<<>>) = 0 /\ DOMAIN <<>> = {} /\ Cardinality({}) = 0
    BY FS_EmptySet
<1>2. ToSet(<<>>) = {}
    BY <1>1 DEF ToSet
<1> QED
    BY <1>1, <1>2 DEF Lists

LEMMA OneMoreListed ==
  ASSUME NEW S \in SUBSET Keys, NEW seq \in Seq(Keys), Lists(seq, S), NEW p \in Keys, \A s \in S : s < p
  PROVE  Lists(Append(seq, p), S \cup {p}) /\ Append(seq, p) \in Seq(Keys) /\ Len(Append(seq, p)) = Len(seq) + 1
<1> PICK n, w : n = Len(seq) /\ w = Append(seq, p)
    OBVIOUS
<1>1. n \in Nat /\ DOMAIN seq = 1 .. n /\ \A i \in 1 .. n : seq[i] \in Keys
    BY ElementOfSeq, LenProperties
<1>2. w \in Seq(Keys) /\ Len(w) = n + 1 /\ DOMAIN w = 1 .. n + 1 /\ w[n + 1] = p /\ \A i \in 1 .. n : w[i] = seq[i]
  <2>1. w \in Seq(Keys) /\ Len(w) = n + 1
      BY AppendProperties
  <2>2. \A i \in 1 .. n + 1 : w[i] = IF i <= n THEN seq[i] ELSE p
      BY AppendProperties
  <2>3. n + 1 \in 1 .. n + 1 /\ ~(n + 1 <= n) /\ \A i \in 1 .. n : i \in 1 .. n + 1 /\ i <= n
      BY <1>1
  <2>4. DOMAIN w = 1 .. n + 1
      BY <2>1, LenProperties
  <2> QED
      BY <2>1, <2>2, <2>3, <2>4
<1>3. Len(seq) = Cardinality(S) /\ ToSet(seq) = S /\ \A i \in 1 .. n - 1 : seq[i] < seq[i + 1]
    BY DEF Lists
<1>4. \A i \in 1 .. n : seq[i] \in S
    BY <1>1, <1>3 DEF ToSet
<1>5. ToSet(w) = S \cup {p}
  <2>1. \A s \in S : \E i \in 1 .. n : seq[i] = s
      BY <1>1, <1>3 DEF ToSet
  <2>2. \A i \in 1 .. n + 1 : i \in 1 .. n \/ i = n + 1
      BY <1>1
  <2>3. \A i \in 1 .. n + 1 : w[i] \in S \cup {p}
      BY <1>2, <1>4, <2>2
  <2>4. \A s \in S \cup {p} : \E i \in 1 .. n + 1 : w[i] = s
    <3>1. n + 1 \in 1 .. n + 1 /\ \A i \in 1 .. n : i \in 1 .. n + 1
        BY <1>1
    <3> QED
        BY <1>2, <2>1, <3>1
  <2> QED
      BY <1>2, <2>3, <2>4 DEF ToSet
<1>6. Cardinality(S \cup {p}) = n + 1
  <2>1. p \notin S
    <3>1. p \in Int
        BY SmallFacts
    <3> QED
        BY <3>1
  <2>2. IsFiniteSet(S)
      BY KeysAssumption, FS_Subset
  <2> QED
      BY <1>3, <2>1, <2>2, FS_AddElement
<1>7. ASSUME NEW i \in 1 .. (n + 1) - 1 PROVE w[i] < w[i + 1]
  <2>1. CASE i = n
      BY <1>2, <1>4, <1>7, <2>1
  <2>2. CASE i # n
    <3>1. i \in 1 .. n - 1 /\ i \in 1 .. n /\ i + 1 \in 1 .. n
        BY <1>1, <2>2
    <3> QED
        BY <1>2, <1>3, <3>1
  <2> QED
      BY <2>1, <2>2
<1> QED
    BY <1>2, <1>5, <1>6, <1>7 DEF Lists

KeysIn(a, b) == {c \in Held(node) : a <= c /\ c < b}

\* What a scan from a, and up to b, has done.
Passed(w, hi, a, b) ==
  /\ w \in [at : NodeIds \X Nat, seen : Seq(Keys)]
  /\ \E q : StandsAt(w.at, hi, q) /\ a <= q /\ q <= b /\ Lists(w.seen, KeysIn(a, q))

GoOn(w, to) ==
  CASE w.at = to -> w
    [] w.at # to /\ KeyAt(w.at) = Null -> [at |-> to, seen |-> Append(w.seen, Null)]
    [] OTHER -> [at |-> Increment(w.at), seen |-> Append(w.seen, KeyAt(w.at))]

LEMMA GoesOn ==
  ASSUME NEW lo, NEW hi, NEW h, NEW up, Linked(lo, hi, h, up), NEW to, NEW a \in Int, NEW b, StandsAt(to, hi, b),
         NEW w, Passed(w, hi, a, b)
  PROVE  /\ Passed(GoOn(w, to), hi, a, b)
         /\ w.at = to => GoOn(w, to) = w
         /\ w.at # to => Len(GoOn(w, to).seen) = Len(w.seen) + 1
<1>1. CASE w.at = to
    BY <1>1 DEF GoOn
<1>2. CASE w.at # to
  <2> PICK it, seen : it = w.at /\ seen = w.seen
      OBVIOUS
  <2>1. PICK q : StandsAt(it, hi, q) /\ a <= q /\ q <= b /\ Lists(seen, KeysIn(a, q))
      BY DEF Passed
  <2>2. seen \in Seq(Keys)
      BY DEF Passed
  <2>3. /\ q \in Int /\ q <= hi[root] /\ hi[root] \in Int /\ (it = End <=> q = hi[root])
        /\ it # End => q \in Held(node) /\ KeyAt(it) = q
      BY <2>1, StandsIs
  <2>4. b \in Int /\ b <= hi[root] /\ (to = End <=> b = hi[root]) /\ (to # End => b \in Held(node))
      BY StandsIs
  <2>5. q # b
      BY <1>2, <2>1, StandsOnce
  <2>6. q < b /\ it # End /\ q \in Held(node) /\ KeyAt(it) = q
      BY <2>1, <2>3, <2>4, <2>5
  <2>7. q \in Keys /\ q # Null
      BY <2>6, SmallFacts DEF Held
  <2> PICK z, u : z = Increment(it) /\ u = Append(seen, q)
      OBVIOUS
  <2>8. GoOn(w, to) = [at |-> z, seen |-> u]
      BY <1>2, <2>6, <2>7 DEF GoOn
  <2>9. Cuts(z, hi, q + 1)
      BY <2>1, <2>6, IncrementCuts
  <2>10. PICK v : StandsAt(z, hi, v) /\ q + 1 <= v /\ \A c \in Held(node) : q + 1 <= c <=> v <= c
      BY <2>9 DEF Cuts
  <2>11. v \in Int /\ v <= hi[root] /\ z \in NodeIds \X Nat
      BY <2>10, StandsIs
  <2>12. a <= v /\ v <= b
    <3>1. to # End => v <= b
        BY <2>3, <2>4, <2>6, <2>10
    <3> QED
        BY <2>1, <2>3, <2>4, <2>10, <2>11, <3>1
  <2>13. \A c \in Held(node) : c \in Int
      BY SmallFacts DEF Held
  <2>14. KeysIn(a, v) = KeysIn(a, q) \cup {q}
    <3>1. ASSUME NEW c \in Held(node) PROVE c < v <=> c < q \/ c = q
        BY <2>3, <2>10, <2>11, <2>13
    <3> QED
        BY <2>1, <2>6, <3>1 DEF KeysIn
  <2>15. KeysIn(a, q) \in SUBSET Keys /\ \A s \in KeysIn(a, q) : s < q
      BY DEF KeysIn, Held
  <2>16. Lists(u, KeysIn(a, v)) /\ u \in Seq(Keys) /\ Len(u) = Len(seen) + 1
      BY <2>1, <2>2, <2>7, <2>14, <2>15, OneMoreListed
  <2>17. Passed([at |-> z, seen |-> u], hi, a, b)
      BY <2>10, <2>11, <2>12, <2>16 DEF Passed
  <2> QED
      BY <1>2, <2>8, <2>16, <2>17
<1> QED
    BY <1>1, <1>2

\* An iteration reports the keys from a on and below b.
LEMMA ScanIs ==
  ASSUME NEW lo, NEW hi, NEW h, NEW up, Linked(lo, hi, h, up), NEW from, NEW a, StandsAt(from, hi, a),
         NEW to, NEW b, StandsAt(to, hi, b), a <= b
  PROVE  Lists(Scan(from, to), KeysIn(a, b)) /\ Scan(from, to) \in Seq(Keys)
<1> DEFINE w0 == [at |-> from, seen |-> <<>>]
           X == {w \in [at : NodeIds \X Nat, seen : Seq(Keys)] : Passed(w, hi, a, b)}
           go == [w \in X |-> GoOn(w, to)]
           Trips(f) == f = [d \in Nat |-> IF d = 0 THEN w0 ELSE GoOn(f[d - 1], to)]
<1>1. a \in Int /\ b \in Int /\ from \in NodeIds \X Nat
    BY StandsIs
<1>2. w0 \in X
  <2>1. KeysIn(a, a) = {}
    <3>1. \A c \in Held(node) : c \in Int
        BY SmallFacts DEF Held
    <3> QED
        BY <1>1, <3>1 DEF KeysIn
  <2>2. Lists(<<>>, KeysIn(a, a))
      BY <2>1, NothingListed
  <2>3. w0 \in [at : NodeIds \X Nat, seen : Seq(Keys)] /\ w0.at = from /\ w0.seen = <<>>
      BY <1>1
  <2>4. a <= a
      BY <1>1
  <2> HIDE DEF w0
  <2>5. Passed(w0, hi, a, b)
      BY <2>2, <2>3, <2>4 DEF Passed
  <2> QED
      BY <2>3, <2>5
<1>3. ASSUME NEW w, w \in X
      PROVE  /\ GoOn(w, to) \in X /\ (w.at = to => GoOn(w, to) = w)
             /\ w.at # to => Len(GoOn(w, to).seen) = Len(w.seen) + 1
  <2>1. Passed(w, hi, a, b)
      BY <1>3
  <2>2. Passed(GoOn(w, to), hi, a, b)
      BY <1>1, <2>1, GoesOn
  <2>3. GoOn(w, to) \in X
      BY <2>2 DEF Passed
  <2> QED
      BY <1>1, <2>1, <2>3, GoesOn
<1> HIDE DEF w0
<1>4. go \in [X -> X] /\ \A w \in X : go[w] = GoOn(w, to)
    BY <1>3
<1> HIDE DEF go, X
<1>5. PICK f0 : f0 \in [Nat -> X] /\ f0 = [d \in Nat |-> IF d = 0 THEN w0 ELSE go[f0[d - 1]]]
  <2>1. \E f : Iterates(f, X, w0, go)
      BY ONLY <1>2, <1>4, DescentExists
  <2> QED
      BY ONLY <2>1, Zenon DEF Iterates
<1>6. Trips(f0)
  <2>1. \A d \in Nat : d # 0 => f0[d - 1] \in X
      BY <1>5
  <2>2. \A d \in Nat : f0[d] = IF d = 0 THEN w0 ELSE go[f0[d - 1]]
      BY <1>5, Zenon
  <2>3. \A d \in Nat : f0[d] = IF d = 0 THEN w0 ELSE GoOn(f0[d - 1], to)
      BY <1>4, <2>1, <2>2
  <2> QED
      BY <1>5, <2>3
<1> DEFINE Trip == CHOOSE f : Trips(f)
<1>7. Trips(Trip)
    BY <1>6, Zenon
<1>8. Scan(from, to) = Trip[Cardinality(Keys) + 1].seen
    BY Zenon DEF Scan, GoOn, w0
<1> HIDE DEF Trip
<1>9. Trip[0] = w0 /\ \A d \in Nat : Trip[d + 1] = GoOn(Trip[d], to)
  <2>1. \A d \in Nat : Trip[d] = IF d = 0 THEN w0 ELSE GoOn(Trip[d - 1], to)
      BY <1>7
  <2>2. \A d \in Nat : d + 1 \in Nat /\ d + 1 # 0 /\ (d + 1) - 1 = d
      OBVIOUS
  <2> HIDE DEF Trips
  <2> QED
      BY <2>1, <2>2
<1> HIDE DEF Trips
<1>10. \A d \in Nat : Trip[d] \in X /\ (Trip[d].at = to \/ Len(Trip[d].seen) = d)
  <2> DEFINE T == {d \in Nat : Trip[d] \in X /\ (Trip[d].at = to \/ Len(Trip[d].seen) = d)}
  <2>1. 0 \in T
    <3>1. Len(w0.seen) = 0
        BY DEF w0
    <3> QED
        BY <1>2, <1>9, <3>1
  <2>2. ASSUME NEW d \in Nat, d \in T PROVE d + 1 \in T
    <3> PICK w, v : w = Trip[d] /\ v = GoOn(w, to)
        OBVIOUS
    <3>1. w \in X /\ (w.at = to \/ Len(w.seen) = d) /\ Trip[d + 1] = v
        BY <1>9, <2>2
    <3>2. v \in X /\ (w.at = to => v = w) /\ (w.at # to => Len(v.seen) = Len(w.seen) + 1)
        BY <1>3, <3>1
    <3>3. v.at = to \/ Len(v.seen) = d + 1
        BY <3>1, <3>2
    <3> QED
        BY <3>1, <3>2, <3>3
  <2> HIDE DEF T
  <2>3. \A d \in Nat : d \in T
      BY <2>1, <2>2, AllNumbers
  <2> QED
      BY <2>3 DEF T
<1> PICK N, w : N = Cardinality(Keys) + 1 /\ w = Trip[Cardinality(Keys) + 1]
    OBVIOUS
<1>11. Cardinality(Keys) \in Nat /\ N \in Nat /\ N > Cardinality(Keys)
    BY KeysAssumption, FS_CardinalityType
<1>12. w \in X /\ (w.at = to \/ Len(w.seen) = N)
    BY <1>10, <1>11
<1>13. w.seen \in Seq(Keys) /\ \E q : StandsAt(w.at, hi, q) /\ a <= q /\ q <= b /\ Lists(w.seen, KeysIn(a, q))
    BY <1>12 DEF X, Passed
<1>14. PICK q : StandsAt(w.at, hi, q) /\ a <= q /\ q <= b /\ Lists(w.seen, KeysIn(a, q))
    BY <1>13
<1>15. Len(w.seen) <= Cardinality(Keys)
  <2>1. KeysIn(a, q) \in SUBSET Keys
      BY DEF KeysIn, Held
  <2>2. Cardinality(KeysIn(a, q)) <= Cardinality(Keys)
      BY <2>1, KeysAssumption, FS_Subset
  <2> QED
      BY <1>14, <2>2 DEF Lists
<1>16. w.at = to
    BY <1>11, <1>12, <1>15
<1>17. q = b
  <2>1. q \in Int /\ q <= hi[root] /\ (w.at = End <=> q = hi[root]) /\ (w.at # End => KeyAt(w.at) = q)
      BY <1>14, StandsIs
  <2>2. b \in Int /\ b <= hi[root] /\ (to = End <=> b = hi[root]) /\ (to # End => KeyAt(to) = b)
      BY StandsIs
  <2> QED
      BY <1>16, <2>1, <2>2
<1> QED
    BY <1>8, <1>13, <1>14, <1>17

\* The keys held from p on, and those below p.
HeldFrom(p) == {c \in Held(node) : p <= c}
HeldBelow(p) == {c \in Held(node) : c < p}

LEMMA HeldInRoot ==
  ASSUME NEW lo, NEW hi, NEW h, NEW up, Linked(lo, hi, h, up), NEW c \in Held(node)
  PROVE  c \in Int /\ lo[root] <= c /\ c < hi[root]
<1>1. PICK l \in Leaves(node) : Has(node[l].keys, c)
    BY DEF Held
<1>2. PICK i \in 1 .. Len(node[l].keys) : node[l].keys[i] = c
    BY <1>1 DEF Has
<1>3. /\ c \in Int /\ lo[l] <= c /\ c < hi[l] /\ lo[l] \in Int /\ hi[l] \in Int
      /\ lo[root] \in Int /\ hi[root] \in Int /\ lo[root] <= lo[l] /\ hi[l] <= hi[root]
    BY <1>2, LeafIs DEF Linked
<1> QED
    BY ONLY <1>3

LEMMA AtLeastIs ==
  ASSUME NEW lo, NEW hi, NEW h, NEW up, Linked(lo, hi, h, up), NEW it, NEW p, StandsAt(it, hi, p)
  PROVE  AtLeast(it, HeldFrom(p)) /\ (it = End <=> HeldFrom(p) = {})
<1>1. p \in Int /\ (it = End <=> p = hi[root]) /\ (it # End => p \in Held(node) /\ KeyAt(it) = p) /\ hi[root] \in Int
    BY StandsIs
<1>2. CASE it = End
  <2>1. \A c \in Held(node) : ~(p <= c)
      BY <1>1, <1>2, HeldInRoot
  <2>2. HeldFrom(p) = {}
      BY <2>1 DEF HeldFrom
  <2> QED
      BY <1>2, <2>2 DEF AtLeast
<1>3. CASE it # End
  <2>1. KeyAt(it) \in HeldFrom(p) /\ \A c \in HeldFrom(p) : KeyAt(it) <= c
      BY <1>1, <1>3 DEF HeldFrom
  <2>2. \A c \in HeldFrom(p) : c \in Int /\ KeyAt(it) \in Int
      BY <1>1, <1>3, HeldInRoot DEF HeldFrom
  <2> QED
      BY <1>3, <2>1, <2>2 DEF AtLeast
<1> QED
    BY <1>2, <1>3

\* A place is behind the smaller keys of its leaf.
LEMMA PlacedIs ==
  ASSUME NEW lo, NEW hi, NEW h, NEW up, Linked(lo, hi, h, up), NEW it, NEW p, StandsAt(it, hi, p)
  PROVE  \E l \in Leaves(node) : \E i \in 1 .. Len(node[l].keys) + 1 :
           /\ it = <<l, i>> /\ lo[l] <= p /\ p <= hi[l]
           /\ \A j \in 1 .. Len(node[l].keys) : j < i <=> node[l].keys[j] < p
<1>1. Tree(node, root, lo, hi, h, up) /\ p \in Int
    BY StandsIs DEF Linked
<1>2. CASE it = End /\ p = hi[root]
  <2> PICK l, n : l = Rightmost /\ n = Len(node[Rightmost].keys)
      OBVIOUS
  <2>1. l \in Leaves(node) /\ hi[l] = p /\ it = <<l, n + 1>>
      BY <1>2, EndIs DEF IsLast
  <2>2. /\ n \in Nat /\ lo[l] \in Int /\ lo[l] < hi[l] /\ hi[l] \in Int
        /\ \A j \in 1 .. n : node[l].keys[j] < hi[l]
      BY <1>1, <2>1, LeafIs
  <2>3. n + 1 \in 1 .. n + 1 /\ lo[l] <= p /\ p <= hi[l]
      BY <2>1, <2>2
  <2>4. \A j \in 1 .. n : j < n + 1
      BY <2>2
  <2> QED
      BY <2>1, <2>2, <2>3, <2>4
<1>3. CASE ~(it = End /\ p = hi[root])
  <2> PICK l, i, n : l = it[1] /\ i = it[2] /\ n = Len(node[it[1]].keys)
      OBVIOUS
  <2>1. l \in Leaves(node) /\ i \in 1 .. n /\ it = <<l, i>> /\ p = node[l].keys[i]
      BY <1>3 DEF StandsAt
  <2>2. /\ n \in Nat /\ lo[l] \in Int /\ hi[l] \in Int
        /\ \A j \in 1 .. n : node[l].keys[j] \in Int /\ lo[l] <= node[l].keys[j] /\ node[l].keys[j] < hi[l]
        /\ \A j, g \in 1 .. n : j < g => node[l].keys[j] < node[l].keys[g]
      BY <1>1, <2>1, LeafIs
  <2>3. i \in 1 .. n + 1 /\ lo[l] <= p /\ p <= hi[l]
      BY <1>1, <2>1, <2>2
  <2>4. ASSUME NEW j \in 1 .. n PROVE j < i <=> node[l].keys[j] < p
    <3>1. j < i \/ j = i \/ i < j
        BY <2>1, <2>2
    <3>2. /\ node[l].keys[j] \in Int /\ (j < i => node[l].keys[j] < p) /\ (i < j => p < node[l].keys[j])
          /\ j = i => node[l].keys[j] = p
        BY <2>1, <2>2
    <3>3. j \in Int /\ i \in Int
        BY <2>1, <2>2
    <3> QED
        BY <1>1, <3>1, <3>2, <3>3
  <2> QED
      BY <2>1, <2>3, <2>4
<1> QED
    BY <1>2, <1>3

\* A step back within a leaf.
LEMMA DecrementIs ==
  ASSUME NEW lo, NEW hi, NEW h, NEW up, Linked(lo, hi, h, up), NEW it, NEW p, StandsAt(it, hi, p), it[2] > 1
  PROVE  AtGreatest(Decrement(it), HeldBelow(p)) /\ it # Begin /\ KeyAt(Decrement(it)) \in HeldBelow(p)
<1>1. Tree(node, root, lo, hi, h, up) /\ p \in Int
    BY StandsIs DEF Linked
<1>2. PICK l \in Leaves(node) : \E i \in 1 .. Len(node[l].keys) + 1 :
           /\ it = <<l, i>> /\ lo[l] <= p /\ p <= hi[l]
           /\ \A j \in 1 .. Len(node[l].keys) : j < i <=> node[l].keys[j] < p
    BY PlacedIs
<1> PICK keys, n : keys = node[l].keys /\ n = Len(node[l].keys)
    OBVIOUS
<1>3. PICK i \in 1 .. n + 1 :
           /\ it = <<l, i>> /\ lo[l] <= p /\ p <= hi[l]
           /\ \A j \in 1 .. n : j < i <=> keys[j] < p
    BY <1>2
<1>4. /\ n \in Nat /\ DOMAIN keys = 1 .. n /\ lo[l] \in Int /\ hi[l] \in Int
      /\ \A j \in 1 .. n : keys[j] \in Held(node) /\ keys[j] \in Int /\ lo[l] <= keys[j] /\ keys[j] < hi[l]
      /\ \A j, g \in 1 .. n : j < g => keys[j] < keys[g]
    BY <1>1, LeafIs
<1> PICK g, q : g = i - 1 /\ q = keys[i - 1]
    OBVIOUS
<1>5. it[1] = l /\ it[2] = i /\ i > 1
    BY <1>3
<1>6. g \in 1 .. n /\ g < i /\ g = i - 1 /\ i \in Int
    BY <1>3, <1>4, <1>5
<1>7. Decrement(it) = <<l, g>>
    BY <1>5, <1>6 DEF Decrement
<1>8. KeyAt(Decrement(it)) = q /\ q = keys[g]
  <2>1. Decrement(it)[1] = l /\ Decrement(it)[2] = g /\ g \in DOMAIN keys
      BY <1>4, <1>6, <1>7
  <2> QED
      BY <2>1 DEF KeyAt
<1>9. q \in HeldBelow(p) /\ q \in Int /\ lo[l] <= q
    BY <1>3, <1>4, <1>6, <1>8 DEF HeldBelow
<1>10. ASSUME NEW c \in HeldBelow(p) PROVE c <= q
  <2>1. c \in Held(node) /\ c < p /\ c \in Int
      BY HeldInRoot DEF HeldBelow
  <2>2. CASE c < lo[l]
      BY <1>4, <1>9, <2>1, <2>2
  <2>3. CASE ~(c < lo[l])
    <3>1. Covers(lo, hi, l, c)
        BY <1>1, <1>3, <1>4, <2>1, <2>3 DEF Covers
    <3>2. PICK j \in 1 .. n : keys[j] = c
        BY <1>1, <2>1, <3>1, HeldInLeaf DEF Has
    <3>3. j < i
        BY <1>3, <2>1, <3>2
    <3>4. j = g \/ j < g
        BY <1>4, <1>6, <3>3
    <3>5. j < g => keys[j] < keys[g]
        BY <1>4, <1>6
    <3>6. (j = g => c = q) /\ (j < g => c < q)
        BY <1>8, <3>2, <3>5
    <3> QED
        BY <1>9, <2>1, <3>4, <3>6
  <2> QED
      BY <2>2, <2>3
<1>11. it # Begin
  <2>1. Begin[2] = 1
      BY DEF Begin
  <2> QED
      BY <1>5, <1>6, <2>1
<1> QED
    BY <1>8, <1>9, <1>10, <1>11 DEF AtGreatest

\* find stands on the key that is held.
LEMMA FindStands ==
  ASSUME NEW lo, NEW hi, NEW h, NEW up, Linked(lo, hi, h, up), NEW k \in Held(node)
  PROVE  StandsAt(Find(k), hi, k) /\ Find(k) # End
<1>1. Tree(node, root, lo, hi, h, up) /\ k \in Keys /\ k \in Int
    BY SmallFacts DEF Linked, Held
<1> PICK l, i : l = FindLeaf(k) /\ i = LeafFind(node[FindLeaf(k)].keys, k)
    OBVIOUS
<1>2. l \in Leaves(node) /\ Exists(k) /\ Has(node[l].keys, k) /\ Find(k) = <<l, i>>
    BY <1>1, FindIs DEF FoundIn
<1>3. i \in 1 .. Len(node[l].keys) /\ node[l].keys[i] = k
    BY <1>1, <1>2, LeafIs, LeafFindIs
<1>4. Find(k)[1] = l /\ Find(k)[2] = i
    BY <1>2
<1> QED
    BY <1>2, <1>3, <1>4 DEF StandsAt, Exists

\* The keys above k, and the others, are those from and below where upper_bound stands.
LEMMA AboveIs ==
  ASSUME NEW lo, NEW hi, NEW h, NEW up, Linked(lo, hi, h, up), NEW k \in Int, NEW it, Cuts(it, hi, k + 1)
  PROVE  \E q : /\ StandsAt(it, hi, q) /\ lo[root] <= q /\ q <= hi[root]
                /\ {c \in Held(node) : c > k} = HeldFrom(q)
                /\ Held(node) \ {c \in Held(node) : c > k} = HeldBelow(q)
<1>1. PICK q : StandsAt(it, hi, q) /\ k + 1 <= q /\ \A c \in Held(node) : k + 1 <= c <=> q <= c
    BY DEF Cuts
<1>2. q \in Int /\ lo[root] <= q /\ q <= hi[root]
    BY <1>1, StandsIs
<1>3. ASSUME NEW c \in Held(node) PROVE (c > k <=> q <= c) /\ (~(c > k) <=> c < q)
  <2>1. c \in Int /\ (k + 1 <= c <=> q <= c)
      BY <1>1, HeldInRoot
  <2> QED
      BY ONLY k \in Int, <1>2, <2>1
<1>4. {c \in Held(node) : c > k} = HeldFrom(q)
    BY <1>3 DEF HeldFrom
<1>5. Held(node) \ {c \in Held(node) : c > k} = HeldBelow(q)
    BY <1>3 DEF HeldBelow
<1> QED
    BY <1>1, <1>2, <1>4, <1>5

\* What the two kinds of queries report.
LEMMA QueriesList ==
  ASSUME NEW lo, NEW hi, NEW h, NEW up, Linked(lo, hi, h, up), NEW it, NEW q, StandsAt(it, hi, q)
  PROVE  Lists(Scan(Begin, it), HeldBelow(q)) /\ Lists(Scan(it, End), HeldFrom(q))
<1>1. q \in Int /\ lo[root] <= q /\ q <= hi[root] /\ hi[root] \in Int
    BY StandsIs
<1>2. StandsAt(End, hi, hi[root])
    BY DEF StandsAt
<1>3. KeysIn(q, hi[root]) = HeldFrom(q)
    BY HeldInRoot DEF KeysIn, HeldFrom
<1>4. PICK a : StandsAt(Begin, hi, a) /\ \A c \in Held(node) : lo[root] <= c <=> a <= c
    BY BeginCuts DEF Cuts
<1>5. a \in Int /\ a <= hi[root] /\ (Begin # End => a \in Held(node)) /\ (Begin = End <=> a = hi[root])
    BY <1>4, StandsIs
<1>6. a <= q
  <2>1. CASE it = End
      BY <1>1, <1>5, <2>1, StandsIs
  <2>2. CASE it # End
    <3>1. q \in Held(node)
        BY <2>2, StandsIs
    <3> QED
        BY <1>1, <1>4, <3>1
  <2> QED
      BY <2>1, <2>2
<1>7. KeysIn(a, q) = HeldBelow(q)
  <2>1. \A c \in Held(node) : a <= c
      BY <1>4, HeldInRoot
  <2> QED
      BY <2>1 DEF KeysIn, HeldBelow
<1>8. Lists(Scan(Begin, it), KeysIn(a, q))
    BY <1>4, <1>6, ScanIs
<1>9. Lists(Scan(it, End), KeysIn(q, hi[root]))
    BY <1>1, <1>2, ScanIs
<1> QED
    BY <1>3, <1>7, <1>8, <1>9

LEMMA ChainNow == IInv => ChainIsContents
<1> SUFFICES ASSUME IInv PROVE ChainIsContents
    OBVIOUS
<1> PICK lo, hi, h, up : Sound(node, root, contents, size, lo, hi, h, up)
    BY DEF IInv
<1>1. /\ Linked(lo, hi, h, up) /\ Held(node) = contents /\ size = Cardinality(contents)
      /\ Tree(node, root, lo, hi, h, up) /\ Chain(node, root, lo, hi) /\ Skeleton(node, root, lo, hi, h, up)
    BY DEF Sound, Linked, Tree
<1>2. PICK a : StandsAt(Begin, hi, a) /\ \A c \in Held(node) : lo[root] <= c <=> a <= c
    BY <1>1, BeginCuts DEF Cuts
<1>3. HeldFrom(a) = contents
  <2>1. \A c \in Held(node) : a <= c
      BY <1>1, <1>2, HeldInRoot
  <2> QED
      BY <1>1, <2>1 DEF HeldFrom
<1>4. Lists(GetAll, contents)
    BY <1>1, <1>2, <1>3, QueriesList DEF GetAll
<1>5. ASSUME NEW l \in Live, IsLeaf(l), node[l].next # Null PROVE node[node[l].next].prev = l
  <2> PICK m : m = node[l].next
      OBVIOUS
  <2>1. l \in Leaves(node)
      BY <1>5 DEF Live, IsLeaf, Leaves
  <2>2. m \in Leaves(node) /\ lo[m] = hi[l]
      BY <1>1, <1>5, <2>1 DEF Chain, NextIs
  <2>3. lo[l] \in Int /\ hi[l] \in Int /\ lo[root] \in Int /\ lo[l] < hi[l] /\ lo[root] <= lo[l]
      BY <1>1, <2>1, LeafIs
  <2>4. lo[m] # lo[root]
      BY <2>2, <2>3
  <2>5. node[m].prev \in Leaves(node) /\ hi[node[m].prev] = hi[l]
      BY <1>1, <2>2, <2>4 DEF Chain, PrevIs
  <2>6. node[m].prev = l
      BY <1>1, <2>1, <2>5, SameLeaf
  <2> QED
      BY <2>6
<1>6. node[Begin[1]].prev = Null
    BY <1>1, BeginCuts DEF IsFirst
<1>7. node[End[1]].next = Null
  <2>1. End[1] = Rightmost
      BY DEF End
  <2> QED
      BY <1>1, <2>1, EndIs DEF IsLast
<1>8. size = 0 <=> contents = {}
    BY <1>1, HeldIs, FS_EmptySet
<1>9. Begin = End <=> contents = {}
    BY <1>1, <1>2, <1>3, AtLeastIs
<1>10. SeekToFirst = End <=> contents = {}
    BY <1>8, <1>9 DEF SeekToFirst
<1>11. CASE contents = {}
  <2>1. SeekToLast = End
      BY <1>8, <1>11 DEF SeekToLast
  <2> QED
      BY <1>4, <1>5, <1>6, <1>7, <1>10, <1>11, <2>1 DEF ChainIsContents
<1>12. CASE contents # {}
  <2> PICK l, n : l = Rightmost /\ n = Len(node[Rightmost].keys)
      OBVIOUS
  <2>1. l \in Leaves(node) /\ hi[l] = hi[root] /\ End = <<l, n + 1>>
      BY <1>1, EndIs DEF IsLast
  <2>2. n \in Nat /\ lo[root] <= lo[l] /\ lo[l] \in Int /\ lo[root] \in Int /\ hi[root] \in Int
      BY <1>1, <2>1, LeafIs
  <2>3. n >= 1
    <3>1. CASE l = root
      <4>1. PICK c \in contents : TRUE
          BY <1>12
      <4>2. Covers(lo, hi, l, c)
          BY <1>1, <3>1, <4>1, HeldInRoot DEF Covers
      <4>3. Has(node[l].keys, c)
          BY <1>1, <2>1, <4>1, <4>2, HeldInLeaf
      <4> QED
          BY <2>2, <4>3 DEF Has
    <3>2. CASE l # root
        BY <1>1, <2>1, <3>2 DEF Tree, LeafFits
    <3> QED
        BY <3>1, <3>2
  <2>4. End[2] = n + 1 /\ End[2] > 1
      BY <2>1, <2>2, <2>3
  <2>5. StandsAt(End, hi, hi[root])
      BY DEF StandsAt
  <2>6. AtGreatest(Decrement(End), HeldBelow(hi[root])) /\ KeyAt(Decrement(End)) \in HeldBelow(hi[root])
      BY <1>1, <2>4, <2>5, DecrementIs
  <2>7. HeldBelow(hi[root]) = contents
      BY <1>1, HeldInRoot DEF HeldBelow
  <2>8. SeekToLast = Decrement(End)
      BY <1>8, <1>12 DEF SeekToLast
  <2>9. KeyAt(SeekToLast) \in contents /\ \A c \in contents : c <= KeyAt(SeekToLast)
      BY <1>12, <2>6, <2>7, <2>8 DEF AtGreatest
  <2> QED
      BY <1>4, <1>5, <1>6, <1>7, <1>10, <1>12, <2>9 DEF ChainIsContents
<1> QED
    BY <1>11, <1>12

LEMMA UpperBoundsNow == IInv => UpperBoundIsExact
<1> SUFFICES ASSUME IInv PROVE UpperBoundIsExact
    OBVIOUS
<1> PICK lo, hi, h, up : Sound(node, root, contents, size, lo, hi, h, up)
    BY DEF IInv
<1>1. Linked(lo, hi, h, up) /\ Held(node) = contents /\ size = Cardinality(contents) /\ contents \in SUBSET Keys
    BY HeldIs DEF Sound, Linked
<1> SUFFICES ASSUME NEW k \in Keys, NEW above, above = {c \in contents : c > k}
             PROVE  /\ Lists(GetAbove(k), above)
                    /\ Lists(GetEqualBelow(k), contents \ above)
                    /\ CountAbove(k) + CountEqualBelow(k) = CountAll
                    /\ AtLeast(SeekHigher(k), above)
                    /\ UpperBound(k)[2] > 1 => AtGreatest(SeekLowerEq(k), contents \ above)
                    /\ k \in contents =>
                         /\ IsNext(Seek(k)) <=> above # {}
                         /\ AtLeast(NextPlace(Seek(k)), above)
                         /\ Seek(k)[2] > 1 => AtGreatest(Prev(Seek(k)), {c \in contents : c < k})
    BY DEF UpperBoundIsExact
<1>2. k \in Int
    BY SmallFacts
<1> PICK it : it = UpperBound(k)
    OBVIOUS
<1>3. PICK q : StandsAt(it, hi, q) /\ above = HeldFrom(q) /\ contents \ above = HeldBelow(q)
    BY <1>1, <1>2, UpperBoundCuts, AboveIs
<1>4. Lists(GetAbove(k), above) /\ Lists(GetEqualBelow(k), contents \ above)
    BY <1>1, <1>3, QueriesList DEF GetAbove, GetEqualBelow
<1>5. CountAbove(k) + CountEqualBelow(k) = CountAll
  <2>1. CountAbove(k) = Cardinality(above) /\ CountEqualBelow(k) = Cardinality(contents \ above)
      BY <1>4 DEF CountAbove, CountEqualBelow, Distance, GetAbove, GetEqualBelow, Lists
  <2>2. IsFiniteSet(contents) /\ above \in SUBSET contents /\ contents \cap above = above
      BY <1>1, KeysAssumption, FS_Subset
  <2>3. Cardinality(contents \ above) = Cardinality(contents) - Cardinality(above)
      BY <2>2, FS_Difference
  <2>4. Cardinality(contents) \in Nat /\ Cardinality(above) \in Nat
      BY <2>2, FS_Subset, FS_CardinalityType
  <2> QED
      BY <1>1, <2>1, <2>3, <2>4 DEF CountAll
<1>6. AtLeast(SeekHigher(k), above)
    BY <1>1, <1>3, AtLeastIs DEF SeekHigher
<1>7. ASSUME UpperBound(k)[2] > 1 PROVE AtGreatest(SeekLowerEq(k), contents \ above)
  <2>1. AtGreatest(Decrement(it), HeldBelow(q)) /\ it # Begin
      BY <1>1, <1>3, <1>7, DecrementIs
  <2> QED
      BY <1>3, <2>1 DEF SeekLowerEq, StepBack
<1>8. ASSUME k \in contents
      PROVE  /\ IsNext(Seek(k)) <=> above # {}
             /\ AtLeast(NextPlace(Seek(k)), above)
             /\ Seek(k)[2] > 1 => AtGreatest(Prev(Seek(k)), {c \in contents : c < k})
  <2> PICK at, z : at = Seek(k) /\ z = Increment(Seek(k))
      OBVIOUS
  <2>1. StandsAt(at, hi, k) /\ at # End
      BY <1>1, <1>8, FindStands DEF Seek
  <2>2. PICK v : StandsAt(z, hi, v) /\ above = HeldFrom(v)
      BY <1>1, <1>2, <2>1, IncrementCuts, AboveIs
  <2>3. AtLeast(z, above) /\ (z = End <=> above = {})
      BY <1>1, <2>2, AtLeastIs
  <2>4. IsNext(at) <=> above # {}
      BY <2>1, <2>3 DEF IsNext
  <2>5. AtLeast(NextPlace(at), above)
      BY <2>1, <2>3 DEF NextPlace
  <2>6. ASSUME at[2] > 1 PROVE AtGreatest(Prev(at), {c \in contents : c < k})
    <3>1. AtGreatest(Decrement(at), HeldBelow(k)) /\ at # Begin
        BY <1>1, <2>1, <2>6, DecrementIs
    <3>2. HeldBelow(k) = {c \in contents : c < k}
        BY <1>1 DEF HeldBelow
    <3> QED
        BY <3>1, <3>2 DEF Prev
  <2> QED
      BY <2>4, <2>5, <2>6
<1> QED
    BY <1>4, <1>5, <1>6, <1>7, <1>8

-----------------------------------------------------------------------------
(* The theorems.                                                           *)

\* Nodes are as the code builds them, and within their capacity.
THEOREM NodesAreSound == Spec => []TypeOK
BY InvariantHolds, TypesNow, PTL

\* Every separator points to the first entry of the leftmost leaf to its
\* right, whatever was inserted, erased or given up halfway.
THEOREM SeparatorsStayFronts == Spec => []SeparatorsAreFronts
BY InvariantHolds, FrontsNow, PTL

\* get, exists and count_all are right, also between the transactions of an
\* insertion and after one was abandoned.
THEOREM FindIsAlwaysExact == Spec => []FindIsExact
BY InvariantHolds, FindIsExactNow, PTL

\* The chain of leaves visits every key once and in order, forth and back,
\* so get_all, seek_to_first and seek_to_last are right.
THEOREM ChainIsAlwaysContents == Spec => []ChainIsContents
BY InvariantHolds, ChainNow, PTL

\* upper_bound stands right wherever the bound lies relative to the borders
\* of leaves: get_above, get_equal_below, their counts and seeks, and next.
THEOREM UpperBoundIsAlwaysExact == Spec => []UpperBoundIsExact
BY InvariantHolds, UpperBoundsNow, PTL
=============================================================================
