----------------------------- MODULE Tree3Proofs -----------------------------
(***************************************************************************)
(* Proofs about Tree3, for any capacities of leaves and inner nodes, any   *)
(* keys and values and any number of leaves.                               *)
(*                                                                         *)
(* The argument gives every leaf a set G[l] of keys it serves: those that  *)
(* a descent leads to it for, present or not.  The sets are intervals, lie *)
(* beside each other and cover all keys (Partition).  TreeShape says that  *)
(* the inner nodes follow the same division: a node serves an interval,    *)
(* its children the parts of it between its separators (Serves).           *)
(*                                                                         *)
(*   - Descents end: h bounds how far a node is from the leaves, and is    *)
(*     itself bounded by the number of inner nodes in use.                 *)
(*   - There is a place for a new inner node: each separator is the last   *)
(*     key of a leaf of its own (Ends), so that there are fewer inner      *)
(*     nodes than leaves (FreshIs).                                        *)
(*   - While a split goes up, one node still counts as serving what it has *)
(*     given to a new one that is not linked yet (Waits).  Each call of    *)
(*     InnerUpdateAfterSplit links it, or halves the node above and waits  *)
(*     there, one level higher (Climbs).                                   *)
(*   - A recovery splits the leaves off one another from left to right, so *)
(*     that it needs no argument of its own (Dealt).                       *)
(*                                                                         *)
(* IInv adds what the leaves hold: a record is in the leaf that serves its *)
(* key, once, and the leaf nodes agree with the leaves unless a call has   *)
(* failed.  What is used of recursive functions is in WalksProofs.         *)
(***************************************************************************)
EXTENDS Tree3, WalksProofs, SequenceTheorems

-----------------------------------------------------------------------------
(* Sequences.                                                              *)

LEMMA InsertAtIs ==
  ASSUME NEW X, NEW q \in Seq(X), NEW i \in 1 .. Len(q) + 1, NEW e \in X
  PROVE  /\ InsertAt(q, i, e) \in Seq(X) /\ Len(InsertAt(q, i, e)) = Len(q) + 1
         /\ \A j \in 1 .. Len(q) + 1 :
              InsertAt(q, i, e)[j] = IF j < i THEN q[j] ELSE IF j = i THEN e ELSE q[j - 1]
<1>1. InsertAt(q, i, e) = Inserted(q, i, e)
    BY DEF InsertAt, Inserted
<1> PICK w : w = Inserted(q, i, e)
    OBVIOUS
<1>2. /\ w \in Seq(X) /\ Len(w) = Len(q) + 1
      /\ \A j \in 1 .. Len(q) + 1 : w[j] = IF j < i THEN q[j] ELSE IF j = i THEN e ELSE q[j - 1]
  <2>1. /\ Inserted(q, i, e) \in Seq(X) /\ Len(Inserted(q, i, e)) = Len(q) + 1
        /\ \A j \in 1 .. Len(q) + 1 : Inserted(q, i, e)[j] = IF j < i THEN q[j] ELSE IF j = i THEN e ELSE q[j - 1]
      BY ONLY q \in Seq(X), i \in 1 .. Len(q) + 1, e \in X, InsertedIs
  <2> QED
      BY <2>1
<1> QED
    BY <1>1, <1>2

-----------------------------------------------------------------------------
(* One inner node: which of the keys it serves go to which child.          *)

Ids == LeafIds \cup InnerIds

Rising(keys) == \A i, j \in 1 .. Len(keys) : i < j => keys[i] < keys[j]

\* k lies between the separators at both sides of child i.
Fits(r, i, k) == (i > 1 => r.keys[i - 1] < k) /\ (i <= Len(r.keys) => k <= r.keys[i])

\* Node r serves the keys of D, its children those of V.
Serves(r, D, V) ==
  /\ r.keys \in Seq(D) /\ r.kids \in Seq(Ids) /\ Len(r.kids) = Len(r.keys) + 1
  /\ Rising(r.keys)
  /\ \A i \in 1 .. Len(r.kids) : V[r.kids[i]] = {k \in D : Fits(r, i, k)}

\* The separators below k, or up to k, are the first ones.
LEMMA SeparatorsBelow ==
  ASSUME NEW D \in SUBSET Keys, NEW keys \in Seq(D), Rising(keys), NEW k \in Keys
  PROVE  /\ LET c == Cardinality({i \in DOMAIN keys : keys[i] < k})
            IN c \in 0 .. Len(keys) /\ \A i \in 1 .. Len(keys) : keys[i] < k <=> i <= c
         /\ LET c == Cardinality({i \in DOMAIN keys : keys[i] <= k})
            IN c \in 0 .. Len(keys) /\ \A i \in 1 .. Len(keys) : keys[i] <= k <=> i <= c
<1>1. /\ Len(keys) \in Nat /\ DOMAIN keys = 1 .. Len(keys) /\ k \in Int
      /\ \A i \in 1 .. Len(keys) : keys[i] \in Int
    BY ElementOfSeq, LenProperties, NamesAssumption
<1> DEFINE A == {i \in DOMAIN keys : keys[i] < k}
           B == {i \in DOMAIN keys : keys[i] <= k}
<1>2. A \in SUBSET (1 .. Len(keys)) /\ \A i \in A, j \in 1 .. Len(keys) : j < i => j \in A
    BY <1>1 DEF Rising
<1>3. B \in SUBSET (1 .. Len(keys)) /\ \A i \in B, j \in 1 .. Len(keys) : j < i => j \in B
    BY <1>1 DEF Rising
<1>4. Cardinality(A) \in 0 .. Len(keys) /\ A = 1 .. Cardinality(A)
  <2> HIDE DEF A
  <2> QED
      BY <1>1, <1>2, SegmentIs
<1>5. Cardinality(B) \in 0 .. Len(keys) /\ B = 1 .. Cardinality(B)
  <2> HIDE DEF B
  <2> QED
      BY <1>1, <1>3, SegmentIs
<1>6. \A i \in 1 .. Len(keys) : keys[i] < k <=> i <= Cardinality(A)
  <2>1. \A i \in 1 .. Len(keys) : i \in A <=> keys[i] < k
      BY <1>1
  <2> HIDE DEF A
  <2> QED
      BY <1>1, <1>4, <2>1
<1>7. \A i \in 1 .. Len(keys) : keys[i] <= k <=> i <= Cardinality(B)
  <2>1. \A i \in 1 .. Len(keys) : i \in B <=> keys[i] <= k
      BY <1>1
  <2> HIDE DEF B
  <2> QED
      BY <1>1, <1>5, <2>1
<1> QED
    BY <1>4, <1>5, <1>6, <1>7

\* The child a search goes on with serves the key.
LEMMA ChildForIs ==
  ASSUME NEW r, NEW D \in SUBSET Keys, NEW V, Serves(r, D, V), NEW k \in D
  PROVE  \E i \in 1 .. Len(r.kids) : ChildFor(r, k) = r.kids[i] /\ k \in V[r.kids[i]]
<1> DEFINE c == Cardinality({i \in DOMAIN r.keys : r.keys[i] < k})
<1>1. /\ Len(r.keys) \in Nat /\ Len(r.kids) = Len(r.keys) + 1 /\ k \in Int
      /\ \A i \in 1 .. Len(r.keys) : r.keys[i] \in Int
    BY ElementOfSeq, LenProperties, NamesAssumption DEF Serves
<1>2. c \in 0 .. Len(r.keys) /\ \A i \in 1 .. Len(r.keys) : r.keys[i] < k <=> i <= c
    BY SeparatorsBelow DEF Serves
<1>3. ChildFor(r, k) = r.kids[c + 1]
    BY DEF ChildFor
<1> HIDE DEF c
<1>4. Fits(r, c + 1, k) /\ c + 1 \in 1 .. Len(r.kids)
    BY <1>1, <1>2 DEF Fits
<1> QED
    BY <1>3, <1>4 DEF Serves

SepsOf(r) == {r.keys[i] : i \in 1 .. Len(r.keys)}

\* What the parent of node takes it to serve before it knows of new.
View(S, node, new) == [c \in Ids |-> IF c = node THEN S[node] \cup S[new] ELSE S[c]]

LEMMA KidsDiffer ==
  ASSUME NEW r, NEW D \in SUBSET Keys, NEW V, Serves(r, D, V),
         \A i \in 1 .. Len(r.kids) : V[r.kids[i]] # {},
         NEW i \in 1 .. Len(r.kids), NEW j \in 1 .. Len(r.kids), i # j
  PROVE  r.kids[i] # r.kids[j]
<1>1. ASSUME NEW a \in 1 .. Len(r.kids), NEW b \in 1 .. Len(r.kids), a < b PROVE r.kids[a] # r.kids[b]
  <2> SUFFICES ASSUME NEW k \in D, Fits(r, a, k), Fits(r, b, k) PROVE FALSE
      BY DEF Serves
  <2>1. /\ Len(r.keys) \in Nat /\ Len(r.kids) = Len(r.keys) + 1 /\ k \in Int
        /\ \A m \in 1 .. Len(r.keys) : r.keys[m] \in Int
      BY ElementOfSeq, LenProperties, NamesAssumption DEF Serves
  <2>2. k <= r.keys[a] /\ r.keys[b - 1] < k /\ a \in 1 .. Len(r.keys) /\ b - 1 \in 1 .. Len(r.keys)
      BY <1>1, <2>1 DEF Fits
  <2>3. a = b - 1 \/ r.keys[a] < r.keys[b - 1]
    <3>1. a = b - 1 \/ a < b - 1
        BY <1>1, <2>1
    <3> QED
        BY <2>2, <3>1 DEF Rising, Serves
  <2> QED
      BY <2>1, <2>2, <2>3, SMTT(30)
<1>2. Len(r.kids) \in Nat
    BY LenProperties DEF Serves
<1>3. i < j \/ j < i
    BY <1>2
<1> QED
    BY <1>1, <1>3

\* w is r with sk as separator p and the child new behind it.
IsWidened(w, r, sk, new, p) ==
  /\ w = [keys |-> w.keys, kids |-> w.kids]
  /\ Len(w.keys) = Len(r.keys) + 1 /\ Len(w.kids) = Len(r.kids) + 1
  /\ \A i \in 1 .. Len(w.keys) :
       w.keys[i] = IF i < p THEN r.keys[i] ELSE IF i = p THEN sk ELSE r.keys[i - 1]
  /\ \A i \in 1 .. Len(w.kids) :
       w.kids[i] = IF i < p + 1 THEN r.kids[i] ELSE IF i = p + 1 THEN new ELSE r.kids[i - 1]

\* A parent that gets the new node beside the old one serves what it served.
LEMMA WidenedIs ==
  ASSUME NEW r, NEW D \in SUBSET Keys, NEW S \in [Ids -> SUBSET Keys],
         NEW node \in Ids, NEW new \in Ids, node # new, NEW sk \in Keys,
         Serves(r, D, View(S, node, new)),
         sk \in S[node], \A k \in S[node] : k <= sk, \A k \in S[new] : sk < k, sk \notin SepsOf(r),
         NEW p \in 1 .. Len(r.kids), r.kids[p] = node,
         \A i \in 1 .. Len(r.kids) : r.kids[i] # new /\ (i # p => r.kids[i] # node)
  PROVE  Serves(Widened(r, sk, new), D, S) /\ IsWidened(Widened(r, sk, new), r, sk, new, p)
<1> DEFINE c == Cardinality({i \in DOMAIN r.keys : r.keys[i] <= sk})
           w == Widened(r, sk, new)
           V == View(S, node, new)
<1>1. /\ Len(r.keys) \in Nat /\ Len(r.kids) = Len(r.keys) + 1
      /\ \A i \in 1 .. Len(r.keys) : r.keys[i] \in Int /\ r.keys[i] # sk
      /\ \A i \in 1 .. Len(r.kids) : r.kids[i] \in Ids
      /\ Keys \subseteq Int
    BY ElementOfSeq, LenProperties, NamesAssumption DEF Serves, SepsOf
<1>2. V[node] = S[node] \cup S[new] /\ \A i \in Ids : i # node => V[i] = S[i]
    BY DEF View
<1>3. \A i \in 1 .. Len(r.kids) : V[r.kids[i]] = {k \in D : Fits(r, i, k)}
    BY DEF Serves
<1>4. sk \in D /\ Fits(r, p, sk)
    BY <1>2, <1>3
<1>5. c = p - 1
  <2>1. c \in 0 .. Len(r.keys) /\ \A i \in 1 .. Len(r.keys) : r.keys[i] <= sk <=> i <= c
      BY SeparatorsBelow DEF Serves
  <2> HIDE DEF c
  <2>2. p > 1 => p - 1 <= c
    <3> SUFFICES ASSUME p > 1 PROVE p - 1 <= c
        OBVIOUS
    <3>1. p - 1 \in 1 .. Len(r.keys) /\ r.keys[p - 1] < sk /\ sk \in Int
        BY <1>1, <1>4 DEF Fits
    <3>2. r.keys[p - 1] <= sk
        BY <1>1, <3>1
    <3> QED
        BY <2>1, <3>1, <3>2
  <2>3. p <= Len(r.keys) => ~(p <= c)
    <3> SUFFICES ASSUME p <= Len(r.keys) PROVE ~(r.keys[p] <= sk)
        BY <1>1, <2>1
    <3>1. sk <= r.keys[p] /\ r.keys[p] # sk /\ sk \in Int /\ r.keys[p] \in Int
        BY <1>1, <1>4 DEF Fits
    <3> QED
        BY <3>1
  <2> QED
      BY <1>1, <2>1, <2>2, <2>3
<1>6. w = [keys |-> InsertAt(r.keys, p, sk), kids |-> InsertAt(r.kids, p + 1, new)]
  <2>1. w = [keys |-> InsertAt(r.keys, c + 1, sk), kids |-> InsertAt(r.kids, c + 2, new)]
      BY DEF Widened
  <2>2. c + 1 = p /\ c + 2 = p + 1
      BY <1>1, <1>5
  <2> HIDE DEF c, w
  <2> QED
      BY <2>1, <2>2
<1> HIDE DEF c, w, V
<1>7. /\ w.keys \in Seq(D) /\ Len(w.keys) = Len(r.keys) + 1
      /\ \A i \in 1 .. Len(r.keys) + 1 :
           w.keys[i] = IF i < p THEN r.keys[i] ELSE IF i = p THEN sk ELSE r.keys[i - 1]
  <2>1. p \in 1 .. Len(r.keys) + 1 /\ r.keys \in Seq(D) /\ w.keys = InsertAt(r.keys, p, sk)
      BY <1>1, <1>6 DEF Serves
  <2> QED
      BY <1>4, <2>1, InsertAtIs, SMTT(30)
<1>8. /\ w.kids \in Seq(Ids) /\ Len(w.kids) = Len(r.kids) + 1
      /\ \A i \in 1 .. Len(r.kids) + 1 :
           w.kids[i] = IF i < p + 1 THEN r.kids[i] ELSE IF i = p + 1 THEN new ELSE r.kids[i - 1]
  <2> DEFINE q == p + 1
  <2>1. q \in 1 .. Len(r.kids) + 1 /\ r.kids \in Seq(Ids) /\ w.kids = InsertAt(r.kids, q, new)
      BY <1>1, <1>6 DEF Serves
  <2> DEFINE kids == r.kids
  <2> HIDE DEF q, kids
  <2>2. q \in 1 .. Len(kids) + 1 /\ kids \in Seq(Ids) /\ w.kids = InsertAt(kids, q, new) /\ new \in Ids
      BY <2>1 DEF kids
  <2>3. /\ InsertAt(kids, q, new) \in Seq(Ids) /\ Len(InsertAt(kids, q, new)) = Len(kids) + 1
        /\ \A i \in 1 .. Len(kids) + 1 :
             InsertAt(kids, q, new)[i] = IF i < q THEN kids[i] ELSE IF i = q THEN new ELSE kids[i - 1]
      BY ONLY <2>2, InsertAtIs
  <2> QED
      BY <2>2, <2>3 DEF q, kids
<1>9. Rising(w.keys)
  <2> SUFFICES ASSUME NEW i \in 1 .. Len(w.keys), NEW j \in 1 .. Len(w.keys), i < j
               PROVE  w.keys[i] < w.keys[j]
      BY DEF Rising
  <2>1. \A a, b \in 1 .. Len(r.keys) : a < b => r.keys[a] < r.keys[b]
      BY DEF Serves, Rising
  <2>2. p > 1 => r.keys[p - 1] < sk
      BY <1>4 DEF Fits
  <2>3. p <= Len(r.keys) => sk < r.keys[p]
    <3>1. p <= Len(r.keys) => sk <= r.keys[p] /\ r.keys[p] # sk /\ r.keys[p] \in Int
        BY <1>1, <1>4 DEF Fits
    <3> QED
        BY <1>1, <3>1
  <2>4. i \in 1 .. Len(r.keys) + 1 /\ j \in 1 .. Len(r.keys) + 1
      BY <1>7
  <2>5. CASE j < p
    <3>1. w.keys[j] = r.keys[j] /\ w.keys[i] = r.keys[i] /\ i \in 1 .. Len(r.keys) /\ j \in 1 .. Len(r.keys)
        BY <1>1, <1>7, <2>4, <2>5
    <3> QED
        BY <2>1, <3>1
  <2>6. CASE j = p
    <3>1. w.keys[j] = sk /\ w.keys[i] = r.keys[i] /\ i \in 1 .. Len(r.keys) /\ p - 1 \in 1 .. Len(r.keys)
        BY <1>1, <1>7, <2>4, <2>6
    <3>2. i = p - 1 \/ r.keys[i] < r.keys[p - 1]
      <4>1. i = p - 1 \/ i < p - 1
          BY <2>4, <2>6
      <4> QED
          BY <2>1, <3>1, <4>1
    <3>3. r.keys[i] \in Int /\ r.keys[p - 1] \in Int /\ r.keys[p - 1] < sk /\ sk \in Int
        BY <1>1, <2>2, <2>6, <3>1
    <3> QED
        BY <3>1, <3>2, <3>3
  <2>7. CASE j > p /\ i = p
    <3>1. w.keys[i] = sk /\ w.keys[j] = r.keys[j - 1] /\ j - 1 \in 1 .. Len(r.keys) /\ p \in 1 .. Len(r.keys)
        BY <1>1, <1>7, <2>4, <2>7
    <3>2. p = j - 1 \/ r.keys[p] < r.keys[j - 1]
      <4>1. p = j - 1 \/ p < j - 1
          BY <2>4, <2>7
      <4> QED
          BY <2>1, <3>1, <4>1
    <3> QED
        BY <1>1, <2>3, <2>7, <3>1, <3>2, SMTT(30)
  <2>8. CASE j > p /\ i < p
    <3>1. w.keys[i] = r.keys[i] /\ w.keys[j] = r.keys[j - 1] /\ j - 1 \in 1 .. Len(r.keys) /\ i \in 1 .. Len(r.keys)
        BY <1>1, <1>7, <2>4, <2>8
    <3>2. i < j - 1
        BY <2>4, <2>8
    <3> QED
        BY <2>1, <3>1, <3>2
  <2>9. CASE j > p /\ i > p
    <3>1. w.keys[i] = r.keys[i - 1] /\ w.keys[j] = r.keys[j - 1] /\ j - 1 \in 1 .. Len(r.keys) /\ i - 1 \in 1 .. Len(r.keys)
        BY <1>1, <1>7, <2>4, <2>9
    <3> QED
        BY <2>1, <2>4, <3>1
  <2>10. j < p \/ j = p \/ (j > p /\ i = p) \/ (j > p /\ i < p) \/ (j > p /\ i > p)
      BY <2>4
  <2> QED
      BY <2>5, <2>6, <2>7, <2>8, <2>9, <2>10
<1>10. ASSUME NEW i \in 1 .. Len(w.kids) PROVE S[w.kids[i]] = {k \in D : Fits(w, i, k)}
  <2> DEFINE n == Len(r.keys)
  <2>1. i \in 1 .. n + 2 /\ Len(w.keys) = n + 1 /\ n \in Nat /\ p \in 1 .. n + 1
      BY <1>1, <1>7, <1>8
  <2>2. CASE i < p
    <3>1. i \in 1 .. Len(r.kids) /\ i # p /\ i <= n /\ (i > 1 => i - 1 \in 1 .. n)
        BY <1>1, <2>1, <2>2
    <3>2. w.kids[i] = r.kids[i] /\ S[r.kids[i]] = V[r.kids[i]]
        BY <1>1, <1>2, <1>8, <2>1, <2>2, <3>1
    <3>3. w.keys[i] = r.keys[i] /\ (i > 1 => w.keys[i - 1] = r.keys[i - 1])
      <4>1. i \in 1 .. n + 1 /\ (i > 1 => i - 1 \in 1 .. n + 1 /\ i - 1 < p)
          BY <2>1, <2>2, <3>1
      <4> QED
          BY <1>7, <2>2, <4>1
    <3>4. \A k \in D : Fits(w, i, k) <=> Fits(r, i, k)
        BY <2>1, <3>1, <3>3 DEF Fits
    <3> QED
        BY <1>3, <3>1, <3>2, <3>4
  <2>3. CASE i = p
    <3>1. w.kids[i] = node /\ S[node] = {k \in V[node] : k <= sk}
      <4>1. w.kids[i] = r.kids[p]
          BY <1>1, <1>8, <2>1, <2>3
      <4>2. \A k \in S[new] : ~(k <= sk)
          BY <1>1
      <4> QED
          BY <1>2, <4>1, <4>2
    <3>2. w.keys[i] = sk /\ (i > 1 => w.keys[i - 1] = r.keys[i - 1])
      <4>1. i \in 1 .. n + 1 /\ ~(i < p) /\ (i > 1 => i - 1 \in 1 .. n + 1 /\ i - 1 < p)
          BY <2>1, <2>3
      <4> QED
          BY <1>7, <2>3, <4>1
    <3>3. \A k \in D : Fits(w, i, k) <=> Fits(r, i, k) /\ k <= sk
      <4> SUFFICES ASSUME NEW k \in D PROVE Fits(w, i, k) <=> Fits(r, i, k) /\ k <= sk
          OBVIOUS
      <4>1. k \in Int /\ sk \in Int /\ (p <= n => r.keys[p] \in Int)
          BY <1>1, <2>1
      <4>2. p <= n => sk <= r.keys[p]
          BY <1>4 DEF Fits
      <4> QED
          BY <2>1, <2>3, <3>2, <4>1, <4>2 DEF Fits
    <3> QED
        BY <1>3, <2>3, <3>1, <3>3
  <2>4. CASE i = p + 1
    <3>1. w.kids[i] = new /\ S[new] = {k \in V[node] : sk < k}
      <4>1. w.kids[i] = new
          BY <1>1, <1>8, <2>1, <2>4
      <4>2. \A k \in S[node] : ~(sk < k)
          BY <1>1
      <4> QED
          BY <1>2, <4>1, <4>2
    <3>2. w.keys[i - 1] = sk /\ (p <= n => w.keys[i] = r.keys[p])
        BY <1>7, <2>1, <2>4
    <3>3. \A k \in D : Fits(w, i, k) <=> Fits(r, p, k) /\ sk < k
      <4> SUFFICES ASSUME NEW k \in D PROVE Fits(w, i, k) <=> Fits(r, p, k) /\ sk < k
          OBVIOUS
      <4>1. k \in Int /\ sk \in Int /\ (p > 1 => r.keys[p - 1] \in Int)
          BY <1>1, <2>1
      <4>2. p > 1 => r.keys[p - 1] < sk
          BY <1>4 DEF Fits
      <4>3. Fits(w, i, k) <=> sk < k /\ (p <= n => k <= r.keys[p])
          BY <2>1, <2>4, <3>2 DEF Fits
      <4> QED
          BY <2>1, <4>1, <4>2, <4>3 DEF Fits
    <3> QED
        BY <1>3, <3>1, <3>3
  <2>5. CASE i > p + 1
    <3>1. i - 1 \in 1 .. Len(r.kids) /\ i - 1 # p /\ i - 1 > 1 /\ i - 2 \in 1 .. n
        BY <1>1, <2>1, <2>5
    <3>2. w.kids[i] = r.kids[i - 1] /\ S[r.kids[i - 1]] = V[r.kids[i - 1]]
        BY <1>1, <1>2, <1>8, <2>1, <2>5, <3>1
    <3>3. w.keys[i - 1] = r.keys[(i - 1) - 1] /\ (i <= n + 1 => w.keys[i] = r.keys[i - 1])
      <4>1. i - 1 \in 1 .. n + 1 /\ ~(i - 1 < p) /\ ~(i < p) /\ i # p /\ (i <= n + 1 => i \in 1 .. n + 1)
          BY <2>1, <2>5
      <4> QED
          BY <1>7, <3>1, <4>1
    <3>4. \A k \in D : Fits(w, i, k) <=> Fits(r, i - 1, k)
        BY <2>1, <3>1, <3>3 DEF Fits
    <3> QED
        BY <1>3, <3>1, <3>2, <3>4
  <2>6. i < p \/ i = p \/ i = p + 1 \/ i > p + 1
      BY <2>1
  <2> QED
      BY <2>2, <2>3, <2>4, <2>5, <2>6
<1>11. Serves(w, D, S)
    BY <1>1, <1>7, <1>8, <1>9, <1>10 DEF Serves
<1>12. IsWidened(w, r, sk, new, p)
    BY <1>6, <1>7, <1>8 DEF IsWidened
<1> QED
    BY <1>11, <1>12 DEF w

\* The halves of a node that is too large, and the separator between them.
LEMMA HalvesAre ==
  ASSUME NEW w, NEW D \in SUBSET Keys, NEW S \in [Ids -> SUBSET Keys],
         Serves(w, D, S), Len(w.keys) = InnerKeys + 1
  PROVE  LET sep == w.keys[InnerMidpoint + 1]
             low == Lower(w)
             up  == Upper(w)
         IN
         /\ InnerMidpoint \in Nat \ {0} /\ InnerKeys = 2 * InnerMidpoint /\ sep \in D
         /\ Serves(low, {k \in D : k <= sep}, S) /\ Serves(up, {k \in D : sep < k}, S)
         /\ Len(low.keys) = InnerMidpoint /\ Len(up.keys) = InnerMidpoint
         /\ \A i \in 1 .. InnerMidpoint : low.keys[i] = w.keys[i] /\ up.keys[i] = w.keys[InnerMidpoint + 1 + i]
         /\ \A i \in 1 .. InnerMidpoint + 1 : low.kids[i] = w.kids[i] /\ up.kids[i] = w.kids[InnerMidpoint + 1 + i]
<1> DEFINE m == InnerMidpoint
           sep == w.keys[m + 1]
           low == Lower(w)
           up == Upper(w)
<1>1. m \in Nat \ {0} /\ InnerKeys = 2 * m
    BY SizesAssumption DEF InnerMidpoint
<1> HIDE DEF m
<1>2. /\ Len(w.keys) = 2 * m + 1 /\ Len(w.kids) = 2 * m + 2
      /\ \A i \in 1 .. 2 * m + 1 : w.keys[i] \in D /\ w.keys[i] \in Int
      /\ \A i \in 1 .. 2 * m + 2 : w.kids[i] \in Ids /\ S[w.kids[i]] = {k \in D : Fits(w, i, k)}
  <2>1. Len(w.keys) = 2 * m + 1 /\ Len(w.kids) = 2 * m + 2
      BY <1>1 DEF Serves
  <2>2. \A i \in 1 .. 2 * m + 1 : w.keys[i] \in D /\ w.keys[i] \in Int
      BY <2>1, ElementOfSeq, NamesAssumption DEF Serves
  <2> QED
      BY <2>1, <2>2, ElementOfSeq DEF Serves
<1>3. \A i, j \in 1 .. 2 * m + 1 : i < j => w.keys[i] < w.keys[j]
    BY <1>2 DEF Serves, Rising
<1>4. sep \in D /\ sep \in Int
    BY <1>1, <1>2
<1>5. /\ low.keys = SubSeq(w.keys, 1, m) /\ low.kids = SubSeq(w.kids, 1, m + 1)
      /\ up.keys = SubSeq(w.keys, m + 2, 2 * m + 1) /\ up.kids = SubSeq(w.kids, m + 2, 2 * m + 2)
    BY <1>2 DEF Lower, Upper, m
<1> HIDE DEF low, up
<1> DEFINE DL == {k \in D : k <= sep}
           DU == {k \in D : sep < k}
<1>6. low.keys \in Seq(DL) /\ Len(low.keys) = m /\ \A i \in 1 .. m : low.keys[i] = w.keys[i]
  <2>1. \A i \in 1 .. m : w.keys[i] \in DL
    <3>1. ASSUME NEW i \in 1 .. m PROVE w.keys[i] < sep /\ w.keys[i] \in D /\ w.keys[i] \in Int
        BY <1>1, <1>2, <1>3
    <3> QED
        BY <1>4, <3>1
  <2> DEFINE b == m + 0
  <2>2. b \in Int /\ low.keys = SubSeq(w.keys, 1, b) /\ \A i \in 1 .. b : w.keys[i] \in DL
    <3>1. b = m /\ m \in Int
        BY <1>1
    <3> HIDE DEF b, DL
    <3> QED
        BY <1>5, <2>1, <3>1
  <2> HIDE DEF b, DL
  <2>3. /\ low.keys \in Seq(DL) /\ Len(low.keys) = IF 1 <= b THEN b - 1 + 1 ELSE 0
        /\ \A i \in 1 .. b - 1 + 1 : low.keys[i] = w.keys[1 + i - 1]
      BY <2>2, SubSeqProperties
  <2>4. b - 1 + 1 = m /\ 1 <= b /\ \A i \in 1 .. m : 1 + i - 1 = i
      BY <1>1 DEF b
  <2> QED
      BY <1>1, <2>3, <2>4
<1>7. low.kids \in Seq(Ids) /\ Len(low.kids) = m + 1 /\ \A i \in 1 .. m + 1 : low.kids[i] = w.kids[i]
  <2>1. \A i \in 1 .. m + 1 : w.kids[i] \in Ids
      BY <1>1, <1>2
  <2> DEFINE b == m + 1
  <2>2. b \in Int /\ low.kids = SubSeq(w.kids, 1, b) /\ \A i \in 1 .. b : w.kids[i] \in Ids
      BY <1>1, <1>5, <2>1
  <2> HIDE DEF b
  <2>3. /\ low.kids \in Seq(Ids) /\ Len(low.kids) = IF 1 <= b THEN b - 1 + 1 ELSE 0
        /\ \A i \in 1 .. b - 1 + 1 : low.kids[i] = w.kids[1 + i - 1]
      BY <2>2, SubSeqProperties
  <2>4. b - 1 + 1 = m + 1 /\ 1 <= b /\ \A i \in 1 .. m + 1 : 1 + i - 1 = i
      BY <1>1 DEF b
  <2> QED
      BY <1>1, <2>3, <2>4
<1>8. up.keys \in Seq(DU) /\ Len(up.keys) = m /\ \A i \in 1 .. m : up.keys[i] = w.keys[m + 1 + i]
  <2>1. \A i \in m + 2 .. 2 * m + 1 : w.keys[i] \in DU
      BY <1>1, <1>2, <1>3, <1>4
  <2> DEFINE a == m + 2
             b == 2 * m + 1
  <2>2. a \in Int /\ b \in Int /\ up.keys = SubSeq(w.keys, a, b) /\ \A i \in a .. b : w.keys[i] \in DU
      BY <1>1, <1>5, <2>1
  <2> HIDE DEF DU, a, b
  <2>3. /\ up.keys \in Seq(DU) /\ Len(up.keys) = IF a <= b THEN b - a + 1 ELSE 0
        /\ \A i \in 1 .. b - a + 1 : up.keys[i] = w.keys[a + i - 1]
      BY <2>2, SubSeqProperties
  <2>4. b - a + 1 = m /\ (a <= b \/ m = 0) /\ \A i \in 1 .. m : a + i - 1 = m + 1 + i
      BY <1>1 DEF a, b
  <2> QED
      BY <1>1, <2>2, <2>3, <2>4
<1>9. up.kids \in Seq(Ids) /\ Len(up.kids) = m + 1 /\ \A i \in 1 .. m + 1 : up.kids[i] = w.kids[m + 1 + i]
  <2>1. \A i \in m + 2 .. 2 * m + 2 : w.kids[i] \in Ids
      BY <1>1, <1>2
  <2> DEFINE a == m + 2
             b == 2 * m + 2
  <2>2. a \in Int /\ b \in Int /\ up.kids = SubSeq(w.kids, a, b) /\ \A i \in a .. b : w.kids[i] \in Ids
    <3>1. up.kids = SubSeq(w.kids, a, b)
        BY <1>5
    <3> QED
        BY <1>1, <2>1, <3>1
  <2> HIDE DEF a, b
  <2>3. /\ up.kids \in Seq(Ids) /\ Len(up.kids) = IF a <= b THEN b - a + 1 ELSE 0
        /\ \A i \in 1 .. b - a + 1 : up.kids[i] = w.kids[a + i - 1]
      BY <2>2, SubSeqProperties
  <2>4. b - a + 1 = m + 1 /\ a <= b /\ \A i \in 1 .. m + 1 : a + i - 1 = m + 1 + i
      BY <1>1 DEF a, b
  <2> QED
      BY <1>1, <2>2, <2>3, <2>4
<1>10. Serves(low, DL, S)
  <2>1. Rising(low.keys)
      BY <1>1, <1>3, <1>6 DEF Rising
  <2>2. ASSUME NEW i \in 1 .. m + 1 PROVE S[low.kids[i]] = {k \in DL : Fits(low, i, k)}
    <3>1. /\ low.kids[i] = w.kids[i] /\ i \in 1 .. 2 * m + 2
          /\ i > 1 => low.keys[i - 1] = w.keys[i - 1]
          /\ i <= m => low.keys[i] = w.keys[i]
        BY <1>1, <1>6, <1>7
    <3>2. ASSUME NEW k \in D PROVE Fits(w, i, k) <=> k <= sep /\ Fits(low, i, k)
      <4>1. k \in Int
          BY NamesAssumption
      <4>2. i <= m => w.keys[i] < sep /\ w.keys[i] \in Int
          BY <1>1, <1>2, <1>3
      <4>3. i = m + 1 => w.keys[i] = sep
          OBVIOUS
      <4>4. Fits(w, i, k) <=> (i > 1 => w.keys[i - 1] < k) /\ k <= w.keys[i]
          BY <1>1, <1>2 DEF Fits
      <4>5. Fits(low, i, k) <=> (i > 1 => w.keys[i - 1] < k) /\ (i <= m => k <= w.keys[i])
          BY <1>6, <3>1 DEF Fits
      <4>6. i <= m \/ i = m + 1
          BY <1>1
      <4> HIDE DEF sep
      <4>7. CASE i <= m
          BY <1>4, <4>1, <4>2, <4>4, <4>5, <4>7
      <4>8. CASE i = m + 1
        <5>1. ~(i <= m)
            BY <1>1, <4>8
        <5> QED
            BY <4>3, <4>4, <4>5, <4>8, <5>1
      <4> QED
          BY <4>6, <4>7, <4>8
    <3>3. S[w.kids[i]] = {k \in D : Fits(w, i, k)}
        BY <1>2, <3>1
    <3> HIDE DEF sep
    <3> QED
        BY <3>1, <3>2, <3>3
  <2> HIDE DEF DL
  <2> QED
      BY <1>1, <1>6, <1>7, <2>1, <2>2 DEF Serves
<1>11. Serves(up, DU, S)
  <2>1. Rising(up.keys)
    <3>1. \A i, j \in 1 .. m : i < j => w.keys[m + 1 + i] < w.keys[m + 1 + j]
        BY <1>1, <1>3
    <3> QED
        BY <1>1, <1>8, <3>1 DEF Rising
  <2>2. ASSUME NEW i \in 1 .. m + 1 PROVE S[up.kids[i]] = {k \in DU : Fits(up, i, k)}
    <3> DEFINE j == m + 1 + i
    <3>1. /\ up.kids[i] = w.kids[j] /\ j \in 1 .. 2 * m + 2 /\ j > 1
          /\ i > 1 => up.keys[i - 1] = w.keys[j - 1]
          /\ i <= m => up.keys[i] = w.keys[j]
          /\ i <= m <=> j <= 2 * m + 1
          /\ i = 1 => w.keys[j - 1] = sep
      <4>1. i > 1 => i - 1 \in 1 .. m /\ m + 1 + (i - 1) = j - 1
          BY <1>1
      <4>2. j \in 1 .. 2 * m + 2 /\ j > 1 /\ (i <= m <=> j <= 2 * m + 1) /\ (i = 1 => j - 1 = m + 1)
          BY <1>1
      <4> QED
          BY <1>1, <1>8, <1>9, <4>1, <4>2
    <3>2. ASSUME NEW k \in D PROVE Fits(w, j, k) <=> sep < k /\ Fits(up, i, k)
      <4>1. k \in Int
          BY NamesAssumption
      <4>2. i > 1 => sep < w.keys[j - 1] /\ w.keys[j - 1] \in Int
        <5>1. i > 1 => j - 1 \in 1 .. 2 * m + 1 /\ m + 1 \in 1 .. 2 * m + 1 /\ m + 1 < j - 1
            BY <1>1
        <5> QED
            BY <1>2, <1>3, <5>1
      <4>3. Fits(w, j, k) <=> w.keys[j - 1] < k /\ (i <= m => k <= w.keys[j])
          BY <1>2, <3>1 DEF Fits
      <4>4. Fits(up, i, k) <=> (i > 1 => w.keys[j - 1] < k) /\ (i <= m => k <= w.keys[j])
          BY <1>8, <3>1 DEF Fits
      <4>5. i > 1 \/ i = 1
          BY <1>1
      <4> HIDE DEF sep, j
      <4>6. CASE i > 1
          BY <1>4, <4>1, <4>2, <4>3, <4>4, <4>6
      <4>7. CASE i = 1
        <5>1. ~(i > 1)
            BY <4>7
        <5> QED
            BY <3>1, <4>3, <4>4, <4>7, <5>1
      <4> QED
          BY <4>5, <4>6, <4>7
    <3>3. S[w.kids[j]] = {k \in D : Fits(w, j, k)}
        BY <1>2, <3>1
    <3> HIDE DEF sep, j
    <3> QED
        BY <3>1, <3>2, <3>3
  <2> HIDE DEF DU
  <2> QED
      BY <1>1, <1>8, <1>9, <2>1, <2>2 DEF Serves
<1> QED
    BY <1>1, <1>4, <1>6, <1>7, <1>8, <1>9, <1>10, <1>11 DEF m, low, up

-----------------------------------------------------------------------------
(* The tree.  S gives every node the keys it serves, none to those outside *)
(* the tree, and h bounds how far it is from the leaves.  While a split    *)
(* goes up, node has given its upper keys to new, which is not linked yet, *)
(* and the parent of node still takes it to serve them all (V).            *)

Used(t) == {n \in InnerIds : t.inner[n].kids # <<>>}

Typed(t) ==
  t \in [top    : Ids \cup {Null},
         inner  : [InnerIds -> [keys : Seq(Keys), kids : Seq(Ids)]],
         parent : [Ids -> InnerIds \cup {Null}]]

\* A separator is the last key of the leaf that serves it.
Ends(q, S) == \A l \in LeafIds : q \in S[l] => \A k \in S[l] : k <= q

Agrees(S, G) == \A l \in LeafIds : S[l] = G[l]

\* Every key has its leaf, and the leaves lie beside each other.
Partition(S) ==
  /\ \A k \in Keys : \E l \in LeafIds : k \in S[l]
  /\ \A l, m \in LeafIds : l # m =>
       (\A a \in S[l], b \in S[m] : a < b) \/ (\A a \in S[l], b \in S[m] : b < a)

NodeShape(t, S, V, h, out, n) ==
  /\ Len(t.inner[n].keys) \in 1 .. InnerKeys
  /\ Serves(t.inner[n], S[n], V)
  /\ \A i \in 1 .. Len(t.inner[n].kids) :
       LET c == t.inner[n].kids[i] IN
       c \notin out /\ V[c] # {} /\ t.parent[c] = n /\ h[c] < h[n]

KidOfParent(t, c) ==
  /\ t.parent[c] \in Used(t)
  /\ \E i \in 1 .. Len(t.inner[t.parent[c]].kids) : t.inner[t.parent[c]].kids[i] = c

Shape(t, S, V, h, out) ==
  /\ Typed(t)
  /\ S \in [Ids -> SUBSET Keys] /\ V \in [Ids -> SUBSET Keys] /\ h \in [Ids -> Nat]
  /\ t.top \in Ids \ out /\ V[t.top] = Keys /\ t.parent[t.top] = Null
  /\ \A n \in InnerIds \ Used(t) : S[n] = {} /\ t.parent[n] = Null
  /\ \A n \in Used(t) : NodeShape(t, S, V, h, out, n)
  /\ \A c \in Ids \ out : S[c] # {} /\ c # t.top => KidOfParent(t, c)
  /\ \A n, m \in Used(t) : n # m => SepsOf(t.inner[n]) \cap SepsOf(t.inner[m]) = {}
  /\ \A n \in Used(t) : \A q \in SepsOf(t.inner[n]) : Ends(q, S)
  /\ \A c \in Ids : h[c] <= Cardinality(Used(t))

Linked(t, S, h) == Shape(t, S, S, h, {})

Waits(t, S, h, node, new, sk) ==
  /\ Shape(t, S, View(S, node, new), h, {new})
  /\ node \in Ids /\ new \in Ids /\ node # new
  /\ sk \in S[node] /\ \A k \in S[node] : k <= sk
  /\ S[new] # {} /\ \A k \in S[new] : sk < k
  /\ h[new] <= h[node] /\ t.parent[new] = t.parent[node]
  /\ \A n \in Used(t) : sk \notin SepsOf(t.inner[n])
  /\ Ends(sk, S)

\* There are fewer inner nodes than leaves: each has a separator of its own,
\* which is the last key of a leaf of its own, and sk is not among them.
LEMMA FreshIs ==
  ASSUME NEW t, NEW S, NEW h, NEW node, NEW new, NEW sk, Waits(t, S, h, node, new, sk), Partition(S)
  PROVE  /\ FreshInner(t) \in InnerIds \ Used(t)
         /\ IsFiniteSet(Used(t)) /\ Cardinality(Used(t)) \in Nat
         /\ Cardinality(Used(t) \cup {FreshInner(t)}) = Cardinality(Used(t)) + 1
<1>1. IsFiniteSet(Used(t)) /\ Cardinality(Used(t)) \in Nat
  <2>1. IsFiniteSet(Used(t))
      BY RoomAssumption, FS_Subset DEF Used
  <2> QED
      BY <2>1, FS_CardinalityType
<1>2. Used(t) # InnerIds
  <2> SUFFICES ASSUME Used(t) = InnerIds PROVE FALSE
      OBVIOUS
  <2> DEFINE W == InnerIds \cup {Null}
             mark == [n \in W |-> IF n = Null THEN sk ELSE t.inner[n].keys[1]]
             f == [n \in W |-> CHOOSE l \in LeafIds : mark[n] \in S[l]]
  <2>1. \A n \in InnerIds : /\ t.inner[n].keys[1] \in SepsOf(t.inner[n])
                            /\ t.inner[n].keys[1] \in Keys
    <3> TAKE n \in InnerIds
    <3>1. NodeShape(t, S, View(S, node, new), h, {new}, n) /\ S[n] \in SUBSET Keys
        BY DEF Waits, Shape, Ids
    <3>2. t.inner[n].keys \in Seq(S[n]) /\ 1 \in 1 .. Len(t.inner[n].keys)
        BY <3>1 DEF NodeShape, Serves
    <3>3. t.inner[n].keys[1] \in S[n]
        BY <3>2, ElementOfSeq
    <3> QED
        BY <3>1, <3>2, <3>3 DEF SepsOf
  <2>2. Null \notin InnerIds /\ sk \in Keys
      BY IdsAssumption DEF Waits, Shape
  <2>3. \A n \in W : mark[n] \in Keys
      BY <2>1, <2>2
  <2>4. \A n \in W : f[n] \in LeafIds /\ mark[n] \in S[f[n]]
      BY <2>3 DEF Partition
  <2>5. \A n \in W : Ends(mark[n], S)
    <3>1. \A n \in InnerIds : Ends(t.inner[n].keys[1], S)
        BY <2>1 DEF Waits, Shape
    <3> QED
        BY <2>2, <3>1 DEF Waits
  <2>6. Cardinality(LeafIds) < Cardinality(W) /\ IsFiniteSet(W)
    <3>1. IsFiniteSet(W) /\ Cardinality(W) = Cardinality(InnerIds) + 1
        BY <2>2, RoomAssumption, FS_AddElement
    <3>2. Cardinality(LeafIds) \in Nat /\ Cardinality(InnerIds) \in Nat
        BY RoomAssumption, FS_CardinalityType
    <3> QED
        BY <3>1, <3>2, RoomAssumption
  <2>7. PICK x \in W, y \in W : x # y /\ f[x] = f[y]
    <3>1. f \in [W -> LeafIds]
        BY <2>4
    <3> HIDE DEF f, W
    <3> QED
        BY <2>6, <3>1, RoomAssumption, FS_PigeonHole
  <2>8. mark[x] = mark[y]
    <3>1. mark[x] \in S[f[x]] /\ mark[y] \in S[f[x]] /\ f[x] \in LeafIds
        BY <2>4, <2>7
    <3>2. mark[x] \in Int /\ mark[y] \in Int
        BY <2>3, NamesAssumption
    <3>3. Ends(mark[x], S) /\ Ends(mark[y], S)
        BY <2>5
    <3> HIDE DEF mark, f, W
    <3>4. mark[x] <= mark[y] /\ mark[y] <= mark[x]
        BY <3>1, <3>3 DEF Ends
    <3> QED
        BY <3>2, <3>4
  <2>9. CASE x # Null /\ y # Null
    <3>1. x \in Used(t) /\ y \in Used(t) /\ mark[x] \in SepsOf(t.inner[x]) /\ mark[y] \in SepsOf(t.inner[y])
        BY <2>1, <2>9
    <3>2. SepsOf(t.inner[x]) \cap SepsOf(t.inner[y]) = {}
        BY <2>7, <3>1 DEF Waits, Shape
    <3> QED
        BY <2>8, <3>1, <3>2
  <2>10. CASE x = Null \/ y = Null
    <3>1. PICK n \in InnerIds : mark[n] = sk
        BY <2>2, <2>7, <2>8, <2>10
    <3>2. t.inner[n].keys[1] = sk
        BY <2>2, <3>1
    <3> QED
        BY <2>1, <3>2 DEF Waits
  <2> QED
      BY <2>9, <2>10
<1>3. FreshInner(t) \in InnerIds \ Used(t)
    BY <1>2 DEF FreshInner, Used
<1>4. Cardinality(Used(t) \cup {FreshInner(t)}) = Cardinality(Used(t)) + 1
    BY <1>1, <1>3, FS_AddElement
<1> QED
    BY <1>1, <1>3, <1>4

\* w is what becomes of inner, the parent of node, when it takes the new node
\* in: all its children are linked to it, and no other node knows of new.
TakesIn(t, S, h, node, sk, inner, w) ==
  /\ inner \in Used(t) /\ inner # node /\ node # t.top /\ h[node] < h[inner]
  /\ w \in [keys : Seq(Keys), kids : Seq(Ids)]
  /\ Serves(w, S[inner], S)
  /\ Len(w.keys) = Len(t.inner[inner].keys) + 1 /\ Len(t.inner[inner].keys) \in 1 .. InnerKeys
  /\ \A i \in 1 .. Len(w.kids) :
       w.kids[i] \in Ids /\ S[w.kids[i]] # {} /\ t.parent[w.kids[i]] = inner /\ h[w.kids[i]] < h[inner]
  /\ \A c \in Ids : S[c] # {} /\ t.parent[c] = inner => \E i \in 1 .. Len(w.kids) : w.kids[i] = c
  /\ \A q \in SepsOf(w) : q \in SepsOf(t.inner[inner]) \/ q = sk
  /\ \A n \in Used(t) \ {inner} : NodeShape(t, S, S, h, {}, n)

LEMMA ParentIs ==
  ASSUME NEW t, NEW S, NEW h, NEW node, NEW new, NEW sk, Waits(t, S, h, node, new, sk),
         t.parent[node] # Null
  PROVE  /\ TakesIn(t, S, h, node, sk, t.parent[node], Widened(t.inner[t.parent[node]], sk, new))
         /\ t.parent[node] # new
<1> DEFINE inner == t.parent[node]
           r == t.inner[inner]
           w == Widened(r, sk, new)
           V == View(S, node, new)
<1>1. /\ Shape(t, S, V, h, {new}) /\ node \in Ids /\ new \in Ids /\ node # new
      /\ S \in [Ids -> SUBSET Keys] /\ V \in [Ids -> SUBSET Keys] /\ h \in [Ids -> Nat] /\ t.top # new
      /\ Keys \subseteq Int
    BY NamesAssumption DEF Waits, Shape
<1>2. V[node] = S[node] \cup S[new] /\ (\A c \in Ids : c # node => V[c] = S[c]) /\ S[node] # {} /\ S[new] # {}
    BY <1>1 DEF View, Waits
<1>3. node # t.top
    BY <1>1 DEF Shape
<1>4. inner \in Used(t) /\ \E i \in 1 .. Len(r.kids) : r.kids[i] = node
    BY <1>1, <1>2, <1>3 DEF Shape, KidOfParent
<1>5. PICK p \in 1 .. Len(r.kids) : r.kids[p] = node
    BY <1>4
<1>6. NodeShape(t, S, V, h, {new}, inner)
    BY <1>1, <1>4 DEF Shape
<1> HIDE DEF inner, V
<1>7. /\ Serves(r, S[inner], V) /\ Len(r.keys) \in 1 .. InnerKeys /\ S[inner] \in SUBSET Keys /\ inner \in Ids
      /\ \A i \in 1 .. Len(r.kids) :
           r.kids[i] \in Ids /\ r.kids[i] # new /\ V[r.kids[i]] # {} /\ t.parent[r.kids[i]] = inner /\ h[r.kids[i]] < h[inner]
  <2>1. inner \in InnerIds /\ inner \in Ids
      BY <1>4 DEF Used, Ids
  <2>2. Serves(r, S[inner], V) /\ Len(r.keys) \in 1 .. InnerKeys /\ S[inner] \in SUBSET Keys
      BY <1>1, <1>6, <2>1 DEF NodeShape
  <2>3. \A i \in 1 .. Len(r.kids) : r.kids[i] \in Ids
      BY <2>2, ElementOfSeq DEF Serves
  <2> QED
      BY <1>6, <2>1, <2>2, <2>3 DEF NodeShape
<1>8. h[node] < h[inner] /\ inner # node /\ inner # new
  <2>1. h[node] < h[inner]
      BY <1>5, <1>7
  <2>2. h[new] <= h[node] /\ h[new] \in Nat /\ h[node] \in Nat /\ h[inner] \in Nat
      BY <1>1, <1>7 DEF Waits
  <2> QED
      BY <2>1, <2>2
<1>9. \A i \in 1 .. Len(r.kids) : i # p => r.kids[i] # node
    BY <1>5, <1>7, KidsDiffer
<1>10. sk \in Keys /\ sk \in S[node] /\ (\A k \in S[node] : k <= sk) /\ (\A k \in S[new] : sk < k) /\ sk \notin SepsOf(r)
    BY <1>1, <1>4 DEF Waits
<1>11. /\ w = [keys |-> w.keys, kids |-> w.kids]
       /\ Serves(w, S[inner], S) /\ Len(w.keys) = Len(r.keys) + 1 /\ Len(w.kids) = Len(r.kids) + 1
       /\ \A i \in 1 .. Len(w.keys) :
            w.keys[i] = IF i < p THEN r.keys[i] ELSE IF i = p THEN sk ELSE r.keys[i - 1]
       /\ \A i \in 1 .. Len(w.kids) :
            w.kids[i] = IF i < p + 1 THEN r.kids[i] ELSE IF i = p + 1 THEN new ELSE r.kids[i - 1]
  <2> DEFINE D == S[inner]
             rr == r
  <2>1. Serves(rr, D, View(S, node, new)) /\ D \in SUBSET Keys
      BY <1>7 DEF V
  <2>2. \A i \in 1 .. Len(rr.kids) : rr.kids[i] # new /\ (i # p => rr.kids[i] # node)
      BY <1>7, <1>9
  <2>3. p \in 1 .. Len(rr.kids) /\ rr.kids[p] = node /\ sk \notin SepsOf(rr)
      BY <1>5, <1>10
  <2> HIDE DEF D, rr
  <2>4. Serves(Widened(rr, sk, new), D, S) /\ IsWidened(Widened(rr, sk, new), rr, sk, new, p)
      BY ONLY <1>1, <1>10, <2>1, <2>2, <2>3, WidenedIs
  <2> QED
      BY <2>4 DEF D, rr, IsWidened
<1>12. Len(r.kids) \in Nat /\ Len(r.keys) \in Nat /\ Len(r.kids) = Len(r.keys) + 1
    BY <1>7, LenProperties DEF Serves
<1> HIDE DEF w, r
<1>13. \A i \in 1 .. Len(w.kids) :
         w.kids[i] \in Ids /\ S[w.kids[i]] # {} /\ t.parent[w.kids[i]] = inner /\ h[w.kids[i]] < h[inner]
  <2> TAKE i \in 1 .. Len(w.kids)
  <2>1. \A j \in 1 .. Len(r.kids) : S[r.kids[j]] # {}
      BY <1>2, <1>7
  <2>2. t.parent[new] = inner /\ h[new] < h[inner]
    <3>1. h[new] <= h[node] /\ t.parent[new] = inner
        BY DEF Waits, inner
    <3>2. h[new] \in Nat /\ h[node] \in Nat /\ h[inner] \in Nat
        BY <1>1, <1>7
    <3> QED
        BY <1>8, <3>1, <3>2
  <2>3. i < p + 1 => i \in 1 .. Len(r.kids)
      BY <1>11, <1>12
  <2>4. i > p + 1 => i - 1 \in 1 .. Len(r.kids)
      BY <1>11, <1>12
  <2>5. w.kids[i] = new \/ \E j \in 1 .. Len(r.kids) : w.kids[i] = r.kids[j]
    <3>1. i < p + 1 \/ i = p + 1 \/ (i > p + 1 /\ ~(i < p + 1) /\ i # p + 1)
        BY <1>11, <1>12
    <3> QED
        BY <1>11, <2>3, <2>4, <3>1
  <2> QED
      BY <1>1, <1>2, <1>7, <2>1, <2>2, <2>5
<1>14. ASSUME NEW c \in Ids, S[c] # {}, t.parent[c] = inner PROVE \E i \in 1 .. Len(w.kids) : w.kids[i] = c
  <2>1. CASE c = new
    <3>1. p + 1 \in 1 .. Len(w.kids)
        BY <1>11, <1>12
    <3> QED
        BY <1>11, <2>1, <3>1
  <2>2. CASE c # new
    <3>1. c # t.top
      <4>1. t.parent[t.top] = Null /\ inner \in InnerIds
          BY <1>1, <1>4 DEF Shape, Used
      <4> QED
          BY <1>14, <4>1, IdsAssumption
    <3>2. PICK j \in 1 .. Len(r.kids) : r.kids[j] = c
        BY <1>1, <1>14, <2>2, <3>1 DEF Shape, KidOfParent, r
    <3>3. CASE j < p + 1
      <4>1. j \in 1 .. Len(w.kids)
          BY <1>11, <1>12
      <4> QED
          BY <1>11, <3>2, <3>3, <4>1
    <3>4. CASE ~(j < p + 1)
      <4>1. j + 1 \in 1 .. Len(w.kids) /\ ~(j + 1 < p + 1) /\ j + 1 # p + 1 /\ (j + 1) - 1 = j
          BY <1>11, <1>12, <3>4
      <4> QED
          BY <1>11, <3>2, <4>1
    <3> QED
        BY <3>3, <3>4
  <2> QED
      BY <2>1, <2>2
<1>15. ASSUME NEW q \in SepsOf(w) PROVE q \in SepsOf(r) \/ q = sk
  <2>1. PICK i \in 1 .. Len(w.keys) : q = w.keys[i]
      BY DEF SepsOf
  <2>2. i < p => i \in 1 .. Len(r.keys)
      BY <1>11, <1>12
  <2>3. i > p => i - 1 \in 1 .. Len(r.keys)
      BY <1>11, <1>12
  <2>4. i < p \/ i = p \/ (i > p /\ ~(i < p) /\ i # p)
      BY <1>11, <1>12
  <2> QED
      BY <1>11, <2>1, <2>2, <2>3, <2>4 DEF SepsOf
<1>16. ASSUME NEW n \in Used(t) \ {inner} PROVE NodeShape(t, S, S, h, {}, n)
  <2>1. NodeShape(t, S, V, h, {new}, n)
      BY <1>1 DEF Shape
  <2>2. Serves(t.inner[n], S[n], V) /\ \A i \in 1 .. Len(t.inner[n].kids) : t.inner[n].kids[i] \in Ids
    <3>1. Serves(t.inner[n], S[n], V)
        BY <2>1 DEF NodeShape
    <3> QED
        BY <3>1, ElementOfSeq DEF Serves
  <2>3. \A i \in 1 .. Len(t.inner[n].kids) : V[t.inner[n].kids[i]] = S[t.inner[n].kids[i]]
    <3> TAKE i \in 1 .. Len(t.inner[n].kids)
    <3>1. t.parent[t.inner[n].kids[i]] = n
        BY <2>1 DEF NodeShape
    <3>2. t.inner[n].kids[i] # node
        BY <3>1 DEF inner
    <3> QED
        BY <1>2, <2>2, <3>2
  <2>4. Serves(t.inner[n], S[n], S)
      BY <2>2, <2>3 DEF Serves
  <2> QED
      BY <2>1, <2>3, <2>4 DEF NodeShape
<1>17. w \in [keys : Seq(Keys), kids : Seq(Ids)]
  <2>1. w.keys \in Seq(S[inner]) /\ w.kids \in Seq(Ids)
      BY <1>11 DEF Serves
  <2>2. w.keys \in Seq(Keys)
      BY <1>7, <2>1, SeqMonotonic
  <2> QED
      BY <1>11, <2>1, <2>2
<1> QED
    BY <1>3, <1>4, <1>7, <1>8, <1>11, <1>13, <1>14, <1>15, <1>16, <1>17 DEF inner, r, w, TakesIn, IsWidened

\* The top was split: a new top links the two halves.
LEMMA NewTopIs ==
  ASSUME NEW t, NEW S, NEW h, NEW node, NEW new, NEW sk, Waits(t, S, h, node, new, sk), Partition(S),
         t.parent[node] = Null
  PROVE  \E S2, h2 : Linked(NewTop(t, node, new, sk), S2, h2) /\ \A l \in LeafIds : S2[l] = S[l]
<1> DEFINE top == FreshInner(t)
           V == View(S, node, new)
           t2 == NewTop(t, node, new, sk)
           S2 == [S EXCEPT ![top] = Keys]
           h2 == [h EXCEPT ![top] = h[node] + 1]
           r == [keys |-> <<sk>>, kids |-> <<node, new>>]
<1>1. /\ Shape(t, S, V, h, {new}) /\ node \in Ids /\ new \in Ids /\ node # new
      /\ S \in [Ids -> SUBSET Keys] /\ V \in [Ids -> SUBSET Keys] /\ h \in [Ids -> Nat] /\ t.top # new
      /\ Keys \subseteq Int /\ sk \in S[node] /\ sk \in Keys /\ S[new] # {} /\ h[new] <= h[node]
      /\ Typed(t)
    BY NamesAssumption DEF Waits, Shape
<1>2. V[node] = S[node] \cup S[new] /\ (\A c \in Ids : c # node => V[c] = S[c])
    BY <1>1 DEF View, Waits
<1>3. node = t.top
  <2> SUFFICES ASSUME node # t.top PROVE FALSE
      OBVIOUS
  <2>1. t.parent[node] \in InnerIds
      BY <1>1 DEF Shape, KidOfParent, Used
  <2> QED
      BY <2>1, IdsAssumption
<1>4. S[node] \cup S[new] = Keys
    BY <1>1, <1>2, <1>3 DEF Shape
<1>5. /\ top \in InnerIds /\ top \notin Used(t) /\ top \in Ids /\ Cardinality(Used(t)) \in Nat
      /\ Cardinality(Used(t) \cup {top}) = Cardinality(Used(t)) + 1
    BY FreshIs DEF Ids
<1>6. S[top] = {} /\ top # node /\ top # new /\ t.parent[top] = Null
    BY <1>1, <1>5 DEF Shape
<1>7. /\ t2.top = top /\ t2.inner = [t.inner EXCEPT ![top] = r]
      /\ t2.parent = [t.parent EXCEPT ![node] = top, ![new] = top]
      /\ t2 = [top |-> t2.top, inner |-> t2.inner, parent |-> t2.parent]
    BY DEF NewTop
<1> HIDE DEF top, t2, V
<1>8. /\ t.inner \in [InnerIds -> [keys : Seq(Keys), kids : Seq(Ids)]]
      /\ t.parent \in [Ids -> InnerIds \cup {Null}]
    BY <1>1 DEF Typed
<1>9. /\ t2.inner[top] = r /\ \A n \in InnerIds : n # top => t2.inner[n] = t.inner[n]
      /\ t2.parent[node] = top /\ t2.parent[new] = top
      /\ \A c \in Ids : c # node /\ c # new => t2.parent[c] = t.parent[c]
      /\ S2[top] = Keys /\ \A c \in Ids : c # top => S2[c] = S[c]
      /\ h2[top] = h[node] + 1 /\ \A c \in Ids : c # top => h2[c] = h[c]
    BY <1>1, <1>5, <1>6, <1>7, <1>8
<1>10. Typed(t2) /\ S2 \in [Ids -> SUBSET Keys] /\ h2 \in [Ids -> Nat]
  <2>1. r \in [keys : Seq(Keys), kids : Seq(Ids)]
      BY <1>1
  <2>2. t2.inner \in [InnerIds -> [keys : Seq(Keys), kids : Seq(Ids)]]
    <3> HIDE DEF r
    <3> QED
        BY <1>5, <1>7, <1>8, <2>1
  <2>3. t2.parent \in [Ids -> InnerIds \cup {Null}] /\ t2.top \in Ids \cup {Null}
    <3> DEFINE P == InnerIds \cup {Null}
    <3>1. top \in P /\ t.parent \in [Ids -> P]
        BY <1>5, <1>8
    <3> HIDE DEF P
    <3>2. t2.parent \in [Ids -> P]
        BY <1>7, <3>1
    <3> QED
        BY <1>5, <1>7, <3>2 DEF P
  <2>4. Typed(t2)
      BY <1>7, <2>2, <2>3 DEF Typed
  <2>5. S2 \in [Ids -> SUBSET Keys] /\ h2 \in [Ids -> Nat]
      BY <1>1, <1>5
  <2> QED
      BY <2>4, <2>5
<1> HIDE DEF S2, h2
<1>11. Used(t2) = Used(t) \cup {top}
  <2>1. r.kids # <<>>
      OBVIOUS
  <2> HIDE DEF r
  <2> QED
      BY <1>5, <1>9, <2>1 DEF Used
<1>12. Serves(r, Keys, S2)
  <2>1. \A k \in S[node] : k <= sk
      BY DEF Waits
  <2>2. \A k \in S[new] : sk < k
      BY DEF Waits
  <2>3. \A k \in Keys : (k \in S[node] <=> k <= sk) /\ (k \in S[new] <=> sk < k)
    <3> TAKE k \in Keys
    <3>1. k \in Int /\ sk \in Int /\ (k \in S[node] \/ k \in S[new])
        BY <1>1, <1>4
    <3>2. k <= sk <=> ~(sk < k)
        BY <3>1
    <3> QED
        BY <2>1, <2>2, <3>1, <3>2
  <2>4. S[node] \in SUBSET Keys /\ S[new] \in SUBSET Keys
      BY <1>1
  <2>5. S2[node] = {k \in Keys : Fits(r, 1, k)} /\ S2[new] = {k \in Keys : Fits(r, 2, k)}
    <3>1. \A k \in Keys : (Fits(r, 1, k) <=> k <= sk) /\ (Fits(r, 2, k) <=> sk < k)
        BY DEF Fits
    <3>2. S2[node] = S[node] /\ S2[new] = S[new]
        BY <1>1, <1>6, <1>9
    <3> HIDE DEF r
    <3> QED
        BY <2>3, <2>4, <3>1, <3>2
  <2>6. r.keys \in Seq(Keys) /\ r.kids \in Seq(Ids) /\ Len(r.keys) = 1 /\ Len(r.kids) = 2
      BY <1>1
  <2>7. Rising(r.keys)
      BY <2>6 DEF Rising
  <2>8. ASSUME NEW i \in 1 .. Len(r.kids) PROVE S2[r.kids[i]] = {k \in Keys : Fits(r, i, k)}
    <3>1. i = 1 \/ i = 2
        BY <2>6
    <3>2. r.kids[1] = node /\ r.kids[2] = new
        OBVIOUS
    <3> HIDE DEF r
    <3> QED
        BY <2>5, <3>1, <3>2
  <2> HIDE DEF r
  <2> QED
      BY <2>6, <2>7, <2>8 DEF Serves
<1>13. NodeShape(t2, S2, S2, h2, {}, top)
  <2>1. Len(r.keys) \in 1 .. InnerKeys /\ Len(r.kids) = 2
      BY SizesAssumption
  <2>2. ASSUME NEW c \in {node, new}
        PROVE  S2[c] # {} /\ t2.parent[c] = top /\ h2[c] < h2[top]
    <3>1. h[node] < h[node] + 1 /\ h[new] < h[node] + 1
        BY <1>1
    <3> QED
        BY <1>1, <1>6, <1>9, <3>1
  <2>3. \A i \in 1 .. Len(r.kids) : r.kids[i] \in {node, new}
      BY <2>1
  <2> HIDE DEF r
  <2> QED
      BY <1>9, <1>12, <2>1, <2>2, <2>3 DEF NodeShape
<1>14. ASSUME NEW n \in Used(t) PROVE NodeShape(t2, S2, S2, h2, {}, n)
  <2>1. NodeShape(t, S, V, h, {new}, n) /\ n \in InnerIds /\ n # top /\ n \in Ids
      BY <1>1, <1>5 DEF Shape, Used, Ids
  <2>2. t2.inner[n] = t.inner[n] /\ S2[n] = S[n] /\ h2[n] = h[n]
      BY <1>9, <2>1
  <2>3. \A i \in 1 .. Len(t.inner[n].kids) : t.inner[n].kids[i] \in Ids
      BY <2>1, ElementOfSeq DEF NodeShape, Serves
  <2>4. ASSUME NEW i \in 1 .. Len(t.inner[n].kids)
        PROVE  LET c == t.inner[n].kids[i] IN
               /\ S2[c] = V[c] /\ V[c] # {} /\ t2.parent[c] = n /\ h2[c] < h2[n]
    <3> DEFINE c == t.inner[n].kids[i]
    <3>1. c # new /\ V[c] # {} /\ t.parent[c] = n /\ h[c] < h[n] /\ c \in Ids
        BY <2>1, <2>3 DEF NodeShape
    <3>2. c # node
        BY <2>1, <3>1, IdsAssumption
    <3>3. c # top
        BY <1>2, <1>6, <3>1, <3>2
    <3> HIDE DEF c
    <3>4. S2[c] = V[c] /\ V[c] # {} /\ t2.parent[c] = n /\ h2[c] < h2[n]
        BY <1>2, <1>9, <2>2, <3>1, <3>2, <3>3
    <3> QED
        BY <3>4 DEF c
  <2>5. Serves(t.inner[n], S[n], S2)
      BY <2>1, <2>4 DEF NodeShape, Serves
  <2> QED
      BY <2>1, <2>2, <2>4, <2>5 DEF NodeShape
<1>15. ASSUME NEW c \in Ids, S2[c] # {}, c # t2.top PROVE KidOfParent(t2, c)
  <2>1. c # top /\ S[c] # {}
      BY <1>7, <1>9, <1>15
  <2>2. CASE c = node \/ c = new
    <3>1. r.kids[1] = node /\ r.kids[2] = new /\ 1 \in 1 .. Len(r.kids) /\ 2 \in 1 .. Len(r.kids)
        OBVIOUS
    <3> HIDE DEF r
    <3> QED
        BY <1>9, <1>11, <2>2, <3>1 DEF KidOfParent
  <2>3. CASE c # node /\ c # new
    <3>1. KidOfParent(t, c)
        BY <1>1, <1>3, <2>1, <2>3 DEF Shape
    <3>2. t2.parent[c] = t.parent[c] /\ t.parent[c] \in InnerIds /\ t.parent[c] # top
        BY <1>5, <1>9, <2>3, <3>1 DEF KidOfParent, Used
    <3> QED
        BY <1>9, <1>11, <3>1, <3>2 DEF KidOfParent
  <2> QED
      BY <2>2, <2>3
<1>16. SepsOf(r) = {sk}
    BY DEF SepsOf
<1>17. /\ Ends(sk, S) /\ (\A n \in Used(t) : sk \notin SepsOf(t.inner[n]))
       /\ \A q : Ends(q, S2) <=> Ends(q, S)
  <2>1. \A l \in LeafIds : S2[l] = S[l]
      BY <1>5, <1>9, IdsAssumption DEF Ids
  <2> QED
      BY <2>1 DEF Waits, Ends
<1>18. ASSUME NEW n \in Used(t2), NEW m \in Used(t2), n # m
       PROVE  SepsOf(t2.inner[n]) \cap SepsOf(t2.inner[m]) = {}
  <2>1. \A a, b \in Used(t) : a # b => SepsOf(t.inner[a]) \cap SepsOf(t.inner[b]) = {}
      BY <1>1 DEF Shape
  <2>2. \A a \in Used(t) : t2.inner[a] = t.inner[a]
      BY <1>5, <1>9 DEF Used
  <2> HIDE DEF r
  <2> QED
      BY <1>9, <1>11, <1>16, <1>17, <1>18, <2>1, <2>2
<1>19. ASSUME NEW n \in Used(t2), NEW q \in SepsOf(t2.inner[n]) PROVE Ends(q, S2)
  <2>1. \A a \in Used(t) : \A b \in SepsOf(t.inner[a]) : Ends(b, S)
      BY <1>1 DEF Shape
  <2>2. \A a \in Used(t) : t2.inner[a] = t.inner[a]
      BY <1>5, <1>9 DEF Used
  <2> HIDE DEF r
  <2> QED
      BY <1>9, <1>11, <1>16, <1>17, <2>1, <2>2
<1>20. \A c \in Ids : h2[c] <= Cardinality(Used(t2))
  <2>1. \A c \in Ids : h[c] <= Cardinality(Used(t)) /\ h[c] \in Nat
      BY <1>1 DEF Shape
  <2>2. Cardinality(Used(t2)) = Cardinality(Used(t)) + 1
      BY <1>5, <1>11
  <2> QED
      BY <1>1, <1>5, <1>9, <2>1, <2>2
<1>21. \A n \in InnerIds \ Used(t2) : S2[n] = {} /\ t2.parent[n] = Null
  <2> TAKE n \in InnerIds \ Used(t2)
  <2>1. n \in InnerIds \ Used(t) /\ n # top /\ n \in Ids
      BY <1>11 DEF Ids
  <2>2. S[n] = {} /\ t.parent[n] = Null
      BY <1>1, <2>1 DEF Shape
  <2> QED
      BY <1>1, <1>9, <2>1, <2>2
<1>22. t2.top \in Ids /\ S2[t2.top] = Keys /\ t2.parent[t2.top] = Null
    BY <1>5, <1>6, <1>7, <1>9
<1>23. \A l \in LeafIds : S2[l] = S[l]
    BY <1>5, <1>9, IdsAssumption DEF Ids
<1>24. Linked(t2, S2, h2)
    BY <1>10, <1>11, <1>13, <1>14, <1>15, <1>18, <1>19, <1>20, <1>21, <1>22 DEF Linked, Shape
<1> QED
    BY <1>23, <1>24 DEF t2

\* The parent has room: it takes the new node in and the tree is linked.
LEMMA RoomIs ==
  ASSUME NEW t, NEW S, NEW h, NEW node, NEW new, NEW sk, Waits(t, S, h, node, new, sk),
         NEW inner, inner = t.parent[node], inner # Null,
         NEW w, w = Widened(t.inner[inner], sk, new), Len(w.keys) <= InnerKeys,
         NEW t2, t2 = [t EXCEPT !.inner[inner] = w]
  PROVE  Linked(t2, S, h)
<1> DEFINE r == t.inner[inner]
           V == View(S, node, new)
<1>1. /\ Shape(t, S, V, h, {new}) /\ node \in Ids /\ new \in Ids /\ node # new
      /\ S \in [Ids -> SUBSET Keys] /\ h \in [Ids -> Nat] /\ t.top # new /\ Typed(t)
      /\ t.parent[new] = inner
    BY DEF Waits, Shape
<1>2. V[node] = S[node] \cup S[new] /\ \A c \in Ids : c # node => V[c] = S[c]
    BY <1>1 DEF View, Waits
<1>2a. TakesIn(t, S, h, node, sk, inner, w) /\ inner # new
  <2>1. t.parent[node] # Null
      OBVIOUS
  <2> QED
      BY ONLY <2>1, ParentIs, Waits(t, S, h, node, new, sk), inner = t.parent[node], w = Widened(t.inner[inner], sk, new)
<1>3. /\ inner \in Used(t) /\ inner # node /\ inner # new /\ node # t.top /\ h[node] < h[inner]
      /\ Len(w.keys) = Len(r.keys) + 1 /\ Len(r.keys) \in 1 .. InnerKeys
    BY <1>2a DEF TakesIn
<1>3a. w \in [keys : Seq(Keys), kids : Seq(Ids)] /\ Serves(w, S[inner], S)
    BY <1>2a DEF TakesIn
<1>3b. \A i \in 1 .. Len(w.kids) :
         w.kids[i] \in Ids /\ S[w.kids[i]] # {} /\ t.parent[w.kids[i]] = inner /\ h[w.kids[i]] < h[inner]
    BY <1>2a DEF TakesIn
<1>3c. \A c \in Ids : S[c] # {} /\ t.parent[c] = inner => \E i \in 1 .. Len(w.kids) : w.kids[i] = c
    BY <1>2a DEF TakesIn
<1>3d. \A q \in SepsOf(w) : q \in SepsOf(r) \/ q = sk
    BY <1>2a DEF TakesIn
<1>3e. \A n \in Used(t) \ {inner} : NodeShape(t, S, S, h, {}, n)
    BY <1>2a DEF TakesIn
<1> HIDE DEF V
<1>4. inner \in InnerIds /\ t.inner \in [InnerIds -> [keys : Seq(Keys), kids : Seq(Ids)]]
    BY <1>1, <1>3 DEF Typed, Used
<1>5. t2.top = t.top /\ t2.parent = t.parent /\ t2.inner = [t.inner EXCEPT ![inner] = w]
    BY <1>1 DEF Typed
<1>6. t2.inner[inner] = w /\ \A n \in InnerIds : n # inner => t2.inner[n] = t.inner[n]
    BY <1>4, <1>5
<1>7. Typed(t2)
  <2>1. t2.inner \in [InnerIds -> [keys : Seq(Keys), kids : Seq(Ids)]]
      BY <1>3a, <1>4, <1>5
  <2>2. t2 = [t EXCEPT !.inner = [t.inner EXCEPT ![inner] = w]]
      BY <1>1 DEF Typed
  <2> QED
      BY <1>1, <1>5, <2>1, <2>2 DEF Typed
<1>8. Used(t2) = Used(t)
  <2>1. w.kids # <<>>
    <3>1. Len(w.kids) = Len(w.keys) + 1 /\ Len(w.keys) \in Nat
        BY <1>3a, LenProperties DEF Serves
    <3> QED
        BY <3>1, EmptySeq
  <2> QED
      BY <1>3, <1>4, <1>6, <2>1 DEF Used
<1>9. ASSUME NEW n \in Used(t2) PROVE NodeShape(t2, S, S, h, {}, n)
  <2>1. CASE n = inner
    <3>1. Len(w.keys) \in 1 .. InnerKeys
        BY ONLY <1>3, SizesAssumption, Len(w.keys) <= InnerKeys
    <3>2. \A i \in 1 .. Len(w.kids) :
            w.kids[i] \notin {} /\ S[w.kids[i]] # {} /\ t2.parent[w.kids[i]] = inner /\ h[w.kids[i]] < h[inner]
        BY <1>3b, <1>5
    <3> QED
        BY ONLY <1>3a, <1>6, <2>1, <3>1, <3>2 DEF NodeShape
  <2>2. CASE n # inner
    <3>1. t2.inner[n] = t.inner[n] /\ NodeShape(t, S, S, h, {}, n)
        BY <1>3e, <1>6, <1>8, <2>2 DEF Used
    <3> QED
        BY <1>5, <3>1 DEF NodeShape
  <2> QED
      BY <2>1, <2>2
<1>10. ASSUME NEW c \in Ids, S[c] # {}, c # t2.top PROVE KidOfParent(t2, c)
  <2>1. CASE t.parent[c] = inner
    <3>1. t2.parent[c] = inner /\ inner \in Used(t2) /\ t2.inner[inner] = w
        BY <1>3, <1>5, <1>6, <1>8, <2>1
    <3>2. \E i \in 1 .. Len(w.kids) : w.kids[i] = c
        BY <1>3c, <1>10, <2>1
    <3> QED
        BY ONLY <3>1, <3>2 DEF KidOfParent
  <2>2. CASE t.parent[c] # inner
    <3>1. KidOfParent(t, c)
        BY <1>1, <1>5, <1>10, <2>2 DEF Shape
    <3>2. t2.inner[t.parent[c]] = t.inner[t.parent[c]]
        BY <1>6, <2>2, <3>1 DEF KidOfParent, Used
    <3> QED
        BY <1>5, <1>8, <3>1, <3>2 DEF KidOfParent
  <2> QED
      BY <2>1, <2>2
<1>11. ASSUME NEW n \in Used(t2), NEW m \in Used(t2), n # m
       PROVE  SepsOf(t2.inner[n]) \cap SepsOf(t2.inner[m]) = {}
  <2>1. \A a, b \in Used(t) : a # b => SepsOf(t.inner[a]) \cap SepsOf(t.inner[b]) = {}
      BY <1>1 DEF Shape
  <2>2. \A a \in Used(t) : a # inner => t2.inner[a] = t.inner[a]
      BY <1>6 DEF Used
  <2>3. \A a \in Used(t) : sk \notin SepsOf(t.inner[a])
      BY DEF Waits
  <2> QED
      BY <1>3d, <1>6, <1>8, <1>11, <2>1, <2>2, <2>3
<1>12. ASSUME NEW n \in Used(t2), NEW q \in SepsOf(t2.inner[n]) PROVE Ends(q, S)
  <2>1. \A a \in Used(t) : \A b \in SepsOf(t.inner[a]) : Ends(b, S)
      BY <1>1 DEF Shape
  <2>2. \A a \in Used(t) : a # inner => t2.inner[a] = t.inner[a]
      BY <1>6 DEF Used
  <2>3. Ends(sk, S)
      BY DEF Waits
  <2> QED
      BY <1>3d, <1>6, <1>8, <1>12, <2>1, <2>2, <2>3
<1>13. t2.top \in Ids /\ S[t2.top] = Keys /\ t2.parent[t2.top] = Null
    BY <1>1, <1>2, <1>3, <1>5 DEF Shape
<1>14. \A n \in InnerIds \ Used(t2) : S[n] = {} /\ t2.parent[n] = Null
    BY <1>1, <1>5, <1>8 DEF Shape
<1>15. \A c \in Ids : h[c] <= Cardinality(Used(t2))
    BY <1>1, <1>8 DEF Shape
<1> QED
    BY <1>1, <1>7, <1>9, <1>10, <1>11, <1>12, <1>13, <1>14, <1>15 DEF Linked, Shape

\* The upper half of w, which was put in place of inner, is moved to ni.
IsHalved(t2, t, inner, w, ni) ==
  t2 = [t EXCEPT
          !.inner  = [@ EXCEPT ![inner] = Lower(w), ![ni] = Upper(w)],
          !.parent = Adopted([@ EXCEPT ![ni] = t.parent[inner]], Upper(w).kids, ni)]

\* The parent is full: its upper half goes to a node of its own, which waits
\* for the parent's parent to take it in.
Splits(t2, S, h, node, inner, ni, w) ==
  \E S2, h2 : /\ Waits(t2, S2, h2, inner, ni, w.keys[InnerMidpoint + 1])
              /\ h[node] < h2[inner] /\ Agrees(S2, S)

LEMMA SplitIs ==
  ASSUME NEW t, NEW S, NEW h, NEW node, NEW new, NEW sk, Waits(t, S, h, node, new, sk), Partition(S),
         NEW inner, inner = t.parent[node], inner # Null,
         NEW w, w = Widened(t.inner[inner], sk, new), ~(Len(w.keys) <= InnerKeys),
         NEW ni, ni = FreshInner(t),
         NEW t2, IsHalved(t2, t, inner, w, ni)
  PROVE  Splits(t2, S, h, node, inner, ni, w)
<1> DEFINE r == t.inner[inner]
           V == View(S, node, new)
           m == InnerMidpoint
           sep == w.keys[m + 1]
           low == Lower(w)
           up == Upper(w)
           S2 == [S EXCEPT ![inner] = {k \in S[inner] : k <= sep}, ![ni] = {k \in S[inner] : sep < k}]
           h2 == [h EXCEPT ![ni] = h[inner]]
           V2 == View(S2, inner, ni)
<1>1. /\ Shape(t, S, V, h, {new}) /\ node \in Ids /\ new \in Ids /\ node # new
      /\ S \in [Ids -> SUBSET Keys] /\ h \in [Ids -> Nat] /\ t.top # new /\ Typed(t)
      /\ t.parent[new] = inner /\ S[node] # {} /\ S[new] # {} /\ sk \in Keys /\ Keys \subseteq Int
    BY NamesAssumption DEF Waits, Shape
<1>2. V[node] = S[node] \cup S[new] /\ \A c \in Ids : c # node => V[c] = S[c]
    BY <1>1 DEF View, Waits
<1>2a. TakesIn(t, S, h, node, sk, inner, w) /\ inner # new
  <2>1. t.parent[node] # Null
      OBVIOUS
  <2> QED
      BY ONLY <2>1, ParentIs, Waits(t, S, h, node, new, sk), inner = t.parent[node], w = Widened(t.inner[inner], sk, new)
<1>3. /\ inner \in Used(t) /\ inner # node /\ inner # new /\ node # t.top /\ h[node] < h[inner]
      /\ Len(w.keys) = Len(r.keys) + 1 /\ Len(r.keys) \in 1 .. InnerKeys
    BY <1>2a DEF TakesIn
<1>3a. w \in [keys : Seq(Keys), kids : Seq(Ids)] /\ Serves(w, S[inner], S)
    BY <1>2a DEF TakesIn
<1>3b. \A i \in 1 .. Len(w.kids) :
         w.kids[i] \in Ids /\ S[w.kids[i]] # {} /\ t.parent[w.kids[i]] = inner /\ h[w.kids[i]] < h[inner]
    BY <1>2a DEF TakesIn
<1>3c. \A c \in Ids : S[c] # {} /\ t.parent[c] = inner => \E i \in 1 .. Len(w.kids) : w.kids[i] = c
    BY <1>2a DEF TakesIn
<1>3d. \A q \in SepsOf(w) : q \in SepsOf(r) \/ q = sk
    BY <1>2a DEF TakesIn
<1>3e. \A n \in Used(t) \ {inner} : NodeShape(t, S, S, h, {}, n)
    BY <1>2a DEF TakesIn
<1> HIDE DEF V
<1>4. inner \in InnerIds /\ inner \in Ids /\ Len(w.keys) = InnerKeys + 1 /\ S[inner] \in SUBSET Keys
  <2>1. inner \in InnerIds /\ inner \in Ids
      BY <1>3 DEF Used, Ids
  <2>2. Len(w.keys) = InnerKeys + 1
      BY <1>3, SizesAssumption
  <2> QED
      BY <1>1, <2>1, <2>2
<1>5. /\ m \in Nat \ {0} /\ InnerKeys = 2 * m /\ sep \in S[inner]
      /\ Serves(low, {k \in S[inner] : k <= sep}, S) /\ Serves(up, {k \in S[inner] : sep < k}, S)
      /\ Len(low.keys) = m /\ Len(up.keys) = m
      /\ \A i \in 1 .. m : low.keys[i] = w.keys[i] /\ up.keys[i] = w.keys[m + 1 + i]
      /\ \A i \in 1 .. m + 1 : low.kids[i] = w.kids[i] /\ up.kids[i] = w.kids[m + 1 + i]
    BY ONLY <1>1, <1>3a, <1>4, HalvesAre
<1>6. /\ ni \in InnerIds /\ ni \notin Used(t) /\ ni \in Ids /\ Cardinality(Used(t)) \in Nat
      /\ Cardinality(Used(t) \cup {ni}) = Cardinality(Used(t)) + 1
    BY FreshIs DEF Ids
<1>7. S[ni] = {} /\ ni # node /\ ni # new /\ ni # inner
    BY <1>1, <1>3, <1>6 DEF Shape
<1>8. /\ Len(w.kids) = 2 * m + 2 /\ Len(w.keys) = 2 * m + 1 /\ Len(low.kids) = m + 1 /\ Len(up.kids) = m + 1
      /\ \A i \in 1 .. 2 * m + 1 : w.keys[i] \in S[inner]
      /\ \A i, j \in 1 .. 2 * m + 1 : i < j => w.keys[i] < w.keys[j]
      /\ \A i, j \in 1 .. 2 * m + 2 : i # j => w.kids[i] # w.kids[j]
  <2>1. Len(w.kids) = 2 * m + 2 /\ Len(w.keys) = 2 * m + 1 /\ Len(low.kids) = m + 1 /\ Len(up.kids) = m + 1
    <3>1. Len(w.kids) = Len(w.keys) + 1
        BY <1>3a DEF Serves
    <3> HIDE DEF low, up, m
    <3>2. Len(low.kids) = Len(low.keys) + 1 /\ Len(up.kids) = Len(up.keys) + 1
        BY <1>5 DEF Serves
    <3> QED
        BY ONLY <1>4, <1>5, <3>1, <3>2
  <2>2. \A i, j \in 1 .. 2 * m + 2 : i # j => w.kids[i] # w.kids[j]
    <3>1. \A i, j \in 1 .. Len(w.kids) : i # j => w.kids[i] # w.kids[j]
      <4> DEFINE D == S[inner]
      <4>1. D \in SUBSET Keys /\ Serves(w, D, S) /\ \A i \in 1 .. Len(w.kids) : S[w.kids[i]] # {}
          BY <1>3a, <1>3b, <1>4
      <4> HIDE DEF D
      <4> QED
          BY ONLY <4>1, KidsDiffer
    <3> QED
        BY <2>1, <3>1
  <2>3. \A i \in 1 .. 2 * m + 1 : w.keys[i] \in S[inner]
      BY <1>3a, <2>1, ElementOfSeq DEF Serves
  <2> QED
      BY <1>3a, <2>1, <2>2, <2>3 DEF Serves, Rising
<1>9. /\ t2.top = t.top /\ t2.inner = [t.inner EXCEPT ![inner] = low, ![ni] = up]
      /\ t2.parent = Adopted([t.parent EXCEPT ![ni] = t.parent[inner]], up.kids, ni)
      /\ t2 = [top |-> t2.top, inner |-> t2.inner, parent |-> t2.parent]
    BY <1>1 DEF Typed, IsHalved
<1> HIDE DEF m, low, up
<1>10. ASSUME NEW c \in Ids
       PROVE  t2.parent[c] = IF \E i \in 1 .. m + 1 : up.kids[i] = c THEN ni
                             ELSE IF c = ni THEN t.parent[inner] ELSE t.parent[c]
  <2>1. t.parent \in [Ids -> InnerIds \cup {Null}]
      BY <1>1 DEF Typed
  <2>2. c \in ToSet(up.kids) <=> \E i \in 1 .. m + 1 : up.kids[i] = c
    <3>1. DOMAIN up.kids = 1 .. m + 1
      <4>1. up.kids \in Seq(Ids)
          BY <1>5 DEF Serves
      <4>2. DOMAIN up.kids = 1 .. Len(up.kids)
          BY <4>1, LenProperties
      <4> QED
          BY <1>8, <4>2
    <3> QED
        BY <3>1 DEF ToSet
  <2>3. DOMAIN [t.parent EXCEPT ![ni] = t.parent[inner]] = Ids
      BY <2>1
  <2> QED
      BY <1>9, <2>1, <2>2, <2>3 DEF Adopted
<1> SUFFICES Waits(t2, S2, h2, inner, ni, sep) /\ h[node] < h2[inner] /\ Agrees(S2, S)
    BY DEF m, Splits
<1>11. /\ t2.inner[inner] = low /\ t2.inner[ni] = up
       /\ \A n \in InnerIds : n # inner /\ n # ni => t2.inner[n] = t.inner[n]
  <2>1. t.inner \in [InnerIds -> [keys : Seq(Keys), kids : Seq(Ids)]]
      BY <1>1 DEF Typed
  <2> QED
      BY ONLY <1>4, <1>6, <1>7, <1>9, <2>1
<1>12. /\ S2[inner] = {k \in S[inner] : k <= sep} /\ S2[ni] = {k \in S[inner] : sep < k}
       /\ \A c \in Ids : c # inner /\ c # ni => S2[c] = S[c]
       /\ h2[ni] = h[inner] /\ \A c \in Ids : c # ni => h2[c] = h[c]
       /\ S2 \in [Ids -> SUBSET Keys] /\ h2 \in [Ids -> Nat]
  <2>1. S2[inner] = {k \in S[inner] : k <= sep} /\ S2[ni] = {k \in S[inner] : sep < k}
      BY ONLY <1>1, <1>4, <1>6, <1>7
  <2>2. \A c \in Ids : c # inner /\ c # ni => S2[c] = S[c]
      BY ONLY <1>1, <1>4, <1>6, <1>7
  <2>3. h2[ni] = h[inner] /\ \A c \in Ids : c # ni => h2[c] = h[c]
      BY ONLY <1>1, <1>4, <1>6
  <2>4. S2 \in [Ids -> SUBSET Keys]
    <3> DEFINE A == {k \in S[inner] : k <= sep}
               B == {k \in S[inner] : sep < k}
    <3>1. A \in SUBSET Keys /\ B \in SUBSET Keys
        BY ONLY <1>4
    <3>2. S2 = [S EXCEPT ![inner] = A, ![ni] = B]
        OBVIOUS
    <3> HIDE DEF A, B, S2
    <3> QED
        BY ONLY <1>1, <3>1, <3>2
  <2>5. h2 \in [Ids -> Nat]
      BY ONLY <1>1, <1>4
  <2> QED
      BY ONLY <2>1, <2>2, <2>3, <2>4, <2>5
<1> HIDE DEF S2, h2
<1>13. V2 \in [Ids -> SUBSET Keys] /\ V2[inner] = S[inner] /\ \A c \in Ids : c # inner /\ c # ni => V2[c] = S[c]
  <2>1. V2 = [c \in Ids |-> IF c = inner THEN S2[inner] \cup S2[ni] ELSE S2[c]]
      BY DEF View
  <2>2. S2[inner] \cup S2[ni] = S[inner]
    <3>1. Keys \subseteq Int /\ S[inner] \in SUBSET Keys /\ sep \in S[inner]
        BY ONLY <1>1, <1>4, <1>5
    <3>2. \A k \in S[inner] : k <= sep \/ sep < k
      <4> TAKE k \in S[inner]
      <4>1. k \in Int /\ sep \in Int
          BY ONLY <3>1, k \in S[inner]
      <4> QED
          BY ONLY <4>1
    <3> QED
        BY ONLY <1>12, <3>2
  <2> HIDE DEF V2
  <2>3. V2 \in [Ids -> SUBSET Keys]
      BY ONLY <1>4, <1>12, <2>1, <2>2
  <2> QED
      BY ONLY <1>4, <1>12, <2>1, <2>2, <2>3
<1> HIDE DEF V2
<1>14. Used(t2) = Used(t) \cup {ni}
  <2>1. low.kids # <<>> /\ up.kids # <<>>
    <3>1. Len(low.kids) # 0 /\ Len(up.kids) # 0
        BY ONLY <1>5, <1>8
    <3> QED
        BY ONLY <3>1, EmptySeq
  <2> QED
      BY ONLY <1>3, <1>4, <1>6, <1>11, <2>1 DEF Used
<1>15. \A i \in 1 .. m + 1 : /\ S[low.kids[i]] # {} /\ t.parent[low.kids[i]] = inner /\ h[low.kids[i]] < h[inner]
                             /\ S[up.kids[i]] # {} /\ t.parent[up.kids[i]] = inner /\ h[up.kids[i]] < h[inner]
                             /\ low.kids[i] \in Ids /\ up.kids[i] \in Ids
                             /\ \A j \in 1 .. m + 1 : up.kids[j] # low.kids[i]
  <2> TAKE i \in 1 .. m + 1
  <2>1. i \in 1 .. 2 * m + 2 /\ m + 1 + i \in 1 .. 2 * m + 2 /\ 1 .. 2 * m + 2 = 1 .. Len(w.kids)
      BY ONLY <1>5, <1>8
  <2>2. low.kids[i] = w.kids[i] /\ up.kids[i] = w.kids[m + 1 + i]
      BY ONLY <1>5
  <2>3. ASSUME NEW j \in 1 .. m + 1 PROVE up.kids[j] # low.kids[i]
    <3>1. m + 1 + j \in 1 .. 2 * m + 2 /\ m + 1 + j # i
        BY ONLY <1>5
    <3>2. up.kids[j] = w.kids[m + 1 + j]
        BY ONLY <1>5
    <3> QED
        BY ONLY <1>8, <2>1, <2>2, <3>1, <3>2
  <2>4. /\ S[low.kids[i]] # {} /\ t.parent[low.kids[i]] = inner /\ h[low.kids[i]] < h[inner] /\ low.kids[i] \in Ids
        /\ S[up.kids[i]] # {} /\ t.parent[up.kids[i]] = inner /\ h[up.kids[i]] < h[inner] /\ up.kids[i] \in Ids
      BY ONLY <1>3b, <2>1, <2>2
  <2> QED
      BY ONLY <2>3, <2>4
<1>16. /\ \A i \in 1 .. m + 1 : t2.parent[low.kids[i]] = inner /\ t2.parent[up.kids[i]] = ni
       /\ \A c \in Ids : t.parent[c] # inner /\ c # ni => t2.parent[c] = t.parent[c]
       /\ t2.parent[ni] = t.parent[inner] /\ t2.parent[inner] = t.parent[inner]
  <2>1. ASSUME NEW i \in 1 .. m + 1 PROVE t2.parent[low.kids[i]] = inner /\ t2.parent[up.kids[i]] = ni
    <3>1. low.kids[i] # ni
        BY ONLY <1>7, <1>15
    <3> QED
        BY ONLY <1>10, <1>15, <3>1
  <2>2. ASSUME NEW c \in Ids, t.parent[c] # inner, c # ni PROVE t2.parent[c] = t.parent[c]
      BY ONLY <1>10, <1>15, <2>2
  <2>3. t2.parent[ni] = t.parent[inner]
      BY ONLY <1>6, <1>7, <1>10, <1>15
  <2>4. t.parent[inner] # inner
    <3> SUFFICES ASSUME t.parent[inner] = inner PROVE FALSE
        OBVIOUS
    <3>1. S[inner] # {}
        BY ONLY <1>5
    <3>2. PICK i \in 1 .. Len(w.kids) : w.kids[i] = inner
        BY ONLY <1>3c, <1>4, <3>1, t.parent[inner] = inner
    <3>3. h[inner] < h[inner] /\ h[inner] \in Nat
        BY ONLY <1>1, <1>3b, <1>4, <3>2
    <3> QED
        BY ONLY <3>3
  <2> QED
      BY ONLY <1>4, <1>7, <2>1, <2>2, <2>3, <2>4
<1>17. ASSUME NEW c \in Ids, S[c] # {}, t.parent[c] = inner
       PROVE  (\E i \in 1 .. m + 1 : low.kids[i] = c) \/ (\E i \in 1 .. m + 1 : up.kids[i] = c)
  <2>1. PICK j \in 1 .. Len(w.kids) : w.kids[j] = c
      BY ONLY <1>3c, <1>17
  <2>2. CASE j <= m + 1
    <3>1. j \in 1 .. m + 1
        BY ONLY <1>5, <1>8, <2>2
    <3> QED
        BY ONLY <1>5, <2>1, <3>1
  <2>3. CASE ~(j <= m + 1)
    <3>1. j - (m + 1) \in 1 .. m + 1 /\ m + 1 + (j - (m + 1)) = j
        BY ONLY <1>5, <1>8, <2>3
    <3>2. up.kids[j - (m + 1)] = w.kids[j]
        BY ONLY <1>5, <3>1
    <3> QED
        BY ONLY <2>1, <3>1, <3>2
  <2> QED
      BY ONLY <2>2, <2>3
<1>18. ASSUME NEW c \in Ids, S[c] # {}, c # inner, c # ni PROVE V2[c] = S[c] /\ S2[c] = S[c] /\ h2[c] = h[c]
    BY ONLY <1>12, <1>13, <1>18
<1>19. NodeShape(t2, S2, V2, h2, {ni}, inner)
  <2>1. ASSUME NEW i \in 1 .. m + 1
        PROVE  LET c == low.kids[i] IN
               c # ni /\ V2[c] # {} /\ V2[c] = S[c] /\ t2.parent[c] = inner /\ h2[c] < h2[inner]
    <3>1. low.kids[i] # ni /\ low.kids[i] # inner
        BY ONLY <1>1, <1>4, <1>7, <1>15
    <3> QED
        BY ONLY <1>4, <1>7, <1>12, <1>15, <1>16, <1>18, <3>1
  <2>2. Serves(low, S2[inner], V2)
    <3>1. \A i \in 1 .. Len(low.kids) : V2[low.kids[i]] = S[low.kids[i]]
        BY ONLY <1>8, <2>1
    <3> QED
        BY ONLY <1>5, <1>12, <3>1 DEF Serves
  <2>3. Len(low.keys) \in 1 .. InnerKeys
      BY ONLY <1>5
  <2> QED
      BY ONLY <1>8, <1>11, <2>1, <2>2, <2>3 DEF NodeShape
<1>20. NodeShape(t2, S2, V2, h2, {ni}, ni)
  <2>1. ASSUME NEW i \in 1 .. m + 1
        PROVE  LET c == up.kids[i] IN
               c # ni /\ V2[c] # {} /\ V2[c] = S[c] /\ t2.parent[c] = ni /\ h2[c] < h2[ni]
    <3>1. up.kids[i] # ni /\ up.kids[i] # inner
        BY ONLY <1>1, <1>4, <1>7, <1>15
    <3> QED
        BY ONLY <1>4, <1>7, <1>12, <1>15, <1>16, <1>18, <3>1
  <2>2. Serves(up, S2[ni], V2)
    <3>1. \A i \in 1 .. Len(up.kids) : V2[up.kids[i]] = S[up.kids[i]]
        BY ONLY <1>8, <2>1
    <3> QED
        BY ONLY <1>5, <1>12, <3>1 DEF Serves
  <2>3. Len(up.keys) \in 1 .. InnerKeys
      BY ONLY <1>5
  <2> QED
      BY ONLY <1>8, <1>11, <2>1, <2>2, <2>3 DEF NodeShape
<1>21. ASSUME NEW n \in Used(t) \ {inner} PROVE NodeShape(t2, S2, V2, h2, {ni}, n)
  <2>1. NodeShape(t, S, S, h, {}, n) /\ n \in InnerIds /\ n # ni /\ n \in Ids
      BY ONLY <1>3e, <1>6 DEF Used, Ids
  <2>2. t2.inner[n] = t.inner[n] /\ S2[n] = S[n] /\ h2[n] = h[n]
      BY ONLY <1>11, <1>12, <2>1, n \in Used(t) \ {inner}
  <2>3. ASSUME NEW i \in 1 .. Len(t.inner[n].kids)
        PROVE  LET c == t.inner[n].kids[i] IN
               c # ni /\ V2[c] = S[c] /\ S[c] # {} /\ t2.parent[c] = n /\ h2[c] < h2[n]
    <3> DEFINE c == t.inner[n].kids[i]
    <3>1. c \in Ids /\ S[c] # {} /\ t.parent[c] = n /\ h[c] < h[n]
      <4>1. t.inner[n].kids \in Seq(Ids)
          BY ONLY <2>1 DEF NodeShape, Serves
      <4>2. c \in Ids
          BY ONLY <4>1, <2>3, ElementOfSeq
      <4> QED
          BY ONLY <2>1, <2>3, <4>2 DEF NodeShape
    <3> HIDE DEF c
    <3>2. c # ni
        BY ONLY <1>7, <3>1
    <3>3. V2[c] = S[c]
        BY ONLY <1>13, <3>1, <3>2
    <3>4. t2.parent[c] = n
        BY ONLY <1>16, <3>1, <3>2, n \in Used(t) \ {inner}
    <3>5. h2[c] < h2[n]
        BY ONLY <1>12, <2>2, <3>1, <3>2
    <3> QED
        BY ONLY <3>1, <3>2, <3>3, <3>4, <3>5 DEF c
  <2>4. Serves(t.inner[n], S[n], V2)
      BY ONLY <2>1, <2>3 DEF NodeShape, Serves
  <2>5. Len(t.inner[n].keys) \in 1 .. InnerKeys
      BY ONLY <2>1 DEF NodeShape
  <2> QED
      BY ONLY <2>2, <2>3, <2>4, <2>5 DEF NodeShape
<1>22. ASSUME NEW c \in Ids \ {ni}, S2[c] # {}, c # t2.top PROVE KidOfParent(t2, c)
  <2>1. S[c] # {} /\ c # t.top /\ c # ni
      BY ONLY <1>5, <1>9, <1>12, <1>22
  <2>2. CASE t.parent[c] = inner
    <3>1. (\E i \in 1 .. m + 1 : low.kids[i] = c) \/ (\E i \in 1 .. m + 1 : up.kids[i] = c)
        BY ONLY <1>17, <1>22, <2>1, <2>2
    <3> QED
        BY ONLY <1>3, <1>8, <1>11, <1>14, <1>16, <3>1, SMTT(30) DEF KidOfParent
  <2>3. CASE t.parent[c] # inner
    <3>1. KidOfParent(t, c)
        BY ONLY <1>1, <1>22, <2>1, <2>3 DEF Shape
    <3>2. t2.parent[c] = t.parent[c] /\ t.parent[c] \in Used(t) /\ t.parent[c] # ni /\ t.parent[c] \in InnerIds
        BY ONLY <1>6, <1>16, <1>22, <2>1, <2>3, <3>1 DEF KidOfParent, Used
    <3>3. t2.inner[t.parent[c]] = t.inner[t.parent[c]]
        BY ONLY <1>11, <2>3, <3>2
    <3> QED
        BY ONLY <1>14, <3>1, <3>2, <3>3 DEF KidOfParent
  <2> QED
      BY ONLY <2>2, <2>3
<1>23. /\ \A q \in SepsOf(low) : q \in SepsOf(w) /\ q < sep
       /\ \A q \in SepsOf(up) : q \in SepsOf(w) /\ sep < q
       /\ sep \in SepsOf(w) /\ \A q \in SepsOf(w) : q \in Int
  <2>1. ASSUME NEW i \in 1 .. m PROVE /\ low.keys[i] \in SepsOf(w) /\ low.keys[i] < sep
                                      /\ up.keys[i] \in SepsOf(w) /\ sep < up.keys[i]
    <3>1. i \in 1 .. 2 * m + 1 /\ m + 1 + i \in 1 .. 2 * m + 1 /\ m + 1 \in 1 .. 2 * m + 1
          /\ i < m + 1 /\ m + 1 < m + 1 + i
        BY ONLY <1>5
    <3>2. low.keys[i] = w.keys[i] /\ up.keys[i] = w.keys[m + 1 + i]
        BY ONLY <1>5
    <3> QED
        BY ONLY <1>8, <3>1, <3>2 DEF SepsOf
  <2>2. m + 1 \in 1 .. 2 * m + 1
      BY ONLY <1>5
  <2>3. \A q \in SepsOf(w) : q \in Int
      BY ONLY <1>1, <1>4, <1>8 DEF SepsOf
  <2>4. sep \in SepsOf(w)
      BY ONLY <1>8, <2>2 DEF SepsOf
  <2>5. Len(low.keys) = m /\ Len(up.keys) = m
      BY ONLY <1>5
  <2>6. \A q \in SepsOf(low) : q \in SepsOf(w) /\ q < sep
    <3> TAKE q \in SepsOf(low)
    <3>1. PICK i \in 1 .. m : q = low.keys[i]
        BY ONLY <2>5, q \in SepsOf(low) DEF SepsOf
    <3> QED
        BY ONLY <2>1, <3>1
  <2>7. \A q \in SepsOf(up) : q \in SepsOf(w) /\ sep < q
    <3> TAKE q \in SepsOf(up)
    <3>1. PICK i \in 1 .. m : q = up.keys[i]
        BY ONLY <2>5, q \in SepsOf(up) DEF SepsOf
    <3> QED
        BY ONLY <2>1, <3>1
  <2> QED
      BY ONLY <2>3, <2>4, <2>6, <2>7
<1>24. ASSUME NEW n \in Used(t) \ {inner} PROVE SepsOf(t2.inner[n]) \cap SepsOf(w) = {} /\ t2.inner[n] = t.inner[n]
  <2>1. t2.inner[n] = t.inner[n]
      BY ONLY <1>6, <1>11, n \in Used(t) \ {inner} DEF Used
  <2>2. SepsOf(t.inner[n]) \cap SepsOf(r) = {}
      BY ONLY <1>1, <1>3, n \in Used(t) \ {inner} DEF Shape
  <2>3. sk \notin SepsOf(t.inner[n])
      BY ONLY Waits(t, S, h, node, new, sk), n \in Used(t) \ {inner} DEF Waits
  <2> QED
      BY ONLY <1>3d, <2>1, <2>2, <2>3
<1>25. ASSUME NEW a \in Used(t2), NEW b \in Used(t2), a # b
       PROVE  SepsOf(t2.inner[a]) \cap SepsOf(t2.inner[b]) = {}
  <2>1. \A n \in Used(t) \ {inner} : SepsOf(t2.inner[n]) \cap SepsOf(low) = {} /\ SepsOf(t2.inner[n]) \cap SepsOf(up) = {}
      BY ONLY <1>23, <1>24
  <2>2. SepsOf(low) \cap SepsOf(up) = {}
    <3> SUFFICES ASSUME NEW q \in SepsOf(low), q \in SepsOf(up) PROVE FALSE
        OBVIOUS
    <3>1. q < sep /\ sep < q /\ q \in Int /\ sep \in Int
        BY ONLY <1>23, q \in SepsOf(low), q \in SepsOf(up)
    <3> QED
        BY ONLY <3>1
  <2>3. \A c, d \in Used(t) \ {inner} : c # d => SepsOf(t2.inner[c]) \cap SepsOf(t2.inner[d]) = {}
    <3>1. \A c, d \in Used(t) : c # d => SepsOf(t.inner[c]) \cap SepsOf(t.inner[d]) = {}
        BY ONLY <1>1 DEF Shape
    <3> QED
        BY ONLY <1>24, <3>1
  <2>4. a \in Used(t) \ {inner} \/ a = inner \/ a = ni
      BY ONLY <1>14, a \in Used(t2)
  <2>5. b \in Used(t) \ {inner} \/ b = inner \/ b = ni
      BY ONLY <1>14, b \in Used(t2)
  <2> QED
      BY ONLY <1>11, <1>25, <2>1, <2>2, <2>3, <2>4, <2>5
<1>26. /\ \A q : Ends(q, S2) <=> Ends(q, S)
       /\ \A q \in SepsOf(w) : Ends(q, S)
       /\ \A l \in LeafIds : S2[l] = S[l]
  <2>1. \A l \in LeafIds : S2[l] = S[l]
      BY ONLY <1>4, <1>6, <1>12, IdsAssumption DEF Ids
  <2>2. \A q \in SepsOf(r) : Ends(q, S)
      BY ONLY <1>1, <1>3 DEF Shape
  <2>3. Ends(sk, S)
      BY ONLY Waits(t, S, h, node, new, sk) DEF Waits
  <2>4. \A q : Ends(q, S2) <=> Ends(q, S)
      BY ONLY <2>1 DEF Ends
  <2> QED
      BY ONLY <1>3d, <2>1, <2>2, <2>3, <2>4
<1>27. ASSUME NEW n \in Used(t2), NEW q \in SepsOf(t2.inner[n]) PROVE Ends(q, S2)
  <2>1. \A c \in Used(t) : \A d \in SepsOf(t.inner[c]) : Ends(d, S)
      BY ONLY <1>1 DEF Shape
  <2>2. n \in Used(t) \ {inner} \/ n = inner \/ n = ni
      BY ONLY <1>14, n \in Used(t2)
  <2> QED
      BY ONLY <1>11, <1>23, <1>24, <1>26, <1>27, <2>1, <2>2
<1>28. \A c \in Ids : h2[c] <= Cardinality(Used(t2))
  <2>1. \A c \in Ids : h[c] <= Cardinality(Used(t)) /\ h[c] \in Nat
      BY ONLY <1>1 DEF Shape
  <2>2. \A c \in Ids : h2[c] = h[c] \/ h2[c] = h[inner]
      BY ONLY <1>12
  <2>3. Cardinality(Used(t2)) = Cardinality(Used(t)) + 1
      BY ONLY <1>6, <1>14
  <2> QED
      BY ONLY <1>4, <1>6, <2>1, <2>2, <2>3
<1>29. \A n \in InnerIds \ Used(t2) : S2[n] = {} /\ t2.parent[n] = Null
  <2> TAKE n \in InnerIds \ Used(t2)
  <2>1. n \in InnerIds \ Used(t) /\ n # ni /\ n # inner /\ n \in Ids
      BY ONLY <1>3, <1>14, n \in InnerIds \ Used(t2) DEF Ids
  <2>2. S[n] = {} /\ t.parent[n] = Null
      BY ONLY <1>1, <2>1 DEF Shape
  <2> QED
      BY ONLY <1>12, <1>16, <2>1, <2>2, inner # Null
<1>30. t2.top \in Ids \ {ni} /\ V2[t2.top] = Keys /\ t2.parent[t2.top] = Null
  <2>1. t.top \in Ids /\ t.top # node /\ V[t.top] = Keys /\ t.parent[t.top] = Null
      BY ONLY <1>1, <1>3 DEF Shape
  <2>2. S[t.top] = Keys /\ Keys # {}
      BY ONLY <1>1, <1>2, <2>1
  <2>3. t.top # ni
      BY ONLY <1>7, <2>2
  <2>4. V2[t.top] = Keys
      BY ONLY <1>13, <2>1, <2>2, <2>3
  <2>5. t2.parent[t.top] = Null
      BY ONLY <1>16, <2>1, <2>3, inner # Null
  <2> QED
      BY ONLY <1>9, <2>1, <2>3, <2>4, <2>5
<1>31. Typed(t2)
  <2>1. low \in [keys : Seq(Keys), kids : Seq(Ids)] /\ up \in [keys : Seq(Keys), kids : Seq(Ids)]
    <3>1. /\ low = [keys |-> low.keys, kids |-> low.kids]
          /\ up = [keys |-> up.keys, kids |-> up.kids]
        BY DEF low, up, Lower, Upper
    <3> DEFINE A == {k \in S[inner] : k <= sep}
               B == {k \in S[inner] : sep < k}
    <3>2. A \subseteq Keys /\ B \subseteq Keys
        BY ONLY <1>4
    <3>3. low.keys \in Seq(A) /\ low.kids \in Seq(Ids) /\ up.keys \in Seq(B) /\ up.kids \in Seq(Ids)
        BY ONLY <1>5 DEF Serves
    <3> HIDE DEF A, B
    <3>4. low.keys \in Seq(Keys) /\ up.keys \in Seq(Keys)
        BY ONLY <3>2, <3>3, SeqMonotonic
    <3> QED
        BY ONLY <3>1, <3>3, <3>4
  <2>2. t2.inner \in [InnerIds -> [keys : Seq(Keys), kids : Seq(Ids)]]
    <3>1. t.inner \in [InnerIds -> [keys : Seq(Keys), kids : Seq(Ids)]]
        BY <1>1 DEF Typed
    <3> QED
        BY ONLY <1>9, <2>1, <3>1
  <2>3. t2.parent \in [Ids -> InnerIds \cup {Null}]
    <3>1. t.parent \in [Ids -> InnerIds \cup {Null}]
        BY <1>1 DEF Typed
    <3>2. DOMAIN [t.parent EXCEPT ![ni] = t.parent[inner]] = Ids
        BY ONLY <3>1
    <3>3. t2.parent = [n \in Ids |-> t2.parent[n]]
        BY ONLY <1>9, <3>2 DEF Adopted
    <3>4. \A c \in Ids : t2.parent[c] \in InnerIds \cup {Null}
        BY ONLY <1>4, <1>6, <1>10, <3>1
    <3> QED
        BY ONLY <3>3, <3>4
  <2>4. t2.top \in Ids \cup {Null}
      BY ONLY <1>30
  <2> QED
      BY ONLY <1>9, <2>2, <2>3, <2>4 DEF Typed
<1>32. Shape(t2, S2, V2, h2, {ni})
  <2>1. \A n \in Used(t2) : NodeShape(t2, S2, V2, h2, {ni}, n)
      BY ONLY <1>14, <1>19, <1>20, <1>21
  <2> QED
      BY ONLY <1>12, <1>13, <1>22, <1>25, <1>27, <1>28, <1>29, <1>30, <1>31, <2>1 DEF Shape
<1>33. sep \in S2[inner] /\ (\A k \in S2[inner] : k <= sep) /\ S2[ni] # {} /\ \A k \in S2[ni] : sep < k
  <2>1. sep \in Int /\ sep <= sep
      BY ONLY <1>23
  <2>2. up.keys[1] \in S2[ni]
    <3>1. 1 \in 1 .. Len(up.keys) /\ up.keys \in Seq({k \in S[inner] : sep < k})
        BY ONLY <1>5 DEF Serves
    <3> QED
        BY ONLY <1>12, <3>1, ElementOfSeq
  <2> QED
      BY ONLY <1>5, <1>12, <2>1, <2>2
<1>34. \A n \in Used(t2) : sep \notin SepsOf(t2.inner[n])
  <2> TAKE n \in Used(t2)
  <2>1. n \in Used(t) \ {inner} \/ n = inner \/ n = ni
      BY ONLY <1>14, n \in Used(t2)
  <2>2. sep \in Int /\ ~(sep < sep)
      BY ONLY <1>23
  <2> QED
      BY ONLY <1>11, <1>23, <1>24, <2>1, <2>2
<1>35. h2[ni] <= h2[inner] /\ h[node] < h2[inner]
    BY ONLY <1>1, <1>3, <1>4, <1>7, <1>12
<1>36. Waits(t2, S2, h2, inner, ni, sep)
  <2>1. Shape(t2, S2, View(S2, inner, ni), h2, {ni})
      BY <1>32 DEF V2
  <2>2. Ends(sep, S2)
      BY ONLY <1>23, <1>26
  <2> QED
      BY ONLY <1>4, <1>6, <1>7, <1>16, <1>33, <1>34, <1>35, <2>1, <2>2 DEF Waits
<1> QED
    BY <1>26, <1>35, <1>36 DEF Agrees

-----------------------------------------------------------------------------
(* The way of a split up the tree.  G tells what the leaves serve, which   *)
(* does not change on the way.                                             *)

Trees == [top    : Ids \cup {Null},
          inner  : [InnerIds -> [keys : Seq(Keys), kids : Seq(Ids)]],
          parent : [Ids -> InnerIds \cup {Null}]]
Rounds == [tree : Trees, node : Ids, new : Ids, sk : Keys, done : BOOLEAN]

\* At round d the split is done or waits at a node that far from the leaves.
Climbs(s, G, d) ==
  \E S, h : /\ Agrees(S, G)
            /\ s.done => Linked(s.tree, S, h)
            /\ ~s.done => Waits(s.tree, S, h, s.node, s.new, s.sk) /\ h[s.node] >= d

LEMMA RoundIs ==
  ASSUME NEW G, Partition(G), NEW d \in Nat, NEW s \in Rounds, ~s.done, Climbs(s, G, d)
  PROVE  Insert(s) \in Rounds /\ Climbs(Insert(s), G, d + 1)
<1> DEFINE t == s.tree
           inner == t.parent[s.node]
           w == Widened(t.inner[inner], s.sk, s.new)
           ni == FreshInner(t)
           halved == [t EXCEPT
                        !.inner  = [@ EXCEPT ![inner] = Lower(w), ![ni] = Upper(w)],
                        !.parent = Adopted([@ EXCEPT ![ni] = t.parent[inner]], Upper(w).kids, ni)]
           top2 == NewTop(t, s.node, s.new, s.sk)
           room == [t EXCEPT !.inner[inner] = w]
           sep == w.keys[InnerMidpoint + 1]
<1>1. PICK S, h : /\ Agrees(S, G)
                  /\ Waits(t, S, h, s.node, s.new, s.sk) /\ h[s.node] >= d
    BY DEF Climbs
<1>2. Partition(S)
    BY <1>1 DEF Partition, Agrees
<1>3. s = [tree |-> t, node |-> s.node, new |-> s.new, sk |-> s.sk, done |-> s.done]
      /\ s.node \in Ids /\ s.new \in Ids /\ s.sk \in Keys
    BY DEF Rounds
<1>4. Insert(s) = CASE inner = Null -> [s EXCEPT !.tree = top2, !.done = TRUE]
                    [] inner # Null /\ Len(w.keys) <= InnerKeys -> [s EXCEPT !.tree.inner[inner] = w, !.done = TRUE]
                    [] OTHER -> [tree |-> halved, node |-> inner, new |-> ni, sk |-> sep, done |-> FALSE]
    BY DEF Insert
<1> HIDE DEF t, inner, w, ni, halved, top2, room, sep
<1>5. CASE inner = Null
  <2>1. Insert(s) = [s EXCEPT !.tree = top2, !.done = TRUE]
      BY <1>4, <1>5
  <2>2. Insert(s) = [tree |-> top2, node |-> s.node, new |-> s.new, sk |-> s.sk, done |-> TRUE]
      BY <1>3, <2>1
  <2>3. PICK S2, h2 : Linked(top2, S2, h2) /\ \A l \in LeafIds : S2[l] = S[l]
      BY <1>1, <1>2, <1>5, NewTopIs DEF top2, inner
  <2>4. top2 \in Trees
      BY <2>3 DEF Linked, Shape, Typed, Trees
  <2>5. Insert(s) \in Rounds /\ Insert(s).tree = top2 /\ Insert(s).done = TRUE
      BY <1>3, <2>2, <2>4 DEF Rounds
  <2>6. Agrees(S2, G)
      BY <1>1, <2>3 DEF Agrees
  <2> QED
      BY <2>3, <2>5, <2>6 DEF Climbs
<1>6. CASE inner # Null /\ Len(w.keys) <= InnerKeys
  <2>1. Insert(s) = [s EXCEPT !.tree.inner[inner] = w, !.done = TRUE]
      BY <1>4, <1>6
  <2>2. Insert(s) = [tree |-> room, node |-> s.node, new |-> s.new, sk |-> s.sk, done |-> TRUE]
      BY <1>3, <2>1 DEF room, t
  <2>3. Linked(room, S, h)
      BY <1>1, <1>6, RoomIs DEF room, inner, w
  <2>4. room \in Trees
      BY <2>3 DEF Linked, Shape, Typed, Trees
  <2>5. Insert(s) \in Rounds /\ Insert(s).tree = room /\ Insert(s).done = TRUE
      BY <1>3, <2>2, <2>4 DEF Rounds
  <2> QED
      BY <1>1, <2>3, <2>5 DEF Climbs
<1>7. CASE ~(inner = Null) /\ ~(inner # Null /\ Len(w.keys) <= InnerKeys)
  <2>1. Insert(s) = [tree |-> halved, node |-> inner, new |-> ni, sk |-> sep, done |-> FALSE]
      BY <1>4, <1>7
  <2>2. \E S2, h2 : /\ Waits(halved, S2, h2, inner, ni, sep)
                    /\ h[s.node] < h2[inner] /\ \A l \in LeafIds : S2[l] = S[l]
    <3>1. /\ inner = t.parent[s.node] /\ w = Widened(t.inner[inner], s.sk, s.new) /\ ni = FreshInner(t)
          /\ IsHalved(halved, t, inner, w, ni)
        BY DEF halved, inner, w, ni, IsHalved
    <3>2. \E S2, h2 : /\ Waits(halved, S2, h2, inner, ni, w.keys[InnerMidpoint + 1])
                      /\ h[s.node] < h2[inner] /\ Agrees(S2, S)
      <4> DEFINE a == s.node
                 b == s.new
                 c == s.sk
      <4>1. /\ inner = t.parent[a] /\ w = Widened(t.inner[inner], c, b)
            /\ Waits(t, S, h, a, b, c)
          BY <1>1, <3>1
      <4> HIDE DEF a, b, c
      <4>2. \E S2, h2 : /\ Waits(halved, S2, h2, inner, ni, w.keys[InnerMidpoint + 1])
                        /\ h[a] < h2[inner] /\ Agrees(S2, S)
        <5>1. inner # Null /\ ~(Len(w.keys) <= InnerKeys)
            BY <1>7
        <5>2. Splits(halved, S, h, a, inner, ni, w)
            BY ONLY <1>2, <3>1, <4>1, <5>1, SplitIs
        <5> QED
            BY <5>2 DEF Splits
      <4> QED
          BY <4>2 DEF a
    <3> QED
        BY <3>2 DEF sep, Agrees
  <2>3. PICK S2, h2 : /\ Waits(halved, S2, h2, inner, ni, sep)
                      /\ h[s.node] < h2[inner] /\ \A l \in LeafIds : S2[l] = S[l]
      BY <2>2
  <2>4. halved \in Trees /\ inner \in Ids /\ ni \in Ids /\ sep \in Keys /\ h2[inner] \in Nat
      BY <2>3 DEF Waits, Shape, Typed, Trees
  <2>5. /\ Insert(s) \in Rounds /\ Insert(s).tree = halved /\ Insert(s).done = FALSE
        /\ Insert(s).node = inner /\ Insert(s).new = ni /\ Insert(s).sk = sep
      BY <2>1, <2>4 DEF Rounds
  <2>6. Agrees(S2, G)
      BY <1>1, <2>3 DEF Agrees
  <2>7. h2[inner] >= d + 1
    <3>1. h[s.node] \in Nat
        BY <1>1, <1>3 DEF Waits, Shape
    <3> QED
        BY <1>1, <2>3, <2>4, <3>1
  <2> QED
      BY <2>3, <2>5, <2>6, <2>7 DEF Climbs
<1> QED
    BY <1>5, <1>6, <1>7

\* The tree that InnerUpdateAfterSplit makes is linked, as no node is further
\* from the leaves than there are inner nodes.
LEMMA UpdateIs ==
  ASSUME NEW G, Partition(G), NEW t \in Trees, NEW S, NEW h, Agrees(S, G),
         NEW node, NEW new, NEW sk, Waits(t, S, h, node, new, sk)
  PROVE  /\ InnerUpdateAfterSplit(t, node, new, sk) \in Trees
         /\ \E S2, h2 : Agrees(S2, G) /\ Linked(InnerUpdateAfterSplit(t, node, new, sk), S2, h2)
<1> DEFINE start == [tree |-> t, node |-> node, new |-> new, sk |-> sk, done |-> FALSE]
           Follows(s) == IF s.done THEN s ELSE Insert(s)
           Ups(f) == f = [d \in Nat |-> IF d = 0 THEN start ELSE Follows(f[d - 1])]
           X == {s \in Rounds : \E d \in Nat : Climbs(s, G, d)}
           step == [p \in Nat \X X |-> Follows(p[2])]
<1>1. start \in Rounds /\ Climbs(start, G, 0)
  <2>1. start \in Rounds
      BY DEF Waits, Shape, Rounds
  <2>2. start.tree = t /\ start.done = FALSE /\ start.node = node /\ start.new = new /\ start.sk = sk
      OBVIOUS
  <2>3. h[node] >= 0
      BY DEF Waits, Shape
  <2> HIDE DEF start
  <2> QED
      BY <2>1, <2>2, <2>3 DEF Climbs
<1> HIDE DEF start
<1>2. ASSUME NEW d \in Nat, NEW s \in Rounds, Climbs(s, G, d)
      PROVE  Follows(s) \in Rounds /\ Climbs(Follows(s), G, d + 1)
  <2>1. CASE s.done
      BY <1>2, <2>1 DEF Climbs
  <2>2. CASE ~s.done
      BY <1>2, <2>2, RoundIs
  <2> QED
      BY <2>1, <2>2
<1> HIDE DEF Follows
<1>3. \E f : Ups(f)
  <2>1. start \in X
      BY <1>1
  <2>2. step \in [Nat \X X -> X]
    <3>1. ASSUME NEW s \in X PROVE Follows(s) \in X
      <4>1. PICK d \in Nat : Climbs(s, G, d)
          OBVIOUS
      <4>2. Follows(s) \in Rounds /\ Climbs(Follows(s), G, d + 1) /\ d + 1 \in Nat
          BY <1>2, <4>1
      <4> QED
          BY <4>2
    <3> HIDE DEF X
    <3> QED
        BY <3>1
  <2>3. \A p \in Nat \X X : step[p] = Follows(p[2])
      OBVIOUS
  <2> HIDE DEF X, step
  <2>4. PICK f : Recurs(f, X, start, step)
      BY ONLY <2>1, <2>2, RecursionExists
  <2>4a. f \in [Nat -> X] /\ f[0] = start /\ \A n \in Nat : f[n + 1] = step[<<n, f[n]>>]
      BY <2>4 DEF Recurs
  <2>5. \A d \in Nat : f[d] = IF d = 0 THEN start ELSE Follows(f[d - 1])
    <3> TAKE d \in Nat
    <3>1. CASE d = 0
        BY <2>4a, <3>1
    <3>2. CASE d # 0
      <4>1. d - 1 \in Nat /\ (d - 1) + 1 = d
          BY <3>2
      <4>2. f[d] = step[<<d - 1, f[d - 1]>>]
          BY <2>4a, <4>1
      <4>3. <<d - 1, f[d - 1]>> \in Nat \X X
          BY <2>4a, <4>1
      <4>4. f[d] = Follows(f[d - 1])
          BY <2>3, <4>2, <4>3
      <4> QED
          BY <3>2, <4>4
    <3> QED
        BY <3>1, <3>2
  <2>6. f = [d \in Nat |-> IF d = 0 THEN start ELSE Follows(f[d - 1])]
      BY <2>4a, <2>5
  <2> QED
      BY <2>6
<1> DEFINE Up == CHOOSE f : Ups(f)
<1>4. Ups(Up)
    BY <1>3, Zenon
<1>5. InnerUpdateAfterSplit(t, node, new, sk) = Up[Cardinality(InnerIds) + 1].tree
    BY Zenon DEF InnerUpdateAfterSplit, start, Follows
<1> HIDE DEF Up
<1>6. Up[0] = start /\ \A d \in Nat : Up[d + 1] = Follows(Up[d])
  <2>1. \A d \in Nat : Up[d] = IF d = 0 THEN start ELSE Follows(Up[d - 1])
      BY <1>4
  <2>2. \A d \in Nat : d + 1 \in Nat /\ d + 1 # 0 /\ (d + 1) - 1 = d
      OBVIOUS
  <2> HIDE DEF Ups
  <2> QED
      BY <2>1, <2>2
<1> DEFINE T == {d \in Nat : Up[d] \in Rounds /\ Climbs(Up[d], G, d)}
<1>7. \A d \in Nat : d \in T
  <2>1. 0 \in T
      BY <1>1, <1>6
  <2>2. \A d \in Nat : d \in T => d + 1 \in T
      BY <1>2, <1>6
  <2> HIDE DEF T
  <2> QED
      BY <2>1, <2>2, AllNumbers
<1> DEFINE n == Cardinality(InnerIds) + 1
           s == Up[n]
<1>8. n \in Nat /\ Cardinality(InnerIds) \in Nat
    BY RoomAssumption, FS_CardinalityType
<1>9. s \in Rounds /\ Climbs(s, G, n)
    BY <1>7, <1>8
<1> HIDE DEF s
<1>10. PICK S3, h3 : /\ Agrees(S3, G)
                     /\ s.done => Linked(s.tree, S3, h3)
                     /\ ~s.done => Waits(s.tree, S3, h3, s.node, s.new, s.sk) /\ h3[s.node] >= n
    BY <1>9 DEF Climbs
<1>11. s.done
  <2> SUFFICES ASSUME ~s.done PROVE FALSE
      OBVIOUS
  <2>1. Waits(s.tree, S3, h3, s.node, s.new, s.sk) /\ h3[s.node] >= n
      BY <1>10
  <2>2. h3[s.node] <= Cardinality(Used(s.tree)) /\ h3[s.node] \in Nat
      BY <2>1 DEF Waits, Shape
  <2>3. Cardinality(Used(s.tree)) <= Cardinality(InnerIds) /\ Cardinality(Used(s.tree)) \in Nat
    <3>1. Used(s.tree) \in SUBSET InnerIds
        BY DEF Used
    <3>2. IsFiniteSet(Used(s.tree)) /\ Cardinality(Used(s.tree)) <= Cardinality(InnerIds)
        BY <3>1, RoomAssumption, FS_Subset
    <3> QED
        BY <3>2, FS_CardinalityType
  <2> QED
      BY <1>8, <2>1, <2>2, <2>3
<1>12. InnerUpdateAfterSplit(t, node, new, sk) = s.tree
    BY <1>5 DEF s
<1>13. s.tree \in Trees
    BY <1>9 DEF Rounds
<1> QED
    BY <1>10, <1>11, <1>12, <1>13

-----------------------------------------------------------------------------
(* A tree whose leaves serve the keys G gives them.                        *)

TreeShape(t, G) ==
  t \in Trees /\ Partition(G) /\ \E S, h : Agrees(S, G) /\ Linked(t, S, h)

\* Leaf n takes over from leaf l what lies above sk.
Handed(G, l, n, sk) ==
  [G EXCEPT ![l] = {k \in G[l] : k <= sk}, ![n] = {k \in G[l] : sk < k}]

LEMMA HandedIs ==
  ASSUME NEW I, NEW G \in [I -> SUBSET Keys], NEW l \in I, NEW n \in I, l # n, NEW sk
  PROVE  /\ Handed(G, l, n, sk) \in [I -> SUBSET Keys]
         /\ Handed(G, l, n, sk)[l] = {k \in G[l] : k <= sk}
         /\ Handed(G, l, n, sk)[n] = {k \in G[l] : sk < k}
         /\ \A m \in I : m # l /\ m # n => Handed(G, l, n, sk)[m] = G[m]
<1> DEFINE A == {k \in G[l] : k <= sk}
           B == {k \in G[l] : sk < k}
<1>1. A \in SUBSET Keys /\ B \in SUBSET Keys
    OBVIOUS
<1>2. Handed(G, l, n, sk) = [G EXCEPT ![l] = A, ![n] = B]
    BY DEF Handed
<1> HIDE DEF A, B
<1>3. /\ Handed(G, l, n, sk) \in [I -> SUBSET Keys]
      /\ Handed(G, l, n, sk)[l] = A /\ Handed(G, l, n, sk)[n] = B
      /\ \A m \in I : m # l /\ m # n => Handed(G, l, n, sk)[m] = G[m]
    BY <1>1, <1>2
<1> QED
    BY <1>3 DEF A, B

LEMMA HandedPartition ==
  ASSUME NEW G \in [LeafIds -> SUBSET Keys], Partition(G),
         NEW l \in LeafIds, NEW n \in LeafIds, l # n, G[n] = {}, NEW sk \in Keys
  PROVE  Partition(Handed(G, l, n, sk))
<1> DEFINE H == Handed(G, l, n, sk)
<1>1. /\ H \in [LeafIds -> SUBSET Keys] /\ H[l] = {k \in G[l] : k <= sk} /\ H[n] = {k \in G[l] : sk < k}
      /\ \A m \in LeafIds : m # l /\ m # n => H[m] = G[m]
    BY HandedIs
<1> HIDE DEF H
<1>2. sk \in Int /\ \A m \in LeafIds : \A k \in G[m] : k \in Int
    BY NamesAssumption
<1>3. ASSUME NEW k \in Keys PROVE \E m \in LeafIds : k \in H[m]
  <2>1. PICK m \in LeafIds : k \in G[m]
      BY DEF Partition
  <2>2. CASE m = l
    <3>1. k <= sk \/ sk < k
        BY <1>2, <2>1
    <3> QED
        BY <1>1, <2>1, <2>2, <3>1
  <2>3. CASE m # l
      BY <1>1, <2>1, <2>3
  <2> QED
      BY <2>2, <2>3
<1>4. ASSUME NEW a \in LeafIds, NEW b \in LeafIds, a # b
      PROVE  (\A x \in H[a], y \in H[b] : x < y) \/ (\A x \in H[a], y \in H[b] : y < x)
  <2>1. CASE a \in {l, n} /\ b \in {l, n}
    <3>1. \A x \in H[l], y \in H[n] : x < y
      <4> TAKE x \in H[l], y \in H[n]
      <4>1. x <= sk /\ sk < y /\ x \in Int /\ y \in Int
          BY <1>1, <1>2
      <4> QED
          BY <1>2, <4>1
    <3> QED
        BY <1>4, <2>1, <3>1
  <2>2. CASE a \in {l, n} /\ b \notin {l, n}
    <3>1. H[a] \subseteq G[l] /\ H[b] = G[b] /\ b # l
        BY <1>1, <2>2
    <3> QED
        BY <3>1 DEF Partition
  <2>3. CASE a \notin {l, n} /\ b \in {l, n}
    <3>1. H[b] \subseteq G[l] /\ H[a] = G[a] /\ a # l
        BY <1>1, <2>3
    <3> QED
        BY <3>1 DEF Partition
  <2>4. CASE a \notin {l, n} /\ b \notin {l, n}
    <3>1. H[b] = G[b] /\ H[a] = G[a]
        BY <1>1, <2>4
    <3> QED
        BY <1>4, <3>1 DEF Partition
  <2> QED
      BY <2>1, <2>2, <2>3, <2>4
<1> QED
    BY <1>3, <1>4 DEF Partition, H

LEMMA LeafSplitIs ==
  ASSUME NEW G \in [LeafIds -> SUBSET Keys], NEW t, TreeShape(t, G),
         NEW l \in LeafIds, NEW n \in LeafIds, l # n, G[n] = {},
         NEW sk \in G[l], \E k \in G[l] : sk < k,
         NEW t1, t1 = [t EXCEPT !.parent[n] = t.parent[l]]
  PROVE  TreeShape(InnerUpdateAfterSplit(t1, l, n, sk), Handed(G, l, n, sk))
<1>1. PICK S, h : Agrees(S, G) /\ Linked(t, S, h)
    BY DEF TreeShape
<1> DEFINE S1 == Handed(S, l, n, sk)
           h1 == [h EXCEPT ![n] = h[l]]
           V1 == View(S1, l, n)
           G1 == Handed(G, l, n, sk)
<1>2. /\ Shape(t, S, S, h, {}) /\ S \in [Ids -> SUBSET Keys] /\ h \in [Ids -> Nat] /\ t \in Trees /\ Partition(G)
      /\ S[l] = G[l] /\ S[n] = {} /\ l \in Ids /\ n \in Ids /\ l \notin InnerIds /\ n \notin InnerIds
    BY <1>1, IdsAssumption DEF TreeShape, Linked, Shape, Agrees, Ids
<1>3. sk \in Keys /\ sk \in Int /\ Keys \subseteq Int /\ sk \in S[l] /\ \E k \in S[l] : sk < k
    BY <1>2, NamesAssumption
<1>4. t1.top = t.top /\ t1.inner = t.inner /\ t1.parent = [t.parent EXCEPT ![n] = t.parent[l]] /\ t1 \in Trees
  <2>1. t = [top |-> t.top, inner |-> t.inner, parent |-> t.parent] /\ t.parent \in [Ids -> InnerIds \cup {Null}]
      BY <1>2 DEF Trees
  <2>2. t1.top = t.top /\ t1.inner = t.inner /\ t1.parent = [t.parent EXCEPT ![n] = t.parent[l]]
      BY <2>1
  <2>3. t1 = [top |-> t1.top, inner |-> t1.inner, parent |-> t1.parent]
      BY <2>1
  <2>4. [t.parent EXCEPT ![n] = t.parent[l]] \in [Ids -> InnerIds \cup {Null}]
      BY ONLY <1>2, <2>1
  <2>5. t1.parent \in [Ids -> InnerIds \cup {Null}]
      BY ONLY <2>2, <2>4
  <2> QED
      BY ONLY <1>2, <2>2, <2>3, <2>5 DEF Trees
<1>5. t1.parent[n] = t.parent[l] /\ \A c \in Ids : c # n => t1.parent[c] = t.parent[c]
  <2>1. t.parent \in [Ids -> InnerIds \cup {Null}]
      BY <1>2 DEF Trees
  <2> QED
      BY ONLY <1>2, <1>4, <2>1
<1>6. /\ S1 \in [Ids -> SUBSET Keys] /\ S1[l] = {k \in S[l] : k <= sk} /\ S1[n] = {k \in S[l] : sk < k}
      /\ \A c \in Ids : c # l /\ c # n => S1[c] = S[c]
    BY <1>2, HandedIs
<1>7. h1 \in [Ids -> Nat] /\ h1[n] = h[l] /\ \A c \in Ids : c # n => h1[c] = h[c]
    BY ONLY <1>2
<1>8. /\ G1 \in [LeafIds -> SUBSET Keys] /\ G1[l] = {k \in G[l] : k <= sk} /\ G1[n] = {k \in G[l] : sk < k}
      /\ \A c \in LeafIds : c # l /\ c # n => G1[c] = G[c]
    BY HandedIs
<1>9. Agrees(S1, G1) /\ Partition(G1)
  <2>1. Partition(G1)
      BY <1>2, <1>3, HandedPartition
  <2> HIDE DEF S1, G1
  <2>2. ASSUME NEW m \in LeafIds PROVE S1[m] = G1[m]
      BY ONLY <1>1, <1>2, <1>6, <1>8, <2>2 DEF Agrees, Ids
  <2> QED
      BY ONLY <2>1, <2>2 DEF Agrees
<1> HIDE DEF S1, h1, G1
<1>10. V1 \in [Ids -> SUBSET Keys] /\ \A c \in Ids : c # n => V1[c] = S[c]
  <2>1. V1 = [c \in Ids |-> IF c = l THEN S1[l] \cup S1[n] ELSE S1[c]]
      BY DEF View
  <2>2. S1[l] \cup S1[n] = S[l]
    <3>1. ASSUME NEW k \in S[l] PROVE k <= sk \/ sk < k
      <4>1. k \in Int
          BY ONLY <1>2, <1>3, <3>1
      <4> QED
          BY ONLY <1>3, <4>1
    <3> QED
        BY ONLY <1>6, <3>1
  <2> HIDE DEF V1
  <2>3. \A c \in Ids : V1[c] = IF c = l THEN S[l] ELSE S1[c]
      BY ONLY <2>1, <2>2
  <2>4. V1 \in [Ids -> SUBSET Keys]
    <3>1. \A c \in Ids : V1[c] \in SUBSET Keys
        BY ONLY <1>2, <1>6, <2>3
    <3> QED
        BY ONLY <2>1, <3>1
  <2> QED
      BY ONLY <1>6, <2>3, <2>4
<1> HIDE DEF V1
<1>11. ASSUME NEW m \in Used(t1) PROVE NodeShape(t1, S1, V1, h1, {n}, m)
  <2>1. NodeShape(t, S, S, h, {}, m) /\ m \in InnerIds /\ m \in Ids /\ m # n /\ m # l /\ t1.inner[m] = t.inner[m]
      BY ONLY <1>2, <1>4, m \in Used(t1) DEF Shape, Used, Ids
  <2>2. S1[m] = S[m] /\ h1[m] = h[m]
      BY ONLY <1>6, <1>7, <2>1
  <2>3. ASSUME NEW i \in 1 .. Len(t.inner[m].kids)
        PROVE  LET c == t.inner[m].kids[i] IN
               c # n /\ V1[c] = S[c] /\ S[c] # {} /\ t1.parent[c] = m /\ h1[c] < h1[m]
    <3> DEFINE c == t.inner[m].kids[i]
    <3>1. t.inner[m].kids \in Seq(Ids)
        BY ONLY <2>1 DEF NodeShape, Serves
    <3>2. c \in Ids /\ S[c] # {} /\ t.parent[c] = m /\ h[c] < h[m]
        BY ONLY <2>1, <2>3, <3>1, ElementOfSeq DEF NodeShape
    <3> HIDE DEF c
    <3>3. c # n
        BY ONLY <1>2, <3>2
    <3>4. c # n /\ V1[c] = S[c] /\ S[c] # {} /\ t1.parent[c] = m /\ h1[c] < h1[m]
        BY ONLY <1>5, <1>7, <1>10, <2>2, <3>2, <3>3
    <3> QED
        BY ONLY <3>4 DEF c
  <2>4. Serves(t.inner[m], S[m], V1)
      BY ONLY <2>1, <2>3 DEF NodeShape, Serves
  <2>5. Len(t.inner[m].keys) \in 1 .. InnerKeys
      BY ONLY <2>1 DEF NodeShape
  <2> QED
      BY ONLY <2>1, <2>2, <2>3, <2>4, <2>5 DEF NodeShape
<1>12. Used(t1) = Used(t)
    BY ONLY <1>4 DEF Used
<1>13. ASSUME NEW c \in Ids \ {n}, S1[c] # {}, c # t1.top PROVE KidOfParent(t1, c)
  <2>1. S[c] # {}
      BY ONLY <1>6, <1>13
  <2>2. KidOfParent(t, c)
      BY ONLY <1>2, <1>4, <1>13, <2>1 DEF Shape
  <2>3. t1.parent[c] = t.parent[c]
      BY ONLY <1>5, <1>13
  <2> QED
      BY ONLY <1>4, <1>12, <2>2, <2>3 DEF KidOfParent
<1>14. ASSUME NEW q, Ends(q, S) PROVE Ends(q, S1)
  <2> SUFFICES ASSUME NEW m \in LeafIds, q \in S1[m], NEW k \in S1[m] PROVE k <= q
      BY DEF Ends
  <2>1. CASE m = l \/ m = n
    <3>1. q \in S[l] /\ k \in S[l]
        BY <1>6, <2>1
    <3> QED
        BY <1>14, <3>1 DEF Ends
  <2>2. CASE m # l /\ m # n
    <3>1. q \in S[m] /\ k \in S[m]
        BY <1>6, <2>2 DEF Ids
    <3> QED
        BY <1>14, <3>1 DEF Ends
  <2> QED
      BY <2>1, <2>2
<1>15. \A m \in Used(t1) : \A q \in SepsOf(t1.inner[m]) : Ends(q, S) /\ Ends(q, S1)
  <2>1. \A m \in Used(t) : \A q \in SepsOf(t.inner[m]) : Ends(q, S)
      BY ONLY <1>2 DEF Shape
  <2> QED
      BY ONLY <1>4, <1>12, <1>14, <2>1
<1>16. \A m \in Used(t1) : sk \notin SepsOf(t1.inner[m])
  <2> SUFFICES ASSUME NEW m \in Used(t1), sk \in SepsOf(t1.inner[m]) PROVE FALSE
      OBVIOUS
  <2>0. Ends(sk, S)
      BY <1>15
  <2>1. PICK k \in S[l] : sk < k
      BY <1>3
  <2>2. k <= sk /\ k \in Int
      BY <1>2, <1>3, <2>0, <2>1 DEF Ends
  <2> QED
      BY <1>3, <2>1, <2>2
<1>17. Ends(sk, S1)
  <2> SUFFICES ASSUME NEW m \in LeafIds, sk \in S1[m], NEW k \in S1[m] PROVE k <= sk
      BY DEF Ends
  <2>1. CASE m = l
      BY <1>6, <2>1
  <2>2. CASE m = n
    <3>1. sk < sk
        BY <1>6, <2>2
    <3> QED
        BY <1>3, <3>1
  <2>3. CASE m # l /\ m # n
    <3>1. sk \in G[m] /\ m # l
        BY <1>1, <1>6, <2>3 DEF Agrees, Ids
    <3>2. sk < sk
        BY ONLY <1>2, <3>1, sk \in G[l], m \in LeafIds, l \in LeafIds DEF Partition
    <3> QED
        BY <1>3, <3>2
  <2> QED
      BY <2>1, <2>2, <2>3
<1>18. t1.top \in Ids \ {n} /\ V1[t1.top] = Keys /\ t1.parent[t1.top] = Null
  <2>1. t.top \in Ids /\ S[t.top] = Keys /\ t.parent[t.top] = Null
      BY ONLY <1>2 DEF Shape
  <2>2. t.top # n
      BY ONLY <1>2, <1>3, <2>1
  <2> QED
      BY ONLY <1>4, <1>5, <1>10, <2>1, <2>2
<1>19. \A m \in InnerIds \ Used(t1) : S1[m] = {} /\ t1.parent[m] = Null
  <2> TAKE m \in InnerIds \ Used(t1)
  <2>1. m \in Ids /\ m # l /\ m # n /\ S[m] = {} /\ t.parent[m] = Null
      BY ONLY <1>2, <1>12, m \in InnerIds \ Used(t1) DEF Shape, Ids
  <2> QED
      BY ONLY <1>5, <1>6, <2>1
<1>20. \A c \in Ids : h1[c] <= Cardinality(Used(t1))
  <2>1. \A c \in Ids : h[c] <= Cardinality(Used(t))
      BY ONLY <1>2 DEF Shape
  <2> QED
      BY ONLY <1>2, <1>7, <1>12, <2>1
<1>21. \A a, b \in Used(t1) : a # b => SepsOf(t1.inner[a]) \cap SepsOf(t1.inner[b]) = {}
    BY ONLY <1>2, <1>4, <1>12 DEF Shape
<1>22. Shape(t1, S1, V1, h1, {n})
  <2>1. Typed(t1)
      BY ONLY <1>4 DEF Typed, Trees
  <2> QED
      BY ONLY <1>6, <1>7, <1>10, <1>11, <1>13, <1>15, <1>18, <1>19, <1>20, <1>21, <2>1 DEF Shape
<1>23. Waits(t1, S1, h1, l, n, sk)
  <2>1. Shape(t1, S1, View(S1, l, n), h1, {n})
      BY <1>22 DEF V1
  <2>2. sk \in S1[l] /\ \A k \in S1[l] : k <= sk
      BY ONLY <1>3, <1>6
  <2>3. S1[n] # {} /\ \A k \in S1[n] : sk < k
      BY ONLY <1>3, <1>6
  <2>4. h1[n] <= h1[l]
      BY ONLY <1>2, <1>7
  <2>5. t1.parent[n] = t1.parent[l]
      BY <1>2, <1>5
  <2> QED
      BY <1>2, <1>16, <1>17, <2>1, <2>2, <2>3, <2>4, <2>5 DEF Waits
<1>24. /\ InnerUpdateAfterSplit(t1, l, n, sk) \in Trees
       /\ \E S2, h2 : Agrees(S2, G1) /\ Linked(InnerUpdateAfterSplit(t1, l, n, sk), S2, h2)
    BY ONLY <1>4, <1>9, <1>23, UpdateIs
<1> QED
    BY <1>9, <1>24 DEF TreeShape, G1

\* A search ends at the leaf that serves the key.
LEMMA SearchIs ==
  ASSUME NEW G, TreeShape(tree, G), NEW k \in Keys
  PROVE  LeafSearch(k) \in LeafIds /\ k \in G[LeafSearch(k)]
<1>1. PICK S, h : Agrees(S, G) /\ Linked(tree, S, h)
    BY DEF TreeShape
<1>2. /\ Shape(tree, S, S, h, {}) /\ S \in [Ids -> SUBSET Keys] /\ h \in [Ids -> Nat]
      /\ tree.top \in Ids /\ k \in S[tree.top]
    BY <1>1 DEF Linked, Shape
<1> DEFINE Goes(n) == IF n \in LeafIds THEN n ELSE ChildFor(tree.inner[n], k)
           Downs(f) == f = [d \in Nat |-> IF d = 0 THEN tree.top ELSE Goes(f[d - 1])]
           X == {n \in Ids : k \in S[n]}
           step == [p \in Nat \X X |-> Goes(p[2])]
\* From an inner node the search goes to one nearer to the leaves.
<1>3. ASSUME NEW n \in X PROVE Goes(n) \in X /\ (n \notin LeafIds => h[Goes(n)] < h[n])
  <2>1. CASE n \in LeafIds
      BY <1>3, <2>1
  <2>2. CASE n \notin LeafIds
    <3>1. n \in InnerIds /\ k \in S[n] /\ n \in Ids
        BY <2>2 DEF Ids
    <3>2. n \in Used(tree)
        BY <1>2, <3>1 DEF Shape
    <3>3. NodeShape(tree, S, S, h, {}, n)
        BY <1>2, <3>2 DEF Shape
    <3> DEFINE r == tree.inner[n]
               D == S[n]
    <3>4. Serves(r, D, S) /\ D \in SUBSET Keys /\ k \in D
        BY <1>2, <3>1, <3>3 DEF NodeShape
    <3> HIDE DEF r, D
    <3>5. PICK i \in 1 .. Len(r.kids) : ChildFor(r, k) = r.kids[i] /\ k \in S[r.kids[i]]
        BY ONLY <3>4, ChildForIs
    <3>6. r.kids[i] \in Ids
        BY ONLY <3>4, <3>5, ElementOfSeq DEF Serves
    <3>7. h[r.kids[i]] < h[n]
        BY <3>3 DEF NodeShape, r
    <3>8. Goes(n) = r.kids[i]
        BY <2>2, <3>5 DEF r
    <3> HIDE DEF Goes
    <3> QED
        BY <3>5, <3>6, <3>7, <3>8
  <2> QED
      BY <2>1, <2>2
<1> HIDE DEF Goes
<1>4. \E f : Downs(f)
  <2>1. tree.top \in X
      BY <1>2
  <2>2. step \in [Nat \X X -> X]
    <3>1. \A n \in X : Goes(n) \in X
        BY <1>3
    <3> HIDE DEF X
    <3> QED
        BY <3>1
  <2>3. \A p \in Nat \X X : step[p] = Goes(p[2])
      OBVIOUS
  <2> DEFINE top == tree.top
  <2>4. top \in X
      BY <2>1
  <2> HIDE DEF X, step, top
  <2>5. PICK f : Recurs(f, X, top, step)
      BY ONLY <2>2, <2>4, RecursionExists
  <2>6. f \in [Nat -> X] /\ f[0] = top /\ \A n \in Nat : f[n + 1] = step[<<n, f[n]>>]
      BY <2>5 DEF Recurs
  <2>7. \A d \in Nat : f[d] = IF d = 0 THEN top ELSE Goes(f[d - 1])
    <3> TAKE d \in Nat
    <3>1. CASE d = 0
        BY <2>6, <3>1
    <3>2. CASE d # 0
      <4>1. d - 1 \in Nat /\ (d - 1) + 1 = d
          BY <3>2
      <4>2. f[d] = step[<<d - 1, f[d - 1]>>]
          BY <2>6, <4>1
      <4>3. <<d - 1, f[d - 1]>> \in Nat \X X
          BY <2>6, <4>1
      <4>4. f[d] = Goes(f[d - 1])
          BY <2>3, <4>2, <4>3
      <4> QED
          BY <3>2, <4>4
    <3> QED
        BY <3>1, <3>2
  <2>8. f = [d \in Nat |-> IF d = 0 THEN top ELSE Goes(f[d - 1])]
      BY <2>6, <2>7
  <2> QED
      BY <2>8 DEF top
<1> DEFINE Down == CHOOSE f : Downs(f)
<1>5. Downs(Down)
    BY <1>4, Zenon
<1>6. LeafSearch(k) = Down[Cardinality(InnerIds)]
    BY Zenon DEF LeafSearch, Goes
<1> HIDE DEF Down
<1>7. Down[0] = tree.top /\ \A d \in Nat : Down[d + 1] = Goes(Down[d])
  <2>1. \A d \in Nat : Down[d] = IF d = 0 THEN tree.top ELSE Goes(Down[d - 1])
      BY <1>5
  <2>2. \A d \in Nat : d + 1 \in Nat /\ d + 1 # 0 /\ (d + 1) - 1 = d
      OBVIOUS
  <2> HIDE DEF Downs
  <2> QED
      BY <2>1, <2>2
<1> DEFINE N == Cardinality(InnerIds)
           T == {d \in Nat : Down[d] \in X /\ (Down[d] \in LeafIds \/ h[Down[d]] + d <= N)}
<1>8. N \in Nat /\ \A c \in Ids : h[c] <= N /\ h[c] \in Nat
  <2>1. Used(tree) \in SUBSET InnerIds
      BY DEF Used
  <2>2. IsFiniteSet(Used(tree)) /\ Cardinality(Used(tree)) <= N /\ N \in Nat
      BY <2>1, RoomAssumption, FS_Subset, FS_CardinalityType
  <2>3. Cardinality(Used(tree)) \in Nat
      BY <2>2, FS_CardinalityType
  <2>4. \A c \in Ids : h[c] <= Cardinality(Used(tree)) /\ h[c] \in Nat
      BY <1>2 DEF Shape
  <2> HIDE DEF N
  <2> QED
      BY ONLY <2>2, <2>3, <2>4
<1> HIDE DEF N
<1>9. \A d \in Nat : d \in T
  <2>1. 0 \in T
    <3>1. Down[0] \in X /\ h[Down[0]] + 0 <= N
        BY <1>2, <1>7, <1>8
    <3> QED
        BY <3>1
  <2>2. ASSUME NEW d \in Nat, d \in T PROVE d + 1 \in T
    <3>1. Down[d] \in X /\ Down[d + 1] = Goes(Down[d])
        BY <1>7, <2>2
    <3>2. Goes(Down[d]) \in X
        BY <1>3, <3>1
    <3>3. CASE Down[d] \in LeafIds
      <4>1. Down[d + 1] \in LeafIds
          BY <3>1, <3>3 DEF Goes
      <4> QED
          BY <3>1, <3>2, <4>1
    <3>4. CASE Down[d] \notin LeafIds
      <4>1. h[Down[d]] + d <= N /\ h[Goes(Down[d])] < h[Down[d]]
          BY <1>3, <2>2, <3>1, <3>4
      <4>2. h[Down[d]] \in Nat /\ h[Goes(Down[d])] \in Nat
          BY <1>8, <3>1, <3>2
      <4>3. h[Down[d + 1]] + (d + 1) <= N
          BY <1>8, <3>1, <4>1, <4>2
      <4> QED
          BY <3>1, <3>2, <4>3
    <3> QED
        BY <3>3, <3>4
  <2> HIDE DEF T
  <2> QED
      BY <2>1, <2>2, AllNumbers
<1> DEFINE l == Down[N]
<1>10. l \in X /\ (l \in LeafIds \/ h[l] + N <= N)
    BY <1>8, <1>9
<1> HIDE DEF l
<1>11. l \in LeafIds
  <2> SUFFICES ASSUME l \notin LeafIds PROVE FALSE
      OBVIOUS
  <2>1. Goes(l) \in X /\ h[Goes(l)] < h[l] /\ h[l] + N <= N
      BY <1>3, <1>10
  <2>2. h[l] \in Nat /\ h[Goes(l)] \in Nat
      BY <1>8, <1>10, <2>1
  <2> QED
      BY <1>8, <2>1, <2>2
<1>12. k \in G[l]
    BY <1>1, <1>10, <1>11 DEF Agrees
<1> QED
    BY <1>6, <1>11, <1>12 DEF l, N

\* A key has one leaf.
LEMMA LeavesApart ==
  ASSUME NEW G \in [LeafIds -> SUBSET Keys], Partition(G), NEW l \in LeafIds, NEW m \in LeafIds,
         NEW k \in G[l], k \in G[m]
  PROVE  l = m
<1> SUFFICES ASSUME l # m PROVE FALSE
    OBVIOUS
<1>1. k < k
    BY DEF Partition
<1>2. k \in Int
    BY NamesAssumption
<1> QED
    BY <1>1, <1>2

Alone(l) == [m \in LeafIds |-> IF m = l THEN Keys ELSE {}]

\* A tree of one leaf.
LEMMA LoneLeaf ==
  ASSUME NEW l \in LeafIds, Keys # {}
  PROVE  TreeShape([EmptyTree EXCEPT !.top = l], Alone(l)) /\ Alone(l) \in [LeafIds -> SUBSET Keys]
<1> DEFINE t == [EmptyTree EXCEPT !.top = l]
           S == [c \in Ids |-> IF c = l THEN Keys ELSE {}]
           h == [c \in Ids |-> 0]
<1>1. /\ t.top = l /\ t.inner = [i \in InnerIds |-> [keys |-> <<>>, kids |-> <<>>]]
      /\ t.parent = [n \in Ids |-> Null] /\ t = [top |-> t.top, inner |-> t.inner, parent |-> t.parent]
    BY DEF EmptyTree, Ids
<1> HIDE DEF t
<1>2. t \in Trees
  <2>1. t.inner \in [InnerIds -> [keys : Seq(Keys), kids : Seq(Ids)]]
    <3>1. [keys |-> <<>>, kids |-> <<>>] \in [keys : Seq(Keys), kids : Seq(Ids)]
        BY EmptySeq
    <3> QED
        BY <1>1, <3>1
  <2>2. t.parent \in [Ids -> InnerIds \cup {Null}] /\ t.top \in Ids \cup {Null}
      BY <1>1 DEF Ids
  <2> QED
      BY <1>1, <2>1, <2>2 DEF Trees
<1>3. Used(t) = {}
    BY <1>1 DEF Used
<1>4. Cardinality(Used(t)) = 0
    BY <1>3, FS_EmptySet
<1>5. Linked(t, S, h)
  <2>1. S \in [Ids -> SUBSET Keys] /\ h \in [Ids -> Nat] /\ l \in Ids /\ S[l] = Keys
      BY DEF Ids
  <2>2. \A n \in InnerIds \ Used(t) : S[n] = {} /\ t.parent[n] = Null
      BY <1>1, IdsAssumption DEF Ids
  <2>3. \A c \in Ids : S[c] # {} => c = t.top
      BY <1>1
  <2>4. t.parent[t.top] = Null
      BY <1>1, <2>1
  <2>5. \A c \in Ids : h[c] <= Cardinality(Used(t))
      BY <1>4
  <2>6. Typed(t)
      BY <1>2 DEF Typed, Trees
  <2> HIDE DEF S, h
  <2> QED
      BY <1>1, <1>3, <2>1, <2>2, <2>3, <2>4, <2>5, <2>6 DEF Linked, Shape
<1>6. Partition(Alone(l))
    BY DEF Partition, Alone
<1>7. Agrees(S, Alone(l))
    BY DEF Agrees, Alone, Ids
<1>8. TreeShape(t, Alone(l))
  <2> HIDE DEF S, h
  <2> QED
      BY <1>2, <1>5, <1>6, <1>7 DEF TreeShape
<1> QED
    BY <1>8 DEF t, Alone

-----------------------------------------------------------------------------
(* What one persistent leaf holds.  D is the set of keys it serves and co  *)
(* the contents: a slot is free or holds the record of a key of the leaf,  *)
(* each key has one slot, and no record of the leaf is missing.            *)

Held == [key : Keys \cup {NoKey}, value : Values \cup {NoValue}]

Holds(f, D, co) ==
  /\ f \in [Slots -> Held]
  /\ \A s \in Slots : f[s] # Free => f[s].key \in D /\ f[s].value \in Values /\ f[s].value = co[f[s].key]
  /\ \A s, r \in Slots : f[s] # Free /\ f[s].key = f[r].key => s = r
  /\ \A k \in D : co[k] # NoValue => \E s \in Slots : f[s] = Record(k, co[k])

\* A slot is free when it has no key.
LEMMA FreeIs ==
  ASSUME NEW D \in SUBSET Keys, NEW co, NEW f, Holds(f, D, co), NEW s \in Slots
  PROVE  /\ f[s].key \in Keys \cup {NoKey}
         /\ f[s].key = NoKey <=> f[s] = Free
         /\ \A k \in Keys : f[s].key = k => k \in D /\ f[s] = Record(k, co[k]) /\ co[k] \in Values
<1>1. f[s] \in Held
    BY DEF Holds
<1>2. f[s] # Free => f[s].key \in D /\ f[s].value \in Values /\ f[s].value = co[f[s].key]
    BY DEF Holds
<1>3. f[s] = Record(f[s].key, f[s].value)
    BY <1>1 DEF Held, Record
<1>4. Free.key = NoKey
    BY DEF Free, Record
<1> QED
    BY <1>2, <1>3, <1>4, <1>1, NamesAssumption DEF Held

\* A record is written to the slot of its key, or to a free slot if it has none.
LEMMA WriteIs ==
  ASSUME NEW D \in SUBSET Keys, NEW co \in [Keys -> Values \cup {NoValue}], NEW f, Holds(f, D, co),
         NEW k \in D, NEW v \in Values, NEW s \in Slots,
         \/ f[s].key = k
         \/ f[s].key = NoKey /\ \A r \in Slots : f[r].key # k
  PROVE  Holds([f EXCEPT ![s] = Record(k, v)], D, [co EXCEPT ![k] = v])
<1> DEFINE g == [f EXCEPT ![s] = Record(k, v)]
           c == [co EXCEPT ![k] = v]
<1>1. /\ k \in Keys /\ Record(k, v).key = k /\ Record(k, v).value = v /\ Record(k, v) \in Held
    BY DEF Record, Held
<1>2. f \in [Slots -> Held] /\ g \in [Slots -> Held] /\ g[s] = Record(k, v) /\ \A r \in Slots : r # s => g[r] = f[r]
    BY <1>1 DEF Holds
<1>3. c[k] = v /\ \A j \in Keys : j # k => c[j] = co[j]
    OBVIOUS
\* The key is in no other slot.
<1>4. \A r \in Slots : r # s => f[r].key # k
  <2> SUFFICES ASSUME NEW r \in Slots, r # s, f[r].key = k PROVE FALSE
      OBVIOUS
  <2>1. f[s].key = k
      OBVIOUS
  <2>2. f[r] # Free
      BY <1>1, NamesAssumption DEF Free, Record
  <2> QED
      BY <2>1, <2>2 DEF Holds
<1> HIDE DEF g, c
<1>5. ASSUME NEW r \in Slots, g[r] # Free PROVE g[r].key \in D /\ g[r].value \in Values /\ g[r].value = c[g[r].key]
  <2>1. CASE r = s
      BY <1>1, <1>2, <1>3, <2>1
  <2>2. CASE r # s
    <3>1. g[r] = f[r] /\ f[r].key \in D /\ f[r].value \in Values /\ f[r].value = co[f[r].key] /\ f[r].key # k
        BY <1>2, <1>4, <1>5, <2>2 DEF Holds
    <3> QED
        BY <1>3, <3>1
  <2> QED
      BY <2>1, <2>2
<1>6. ASSUME NEW a \in Slots, NEW b \in Slots, g[a] # Free, g[a].key = g[b].key PROVE a = b
  <2>1. CASE a = s
      BY <1>1, <1>2, <1>4, <1>6, <2>1
  <2>2. CASE b = s
      BY <1>1, <1>2, <1>4, <1>6, <2>2
  <2>3. CASE a # s /\ b # s
      BY <1>2, <1>6, <2>3 DEF Holds
  <2> QED
      BY <2>1, <2>2, <2>3
<1>7. ASSUME NEW j \in D, c[j] # NoValue PROVE \E r \in Slots : g[r] = Record(j, c[j])
  <2>1. CASE j = k
      BY <1>2, <1>3, <2>1
  <2>2. CASE j # k
    <3>1. c[j] = co[j]
        BY <1>3, <2>2
    <3>2. PICK r \in Slots : f[r] = Record(j, co[j])
        BY <1>7, <3>1 DEF Holds
    <3>3. f[r].key = j /\ f[r].key # NoKey
        BY <3>2, NamesAssumption DEF Record
    <3>4. r # s
        BY <2>2, <3>3
    <3> QED
        BY <1>2, <3>1, <3>2, <3>4
  <2> QED
      BY <2>1, <2>2
<1> QED
    BY <1>2, <1>5, <1>6, <1>7 DEF Holds, g, c

\* The slot of a key is freed.
LEMMA EraseIs ==
  ASSUME NEW D \in SUBSET Keys, NEW co \in [Keys -> Values \cup {NoValue}], NEW f, Holds(f, D, co),
         NEW k \in D, NEW s \in Slots, f[s].key = k
  PROVE  Holds([f EXCEPT ![s] = Free], D, [co EXCEPT ![k] = NoValue])
<1> DEFINE g == [f EXCEPT ![s] = Free]
           c == [co EXCEPT ![k] = NoValue]
<1>1. Free.key = NoKey /\ Free \in Held /\ k \in Keys /\ k # NoKey
    BY NamesAssumption DEF Free, Record, Held
<1>2. f \in [Slots -> Held] /\ g \in [Slots -> Held] /\ g[s] = Free /\ \A r \in Slots : r # s => g[r] = f[r]
    BY <1>1 DEF Holds
<1>3. c[k] = NoValue /\ \A j \in Keys : j # k => c[j] = co[j]
    OBVIOUS
<1>4. \A r \in Slots : r # s => f[r].key # k
  <2>1. f[s] # Free
      BY <1>1
  <2> QED
      BY <2>1 DEF Holds
<1> HIDE DEF g, c
<1>5. ASSUME NEW r \in Slots, g[r] # Free PROVE g[r].key \in D /\ g[r].value \in Values /\ g[r].value = c[g[r].key]
  <2>1. g[r] = f[r] /\ f[r].key \in D /\ f[r].value \in Values /\ f[r].value = co[f[r].key] /\ f[r].key # k
      BY <1>2, <1>4, <1>5 DEF Holds
  <2> QED
      BY <1>3, <2>1
<1>6. ASSUME NEW a \in Slots, NEW b \in Slots, g[a] # Free, g[a].key = g[b].key PROVE a = b
  <2>1. g[a] = f[a] /\ f[a].key # NoKey /\ a # s
      BY <1>2, <1>6, FreeIs
  <2>2. b # s
      BY <1>1, <1>2, <1>6, <2>1
  <2> QED
      BY <1>2, <1>6, <2>1, <2>2 DEF Holds
<1>7. ASSUME NEW j \in D, c[j] # NoValue PROVE \E r \in Slots : g[r] = Record(j, c[j])
  <2>1. j # k /\ c[j] = co[j]
      BY <1>3, <1>7
  <2>2. PICK r \in Slots : f[r] = Record(j, co[j])
      BY <1>7, <2>1 DEF Holds
  <2>3. f[r].key = j
      BY <2>2 DEF Record
  <2>4. r # s
      BY <2>1, <2>3
  <2> QED
      BY <1>2, <2>1, <2>2, <2>4
<1> QED
    BY <1>2, <1>5, <1>6, <1>7 DEF Holds, g, c

\* A leaf is not concerned with a key it does not serve.
LEMMA OthersHold ==
  ASSUME NEW D \in SUBSET Keys, NEW co \in [Keys -> Values \cup {NoValue}], NEW f, Holds(f, D, co),
         NEW k \in Keys \ D, NEW v
  PROVE  Holds(f, D, [co EXCEPT ![k] = v])
<1> DEFINE c == [co EXCEPT ![k] = v]
<1>1. \A j \in D : c[j] = co[j]
    OBVIOUS
<1> HIDE DEF c
<1> QED
    BY <1>1 DEF Holds, c

NoRecords == [s \in Slots |-> Free]

\* A leaf that serves nothing is empty.
LEMMA EmptyHolds ==
  ASSUME NEW f, NEW co
  PROVE  Holds(f, {}, co) <=> f = NoRecords
<1>1. Free \in Held
    BY DEF Free, Record, Held
<1>2. Free.key = NoKey
    BY DEF Free, Record
<1>3. ASSUME Holds(f, {}, co) PROVE f = NoRecords
  <2>1. f \in [Slots -> Held] /\ \A s \in Slots : f[s] = Free
      BY <1>3 DEF Holds
  <2> QED
      BY <2>1 DEF NoRecords
<1>4. ASSUME f = NoRecords PROVE Holds(f, {}, co)
  <2>1. f \in [Slots -> Held] /\ \A s \in Slots : f[s] = Free
      BY <1>1, <1>4 DEF NoRecords
  <2> QED
      BY <2>1 DEF Holds
<1> QED
    BY <1>3, <1>4

\* A full leaf whose slots above sk move.
LEMMA MoveIs ==
  ASSUME NEW D \in SUBSET Keys, NEW co, NEW f, Holds(f, D, co), NEW sk \in Keys, NEW mv,
         mv = {s \in Slots : f[s].key > sk}, \A s \in Slots : f[s].key # NoKey
  PROVE  /\ Holds(KeepRest(f, mv, Free), {k \in D : k <= sk}, co)
         /\ Holds(KeepMoved(f, mv, Free), {k \in D : sk < k}, co)
<1> DEFINE L == KeepRest(f, mv, Free)
           N == KeepMoved(f, mv, Free)
           DL == {k \in D : k <= sk}
           DN == {k \in D : sk < k}
<1>1. Free \in Held /\ Free.key = NoKey /\ f \in [Slots -> Held]
    BY DEF Free, Record, Held, Holds
<1>2. /\ L \in [Slots -> Held] /\ N \in [Slots -> Held]
      /\ \A s \in Slots : L[s] = (IF s \in mv THEN Free ELSE f[s]) /\ N[s] = (IF s \in mv THEN f[s] ELSE Free)
    BY <1>1 DEF KeepRest, KeepMoved
<1>3. ASSUME NEW s \in Slots
      PROVE  /\ f[s] # Free /\ f[s].key \in D /\ f[s].value \in Values /\ f[s].value = co[f[s].key]
             /\ (s \in mv => f[s].key \in DN) /\ (s \notin mv => f[s].key \in DL)
  <2>1. f[s] # Free /\ f[s].key \in D
      BY <1>1 DEF Holds
  <2>2. f[s].key \in Int /\ sk \in Int
      BY <2>1, NamesAssumption
  <2>3. f[s].key > sk <=> sk < f[s].key
      BY <2>2
  <2>4. f[s].key <= sk <=> ~(sk < f[s].key)
      BY <2>2
  <2>5. s \in mv <=> sk < f[s].key
      BY <2>3
  <2> QED
      BY <2>1, <2>4, <2>5 DEF Holds
<1>4. ASSUME NEW k \in D, co[k] # NoValue
      PROVE  \E s \in Slots : f[s] = Record(k, co[k]) /\ f[s].key = k /\ (s \in mv <=> k \in DN) /\ (s \notin mv <=> k \in DL)
  <2>1. PICK s \in Slots : f[s] = Record(k, co[k])
      BY <1>4 DEF Holds
  <2>2. f[s].key = k
      BY <2>1 DEF Record
  <2>3. ~(k \in DN /\ k \in DL)
    <3>1. k \in Int /\ sk \in Int
        BY NamesAssumption
    <3> QED
        BY <3>1
  <2> HIDE DEF DN, DL
  <2> QED
      BY <1>3, <2>1, <2>2, <2>3
<1>5. DL \subseteq D /\ DN \subseteq D
    OBVIOUS
<1>6. \A s, r \in Slots : f[s].key = f[r].key => s = r
    BY <1>3 DEF Holds
<1> HIDE DEF L, N, DL, DN
<1>7. Holds(L, DL, co)
  <2>1. \A s \in Slots : L[s] # Free => L[s].key \in DL /\ L[s].value \in Values /\ L[s].value = co[L[s].key]
      BY <1>2, <1>3
  <2>2. \A s, r \in Slots : L[s] # Free /\ L[s].key = L[r].key => s = r
    <3> SUFFICES ASSUME NEW s \in Slots, NEW r \in Slots, L[s] # Free, L[s].key = L[r].key PROVE s = r
        OBVIOUS
    <3>1. L[s] = f[s]
        BY <1>2
    <3>2. L[r] = f[r]
        BY <1>1, <1>2, <3>1
    <3> QED
        BY <1>6, <3>1, <3>2
  <2>3. \A k \in DL : co[k] # NoValue => \E s \in Slots : L[s] = Record(k, co[k])
      BY <1>2, <1>4, <1>5
  <2> QED
      BY <1>2, <2>1, <2>2, <2>3 DEF Holds
<1>8. Holds(N, DN, co)
  <2>1. \A s \in Slots : N[s] # Free => N[s].key \in DN /\ N[s].value \in Values /\ N[s].value = co[N[s].key]
      BY <1>2, <1>3
  <2>2. \A s, r \in Slots : N[s] # Free /\ N[s].key = N[r].key => s = r
    <3> SUFFICES ASSUME NEW s \in Slots, NEW r \in Slots, N[s] # Free, N[s].key = N[r].key PROVE s = r
        OBVIOUS
    <3>1. N[s] = f[s]
        BY <1>2
    <3>2. N[r] = f[r]
        BY <1>1, <1>2, <3>1
    <3> QED
        BY <1>6, <3>1, <3>2
  <2>3. \A k \in DN : co[k] # NoValue => \E s \in Slots : N[s] = Record(k, co[k])
      BY <1>2, <1>4, <1>5
  <2> QED
      BY <1>2, <2>1, <2>2, <2>3 DEF Holds
<1> QED
    BY <1>7, <1>8 DEF L, N, DL, DN

-----------------------------------------------------------------------------
(* The inductive invariant.  G gives each leaf the keys it serves; a leaf  *)
(* that serves keys is in the list and not among the preallocated ones.    *)

Placed(ch, pr, G) == ch \subseteq LeafIds /\ pr \subseteq ch /\ \A l \in LeafIds : G[l] # {} => l \in ch \ pr

Rooted(t, G, co) ==
  \/ t = EmptyTree /\ (\A l \in LeafIds : G[l] = {}) /\ \A k \in Keys : co[k] = NoValue
  \/ TreeShape(t, G)

Kept(sl, ch, pr, t, co, G) ==
  /\ G \in [LeafIds -> SUBSET Keys] /\ co \in [Keys -> Values \cup {NoValue}]
  /\ sl \in [LeafIds -> [Slots -> Held]] /\ \A l \in LeafIds : Holds(sl[l], G[l], co)
  /\ Placed(ch, pr, G)
  /\ Rooted(t, G, co)

\* The leaf nodes when no call has failed.
Images(sl) == [l \in LeafIds |-> [s \in Slots |-> sl[l][s].key]]

IInv ==
  /\ failed \in BOOLEAN /\ (failed => Oom # {})
  /\ \E G : Kept(slots, chain, prealloc, tree, contents, G)
  /\ ~failed => image = Images(slots)

LEMMA OldestIs ==
  ASSUME NEW ids, ids \subseteq Int, IsFiniteSet(ids), ids # {}
  PROVE  Oldest(ids) \in ids /\ \A m \in ids : Oldest(ids) <= m
<1> DEFINE same == [m \in ids |-> m]
<1>1. Orders(same, ids)
    BY DEF Orders
<1>2. \A m \in ids : same[m] = m
    OBVIOUS
<1> HIDE DEF same
<1>3. \E l \in ids : \A m \in ids : same[l] <= same[m]
    BY <1>1, EndsExist
<1>4. \E l \in ids : \A m \in ids : l <= m
    BY <1>2, <1>3
<1> QED
    BY <1>4 DEF Oldest

LEMMA SlotsAreFinite ==
  IsFiniteSet(Slots) /\ Slots \subseteq Int /\ Cardinality(Slots) = LeafKeys /\ LeafKeys \in Nat \ {0}
<1>1. LeafKeys \in Nat \ {0}
    BY SizesAssumption
<1> QED
    BY <1>1, FS_Interval DEF Slots

LEMMA TopIs ==
  ASSUME NEW G, NEW co, Rooted(tree, G, co)
  PROVE  tree.top # Null <=> TreeShape(tree, G)
<1>1. EmptyTree.top = Null
    BY DEF EmptyTree
<1>2. ASSUME TreeShape(tree, G) PROVE tree.top # Null
  <2>1. PICK S, h : Shape(tree, S, S, h, {})
      BY <1>2 DEF TreeShape, Linked
  <2>2. tree.top \in Ids
      BY <2>1 DEF Shape
  <2> QED
      BY <2>2, IdsAssumption DEF Ids
<1> QED
    BY <1>1, <1>2 DEF Rooted

\* The leaf a search ends at holds the record of the key, if there is one.
LEMMA GetIs ==
  ASSUME NEW G, Kept(slots, chain, prealloc, tree, contents, G), image = Images(slots),
         NEW k \in Keys, tree.top # Null
  PROVE  /\ TreeShape(tree, G)
         /\ LeafSearch(k) \in LeafIds /\ k \in G[LeafSearch(k)]
         /\ \A s \in Slots : image[LeafSearch(k)][s] = slots[LeafSearch(k)][s].key
         /\ contents[k] = NoValue => SlotOf(LeafSearch(k), k) = {}
         /\ contents[k] # NoValue =>
              \E s \in Slots : SlotOf(LeafSearch(k), k) = {s} /\ slots[LeafSearch(k)][s] = Record(k, contents[k])
         /\ Get(k) = contents[k]
<1> DEFINE l == LeafSearch(k)
<1>1. TreeShape(tree, G) /\ l \in LeafIds /\ k \in G[l]
    BY TopIs, SearchIs DEF Kept
<1>2. G[l] \in SUBSET Keys /\ Holds(slots[l], G[l], contents)
    BY <1>1 DEF Kept
<1> HIDE DEF l
<1>3. \A s \in Slots : image[l][s] = slots[l][s].key
    BY <1>1 DEF Images
<1>4. SlotOf(l, k) = {s \in Slots : slots[l][s].key = k}
    BY <1>3 DEF SlotOf
<1> DEFINE D == G[l]
           f == slots[l]
           co == contents
<1>5. D \in SUBSET Keys /\ Holds(f, D, co) /\ k \in D /\ SlotOf(l, k) = {s \in Slots : f[s].key = k}
    BY <1>1, <1>2, <1>4
<1>6. ASSUME NEW s \in SlotOf(l, k) PROVE SlotOf(l, k) = {s} /\ f[s] = Record(k, co[k]) /\ co[k] \in Values
  <2> HIDE DEF D, f, co
  <2>1. s \in Slots /\ f[s].key = k
      BY <1>5
  <2>2. f[s] = Record(k, co[k]) /\ co[k] \in Values /\ f[s] # Free
    <3>1. k \in Keys
        BY ONLY <1>5
    <3>2. /\ f[s].key = NoKey <=> f[s] = Free
          /\ \A j \in Keys : f[s].key = j => j \in D /\ f[s] = Record(j, co[j]) /\ co[j] \in Values
      <4>1. D \in SUBSET Keys /\ Holds(f, D, co) /\ s \in Slots
          BY ONLY <1>5, <2>1
      <4> QED
          BY ONLY <4>1, FreeIs
    <3> QED
        BY ONLY <2>1, <3>1, <3>2, NamesAssumption
  <2>3. \A r \in Slots : f[r].key = k => r = s
      BY <1>5, <2>1, <2>2 DEF Holds
  <2>4. SlotOf(l, k) = {s}
      BY <1>5, <2>1, <2>3
  <2> QED
      BY <2>2, <2>4
<1>7. ASSUME co[k] # NoValue PROVE \E s \in Slots : s \in SlotOf(l, k)
  <2>1. PICK s \in Slots : f[s] = Record(k, co[k])
      BY <1>5, <1>7 DEF Holds
  <2>2. f[s].key = k
      BY <2>1 DEF Record
  <2> HIDE DEF f
  <2> QED
      BY <1>5, <2>2
<1>8. ASSUME SlotOf(l, k) # {} PROVE Get(k) = co[k]
  <2>1. PICK s : s \in SlotOf(l, k)
      BY <1>8
  <2>2. SlotOf(l, k) = {s} /\ f[s] = Record(k, co[k]) /\ s \in Slots
      BY <1>5, <1>6, <2>1
  <2>3. s <= s
      BY <2>2, SlotsAreFinite
  <2>4. (CHOOSE a \in SlotOf(l, k) : \A r \in SlotOf(l, k) : r <= a) = s
      BY <2>2, <2>3
  <2>5. f[s].value = co[k]
      BY <2>2 DEF Record
  <2>6. Get(k) = f[s].value
    <3>1. Get(k) = slots[l][CHOOSE a \in SlotOf(l, k) : \A r \in SlotOf(l, k) : r <= a].value
        BY <1>8, Zenon DEF Get, l
    <3> QED
        BY <3>1, <2>4, Zenon
  <2> QED
      BY <2>5, <2>6
<1>9. co[k] = NoValue => SlotOf(l, k) = {}
    BY <1>6, NamesAssumption
<1>10. co[k] # NoValue => \E s \in Slots : SlotOf(l, k) = {s} /\ f[s] = Record(k, co[k])
    BY <1>6, <1>7
<1>11. SlotOf(l, k) = {} => Get(k) = NoValue
    BY DEF Get, l
<1>12. Get(k) = co[k]
    BY <1>7, <1>8, <1>11
<1> QED
    BY <1>1, <1>3, <1>9, <1>10, <1>12 DEF l

-----------------------------------------------------------------------------
(* Every step keeps the invariant.                                         *)

\* The leaf a new leaf node gets serves nothing yet.
LEMMA NewLeafIs ==
  ASSUME NEW G, Placed(chain, prealloc, G), HasNewLeaf
  PROVE  NewLeaf \in LeafIds /\ G[NewLeaf] = {}
<1>1. /\ chain \subseteq LeafIds /\ prealloc \subseteq chain
      /\ \A l \in LeafIds : G[l] # {} => l \in chain \ prealloc
    BY DEF Placed
<1>2. \A ids \in SUBSET LeafIds : ids # {} => Oldest(ids) \in ids
  <2> SUFFICES ASSUME NEW ids \in SUBSET LeafIds, ids # {} PROVE Oldest(ids) \in ids
      OBVIOUS
  <2>1. ids \subseteq Int /\ IsFiniteSet(ids)
      BY RoomAssumption, FS_Subset
  <2> QED
      BY <2>1, OldestIs
<1>3. CASE prealloc # {}
  <2>1. NewLeaf \in prealloc
      BY <1>1, <1>2, <1>3 DEF NewLeaf
  <2> QED
      BY <1>1, <2>1
<1>4. CASE prealloc = {}
  <2>1. LeafIds \ chain # {}
      BY <1>1, <1>4 DEF HasNewLeaf
  <2>2. NewLeaf \in LeafIds \ chain
      BY <1>2, <1>4, <2>1 DEF NewLeaf
  <2> QED
      BY <1>1, <2>2
<1> QED
    BY <1>3, <1>4

LEMMA TakeLeafIs ==
  ASSUME NEW G, NEW H, Placed(chain, prealloc, G), HasNewLeaf, TakeLeaf,
         \A l \in LeafIds : H[l] # {} /\ l # NewLeaf => G[l] # {}
  PROVE  Placed(chain', prealloc', H)
<1>1. /\ chain \subseteq LeafIds /\ prealloc \subseteq chain
      /\ \A l \in LeafIds : G[l] # {} => l \in chain \ prealloc
    BY DEF Placed
<1>2. NewLeaf \in LeafIds
    BY NewLeafIs
<1> DEFINE n == NewLeaf
<1>3. CASE prealloc # {}
  <2>1. prealloc' = prealloc \ {n} /\ chain' = chain
      BY <1>3 DEF TakeLeaf
  <2>2. n \in prealloc
    <3>1. prealloc \subseteq Int /\ IsFiniteSet(prealloc)
        BY <1>1, RoomAssumption, FS_Subset
    <3> QED
        BY <1>3, <3>1, OldestIs DEF NewLeaf
  <2> HIDE DEF n
  <2> QED
      BY <1>1, <2>1, <2>2 DEF Placed, n
<1>4. CASE prealloc = {}
  <2>1. chain' = chain \cup {n} /\ prealloc' = {}
      BY <1>4 DEF TakeLeaf
  <2>2. n \in LeafIds
      BY <1>2
  <2> HIDE DEF n
  <2> QED
      BY <1>1, <2>1, <2>2 DEF Placed, n
<1> QED
    BY <1>3, <1>4

\* No transaction fails, or the program reopens the database when one has.
Recovers == Oom = {} \/ Reopens

\* Then a call finds a database without failure.
LEMMA CallIs ==
  ASSUME IInv, Recovers, MayCall
  PROVE  /\ failed = FALSE /\ image = Images(slots)
         /\ \E G : Kept(slots, chain, prealloc, tree, contents, G)
<1>1. failed = FALSE
    BY DEF IInv, MayCall, Recovers
<1> QED
    BY <1>1 DEF IInv

LEMMA InvAgain ==
  ASSUME NEW G, Kept(slots', chain', prealloc', tree', contents', G), failed' \in BOOLEAN, failed' => Oom # {},
         ~failed' => image' = Images(slots')
  PROVE  IInv'
BY DEF IInv, Kept, Rooted, Placed, Partition, TreeShape, Holds, Images

LEMMA PutHeadKeeps ==
  ASSUME IInv, Recovers, NEW k \in Keys, NEW v \in Values, PutHead(k, v)
  PROVE  IInv'
<1>1. PICK G : Kept(slots, chain, prealloc, tree, contents, G)
    BY DEF IInv
<1>2. failed = FALSE /\ image = Images(slots)
    BY CallIs DEF PutHead, Stored
<1> DEFINE l == NewLeaf
           H == Alone(l)
<1>3. /\ tree.top = Null /\ HasNewLeaf /\ TakeLeaf
      /\ slots' = [slots EXCEPT ![l][1] = Record(k, v)]
      /\ image' = [image EXCEPT ![l] = [NoImage EXCEPT ![1] = k]]
      /\ tree' = [tree EXCEPT !.top = l]
      /\ contents' = [contents EXCEPT ![k] = v] /\ failed' = FALSE
    BY <1>2 DEF PutHead, Stored
<1>4. tree = EmptyTree /\ (\A m \in LeafIds : G[m] = {}) /\ \A j \in Keys : contents[j] = NoValue
    BY <1>1, <1>3, TopIs DEF Kept, Rooted
<1>5. Placed(chain, prealloc, G) /\ slots \in [LeafIds -> [Slots -> Held]] /\ contents \in [Keys -> Values \cup {NoValue}]
    BY <1>1 DEF Kept
<1>6. l \in LeafIds
    BY <1>3, <1>5, NewLeafIs
<1>7. \A m \in LeafIds : slots[m] = NoRecords
  <2> TAKE m \in LeafIds
  <2>1. Holds(slots[m], {}, contents)
      BY <1>1, <1>4 DEF Kept
  <2> QED
      BY <2>1, EmptyHolds
<1>8. TreeShape(tree', H) /\ H \in [LeafIds -> SUBSET Keys]
    BY <1>3, <1>4, <1>6, LoneLeaf
<1>9. Placed(chain', prealloc', H)
  <2>1. \A m \in LeafIds : m # l => H[m] = {}
      BY DEF Alone
  <2> HIDE DEF H
  <2>2. \A m \in LeafIds : H[m] # {} /\ m # NewLeaf => G[m] # {}
      BY <2>1
  <2> QED
      BY <1>3, <1>5, <2>2, TakeLeafIs
<1> HIDE DEF l
<1>10. 1 \in Slots
    BY SizesAssumption DEF Slots
<1>11. slots' \in [LeafIds -> [Slots -> Held]] /\ slots'[l] = [slots[l] EXCEPT ![1] = Record(k, v)]
       /\ \A m \in LeafIds : m # l => slots'[m] = slots[m]
  <2>1. Record(k, v) \in Held
      BY DEF Record, Held
  <2> QED
      BY <1>3, <1>5, <1>6, <1>10, <2>1
<1>12. ASSUME NEW m \in LeafIds PROVE Holds(slots'[m], H[m], contents')
  <2>1. CASE m = l
    <3>1. H[l] = Keys
        BY <1>6 DEF Alone
    <3>2. Free.key = NoKey /\ \A s \in Slots : slots[l][s] = Free
        BY <1>6, <1>7 DEF Free, Record, NoRecords
    <3>3. Holds(slots[l], Keys, contents)
      <4>1. \A s \in Slots : slots[l][s] = Free
          BY <3>2
      <4>2. slots[l] \in [Slots -> Held]
          BY <1>5, <1>6
      <4> QED
          BY <1>4, <3>2, <4>1, <4>2, NamesAssumption DEF Holds
    <3>4. slots[l][1].key = NoKey /\ \A r \in Slots : slots[l][r].key # k
        BY <1>10, <3>2, NamesAssumption
    <3>5. Holds([slots[l] EXCEPT ![1] = Record(k, v)], Keys, [contents EXCEPT ![k] = v])
        BY <1>5, <1>10, <3>3, <3>4, WriteIs
    <3> QED
        BY <1>3, <1>11, <2>1, <3>1, <3>5
  <2>2. CASE m # l
    <3>1. H[m] = {}
        BY <2>2 DEF Alone
    <3>2. slots'[m] = NoRecords
        BY <1>7, <1>11, <2>2
    <3> QED
        BY <3>1, <3>2, EmptyHolds
  <2> QED
      BY <2>1, <2>2
<1>13. image' = Images(slots')
  <2>1. Free.key = NoKey /\ Record(k, v).key = k
      BY DEF Free, Record
  <2>2. \A m \in LeafIds : m # l => image'[m] = [s \in Slots |-> slots'[m][s].key]
      BY <1>2, <1>3, <1>11 DEF Images
  <2>3. image'[l] = [s \in Slots |-> slots'[l][s].key]
    <3>1. image'[l] = [NoImage EXCEPT ![1] = k]
        BY <1>2, <1>3, <1>6 DEF Images
    <3>2. \A s \in Slots : slots'[l][s] = IF s = 1 THEN Record(k, v) ELSE Free
        BY <1>6, <1>7, <1>11 DEF NoRecords
    <3>3. \A s \in Slots : slots'[l][s].key = IF s = 1 THEN k ELSE NoKey
        BY <2>1, <3>2
    <3>4. [NoImage EXCEPT ![1] = k] = [s \in Slots |-> IF s = 1 THEN k ELSE NoKey]
        BY <1>10 DEF NoImage
    <3> QED
        BY <3>1, <3>3, <3>4
  <2>4. image' = [m \in LeafIds |-> image'[m]]
      BY <1>2, <1>3 DEF Images
  <2> QED
      BY <2>2, <2>3, <2>4 DEF Images
<1>14. contents' \in [Keys -> Values \cup {NoValue}]
    BY <1>3, <1>5
<1>15. Kept(slots', chain', prealloc', tree', contents', H)
    BY <1>8, <1>9, <1>11, <1>12, <1>14 DEF Kept, Rooted
<1> QED
    BY <1>3, <1>13, <1>15, InvAgain

\* What a failed call has done to image and to the leaves set aside, a
\* restart undoes.
LEMMA FailureKeeps ==
  ASSUME IInv, UNCHANGED <<slots, chain, tree, contents>>, prealloc' \subseteq prealloc, failed' = TRUE, Oom # {}
  PROVE  IInv'
<1>1. PICK G : Kept(slots, chain, prealloc, tree, contents, G)
    BY DEF IInv
<1>2. Kept(slots', chain', prealloc', tree', contents', G)
  <2>1. Placed(chain', prealloc', G)
      BY <1>1 DEF Kept, Placed
  <2>2. slots' = slots /\ tree' = tree /\ contents' = contents
      OBVIOUS
  <2> QED
      BY <1>1, <2>1, <2>2 DEF Kept
<1> QED
    BY <1>2, InvAgain

\* The leaves hold the contents.
AllHold(sl, G, co) ==
  /\ G \in [LeafIds -> SUBSET Keys] /\ Partition(G) /\ co \in [Keys -> Values \cup {NoValue}]
  /\ sl \in [LeafIds -> [Slots -> Held]] /\ \A m \in LeafIds : Holds(sl[m], G[m], co)

Wrote(new, old, l, s, x) == new = [old EXCEPT ![l][s] = x]
Became(new, old, k, x) == new = [old EXCEPT ![k] = x]

\* A record is written to its leaf, and its key to the leaf node.
LEMMA LeafWriteIs ==
  ASSUME NEW G, NEW co, NEW sl, AllHold(sl, G, co),
         NEW l \in LeafIds, NEW k \in G[l], NEW v \in Values, NEW s \in Slots,
         \/ sl[l][s].key = k
         \/ sl[l][s].key = NoKey /\ \A r \in Slots : sl[l][r].key # k,
         NEW new, Wrote(new, sl, l, s, Record(k, v)), NEW c, Became(c, co, k, v),
         NEW im, Wrote(im, Images(sl), l, s, k)
  PROVE  AllHold(new, G, c) /\ im = Images(new)
<1>0. /\ G \in [LeafIds -> SUBSET Keys] /\ Partition(G) /\ co \in [Keys -> Values \cup {NoValue}]
      /\ sl \in [LeafIds -> [Slots -> Held]] /\ \A m \in LeafIds : Holds(sl[m], G[m], co)
      /\ k \in Keys /\ c \in [Keys -> Values \cup {NoValue}] /\ c = [co EXCEPT ![k] = v]
      /\ new = [sl EXCEPT ![l][s] = Record(k, v)] /\ im = [Images(sl) EXCEPT ![l][s] = k]
    BY DEF AllHold, Became, Wrote
<1> DEFINE f == sl[l]
           D == G[l]
<1>1. Holds([f EXCEPT ![s] = Record(k, v)], D, [co EXCEPT ![k] = v])
  <2>1. D \in SUBSET Keys /\ Holds(f, D, co) /\ k \in D
      BY <1>0
  <2>2. f[s].key = k \/ (f[s].key = NoKey /\ \A r \in Slots : f[r].key # k)
      OBVIOUS
  <2> HIDE DEF f, D
  <2> QED
      BY <1>0, <2>1, <2>2, WriteIs
<1>2. Record(k, v) \in Held /\ Record(k, v).key = k
    BY <1>0 DEF Record, Held
<1>3. /\ new \in [LeafIds -> [Slots -> Held]] /\ new[l] = [f EXCEPT ![s] = Record(k, v)]
      /\ \A m \in LeafIds : m # l => new[m] = sl[m]
    BY <1>0, <1>2
<1>4. ASSUME NEW m \in LeafIds PROVE Holds(new[m], G[m], c)
  <2>1. CASE m = l
      BY <1>0, <1>1, <1>3, <2>1
  <2>2. CASE m # l
    <3>1. k \in Keys \ G[m]
        BY <1>0, <2>2, LeavesApart
    <3>2. G[m] \in SUBSET Keys /\ Holds(sl[m], G[m], co)
        BY <1>0
    <3>3. Holds(sl[m], G[m], [co EXCEPT ![k] = v])
        BY <1>0, <3>1, <3>2, OthersHold
    <3> QED
        BY <1>0, <1>3, <2>2, <3>3
  <2> QED
      BY <2>1, <2>2
<1>5. \A m \in LeafIds : \A r \in Slots : im[m][r] = new[m][r].key
    BY <1>0, <1>2, <1>3 DEF Images
<1>6. im = [m \in LeafIds |-> [r \in Slots |-> im[m][r]]]
    BY <1>0 DEF Images
<1>7. im = Images(new)
    BY <1>5, <1>6 DEF Images
<1> QED
    BY <1>0, <1>3, <1>4, <1>7 DEF AllHold

\* The key gets the slot it has, or the lowest free one.
LEMMA PutFillKeeps ==
  ASSUME IInv, Recovers, NEW k \in Keys, NEW v \in Values, PutFill(k, v)
  PROVE  IInv'
<1>1. PICK G : Kept(slots, chain, prealloc, tree, contents, G)
    BY DEF IInv
<1>2. failed = FALSE /\ image = Images(slots)
    BY CallIs DEF PutFill, Stored
<1> DEFINE l == LeafSearch(k)
           s == Oldest(Suitable(l, k))
<1>3. /\ tree.top # Null /\ Suitable(l, k) # {}
      /\ slots' = [slots EXCEPT ![l][s] = Record(k, v)] /\ image' = [image EXCEPT ![l][s] = k]
      /\ contents' = [contents EXCEPT ![k] = v] /\ failed' = FALSE
      /\ chain' = chain /\ tree' = tree /\ prealloc' = prealloc
    BY <1>2 DEF PutFill, Stored
<1>4. /\ TreeShape(tree, G) /\ l \in LeafIds /\ k \in G[l]
      /\ \A r \in Slots : image[l][r] = slots[l][r].key
    BY <1>1, <1>2, <1>3, GetIs
<1> HIDE DEF l
<1>5. s \in Suitable(l, k) /\ s \in Slots
  <2>1. Suitable(l, k) \subseteq Slots
      BY DEF Suitable, SlotOf, EmptySlots
  <2>2. Suitable(l, k) \subseteq Int /\ IsFiniteSet(Suitable(l, k))
      BY <2>1, SlotsAreFinite, FS_Subset
  <2> QED
      BY <1>3, <2>1, <2>2, OldestIs
<1> HIDE DEF s
<1>6. \/ slots[l][s].key = k
      \/ slots[l][s].key = NoKey /\ \A r \in Slots : slots[l][r].key # k
    BY <1>4, <1>5 DEF Suitable, SlotOf, EmptySlots
<1>7. /\ slots \in [LeafIds -> [Slots -> Held]] /\ contents \in [Keys -> Values \cup {NoValue}]
      /\ G \in [LeafIds -> SUBSET Keys] /\ \A m \in LeafIds : Holds(slots[m], G[m], contents)
      /\ Placed(chain, prealloc, G) /\ Partition(G)
    BY <1>1, <1>4 DEF Kept, TreeShape
<1>8. /\ slots' \in [LeafIds -> [Slots -> Held]] /\ \A m \in LeafIds : Holds(slots'[m], G[m], contents')
      /\ image' = Images(slots')
  <2>1. AllHold(slots, G, contents)
      BY <1>7 DEF AllHold
  <2>2. Wrote(slots', slots, l, s, Record(k, v)) /\ Became(contents', contents, k, v)
      BY <1>3 DEF Wrote, Became
  <2>3. Wrote(image', Images(slots), l, s, k)
      BY <1>2, <1>3 DEF Wrote
  <2>4. l \in LeafIds /\ k \in G[l] /\ v \in Values /\ s \in Slots
      BY <1>4, <1>5
  <2>5. AllHold(slots', G, contents') /\ image' = Images(slots')
      BY ONLY <1>6, <2>1, <2>2, <2>3, <2>4, LeafWriteIs
  <2> QED
      BY <2>5 DEF AllHold
<1>9. contents' \in [Keys -> Values \cup {NoValue}]
    BY <1>3, <1>7
<1>10. Kept(slots', chain', prealloc', tree', contents', G)
  <2>1. Rooted(tree', G, contents')
      BY <1>3, <1>4 DEF Rooted
  <2> QED
      BY <1>3, <1>7, <1>8, <1>9, <2>1 DEF Kept
<1> QED
    BY <1>3, <1>8, <1>10, InvAgain

\* The record of a key is gone from the leaf and the leaf node.
Erases(k) ==
  LET l == LeafSearch(k)
      s == Oldest(SlotOf(l, k))
  IN /\ Get(k) # NoValue
     /\ slots' = Cleared(l, s) /\ image' = Forgotten(l, s)
     /\ contents' = [contents EXCEPT ![k] = NoValue]
     /\ UNCHANGED <<chain, tree, prealloc>>

\* The slot of the key is freed; the leaf stays, also when it is empty.
LEMMA ErasesKeeps ==
  ASSUME IInv, Recovers, MayCall, NEW k \in Keys, Erases(k), failed' \in BOOLEAN, failed' => Oom # {}
  PROVE  IInv'
<1>1. PICK G : Kept(slots, chain, prealloc, tree, contents, G)
    BY DEF IInv
<1>2. failed = FALSE /\ image = Images(slots)
    BY CallIs
<1> DEFINE l == LeafSearch(k)
           s == Oldest(SlotOf(l, k))
<1>3. /\ Get(k) # NoValue
      /\ slots' = [slots EXCEPT ![l][s] = Free] /\ image' = [image EXCEPT ![l][s] = NoKey]
      /\ contents' = [contents EXCEPT ![k] = NoValue]
      /\ chain' = chain /\ tree' = tree /\ prealloc' = prealloc
    BY DEF Erases, Cleared, Forgotten
<1>4. tree.top # Null
    BY <1>3 DEF Get
<1>5. /\ TreeShape(tree, G) /\ l \in LeafIds /\ k \in G[l] /\ SlotOf(l, k) # {}
      /\ \A r \in Slots : image[l][r] = slots[l][r].key
  <2>1. contents[k] # NoValue
      BY <1>1, <1>2, <1>3, <1>4, GetIs
  <2>2. \E r \in Slots : SlotOf(l, k) = {r}
      BY <1>1, <1>2, <1>4, <2>1, GetIs
  <2> QED
      BY <1>1, <1>2, <1>4, <2>2, GetIs
<1> HIDE DEF l
<1>6. s \in SlotOf(l, k) /\ s \in Slots
  <2>1. SlotOf(l, k) \subseteq Slots
      BY DEF SlotOf
  <2>2. SlotOf(l, k) \subseteq Int /\ IsFiniteSet(SlotOf(l, k))
      BY <2>1, SlotsAreFinite, FS_Subset
  <2> QED
      BY <1>5, <2>1, <2>2, OldestIs
<1> HIDE DEF s
<1>7. /\ slots \in [LeafIds -> [Slots -> Held]] /\ contents \in [Keys -> Values \cup {NoValue}]
      /\ G \in [LeafIds -> SUBSET Keys] /\ \A m \in LeafIds : Holds(slots[m], G[m], contents)
      /\ Placed(chain, prealloc, G) /\ Partition(G)
    BY <1>1, <1>5 DEF Kept, TreeShape
<1>8. Holds([slots[l] EXCEPT ![s] = Free], G[l], [contents EXCEPT ![k] = NoValue])
  <2> DEFINE f == slots[l]
             D == G[l]
  <2>1. D \in SUBSET Keys /\ Holds(f, D, contents) /\ k \in D /\ f[s].key = k
      BY <1>5, <1>6, <1>7 DEF SlotOf
  <2> HIDE DEF f, D
  <2>2. Holds([f EXCEPT ![s] = Free], D, [contents EXCEPT ![k] = NoValue])
      BY <1>6, <1>7, <2>1, EraseIs
  <2> QED
      BY <2>2 DEF f, D
<1>9. /\ slots' \in [LeafIds -> [Slots -> Held]] /\ slots'[l] = [slots[l] EXCEPT ![s] = Free]
      /\ \A m \in LeafIds : m # l => slots'[m] = slots[m]
  <2>1. Free \in Held
      BY DEF Free, Record, Held
  <2> QED
      BY <1>3, <1>5, <1>6, <1>7, <2>1
<1>10. ASSUME NEW m \in LeafIds PROVE Holds(slots'[m], G[m], contents')
  <2>1. CASE m = l
      BY <1>3, <1>8, <1>9, <2>1
  <2>2. CASE m # l
    <3>1. k \in Keys \ G[m]
        BY <1>5, <1>7, <2>2, LeavesApart
    <3>2. G[m] \in SUBSET Keys /\ Holds(slots[m], G[m], contents)
        BY <1>7
    <3>3. Holds(slots[m], G[m], [contents EXCEPT ![k] = NoValue])
        BY <1>7, <3>1, <3>2, OthersHold
    <3> QED
        BY <1>3, <1>9, <2>2, <3>3
  <2> QED
      BY <2>1, <2>2
<1>11. image' = Images(slots')
  <2>1. Free.key = NoKey
      BY DEF Free, Record
  <2>2. \A m \in LeafIds : \A r \in Slots : image'[m][r] = slots'[m][r].key
      BY <1>2, <1>3, <1>5, <1>6, <1>7, <1>9, <2>1 DEF Images
  <2>3. image' = [m \in LeafIds |-> [r \in Slots |-> image'[m][r]]]
      BY <1>2, <1>3, <1>5 DEF Images
  <2> QED
      BY <2>2, <2>3 DEF Images
<1>12. contents' \in [Keys -> Values \cup {NoValue}]
    BY <1>3, <1>7
<1>13. Kept(slots', chain', prealloc', tree', contents', G)
  <2>1. Rooted(tree', G, contents')
      BY <1>3, <1>5 DEF Rooted
  <2> QED
      BY <1>3, <1>7, <1>9, <1>10, <1>12, <2>1 DEF Kept
<1> QED
    BY <1>11, <1>13, InvAgain

LEMMA RemoveKeeps ==
  ASSUME IInv, Recovers, NEW k \in Keys, RemoveRecord(k)
  PROVE  IInv'
<1>1. MayCall /\ Erases(k) /\ failed' = failed
    BY DEF RemoveRecord, Stored, Erases
<1>2. failed' \in BOOLEAN /\ (failed' => Oom # {})
    BY <1>1 DEF IInv
<1> QED
    BY <1>1, <1>2, ErasesKeeps

\* A remove that fails has left the record, or has erased it all the same.
LEMMA RemoveFailsKeeps ==
  ASSUME IInv, Recovers, NEW k \in Keys, RemoveFails(k)
  PROVE  IInv'
<1>1. MayCall /\ failed' = TRUE /\ Oom # {}
    BY DEF RemoveFails, Fails
<1>2. CASE UNCHANGED <<slots, contents>>
  <2>1. UNCHANGED <<slots, chain, tree, contents>> /\ prealloc' \subseteq prealloc
      BY <1>2 DEF RemoveFails
  <2> QED
      BY <1>1, <2>1, FailureKeeps
<1>3. CASE ~UNCHANGED <<slots, contents>>
  <2>1. Erases(k)
      BY <1>3 DEF RemoveFails, Erases
  <2> QED
      BY <1>1, <2>1, ErasesKeeps
<1> QED
    BY <1>2, <1>3

\* As many values as arguments.
LEMMA SameCount ==
  ASSUME NEW S, IsFiniteSet(S), NEW f, NEW T, f \in [S -> T], \A x \in T : \E a \in S : f[a] = x,
         \A a, b \in S : f[a] = f[b] => a = b
  PROVE  IsFiniteSet(T) /\ Cardinality(T) = Cardinality(S)
<1>1. f \in Surjection(S, T) /\ f \in Injection(S, T)
    BY DEF Surjection, Injection, IsInjective
<1> QED
    BY <1>1, FS_Surjection

\* The middle of the keys of a full leaf and a new key: keys lie above it.
LEMMA SplitKeyIs ==
  ASSUME NEW D \in SUBSET Keys, NEW co, NEW f, Holds(f, D, co), NEW k \in D, NEW l,
         \A s \in Slots : image[l][s] = f[s].key /\ f[s].key # NoKey /\ f[s].key # k
  PROVE  /\ SplitKey(l, k) \in D
         /\ \E j \in D : SplitKey(l, k) < j
         /\ k <= SplitKey(l, k) => \E s \in Slots : f[s].key > SplitKey(l, k)
         /\ k > SplitKey(l, k) => \E s \in Slots : f[s].key = SplitKey(l, k)
<1> DEFINE taken == {f[s].key : s \in Slots}
           all == {k} \cup taken
           same == [a \in all |-> a]
           keys == [s \in Slots |-> f[s].key]
           mid == LeafMidpoint
<1>1. \A s \in Slots : f[s].key \in D /\ f[s].key \in Keys /\ f[s] # Free
    BY FreeIs
<1>2. taken \subseteq D /\ all \subseteq D /\ k \notin taken /\ D \subseteq Int /\ D \subseteq Keys
    BY <1>1, NamesAssumption
<1>3. IsFiniteSet(taken) /\ Cardinality(taken) = LeafKeys
  <2>1. keys \in [Slots -> taken] /\ \A x \in taken : \E s \in Slots : keys[s] = x
      OBVIOUS
  <2>2. \A s, r \in Slots : keys[s] = keys[r] => s = r
      BY <1>1 DEF Holds
  <2> HIDE DEF keys, taken
  <2>3. IsFiniteSet(taken) /\ Cardinality(taken) = Cardinality(Slots)
      BY ONLY <2>1, <2>2, SlotsAreFinite, SameCount
  <2> QED
      BY <2>3, SlotsAreFinite
<1>4. IsFiniteSet(all) /\ Cardinality(all) = LeafKeys + 1
  <2>1. taken \cup {k} = all
      OBVIOUS
  <2> HIDE DEF all, taken
  <2> QED
      BY <1>2, <1>3, <2>1, FS_AddElement
<1> HIDE DEF all
<1>5. \A a \in all : same[a] = a /\ a \in Int /\ a \in D
    BY <1>2
<1>6. Orders(same, all)
    BY <1>4, <1>5 DEF Orders
<1>7. \A m \in all : Position(all, same, m) = Cardinality({a \in all : a < m})
  <2> TAKE m \in all
  <2>1. {a \in all : same[a] < same[m]} = {a \in all : a < m}
      BY <1>5
  <2> QED
      BY <2>1 DEF Position, Below
<1> HIDE DEF same
<1>8. mid \in 0 .. Cardinality(all) - 1 /\ mid + 1 \in 0 .. Cardinality(all) - 1 /\ mid \in Nat
    BY <1>4, SizesAssumption DEF LeafMidpoint
<1> HIDE DEF mid
<1>9. PICK m0 \in all : Position(all, same, m0) = mid
    BY <1>6, <1>8, PositionsAreTaken
<1>10. SplitKey(l, k) \in all /\ Position(all, same, SplitKey(l, k)) = mid
  <2>1. {k} \cup {image[l][s] : s \in Slots} = all
      BY DEF all
  <2>2. SplitKey(l, k) = CHOOSE m \in all : Cardinality({a \in all : a < m}) = mid
      BY <2>1 DEF SplitKey, mid
  <2>3. \E m \in all : Cardinality({a \in all : a < m}) = mid
      BY <1>7, <1>9
  <2>4. SplitKey(l, k) \in all /\ Cardinality({a \in all : a < SplitKey(l, k)}) = mid
      BY <2>2, <2>3
  <2> QED
      BY <1>7, <2>4
<1> DEFINE m == SplitKey(l, k)
<1>11. m \in all /\ Position(all, same, m) = mid
    BY <1>10
<1> HIDE DEF m
<1>12. PICK e \in all : Position(all, same, e) = mid + 1
    BY <1>6, <1>8, PositionsAreTaken
<1>13. m < e
  <2> SUFFICES ASSUME ~(m < e) PROVE FALSE
      OBVIOUS
  <2>1. e < m \/ e = m
      BY <1>5, <1>11
  <2>2. e = m \/ Position(all, same, e) < Position(all, same, m)
      BY <1>5, <1>6, <1>11, <2>1, PositionsDiffer
  <2> QED
      BY <1>8, <1>11, <1>12, <2>2
<1>14. m \in Int /\ e \in Int /\ k \in Int /\ m \in D /\ e \in D
    BY <1>2, <1>5, <1>11
<1>15. k <= m => \E s \in Slots : f[s].key > m
  <2> SUFFICES ASSUME k <= m PROVE \E s \in Slots : f[s].key > m
      OBVIOUS
  <2>1. e # k
      BY <1>13, <1>14
  <2>2. PICK s \in Slots : f[s].key = e
      BY <2>1 DEF all
  <2> QED
      BY <1>13, <1>14, <2>2
<1>16. k > m => \E s \in Slots : f[s].key = m
  <2> SUFFICES ASSUME k > m PROVE \E s \in Slots : f[s].key = m
      OBVIOUS
  <2>1. m # k
      BY <1>14
  <2> QED
      BY <1>11, <2>1 DEF all
<1>17. m \in D /\ \E j \in D : m < j
    BY <1>13, <1>14
<1> QED
    BY <1>15, <1>16, <1>17 DEF m

Moved(new, old, l, n, mv, empty) ==
  new = [old EXCEPT ![l] = KeepRest(old[l], mv, empty), ![n] = KeepMoved(old[l], mv, empty)]

\* The slots above sk move to another leaf, in the leaves and in their images.
LEMMA LeafMoveIs ==
  ASSUME NEW G, NEW co, NEW sl, AllHold(sl, G, co),
         NEW l \in LeafIds, NEW n \in LeafIds, l # n, G[n] = {}, NEW sk \in Keys,
         NEW mv, mv = {s \in Slots : sl[l][s].key > sk}, \A s \in Slots : sl[l][s].key # NoKey,
         NEW new, Moved(new, sl, l, n, mv, Free), NEW im, Moved(im, Images(sl), l, n, mv, NoKey)
  PROVE  AllHold(new, Handed(G, l, n, sk), co) /\ im = Images(new)
<1>1. /\ G \in [LeafIds -> SUBSET Keys] /\ Partition(G) /\ co \in [Keys -> Values \cup {NoValue}]
      /\ sl \in [LeafIds -> [Slots -> Held]] /\ \A m \in LeafIds : Holds(sl[m], G[m], co)
    BY DEF AllHold
<1> DEFINE H == Handed(G, l, n, sk)
           f == sl[l]
           D == G[l]
<1>2. /\ H \in [LeafIds -> SUBSET Keys] /\ H[l] = {k \in D : k <= sk} /\ H[n] = {k \in D : sk < k}
      /\ \A m \in LeafIds : m # l /\ m # n => H[m] = G[m]
    BY <1>1, HandedIs
<1>3. Partition(H)
    BY <1>1, HandedPartition
<1> HIDE DEF H
<1>4. Holds(KeepRest(f, mv, Free), {k \in D : k <= sk}, co) /\ Holds(KeepMoved(f, mv, Free), {k \in D : sk < k}, co)
  <2>1. D \in SUBSET Keys /\ Holds(f, D, co) /\ mv = {s \in Slots : f[s].key > sk} /\ \A s \in Slots : f[s].key # NoKey
      BY <1>1
  <2> HIDE DEF f, D
  <2> QED
      BY ONLY <2>1, MoveIs, sk \in Keys
<1> HIDE DEF f, D
<1>5. KeepRest(f, mv, Free) \in [Slots -> Held] /\ KeepMoved(f, mv, Free) \in [Slots -> Held]
    BY <1>4 DEF Holds
<1>6. /\ new = [sl EXCEPT ![l] = KeepRest(f, mv, Free), ![n] = KeepMoved(f, mv, Free)]
      /\ im = [Images(sl) EXCEPT ![l] = KeepRest(Images(sl)[l], mv, NoKey), ![n] = KeepMoved(Images(sl)[l], mv, NoKey)]
    BY DEF Moved, f
<1>7. /\ new \in [LeafIds -> [Slots -> Held]]
      /\ new[l] = KeepRest(f, mv, Free) /\ new[n] = KeepMoved(f, mv, Free)
      /\ \A m \in LeafIds : m # l /\ m # n => new[m] = sl[m]
    BY <1>1, <1>5, <1>6
<1>8. \A m \in LeafIds : Holds(new[m], H[m], co)
    BY <1>1, <1>2, <1>4, <1>7
<1>9. im = Images(new)
  <2>1. Free.key = NoKey
      BY DEF Free, Record
  <2>2. \A m \in LeafIds : m # l /\ m # n => im[m] = [s \in Slots |-> new[m][s].key]
      BY <1>6, <1>7 DEF Images
  <2>3. /\ im[l] = KeepRest([s \in Slots |-> f[s].key], mv, NoKey)
        /\ im[n] = KeepMoved([s \in Slots |-> f[s].key], mv, NoKey)
      BY <1>6 DEF Images, f
  <2>4. im[l] = [s \in Slots |-> new[l][s].key] /\ im[n] = [s \in Slots |-> new[n][s].key]
      BY <1>7, <2>1, <2>3 DEF KeepRest, KeepMoved
  <2>5. im = [m \in LeafIds |-> im[m]]
      BY <1>6 DEF Images
  <2> QED
      BY <2>2, <2>4, <2>5 DEF Images
<1> QED
    BY <1>1, <1>2, <1>3, <1>7, <1>8, <1>9 DEF AllHold, H

\* A full leaf gives its upper records to a new one, and the record goes to
\* the half whose keys it lies among.
LEMMA PutSplitKeeps ==
  ASSUME IInv, Recovers, NEW k \in Keys, NEW v \in Values, PutSplit(k, v)
  PROVE  IInv'
<1>1. PICK G : Kept(slots, chain, prealloc, tree, contents, G)
    BY DEF IInv
<1>2. failed = FALSE /\ image = Images(slots)
    BY CallIs DEF PutSplit, Stored
<1> DEFINE l == LeafSearch(k)
           n == NewLeaf
           sk == SplitKey(l, k)
           mv == Moving(l, k)
           split == [image EXCEPT ![l] = KeepRest(image[l], mv, NoKey), ![n] = KeepMoved(image[l], mv, NoKey)]
           base == [slots EXCEPT ![l] = KeepRest(slots[l], mv, Free), ![n] = KeepMoved(slots[l], mv, Free)]
           target == IF k > sk THEN n ELSE l
           s == Highest(split[target], NoKey)
           H == Handed(G, l, n, sk)
<1>3. /\ tree.top # Null /\ Suitable(l, k) = {} /\ HasNewLeaf /\ TakeLeaf
      /\ slots' = [base EXCEPT ![target][s] = Record(k, v)] /\ image' = [split EXCEPT ![target][s] = k]
      /\ tree' = InnerUpdateAfterSplit([tree EXCEPT !.parent[n] = tree.parent[l]], l, n, sk)
      /\ contents' = [contents EXCEPT ![k] = v] /\ failed' = FALSE
    BY <1>2, Zenon DEF PutSplit, Stored
<1>4. /\ TreeShape(tree, G) /\ l \in LeafIds /\ k \in G[l]
      /\ \A r \in Slots : image[l][r] = slots[l][r].key
    BY <1>1, <1>2, <1>3, GetIs
<1>5. AllHold(slots, G, contents) /\ Placed(chain, prealloc, G)
    BY <1>1, <1>4 DEF Kept, AllHold, TreeShape
<1>6. n \in LeafIds /\ G[n] = {}
    BY <1>3, <1>5, NewLeafIs
<1>7. \A r \in Slots : image[l][r] = slots[l][r].key /\ slots[l][r].key # NoKey /\ slots[l][r].key # k
  <2>1. SlotOf(l, k) = {} /\ EmptySlots(l) = {}
      BY <1>3 DEF Suitable
  <2> HIDE DEF l
  <2> QED
      BY <1>4, <2>1 DEF SlotOf, EmptySlots
<1> HIDE DEF l
<1>8. /\ sk \in G[l] /\ \E j \in G[l] : sk < j
      /\ k <= sk => \E r \in Slots : slots[l][r].key > sk
      /\ k > sk => \E r \in Slots : slots[l][r].key = sk
  <2> DEFINE f == slots[l]
             D == G[l]
  <2>1. D \in SUBSET Keys /\ Holds(f, D, contents) /\ k \in D
      BY <1>4, <1>5 DEF AllHold
  <2>2. \A r \in Slots : image[l][r] = f[r].key /\ f[r].key # NoKey /\ f[r].key # k
      BY <1>7
  <2> HIDE DEF f, D
  <2>3. /\ sk \in D /\ \E j \in D : sk < j
        /\ k <= sk => \E r \in Slots : f[r].key > sk
        /\ k > sk => \E r \in Slots : f[r].key = sk
      BY <2>1, <2>2, SplitKeyIs
  <2> QED
      BY <2>3 DEF f, D
<1>9. mv = {r \in Slots : slots[l][r].key > sk}
    BY <1>7 DEF Moving
<1> HIDE DEF n, sk, mv
<1>10. l # n /\ sk \in Keys /\ sk \in Int /\ k \in Int
    BY <1>4, <1>5, <1>6, <1>8, NamesAssumption DEF AllHold
<1>11. AllHold(base, H, contents) /\ split = Images(base)
  <2>1. Moved(base, slots, l, n, mv, Free) /\ Moved(split, Images(slots), l, n, mv, NoKey)
      BY <1>2 DEF Moved
  <2> HIDE DEF base, split
  <2> QED
      BY ONLY <1>4, <1>5, <1>6, <1>7, <1>9, <1>10, <2>1, LeafMoveIs DEF H
<1>12. TreeShape(tree', H)
  <2>1. G \in [LeafIds -> SUBSET Keys]
      BY <1>5 DEF AllHold
  <2> DEFINE t1 == [tree EXCEPT !.parent[n] = tree.parent[l]]
  <2>2. tree' = InnerUpdateAfterSplit(t1, l, n, sk)
      BY <1>3
  <2>3. t1 = [tree EXCEPT !.parent[n] = tree.parent[l]]
      OBVIOUS
  <2> HIDE DEF t1
  <2>4. TreeShape(InnerUpdateAfterSplit(t1, l, n, sk), Handed(G, l, n, sk))
      BY ONLY <1>4, <1>6, <1>8, <1>10, <2>1, <2>3, LeafSplitIs
  <2> QED
      BY <2>2, <2>4
<1>13. /\ H[l] = {j \in G[l] : j <= sk} /\ H[n] = {j \in G[l] : sk < j}
       /\ \A m \in LeafIds : m # l /\ m # n => H[m] = G[m]
    BY <1>4, <1>5, <1>6, <1>10, HandedIs DEF AllHold
<1>14. /\ base[l] = KeepRest(slots[l], mv, Free) /\ base[n] = KeepMoved(slots[l], mv, Free)
    BY <1>4, <1>5, <1>6, <1>10 DEF AllHold
<1> HIDE DEF H
\* There is room in the half the record goes to.
<1>15. target \in LeafIds /\ k \in H[target] /\ \E r \in Slots : base[target][r] = Free
  <2>1. CASE k > sk
    <3>1. target = n
        BY <2>1
    <3>2. k \in H[n]
        BY <1>4, <1>10, <1>13, <2>1
    <3>3. PICK r \in Slots : slots[l][r].key = sk
        BY <1>8, <2>1
    <3>4. r \notin mv
        BY <1>9, <1>10, <3>3
    <3>5. base[n][r] = Free
        BY <1>14, <3>4 DEF KeepMoved
    <3> QED
        BY <1>6, <3>1, <3>2, <3>5
  <2>2. CASE ~(k > sk)
    <3>1. target = l /\ k <= sk
        BY <1>10, <2>2
    <3>2. k \in H[l]
        BY <1>4, <1>13, <3>1
    <3>3. PICK r \in Slots : slots[l][r].key > sk
        BY <1>8, <3>1
    <3>4. base[l][r] = Free
        BY <1>9, <1>14, <3>3 DEF KeepRest
    <3> QED
        BY <1>4, <3>1, <3>2, <3>4
  <2> QED
      BY <2>1, <2>2
<1>16. \A r \in Slots : base[target][r].key # k
  <2>1. Free.key = NoKey /\ NoKey # k
      BY NamesAssumption DEF Free, Record
  <2>2. \A r \in Slots : base[target][r] = slots[l][r] \/ base[target][r] = Free
      BY <1>14 DEF KeepRest, KeepMoved
  <2> HIDE DEF base, target
  <2> QED
      BY <1>7, <2>1, <2>2
<1>17. split[target] = [r \in Slots |-> base[target][r].key]
  <2> HIDE DEF split, base, target
  <2> QED
      BY <1>11, <1>15 DEF Images
<1> HIDE DEF split, base, target
<1>18. s \in Slots /\ base[target][s].key = NoKey
  <2> DEFINE f == split[target]
             C == {r \in Slots : f[r] = NoKey}
  <2>1. C # {}
    <3>1. Free.key = NoKey
        BY DEF Free, Record
    <3> QED
        BY <1>15, <1>17, <3>1
  <2>2. C \in SUBSET Slots /\ IsFiniteSet(C) /\ C \subseteq Int
      BY SlotsAreFinite, FS_Subset
  <2> DEFINE same == [r \in C |-> r]
  <2>3. \A r \in C : same[r] = r
      OBVIOUS
  <2> HIDE DEF C
  <2>4. Orders(same, C)
      BY <2>2 DEF Orders
  <2> HIDE DEF same
  <2>5. PICK r \in C : \A j \in C : j <= r
      BY <2>1, <2>3, <2>4, EndsExist
  <2>6. r \in Slots /\ f[r] = NoKey /\ \A j \in Slots : f[j] = NoKey => j <= r
      BY <2>5 DEF C
  <2> HIDE DEF f
  <2>7. Highest(f, NoKey) \in Slots /\ f[Highest(f, NoKey)] = NoKey
      BY <2>6 DEF Highest
  <2> QED
      BY <1>17, <2>7 DEF f
<1> HIDE DEF s
<1>19. AllHold(slots', H, contents') /\ image' = Images(slots')
  <2>1. /\ Wrote(slots', base, target, s, Record(k, v)) /\ Became(contents', contents, k, v)
        /\ Wrote(image', Images(base), target, s, k)
      BY <1>3, <1>11 DEF Wrote, Became
  <2>2. base[target][s].key = k \/ (base[target][s].key = NoKey /\ \A r \in Slots : base[target][r].key # k)
      BY <1>16, <1>18
  <2>3. target \in LeafIds /\ k \in H[target] /\ s \in Slots /\ v \in Values
      BY <1>15, <1>18
  <2> QED
      BY ONLY <1>11, <2>1, <2>2, <2>3, LeafWriteIs
<1>20. Placed(chain', prealloc', H)
  <2>1. \A m \in LeafIds : H[m] # {} /\ m # NewLeaf => G[m] # {}
      BY <1>4, <1>13 DEF n
  <2> QED
      BY <1>3, <1>5, <2>1, TakeLeafIs
<1>21. Kept(slots', chain', prealloc', tree', contents', H)
    BY <1>12, <1>19, <1>20 DEF Kept, AllHold, Rooted
<1> QED
    BY <1>3, <1>19, <1>21, InvAgain

-----------------------------------------------------------------------------
(* A restart puts the leaves back under inner nodes from left to right.    *)

\* Leaves in the order of their greatest keys.
Climbing(row) ==
  /\ row \in Seq(LeafIds) /\ Len(row) \in Nat \ {0}
  /\ \A i \in 1 .. Len(row) : MaxKey(row[i]) \in Keys
  /\ \A i, j \in 1 .. Len(row) : i < j => row[i] # row[j] /\ MaxKey(row[i]) < MaxKey(row[j])

\* What the leaf at i serves when n leaves have been added to the first.
Span(row, n, i) == {k \in Keys : (i > 1 => MaxKey(row[i - 1]) < k) /\ (i <= n => k <= MaxKey(row[i]))}
Dealt(row, n) ==
  [m \in LeafIds |-> {k \in Keys : \E i \in 1 .. n + 1 : m = row[i] /\ k \in Span(row, n, i)}]

Builds(f, row) ==
  f = [n \in 0 .. Len(row) - 1 |->
        IF n = 0 THEN [EmptyTree EXCEPT !.top = row[1]] ELSE AddLeaf(f[n - 1], row[n], row[n + 1])]

LEMMA DealtAt ==
  ASSUME NEW row, Climbing(row), NEW n \in 0 .. Len(row) - 1
  PROVE  /\ Dealt(row, n) \in [LeafIds -> SUBSET Keys]
         /\ \A i \in 1 .. n + 1 : Dealt(row, n)[row[i]] = Span(row, n, i)
         /\ \A m \in LeafIds : (\A i \in 1 .. n + 1 : m # row[i]) => Dealt(row, n)[m] = {}
<1>1. Len(row) \in Nat /\ \A i \in 1 .. n + 1 : i \in 1 .. Len(row) /\ i \in Int
    BY DEF Climbing
<1>2. \A i \in 1 .. n + 1 : row[i] \in LeafIds
  <2> TAKE i \in 1 .. n + 1
  <2>1. i \in 1 .. Len(row) /\ row \in Seq(LeafIds)
      BY <1>1 DEF Climbing
  <2> QED
      BY <2>1, ElementOfSeq
<1>3. \A i, j \in 1 .. n + 1 : row[i] = row[j] => i = j
  <2> SUFFICES ASSUME NEW i \in 1 .. n + 1, NEW j \in 1 .. n + 1, row[i] = row[j], i # j PROVE FALSE
      OBVIOUS
  <2>1. i < j \/ j < i
      BY <1>1
  <2> QED
      BY <1>1, <2>1 DEF Climbing
<1>4. \A i \in 1 .. n + 1 : Span(row, n, i) \subseteq Keys
    BY DEF Span
<1>5. Dealt(row, n) \in [LeafIds -> SUBSET Keys]
    BY DEF Dealt
<1>6. ASSUME NEW i \in 1 .. n + 1 PROVE Dealt(row, n)[row[i]] = Span(row, n, i)
  <2>1. Dealt(row, n)[row[i]] = {k \in Keys : \E j \in 1 .. n + 1 : row[i] = row[j] /\ k \in Span(row, n, j)}
      BY <1>2 DEF Dealt
  <2> QED
      BY <1>3, <1>4, <2>1
<1>7. \A m \in LeafIds : (\A i \in 1 .. n + 1 : m # row[i]) => Dealt(row, n)[m] = {}
    BY DEF Dealt
<1> QED
    BY <1>5, <1>6, <1>7

\* The next leaf is split from the last one at its greatest key.
LEMMA DealtIs ==
  ASSUME NEW row, Climbing(row), NEW n \in 1 .. Len(row) - 1
  PROVE  /\ row[n] \in LeafIds /\ row[n + 1] \in LeafIds /\ row[n] # row[n + 1]
         /\ Dealt(row, n - 1) \in [LeafIds -> SUBSET Keys] /\ Dealt(row, n - 1)[row[n + 1]] = {}
         /\ MaxKey(row[n]) \in Dealt(row, n - 1)[row[n]]
         /\ \E k \in Dealt(row, n - 1)[row[n]] : MaxKey(row[n]) < k
         /\ Dealt(row, n) = Handed(Dealt(row, n - 1), row[n], row[n + 1], MaxKey(row[n]))
<1> DEFINE mx == [i \in 1 .. Len(row) |-> MaxKey(row[i])]
           A == Dealt(row, n - 1)
           B == Dealt(row, n)
           l == row[n]
           x == row[n + 1]
           sk == MaxKey(row[n])
<1>1. /\ Len(row) \in Nat /\ n \in Int /\ n - 1 \in 0 .. Len(row) - 1 /\ n \in 0 .. Len(row) - 1
      /\ n \in 1 .. Len(row) /\ n + 1 \in 1 .. Len(row) /\ row \in Seq(LeafIds)
    BY DEF Climbing
<1>2. /\ l \in LeafIds /\ x \in LeafIds /\ \A i \in 1 .. Len(row) : row[i] \in LeafIds
    BY <1>1, ElementOfSeq
<1>3. \A i \in 1 .. Len(row) : mx[i] = MaxKey(row[i]) /\ mx[i] \in Keys /\ mx[i] \in Int
    BY NamesAssumption DEF Climbing
<1>4. \A i, j \in 1 .. Len(row) : i < j => row[i] # row[j] /\ mx[i] < mx[j]
    BY DEF Climbing
<1> HIDE DEF mx
<1>5. /\ sk = mx[n] /\ sk \in Keys /\ sk \in Int /\ Keys \subseteq Int
    BY <1>1, <1>3, NamesAssumption
<1>6. /\ A \in [LeafIds -> SUBSET Keys] /\ \A i \in 1 .. (n - 1) + 1 : A[row[i]] = Span(row, n - 1, i)
      /\ \A m \in LeafIds : (\A i \in 1 .. (n - 1) + 1 : m # row[i]) => A[m] = {}
    BY <1>1, DealtAt
<1>7. /\ B \in [LeafIds -> SUBSET Keys] /\ \A i \in 1 .. n + 1 : B[row[i]] = Span(row, n, i)
      /\ \A m \in LeafIds : (\A i \in 1 .. n + 1 : m # row[i]) => B[m] = {}
    BY <1>1, DealtAt
<1>8. (n - 1) + 1 = n
    BY <1>1
<1> HIDE DEF A, B
<1>9. l # x
    BY <1>1, <1>4
<1>10. A[x] = {}
  <2>1. \A i \in 1 .. n : x # row[i]
    <3> TAKE i \in 1 .. n
    <3>1. i < n + 1 /\ i \in 1 .. Len(row)
        BY <1>1
    <3> QED
        BY <1>1, <1>4, <3>1
  <2> QED
      BY <1>2, <1>6, <1>8, <2>1
<1>11. A[l] = {k \in Keys : n > 1 => mx[n - 1] < k}
  <2>1. n \in 1 .. n /\ A[l] = Span(row, n - 1, n) /\ ~(n <= n - 1)
      BY <1>1, <1>6, <1>8
  <2>2. n > 1 => mx[n - 1] = MaxKey(row[n - 1])
      BY <1>1, <1>3
  <2> QED
      BY <2>1, <2>2 DEF Span
<1>12. sk \in A[l] /\ mx[n + 1] \in A[l] /\ sk < mx[n + 1]
  <2>1. mx[n] < mx[n + 1] /\ mx[n + 1] \in Keys
      BY <1>1, <1>3, <1>4
  <2>2. n > 1 => mx[n - 1] < mx[n] /\ mx[n - 1] < mx[n + 1]
    <3>1. n > 1 => n - 1 \in 1 .. Len(row) /\ n - 1 < n /\ n - 1 < n + 1
        BY <1>1
    <3> QED
        BY <1>1, <1>4, <3>1
  <2> QED
      BY <1>5, <1>11, <2>1, <2>2
<1>13. B[l] = {k \in A[l] : k <= sk}
  <2>1. n \in 1 .. n + 1 /\ B[l] = Span(row, n, n) /\ n <= n
      BY <1>1, <1>7
  <2>2. n > 1 => mx[n - 1] = MaxKey(row[n - 1])
      BY <1>1, <1>3
  <2> QED
      BY <1>11, <2>1, <2>2 DEF Span
<1>14. B[x] = {k \in A[l] : sk < k}
  <2>1. n + 1 \in 1 .. n + 1 /\ B[x] = Span(row, n, n + 1) /\ ~(n + 1 <= n) /\ n + 1 > 1 /\ (n + 1) - 1 = n
      BY <1>1, <1>7
  <2>2. B[x] = {k \in Keys : sk < k}
      BY <2>1 DEF Span
  <2>3. \A k \in Keys : sk < k => k \in A[l]
    <3> SUFFICES ASSUME NEW k \in Keys, sk < k, n > 1 PROVE mx[n - 1] < k
        BY <1>11
    <3>1. n - 1 \in 1 .. Len(row) /\ n - 1 < n
        BY <1>1
    <3>2. mx[n - 1] < mx[n] /\ mx[n - 1] \in Int /\ k \in Int
        BY <1>1, <1>3, <1>4, <1>5, <3>1
    <3> QED
        BY <1>5, <3>2
  <2>4. A[l] \subseteq Keys
      BY <1>11
  <2> QED
      BY <2>2, <2>3, <2>4
<1>15. \A m \in LeafIds : m # l /\ m # x => B[m] = A[m]
  <2> SUFFICES ASSUME NEW m \in LeafIds, m # l, m # x PROVE B[m] = A[m]
      OBVIOUS
  <2>1. CASE \E i \in 1 .. n + 1 : m = row[i]
    <3>1. PICK i \in 1 .. n + 1 : m = row[i]
        BY <2>1
    <3>2. i # n /\ i # n + 1
        BY <3>1
    <3>3. i \in 1 .. n /\ i <= n - 1 /\ i <= n
        BY <1>1, <3>2
    <3>4. B[m] = Span(row, n, i) /\ A[m] = Span(row, n - 1, i)
        BY <1>6, <1>7, <1>8, <3>1, <3>3
    <3> QED
        BY <3>3, <3>4 DEF Span
  <2>2. CASE \A i \in 1 .. n + 1 : m # row[i]
    <3>1. \A i \in 1 .. n : m # row[i]
        BY <1>1, <2>2
    <3> QED
        BY <1>6, <1>7, <1>8, <2>2, <3>1
  <2> QED
      BY <2>1, <2>2
<1> HIDE DEF l, x, sk
<1>16. B = Handed(A, l, x, sk)
  <2> DEFINE H == Handed(A, l, x, sk)
  <2>1. /\ H \in [LeafIds -> SUBSET Keys] /\ H[l] = {k \in A[l] : k <= sk} /\ H[x] = {k \in A[l] : sk < k}
        /\ \A m \in LeafIds : m # l /\ m # x => H[m] = A[m]
      BY ONLY <1>2, <1>6, <1>9, HandedIs
  <2> HIDE DEF H
  <2>2. \A m \in LeafIds : B[m] = H[m]
      BY <1>13, <1>14, <1>15, <2>1
  <2>3. B = [m \in LeafIds |-> B[m]] /\ H = [m \in LeafIds |-> H[m]]
      BY <1>7, <2>1
  <2> QED
      BY <2>2, <2>3 DEF H
<1> QED
    BY <1>2, <1>6, <1>9, <1>10, <1>12, <1>16 DEF A, B, l, x, sk

LEMMA AddLeafIs ==
  ASSUME NEW row, Climbing(row), NEW n \in 1 .. Len(row) - 1, NEW t, TreeShape(t, Dealt(row, n - 1))
  PROVE  TreeShape(AddLeaf(t, row[n], row[n + 1]), Dealt(row, n))
<1> DEFINE G == Dealt(row, n - 1)
           l == row[n]
           x == row[n + 1]
           sk == MaxKey(row[n])
           t1 == [t EXCEPT !.parent[x] = t.parent[l]]
<1>1. /\ l \in LeafIds /\ x \in LeafIds /\ l # x /\ G \in [LeafIds -> SUBSET Keys] /\ G[x] = {}
      /\ sk \in G[l] /\ (\E k \in G[l] : sk < k) /\ Dealt(row, n) = Handed(G, l, x, sk)
    BY DealtIs
<1>2. TreeShape(t, G) /\ t1 = [t EXCEPT !.parent[x] = t.parent[l]]
    OBVIOUS
<1>3. AddLeaf(t, l, x) = InnerUpdateAfterSplit(t1, l, x, sk)
    BY DEF AddLeaf, Between
<1> HIDE DEF G, l, x, sk, t1
<1>4. TreeShape(InnerUpdateAfterSplit(t1, l, x, sk), Handed(G, l, x, sk))
    BY ONLY <1>1, <1>2, LeafSplitIs
<1> QED
    BY <1>1, <1>3, <1>4 DEF l, x

LEMMA FirstLeafIs ==
  ASSUME NEW row, Climbing(row)
  PROVE  TreeShape([EmptyTree EXCEPT !.top = row[1]], Dealt(row, 0))
<1>1. 1 \in 1 .. Len(row) /\ row \in Seq(LeafIds) /\ 0 \in 0 .. Len(row) - 1 /\ Keys # {}
    BY DEF Climbing
<1>2. row[1] \in LeafIds
    BY <1>1, ElementOfSeq
<1>3. Dealt(row, 0) = Alone(row[1])
  <2>1. Span(row, 0, 1) = Keys
      BY DEF Span
  <2>2. \A m \in LeafIds : {k \in Keys : \E i \in 1 .. 0 + 1 : m = row[i] /\ k \in Span(row, 0, i)} = (IF m = row[1] THEN Keys ELSE {})
    <3> TAKE m \in LeafIds
    <3>1. \A i : i \in 1 .. 0 + 1 <=> i = 1
        OBVIOUS
    <3>2. CASE m = row[1]
        BY <2>1, <3>1, <3>2
    <3>3. CASE m # row[1]
        BY <3>1, <3>3
    <3> QED
        BY <3>2, <3>3
  <2> QED
      BY <2>2 DEF Dealt, Alone
<1> QED
    BY <1>1, <1>2, <1>3, LoneLeaf

LEMMA BuildsIs ==
  ASSUME NEW row, Climbing(row), NEW f, Builds(f, row)
  PROVE  TreeShape(f[Len(row) - 1], Dealt(row, Len(row) - 1))
<1> DEFINE T == {n \in Nat : n <= Len(row) - 1 => TreeShape(f[n], Dealt(row, n))}
<1>1. Len(row) \in Nat \ {0}
    BY DEF Climbing
<1>2. f[0] = [EmptyTree EXCEPT !.top = row[1]]
    BY <1>1 DEF Builds
<1>3. \A n \in 1 .. Len(row) - 1 : f[n] = AddLeaf(f[n - 1], row[n], row[n + 1])
  <2> TAKE n \in 1 .. Len(row) - 1
  <2>1. n \in 0 .. Len(row) - 1 /\ n # 0
      BY <1>1
  <2>2. \A i \in 0 .. Len(row) - 1 :
          f[i] = IF i = 0 THEN [EmptyTree EXCEPT !.top = row[1]] ELSE AddLeaf(f[i - 1], row[i], row[i + 1])
      BY DEF Builds
  <2> QED
      BY <2>1, <2>2
<1>4. 0 \in T
    BY <1>2, FirstLeafIs
<1>5. ASSUME NEW n \in Nat, n \in T PROVE n + 1 \in T
  <2> SUFFICES ASSUME n + 1 <= Len(row) - 1 PROVE TreeShape(f[n + 1], Dealt(row, n + 1))
      OBVIOUS
  <2> DEFINE m == n + 1
  <2>1. m \in 1 .. Len(row) - 1 /\ m - 1 = n /\ n <= Len(row) - 1
      BY <1>1
  <2>2. TreeShape(f[n], Dealt(row, n))
      BY <1>5, <2>1
  <2> HIDE DEF m
  <2>3. TreeShape(AddLeaf(f[m - 1], row[m], row[m + 1]), Dealt(row, m))
      BY <2>1, <2>2, AddLeafIs
  <2>4. f[m] = AddLeaf(f[m - 1], row[m], row[m + 1])
      BY <1>3, <2>1
  <2>5. TreeShape(f[m], Dealt(row, m))
      BY <2>3, <2>4
  <2> QED
      BY <2>5 DEF m
<1> HIDE DEF T
<1>6. \A n \in Nat : n \in T
    BY <1>4, <1>5, AllNumbers
<1>7. Len(row) - 1 \in Nat /\ Len(row) - 1 <= Len(row) - 1
    BY <1>1
<1> QED
    BY <1>6, <1>7 DEF T

LEMMA BuildsExists ==
  ASSUME NEW row, Climbing(row)
  PROVE  \E f : Builds(f, row)
<1> DEFINE add == [p \in Nat \X Trees |-> AddLeaf(p[2], row[p[1] + 1], row[p[1] + 2])]
           step == [p \in Nat \X Trees |-> IF add[p] \in Trees THEN add[p] ELSE p[2]]
           first == [EmptyTree EXCEPT !.top = row[1]]
<1>1. Len(row) \in Nat \ {0}
    BY DEF Climbing
<1>2. first \in Trees /\ TreeShape(first, Dealt(row, 0))
    BY FirstLeafIs DEF TreeShape
<1>3. step \in [Nat \X Trees -> Trees]
  <2> HIDE DEF add
  <2> QED
      OBVIOUS
<1>4. \A n \in Nat, t \in Trees : add[<<n, t>>] = AddLeaf(t, row[n + 1], row[n + 2])
  <2> TAKE n \in Nat, t \in Trees
  <2>1. <<n, t>> \in Nat \X Trees /\ <<n, t>>[1] = n /\ <<n, t>>[2] = t
      OBVIOUS
  <2> DEFINE p == <<n, t>>
  <2>2. p \in Nat \X Trees /\ p[1] = n /\ p[2] = t
      BY <2>1
  <2> HIDE DEF p
  <2>3. add[p] = AddLeaf(p[2], row[p[1] + 1], row[p[1] + 2])
      BY <2>2
  <2>4. add[p] = AddLeaf(t, row[n + 1], row[n + 2])
      BY <2>2, <2>3
  <2> QED
      BY <2>4 DEF p
<1> HIDE DEF add
<1>5. \A n \in Nat, t \in Trees : add[<<n, t>>] \in Trees => step[<<n, t>>] = add[<<n, t>>]
    OBVIOUS
<1> HIDE DEF step, first
<1>6. PICK g : Recurs(g, Trees, first, step)
    BY <1>2, <1>3, RecursionExists
<1>7. g \in [Nat -> Trees] /\ g[0] = first /\ \A n \in Nat : g[n + 1] = step[<<n, g[n]>>]
    BY <1>6 DEF Recurs
<1>8. ASSUME NEW n \in Nat, n + 1 <= Len(row) - 1, TreeShape(g[n], Dealt(row, n))
      PROVE  g[n + 1] = AddLeaf(g[n], row[n + 1], row[n + 2]) /\ TreeShape(g[n + 1], Dealt(row, n + 1))
  <2> DEFINE m == n + 1
  <2>1. m \in 1 .. Len(row) - 1 /\ m - 1 = n /\ m + 1 = n + 2
      BY <1>1, <1>8
  <2> HIDE DEF m
  <2>2. TreeShape(AddLeaf(g[n], row[m], row[m + 1]), Dealt(row, m))
      BY <1>8, <2>1, AddLeafIs
  <2>3. g[n] \in Trees
      BY <1>7
  <2>4. add[<<n, g[n]>>] = AddLeaf(g[n], row[m], row[m + 1])
      BY <1>4, <2>1, <2>3 DEF m
  <2>5. AddLeaf(g[n], row[m], row[m + 1]) \in Trees
      BY <2>2 DEF TreeShape
  <2>6. g[n + 1] = AddLeaf(g[n], row[m], row[m + 1])
      BY <1>5, <1>7, <2>3, <2>4, <2>5
  <2> QED
      BY <2>1, <2>2, <2>6 DEF m
<1> DEFINE T == {n \in Nat : n <= Len(row) - 1 => TreeShape(g[n], Dealt(row, n))}
<1>9. \A n \in Nat : n \in T
  <2>1. 0 \in T
      BY <1>2, <1>7
  <2>2. ASSUME NEW n \in Nat, n \in T PROVE n + 1 \in T
      BY <1>1, <1>8, <2>2
  <2> HIDE DEF T
  <2> QED
      BY <2>1, <2>2, AllNumbers
<1> DEFINE f == [n \in 0 .. Len(row) - 1 |-> g[n]]
<1>10. \A n \in 0 .. Len(row) - 1 : f[n] = g[n]
    OBVIOUS
<1>11. ASSUME NEW n \in 0 .. Len(row) - 1
       PROVE  g[n] = IF n = 0 THEN first ELSE AddLeaf(f[n - 1], row[n], row[n + 1])
  <2>1. CASE n = 0
      BY <1>7, <2>1
  <2>2. CASE n # 0
    <3> DEFINE i == n - 1
    <3>1. i \in Nat /\ i \in 0 .. Len(row) - 1 /\ i + 1 = n /\ i + 2 = n + 1 /\ i + 1 <= Len(row) - 1 /\ i <= Len(row) - 1
        BY <1>1, <2>2
    <3> HIDE DEF i
    <3>2. TreeShape(g[i], Dealt(row, i))
        BY <1>9, <3>1
    <3>3. g[n] = AddLeaf(g[i], row[n], row[n + 1])
        BY <1>8, <3>1, <3>2
    <3>4. g[n] = AddLeaf(f[i], row[n], row[n + 1])
        BY <1>10, <3>1, <3>3
    <3> QED
        BY <2>2, <3>4 DEF i
  <2> QED
      BY <2>1, <2>2
<1>12. f = [n \in 0 .. Len(row) - 1 |-> IF n = 0 THEN first ELSE AddLeaf(f[n - 1], row[n], row[n + 1])]
    BY <1>11
<1> HIDE DEF f
<1> QED
    BY <1>12 DEF Builds, first

LEMMA MaxKeyIs ==
  ASSUME NEW l, NEW D \in SUBSET Keys, NEW co, Holds(slots[l], D, co), LeafKeysOf(l) # {}
  PROVE  /\ MaxKey(l) \in LeafKeysOf(l) /\ \A j \in LeafKeysOf(l) : j <= MaxKey(l)
         /\ LeafKeysOf(l) \subseteq D
<1> DEFINE f == slots[l]
           K == LeafKeysOf(l)
           same == [k \in K |-> k]
           keyAt == [s \in Slots |-> f[s].key]
           all == {f[s].key : s \in Slots}
<1>1. K = all \ {NoKey}
    BY DEF LeafKeysOf
<1>2. K \subseteq D
  <2>1. \A s \in Slots : f[s].key \in Keys => f[s].key \in D
      BY FreeIs
  <2>2. \A s \in Slots : f[s].key \in Keys \cup {NoKey}
      BY FreeIs
  <2> QED
      BY <1>1, <2>1, <2>2
<1>3. IsFiniteSet(K)
  <2>1. keyAt \in [Slots -> all] /\ \A x \in all : \E s \in Slots : keyAt[s] = x
      OBVIOUS
  <2>2. keyAt \in Surjection(Slots, all)
      BY <2>1 DEF Surjection
  <2>3. IsFiniteSet(all)
      BY <2>2, SlotsAreFinite, FS_Surjection
  <2> HIDE DEF all, K
  <2> QED
      BY <1>1, <2>3, FS_Subset
<1> HIDE DEF K
<1>4. \A k \in K : same[k] = k /\ k \in Int
    BY <1>2, NamesAssumption
<1> HIDE DEF same
<1>5. Orders(same, K)
    BY <1>3, <1>4 DEF Orders
<1>6. PICK k \in K : \A j \in K : same[j] <= same[k]
    BY <1>5, EndsExist DEF K
<1>7. \E m \in K : \A j \in K : j <= m
    BY <1>4, <1>6
<1> QED
    BY <1>2, <1>7 DEF MaxKey, K

\* A leaf whose keys all are the empty one holds nothing.
LEMMA NoKeysIs ==
  ASSUME NEW l, NEW D \in SUBSET Keys, NEW co, Holds(slots[l], D, co), LeafKeysOf(l) = {}
  PROVE  slots[l] = NoRecords /\ \A k \in D : co[k] = NoValue
<1> DEFINE f == slots[l]
<1>1. \A s \in Slots : f[s].key = NoKey
    BY DEF LeafKeysOf
<1> HIDE DEF f
<1>2. Holds(f, D, co)
    BY DEF f
<1>3. \A s \in Slots : f[s] = Free
    BY <1>1, <1>2, FreeIs
<1>4. f = NoRecords
    BY <1>2, <1>3 DEF Holds, NoRecords
<1>5. \A k \in D : co[k] = NoValue
  <2> SUFFICES ASSUME NEW k \in D, co[k] # NoValue PROVE FALSE
      OBVIOUS
  <2>1. PICK s \in Slots : f[s] = Record(k, co[k])
      BY <1>2 DEF Holds
  <2>2. f[s].key = k
      BY <2>1 DEF Record
  <2> QED
      BY <1>1, <2>2, NamesAssumption
<1> QED
    BY <1>4, <1>5 DEF f

\* The tree is rebuilt and the leaves serve what the new separators give them.
LEMMA RestartKeeps ==
  ASSUME IInv, Restart
  PROVE  IInv'
<1>1. PICK G : Kept(slots, chain, prealloc, tree, contents, G)
    BY DEF IInv
<1>2. /\ G \in [LeafIds -> SUBSET Keys] /\ contents \in [Keys -> Values \cup {NoValue}]
      /\ slots \in [LeafIds -> [Slots -> Held]] /\ \A l \in LeafIds : Holds(slots[l], G[l], contents)
      /\ chain \subseteq LeafIds /\ \A l \in LeafIds : G[l] # {} => l \in chain
      /\ Rooted(tree, G, contents)
    BY <1>1 DEF Kept, Placed
<1> DEFINE used == chain \ EmptyLeaves
           rank == [l \in used |-> MaxKey(l)]
           row == InOrder(used, rank)
           Built == CHOOSE f : Builds(f, row)
<1>3. /\ tree' = (IF used = {} THEN EmptyTree ELSE Built[Len(row) - 1])
      /\ image' = [l \in LeafIds |-> [s \in Slots |-> slots[l][s].key]]
      /\ prealloc' = EmptyLeaves /\ failed' = FALSE
      /\ slots' = slots /\ chain' = chain /\ contents' = contents
    BY Zenon DEF Restart, Builds
<1>4. image' = Images(slots')
    BY <1>3 DEF Images
<1>5. used \subseteq LeafIds /\ \A l \in LeafIds : l \in used <=> l \in chain /\ LeafKeysOf(l) # {}
    BY <1>2 DEF EmptyLeaves
<1>6. prealloc' \subseteq chain' /\ chain' \subseteq LeafIds /\ chain' \ prealloc' = used
    BY <1>2, <1>3 DEF EmptyLeaves
\* The others hold nothing.
<1>7. ASSUME NEW l \in LeafIds, l \notin used
      PROVE  slots[l] = NoRecords /\ \A k \in G[l] : contents[k] = NoValue
  <2>1. G[l] \in SUBSET Keys /\ Holds(slots[l], G[l], contents)
      BY <1>2
  <2>2. CASE l \in chain
    <3>1. LeafKeysOf(l) = {}
        BY <1>5, <1>7, <2>2
    <3> DEFINE D == G[l]
    <3>2. D \in SUBSET Keys /\ Holds(slots[l], D, contents)
        BY <2>1
    <3> HIDE DEF D
    <3>3. slots[l] = NoRecords /\ \A k \in D : contents[k] = NoValue
        BY ONLY <3>1, <3>2, NoKeysIs
    <3> QED
        BY <3>3 DEF D
  <2>3. CASE l \notin chain
    <3>1. G[l] = {}
        BY <1>2, <2>3
    <3> QED
        BY <2>1, <3>1, EmptyHolds
  <2> QED
      BY <2>2, <2>3
\* Each key that has a record has it in a used leaf.
<1>8. ASSUME NEW k \in Keys, contents[k] # NoValue PROVE \E l \in used : k \in G[l]
  <2>1. TreeShape(tree, G)
      BY <1>2, <1>8 DEF Rooted
  <2>2. PICK l \in LeafIds : k \in G[l]
      BY <2>1 DEF TreeShape, Partition
  <2>3. l \in used
      BY <1>7, <1>8, <2>2
  <2> QED
      BY <2>2, <2>3
<1> HIDE DEF used
<1>9. CASE used = {}
  <2> DEFINE H == [l \in LeafIds |-> {}]
  <2>1. \A l \in LeafIds : slots'[l] = NoRecords /\ H[l] = {}
      BY <1>3, <1>7, <1>9
  <2>2. H \in [LeafIds -> SUBSET Keys]
      OBVIOUS
  <2>3. \A l \in LeafIds : Holds(slots'[l], H[l], contents')
      BY <2>1, EmptyHolds
  <2>4. \A k \in Keys : contents'[k] = NoValue
      BY <1>3, <1>8, <1>9
  <2>5. Rooted(tree', H, contents')
      BY <1>3, <1>9, <2>1, <2>4 DEF Rooted
  <2>6. Placed(chain', prealloc', H)
      BY <1>6, <2>1 DEF Placed
  <2> HIDE DEF H
  <2>7. Kept(slots', chain', prealloc', tree', contents', H)
      BY <1>2, <1>3, <2>2, <2>3, <2>5, <2>6 DEF Kept
  <2> QED
      BY <1>3, <1>4, <2>7, InvAgain
<1>10. CASE used # {}
  <2> DEFINE N == Cardinality(used)
             H == Dealt(row, Len(row) - 1)
  <2>1. ASSUME NEW l \in used
        PROVE  /\ l \in LeafIds /\ MaxKey(l) \in G[l] /\ MaxKey(l) \in Keys /\ MaxKey(l) \in Int
               /\ LeafKeysOf(l) \subseteq G[l] /\ \A j \in LeafKeysOf(l) : j <= MaxKey(l)
    <3>1. l \in LeafIds /\ LeafKeysOf(l) # {} /\ G[l] \in SUBSET Keys /\ Holds(slots[l], G[l], contents)
        BY <1>2, <1>5
    <3>2. /\ MaxKey(l) \in LeafKeysOf(l) /\ \A j \in LeafKeysOf(l) : j <= MaxKey(l)
          /\ LeafKeysOf(l) \subseteq G[l]
        BY <3>1, MaxKeyIs
    <3> QED
        BY <3>1, <3>2, NamesAssumption
  <2>2. TreeShape(tree, G) /\ Partition(G)
      BY <1>2, <1>10, <2>1 DEF Rooted, TreeShape
  <2>3. \A l \in used : rank[l] = MaxKey(l)
      OBVIOUS
  <2> HIDE DEF rank
  <2>4. Orders(rank, used)
    <3>1. IsFiniteSet(used)
        BY <1>5, RoomAssumption, FS_Subset
    <3>2. \A a, b \in used : rank[a] = rank[b] => a = b
        BY <1>2, <2>1, <2>2, <2>3, LeavesApart
    <3> QED
        BY <2>1, <2>3, <3>1, <3>2 DEF Orders
  <2>5. /\ row \in Seq(used) /\ Len(row) = N /\ N \in Nat /\ \A n \in 1 .. N : row[n] \in used
        /\ \A l \in used : \E n \in 1 .. N : row[n] = l
        /\ \A n, m \in 1 .. N : n < m <=> rank[row[n]] < rank[row[m]]
    <3> DEFINE o == InOrder(used, rank)
    <3>1. /\ o \in Seq(used) /\ Len(o) = Cardinality(used) /\ Cardinality(used) \in Nat
          /\ \A n \in 1 .. Cardinality(used) : /\ o[n] \in used
                                               /\ Position(used, rank, o[n]) = n - 1
          /\ \A l \in used : \E n \in 1 .. Cardinality(used) : o[n] = l
          /\ \A n, m \in 1 .. Cardinality(used) : n < m <=> rank[o[n]] < rank[o[m]]
        BY ONLY <2>4, InOrderIs, Zenon
    <3> HIDE DEF o
    <3> QED
        BY <3>1 DEF o
  <2> HIDE DEF N, row
  <2>6. N # 0
      BY <1>10, <2>5
  <2>7. \A i, j \in 1 .. N : i < j => row[i] # row[j] /\ MaxKey(row[i]) < MaxKey(row[j])
    <3> SUFFICES ASSUME NEW i \in 1 .. N, NEW j \in 1 .. N, i < j
                 PROVE  row[i] # row[j] /\ MaxKey(row[i]) < MaxKey(row[j])
        OBVIOUS
    <3>1. MaxKey(row[i]) < MaxKey(row[j])
        BY <2>3, <2>5
    <3>2. MaxKey(row[i]) \in Int
        BY <2>1, <2>5
    <3> QED
        BY <3>1, <3>2
  <2>8. Climbing(row)
    <3>1. row \in Seq(LeafIds)
        BY <1>5, <2>5
    <3> QED
        BY <2>1, <2>5, <2>6, <2>7, <3>1 DEF Climbing
  <2>9. Builds(Built, row)
    <3>1. \E f : Builds(f, row)
        BY <2>8, BuildsExists
    <3> QED
        BY <3>1, Zenon
  <2> HIDE DEF Built
  <2>10. TreeShape(tree', H)
      BY <1>3, <1>10, <2>8, <2>9, BuildsIs
  <2>11. N - 1 \in 0 .. N - 1 /\ (N - 1) + 1 = N
      BY <2>5, <2>6
  <2>12. /\ H \in [LeafIds -> SUBSET Keys]
         /\ \A i \in 1 .. N : H[row[i]] = Span(row, N - 1, i)
         /\ \A l \in LeafIds : (\A i \in 1 .. N : l # row[i]) => H[l] = {}
      BY <2>5, <2>8, <2>11, DealtAt
  <2>13. Partition(H)
      BY <2>10 DEF TreeShape
  <2> HIDE DEF H
\* What a leaf holds the new tree looks for in it.
  <2>14. ASSUME NEW l \in used, NEW k \in LeafKeysOf(l) PROVE k \in H[l]
    <3>1. PICK i \in 1 .. N : row[i] = l
        BY <2>5
    <3>2. k \in Keys /\ k \in G[l] /\ k <= MaxKey(row[i]) /\ l \in LeafIds
        BY <1>2, <2>1, <3>1
    <3>3. ASSUME i > 1 PROVE MaxKey(row[i - 1]) < k
      <4>1. i - 1 \in 1 .. N /\ i - 1 < i
          BY <2>5, <3>3
      <4> DEFINE p == row[i - 1]
      <4>2. p \in used /\ p # l /\ MaxKey(p) < MaxKey(l)
          BY <2>5, <2>7, <3>1, <4>1
      <4> HIDE DEF p
      <4>3. p \in LeafIds /\ MaxKey(p) \in G[p] /\ MaxKey(l) \in G[l] /\ MaxKey(p) \in Int /\ MaxKey(l) \in Int
          BY <2>1, <4>2
      <4>4. MaxKey(p) < k \/ MaxKey(l) < MaxKey(p)
          BY <2>2, <3>2, <4>2, <4>3 DEF Partition
      <4>5. MaxKey(p) < k
          BY <4>2, <4>3, <4>4
      <4> QED
          BY <4>5 DEF p
    <3>4. k \in Span(row, N - 1, i)
        BY <3>2, <3>3 DEF Span
    <3> QED
        BY <2>12, <3>1, <3>4
  <2>15. ASSUME NEW l \in LeafIds PROVE Holds(slots[l], H[l], contents)
    <3>1. CASE l \in used
      <4> DEFINE f == slots[l]
                 D == G[l]
                 E == H[l]
                 co == contents
      <4>1. Holds(f, D, co) /\ D \in SUBSET Keys /\ E \in SUBSET Keys
          BY <1>2, <2>12
      <4>2. \A s \in Slots : f[s] # Free => f[s].key \in E
        <5> SUFFICES ASSUME NEW s \in Slots, f[s] # Free PROVE f[s].key \in E
            OBVIOUS
        <5>1. f[s].key # NoKey
            BY <4>1, NamesAssumption DEF Holds
        <5>2. f[s].key \in LeafKeysOf(l)
            BY <5>1 DEF LeafKeysOf
        <5> QED
            BY <2>14, <3>1, <5>2
      <4>3. ASSUME NEW k \in E, co[k] # NoValue PROVE k \in D
        <5>1. k \in Keys
            BY <4>1
        <5>2. PICK m \in used : k \in G[m]
            BY <1>8, <4>3, <5>1
        <5>3. m \in LeafIds /\ Holds(slots[m], G[m], co)
            BY <1>2, <1>5
        <5>4. PICK s \in Slots : slots[m][s] = Record(k, co[k])
            BY <4>3, <5>2, <5>3 DEF Holds
        <5>5. slots[m][s].key = k /\ k # NoKey
            BY <5>1, <5>4, NamesAssumption DEF Record
        <5>6. k \in LeafKeysOf(m)
            BY <5>5 DEF LeafKeysOf
        <5>7. k \in H[m]
            BY <2>14, <5>6
        <5>8. m = l
            BY <2>12, <2>13, <4>3, <5>3, <5>7, LeavesApart
        <5> QED
            BY <5>2, <5>8
      <4> HIDE DEF f, D, E, co
      <4>4. Holds(f, E, co)
          BY <4>1, <4>2, <4>3 DEF Holds
      <4> QED
          BY <4>4 DEF f, E, co
    <3>2. CASE l \notin used
      <4>1. H[l] = {}
          BY <2>5, <2>12, <3>2
      <4> QED
          BY <1>7, <3>2, <4>1, EmptyHolds
    <3> QED
        BY <3>1, <3>2
  <2>16. Placed(chain', prealloc', H)
    <3>1. \A l \in LeafIds : H[l] # {} => l \in used
        BY <2>5, <2>12
    <3> QED
        BY <1>6, <3>1 DEF Placed
  <2>17. Kept(slots', chain', prealloc', tree', contents', H)
      BY <1>2, <1>3, <2>10, <2>12, <2>15, <2>16 DEF Kept, Rooted
  <2> QED
      BY <1>3, <1>4, <2>17, InvAgain
<1> QED
    BY <1>9, <1>10

-----------------------------------------------------------------------------
(* The theorems.                                                           *)

LEMMA InitIs == Init => IInv
<1> SUFFICES ASSUME Init PROVE IInv
    OBVIOUS
<1> DEFINE G == [l \in LeafIds |-> {}]
<1>1. /\ slots = [l \in LeafIds |-> [s \in Slots |-> Free]] /\ chain = {} /\ prealloc = {} /\ failed = FALSE
      /\ image = [l \in LeafIds |-> NoImage] /\ tree = EmptyTree /\ contents = [k \in Keys |-> NoValue]
    BY DEF Init
<1>2. Free.key = NoKey /\ Free \in Held
    BY DEF Free, Record, Held
<1>3. \A l \in LeafIds : slots[l] = NoRecords /\ G[l] = {}
    BY <1>1 DEF NoRecords
<1>4. G \in [LeafIds -> SUBSET Keys]
    OBVIOUS
<1>5. \A l \in LeafIds : Holds(slots[l], G[l], contents)
    BY <1>3, EmptyHolds
<1>6. slots \in [LeafIds -> [Slots -> Held]] /\ contents \in [Keys -> Values \cup {NoValue}]
    BY <1>1, <1>2
<1>7. Placed(chain, prealloc, G) /\ Rooted(tree, G, contents)
    BY <1>1, <1>3 DEF Placed, Rooted
<1>8. image = Images(slots)
    BY <1>1, <1>2 DEF Images, NoImage
<1> HIDE DEF G
<1> QED
    BY <1>1, <1>4, <1>5, <1>6, <1>7, <1>8 DEF IInv, Kept

LEMMA NextKeeps ==
  ASSUME Recovers, IInv, [Next]_vars
  PROVE  IInv'
<1>1. ASSUME NEW k \in Keys, NEW v \in Values, PutHead(k, v) PROVE IInv'
    BY <1>1, PutHeadKeeps
<1>2. ASSUME NEW k \in Keys, NEW v \in Values, PutFill(k, v) PROVE IInv'
    BY <1>2, PutFillKeeps
<1>3. ASSUME NEW k \in Keys, NEW v \in Values, PutSplit(k, v) PROVE IInv'
    BY <1>3, PutSplitKeeps
<1>4. ASSUME NEW k \in Keys, RemoveRecord(k) PROVE IInv'
    BY <1>4, RemoveKeeps
<1>5. ASSUME NEW k \in Keys, PutSplitFails(k) PROVE IInv'
  <2>1. prealloc' \subseteq prealloc
      BY <1>5 DEF PutSplitFails
  <2> QED
      BY <1>5, <2>1, FailureKeeps DEF PutSplitFails, Fails
<1>6. ASSUME NEW k \in Keys, RemoveFails(k) PROVE IInv'
    BY <1>6, RemoveFailsKeeps
<1>7. ASSUME PutHeadFails PROVE IInv'
  <2>1. prealloc' \subseteq prealloc
      BY <1>7 DEF PutHeadFails
  <2> QED
      BY <1>7, <2>1, FailureKeeps DEF PutHeadFails, Fails
<1>8. ASSUME Restart PROVE IInv'
    BY <1>8, RestartKeeps
<1>9. ASSUME UNCHANGED vars PROVE IInv'
  <2>1. PICK G : Kept(slots, chain, prealloc, tree, contents, G)
      BY DEF IInv
  <2>2. /\ slots' = slots /\ chain' = chain /\ image' = image /\ tree' = tree /\ prealloc' = prealloc
        /\ failed' = failed /\ contents' = contents
      BY <1>9 DEF vars
  <2>3. Kept(slots', chain', prealloc', tree', contents', G)
      BY <2>1, <2>2
  <2>4. failed' \in BOOLEAN /\ (failed' => Oom # {}) /\ (~failed' => image' = Images(slots'))
      BY <2>2 DEF IInv
  <2> QED
      BY <2>3, <2>4, InvAgain
<1> QED
    BY <1>1, <1>2, <1>3, <1>4, <1>5, <1>6, <1>7, <1>8, <1>9, Zenon DEF Next

\* The leaves hold the contents, each key in the leaf the tree looks for it
\* in, and the leaf nodes agree with the leaves unless a call has failed.  The
\* record of a remove that failed is held as before, or was erased.
THEOREM LeavesAreKept == ASSUME Recovers PROVE Spec => []IInv
<1>1. Init => IInv
    BY InitIs
<1>2. IInv /\ [Next]_vars => IInv'
    BY NextKeeps
<1> QED
    BY <1>1, <1>2, PTL DEF Spec

LEMMA TypeOKIs == IInv => TypeOK
<1> SUFFICES ASSUME IInv PROVE TypeOK
    OBVIOUS
<1>1. PICK G : Rooted(tree, G, contents)
    BY DEF IInv, Kept
<1>2. CASE tree = EmptyTree
  <2>1. tree.top = Null /\ \A n \in InnerIds : tree.inner[n].kids = <<>>
      BY <1>2 DEF EmptyTree
  <2> QED
      BY <2>1 DEF TypeOK
<1>3. CASE TreeShape(tree, G)
  <2>1. PICK S, h : Shape(tree, S, S, h, {})
      BY <1>3 DEF TreeShape, Linked
  <2>2. tree.parent[tree.top] = Null
      BY <2>1 DEF Shape
  <2>3. ASSUME NEW n \in InnerIds, tree.inner[n].kids # <<>>
        PROVE  /\ Len(tree.inner[n].keys) \in 1 .. InnerKeys
               /\ Len(tree.inner[n].kids) = Len(tree.inner[n].keys) + 1
               /\ \A i \in DOMAIN tree.inner[n].kids : tree.parent[tree.inner[n].kids[i]] = n
    <3>1. n \in Used(tree)
        BY <2>3 DEF Used
    <3>2. NodeShape(tree, S, S, h, {}, n)
        BY <2>1, <3>1 DEF Shape
    <3>3. /\ Len(tree.inner[n].keys) \in 1 .. InnerKeys /\ Serves(tree.inner[n], S[n], S)
          /\ \A i \in 1 .. Len(tree.inner[n].kids) : tree.parent[tree.inner[n].kids[i]] = n
        BY <3>2 DEF NodeShape
    <3> DEFINE r == tree.inner[n]
    <3>4. Len(r.kids) = Len(r.keys) + 1 /\ r.kids \in Seq(Ids)
        BY <3>3 DEF Serves
    <3>5. DOMAIN r.kids = 1 .. Len(r.kids)
        BY <3>4
    <3> QED
        BY <3>3, <3>4, <3>5
  <2> QED
      BY <2>2, <2>3 DEF TypeOK
<1> QED
    BY <1>1, <1>2, <1>3 DEF Rooted

\* The inner nodes stay within their arrays and every node points to the one
\* it is a child of, whatever splits and restarts have built.
THEOREM TreeIsLinked == ASSUME Recovers PROVE Spec => []TypeOK
BY LeavesAreKept, TypeOKIs, PTL

LEMMA GetIsExactIs == IInv => GetIsExact
<1> SUFFICES ASSUME IInv, ~failed, NEW k \in Keys PROVE Get(k) = contents[k]
    BY DEF GetIsExact
<1>1. PICK G : Kept(slots, chain, prealloc, tree, contents, G)
    BY DEF IInv
<1>2. image = Images(slots)
    BY DEF IInv
<1>3. CASE tree.top # Null
    BY <1>1, <1>2, <1>3, GetIs
<1>4. CASE tree.top = Null
  <2>1. contents[k] = NoValue
      BY <1>1, <1>4, TopIs DEF Kept, Rooted
  <2> QED
      BY <1>4, <2>1 DEF Get
<1> QED
    BY <1>3, <1>4

\* get finds the record of every key that was put and not removed, through
\* every split of leaves and inner nodes and every rebuilt tree.  A remove that
\* failed counts as done if it had cleared the record, else as not done.
THEOREM GetIsAlwaysExact == ASSUME Recovers PROVE Spec => []GetIsExact
BY LeavesAreKept, GetIsExactIs, PTL

LEMMA DurableIsExactIs == IInv => DurableIsExact
<1> SUFFICES ASSUME IInv PROVE DurableIsExact
    OBVIOUS
<1>1. PICK G : Kept(slots, chain, prealloc, tree, contents, G)
    BY DEF IInv
<1>2. /\ G \in [LeafIds -> SUBSET Keys] /\ \A l \in LeafIds : Holds(slots[l], G[l], contents)
      /\ chain \subseteq LeafIds /\ \A l \in LeafIds : G[l] # {} => l \in chain
      /\ Rooted(tree, G, contents)
    BY <1>1 DEF Kept, Placed
<1> DEFINE K == {k \in Keys : contents[k] # NoValue}
           At(p) == slots[p[1]][p[2]]
           keyAt == [p \in GetAll |-> At(p).key]
\* Every record of the leaves is one of the contents.
<1>3. ASSUME NEW p \in GetAll
      PROVE  /\ p = <<p[1], p[2]>> /\ p[1] \in LeafIds /\ p[2] \in Slots /\ At(p) # Free
             /\ At(p).key \in G[p[1]] /\ At(p).key \in K /\ At(p) = Record(At(p).key, contents[At(p).key])
  <2>1. p = <<p[1], p[2]>> /\ p[1] \in LeafIds /\ p[2] \in Slots /\ At(p) # Free
      BY <1>2 DEF GetAll
  <2> DEFINE l == p[1]
             s == p[2]
             f == slots[l]
             D == G[l]
  <2>2. D \in SUBSET Keys /\ Holds(f, D, contents) /\ s \in Slots /\ f[s] # Free
      BY <1>2, <2>1
  <2> HIDE DEF l, s, f, D
  <2>3. f[s].key \in D /\ f[s].key \in Keys
      BY <2>2 DEF Holds
  <2>4. f[s] = Record(f[s].key, contents[f[s].key]) /\ contents[f[s].key] \in Values
    <3>1. D \in SUBSET Keys /\ Holds(f, D, contents) /\ s \in Slots
        BY <2>2
    <3>2. /\ f[s].key = NoKey <=> f[s] = Free
          /\ \A k \in Keys : f[s].key = k => k \in D /\ f[s] = Record(k, contents[k]) /\ contents[k] \in Values
        BY ONLY <3>1, FreeIs
    <3> QED
        BY ONLY <2>3, <3>2
  <2> QED
      BY <2>1, <2>3, <2>4, NamesAssumption DEF l, s, f, D
\* Every record of the contents is in a leaf.
<1>4. ASSUME NEW k \in K PROVE \E p \in GetAll : At(p) = Record(k, contents[k]) /\ keyAt[p] = k
  <2>1. TreeShape(tree, G)
      BY <1>2 DEF Rooted
  <2>2. PICK l \in LeafIds : k \in G[l]
      BY <2>1 DEF TreeShape, Partition
  <2>3. PICK s \in Slots : slots[l][s] = Record(k, contents[k])
      BY <1>2, <2>2 DEF Holds
  <2>4. slots[l][s].key = k /\ slots[l][s] # Free
    <3>1. Record(k, contents[k]).key = k /\ Free.key = NoKey /\ k # NoKey
        BY NamesAssumption DEF Free, Record
    <3> QED
        BY <2>3, <3>1
  <2>5. l \in chain
      BY <1>2, <2>2
  <2> DEFINE p == <<l, s>>
  <2>6. p \in chain \X Slots /\ p[1] = l /\ p[2] = s
      BY <2>5
  <2> HIDE DEF p
  <2>7. p \in GetAll /\ At(p) = slots[l][s]
      BY <2>4, <2>6 DEF GetAll
  <2> QED
      BY <2>3, <2>4, <2>7
\* Each key once.
<1>5. ASSUME NEW p \in GetAll, NEW q \in GetAll, At(p).key = At(q).key PROVE p = q
  <2>1. TreeShape(tree, G)
      BY <1>2, <1>3 DEF Rooted
  <2>2. Partition(G)
      BY <2>1 DEF TreeShape
  <2>3. p[1] = q[1]
      BY <1>2, <1>3, <1>5, <2>2, LeavesApart
  <2>4. p[2] = q[2]
    <3> DEFINE l == p[1]
    <3>1. /\ Holds(slots[l], G[l], contents) /\ p[2] \in Slots /\ q[2] \in Slots
          /\ slots[l][p[2]] # Free /\ slots[l][p[2]].key = slots[l][q[2]].key
        BY <1>2, <1>3, <1>5, <2>3
    <3> HIDE DEF l
    <3> QED
        BY <3>1 DEF Holds
  <2> QED
      BY <1>3, <2>3, <2>4
<1>6. {slots[p[1]][p[2]] : p \in GetAll} = {Record(k, contents[k]) : k \in {j \in Keys : contents[j] # NoValue}}
  <2> HIDE DEF keyAt
  <2> QED
      BY <1>3, <1>4
<1>7. IsFiniteSet(GetAll)
  <2>1. IsFiniteSet(chain) /\ IsFiniteSet(Slots)
      BY <1>2, RoomAssumption, FS_Subset, SlotsAreFinite
  <2>2. IsFiniteSet(chain \X Slots)
      BY <2>1, FS_Product
  <2>3. GetAll \in SUBSET (chain \X Slots)
      BY DEF GetAll
  <2> QED
      BY <2>2, <2>3, FS_Subset
<1>8. Cardinality(K) = Cardinality(GetAll)
  <2>1. keyAt \in [GetAll -> K]
    <3> HIDE DEF At, K
    <3> QED
        BY <1>3
  <2>2. \A k \in K : \E p \in GetAll : keyAt[p] = k
      BY <1>4
  <2>3. \A p, q \in GetAll : keyAt[p] = keyAt[q] => p = q
    <3>1. \A p \in GetAll : keyAt[p] = At(p).key
        OBVIOUS
    <3> HIDE DEF keyAt, At
    <3> QED
        BY <1>5, <3>1
  <2> HIDE DEF keyAt, K
  <2>4. IsFiniteSet(K) /\ Cardinality(K) = Cardinality(GetAll)
      BY ONLY <1>7, <2>1, <2>2, <2>3, SameCount
  <2> QED
      BY <2>4
<1> QED
    BY <1>6, <1>8 DEF DurableIsExact, CountAll

\* The persistent leaves hold every record once and nothing else, also after
\* a call that failed; only a failed remove may have erased its own record.
THEOREM DurableIsAlwaysExact == ASSUME Recovers PROVE Spec => []DurableIsExact
BY LeavesAreKept, DurableIsExactIs, PTL
=============================================================================
