---------------------------- MODULE WalksProofs ----------------------------
(***************************************************************************)
(* What the operators of Walks compute, for any finite set of records and  *)
(* any order of them.  The positions of the records in the order are as    *)
(* many as the records and differ, so each position is taken by one.  The  *)
(* last parts are about numbers and sequences: what the recursive          *)
(* functions of Tree3 and BTree need, and their nodes.                     *)
(***************************************************************************)
EXTENDS Walks, FiniteSetTheorems, SequenceTheorems, TLAPS

\* rank orders the records of S, which are finitely many.
Orders(rank, S) ==
  /\ IsFiniteSet(S)
  /\ \A k \in S : rank[k] \in Int
  /\ \A j, k \in S : rank[j] = rank[k] => j = k

Below(S, rank, k) == {j \in S : rank[j] < rank[k]}
Position(S, rank, k) == Cardinality(Below(S, rank, k))

-----------------------------------------------------------------------------
(* Positions.                                                              *)

LEMMA PositionsDiffer ==
  ASSUME NEW S, NEW rank, Orders(rank, S)
  PROVE  /\ \A k \in S : Position(S, rank, k) \in 0 .. Cardinality(S) - 1
         /\ \A j, k \in S : rank[j] < rank[k] => Position(S, rank, j) < Position(S, rank, k)
<1>1. Cardinality(S) \in Nat
    BY FS_CardinalityType DEF Orders
<1>2. ASSUME NEW k \in S PROVE Position(S, rank, k) \in 0 .. Cardinality(S) - 1
  <2>1. Below(S, rank, k) \in SUBSET S /\ k \notin Below(S, rank, k)
      BY DEF Orders, Below
  <2>2. IsFiniteSet(Below(S, rank, k)) /\ Position(S, rank, k) <= Cardinality(S) /\ Position(S, rank, k) # Cardinality(S)
      BY <2>1, FS_Subset DEF Orders, Position
  <2>3. Position(S, rank, k) \in Nat
      BY <2>2, FS_CardinalityType DEF Position
  <2> QED
      BY <1>1, <2>2, <2>3
<1>3. ASSUME NEW j \in S, NEW k \in S, rank[j] < rank[k] PROVE Position(S, rank, j) < Position(S, rank, k)
  <2>1. Below(S, rank, j) \in SUBSET Below(S, rank, k) /\ j \in Below(S, rank, k) /\ j \notin Below(S, rank, j)
      BY <1>3 DEF Orders, Below
  <2>2. IsFiniteSet(Below(S, rank, k))
      BY FS_Subset DEF Orders, Below
  <2>3. Position(S, rank, j) <= Position(S, rank, k) /\ Position(S, rank, j) # Position(S, rank, k)
      BY <2>1, <2>2, FS_Subset DEF Position
  <2> QED
      BY <1>1, <1>2, <2>3
<1> QED
    BY <1>2, <1>3

LEMMA PositionsAreTaken ==
  ASSUME NEW S, NEW rank, Orders(rank, S), NEW n \in 0 .. Cardinality(S) - 1
  PROVE  \E k \in S : Position(S, rank, k) = n
<1> DEFINE place == [k \in S |-> Position(S, rank, k)]
           T == 0 .. Cardinality(S) - 1
<1>1. Cardinality(S) \in Nat
    BY FS_CardinalityType DEF Orders
<1>2. IsFiniteSet(T) /\ Cardinality(T) = Cardinality(S)
    BY <1>1, FS_Interval
<1>3. place \in [S -> T]
    BY PositionsDiffer
<1>4. \A j, k \in S : place[j] = place[k] => j = k
  <2> SUFFICES ASSUME NEW j \in S, NEW k \in S, Position(S, rank, j) = Position(S, rank, k)
               PROVE  j = k
      OBVIOUS
  <2>1. ~(rank[j] < rank[k]) /\ ~(rank[k] < rank[j])
      BY PositionsDiffer
  <2> QED
      BY <2>1 DEF Orders
<1>5. place \in Injection(S, T)
    BY <1>3, <1>4 DEF Injection, IsInjective
<1>6. place \in Surjection(S, T)
  <2> HIDE DEF place, T
  <2> QED
      BY <1>2, <1>5, FS_Injection
<1> QED
    BY <1>6 DEF Surjection

\* There is a first and a last record.
LEMMA EndsExist ==
  ASSUME NEW S, NEW rank, Orders(rank, S), S # {}
  PROVE  /\ \E k \in S : \A j \in S : rank[k] <= rank[j]
         /\ \E k \in S : \A j \in S : rank[j] <= rank[k]
<1>1. Cardinality(S) \in Nat \ {0}
    BY FS_CardinalityType, FS_EmptySet DEF Orders
<1>2. PICK first \in S : Position(S, rank, first) = 0
    BY <1>1, PositionsAreTaken
<1>3. PICK last \in S : Position(S, rank, last) = Cardinality(S) - 1
    BY <1>1, PositionsAreTaken
<1>4. \A j \in S : rank[first] <= rank[j]
    BY <1>1, <1>2, PositionsDiffer DEF Orders
<1>5. \A j \in S : rank[j] <= rank[last]
    BY <1>1, <1>3, PositionsDiffer DEF Orders
<1> QED
    BY <1>4, <1>5

-----------------------------------------------------------------------------
(* The order of a walk.                                                    *)

LEMMA InOrderIs ==
  ASSUME NEW S, NEW rank, Orders(rank, S)
  PROVE  /\ InOrder(S, rank) \in Seq(S) /\ Len(InOrder(S, rank)) = Cardinality(S) /\ Cardinality(S) \in Nat
         /\ \A n \in 1 .. Cardinality(S) : /\ InOrder(S, rank)[n] \in S
                                           /\ Position(S, rank, InOrder(S, rank)[n]) = n - 1
         /\ \A k \in S : \E n \in 1 .. Cardinality(S) : InOrder(S, rank)[n] = k
         /\ \A n, m \in 1 .. Cardinality(S) :
              n < m <=> rank[InOrder(S, rank)[n]] < rank[InOrder(S, rank)[m]]
<1> DEFINE all == InOrder(S, rank)
<1>1. Cardinality(S) \in Nat
    BY FS_CardinalityType DEF Orders
<1>2. ASSUME NEW n \in 1 .. Cardinality(S)
      PROVE  all[n] \in S /\ Position(S, rank, all[n]) = n - 1
  <2>1. all[n] = CHOOSE k \in S : Position(S, rank, k) = n - 1
      BY DEF InOrder, Position, Below
  <2>2. n - 1 \in 0 .. Cardinality(S) - 1
      BY <1>1
  <2>3. \E k \in S : Position(S, rank, k) = n - 1
      BY <2>2, PositionsAreTaken
  <2> QED
      BY <2>1, <2>3
<1>3. DOMAIN all = 1 .. Cardinality(S) /\ all \in [1 .. Cardinality(S) -> S]
    BY <1>2 DEF InOrder
<1>4. all \in Seq(S) /\ Len(all) = Cardinality(S)
    BY <1>1, <1>3
<1>5. ASSUME NEW n \in 1 .. Cardinality(S), NEW m \in 1 .. Cardinality(S)
      PROVE  n < m <=> rank[all[n]] < rank[all[m]]
  <2>1. all[n] \in S /\ all[m] \in S /\ Position(S, rank, all[n]) = n - 1 /\ Position(S, rank, all[m]) = m - 1
      BY <1>2
  <2>2. rank[all[n]] < rank[all[m]] => n - 1 < m - 1
      BY <2>1, PositionsDiffer
  <2>3. rank[all[m]] < rank[all[n]] => m - 1 < n - 1
      BY <2>1, PositionsDiffer
  <2>4. rank[all[m]] = rank[all[n]] => m - 1 = n - 1
      BY <2>1 DEF Orders
  <2>5. rank[all[m]] \in Int /\ rank[all[n]] \in Int
      BY <2>1 DEF Orders
  <2> HIDE DEF all
  <2> QED
      BY <1>1, <2>2, <2>3, <2>4, <2>5
<1>6. ASSUME NEW k \in S PROVE \E n \in 1 .. Cardinality(S) : all[n] = k
  <2>1. Position(S, rank, k) \in 0 .. Cardinality(S) - 1
      BY PositionsDiffer
  <2>2. Position(S, rank, k) + 1 \in 1 .. Cardinality(S)
      BY <1>1, <2>1
  <2>3. PICK n \in 1 .. Cardinality(S) : n = Position(S, rank, k) + 1
      BY <2>2
  <2>4. all[n] \in S /\ Position(S, rank, all[n]) = Position(S, rank, k)
      BY <1>2, <2>1, <2>3
  <2>5. ~(rank[all[n]] < rank[k]) /\ ~(rank[k] < rank[all[n]])
      BY <2>1, <2>4, PositionsDiffer
  <2>6. all[n] = k
      BY <2>4, <2>5 DEF Orders
  <2> QED
      BY <2>6
<1> HIDE DEF all
<1> QED
    BY <1>1, <1>2, <1>4, <1>5, <1>6 DEF all

LEMMA LeastNumber ==
  ASSUME NEW n \in Nat, NEW C \in SUBSET (1 .. n), C # {}
  PROVE  \E i \in C : \A j \in C : i <= j
<1> DEFINE same == [i \in C |-> i]
<1>1. IsFiniteSet(C)
  <2>1. IsFiniteSet(1 .. n)
      BY FS_Interval
  <2> QED
      BY <2>1, FS_Subset
<1>2. Orders(same, C)
    BY <1>1 DEF Orders
<1>3. \E k \in C : \A j \in C : same[k] <= same[j]
  <2> HIDE DEF same
  <2> QED
      BY <1>2, EndsExist
<1> QED
    BY <1>3

\* A walk reports what it must: the records in order, each once, and when a
\* callback stops it none behind that.
THEOREM WalkReports ==
  ASSUME NEW S, NEW rank, Orders(rank, S), NEW stops
  PROVE  Reports(Walk(S, rank, stops), S, rank, stops)
<1> DEFINE all == InOrder(S, rank)
           size == Cardinality(S)
           cut == {n \in DOMAIN all : all[n] \in stops}
           first == {k \in S : ~\E j \in S \cap stops : rank[j] < rank[k]}
<1>1. /\ all \in Seq(S) /\ Len(all) = size /\ size \in Nat
      /\ \A n \in 1 .. size : all[n] \in S /\ rank[all[n]] \in Int
      /\ \A k \in S : \E n \in 1 .. size : all[n] = k
      /\ \A n, m \in 1 .. size : n < m <=> rank[all[n]] < rank[all[m]]
    BY InOrderIs DEF Orders
<1>2. DOMAIN all = 1 .. size
    BY <1>1
<1>3. cut # {} <=> S \cap stops # {}
    BY <1>1, <1>2
<1>4. CASE cut = {}
  <2>1. Walk(S, rank, stops) = [status |-> "OK", seen |-> all]
      BY <1>4 DEF Walk
  <2>2. first = S
      BY <1>3, <1>4
  <2>3. {all[n] : n \in DOMAIN all} = S
      BY <1>1, <1>2
  <2>4. \A n, m \in DOMAIN all : n < m => rank[all[n]] < rank[all[m]]
      BY <1>1, <1>2
  <2> HIDE DEF all, cut
  <2>5. S \cap stops = {}
      BY <1>3, <1>4
  <2>6. Walk(S, rank, stops).seen = all /\ Walk(S, rank, stops).status = "OK"
      BY <2>1
  <2> HIDE DEF first
  <2>7. Len(all) = Cardinality(first)
      BY <1>1, <2>2
  <2> QED
      BY <2>2, <2>3, <2>4, <2>5, <2>6, <2>7 DEF Reports, first
<1>5. CASE cut # {}
  <2> DEFINE end == CHOOSE n \in cut : \A m \in cut : n <= m
             part == SubSeq(all, 1, end)
  <2>1. Walk(S, rank, stops) = [status |-> "STOPPED_BY_CB", seen |-> part]
      BY <1>5 DEF Walk
  <2>2. end \in cut /\ \A m \in cut : end <= m
    <3>1. cut \in SUBSET (1 .. size)
        BY <1>2
    <3>2. \E i \in cut : \A j \in cut : i <= j
      <4> HIDE DEF cut
      <4> QED
          BY <1>1, <1>5, <3>1, LeastNumber
    <3> QED
        BY <3>2
  <2>3. end \in 1 .. size /\ all[end] \in S \cap stops
      BY <1>1, <1>2, <2>2
  <2>4. \A n \in 1 .. size : n < end => all[n] \notin stops
      BY <1>1, <1>2, <2>2, <2>3
  <2> HIDE DEF all, cut, end
  <2>5. Len(part) = end /\ DOMAIN part = 1 .. end /\ \A n \in 1 .. end : part[n] = all[n]
      BY <1>1, <2>3
  <2>6. first = {all[n] : n \in 1 .. end}
    <3>1. ASSUME NEW n \in 1 .. end PROVE all[n] \in first
      <4>1. n \in 1 .. size /\ all[n] \in S
          BY <1>1, <2>3
      <4>2. ASSUME NEW j \in S \cap stops, rank[j] < rank[all[n]] PROVE FALSE
        <5>1. PICK m \in 1 .. size : all[m] = j
            BY <1>1, <4>2
        <5>2. m < n
            BY <1>1, <4>1, <4>2, <5>1
        <5>3. m < end
            BY <1>1, <2>3, <4>1, <5>1, <5>2
        <5> QED
            BY <2>4, <4>2, <5>1, <5>3
      <4> QED
          BY <4>1, <4>2
    <3>2. ASSUME NEW k \in first PROVE \E n \in 1 .. end : all[n] = k
      <4>1. PICK n \in 1 .. size : all[n] = k
          BY <1>1, <3>2
      <4>2. ~(rank[all[end]] < rank[all[n]])
          BY <2>3, <3>2, <4>1
      <4>3. ~(end < n)
          BY <1>1, <2>3, <4>1, <4>2
      <4>4. n \in 1 .. end
          BY <1>1, <2>3, <4>1, <4>3
      <4> QED
          BY <4>1, <4>4
    <3> HIDE DEF first
    <3> QED
        BY <3>1, <3>2
  <2>7. Cardinality(first) = end
    <3> DEFINE f == [n \in 1 .. end |-> all[n]]
    <3>1. f \in [1 .. end -> first] /\ \A n, m \in 1 .. end : f[n] = f[m] => n = m
      <4>1. \A n \in 1 .. end : n \in 1 .. size /\ all[n] \in first
        <5>1. \A n \in 1 .. end : n \in 1 .. size
            BY <1>1, <2>3
        <5> HIDE DEF first
        <5> QED
            BY <2>6, <5>1
      <4>2. ASSUME NEW n \in 1 .. end, NEW m \in 1 .. end, all[n] = all[m] PROVE n = m
        <5>1. ~(n < m) /\ ~(m < n)
            BY <1>1, <4>1, <4>2
        <5> QED
            BY <2>3, <1>1, <5>1
      <4> HIDE DEF first
      <4> QED
          BY <4>1, <4>2
    <3>2. \A k \in first : \E n \in 1 .. end : f[n] = k
      <4> HIDE DEF first
      <4> QED
          BY <2>6
    <3>3. f \in Bijection(1 .. end, first)
      <4> HIDE DEF first, f
      <4> QED
          BY <3>1, <3>2 DEF Bijection, Injection, Surjection, IsInjective
    <3>4. ExistsBijection(1 .. end, first)
        BY <3>3 DEF ExistsBijection
    <3> HIDE DEF first, f
    <3> QED
        BY <1>1, <2>3, <3>4, FS_CountingElements
  <2>8. {part[n] : n \in DOMAIN part} = first
    <3> HIDE DEF first, part
    <3> QED
        BY <2>5, <2>6
  <2>9. \A n, m \in DOMAIN part : n < m => rank[part[n]] < rank[part[m]]
    <3> HIDE DEF part
    <3>1. \A n \in 1 .. end : n \in 1 .. size
        BY <1>1, <2>3
    <3> QED
        BY <1>1, <2>5, <3>1
  <2> HIDE DEF part
  <2>10. S \cap stops # {}
      BY <2>3
  <2> QED
      BY <2>1, <2>5, <2>7, <2>8, <2>9, <2>10 DEF Reports
<1> QED
    BY <1>4, <1>5

-----------------------------------------------------------------------------
(* Numbers, and functions defined by recursion over them.                  *)

\* Induction, for a property that is a set.
LEMMA AllNumbers ==
  ASSUME NEW T, 0 \in T, \A n \in Nat : n \in T => n + 1 \in T
  PROVE  \A n \in Nat : n \in T
<1> SUFFICES ASSUME NEW n \in Nat, n \notin T PROVE FALSE
    OBVIOUS
<1> DEFINE D == {i \in 1 .. n : i \notin T}
<1>1. D \in SUBSET (1 .. n) /\ D # {}
    OBVIOUS
<1>2. PICK i \in D : \A j \in D : i <= j
  <2> HIDE DEF D
  <2> QED
      BY <1>1, LeastNumber
<1>3. i - 1 \in Nat /\ i - 1 \notin D /\ (i - 1) + 1 = i
    BY <1>2
<1>4. i - 1 \in T
    BY <1>2, <1>3
<1> QED
    BY <1>2, <1>3, <1>4

Starts(f, n, X, x0, step) ==
  /\ f \in [0 .. n -> X] /\ f[0] = x0
  /\ \A i \in 0 .. n - 1 : f[i + 1] = step[<<i, f[i]>>]

LEMMA StartsAgree ==
  ASSUME NEW X, NEW x0, NEW step, NEW m \in Nat, NEW n \in Nat, NEW f, NEW g,
         Starts(f, m, X, x0, step), Starts(g, n, X, x0, step)
  PROVE  \A i \in Nat : i <= m /\ i <= n => f[i] = g[i]
<1> DEFINE T == {i \in Nat : i <= m /\ i <= n => f[i] = g[i]}
<1>1. 0 \in T
    BY DEF Starts
<1>2. ASSUME NEW i \in Nat, i \in T PROVE i + 1 \in T
  <2> SUFFICES ASSUME i + 1 <= m, i + 1 <= n PROVE f[i + 1] = g[i + 1]
      OBVIOUS
  <2>1. i \in 0 .. m - 1 /\ i \in 0 .. n - 1 /\ f[i] = g[i]
      BY <1>2
  <2> QED
      BY <2>1 DEF Starts
<1>3. \A i \in Nat : i \in T
  <2> HIDE DEF T
  <2> QED
      BY <1>1, <1>2, AllNumbers
<1> QED
    BY <1>3

\* The function that starts at x0 and goes on by step is there.
Recurs(f, X, x0, step) ==
  f \in [Nat -> X] /\ f[0] = x0 /\ \A n \in Nat : f[n + 1] = step[<<n, f[n]>>]

LEMMA RecursionExists ==
  ASSUME NEW X, NEW x0 \in X, NEW step \in [Nat \X X -> X]
  PROVE  \E f : Recurs(f, X, x0, step)
<1> DEFINE Start(f, n) == Starts(f, n, X, x0, step)
           T == {n \in Nat : \E f : Start(f, n)}
           first == [i \in 0 .. 0 |-> x0]
<1>1. 0 \in T
  <2>1. Start(first, 0)
      BY DEF Starts
  <2> QED
      BY <2>1
<1>2. ASSUME NEW n \in Nat, n \in T PROVE n + 1 \in T
  <2>1. PICK f : Start(f, n)
      BY <1>2
  <2> DEFINE g == [i \in 0 .. n + 1 |-> IF i <= n THEN f[i] ELSE step[<<n, f[n]>>]]
  <2>2. \A i \in 0 .. n : f[i] \in X
      BY <2>1 DEF Starts
  <2>3. \A i \in 0 .. n : <<i, f[i]>> \in Nat \X X /\ step[<<i, f[i]>>] \in X
      BY <2>2
  <2>4. g \in [0 .. n + 1 -> X]
      BY <2>2, <2>3
  <2>5. g[0] = x0
      BY <2>1 DEF Starts
  <2>6. ASSUME NEW i \in 0 .. (n + 1) - 1 PROVE g[i + 1] = step[<<i, g[i]>>]
    <3>1. g[i] = f[i]
        OBVIOUS
    <3>2. CASE i = n
      <4>1. g[i + 1] = step[<<n, f[n]>>]
          BY <3>2
      <4> QED
          BY <3>1, <3>2, <4>1
    <3>3. CASE i # n
      <4>1. i \in 0 .. n - 1 /\ i + 1 <= n
          BY <3>3
      <4>2. g[i + 1] = f[i + 1]
          BY <4>1
      <4>3. f[i + 1] = step[<<i, f[i]>>]
          BY <4>1, <2>1 DEF Starts
      <4> QED
          BY <3>1, <4>2, <4>3
    <3> QED
        BY <3>2, <3>3
  <2>7. Start(g, n + 1)
    <3> HIDE DEF g
    <3> QED
        BY <2>4, <2>5, <2>6 DEF Starts
  <2> QED
      BY <2>7
<1>3. \A n \in Nat : \E f : Start(f, n)
  <2> SUFFICES \A n \in Nat : n \in T
      OBVIOUS
  <2> HIDE DEF T
  <2> QED
      BY <1>1, <1>2, AllNumbers
<1> DEFINE start == [n \in Nat |-> CHOOSE f : Start(f, n)]
           f == [n \in Nat |-> start[n][n]]
<1>4. \A n \in Nat : Start(start[n], n)
    BY <1>3
<1> HIDE DEF start
<1>5. \A n \in Nat : f[n] \in X
    BY <1>4 DEF Starts
<1>6. f[0] = x0
    BY <1>4 DEF Starts
<1>7. ASSUME NEW n \in Nat PROVE f[n + 1] = step[<<n, f[n]>>]
  <2>1. n + 1 \in Nat /\ n \in 0 .. (n + 1) - 1
      OBVIOUS
  <2>2. start[n + 1][n + 1] = step[<<n, start[n + 1][n]>>]
      BY <1>4, <2>1 DEF Starts
  <2>3. start[n + 1][n] = start[n][n]
    <3>1. Starts(start[n + 1], n + 1, X, x0, step) /\ Starts(start[n], n, X, x0, step)
        BY <1>4, <2>1
    <3>2. \A i \in Nat : i <= n + 1 /\ i <= n => start[n + 1][i] = start[n][i]
      <4> DEFINE g == start[n + 1]
                 f0 == start[n]
                 m == n + 1
      <4>1. Starts(g, m, X, x0, step) /\ Starts(f0, n, X, x0, step) /\ m \in Nat
          BY <3>1, <2>1
      <4> HIDE DEF g, f0, m
      <4>2. \A i \in Nat : i <= m /\ i <= n => g[i] = f0[i]
          BY <4>1, StartsAgree
      <4> QED
          BY <4>2 DEF g, f0, m
    <3> QED
        BY <3>2
  <2> QED
      BY <2>1, <2>2, <2>3
<1>8. f \in [Nat -> X]
    BY <1>5
<1> HIDE DEF f
<1> QED
    BY <1>6, <1>7, <1>8 DEF Recurs

\* A set of positions with no gaps is as long as it is large.
LEMMA SegmentIs ==
  ASSUME NEW n \in Nat, NEW B \in SUBSET (1 .. n), \A i \in B, j \in 1 .. n : j < i => j \in B
  PROVE  Cardinality(B) \in 0 .. n /\ B = 1 .. Cardinality(B)
<1> DEFINE C == {i \in 1 .. n : i \notin B}
<1>1. ASSUME NEW m \in 0 .. n, B = 1 .. m PROVE Cardinality(B) = m
    BY <1>1, FS_Interval
<1>2. CASE C = {}
  <2>1. \A i \in 1 .. n : i \in B
      BY <1>2
  <2>2. B = 1 .. n
    <3> HIDE DEF C
    <3> QED
        BY <2>1, Zenon
  <2>3. n \in 0 .. n
      OBVIOUS
  <2> QED
      BY <1>1, <2>2, <2>3
<1>3. CASE C # {}
  <2>1. PICK i \in C : \A j \in C : i <= j
    <3>1. C \in SUBSET (1 .. n)
        OBVIOUS
    <3> HIDE DEF C
    <3> QED
        BY <1>3, <3>1, LeastNumber
  <2>2. i - 1 \in 0 .. n
      BY <2>1
  <2>3. ASSUME NEW j \in 1 .. n PROVE j \in B <=> j <= i - 1
    <3>1. j \in B => j < i
        BY <2>1
    <3>2. j < i => j \notin C
        BY <2>1
    <3> QED
        BY <2>1, <3>1, <3>2
  <2>4. B = 1 .. i - 1
    <3>1. \A j : j \in B <=> j \in 1 .. n /\ j <= i - 1
        BY <2>3
    <3>2. i \in 1 .. n
        BY <2>1
    <3> HIDE DEF C
    <3>3. \A j : j \in 1 .. i - 1 <=> j \in 1 .. n /\ j <= i - 1
        BY <3>2
    <3> QED
        BY <3>1, <3>3
  <2> QED
      BY <1>1, <2>2, <2>4
<1> QED
    BY <1>2, <1>3

-----------------------------------------------------------------------------
(* Sequences: an element more, and one less.                               *)

Inserted(q, i, e) == SubSeq(q, 1, i - 1) \o <<e>> \o SubSeq(q, i, Len(q))
Removed(q, i) == SubSeq(q, 1, i - 1) \o SubSeq(q, i + 1, Len(q))

LEMMA InsertedIs ==
  ASSUME NEW X, NEW q \in Seq(X), NEW i \in 1 .. Len(q) + 1, NEW e \in X
  PROVE  /\ Inserted(q, i, e) \in Seq(X) /\ Len(Inserted(q, i, e)) = Len(q) + 1
         /\ \A j \in 1 .. Len(q) + 1 :
              Inserted(q, i, e)[j] = IF j < i THEN q[j] ELSE IF j = i THEN e ELSE q[j - 1]
<1> DEFINE a == SubSeq(q, 1, i - 1)
           b == SubSeq(q, i, Len(q))
<1>1. Len(q) \in Nat /\ \A j \in 1 .. Len(q) : q[j] \in X
    BY ElementOfSeq, LenProperties
<1>2. a \in Seq(X) /\ Len(a) = i - 1 /\ \A j \in 1 .. i - 1 : a[j] = q[j]
  <2>1. \A j \in 1 .. i - 1 : q[j] \in X
      BY <1>1
  <2> QED
      BY <1>1, <2>1, SubSeqProperties
<1>3. b \in Seq(X) /\ Len(b) = Len(q) - i + 1 /\ \A j \in 1 .. Len(q) - i + 1 : b[j] = q[i + j - 1]
  <2>1. \A j \in i .. Len(q) : q[j] \in X
      BY <1>1
  <2> QED
      BY <1>1, <2>1, SubSeqProperties
<1>4. Inserted(q, i, e) = (a \o <<e>>) \o b
    BY DEF Inserted
<1> HIDE DEF a, b
<1> DEFINE c == a \o <<e>>
<1>5. <<e>> \in Seq(X) /\ Len(<<e>>) = 1 /\ <<e>>[1] = e
    OBVIOUS
<1>6. c \in Seq(X) /\ Len(c) = i /\ \A j \in 1 .. i : c[j] = IF j < i THEN q[j] ELSE e
    BY <1>2, <1>5, ConcatProperties
<1> HIDE DEF c
<1>7. /\ c \o b \in Seq(X) /\ Len(c \o b) = Len(q) + 1
      /\ \A j \in 1 .. Len(q) + 1 : (c \o b)[j] = IF j <= i THEN c[j] ELSE b[j - i]
  <2>1. Len(c) + Len(b) = Len(q) + 1
      BY <1>1, <1>3, <1>6
  <2>2. /\ c \o b \in Seq(X) /\ Len(c \o b) = Len(c) + Len(b)
        /\ \A j \in 1 .. Len(c) + Len(b) : (c \o b)[j] = IF j <= Len(c) THEN c[j] ELSE b[j - Len(c)]
      BY <1>3, <1>6, ConcatProperties
  <2> QED
      BY <1>6, <2>1, <2>2
<1>8. ASSUME NEW j \in 1 .. Len(q) + 1
      PROVE  (c \o b)[j] = IF j < i THEN q[j] ELSE IF j = i THEN e ELSE q[j - 1]
  <2>1. CASE j <= i
    <3>1. j \in 1 .. i /\ (j < i \/ j = i)
        BY <1>1, <2>1
    <3> QED
        BY <1>6, <1>7, <2>1, <3>1
  <2>2. CASE j > i
    <3>1. j - i \in 1 .. Len(q) - i + 1 /\ i + (j - i) - 1 = j - 1
        BY <1>1, <2>2
    <3> QED
        BY <1>1, <1>3, <1>7, <2>2, <3>1
  <2>3. j <= i \/ j > i
      BY <1>1
  <2> QED
      BY <2>1, <2>2, <2>3, Zenon
<1> QED
    BY <1>4, <1>7, <1>8 DEF c

LEMMA RemovedIs ==
  ASSUME NEW X, NEW q \in Seq(X), NEW i \in 1 .. Len(q)
  PROVE  /\ Removed(q, i) \in Seq(X) /\ Len(Removed(q, i)) = Len(q) - 1
         /\ \A j \in 1 .. Len(q) - 1 : Removed(q, i)[j] = IF j < i THEN q[j] ELSE q[j + 1]
<1> DEFINE a == SubSeq(q, 1, i - 1)
           b == SubSeq(q, i + 1, Len(q))
<1>1. Len(q) \in Nat /\ \A j \in 1 .. Len(q) : q[j] \in X
    BY ElementOfSeq, LenProperties
<1>2. a \in Seq(X) /\ Len(a) = i - 1 /\ \A j \in 1 .. i - 1 : a[j] = q[j]
  <2>1. \A j \in 1 .. i - 1 : q[j] \in X
      BY <1>1
  <2> QED
      BY <1>1, <2>1, SubSeqProperties
<1>3. b \in Seq(X) /\ Len(b) = Len(q) - i /\ \A j \in 1 .. Len(q) - i : b[j] = q[i + j]
  <2>1. \A j \in i + 1 .. Len(q) : q[j] \in X
      BY <1>1
  <2> QED
      BY <1>1, <2>1, SubSeqProperties
<1> HIDE DEF a, b
<1>4. /\ a \o b \in Seq(X) /\ Len(a \o b) = Len(q) - 1
      /\ \A j \in 1 .. Len(q) - 1 : (a \o b)[j] = IF j <= i - 1 THEN a[j] ELSE b[j - (i - 1)]
  <2>1. Len(a) + Len(b) = Len(q) - 1
      BY <1>1, <1>2, <1>3
  <2>2. /\ a \o b \in Seq(X) /\ Len(a \o b) = Len(a) + Len(b)
        /\ \A j \in 1 .. Len(a) + Len(b) : (a \o b)[j] = IF j <= Len(a) THEN a[j] ELSE b[j - Len(a)]
      BY <1>2, <1>3, ConcatProperties
  <2> QED
      BY <1>2, <2>1, <2>2
<1>5. ASSUME NEW j \in 1 .. Len(q) - 1 PROVE (a \o b)[j] = IF j < i THEN q[j] ELSE q[j + 1]
  <2>1. CASE j < i
    <3>1. j \in 1 .. i - 1 /\ j <= i - 1
        BY <1>1, <2>1
    <3> QED
        BY <1>2, <1>4, <2>1, <3>1
  <2>2. CASE ~(j < i)
    <3>1. j - (i - 1) \in 1 .. Len(q) - i /\ i + (j - (i - 1)) = j + 1 /\ ~(j <= i - 1)
        BY <1>1, <2>2
    <3> QED
        BY <1>3, <1>4, <2>2, <3>1
  <2> QED
      BY <2>1, <2>2
<1> QED
    BY <1>4, <1>5 DEF Removed, a, b
=============================================================================
