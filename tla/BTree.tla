------------------------------- MODULE BTree -------------------------------
(***************************************************************************)
(* The persistent B+-tree behind the stree engine:                         *)
(* src/src/engines-experimental/stree/persistent_b_tree.h and stree.cc.    *)
(*                                                                         *)
(* A leaf holds its keys in order and is linked to its neighbours.  An     *)
(* inner node holds children and, between them, separators; a separator is *)
(* a POINTER to an entry of a leaf, here the pair <<leaf, key>>, and stays *)
(* usable only as long as that leaf still holds that entry.                *)
(*                                                                         *)
(* try_emplace splits full inner nodes from the top, each in a transaction *)
(* of its own, and a full leaf in the last one; between two of them an     *)
(* allocation may fail or the machine stop, and the tree keeps what has    *)
(* been committed.  erase is one transaction.  The engine is not           *)
(* concurrent: one thread, one call at a time.                             *)
(*                                                                         *)
(* A value moves with its key, so only keys are kept; a put of a key that  *)
(* is present assigns the value in place and leaves the tree alone.  The   *)
(* place of an entry inside its leaf (idxs) is abstracted to the order.    *)
(***************************************************************************)
EXTENDS Integers, Sequences, FiniteSets, SequencesExt

CONSTANTS Keys,      \* the keys, integers: their order is the comparator's
          Capacity,  \* entries of a leaf and separators of an inner node
          NodeIds,   \* places nodes may be allocated at, integers
          Null,      \* the null pointer
          MaxJumps   \* bound: calls that do not continue an ascending load

ASSUME KeysAssumption == Keys \subseteq Int /\ IsFiniteSet(Keys)
ASSUME CapacityAssumption == Capacity \in Nat /\ Capacity >= 3
ASSUME JumpsAssumption == MaxJumps \in Nat
ASSUME NodeAssumption == NodeIds \subseteq Int /\ IsFiniteSet(NodeIds) /\ NodeIds # {} /\ Null \notin NodeIds \cup Keys

VARIABLES
  root,     \* the pointer in the root object
  node,     \* the nodes, by place
  size,     \* _size of the tree
  pc,       \* "idle", or "split" between the transactions of one try_emplace
  key,      \* the key that try_emplace inserts
  todo,     \* the inner nodes it has still to split, from the top
  parent,   \* its parent_node
  contents, \* what the calls so far should have stored (for the properties)
  jumps     \* calls so far that do not continue an ascending load

treeVars == <<root, node, size>>
callVars == <<pc, key, todo, parent>>
vars == <<root, node, size, pc, key, todo, parent, contents, jumps>>

Unallocated == [kind |-> "free"]
Leaf(keys, prev, next) == [kind |-> "leaf", keys |-> keys, prev |-> prev, next |-> next]
Inner(seps, kids) == [kind |-> "inner", seps |-> seps, kids |-> kids]

IsLeaf(n) == node[n].kind = "leaf"
Full(n) == Capacity = IF IsLeaf(n) THEN Len(node[n].keys) ELSE Len(node[n].seps)

-----------------------------------------------------------------------------
(* Descending.                                                             *)

\* How many of the ordered separators are at most k, and how many below it.
AtMost(seps, k) == Cardinality({i \in DOMAIN seps : seps[i][2] <= k})
LessThan(seps, k) == Cardinality({i \in DOMAIN seps : seps[i][2] < k})

\* The child that upper_bound among the separators leads to.
GetChild(n, k) == node[n].kids[AtMost(node[n].seps, k) + 1]

\* The inner nodes from the root to the leaf for k, and that leaf.  No way
\* down is longer than there are nodes.
PathTo(k) ==
  LET Descend[d \in Nat] ==
        IF d = 0 THEN <<root>>
        ELSE LET path == Descend[d - 1]
             IN IF IsLeaf(Last(path)) THEN path ELSE Append(path, GetChild(Last(path), k))
  IN Descend[Cardinality(NodeIds)]

FindLeaf(k) == Last(PathTo(k))

Leftmost(tree, n) ==
  LET Down[d \in Nat] ==
        IF d = 0 THEN n
        ELSE LET m == Down[d - 1] IN IF tree[m].kind = "leaf" THEN m ELSE tree[m].kids[1]
  IN Down[Cardinality(NodeIds)]
Rightmost ==
  LET Down[d \in Nat] ==
        IF d = 0 THEN root
        ELSE LET m == Down[d - 1] IN IF IsLeaf(m) THEN m ELSE Last(node[m].kids)
  IN Down[Cardinality(NodeIds)]

\* The nodes of the tree, and places for new ones; without a place for each
\* node it makes a transaction does not happen.
Live == {n \in NodeIds : node[n].kind # "free"}
HasRoom(places) == Cardinality(NodeIds \ Live) >= places
Fresh == LET free == NodeIds \ Live IN CHOOSE n \in free : \A m \in free : n <= m
FreshBut(n) == LET free == NodeIds \ (Live \cup {n}) IN CHOOSE m \in free : \A x \in free : m <= x

-----------------------------------------------------------------------------
(* Reading: an iterator is a leaf and a position among its keys, one       *)
(* behind the last at most.                                                *)

Begin == <<Leftmost(node, root), 1>>
End == <<Rightmost, Len(node[Rightmost].keys) + 1>>

\* Position of the first key of a sorted sequence at or above, or above, k.
FirstAtLeast(keys, k) == Cardinality({i \in DOMAIN keys : keys[i] < k}) + 1
FirstAbove(keys, k) == Cardinality({i \in DOMAIN keys : keys[i] <= k}) + 1

\* leaf_node_t::find: the position of k, or one behind the last.
LeafFind(keys, k) ==
  LET i == FirstAtLeast(keys, k)
  IN IF i \in DOMAIN keys /\ keys[i] = k THEN i ELSE Len(keys) + 1

Find(k) ==
  LET l == FindLeaf(k)
      i == LeafFind(node[l].keys, k)
  IN IF i = Len(node[l].keys) + 1 THEN End ELSE <<l, i>>

LowerBound(k) ==
  LET l == FindLeaf(k)
      i == FirstAtLeast(node[l].keys, k)
  IN IF i > Len(node[l].keys) THEN End ELSE <<l, i>>

\* Mutant: without the step to the next leaf.
UpperBoundStays(k) ==
  LET l == FindLeaf(k)
      i == FirstAbove(node[l].keys, k)
  IN IF i > Len(node[l].keys) THEN End ELSE <<l, i>>

UpperBound(k) ==
  LET l == FindLeaf(k)
      i == FirstAbove(node[l].keys, k)
  IN IF i <= Len(node[l].keys) THEN <<l, i>>
     ELSE IF node[l].next # Null THEN <<node[l].next, 1>> ELSE End

\* Behind the last entry of a leaf there is none.
KeyAt(it) == LET keys == node[it[1]].keys IN IF it[2] \in DOMAIN keys THEN keys[it[2]] ELSE Null

Increment(it) ==
  LET l == it[1] IN
  IF it[2] = Len(node[l].keys) /\ node[l].next # Null
  THEN <<node[l].next, 1>> ELSE <<l, it[2] + 1>>

\* From the first entry of a leaf it goes behind the last entry of the leaf before.
Decrement(it) ==
  LET prev == node[it[1]].prev IN
  CASE it[2] > 1 -> <<it[1], it[2] - 1>>
    [] it[2] = 1 /\ prev # Null -> <<prev, Len(node[prev].keys) + 1>>
    [] OTHER -> it

\* The keys an iteration from one position up to another passes, and Null if
\* it runs past the last leaf.  One that ends passes no key twice.
Scan(from, to) ==
  LET Walk[d \in Nat] ==
        IF d = 0 THEN [at |-> from, seen |-> <<>>]
        ELSE LET w == Walk[d - 1] IN
             CASE w.at = to -> w
               [] w.at # to /\ KeyAt(w.at) = Null -> [at |-> to, seen |-> Append(w.seen, Null)]
               [] OTHER -> [at |-> Increment(w.at), seen |-> Append(w.seen, KeyAt(w.at))]
  IN Walk[Cardinality(Keys) + 1].seen

CountAll == size
GetAll == Scan(Begin, End)
GetAbove(k) == Scan(UpperBound(k), End)
GetEqualAbove(k) == Scan(LowerBound(k), End)
GetEqualBelow(k) == Scan(Begin, UpperBound(k))
GetBelow(k) == Scan(Begin, LowerBound(k))
GetBetween(j, k) == IF j < k THEN Scan(UpperBound(j), LowerBound(k)) ELSE <<>>

Distance(from, to) == Len(Scan(from, to))
CountAbove(k) == Distance(UpperBound(k), End)
CountEqualAbove(k) == Distance(LowerBound(k), End)
CountBelow(k) == Distance(Begin, LowerBound(k))
CountEqualBelow(k) == Distance(Begin, UpperBound(k))
CountBetween(j, k) == IF j < k THEN Distance(UpperBound(j), LowerBound(k)) ELSE 0
Exists(k) == Find(k) # End

\* The entry whose value is handed to the callback.
Get(k) == IF Find(k) = End THEN Null ELSE KeyAt(Find(k))

\* Where the seeks of stree_iterator leave it; End where they say NOT_FOUND.
Seek(k) == Find(k)
StepBack(it) == IF it = Begin THEN End ELSE Decrement(it)
SeekLower(k) == StepBack(LowerBound(k))
SeekLowerEq(k) == StepBack(UpperBound(k))
SeekHigher(k) == UpperBound(k)
SeekHigherEq(k) == LowerBound(k)
SeekToFirst == IF size = 0 THEN End ELSE Begin
SeekToLast == IF size = 0 THEN End ELSE Decrement(End)
IsNext(it) == it # End /\ Increment(it) # End
NextPlace(it) == IF it = End THEN End ELSE Increment(it)
Prev(it) == IF it = Begin THEN it ELSE Decrement(it)

-----------------------------------------------------------------------------
(* Inserting.                                                              *)

\* Bound: the load of consecutive ascending keys may go on at any time;
\* every other put of a new key and every removal counts.
Continues(k) == k - 1 \in contents \cup {0} /\ \A c \in contents : c < k
Jump(k) ==
  IF Continues(k) THEN UNCHANGED jumps ELSE jumps < MaxJumps /\ jumps' = jumps + 1

Idle == pc = "idle"
Finished == pc' = "idle" /\ key' = Null /\ todo' = <<>> /\ parent' = Null
InsertSorted(keys, k) == InsertAt(keys, FirstAtLeast(keys, k), k)

\* put of a key that is present: only the value changes, in a transaction.
PutExisting(k) ==
  /\ Idle /\ Exists(k)
  /\ UNCHANGED vars

PutInLeaf(k) ==
  LET l == FindLeaf(k) IN
  /\ Idle /\ ~Exists(k) /\ ~Full(l)
  /\ node' = [node EXCEPT ![l].keys = InsertSorted(@, k)]
  /\ size' = size + 1
  /\ contents' = contents \cup {k}
  /\ Jump(k)
  /\ UNCHANGED <<root, callVars>>

Half(keys) == Len(keys) \div 2

\* Mutant: the new key is compared with the last key of the leaf.
BelowLast(keys, k) == k < Last(keys)

\* Whether k goes to the left half of a full leaf.
Less(keys, k) == k < keys[Half(keys) + 1]

\* The leaves after l has given its second half to the new leaf n, k has
\* gone to the half it belongs to, and n is linked in after l.
Halves(l, n, k) ==
  LET keys  == node[l].keys
      left  == SubSeq(keys, 1, Half(keys))
      right == SubSeq(keys, Half(keys) + 1, Len(keys))
      split == [node EXCEPT
        ![l] = Leaf(IF Less(keys, k) THEN InsertSorted(left, k) ELSE left, @.prev, n),
        ![n] = Leaf(IF Less(keys, k) THEN right ELSE InsertSorted(right, k), l, node[l].next)]
  IN IF node[l].next = Null THEN split ELSE [split EXCEPT ![node[l].next].prev = n]

FrontOf(tree, l) == <<l, tree[l].keys[1]>>
NewRoot(sep, left, right) == Inner(<<sep>>, <<left, right>>)

\* inner after the child to the left of sep was split and gave birth to right.
UpdateSplittedChild(inner, sep, right) ==
  LET i == LessThan(inner.seps, sep[2]) + 1
  IN Inner(InsertAt(inner.seps, i, sep), InsertAt(inner.kids, i + 1, right))

\* try_emplace meets a full leaf that is the root.
PutSplitsRootLeaf(k) ==
  LET l == FindLeaf(k)
      n == Fresh
      halves == Halves(l, n, k)
  IN
  /\ Idle /\ ~Exists(k) /\ Full(l) /\ l = root /\ HasRoom(2)
  /\ root' = FreshBut(n)
  /\ node' = [halves EXCEPT ![root'] = NewRoot(FrontOf(halves, n), l, n)]
  /\ size' = size + 1
  /\ contents' = contents \cup {k}
  /\ Jump(k)
  /\ UNCHANGED callVars

\* The lowest inner node of the path that is not full, or the root.
Room(path) ==
  LET roomy == {i \in 2 .. Len(path) : ~Full(path[i])}
  IN IF roomy = {} THEN 1 ELSE CHOOSE i \in roomy : \A j \in roomy : j <= i

\* try_emplace meets a full leaf below inner nodes: it chooses which of them
\* to split; nothing is written yet.
StartSplit(k) ==
  LET path == Front(PathTo(k))
      i    == Room(path)
  IN
  /\ Idle /\ ~Exists(k) /\ Full(FindLeaf(k)) /\ path # <<>>
  /\ pc' = "split" /\ key' = k /\ Jump(k)
  /\ IF Full(path[i])
     THEN parent' = Null /\ todo' = SubSeq(path, i, Len(path))
     ELSE parent' = path[i] /\ todo' = SubSeq(path, i + 1, Len(path))
  /\ UNCHANGED <<treeVars, contents>>

\* The halves of a full inner node and the separator between them.
Partition(inner) ==
  LET half == Half(inner.seps) IN
  [left  |-> Inner(SubSeq(inner.seps, 1, half), SubSeq(inner.kids, 1, half + 1)),
   key   |-> inner.seps[half + 1],
   right |-> Inner(SubSeq(inner.seps, half + 2, Len(inner.seps)),
                   SubSeq(inner.kids, half + 2, Len(inner.kids)))]

ChildIn(tree, n, k) == tree[n].kids[AtMost(tree[n].seps, k) + 1]

\* All inner nodes of the path are full: the root is split and a new root
\* made above the halves.
SplitRoot ==
  LET src == Head(todo)
      p   == Partition(node[src])
      n   == Fresh
  IN
  /\ pc = "split" /\ todo # <<>> /\ parent = Null /\ HasRoom(2)
  /\ root' = FreshBut(n)
  /\ node' = [node EXCEPT ![src] = p.left, ![n] = p.right,
                          ![root'] = NewRoot(p.key, src, n)]
  /\ parent' = ChildIn(node', root', key)
  /\ todo' = Tail(todo)
  /\ UNCHANGED <<size, pc, key, contents, jumps>>

\* A full inner node below parent_node is split.
SplitInner ==
  LET src == Head(todo)
      p   == Partition(node[src])
      n   == Fresh
  IN
  /\ pc = "split" /\ todo # <<>> /\ parent # Null /\ HasRoom(1)
  /\ node' = [node EXCEPT ![src] = p.left, ![n] = p.right,
                          ![parent] = UpdateSplittedChild(@, p.key, n)]
  /\ parent' = ChildIn(node', parent, key)
  /\ todo' = Tail(todo)
  /\ UNCHANGED <<root, size, pc, key, contents, jumps>>

\* The last transaction: the leaf is split, the key inserted.
SplitLeaf ==
  LET l == FindLeaf(key)
      n == Fresh
      halves == Halves(l, n, key)
  IN
  /\ pc = "split" /\ todo = <<>> /\ HasRoom(1)
  /\ node' = [halves EXCEPT ![parent] = UpdateSplittedChild(@, FrontOf(halves, n), n)]
  /\ size' = size + 1
  /\ contents' = contents \cup {key}
  /\ Finished
  /\ UNCHANGED <<root, jumps>>

\* An allocation fails in a later transaction, or the machine stops: the
\* splits committed so far stay, the rest never happens.
Abandon ==
  /\ pc = "split"
  /\ Finished
  /\ UNCHANGED <<treeVars, contents, jumps>>

-----------------------------------------------------------------------------
(* Erasing.                                                                *)

\* Position of the separator next to the child on the path: the last one at
\* most k, or the first one when the child is the leftmost.
SepIndex(n, k) == LET c == AtMost(node[n].seps, k) IN IF c = 0 THEN 1 ELSE c

LeftSibling(n, k) == LET c == AtMost(node[n].seps, k) IN IF c = 0 THEN Null ELSE node[n].kids[c]
RightSibling(n, k) ==
  LET c == AtMost(node[n].seps, k)
  IN IF c = Len(node[n].seps) THEN Null ELSE node[n].kids[c + 2]

\* The inner node of the path and the place in it of the separator equal to k.
ToReplace(path, k) ==
  {s \in ToSet(path) \X (1 .. Capacity) :
      s[2] = SepIndex(s[1], k) /\ node[s[1]].seps[s[2]][2] = k}

\* The front of the leftmost leaf to the right of a separator.
SuitableEntry(tree, n, i) == FrontOf(tree, Leftmost(tree, tree[n].kids[i + 1]))
Replace(inner, i, sep) == [inner EXCEPT !.seps[i] = sep]

\* Mutant: the separator is left alone.
NotRepointed(tree, spots) == tree

\* Every separator to replace becomes the front of the leftmost leaf to its
\* right.  A separator that went away with its node, or past the end of its
\* node, is not part of the tree and is written without effect.
Repointed(tree, spots) ==
  [n \in NodeIds |->
     IF \E s \in spots : s[1] = n /\ tree[n].kind = "inner" /\ s[2] <= Len(tree[n].seps)
     THEN LET i == (CHOOSE s \in spots : s[1] = n)[2]
          IN Replace(tree[n], i, SuitableEntry(tree, n, i))
     ELSE tree[n]]

WithoutEntry(leaf, i) == [leaf EXCEPT !.keys = RemoveAt(@, i)]

\* The key's leaf keeps other keys, or is the root.
EraseFromLeaf(k) ==
  LET path == PathTo(k)
      l    == Last(path)
      left == [node EXCEPT ![l] = WithoutEntry(@, Find(k)[2])]
  IN
  /\ Idle /\ Exists(k)
  /\ Len(node[l].keys) > 1 \/ l = root
  /\ node' = IF left[l].keys = <<>> THEN left ELSE Repointed(left, ToReplace(Front(path), k))
  /\ size' = size - 1
  /\ contents' = contents \ {k}
  /\ jumps < MaxJumps /\ jumps' = jumps + 1
  /\ UNCHANGED <<root, callVars>>

\* Mutant: the right neighbour still points back to the leaf that is freed.
UnlinkForward(l) ==
  [n \in NodeIds |->
     CASE n = l -> Unallocated
       [] n = node[l].prev -> [node[n] EXCEPT !.next = node[l].next]
       [] OTHER -> node[n]]

\* The leaf is taken out of the chain and freed.
Unlink(l) ==
  [n \in NodeIds |->
     CASE n = l -> Unallocated
       [] n = node[l].prev -> [node[n] EXCEPT !.next = node[l].next]
       [] n = node[l].next -> [node[n] EXCEPT !.prev = node[l].prev]
       [] OTHER -> node[n]]

DeleteWithChild(inner, i, left) ==
  Inner(RemoveAt(inner.seps, i), RemoveAt(inner.kids, IF left THEN i ELSE i + 1))

InheritChild(inner, i, child, left) ==
  [inner EXCEPT !.kids[IF left THEN i ELSE i + 1] = child]

\* The grandparent takes the only remaining child in place of the parent,
\* which is freed.
Inherit(tree, grand, k, gone, child) ==
  [tree EXCEPT ![gone] = Unallocated,
               ![grand] = InheritChild(@, SepIndex(grand, k), child, LeftSibling(grand, k) = Null)]

\* The key was the last of its leaf: the leaf goes, with it a parent left
\* without separators, and a root left without separators hands over to the
\* remaining child (the code does not free that root: its memory is lost,
\* and shown here like free memory since nothing points to it).
EraseLeaf(k) ==
  LET path == PathTo(k)
      l    == Last(path)
      up   == Front(path)
      p    == Last(up)
      sibling == IF LeftSibling(p, k) # Null THEN LeftSibling(p, k) ELSE RightSibling(p, k)
      cut  == [Unlink(l) EXCEPT
                 ![p] = DeleteWithChild(@, SepIndex(p, k), LeftSibling(p, k) = Null)]
      bare == cut[p].seps = <<>>
      tree == IF bare /\ Len(up) > 1
              THEN Inherit(cut, up[Len(up) - 1], k, p, sibling) ELSE cut
  IN
  /\ Idle /\ Exists(k) /\ Len(node[l].keys) = 1 /\ l # root
  /\ node' = IF bare /\ Len(up) = 1 THEN [tree EXCEPT ![p] = Unallocated]
             ELSE Repointed(tree, ToReplace(up, k))
  /\ root' = IF bare /\ Len(up) = 1 THEN sibling ELSE root
  /\ size' = size - 1
  /\ contents' = contents \ {k}
  /\ jumps < MaxJumps /\ jumps' = jumps + 1
  /\ UNCHANGED callVars

EraseMissing(k) ==
  /\ Idle /\ ~Exists(k)
  /\ UNCHANGED vars

-----------------------------------------------------------------------------
Init ==
  LET first == CHOOSE n \in NodeIds : \A m \in NodeIds : n <= m IN
  /\ root = first
  /\ node = [n \in NodeIds |-> IF n = first THEN Leaf(<<>>, Null, Null) ELSE Unallocated]
  /\ size = 0
  /\ pc = "idle" /\ key = Null /\ todo = <<>> /\ parent = Null
  /\ contents = {} /\ jumps = 0

Next ==
  \/ \E k \in Keys : \/ PutExisting(k) \/ PutInLeaf(k) \/ PutSplitsRootLeaf(k) \/ StartSplit(k)
                     \/ EraseFromLeaf(k) \/ EraseLeaf(k) \/ EraseMissing(k)
  \/ SplitRoot \/ SplitInner \/ SplitLeaf \/ Abandon

Spec == Init /\ [][Next]_vars

-----------------------------------------------------------------------------
(* Properties.                                                             *)

\* The sequence lists the keys of S, each once and in order.
Lists(seq, S) ==
  /\ Len(seq) = Cardinality(S) /\ ToSet(seq) = S
  /\ \A i \in 1 .. Len(seq) - 1 : seq[i] < seq[i + 1]

\* The tree consists of nodes as the code builds them: leaves and inner
\* nodes within their capacity, one child more than separators, and
\* pointers to allocated nodes only (node_t, leaf_node_t, inner_node_t).
TypeOK ==
  /\ root \in NodeIds /\ size \in 0 .. Cardinality(Keys)
  /\ \A n \in Live :
       \/ /\ IsLeaf(n)
          /\ Len(node[n].keys) <= Capacity
          /\ {node[n].prev, node[n].next} \subseteq Live \cup {Null}
       \/ /\ node[n].kind = "inner"
          /\ Len(node[n].seps) \in 1 .. Capacity
          /\ Len(node[n].kids) = Len(node[n].seps) + 1

\* Every separator points to the first entry of the leftmost leaf to its
\* right, and no two separators to the same one: a pointer to an entry that
\* erase destroyed or a split moved away would be read as a key by every
\* later descent (get_path_ext asserts that separators do not repeat).
SeparatorsAreFronts ==
  LET spots == {s \in Live \X (1 .. Capacity) : ~IsLeaf(s[1]) /\ s[2] <= Len(node[s[1]].seps)} IN
  /\ \A s \in spots :
       node[s[1]].seps[s[2]] = SuitableEntry(node, s[1], s[2])
  /\ \A s, t \in spots : node[s[1]].seps[s[2]] = node[t[1]].seps[t[2]] => s = t

\* Descending the tree finds exactly the keys stored, each by its own entry,
\* also between the transactions of an insertion and after one was
\* abandoned, and the counter that count_all reports is their number.
FindIsExact ==
  /\ \A k \in Keys : /\ Exists(k) <=> k \in contents
                    /\ Get(k) = IF k \in contents THEN k ELSE Null
  /\ CountAll = Cardinality(contents)

\* The chain of leaves, which iterations use instead of the tree, visits the
\* same entries in order, and the way back mirrors the way forth: get_all
\* reports every record once, and seek_to_last finds the greatest.
ChainIsContents ==
  /\ Lists(GetAll, contents)
  /\ \A l \in Live : IsLeaf(l) /\ node[l].next # Null => node[node[l].next].prev = l
  /\ node[Begin[1]].prev = Null /\ node[End[1]].next = Null
  /\ SeekToFirst = End <=> contents = {}
  /\ IF contents = {} THEN SeekToLast = End
     ELSE KeyAt(SeekToLast) \in contents /\ \A c \in contents : c <= KeyAt(SeekToLast)

\* The position is that of the least, or greatest, key of S, and End if there is none.
AtLeast(it, S) == IF S = {} THEN it = End ELSE KeyAt(it) \in S /\ \A c \in S : c >= KeyAt(it)
AtGreatest(it, S) == IF S = {} THEN it = End ELSE KeyAt(it) \in S /\ \A c \in S : c <= KeyAt(it)

\* get_above and get_equal_below stop and start at the right entry wherever
\* the bound lies relative to the borders of leaves, and so do seek_higher
\* and next; the steps back are right inside a leaf.
UpperBoundIsExact ==
  \A k \in Keys :
    LET above == {c \in contents : c > k} IN
    /\ Lists(GetAbove(k), above)
    /\ Lists(GetEqualBelow(k), contents \ above)
    /\ CountAbove(k) + CountEqualBelow(k) = CountAll
    /\ AtLeast(SeekHigher(k), above)
    /\ UpperBound(k)[2] > 1 => AtGreatest(SeekLowerEq(k), contents \ above)
    /\ k \in contents =>
         /\ IsNext(Seek(k)) <=> above # {}
         /\ AtLeast(NextPlace(Seek(k)), above)
         /\ Seek(k)[2] > 1 => AtGreatest(Prev(Seek(k)), {c \in contents : c < k})

\* "every record stored in db whose keys are less than key k"
\* (src/doc/libpmemkv.3.md.in:135), and the same for get_equal_above,
\* get_between, their counts and seeks: what the calls that start or stop at
\* lower_bound should report.
LowerBoundIsExact ==
  \A k \in Keys :
    LET below == {c \in contents : c < k} IN
    /\ Lists(GetBelow(k), below) /\ CountBelow(k) = Cardinality(below)
    /\ Lists(GetEqualAbove(k), contents \ below) /\ CountEqualAbove(k) = Cardinality(contents \ below)
    /\ AtLeast(SeekHigherEq(k), contents \ below)
    /\ \A j \in Keys : LET between == {c \in below : j < c} IN
         Lists(GetBetween(j, k), between) /\ CountBetween(j, k) = Cardinality(between)

\* "Changes iterator position to the previous record"
\* (src/doc/libpmemkv_iterator.3.md.in:173), and to "the record with key lower
\* than given key k" (116): what the calls that step back should find.
StepsBackAreExact ==
  \A k \in Keys :
    LET below == {c \in contents : c < k} IN
    /\ AtGreatest(SeekLower(k), below)
    /\ AtGreatest(SeekLowerEq(k), {c \in contents : c <= k})
    /\ k \in contents /\ below # {} => AtGreatest(Prev(Seek(k)), below)
=============================================================================
