------------------------------- MODULE Tree3 -------------------------------
(***************************************************************************)
(* The tree3 engine: src/src/engines-experimental/tree3.cc and tree3.h.    *)
(*                                                                         *)
(* Records live in persistent leaves; a leaf is an array of slots.  Each   *)
(* leaf is put before the older ones in a list.  Leaves are numbered as    *)
(* they are made, so the list is the set of leaves in descending order.    *)
(* The tree over them is volatile: a leaf node remembers the key of every  *)
(* slot of its leaf (leafnode->keys, here image), inner nodes hold         *)
(* separators and children, and every node points to its parent.  After a  *)
(* restart Recover rebuilds the tree from the leaves.                      *)
(*                                                                         *)
(* A call is one transaction and then the update of the volatile part, and *)
(* the engine is not concurrent, so a call is one step; a crash inside a   *)
(* call is a restart before or after that step.  The transaction can fail  *)
(* when memory runs out (Oom names the ones that may).  The failure undoes *)
(* neither the volatile changes made before it nor what remove writes to   *)
(* the record itself, which is not in the undo log: KVSlot::clear clears   *)
(* the hash before it frees the record, and a record without a hash is     *)
(* nowhere taken for one, so its slot is as good as free.  (A crash behind *)
(* that write is a restart after the remove.)                              *)
(*                                                                         *)
(* Hashes only speed up the comparison of keys and are left out: a slot    *)
(* with hash 0 is one without a key.                                       *)
(***************************************************************************)
EXTENDS Walks, SequencesExt

CONSTANTS Keys,       \* integers, in the order of std::string::compare
          Values,
          NoKey,      \* the empty key of a slot that is not used
          NoValue,    \* no record (properties and results of get)
          Null,
          LeafKeys,   \* LEAF_KEYS, slots of a leaf
          InnerKeys,  \* INNER_KEYS, separators of an inner node
          LeafIds,    \* bound: places for persistent leaves
          InnerIds,   \* bound: places for inner nodes
          Oom,        \* kinds of transaction that may fail
          Reopens     \* whether the program reopens after such a failure

ASSUME SizesAssumption == LeafKeys \in Nat \ {0} /\ InnerKeys \in Nat \ {0} /\ InnerKeys % 2 = 0
ASSUME NamesAssumption == Keys \subseteq Int /\ NoKey \notin Keys /\ NoValue \notin Values
ASSUME IdsAssumption == LeafIds \cap InnerIds = {} /\ Null \notin LeafIds \cup InnerIds
\* As many places for inner nodes as for leaves are enough.
ASSUME RoomAssumption ==
  /\ LeafIds \subseteq Int /\ IsFiniteSet(LeafIds) /\ IsFiniteSet(InnerIds)
  /\ Cardinality(LeafIds) <= Cardinality(InnerIds)
ASSUME ReopensAssumption == Reopens \in BOOLEAN
ASSUME OomAssumption == Oom \subseteq {"head", "split", "remove"}

VARIABLES
  slots,     \* persistent: what each slot of each leaf holds
  chain,     \* persistent: the leaves of the list from the root object
  image,     \* volatile: leafnode->keys of each leaf
  tree,      \* volatile: tree_top, the inner nodes and the parent pointers
  prealloc,  \* volatile: leaves_prealloc, the leaves found empty
  failed,    \* whether a call has failed half way since the last restart
  contents   \* for the properties: what acknowledged calls have left, less
             \* the records that failed removes have cleared

vars == <<slots, chain, image, tree, prealloc, failed, contents>>

Slots == 1 .. LeafKeys
Record(k, v) == [key |-> k, value |-> v]
Free == Record(NoKey, NoValue)
NoImage == [s \in Slots |-> NoKey]
InnerMidpoint == InnerKeys \div 2
LeafMidpoint == LeafKeys \div 2

EmptyTree == [top    |-> Null,
              inner  |-> [i \in InnerIds |-> [keys |-> <<>>, kids |-> <<>>]],
              parent |-> [n \in LeafIds \cup InnerIds |-> Null]]

-----------------------------------------------------------------------------
(* The volatile tree.                                                      *)

\* The child to the left of the first separator not below k.
ChildFor(inner, k) == inner.kids[Cardinality({i \in DOMAIN inner.keys : inner.keys[i] < k}) + 1]

\* The leaf a key belongs to: at d is the node at depth d of the way down,
\* or the leaf that was met before.  No inner node is met twice.
LeafSearch(k) ==
  LET Down[d \in Nat] ==
        IF d = 0 THEN tree.top
        ELSE LET n == Down[d - 1]
             IN IF n \in LeafIds THEN n ELSE ChildFor(tree.inner[n], k)
  IN Down[Cardinality(InnerIds)]

FreshInner(t) == CHOOSE i \in InnerIds : t.inner[i].kids = <<>>

NewTop(t, node, new, sk) ==
  LET top == FreshInner(t) IN
  [top    |-> top,
   inner  |-> [t.inner EXCEPT ![top] = [keys |-> <<sk>>, kids |-> <<node, new>>]],
   parent |-> [t.parent EXCEPT ![node] = top, ![new] = top]]

\* An inner node with the separator and the new child in their places.
Widened(inner, sk, new) ==
  LET idx == Cardinality({i \in DOMAIN inner.keys : inner.keys[i] <= sk})
  IN [keys |-> InsertAt(inner.keys, idx + 1, sk), kids |-> InsertAt(inner.kids, idx + 2, new)]

Lower(wide) == [keys |-> SubSeq(wide.keys, 1, InnerMidpoint),
                kids |-> SubSeq(wide.kids, 1, InnerMidpoint + 1)]
Upper(wide) == [keys |-> SubSeq(wide.keys, InnerMidpoint + 2, Len(wide.keys)),
                kids |-> SubSeq(wide.kids, InnerMidpoint + 2, Len(wide.kids))]

\* The children that move to ni point to it.
Adopted(parent, kids, ni) ==
  [n \in DOMAIN parent |-> IF n \in ToSet(kids) THEN ni ELSE parent[n]]

\* One call of InnerUpdateAfterSplit: the new node and its separator go to
\* the parent, and if that is full its upper half goes on to its own parent.
Insert(s) ==
  LET inner == s.tree.parent[s.node]
      wide  == Widened(s.tree.inner[inner], s.sk, s.new)
      ni    == FreshInner(s.tree)
      halved == [s.tree EXCEPT
                   !.inner  = [@ EXCEPT ![inner] = Lower(wide), ![ni] = Upper(wide)],
                   !.parent = Adopted([@ EXCEPT ![ni] = s.tree.parent[inner]], Upper(wide).kids, ni)]
  IN CASE inner = Null -> [s EXCEPT !.tree = NewTop(s.tree, s.node, s.new, s.sk), !.done = TRUE]
       [] inner # Null /\ Len(wide.keys) <= InnerKeys -> [s EXCEPT !.tree.inner[inner] = wide, !.done = TRUE]
       [] OTHER -> [tree |-> halved, node |-> inner, new |-> ni, sk |-> wide.keys[InnerMidpoint + 1], done |-> FALSE]

\* The call and those it makes of itself, at most one for each level.
InnerUpdateAfterSplit(t, node, new, sk) ==
  LET Up[d \in Nat] ==
        IF d = 0 THEN [tree |-> t, node |-> node, new |-> new, sk |-> sk, done |-> FALSE]
        ELSE LET s == Up[d - 1] IN IF s.done THEN s ELSE Insert(s)
  IN Up[Cardinality(InnerIds) + 1].tree

-----------------------------------------------------------------------------
(* Reading.                                                                *)

SlotOf(l, k) == {s \in Slots : image[l][s] = k}

Get(k) ==
  IF tree.top = Null \/ SlotOf(LeafSearch(k), k) = {} THEN NoValue
  ELSE LET l == LeafSearch(k)
           s == CHOOSE s \in SlotOf(l, k) : \A r \in SlotOf(l, k) : r <= s
       IN slots[l][s].value

\* The records get_all reports: it walks the persistent list, not the tree.
GetAll == {p \in chain \X Slots : slots[p[1]][p[2]] # Free}

CountAll == Cardinality(GetAll)

-----------------------------------------------------------------------------
(* Writing.                                                                *)

Oldest(ids) == CHOOSE l \in ids : \A m \in ids : l <= m

\* The persistent leaf a new leaf node gets: the last one of leaves_prealloc,
\* which was filled in the order of the list, or one that is made.
NewLeaf == IF prealloc # {} THEN Oldest(prealloc) ELSE Oldest(LeafIds \ chain)
HasNewLeaf == prealloc # {} \/ LeafIds # chain
TakeLeaf ==
  IF prealloc # {} THEN prealloc' = prealloc \ {NewLeaf} /\ UNCHANGED chain
                   ELSE chain' = chain \cup {NewLeaf} /\ UNCHANGED prealloc

\* A program that reopens the database after a failure makes no other call.
\* One that goes on may put a key a second time into a leaf, next to the
\* record its leaf node does not know of; the model does not follow that far.
MayCall == ~(failed /\ Reopens)
Stored(k, v) == MayCall /\ contents' = [contents EXCEPT ![k] = v] /\ UNCHANGED failed
Fails(kind) == kind \in Oom /\ MayCall /\ failed' = TRUE

\* The first record goes to slot 0 of a leaf of its own.
PutHead(k, v) ==
  LET l == NewLeaf IN
  /\ tree.top = Null /\ HasNewLeaf
  /\ slots' = [slots EXCEPT ![l][1] = Record(k, v)]
  /\ image' = [image EXCEPT ![l] = [NoImage EXCEPT ![1] = k]]
  /\ tree' = [tree EXCEPT !.top = l]
  /\ TakeLeaf
  /\ Stored(k, v)

\* The same, but there is no memory for the record: a leaf taken from
\* leaves_prealloc is not put back.
PutHeadFails ==
  /\ tree.top = Null /\ prealloc # {}
  /\ prealloc' = prealloc \ {NewLeaf}
  /\ Fails("head")
  /\ UNCHANGED <<slots, chain, image, tree, contents>>

EmptySlots(l) == {s \in Slots : image[l][s] = NoKey}

\* Mutant: an empty slot is preferred to the slot of the key.
EmptyFirst(l, k) == IF EmptySlots(l) # {} THEN EmptySlots(l) ELSE SlotOf(l, k)

Suitable(l, k) == IF SlotOf(l, k) # {} THEN SlotOf(l, k) ELSE EmptySlots(l)

\* LeafFillSlotForKey: the slot of the key, or the lowest empty one.
PutFill(k, v) ==
  LET l == LeafSearch(k)
      s == Oldest(Suitable(l, k))
  IN
  /\ tree.top # Null /\ Suitable(l, k) # {}
  /\ slots' = [slots EXCEPT ![l][s] = Record(k, v)]
  /\ image' = [image EXCEPT ![l][s] = k]
  /\ Stored(k, v)
  /\ UNCHANGED <<chain, tree, prealloc>>

\* The key in the middle of the leaf's keys and the new one.
SplitKey(l, k) ==
  LET all == {k} \cup {image[l][s] : s \in Slots}
  IN CHOOSE m \in all : Cardinality({a \in all : a < m}) = LeafMidpoint

\* Mutant: the middle key itself moves to the new leaf.
MovesFrom(l, k) == {s \in Slots : image[l][s] >= SplitKey(l, k)}

\* The slots that sort above the middle key move to the new leaf.
Moving(l, k) == {s \in Slots : image[l][s] > SplitKey(l, k)}

\* What function f, of slots, becomes on the left and on the right.
KeepRest(f, moving, empty) == [s \in Slots |-> IF s \in moving THEN empty ELSE f[s]]
KeepMoved(f, moving, empty) == [s \in Slots |-> IF s \in moving THEN f[s] ELSE empty]
Highest(f, empty) ==
  CHOOSE s \in Slots : f[s] = empty /\ \A r \in Slots : f[r] = empty => r <= s

PutSplit(k, v) ==
  LET l  == LeafSearch(k)
      n  == NewLeaf
      mv == Moving(l, k)
      split == [image EXCEPT ![l] = KeepRest(image[l], mv, NoKey),
                             ![n] = KeepMoved(image[l], mv, NoKey)]
      target == IF k > SplitKey(l, k) THEN n ELSE l
      s == Highest(split[target], NoKey)
  IN
  /\ tree.top # Null /\ Suitable(l, k) = {} /\ HasNewLeaf
  /\ slots' = [[slots EXCEPT ![l] = KeepRest(slots[l], mv, Free),
                             ![n] = KeepMoved(slots[l], mv, Free)]
                 EXCEPT ![target][s] = Record(k, v)]
  /\ image' = [split EXCEPT ![target][s] = k]
  /\ tree' = InnerUpdateAfterSplit([tree EXCEPT !.parent[n] = tree.parent[l]], l, n, SplitKey(l, k))
  /\ TakeLeaf
  /\ Stored(k, v)

\* There is no memory for the put that splits: the transaction is rolled
\* back, but the leaf node has given away the keys of the moving slots the
\* loop came to before, from the last slot on.
PutSplitFails(k) ==
  LET l == LeafSearch(k) IN
  /\ tree.top # Null /\ Suitable(l, k) = {} /\ HasNewLeaf
  /\ \E from \in 1 .. LeafKeys + 1 :
       image' = [image EXCEPT ![l] = KeepRest(@, {s \in Moving(l, k) : s >= from}, NoKey)]
  /\ prealloc' = prealloc \ {NewLeaf}
  /\ Fails("split")
  /\ UNCHANGED <<slots, chain, tree, contents>>

Forgotten(l, s) == [image EXCEPT ![l][s] = NoKey]

Cleared(l, s) == [slots EXCEPT ![l][s] = Free]

RemoveRecord(k) ==
  /\ Get(k) # NoValue
  /\ LET l == LeafSearch(k)
         s == Oldest(SlotOf(l, k))
     IN slots' = Cleared(l, s) /\ image' = Forgotten(l, s)
  /\ Stored(k, NoValue)
  /\ UNCHANGED <<chain, tree, prealloc>>

\* The transaction fails after the leaf node has forgotten the key: when the
\* slot is snapshotted, or when the record is freed.  By then its hash is
\* cleared, which nothing undoes: the record is gone, restarts included.
RemoveFails(k) ==
  /\ Get(k) # NoValue
  /\ LET l == LeafSearch(k)
         s == Oldest(SlotOf(l, k))
     IN /\ image' = Forgotten(l, s)
        /\ \/ UNCHANGED <<slots, contents>>
           \/ slots' = Cleared(l, s) /\ contents' = [contents EXCEPT ![k] = NoValue]
  /\ Fails("remove")
  /\ UNCHANGED <<chain, tree, prealloc>>

-----------------------------------------------------------------------------
(* Restarting.                                                             *)

LeafKeysOf(l) == {slots[l][s].key : s \in Slots} \ {NoKey}
MaxKey(l) == CHOOSE k \in LeafKeysOf(l) : \A j \in LeafKeysOf(l) : j <= k

Between(prev, next) == MaxKey(prev)

\* The tree with the leaf next behind prev, the last one so far.
AddLeaf(t, prev, next) ==
  InnerUpdateAfterSplit([t EXCEPT !.parent[next] = t.parent[prev]], prev, next, Between(prev, next))

EmptyLeaves == {l \in chain : LeafKeysOf(l) = {}}

\* Recover: what the leaves hold decides the leaf nodes; they are put under
\* inner nodes from left to right as if split from each other.
Restart ==
  LET used == chain \ EmptyLeaves
      row  == InOrder(used, [l \in used |-> MaxKey(l)])
      Built[n \in 0 .. Len(row) - 1] ==
        IF n = 0 THEN [EmptyTree EXCEPT !.top = row[1]]
        ELSE AddLeaf(Built[n - 1], row[n], row[n + 1])
  IN
  /\ tree' = IF used = {} THEN EmptyTree ELSE Built[Len(row) - 1]
  /\ image' = [l \in LeafIds |-> [s \in Slots |-> slots[l][s].key]]
  /\ prealloc' = EmptyLeaves
  /\ failed' = FALSE
  /\ UNCHANGED <<slots, chain, contents>>

-----------------------------------------------------------------------------
Init ==
  /\ slots = [l \in LeafIds |-> [s \in Slots |-> Free]]
  /\ chain = {}
  /\ image = [l \in LeafIds |-> NoImage]
  /\ tree = EmptyTree
  /\ prealloc = {}
  /\ failed = FALSE
  /\ contents = [k \in Keys |-> NoValue]

Next ==
  \/ \E k \in Keys, v \in Values : PutHead(k, v) \/ PutFill(k, v) \/ PutSplit(k, v)
  \/ \E k \in Keys : RemoveRecord(k) \/ PutSplitFails(k) \/ RemoveFails(k)
  \/ PutHeadFails
  \/ Restart

Spec == Init /\ [][Next]_vars

-----------------------------------------------------------------------------
(* Properties.                                                             *)

\* The inner nodes are within their arrays and every node of the tree points
\* to the node it is a child of: the next split climbs these pointers
\* (KVInnerNode::assert_invariants, KVNode::parent).
TypeOK ==
  /\ tree.top # Null => tree.parent[tree.top] = Null
  /\ \A n \in InnerIds : tree.inner[n].kids # <<>> =>
       /\ Len(tree.inner[n].keys) \in 1 .. InnerKeys
       /\ Len(tree.inner[n].kids) = Len(tree.inner[n].keys) + 1
       /\ \A i \in DOMAIN tree.inner[n].kids : tree.parent[tree.inner[n].kids[i]] = n

\* get finds the record of every key that was put and not removed, whatever
\* splits and restarts have moved it; a call that failed may hide records
\* until the next restart.  A remove that failed may have removed its record
\* all the same (see FailedDeleteIsSafe): then, and only then, it stays away.
GetIsExact == ~failed => \A k \in Keys : Get(k) = contents[k]

\* The persistent leaves, which get_all and count_all walk and a restart
\* starts from, hold every record once and nothing else, whatever the leaf
\* nodes take for an empty slot and whichever call failed half way.  The one
\* record a failed call can cost is that of a failed remove.
DurableIsExact ==
  /\ {slots[p[1]][p[2]] : p \in GetAll} = {Record(k, contents[k]) : k \in {j \in Keys : contents[j] # NoValue}}
  /\ CountAll = Cardinality({k \in Keys : contents[k] # NoValue})

\* "tree3 uses generic PMDK transactions [...] there is no need for
\* micro-logging structures [...] to make internal delete and split
\* operations safe" (src/doc/ENGINES-experimental.md:222): a call whose
\* transaction fails leaves the records get_all reports as they were.
FailedDeleteIsSafe == [][failed' /\ ~failed => GetAll' = GetAll]_vars

\* "If record is present PMEMKV\_STATUS\_OK is returned"
\* (src/doc/libpmemkv.3.md.in:155): what exists should say of a record that was put
\* and not removed.
PresentIsFound == \A k \in Keys : contents[k] # NoValue => Get(k) # NoValue
=============================================================================
