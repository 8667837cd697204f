---------------------------- MODULE OrderedCache ----------------------------
(***************************************************************************)
(* The DRAM index of the heterogeneous radix engine:                       *)
(* internal::radix::ordered_cache (src/src/engines-experimental/radix.h).  *)
(* It is a std::list of (key, atomic value pointer) nodes in least         *)
(* recently used order, plus a std::map from a key to its list node.  Both *)
(* hold the same entries, so one function from list nodes ("slots") to     *)
(* keys stands for the two.  A slot outlives the key it holds: eviction    *)
(* reuses the node of the evicted key for the new one, and pointers to the *)
(* node's atomic stay in the queue entries written for the old key.        *)
(*                                                                         *)
(* The module declares the cache's variables and gives its two operations  *)
(* as actions on them; HeteroRadix composes them with the engine.          *)
(***************************************************************************)
EXTENDS Integers

CONSTANTS
    Keys,        \* the keys of the database
    NoKey,       \* a slot that was never used holds no key
    CacheSize    \* ordered_cache::max_size

ASSUME NoKeyAssumption == NoKey \notin Keys
ASSUME CacheSizeAssumption == CacheSize \in Nat \ {0}

VARIABLES
    slotKey,     \* the key of each list node
    slotVal,     \* the atomic pointer of each list node
    rank         \* 1 = front of the list (most recently used), 0 = not in the list

cacheVars == <<slotKey, slotVal, rank>>

Slots == 1..CacheSize

----------------------------------------------------------------------------
(* The values the atomic pointer of a node takes.  A pointer is a pair of  *)
(* what it points into and the number of the log entry that wrote the      *)
(* value: the entry itself, or the leaf of the radix tree made from it.    *)

Null == <<"null", 0>>
TombstoneVolatile == <<"tombstone_volatile", 0>>
TombstonePersistent == <<"tombstone_persistent", 0>>
InLog(i) == <<"log", i>>
InLeaf(i) == <<"leaf", i>>

Tombstones == {TombstoneVolatile, TombstonePersistent}

\* The pointers that can name the first n log entries or their leaves.
Pointers(n) ==
    {Null} \cup Tombstones \cup {InLog(i) : i \in 1..n} \cup {InLeaf(i) : i \in 1..n}

CacheInit ==
    /\ slotKey = [s \in Slots |-> NoKey]
    /\ slotVal = [s \in Slots |-> Null]
    /\ rank = [s \in Slots |-> 0]

Cached(k) == \E s \in Slots : slotKey[s] = k

SlotOf(k) == CHOOSE s \in Slots : slotKey[s] = k

FreeSlots == {s \in Slots : slotKey[s] = NoKey}

\* A mutant: a splice that forgets to move the others back.
ToFrontOnly(s) == [rank EXCEPT ![s] = 1]

\* list::splice(begin(), ...): s goes to the front, those that were before it move back by one.
ToFront(s) ==
    [t \in Slots |->
        IF t = s THEN 1
        ELSE IF rank[t] > 0 /\ (rank[s] = 0 \/ rank[t] < rank[s]) THEN rank[t] + 1
        ELSE rank[t]]

\* The evict callback walks the list from its tail and takes the first node that is in the
\* set it accepts: at most one node, and one unless the set is empty.
Victims(evictable) ==
    {s \in evictable : \A t \in evictable : rank[t] <= rank[s]}

(***************************************************************************)
(* The slot ordered_cache::put gives to key k: its own when it is cached,  *)
(* a new one while there is room, the victim of the evict callback when    *)
(* there is none, and 0 (nullptr) when the callback finds no victim.       *)
(***************************************************************************)
PutSlot(k, evictable) ==
    IF Cached(k) THEN SlotOf(k)
    ELSE IF FreeSlots # {} THEN CHOOSE s \in FreeSlots : TRUE
    ELSE IF Victims(evictable) # {} THEN CHOOSE s \in Victims(evictable) : TRUE
    ELSE 0

CachePut(k, v, evictable) ==
    LET s == PutSlot(k, evictable)
    IN  IF s = 0
        THEN UNCHANGED cacheVars
        ELSE /\ slotKey' = [slotKey EXCEPT ![s] = k]
             /\ slotVal' = [slotVal EXCEPT ![s] = v]
             /\ rank' = ToFront(s)

\* ordered_cache::get(key, promote = true) of a cached key.
CachePromote(k) ==
    /\ rank' = ToFront(SlotOf(k))
    /\ UNCHANGED <<slotKey, slotVal>>

\* The list is lost with the process.
CacheDrop ==
    /\ slotKey' = [s \in Slots |-> NoKey]
    /\ slotVal' = [s \in Slots |-> Null]
    /\ rank' = [s \in Slots |-> 0]

----------------------------------------------------------------------------
(* The map and the list agree, which the asserts of put and get state      *)
(* (map.size() == lru_list.size(), the emplace succeeded): no key is held  *)
(* by two nodes, a node is in the list when it holds a key, and the ranks  *)
(* of the nodes in the list are 1..n without a gap or a tie, so "the least *)
(* recently used" names one node.                                          *)
LruListConsistent ==
    /\ \A s, t \in Slots : slotKey[s] = slotKey[t] /\ slotKey[s] # NoKey => s = t
    /\ \A s \in Slots : slotKey[s] # NoKey <=> rank[s] > 0
    /\ \A s, t \in Slots : rank[s] = rank[t] /\ rank[s] > 0 => s = t
    /\ \A s \in Slots : rank[s] > 1 => \E t \in Slots : rank[t] = rank[s] - 1
=============================================================================
