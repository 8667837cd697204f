----------------------------- MODULE HeteroWalk -----------------------------
(***************************************************************************)
(* The range queries of the radix engine with dram_caching = 1: get_* and  *)
(* count_* of heterogeneous_radix, which walk the cache and the tree       *)
(* together with a merged_iterator while the background thread moves       *)
(* entries from the log to the tree.                                       *)
(* src/src/engines-experimental/radix.cc 341-449, 686-739 and 791-1036.    *)
(*                                                                         *)
(* A query belongs to the application thread, which does nothing else      *)
(* meanwhile, so the map of the cache stays as it is; the pointers in it   *)
(* and the tree do not.  The query holds an EBR critical section: a leaf   *)
(* that is replaced or erased keeps its key and value for the iterator     *)
(* that is on it, and ++ goes on to the next key of the tree as it is now. *)
(*                                                                         *)
(* Keys are consecutive integers, so each query is the keys strictly       *)
(* between two bounds: get_equal_above(k) is those above k - 1.            *)
(***************************************************************************)
EXTENDS HeteroRadix, FiniteSets

ASSUME OrderAssumption == Keys \subseteq Nat /\ \A i, j \in Keys : i .. j \subseteq Keys

VARIABLE walk

End == [key |-> NoKey, entry |-> 0]   \* end() of the cache's map and of the tree
NoWalk == [pc |-> "idle", dram |-> NoKey, pmem |-> End, cur |-> "pmem",
           above |-> 0, below |-> 0, ptr |-> Null, size |-> 0, seen |-> <<>>]

LeastOf(S) == CHOOSE k \in S : \A j \in S : k <= j

\* upper_bound, and ++, of ordered_cache and of the tree.
NextCached(k) ==
  LET S == {j \in Keys : j > k /\ Cached(j)} IN IF S = {} THEN NoKey ELSE LeastOf(S)
NextLeaf(k) ==
  LET S == {j \in Keys : j > k /\ container[j] # 0} IN
  IF S = {} THEN End ELSE [key |-> LeastOf(S), entry |-> container[LeastOf(S)]]

Walking(pc) == walk.pc = pc /\ UNCHANGED vars

\* merged_begin, merged_lower_bound or merged_upper_bound.
WalkCall(above, below) ==
  /\ appPc = "idle" /\ Walking("idle")
  /\ walk' = [NoWalk EXCEPT !.pc = "settle", !.above = above, !.below = below,
                            !.dram = NextCached(above), !.pmem = NextLeaf(above)]

-----------------------------------------------------------------------------
(* set_current_it, an iteration of its loop in a step.                     *)

DramEnd == walk.dram = NoKey
PmemEnd == walk.pmem = End
SameKey == ~DramEnd /\ ~PmemEnd /\ walk.dram = walk.pmem.key

\* A mutant: the tree's element first when the keys are the same.
PmemFirstOrSame == ~PmemEnd /\ (~DramEnd => walk.dram >= walk.pmem.key)

PmemFirst == ~PmemEnd /\ (~DramEnd => walk.dram > walk.pmem.key)
DramFirst == ~DramEnd /\ (~PmemEnd => walk.dram < walk.pmem.key)

\* The element of the tree is older than that of the cache.
SkipPmem ==
  /\ Walking("settle") /\ SameKey
  /\ walk' = [walk EXCEPT !.pmem = NextLeaf(@.key)]

TakePmem ==
  /\ Walking("settle") /\ PmemFirst
  /\ walk' = [walk EXCEPT !.cur = "pmem", !.pc = "test"]

\* Removed keys are skipped, whether the tree knows of it or not.
TakeDram ==
  /\ Walking("settle") /\ DramFirst
  /\ walk' = IF slotVal[SlotOf(walk.dram)] \in Tombstones
             THEN [walk EXCEPT !.dram = NextCached(@)]
             ELSE [walk EXCEPT !.cur = "dram", !.pc = "test"]

AtEnd ==
  /\ Walking("settle") /\ DramEnd /\ PmemEnd
  /\ walk' = [walk EXCEPT !.pc = "return"]

-----------------------------------------------------------------------------
(* iterate_generic: the condition, the callback with key and value, ++.    *)

CurrentKey == IF walk.cur = "dram" THEN walk.dram ELSE walk.pmem.key

Test ==
  /\ Walking("test")
  /\ walk' = [walk EXCEPT !.pc = IF CurrentKey < walk.below THEN "value" ELSE "return"]

\* The callback of get_* may stop the query; that of count_* counts and goes on.
AfterCallback == {"next", "stopped"}

\* The callback is told a key, a size and the bytes of a value.
Reported(size, entry) == Append(walk.seen, [key |-> CurrentKey, size |-> size, entry |-> entry])
Report(size, entry) ==
  \E pc \in AfterCallback :
    walk' = [walk EXCEPT !.pc = pc, !.seen = Reported(size, entry), !.ptr = Null, !.size = 0]

ValueOfLeaf ==
  /\ Walking("value") /\ walk.cur = "pmem"
  /\ Report(walk.pmem.entry, walk.pmem.entry)

\* value() loads the pointer and takes the size, once.
LoadPointer ==
  /\ Walking("value") /\ walk.cur = "dram"
  /\ LET v == slotVal[SlotOf(walk.dram)] IN
     walk' = [walk EXCEPT !.pc = "read", !.ptr = v, !.size = ValueAt(v)]

\* try_read_value of a pointer to a leaf.
ReadLeaf ==
  /\ Walking("read") /\ walk.ptr[1] = "leaf"
  /\ Report(walk.size, ValueAt(walk.ptr))

\* A mutant: the pointer that is tried again is the old one.
CopyAgain ==
  /\ Walking("read") /\ walk.ptr[1] = "log"
  /\ IF slotVal[SlotOf(walk.dram)] = walk.ptr THEN Report(walk.size, ValueAt(walk.ptr)) ELSE UNCHANGED walk

\* log_read_optimistically: the copy counts when the slot still holds the
\* pointer; otherwise the read is tried again with what it holds now.
CopyFromLog ==
  /\ Walking("read") /\ walk.ptr[1] = "log"
  /\ LET now == slotVal[SlotOf(walk.dram)] IN
     IF now = walk.ptr THEN Report(walk.size, ValueAt(now)) ELSE walk' = [walk EXCEPT !.ptr = now]

Increment ==
  /\ Walking("next")
  /\ walk' = IF walk.cur = "dram"
             THEN [walk EXCEPT !.pc = "settle", !.dram = NextCached(@)]
             ELSE [walk EXCEPT !.pc = "settle", !.pmem = NextLeaf(@.key)]

WalkReturn ==
  /\ walk.pc \in {"return", "stopped"} /\ UNCHANGED vars
  /\ walk' = NoWalk

WalkStep ==
  \/ SkipPmem \/ TakePmem \/ TakeDram \/ AtEnd
  \/ Test \/ ValueOfLeaf \/ LoadPointer \/ ReadLeaf \/ CopyFromLog
  \/ Increment \/ WalkReturn

-----------------------------------------------------------------------------
WalkInit == Init /\ walk = NoWalk

\* Between queries everything goes on as in HeteroRadix; during one, the
\* background thread does, and the process may crash.
Around ==
  \/ walk.pc = "idle" /\ (AppCalls \/ AppStep \/ Recover \/ Open) /\ UNCHANGED walk
  \/ BgStep /\ UNCHANGED walk
  \/ Crash /\ walk' = NoWalk

\* get_all, get_above, get_equal_above, get_equal_below, get_below and get_between.
Query ==
  \E above \in Keys \cup {0}, below \in Keys \cup {Cardinality(Keys) + 1} :
    above < below /\ WalkCall(above, below)

WalkNext == Around \/ WalkStep \/ Query

WalkSpec == WalkInit /\ [][WalkNext]_<<vars, walk>>

\* The application thread goes on with its query.  Nothing is asked of the background thread.
FairWalkSpec == WalkSpec /\ WF_<<vars, walk>>(WalkStep)

-----------------------------------------------------------------------------
(* Properties.                                                             *)

\* The keys of a query, in order, with their last put values.
Answer ==
  LET ks == {k \in Keys : walk.above < k /\ k < walk.below /\ acked[k] # 0}
      Nth(n) == CHOOSE k \in ks : Cardinality({j \in ks : j < k}) = n - 1 IN
  [n \in 1 .. Cardinality(ks) |-> [key |-> Nth(n), size |-> acked[Nth(n)], entry |-> acked[Nth(n)]]]

\* A range query hands out the keys of its range once, in order, each with
\* the value last put and that value's size, leaves out removed keys, and
\* leaves none out when it goes to the end, wherever the background thread
\* is with their entries (merged_iterator::set_current_it, value, ++).
WalkIsExact ==
  walk.pc # "idle" =>
    /\ Len(walk.seen) <= Len(Answer)
    /\ walk.seen = SubSeq(Answer, 1, Len(walk.seen))
    /\ walk.pc = "return" => Len(walk.seen) = Len(Answer)

\* A range query ends, whatever the background thread does to the pointer it
\* reads and to the leaf it is on.
WalksEnd == walk.pc # "idle" ~> walk.pc = "idle"
=============================================================================
