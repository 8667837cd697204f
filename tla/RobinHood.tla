------------------------------ MODULE RobinHood ------------------------------
(***************************************************************************)
(* One shard of the robinhood engine, the persistent hash table of         *)
(* src/src/engines-experimental/robinhood.cc (hm_rp_insert, hm_rp_remove,  *)
(* hm_rp_rebuild, index_lookup).  The shard's lock makes a put or a remove *)
(* the only operation on the table while it runs; what is interleaved here *)
(* are the iterations of its loops and crashes.                            *)
(*                                                                         *)
(* An insertion reads the table and collects its writes in actions, which  *)
(* pmemobj_publish carries out in one crash-safe step at the end (redo).   *)
(* A rebuild writes directly to a new array of slots, which becomes the    *)
(* table's by another publish.                                             *)
(***************************************************************************)
EXTENDS Integers, FiniteSets

CONSTANTS
    Keys,          \* the keys that hash to the shard
    NoKey,
    Hashes,        \* the values the finalizer in hash() may give to a key
    InitCapacity,  \* INIT_ENTRIES_NUM_RP
    MaxSwaps,      \* HASHMAP_RP_MAX_SWAPS
    MaxPuts,       \* bound: puts in a behaviour
    MaxFails,      \* bound: failed allocations in a behaviour
    MaxCrashes     \* bound: crashes in a behaviour

ASSUME NoKeyAssumption == NoKey \notin Keys
ASSUME HashesAssumption == Hashes \subseteq Nat /\ Hashes # {}
ASSUME InitCapacityAssumption == InitCapacity \in Nat /\ InitCapacity >= 4
ASSUME BoundsAssumption ==
    MaxSwaps \in Nat /\ MaxPuts \in Nat /\ MaxFails \in Nat /\ MaxCrashes \in Nat

VARIABLES
    hashOf,     \* key -> what the finalizer makes of it, before the capacity's mask
    table,      \* persistent: [capacity, count, slots]
    \* the operation under way
    pc, op, key, value,
    built,      \* the table a rebuild fills; capacity 0 when there is none
    source,     \* the next slot of the old table to copy
    carried, pos, dist, tries, redo,   \* the variables of insert_helper
    \* what the caller knows
    answer,     \* the status the last operation returned
    held,       \* whether its key was in the table when it was called
    contents,   \* key -> value of its last put that returned OK, 0 if none or removed
    puts, fails, crashes

tableVars == <<hashOf, table>>
probeVars == <<carried, pos, dist, tries, redo>>
callVars == <<op, key, value>>
rebuildVars == <<built, source>>
boundVars == <<puts, fails, crashes>>
vars == <<tableVars, pc, callVars, rebuildVars, probeVars, answer, held, contents, boundVars>>

----------------------------------------------------------------------------
(* Entries and tables *)

\* An entry's hash field is its home slot, with the top bit set once it is deleted; home 0 is an
\* entry that was never used.
Entry(home, k, v) == [home |-> home, deleted |-> FALSE, key |-> k, value |-> v]
Unused == Entry(0, NoKey, 0)

IsEmpty(e) == e.home = 0 \/ e.deleted

\* hm_rp_remove: key and value are zeroed, the hash is kept with the tombstone bit.
Tombstone(e) == [e EXCEPT !.deleted = TRUE, !.key = NoKey, !.value = 0]

Fresh(capacity) ==
    [capacity |-> capacity, count |-> 0, slots |-> [p \in 0..capacity - 1 |-> Unused]]

NoTable == Fresh(0)

\* load_factor 0.5
Threshold(capacity) == capacity \div 2

\* hash(): the home slot of a key, never 0.
Home(capacity, k) ==
    LET h == hashOf[k] % capacity IN IF h = 0 THEN 1 ELSE h

\* increment_pos: slot 0 is not used.
Increment(capacity, p) ==
    LET q == (p + 1) % capacity IN IF q = 0 THEN 1 ELSE q

ProbeDistance(capacity, home, p) == (p + capacity - home) % capacity

\* The slot that the i-th step of a probe from home looks at.
ProbeSlot(capacity, home, i) == ((home - 1 + i) % (capacity - 1)) + 1

(***************************************************************************)
(* index_lookup.  The loop goes past an entry when the number of steps is  *)
(* at most the entry's distance, taken at the next slot and minus one: the *)
(* distance 0 wraps around to the largest integer, so it always goes on.   *)
(***************************************************************************)
LookupStops(t, e, next, i) ==
    \/ e.home = 0
    \/ /\ ProbeDistance(t.capacity, e.home, next) # 0
       /\ i > ProbeDistance(t.capacity, e.home, next) - 1

IndexLookup(t, k) ==
    LET home == Home(t.capacity, k)
        at(i) == ProbeSlot(t.capacity, home, i)
        hit == {i \in 0..t.capacity - 2 :
                   /\ t.slots[at(i)] = Entry(home, k, t.slots[at(i)].value)
                   /\ \A j \in 0..i - 1 :
                         ~LookupStops(t, t.slots[at(j)], at(j + 1), j)}
    IN  IF hit = {} THEN 0 ELSE at(CHOOSE i \in hit : \A j \in hit : i <= j)

\* hm_rp_get: the value of a key, 0 when it is not found.
GetValue(k) ==
    LET p == IndexLookup(table, k) IN IF p = 0 THEN 0 ELSE table.slots[p].value

\* hm_rp_foreach visits these slots.
LiveSlots(t) == {p \in 0..t.capacity - 1 : ~IsEmpty(t.slots[p])}

----------------------------------------------------------------------------
(* insert_helper *)

Rebuilding == built.capacity # 0

Target == IF Rebuilding THEN built ELSE table

\* The loop starts at the key's home slot in a table of the given capacity.
StartProbe(capacity, k, v) ==
    /\ pc' = "probe"
    /\ carried' = Entry(Home(capacity, k), k, v)
    /\ pos' = Home(capacity, k)
    /\ dist' = 0 /\ tries' = 0
    /\ redo' = <<>>

NoProbe ==
    carried' = Unused /\ pos' = 0 /\ dist' = 0 /\ tries' = 0 /\ redo' = <<>>

\* The operation returns.
Return(status) ==
    /\ pc' = "idle" /\ answer' = status
    /\ op' = "none" /\ key' = NoKey /\ value' = 0
    /\ built' = NoTable /\ source' = 0
    /\ NoProbe

\* A failed rebuild or insertion: -1 becomes UNKNOWN_ERROR in put, 1 becomes NOT_FOUND in remove.
ReturnFailure == Return(IF op = "put" THEN "UNKNOWN_ERROR" ELSE "NOT_FOUND")

\* The collected writes, with the one under way.
Written == [p \in DOMAIN redo \cup {pos} |-> IF p = pos THEN carried ELSE redo[p]]

\* The entry carried is put in the current slot, and the loop ends.
Finish(added) ==
    IF Rebuilding
    THEN /\ built' = [built EXCEPT !.slots[pos] = carried, !.count = @ + added]
         /\ pc' = "copy"
         /\ NoProbe
         /\ UNCHANGED <<table, callVars, source, answer, contents>>
    ELSE /\ table' = [table EXCEPT
                !.count = @ + added,
                !.slots = [p \in DOMAIN @ |-> IF p \in DOMAIN Written THEN Written[p] ELSE @[p]]]
         /\ contents' = [contents EXCEPT ![key] = value]
         /\ Return("OK")

Current == Target.slots[pos]

CurrentDistance == ProbeDistance(Target.capacity, Current.home, pos)

Probing == pc = "probe" /\ tries < MaxSwaps

SameKey == ~IsEmpty(Current) /\ Current.key = carried.key

\* Case 1: the key already exists, its value is replaced.
ProbeOverride ==
    /\ Probing
    /\ SameKey
    /\ Finish(0)
    /\ UNCHANGED <<hashOf, held, boundVars>>

\* Case 2: the slot was never used.
ProbeUnused ==
    /\ Probing
    /\ Current.home = 0
    /\ Finish(1)
    /\ UNCHANGED <<hashOf, held, boundVars>>

\* Case 3: a tombstone that has probed less than the carried entry is taken.
ProbeTombstone ==
    /\ Probing
    /\ Current.home # 0 /\ Current.deleted
    /\ CurrentDistance < dist
    /\ Finish(1)
    /\ UNCHANGED <<hashOf, held, boundVars>>

Advance ==
    /\ pos' = Increment(Target.capacity, pos)
    /\ tries' = tries + 1

\* Case 3: an entry that has probed less makes room, and is carried on from there.
ProbeSwap ==
    /\ Probing
    /\ ~IsEmpty(Current) /\ ~SameKey
    /\ CurrentDistance < dist
    /\ IF Rebuilding
       THEN built' = [built EXCEPT !.slots[pos] = carried] /\ UNCHANGED redo
       ELSE redo' = Written /\ UNCHANGED built
    /\ carried' = Current
    /\ dist' = CurrentDistance + 1
    /\ Advance
    /\ UNCHANGED <<tableVars, pc, callVars, source, answer, held, contents, boundVars>>

\* Case 4: the slot is passed.
ProbeOn ==
    /\ Probing
    /\ Current.home # 0 /\ ~SameKey
    /\ CurrentDistance >= dist
    /\ dist' = dist + 1
    /\ Advance
    /\ UNCHANGED <<tableVars, pc, callVars, rebuildVars, carried, redo, answer, held, contents,
                   boundVars>>

\* A mutant: the collected writes are published, not cancelled.
GiveUpPublishes ==
    /\ pc = "probe"
    /\ tries = MaxSwaps
    /\ ReturnFailure
    /\ table' = [table EXCEPT
            !.slots = [p \in DOMAIN @ |-> IF p \in DOMAIN redo THEN redo[p] ELSE @[p]]]
    /\ UNCHANGED <<hashOf, held, contents, boundVars>>

\* "insertion requires too many swaps": nothing is published.
ProbeGiveUp ==
    /\ pc = "probe"
    /\ tries = MaxSwaps
    /\ ReturnFailure
    /\ UNCHANGED <<tableVars, held, contents, boundVars>>

----------------------------------------------------------------------------
(* hm_rp_rebuild *)

NewCapacity == IF op = "put" THEN 2 * table.capacity ELSE table.capacity \div 2

RebuildAlloc ==
    /\ pc = "alloc"
    /\ built' = Fresh(NewCapacity)
    /\ source' = 0
    /\ pc' = "copy"
    /\ UNCHANGED <<tableVars, callVars, probeVars, answer, held, contents, boundVars>>

RebuildAllocFails ==
    /\ pc = "alloc"
    /\ fails < MaxFails
    /\ fails' = fails + 1
    /\ ReturnFailure
    /\ UNCHANGED <<tableVars, held, contents, puts, crashes>>

LeftToCopy == {p \in LiveSlots(table) : p >= source}

\* A mutant: the scan does not move on.
CopyRestarts ==
    /\ pc = "copy"
    /\ \E p \in LeftToCopy :
        /\ \A q \in LeftToCopy : p <= q
        /\ StartProbe(built.capacity, table.slots[p].key, table.slots[p].value)
        /\ source' = p
    /\ UNCHANGED <<tableVars, callVars, built, answer, held, contents, boundVars>>

\* entries_cache: the next live entry is inserted into the new table.
RebuildCopy ==
    /\ pc = "copy"
    /\ \E p \in LeftToCopy :
        /\ \A q \in LeftToCopy : p <= q
        /\ StartProbe(built.capacity, table.slots[p].key, table.slots[p].value)
        /\ source' = p + 1
    /\ UNCHANGED <<tableVars, callVars, built, answer, held, contents, boundVars>>

\* The new slots and capacity are published; the count in persistent memory is left as it is.
RebuildPublish ==
    /\ pc = "copy"
    /\ LeftToCopy = {}
    /\ table' = [table EXCEPT !.capacity = built.capacity, !.slots = built.slots]
    /\ IF op = "put"
       THEN /\ StartProbe(built.capacity, key, value)
            /\ built' = NoTable /\ source' = 0
            /\ UNCHANGED <<callVars, answer>>
       ELSE Return("OK")
    /\ UNCHANGED <<hashOf, held, contents, boundVars>>

----------------------------------------------------------------------------
(* hm_rp_insert and hm_rp_remove *)

MustGrow == table.count + 1 >= Threshold(table.capacity)

Put(k) ==
    /\ pc = "idle"
    /\ puts < MaxPuts
    /\ puts' = puts + 1
    /\ op' = "put" /\ key' = k /\ value' = puts + 1
    /\ held' = (contents[k] # 0)
    /\ answer' = "none"
    /\ IF MustGrow
       THEN pc' = "alloc" /\ UNCHANGED probeVars
       ELSE StartProbe(table.capacity, k, puts + 1)
    /\ UNCHANGED <<tableVars, rebuildVars, contents, fails, crashes>>

\* The table halves when its count falls below the threshold of the smaller one, but not below
\* twice the initial capacity.
MustShrink ==
    /\ Threshold(table.capacity \div 2) >= InitCapacity
    /\ table.count - 1 < Threshold(table.capacity \div 2)

Remove(k) ==
    /\ pc = "idle"
    /\ held' = (contents[k] # 0)
    /\ LET p == IndexLookup(table, k)
       IN  IF p = 0
           THEN /\ answer' = "NOT_FOUND"
                /\ UNCHANGED <<table, pc, callVars, contents>>
           ELSE /\ table' = [table EXCEPT !.slots[p] = Tombstone(@), !.count = @ - 1]
                /\ contents' = [contents EXCEPT ![k] = 0]
                /\ IF MustShrink
                   THEN /\ pc' = "alloc" /\ answer' = "none"
                        /\ op' = "remove" /\ key' = k /\ UNCHANGED value
                   ELSE answer' = "OK" /\ UNCHANGED <<pc, callVars>>
    /\ UNCHANGED <<hashOf, rebuildVars, probeVars, boundVars>>

\* The process dies: what was not published is gone.
Crash ==
    /\ pc # "idle"
    /\ crashes < MaxCrashes
    /\ crashes' = crashes + 1
    /\ Return("none")
    /\ UNCHANGED <<tableVars, held, contents, puts, fails>>

----------------------------------------------------------------------------
Init ==
    /\ hashOf \in [Keys -> Hashes]
    /\ table = Fresh(InitCapacity)
    /\ pc = "idle" /\ op = "none" /\ key = NoKey /\ value = 0
    /\ built = NoTable /\ source = 0
    /\ carried = Unused /\ pos = 0 /\ dist = 0 /\ tries = 0 /\ redo = <<>>
    /\ answer = "none" /\ held = FALSE
    /\ contents = [k \in Keys |-> 0]
    /\ puts = 0 /\ fails = 0 /\ crashes = 0

Step ==
    \/ ProbeOverride \/ ProbeUnused \/ ProbeTombstone \/ ProbeSwap \/ ProbeOn \/ ProbeGiveUp
    \/ RebuildAlloc \/ RebuildCopy \/ RebuildPublish

Next ==
    \/ \E k \in Keys : Put(k) \/ Remove(k)
    \/ Step \/ RebuildAllocFails \/ Crash

Spec == Init /\ [][Next]_vars

\* An operation that was called goes on.
FairSpec == Spec /\ WF_vars(Step)

----------------------------------------------------------------------------
(* Properties *)

EntryOf(capacity) ==
    [home : 0..capacity - 1, deleted : BOOLEAN, key : Keys \cup {NoKey}, value : 0..MaxPuts]

IsTable(t) ==
    /\ t.capacity \in Nat /\ t.count \in 0..t.capacity
    /\ t.slots \in [0..t.capacity - 1 -> EntryOf(t.capacity)]

TypeOK ==
    /\ hashOf \in [Keys -> Hashes]
    /\ IsTable(table) /\ IsTable(built)
    /\ pc \in {"idle", "alloc", "copy", "probe"}
    /\ op \in {"none", "put", "remove"} /\ key \in Keys \cup {NoKey} /\ value \in 0..MaxPuts
    /\ source \in 0..table.capacity
    /\ pc = "probe" => pos \in 1..Target.capacity - 1 /\ carried \in EntryOf(Target.capacity)
    /\ dist \in Nat /\ tries \in 0..MaxSwaps
    /\ \A p \in DOMAIN redo : redo[p] \in EntryOf(table.capacity)
    /\ answer \in {"none", "OK", "NOT_FOUND", "UNKNOWN_ERROR"} /\ held \in BOOLEAN
    /\ contents \in [Keys -> 0..MaxPuts]
    /\ puts \in 0..MaxPuts /\ fails \in 0..MaxFails /\ crashes \in 0..MaxCrashes

\* A get finds the value of the last put of every key, and nothing for a removed one, whatever
\* swaps, tombstones, growing, shrinking and crashes came in between.
GetFindsLastPut == \A k \in Keys : GetValue(k) = contents[k]

\* The count kept in persistent memory, which decides growing and shrinking and is what
\* count_all answers, is the number of keys, and get_all visits each of them once.
CountIsExact ==
    /\ table.count = Cardinality({k \in Keys : contents[k] # 0})
    /\ \A k \in Keys :
        Cardinality({p \in LiveSlots(table) : table.slots[p].key = k}) =
            IF contents[k] # 0 THEN 1 ELSE 0

\* What index_lookup relies on: between the home slot of an entry and the entry, no slot holds
\* an entry or a tombstone at which the lookup stops.
LookupReaches(t) ==
    \A p \in LiveSlots(t) : \A i \in 0..t.capacity - 2 :
        LET home == t.slots[p].home
        IN  (\A j \in 0..i : ProbeSlot(t.capacity, home, j) # p) =>
                ~LookupStops(t, t.slots[ProbeSlot(t.capacity, home, i)],
                             ProbeSlot(t.capacity, home, i + 1), i)

ProbeOrder == LookupReaches(table)

\* A put or a remove returns: probing ends although tombstones fill the table.
CallsReturn == pc # "idle" ~> pc = "idle"

\* NOT_FOUND means that the key was not there.
NotFoundIsTrue == answer = "NOT_FOUND" => ~held
=============================================================================
