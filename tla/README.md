# A verification development of pmemkv

pmemkv is an embedded key-value store. A C API (with C++ wrappers) opens a *database* backed by
one of several *engines*; the engines differ in where the data is (DRAM, or a pool in persistent
memory), in the data structure, in what they order and in what they allow to run concurrently.
This directory holds TLA+ models of the engines and of the API around them, TLC configurations that
check them on small instances, and theorems checked by TLAPS. Paths below are relative to the
repository, where the implementation is under `src/`.

Contents

1. The system: components and what makes them correct
2. What is modelled, and how the models correspond to the code
3. The runs
4. Bounds
5. Fairness
6. The proofs
7. Where code and documentation disagree
8. What is not modelled, and why

## 1. The system

| component | source | state it keeps | operations | what makes it correct | module |
|---|---|---|---|---|---|
| C API | `libpmemkv.cc`, `out.cc`, `exceptions.h` | the database handle, the last error of each thread | open, close, get, put, remove, ..., iterators, transactions, config | every exception becomes one status and one message of the thread it happened in; open consumes the config on every path | `Calls`, `PoolOpening`, `Handles` |
| C++ API | `libpmemkv.hpp` | owned handles, `result<T>` | wrappers | each handle is freed once; a moved-from object is inert | `Results`, `Handles`, `Calls` |
| configuration | `config.h` | name -> typed item | `put_*`, `get_*` | an item is read back as what was put, or refused; objects are deleted once, by their own deleter, and not while in use | `Handles`, `PoolOpening` |
| JSON configuration | `libpmemkv_json_config.cc` | none | `pmemkv_config_from_json` | a text that fails midway owns and frees what it made | `Handles` |
| engine registry | `engine.cc`, `engine.h` | table of factories | `create_engine`, defaults of every call | a call an engine does not override answers NOT_SUPPORTED and changes nothing | `PoolOpening`, `Calls` |
| pool opening | `pmemobj_engine.h` | the pool, its root object | open, create, create-if-missing | a crash between creating the pool and publishing the root is recovered from at the next opening; the pool is closed if the constructor fails | `PoolOpening` |
| comparators | `comparator/*` | name of the comparator, in the pool | compare at reopening | a pool is never read with another order than it was written with | `PoolOpening`, `Handles`, `Vsmap` |
| iterators | `iterator.*`, and in `radix.cc`, `vsmap.cc`, `csmap.cc`, `stree.cc`, `cmap.cc`, `basic_vcmap.h` | position; a log of write ranges | `seek*`, `next`, `prev`, `key`, `read_range`, `write_range`, `commit`, `abort` | ranges are written all or not at all; a seek drops what was not committed | `RadixSession` and the module of each engine |
| transactions | `transaction.h`, `radix.cc` | a DRAM log of puts and removes | `put`, `remove`, `commit`, `abort` | commit applies all operations in their order or none | `RadixSession` |
| radix | `radix.cc`, `radix.h` | persistent radix tree | put, remove, get, range queries, iterators, transactions | ranges, counts and iterators agree with the order of keys | `RadixSession` |
| heterogeneous radix | `radix.cc`, `radix.h` | DRAM LRU cache, persistent log, radix tree, a background thread | put, remove, get, exists, ranges | section 2.1 | `HeteroRadix`, `HeteroWalk` |
| robinhood | `robinhood.cc`, `robinhood.h` | shards: open-addressing tables in persistent memory, a lock each | put, remove, get, exists, count_all, get_all | section 2.2 | `RobinHood` |
| tree3 | `tree3.cc`, `tree3.h` | persistent leaves, inner nodes in DRAM | put, remove, get, get_all, recovery | DRAM and pool agree, also after a failed call and a restart | `Tree3` |
| stree | `stree.cc`, `stree/persistent_b_tree.h` | persistent B+-tree | put, remove, get, ranges, iterators | separators name the first entries of leaves; descending, chain and bounds find every key | `BTree` |
| csmap | `csmap.cc`, `csmap.h` | concurrent skip list, a shared mutex, a mutex per node | all, ordered, concurrent; iterators hold locks | no deadlock; no reader sees a freed or half written node; each call is atomic | `Csmap` |
| cmap, vcmap, dram_vcmap | `engines/cmap.cc`, `engines/basic_vcmap.h` | concurrent hash maps of libpmemobj-cpp and TBB | put, get, exists, remove, iterators that hold an accessor | as for csmap | `HashMaps` |
| vsmap | `engines/vsmap.cc` | a `std::map` | all, ordered | queries, seeks and steps agree with the order of the comparator | `Vsmap` |
| blackhole | `engines/blackhole.cc` | none | all | answers only | `Calls` |
| strings, hashing, allocator | `polymorphic_string.h`, `fast_hash.cc`, `engines/memkind_allocator_wrapper.h` | none | conversions | none of them controls anything | - |

How they interact. The C API calls one virtual method of the engine per function and translates
what it throws. An engine on persistent memory gets its pool and root object from
`pmemobj_engine_base`, and builds its structure in the constructor ("recovery"). Ordered engines
get their comparator from the config and check it against the name in the pool. Iterators and
transactions are objects of an engine that write to its structure when they commit. Results reach
the caller through callbacks, which run in the middle of the operation.

What is hard. Two threads without a common lock (heterogeneous radix); locks of a whole structure
and of single nodes that callbacks and iterators keep (csmap, cmap, vcmap); crashes, where only what
was published or committed remains; failing allocations half way through an operation; recoveries
that crash themselves; several processes on one pool; ownership that passes through C handles; and
data structures that only go wrong after a long sequence of legal calls (robinhood, tree3, stree).
`PROJECT.json` lists forty of these hazards, each with its line and the properties that cover it, or
why none does.

## 2. What is modelled

Three kinds of modules: components; abstract specifications of what a component promises
(`KVMap`, `TxMap`, `ConcurrentMap`, `ConcurrentHashMap`), which others implement; and compositions.

| module | what | extends or instantiates |
|---|---|---|
| `OrderedCache` | the LRU cache of the heterogeneous radix engine | - |
| `HeteroRadix` | the engine: application thread, background thread, log, tree, crash and recovery | extends `OrderedCache`; implements `KVMap` |
| `HeteroWalk` | range queries over cache and tree while the background thread runs | extends `HeteroRadix` |
| `KVMap` | a crash-safe map with one writer | - |
| `RobinHood` | one shard of robinhood | - |
| `Tree3` | tree3: leaves, the volatile tree, failed transactions, recovery | extends `Walks` |
| `BTree` | the B+-tree of stree, its queries and its iterators' moves | - |
| `Csmap` | csmap: threads, locks, callbacks, iterators, crashes | implements `ConcurrentMap` |
| `ConcurrentMap` | linearizable put, get, remove; crashes keep what took effect | - |
| `HashMaps` | cmap, vcmap and dram_vcmap | implements `ConcurrentHashMap` |
| `ConcurrentHashMap` | `ConcurrentMap`, and the two exceptions of vcmap | extends `ConcurrentMap` |
| `PoolOpening` | `pmemkv_open`, `pmemkv_close`, configs, comparators' names, the root, several processes | - |
| `Walks` | the walk over records in an order that the queries of radix and vsmap share | - |
| `RadixSession` | radix: records, queries, a transaction, an iterator, their commits | extends `Walks`; implements `TxMap` |
| `Database` | the composition of the last two | extends `PoolOpening`, `RadixSession` |
| `TxMap` | atomic commits of transactions and of iterators | - |
| `Handles` | who owns what a config was given: configs, JSON texts, open, close | - |
| `Vsmap` | the records, queries and iterators of vsmap under any comparator | extends `Walks` |
| `Results` | `result<T>` holding iterators | - |
| `Calls` | the way of every call through the API: overridden or not, status, message, the application's own transaction | - |
| `Application` | the composition of the last four | extends them |
| `MC...` | the values of the constants and the symmetry sets for TLC | - |
| `...Proofs` | theorems, section 6 | - |

Definitions whose comment says "a mutant" are faulty variants of the definition below them
(a dropped guard, a swapped order). No action uses them; each shows that a property fails when the
code has that fault. `PROJECT.json` maps every definition that models code to its lines.

### 2.1 The heterogeneous radix engine

A put or a remove writes to a DRAM cache (least recently used order, key -> atomic pointer) and
appends an entry to a ring buffer in persistent memory. The background thread takes batches of
entries, applies each to the radix tree in one transaction, and exchanges the pointer in the cache
from "the entry in the log" to "the leaf in the tree" if it still names that entry. A get reads
through the pointer without a lock and looks at the pointer again afterwards. When the tree is out
of memory the background thread rolls back, collects garbage and tries again, and after a second
failure hands an exception to the application and sleeps; a remove then erases from the tree in
the application thread, to make room.

State. `log`, `released` and `durable` are persistent; `container` is the tree as a running
process sees it; `published` separates entries whose `try_produce` callback has returned.
`slotKey`, `slotVal`, `rank` are the nodes of the cache's list. `appPc...` and `bgPc...` are the
positions and locals of the two threads. `bgException`, `bgLock`, `stopped` are shared.
An entry is known by its number, which also stands for its address, its value and the leaf made of
it: that is what a pointer in the cache can be compared by.

Steps. Every access to shared memory is a step of its own: e.g. a put is `PutCall`, `PutReserve`
(the null pointer stored at `radix.cc:597-598`), `PutCheckOom`, `PutProduce`, `PutPoint` (the pointer
stored by the callback of `try_produce`), `PutPublish`. The background thread compares the pointer
(`BgApply`) and exchanges it (`BgSwap`) in two steps, as the code does, with the tree update between.
`Crash` can come anywhere; `Recover` replays a part of the log, so that a recovery can crash too.
External code, modelled from its use: `mpsc_queue` (entries are durable before the callback and
visible after it; a batch is consumed by the transaction that applies it, and handed out again
after a rollback), the radix tree (key -> leaf), epoch-based reclamation (a pointer loaded by a
get stays readable).

What must hold: a pointer into the log is to a live entry of the slot's own key
(`LogPointersLive`), a pointer to a leaf is to the leaf the key has now, with a cache
slot for every key and no failed tree update (`LeafPointersLive`; otherwise see sections 6 and 7);
whenever the process dies, reopening gives every key its last acknowledged value
(`AckedWritesSurvive`); the tree has one writer at a time (`TreeHasOneWriter`); list and map of the
cache agree (`LruListConsistent`); calls return, the log drains and closing ends (`WritesReturn`,
`LogDrains`, `CloseReturns`); and all of it is one crash-safe map (`ImplementsKVMap`).

`KVMap` allows the key being written to have any of the values it was ever given after a crash in
the middle of the write; it fixes all other keys. It is that weak because the code is
(section 7, `HeteroTornWrite`).

`HeteroWalk` adds the queries: a `merged_iterator` that walks the map of the cache and the tree
together, takes the smaller key, prefers the cache where both have it, skips tombstones, and reads
each value as get does, while the background thread moves entries from the log to the tree. The
query belongs to the one application thread, so the map of the cache does not change under it; the
pointers in it and the tree do. `WalkIsExact`: it reports exactly the keys of its range that the map
holds, once, in order, with their values; `WalksEnd`: it ends.

### 2.2 robinhood

A shard is a table of slots with open addressing. An insertion probes from the key's home slot;
when it meets an entry that is closer to its home than the carried one is to its own, it takes the
slot and carries the displaced entry on. Removal leaves a tombstone: the hash stays, with the top
bit set. The table doubles when the count reaches half of the capacity and halves after a removal
that leaves it less than a quarter full.

The shard's lock lets one put or remove run at a time, so the model has one caller. What makes it
a state machine are the iterations of `insert_helper` (`ProbeOverride`, `ProbeUnused`,
`ProbeTombstone`, `ProbeSwap`, `ProbeOn`, `ProbeGiveUp`, one for each of the cases the code
numbers), the steps of a rebuild (`RebuildAlloc`, `RebuildCopy`, `RebuildPublish`), and crashes
between them. An insertion *collects* its writes (`redo`) and reads the table without them until
`pmemobj_publish` makes all of them at once; a rebuild writes directly to an array nobody sees
yet. Keys get their hash values in the initial state, so that TLC tries all placements of homes;
the value is masked with the capacity of the moment, as in `hash()`. Lookup is the operator
`IndexLookup`, with the early end of the code's loop including its unsigned wrap-around at
distance 0 (`LookupStops`).

What must hold: a get finds the last put of every key (`GetFindsLastPut`), and calls return
(`CallsReturn`). `RobinHoodTombstones.cfg` also checks `CountIsExact` and `ProbeOrder`.

### 2.3 tree3

Records are in persistent leaves; over them is a tree in DRAM whose leaf nodes keep a copy of the
keys of their leaves (`image`) and whose inner nodes have separators. A call is one transaction and
then the update of the volatile part, hence one step of the model; the transaction can fail where
it allocates or frees (`Oom`). Two things made before the failure then stay. One is what was done in DRAM: a
leaf taken from `leaves_prealloc`, the keys a splitting leaf node has given away so far
(`PutSplitFails`), the key a leaf node has forgotten (`RemoveFails`). That is what makes `Reopens` and
the restart interesting. The other is persistent: `KVSlot::clear` sets the hash in the record's buffer to 0 before
it frees the buffer, and no snapshot covers that write. `RemoveFails` has a disjunct for each
place where the transaction can fail: at the snapshot of the slot, with nothing written, or at the free,
with the record's hash gone. The abort brings the slot's pointer back, but a record without a hash is
skipped by `get_all`, `count_all` and `Recover` and overwritten by the next put that needs the
slot, so in the model the slot is `Free`.

`Recover` rebuilds the tree by inserting the leaves in the order of their greatest keys.
`GetIsExact`: as long as the program reopens after a failed call, every key is found through the
tree; `DurableIsExact`: and is in the persistent list, once, for the next recovery. Both compare with
`contents`, what the acknowledged calls have left less the records failed removes have cleared: a
remove that fails has removed its record or has not, and which of the two is settled at once for
`get_all` and for every reopening; no other record, and no other failed call, is concerned. That a
failed remove may remove is a fault of the code (`FailedDeleteIsSafe`, section 7).

### 2.4 stree

`BTree` models `b_tree_base`: `try_emplace` descends, splits full inner nodes on the way, each in a
transaction of its own, and the leaf in the last one; between two of them the call may stop for lack
of memory or the machine, which leaves a legal but fuller tree. `erase` is one transaction that
unlinks empty leaves, deletes empty inner nodes and moves separators. A separator is a pointer to an
entry of a leaf, here the pair <<leaf, key>>. `SeparatorsAreFronts`: each separator names the entry
its right subtree begins with, and that entry is there; `FindIsExact`, `ChainIsContents`,
`UpperBoundIsExact`: descending, the chain of leaves and `upper_bound` each find exactly the keys
that were put. Queries and the moves of iterators are operators over the same tree.

### 2.5 csmap

Each call takes the shared mutex `mtx` (remove alone), then the mutex of the element: a callback
holds it shared, an assignment and an iterator hold it alone. Each acquisition, the assignment
inside its transaction, the failure and the end of the transaction are steps. A value that is being
assigned, or an element that is being erased, is `Torn` for anyone who looks; a crash restores what
the undo log has. `ElementsAreStable`: nobody sees `Torn`, and what a callback or an iterator is on
is not changed or erased by others. `NoCircularWait`: no set of threads waits in a circle, a set
of any shape. `WalkIsExact`: walks and counts from a key to the end report keys in order, each that
was there all the time, none that never was. `ImplementsConcurrentMap`: each put, get, remove and
commit of an iterator takes effect at one moment.

Callbacks are assumed to call nothing, and a thread with an open iterator to call only that
iterator: with either, a thread may wait for a lock it holds itself, which
`doc/libpmemkv.3.md.in` leaves to the application.

### 2.6 cmap, vcmap, dram_vcmap

The containers are external; the model has what the engines ask of them: `find` with an accessor that
waits for the element's lock, `insert` that returns with it held alone, `erase`. Elements are
separate from keys, because an accessor may hold one that is no longer in the map. TBB's erase
unlinks first and waits then; the one of libpmemobj-cpp waits first. In vcmap a put inserts an empty
value and assigns it, so that a remove may overtake it in between and a failed one leaves the empty
value: the two exceptions stated in `ConcurrentHashMap`. `exists` of vcmap is a get. Iterators keep
the accessor of the record they are on and may be moved crosswise, which is where a circle could
come from; seeking gives up the old element before it waits for the new one (`NoCircularWait`).
The same two assumptions about callbacks and iterators are made as for csmap.

### 2.7 A database of radix, opened, used and lost

`PoolOpening` models `pmemkv_open` from the check of the config to the published root, by several
processes that use one path, as steps between which a process may end: find the engine, check the
config, open the pool, or create it in two steps, find or make the root in one transaction, and for
ordered engines write or compare the name of the comparator. It includes the catch clauses in their
order, the application that opens a pool itself and passes an oid, and the file that is no pool
which a crash in `pmemobj_create` leaves. `PoolIsReleased`: the pool is locked only by a process that uses it, a
half made file has no root; `OrderIsKept`: an open database compares with the comparator its pool was
created with, through a live object; `FittingOpenSucceeds`: an open that fits what is there and is
not disturbed succeeds.

`RadixSession` is the open database. Puts and removes are one step, a commit is a loop in a
transaction of libpmemobj: `TxCommit`, a `TxReplay` for each operation, `TxCommitted`, with `Rollback`
or the end of the process at any point; the same for the ranges of an iterator (`IterCommit`,
`IterCopy`, `IterCommitted`). `run.undo` is what the undo log would restore. Every query of the
engine is an operator that walks as the code does, with the callback that stops it
(`QueriesAreExact`). `ImplementsTxMap`: each commit is one atomic step with the effect the manual
promises; `EditsAreCommitted`: a commit of an iterator leaves the record as the application edited
it, if its ranges do not overlap.

`Database` composes them: the process that has the pool open with the radix engine has the session.

### 2.8 The API

`Handles`: an object put into a config with a deleter passes from the application to the config, with
the config to an engine, and is deleted once: when its item is replaced, the put fails, the open
fails or the database is closed, whose members are destroyed one after the other
(`OwnedOnce`, `UsedIsAlive`). A failed open leaves a database that was open in the same handle as it
was (`DatabaseSurvivesFailedOpen`). JSON texts are sequences of members, of which one may fail.

`Vsmap`: the order is a function that ranks keys, so that a comparator may call several keys equal.
`Results`: a `result<T>` is a union whose value is alive while its status is OK; `IteratorsAreHeldOnce`
covers moves, assignments over a held value and moves out.

`Calls`: each call of each thread on each engine is either overridden or answered by the default;
`check_outside_tx`, the exceptions it may throw, the catch clauses that turn them into a status and
the message kept for `pmemkv_errormsg` per thread. The application may have a libpmemobj transaction
of its own open and abort it. `FailuresAreExplained`: after a call failed with a message, errormsg of
that thread gives that message; `AbortTakesNothingBack`: no write that was told OK is undone.

`Application` composes the four: the records of vsmap are ordered by the comparator the engine
holds, iterators come as results and are deleted before the database is closed.

## 3. The runs

Each run is `tlc -config <cfg> <module>`; `PROJECT.json` lists them.

| run | module, cfg | checks | shows |
|---|---|---|---|
| `hetero_crash` | `MCHeteroRadix`, `HeteroCrash` | `AckedWritesSurvive`, `LeafPointersLive`, `ImplementsKVMap` | two keys, a cache slot for each, five log entries, two restarts: no interleaving, crash, close or partial recovery loses, revives or misreads an acknowledged write, and pointers to leaves are right |
| `hetero_walk` | `HeteroWalk`, `HeteroWalk` | `LruListConsistent`, `WalkIsExact`, `WalksEnd` | three keys share two cache slots, up to three log entries and one restart: range queries over cache and tree report exactly the map while the background thread moves entries between the two |
| `hetero_live` | `MCHeteroRadix`, `HeteroLive` | `LogPointersLive`, `TreeHasOneWriter`, `WritesReturn`, `LogDrains`, `CloseReturns` | one cache slot, two log entries, two failed tree updates: every wait ends |
| `robinhood_table` | `MCRobinHood`, `RobinHoodTable` | `GetFindsLastPut`, `CallsReturn` | growing from 4 to 16 slots and shrinking back, one failed allocation, one crash, insertions that give up after three slots |
| `robinhood_lost_put` | `MCRobinHood`, `RobinHoodLostPut` | `GetFindsLastPut`, which fails | section 7 |
| `btree_splits` | `MCBTree`, `BTreeSplits` | `SeparatorsAreFronts`, `FindIsExact`, `ChainIsContents`, `UpperBoundIsExact` | a tree of three levels, grown and emptied, with calls abandoned between their transactions |
| `tree3_restart` | `MCTree3`, `Tree3Restart` | `GetIsExact`, `DurableIsExact` | leaf and inner splits, removals, failed calls, restarts |
| `csmap_threads` | `MCCsmap`, `CsmapThreads` | `ElementsAreStable`, `NoCircularWait`, `WalkIsExact`, `ImplementsConcurrentMap` | three threads on two keys, failed transactions, crashes |
| `hash_maps` | `MCHashMaps`, `HashMapsThreads` | `HeldIsStable`, `NoCircularWait`, `ImplementsConcurrentHashMap` | three threads on two keys, on cmap or on vcmap |
| `database_open` | `MCDatabase`, `DatabaseOpen` | `PoolIsReleased`, `OrderIsKept`, `FittingOpenSucceeds` | three processes, a config for every branch of the code, two engines, two comparators, one path |
| `database_session` | `MCDatabase`, `DatabaseSession` | `QueriesAreExact`, `EditsAreCommitted`, `ImplementsTxMap` | one process with a transaction and an iterator at once, closing, crashing and reopening |
| `application` | `MCApplication`, `Application` | `OwnedOnce`, `UsedIsAlive`, `QueriesAreExact`, `SeeksAreExact`, `IteratorsAreHeldOnce`, `FailuresAreExplained`, `DatabaseSurvivesFailedOpen`, `AbortTakesNothingBack` | configs, objects, JSON texts, four kinds of engine, iterators in results, and two threads that call any of the ten engines |

The passing runs together take every action of the next-state relations they check.
`CHECK_DEADLOCK FALSE` is set for `HeteroRadix` and `HeteroWalk`, where the system may really stop
(the database is closed for the last time, or the log bound is reached), and for `Database`, where
a torn file may be all that is left and nobody calls again.

Further instances, which are not among the runs because they ask a variant of the same question, and
which show the places of section 7:

| cfg, module | what TLC answers |
|---|---|
| `HeteroTornWrite`, `HeteroSlotReuse`, `MCHeteroRadix` | one violation each |
| `HeteroOom`, `MCHeteroRadix` | with `-continue`: a violation of each of its three invariants |
| `RobinHoodTombstones`, `MCRobinHood` | passes: eight slots, the code's limit of 150 steps, long runs of tombstones |
| `RobinHoodRemoveStatus`, `MCRobinHood` | a violation |
| `BTreeBounds`, `MCBTree` | with `-continue`: a violation of both of its invariants |
| `Tree3Failures`, `MCTree3` | with `-continue`: a violation of both of its properties |
| `CsmapGetBelow`, `MCCsmap` | a violation |
| `CallsInsideTx`, `MCApplication` | a violation |

Preconditions. The properties that fail in section 7 fail for reasons that the passing runs keep
away from by their constants, and only by these:

* `hetero_crash` has a cache slot for every key (no reuse of nodes); `hetero_crash` and `hetero_walk`
  have no failed tree update (`MaxOom = 0`).
* In `robinhood_table` the bound on puts is smaller than the number of usable slots of a table that
  holds several keys, so that a slot that was never used remains there.
* In `tree3_restart` the program reopens the database after a failed call (`Reopens`), and a failed
  remove that has cleared its record counts as done (`contents`, section 2.3).
* In `csmap_threads` the ranges that are walked have no upper end (`OpenRanges`).
* In `application` no object of pmemkv is committed inside a libpmemobj transaction of the
  application (`CommitsInside = FALSE`); doc/libpmemkv.7.md:64 says not to call engines there.

## 4. Bounds

`HeteroRadix`: `MaxLog` bounds entries produced, `MaxRestarts` crashes and closes, `MaxOom` failed
tree updates. Five entries for two keys are enough for a key to be written, overwritten, removed
and written again while older entries of it are in the log, in the batch and in the tree, with a
wrapped ring buffer (`LogSize` 3). Two restarts are enough for a crash, a recovery, a crash during
the recovery and reading the result. Two failures are enough for the retry after the first one
and the report after the second. Keys are interchangeable (`KeySymmetry`); symmetry is not used
where liveness is checked. `HeteroWalk` has three entries and one restart for three keys and two
slots: enough for one key in the tree, one in the log and one evicted; running out of memory is
outside its bounds.

`RobinHood`: `MaxPuts`, `MaxFails`, `MaxCrashes`, and `InitCapacity` 4 or 8 in place of 16 with the
same arithmetic, so that growing twice and shrinking need five puts. Hash values 1, 2, 6, 7 give
neighbouring homes, equal homes at a smaller capacity and different ones at a larger, and homes
at the end of the table. `MaxSwaps` is the code's 150 where giving up is not the subject and 3
where it is. Removes are not bounded: they only make tombstones.

`Tree3` and `BTree`: node capacities of 2 and 3 in place of 48, 4 and 32, with the code's own
halves. Five keys and five leaves of tree3 give two levels of inner nodes; ten keys and fifteen nodes of stree
give three levels. `MaxJumps` bounds how often a put of stree leaves the ascending order: without
it the insertions alone, in every order, are too many; three are enough for splits at the left end,
in the middle and at the right.

`Csmap`, `HashMaps`: three threads are the smallest circle that is not one of two, and the smallest
set in which two readers and a writer meet; two keys make the two elements of a crossed wait; two
values make an overwrite visible. Five elements of `HashMaps` are two in the map and one unlinked
and still held for each thread. Threads and values are interchangeable.

`PoolOpening`: three processes are one that uses the pool and two that race. `MCConfigs` has a config
for each branch of the code. `RadixSession`: `MaxLog` bounds operations and ranges together; two
allow two operations on one key, one each on two, and two ranges on one value; values of up to two
bytes are the smallest that ranges can overlap in. `Bounds` has keys of the map and what is below
and above. The open phases and the session are bounded apart: one run has many processes and no
records, the other one process and records.

`Application`: configs, records and calls have nothing in common but the comparator and the engine,
and `ConfigOnly`, `RecordsOnly` and `CallsOnly` keep steps of one part from being multiplied with
states of the others; the comparator passes from the first to the second. There is one config and
one database handle, one object per thread, one record in `Calls`, and one text of a message:
errormsg is either the text of this failure or an older one. `Called` lists the calls the threads
make, one of each group that the tables of overrides and exceptions tell apart. The application
deletes iterators before it closes, uses a position only after a seek, does not assign a result to
itself, and forgets objects it leaked.

## 5. Fairness

`HeteroRadix` (`FairSpec`): weak fairness of the steps of each thread inside its loop or call,
because both are operating system threads that do not block but where the model says so, and
strong fairness of `RemoveOomClear`, the acquisition of `bg_lock` by a remove: a background thread
that is woken spuriously again and again takes and releases the lock each time, and a mutex that
is free infinitely often is eventually acquired. Nothing is assumed of the application (it need
not call), of crashes, of spurious wake-ups, or of anyone reopening the pool. Whoever waits in
`put` for room is released by the background thread, which is why `WritesReturn` needs the
fairness of both.

`HeteroWalk` (`FairWalkSpec`): the same, and weak fairness of the steps of the query, a loop of the
application's thread.

`RobinHood` (`FairSpec`): weak fairness of the steps of the operation under way, which is a
sequential loop under a lock it already holds.

No liveness is claimed for csmap and the hash maps: their locks may prefer readers, and an iterator
that stays open keeps others waiting for as long as the application likes. What is claimed is that
they do not wait in a circle. The other components are sequential calls without loops that could
fail to end.

## 6. The proofs

Eight modules hold theorems; each is checked with `tlapm <module>.tla`. They hold for every value of
the constants that satisfies the named assumptions of the modules, which TLC evaluates in every run.

| module | theorems | what they state |
|---|---|---|
| `HeteroRadixProofs` | `TypeCorrect`, `LogPointersAlwaysLive`, `TreeAlwaysHasOneWriter`, `ListAlwaysConsistent` | types; no slot points to another key's entry or to space that was given back; `remove` writes to the tree directly only while the background thread is held by its exception, its transaction rolled back; list and map of the cache agree |
| `HeteroRadixProofs` | `AckedWritesAlwaysSurvive`, `PutsAreAlwaysRead`, `NullIsNeverRead`, `LeafPointersAlwaysLive`, `CrashSafeMap` (given `RoomForAll`) | what a crash leaves; what a get returns; pointers to leaves; the refinement of `KVMap` |
| `HeteroRadixProofs` | `QueriesOnlyRead`, `RangeQueriesAreExact` (given `RoomForAll`) | queries change nothing of the engine; they report exactly the map |
| `CsmapProofs` | `ElementsAreAlwaysStable`, `NeverCircularWait`, `CsmapImplementsConcurrentMap` | what a callback or iterator is on does not change under it; no circle of any length; each call is atomic |
| `CsmapProofs` | `WalksMissNothing`, `WalksAreExact` (given ranges without an upper end) | walks and counts report what was there all the time and nothing else |
| `HashMapsProofs` | `HeldIsAlwaysStable`, `HashMapsNeverWaitInCircle` | the same for the hash maps |
| `HashMapsProofs` | `HashMapsImplementConcurrentHashMap` | each call of cmap and vcmap is atomic, but for the two exceptions |
| `DatabaseProofs` | `PoolIsAlwaysReleased`, `OrderIsAlwaysKept`, `FittingOpenAlwaysSucceeds` | opening, for any number of processes, configs and names |
| `DatabaseProofs` | `DatabaseImplementsTxMap`, `EditsAreAlwaysCommitted`, `QueriesAreAlwaysExact` | commits are atomic and exact, queries count and report what is in their range, for any keys, values and logs |
| `ApplicationProofs` | `ObjectsAlwaysOwnedOnce`, `UsedIsAlwaysAlive`, `DatabaseAlwaysSurvives` | ownership, for any objects, items and JSON texts |
| `ApplicationProofs` | `FailuresAlwaysExplained`, `AbortNeverTakesBack` (given `~CommitsInside`), `IteratorsAlwaysHeldOnce` | messages, aborted transactions and iterators, for any threads, results and engines |
| `ApplicationProofs` | `SeeksAreAlwaysExact`, `QueriesAreAlwaysExact` (given `NamesNoSubconfig`) | seeks, steps and queries of vsmap, for any comparator, keys and records |
| `Tree3Proofs` | `LeavesAreKept`, `GetIsAlwaysExact`, `DurableIsAlwaysExact`, `TreeIsLinked` (given `Recovers`) | every record is found through the tree and is in the persistent leaves once; the inner nodes are within their arrays and linked both ways |
| `BTreeProofs` | `NodesAreSound`, `SeparatorsStayFronts`, `FindIsAlwaysExact` | no node outgrows its arrays; every separator is the first entry of what is to its right; descending finds exactly what was put, also after an abandoned insertion |
| `BTreeProofs` | `ChainIsAlwaysContents`, `UpperBoundIsAlwaysExact` | the chain of leaves lists the contents in order, forth and back; `upper_bound`, and what starts or stops there, is right at every border of leaves |
| `WalksProofs` | `WalkReports` | what a walk over any finite set of records in any order reports |

The arguments, each an inductive invariant stronger than what it is for:

*HeteroRadix.* `LogPointersLive` is not inductive: that no slot points to an entry of a batch when
the batch commits follows from the background thread having passed each entry and exchanged, or
found exchanged, the pointer. `IInv` adds `Consumed` (no slot points to an entry of the batch that
the thread has passed), `BgBounds` (the batch lies between the consumed and the published entries,
so that an entry whose pointer is not stored yet is never in a batch), `AtCallback` (the entry being
produced is the last one and names the application's slot), `AppHolds` (the application's slot holds
its key from reserving it to the end of the write; the code relies on one producer here) and
`Handover` (what the positions of the threads say about the exception and about the rollback).
The first three theorems need none of the preconditions of section 3.

*The list of the cache* (`ListAlwaysConsistent`, from `IInv` alone). Moving a node to the front moves back
only the nodes that were before it, so the ranks stay a row without gap or tie (`ToFrontKeepsRow`);
a key that is cached keeps its node, and one that is not gets a whole node, a new one or that of one victim.

*What survives a crash (`KInv`).* Each key has a last entry among those the background thread is done
with and a last one a slot was pointed to. `SlotsCurrent`: a slot has the last entry of its key in
between, or what the tree has. `TreeCurrent`: the tree has what the entries that were passed make of a
key, unless a later entry is pending or a put of the key is in progress. `LogCurrent`: the log
together with the tree of the last commit has what was acknowledged. `NullIsReserved`, `EntriesFit` and
`AtSwap` say where null pointers can be, which entries are of which key, and what the background thread
knows between applying an entry and exchanging the pointer. `AppKnows` is what the positions of the
application thread know of its key. A crash keeps `LogCurrent` and nothing else, which is what the
recovery needs. For `CrashSafeMap` the contents of `KVMap` are what a lookup finds while the process runs and
what a full recovery would make while it does not. A step of the background thread or of a recovery changes
neither; a step of a write changes them at its own key only; a return, a crash and a reopening are the
steps of `KVMap` because of what `SlotsCurrent` and `LogCurrent` say of all other keys.

These theorems assume `RoomForAll`: a slot of the cache for every key and no failed tree update
(`MaxOom = 0`). Neither can be dropped, since the code does not have the properties without them:
`HeteroOom` shows what failures do. With fewer slots than keys a node is reused while entries of its old
key are in the log (`HeteroSlotReuse`). There `LeafPointersLive` is false too, on a history of nine entries, which is why it is
checked in `hetero_crash`, with a slot for every key, and not in `hetero_walk`: with two slots, B, C and D are put, D is removed, put and
removed again, B is removed, D is put and removed, with gets between them that move the keys from slot
to slot. The remove entry of B then names a slot that holds the tombstone of D, takes it for its own, and
erases the leaf of B while B's present slot points to it. With eviction, `WalkIsExact` is only shown
for the histories of `hetero_walk`, of up to three entries; longer ones are not covered. The
theorems show every history without eviction, and `ListAlwaysConsistent` every history with it.

*HeteroWalk.* A query writes none of the engine's variables (`QueriesOnlyRead`), so `KInv` holds while it
runs. The application thread is the query's own, so the cache's map and the acknowledged contents
stand still, and a key that is not cached stays in the tree with its value, because the background thread moves
entries of cached keys only. `WInv` then says for both iterators which keys they have passed
(`Positions`, `Passing`), that the element the query is on is the smaller one and what it has
(`OnElement`), and that what was reported is what was passed, in order (`SeenAll`, `SeenInOrder`).

*Csmap and HashMaps.* The invariant says which locks a thread holds at which position, that a lock has
one owner or readers, and what a value is while someone assigns it. There is no circle because
positions are ranked: `mtx` is waited for before any element, an element by a thread that holds
nothing others wait for, or whose holders wait for nothing. In `HashMaps` (`IInv`: `TypeInv`,
`CallsFit`, `HoldersLock`, `LocksHeld`, `Allocated`, `ValuesGood`, `Stable`) seeking gives up the old
element before it waits. For the refinements the invariant also says what each call has fixed at its
position (`Fixed`): an element found and still linked, a value read, an effect
that has happened and not been reported. Each step then is the abstract step or a stutter.

*Walks of csmap* (`Walks`: `PlaceOf`, `SoFar`, `ReportOf`). While a walk runs it holds `mtx` shared, so no
element goes away: every key of `before` is there, and either reported or ahead of the walk's place
and not behind its end. Each step of the loop goes to the next element that is there. `WalksAreExact` assumes ranges without
an upper end, because without that the walk may leave its range (`CsmapGetBelow`); that nothing is missed
needs no assumption.

*PoolOpening.* `IInv` of `DatabaseProofs` says who holds the pool and by which right (`Holds`,
`Lends`, `Alone`), what file and root can be at each position of an opening (`NoPool`, `Layouts`,
`NewRoot`, `MadeRoot`), that the comparator pointer leads to the process that compares (`Compared`),
and that a call that fits goes on fitting while nobody else comes between (`Fitting`).

*RadixSession.* `SInv` says that in the middle of a commit the map is what the operations, or ranges,
replayed so far make of what the undo log keeps (`Replaying`, `Copying`), that an iterator on a record
is on one that is there (`Standing`) and that what the application has written into its ranges is
what they would make of the record (`Wanted`). The lemmas `AppliedOne` and `PatchedOne` connect the
loops of the code with the abstract "the last operation on a key decides": replaying one more
is what deciding among one more is. They rest on a last index existing in every set of indices
(`LastIsThere`, from the well-foundedness of the naturals).

*Queries of radix and vsmap.* `WalkReports`: the positions of the records in the order are as many as the
records and no two are equal, so each position is taken by one record, and the walk reports each once. What
remains is that each bound of a query is the first record of a set that contains, with a record, all
behind it, so that what lies between two bounds is what the manual says, and that a bound behind
the other one is the case the code tests for. For radix this needs no invariant but that keys are ordered;
for vsmap it needs `RecordsInv` (the records and positions are of the map, and the order is that of
the comparator the engine holds, which is one or none). `NamesNoSubconfig` assumes that no JSON text
gives a nested object the name "comparator": the engine would read the pointer to the nested
config as one to a comparator (`comparator.h`), which is undefined behaviour. The other texts are arbitrary.

*Tree3.* `IInv` gives every leaf a set of keys it serves, present or not: the sets are intervals that cover
all keys, and a record is in the leaf that serves its key, once. `TreeShape` says that inner nodes follow
the same division. A descent ends because a node's distance from the leaves is bounded by the number of
inner nodes. There is always a place for a new inner node, given as many places as leaves
(`RoomAssumption`): each separator is the last key of a leaf of its own (`Ends`, `FreshIs`). While a split goes
up the tree is not in this shape; `Waits` is what holds then: one node still counts as serving what it has
given to a new one that is not linked. Each level links it or halves the node above and waits there
(`Climbs`). Recovery is the same argument once per leaf, because it splits the leaves off one another from
left to right (`Dealt`). Recursive functions of numbers are shown to exist and to satisfy their equations from
the induction principle in the form of a set (`AllNumbers`).

What the leaves hold is compared with `contents`, of which a failed remove may have taken its own record
(section 2.3): the step of `RemoveFails` is shown to be either one that a restart undoes (`FailureKeeps`)
or one that erases as a remove does (`ErasesKeeps`). The theorems assume `Recovers`: no transaction
fails, or the program reopens after one has. Without it they are false: a failed split leaves the leaf
node with a part of its keys (`Tree3Failures`), and a later put of one of the others would write a second
slot. (The model does not follow a program that goes on after a failure any further than that.)

*BTree.* The pointers alone do not say that the nodes form a tree in which every key has one way down, so
`IInv` says that there are four functions of the nodes: `lo` and `hi`, the range of integers a node serves, `h`, its
height, and `up`, its parent. The children of a node divide its range (`Skeleton`), each separator is the `lo`
of the child behind it and points to the leaf that begins there (`SepsFit`), a leaf other than the first begins with its first
key (`LeafFits`), and `next` and `prev` lead to the leaf that begins where this one ends and to the one that ends where it
begins (`Chain`). The nodes that serve a key are a chain by height, so the way down to a leaf exists, is unique and is no
longer than there are nodes (`WayExists`, `WayHasAll`, `DescentEnds`). Each transaction is shown to keep this with new functions: a split gives
the new node the upper part of its sibling's range (`SplitGhosts`, `InnerStep`, `LeafStep`); a removal of a first key
moves the border between two leaves, and with it the one separator that names it, wherever on the way
that is (`Shifted`, `Repointed`); a leaf that goes leaves its range to a neighbour, and with it go the
parent or the root if they keep one child (`EraseLeaf`). Between the transactions of an insertion `Waits` says
that `todo` lists full nodes on the one way to the key's leaf below a parent that is not full: each split makes
room for the next. An abandoned insertion keeps all but `Waits`, which is why it leaves a sound tree.
For the queries a place of an iterator is given the number from which on the keys are ahead of it (`StandsAt`, `Cuts`); a step
forth goes to the next such number (`IncrementCuts`), and a scan lists what lies between two of them (`ScanIs`).

*Handles.* `OwnInv`: the config, the open database and the one being closed hold disjoint sets of
objects, which together are what was handed over and not deleted.

*Application.* `MessageInv` (a failed call has left its message in its own thread), `OuterInv` (inside
the application's transaction nothing has been told OK that its abort undoes, given
`~CommitsInside`), `HeldInv` (an iterator is in one place).

Only model-checked.

* Liveness and anything with ENABLED, which TLAPS does not prove here: `WritesReturn`, `LogDrains`,
  `CloseReturns`, `WalksEnd`, `CallsReturn`.
* `RobinHood`: `GetFindsLastPut` is false for a shard full of tombstones (section 7). It holds within the bounds
  that keep a slot unused, and that is a property of the history and not of a constant.
* `WalkIsExact` when slots are reused, for the histories of up to three entries of `hetero_walk`.

## 7. Where code and documentation disagree

`robinhood_lost_put` (`robinhood.cc:252`) is a run that TLC ends with a counterexample: tombstones are
cleared only by a rebuild, and the count that triggers one ignores them. When they have filled a
shard, an insertion wraps around to a slot it has planned to write itself, still sees the old
entry there, and returns OK without the key being in the table.

The further instances of section 3 show the following.

* `HeteroTornWrite` (`radix.cc:598`). `put` stores a null pointer in the cache before it appends to
  the log; an older, acknowledged entry of the key that the background thread meets in that window
  is skipped as outdated. Its batch commits; a crash now loses the old value and the new.
* `HeteroSlotReuse` (`radix.cc:1066`). A tombstone does not say whose it is: after a node was reused,
  the remove entry of the old key takes the new key's tombstone for its own, and the new key's
  remove entry is then skipped. The key comes back. The same confusion can erase a leaf under a pointer
  to it (section 6).
* `HeteroOom`: `NoNullRead` (`radix.cc:599`): `put` throws on the reported exception after the null
  pointer was stored, and a get of the key reads through it. `AckedRemovesSurvive` (`radix.cc:669`): a
  remove that erases directly from the tree leaves older entries of the key in the log, which a
  recovery replays. `LeafPointersLive` (`radix.cc:1078`): the pointers a failed batch has exchanged to
  leaves are not exchanged back when its transaction is rolled back and the leaves are freed.
* `RobinHoodRemoveStatus` (`robinhood.cc:439`). A remove whose shrinking fails for lack of memory
  returns NOT_FOUND, although the record was found and is gone.
* `BTreeBounds` (`persistent_b_tree.h:1519`). `lower_bound` of a key above the last entry of the leaf
  it descends to returns `end()` of the tree instead of the next leaf's first entry, which
  `get_below`, `get_equal_above`, `get_between` and the seeks inherit (`LowerBoundIsExact`).
  `operator--` at the first entry of a leaf (1347-1360) moves to the end of the leaf before and does
  not step back from there (`StepsBackAreExact`).
* `Tree3Failures`: `PresentIsFound` (`tree3.cc:322`, `tree3.cc:191`): a split or remove whose transaction fails has already changed
  the leaf nodes; keys that are in the pool are not found until the database is reopened.
  `FailedDeleteIsSafe` (`tree3.cc:537`): `remove` runs `KVSlot::clear` in a transaction that has
  snapshotted the slot, but `clear` sets hash and sizes to 0 in the record's buffer, which is not
  snapshotted, and then frees the buffer. When `delete_persistent` throws, the abort restores the slot's
  pointer and not the header: the remove did not succeed, and the record is gone, from `get_all` at
  once and from every later recovery. doc/ENGINES-experimental.md:222-225 says that tree3 "uses generic
  PMDK transactions" and needs no micro-logging "to make internal delete and split operations safe".
* `CsmapGetBelow` (`csmap.cc:195`). The two ends of a range are looked up one after the other under a
  lock that puts share. If the first is `end()` and another thread puts a key of the range, or one
  above it, before the second is looked up, the loop starts behind the element it is to stop at, and
  dereferences `end()`.
* `CallsInsideTx`. Commits of transactions and of iterators do not check for a libpmemobj transaction
  of the application, whose abort then takes back what was told OK.

Met while modelling, and not a run, since they concern wording, leaks or undefined behaviour:

* doc/ENGINES-experimental.md:119-124 gives 1000000 as the default of `cache_size` and 64000000 as
  that of `log_size`; `radix.h:395-396` has the two numbers the other way round.
* `pmemkv_errormsg` keeps an older message after calls that return INVALID_ARGUMENT early,
  NOT_SUPPORTED, OUT_OF_MEMORY of get_copy, or robinhood's UNKNOWN_ERROR (doc/libpmemkv.3.md.in:194-196);
  `FailuresAreExplained` is stated for the calls that throw.
* `put_comparator` of the C++ config does not call `init()`, unlike what the comment at
  `libpmemkv.hpp:1273` says, and loses its entry on a null config; the comparator's name is asked
  after the comparator was moved from. A put into a config that fails on a duplicate name may run
  the deleter of the object although the call failed.
* stree: a root that `erase` drops is not freed (`persistent_b_tree.h:1747-1753`).
* A moved-from `write_iterator` of the C++ API dereferences null in `get_raw_it`; `result<T>` does not
  destroy a value it was moved out of (harmless for the iterators it is used with).
* A JSON text that fails midway leaves the members before in the config.
* A pool made by radix without `dram_caching` and one made with it have the same layout name; the
  models keep the two engines on pools of their own.

## 8. What is not modelled, and why

* `valgrind/` is vendored and empty in a release build. Strings, hashing and the allocator wrapper
  control nothing; a string is one value in the models, and a hash any function. Logging and the wording of
  messages are left out.
* The data structures and locks of libpmemobj-cpp, libpmemobj, TBB, memkind and rapidjson are not in
  `src/`; they are modelled from how `src/` uses them (marked `external` in `PROJECT.json`).
* C++ wrappers that only cast and pass on, `OutputIterator`, and `result<T>` of other types than
  iterators: they keep no state between calls.
* robinhood: `count_all`, `get_all`, which lock the shards in turn and promise no common moment, and
  the shards beside each other: a key is in one shard, under that shard's lock.
* cmap, vcmap: `count_all` and `get_all`, which doc/libpmemkv.7.md:61 keeps out of concurrent use, and
  `defrag`, which moves memory inside the container.
* stree, vsmap: ranges, commit and abort of their iterators, the same log as that of radix in
  `RadixSession` (vsmap's commit has no transaction, and needs none: it is not persistent).
* Writing through a pointer of `write_range` after a later one has moved its string, overlapping
  ranges as far as `EditsAreCommitted` is concerned, and using an iterator that is nowhere: the
  manual leaves them undefined.
* csmap, cmap: transactions of an iterator's commit, and the one that erases, do not fail; put's do.
* What the properties of some hazards do not reach (the hazards' notes say so): list and map of the cache are
  one function in `HeteroRadix`, so that a `string_view` into a freed node cannot be seen; in
  `RadixSession` the position of a range is never behind the value and `pos + n` never wraps;
  `FailuresAreExplained` leaves out statuses that carry no message; `FittingOpenSucceeds` does not
  speak of two openings that race to create the pool, where the loser is told INVALID_ARGUMENT.
* Proofs about `RobinHood`, for the reason at the end of section 6.
