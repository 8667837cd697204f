----------------------------- MODULE HeteroRadix -----------------------------
(***************************************************************************)
(* The radix engine with dram_caching = 1, class heterogeneous_radix of    *)
(* src/src/engines-experimental/radix.cc: one application thread (the      *)
(* queue has one producer) and one background thread share                 *)
(*   - a DRAM cache of value pointers (module OrderedCache),               *)
(*   - a log in persistent memory, to which a put or a remove appends,     *)
(*   - a radix tree in persistent memory, to which the background thread   *)
(*     moves the entries of the log, a batch in one transaction,           *)
(*   - bg_exception_ptr, through which the background thread hands an      *)
(*     out-of-memory condition to the application, and waits on bg_cv.     *)
(*                                                                         *)
(* A log entry is known by its number, the count of entries ever produced  *)
(* when it was.  The number also stands for its address in the ring buffer,*)
(* for the value it carries, and for the leaf made from it.  log keeps all *)
(* entries; those up to `released` are no longer in the ring buffer, and   *)
(* their space may hold other data.                                        *)
(*                                                                         *)
(* The ring buffer (mpsc_queue) and the tree are libpmemobj-cpp's and are  *)
(* modelled from the way radix.cc uses them: a produced entry is in        *)
(* persistent memory before the callback of try_produce runs and is seen   *)
(* by the consumer after it; a batch and the removal of its entries from   *)
(* the log commit together; when the consuming function throws, the        *)
(* transaction is rolled back and the next try_consume_batch hands out the *)
(* same batch again.                                                       *)
(***************************************************************************)
EXTENDS OrderedCache, Sequences

CONSTANTS
    LogSize,      \* entries that fit in the ring buffer
    MaxLog,       \* bound: entries produced in a behaviour
    MaxRestarts,  \* bound: crashes and closes in a behaviour
    MaxOom        \* bound: failed tree updates in a behaviour

ASSUME LogSizeAssumption == LogSize \in Nat \ {0}
ASSUME BoundsAssumption == MaxLog \in Nat /\ MaxRestarts \in Nat /\ MaxOom \in Nat

VARIABLES
    \* persistent memory
    log,          \* sequence of [key, slot, remove]
    released,     \* entries 1..released were consumed by a committed transaction
    durable,      \* the tree as of the last commit: key -> entry number, 0 if absent
    \* the ring buffer's and the tree's state in a running process
    published,    \* entries 1..published are visible to the consumer
    container,    \* the tree as the threads read it
    \* the application thread
    appPc, appOp, appKey, appSlot, appPtr,
    \* the background thread
    bgPc, batchEnd, cur, shouldReportOom,
    \* shared by the two threads
    bgException,  \* bg_exception_ptr # nullptr
    bgLock,       \* bg_lock: "free" or held by "bg"
    stopped,
    \* bookkeeping
    acked,        \* key -> entry number of its last acknowledged put, 0 if absent
    restarts, ooms

logVars == <<log, released, published>>
treeVars == <<container, durable>>
appVars == <<appPc, appOp, appKey, appSlot, appPtr>>
bgVars == <<bgPc, batchEnd, cur, shouldReportOom>>
syncVars == <<bgException, bgLock, stopped>>
boundVars == <<restarts, ooms>>
vars == <<cacheVars, logVars, treeVars, appVars, bgVars, syncVars, acked, boundVars>>

EntryType == [key : Keys, slot : Slots, remove : BOOLEAN]

AppPcs ==
    {"idle", "reserve", "checkOom", "produce", "full", "point", "publish",
     "rmCache", "rmErase", "rmClear", "rmNotify",
     "load", "validate", "find", "fill", "return", "fault",
     "closeNotify", "join", "down"}

BgPcs ==
    {"top", "take", "apply", "swap", "commit", "report", "lock", "check", "wait",
     "sleep", "done"}

TypeMemory ==
    /\ log \in Seq(EntryType)
    /\ released \in 0..Len(log) /\ published \in released..Len(log)
    /\ durable \in [Keys -> 0..Len(log)]
    /\ container \in [Keys -> 0..Len(log)]
    /\ acked \in [Keys -> 0..Len(log)]

TypeCache ==
    /\ slotKey \in [Slots -> Keys \cup {NoKey}]
    /\ slotVal \in [Slots -> Pointers(Len(log))]
    /\ rank \in [Slots -> Nat]

TypeApp ==
    /\ appPc \in AppPcs
    /\ appOp \in {"none", "put", "remove", "get"}
    /\ appKey \in Keys \cup {NoKey}
    /\ appSlot \in Slots \cup {0}
    /\ appPtr \in Pointers(Len(log))

TypeBg ==
    /\ bgPc \in BgPcs
    /\ batchEnd \in 0..Len(log)
    /\ cur \in 0..Len(log)
    /\ bgLock \in {"free", "bg"}

TypeFlags ==
    /\ shouldReportOom \in BOOLEAN
    /\ bgException \in BOOLEAN
    /\ stopped \in BOOLEAN

TypeOK ==
    /\ TypeMemory /\ TypeCache /\ TypeApp /\ TypeBg /\ TypeFlags
    /\ restarts \in 0..MaxRestarts /\ ooms \in 0..MaxOom

----------------------------------------------------------------------------
(* Helpers *)

Running == appPc # "down"

\* heterogeneous_radix::log_contains, the eviction test of cache_put_with_evict: a pointer into
\* the log's memory range and the tombstone of an unconsumed remove pin their slot.
Evictable ==
    {s \in Slots : slotVal[s][1] # "log" /\ slotVal[s] # TombstoneVolatile}

LogFull == Len(log) - released >= LogSize

\* What the cache slot of entry i must hold for the entry to be current: `expected` of
\* consume_queue_entry.
Expected(i) == IF log[i].remove THEN TombstoneVolatile ELSE InLog(i)

\* A mutant: the slot of a removed key gets a leaf.
DesiredLeaf(i) == InLeaf(i)

\* `desired` of consume_queue_entry.
Desired(i) == IF log[i].remove THEN TombstonePersistent ELSE InLeaf(i)

\* What entry i makes of its key in the tree.
Effect(i) == IF log[i].remove THEN 0 ELSE i

\* The value a cached pointer leads to, as an entry number.
ValueAt(p) == IF p \in Tombstones THEN 0 ELSE p[2]

\* What get would find for k now: the cache first, the tree on a miss.
Lookup(k) == IF Cached(k) THEN ValueAt(slotVal[SlotOf(k)]) ELSE container[k]

\* remove's own test of presence (a null pointer counts as present).
Found(k) ==
    IF Cached(k) THEN slotVal[SlotOf(k)] \notin Tombstones ELSE container[k] # 0

\* A mutant: the first entry of k in place of the last.
FirstOf(k, from, to) ==
    {i \in from..to : log[i].key = k /\ \A j \in from..i - 1 : log[j].key # k}

\* The last entry of k among from..to, as a set of at most one number.
LastOf(k, from, to) ==
    {i \in from..to : log[i].key = k /\ \A j \in i + 1..to : log[j].key # k}

\* The tree that the entries released+1..to make of tree t when all of them are applied in order
\* (consume_queue_entry with dram_is_valid = false).
Replayed(t, to) ==
    [k \in Keys |->
        LET last == LastOf(k, released + 1, to)
        IN  IF last = {} THEN t[k] ELSE Effect(CHOOSE i \in last : TRUE)]

\* The contents a reopening of the pool as it is now would recover.
Recovered == Replayed(durable, Len(log))

\* A write of k is under way, or was cut short by a crash whose recovery has not finished.
Writing(k) == appOp \in {"put", "remove"} /\ appKey = k

----------------------------------------------------------------------------
(* The application thread: put and remove *)

AppGoto(pc) == appPc' = pc /\ UNCHANGED <<appOp, appKey, appSlot, appPtr>>

\* The call returns to the application.
AppReturn ==
    /\ appPc' = "idle" /\ appOp' = "none" /\ appKey' = NoKey
    /\ appSlot' = 0 /\ appPtr' = Null

AppCall(op, k, pc) ==
    /\ appPc = "idle"
    /\ appPc' = pc /\ appOp' = op /\ appKey' = k
    /\ UNCHANGED <<appSlot, appPtr>>

PutCall(k) ==
    /\ Len(log) < MaxLog
    /\ AppCall("put", k, "reserve")
    /\ UNCHANGED <<cacheVars, logVars, treeVars, bgVars, syncVars, acked, boundVars>>

\* remove of a key that is found goes on as a put of a tombstone; of one that is not found it
\* returns NOT_FOUND and changes nothing.
RemoveCall(k) ==
    /\ Len(log) < MaxLog
    /\ Found(k)
    /\ AppCall("remove", k, "reserve")
    /\ UNCHANGED <<cacheVars, logVars, treeVars, bgVars, syncVars, acked, boundVars>>

\* cache_put_with_evict(key, nullptr): from here to PutPoint the slot of the key holds a null
\* pointer.
PutReserve ==
    /\ appPc = "reserve"
    /\ CachePut(appKey, Null, Evictable)
    /\ appSlot' = PutSlot(appKey, Evictable)
    /\ appPc' = "checkOom"
    /\ UNCHANGED <<appOp, appKey, appPtr>>
    /\ UNCHANGED <<logVars, treeVars, bgVars, syncVars, acked, boundVars>>

\* handle_oom_from_bg throws: put returns OUT_OF_MEMORY, remove goes on in its catch block.
OutOfMemory ==
    IF appOp = "remove" THEN AppGoto("rmCache") ELSE AppReturn

\* handle_oom_from_bg after the cache was written to; without an exception the loop ends when
\* the cache had a slot to give.
PutCheckOom ==
    /\ appPc = "checkOom"
    /\ IF bgException THEN OutOfMemory
       ELSE AppGoto(IF appSlot = 0 THEN "reserve" ELSE "produce")
    /\ UNCHANGED <<cacheVars, logVars, treeVars, bgVars, syncVars, acked, boundVars>>

\* try_produce acquires room in the ring buffer and writes the entry to persistent memory, or
\* finds no room.
PutProduce ==
    /\ appPc = "produce"
    /\ IF LogFull
       THEN AppGoto("full") /\ UNCHANGED log
       ELSE /\ log' = Append(log, [key |-> appKey, slot |-> appSlot,
                                   remove |-> appOp = "remove"])
            /\ AppGoto("point")
    /\ UNCHANGED <<cacheVars, released, published, treeVars, bgVars, syncVars, acked, boundVars>>

\* Mutants: the loop does not look for an exception; a full log counts as one.
PutFullDeaf ==
    /\ appPc = "full"
    /\ AppGoto("produce")
    /\ UNCHANGED <<cacheVars, logVars, treeVars, bgVars, syncVars, acked, boundVars>>

PutFullThrows ==
    /\ appPc = "full"
    /\ OutOfMemory
    /\ UNCHANGED <<cacheVars, logVars, treeVars, bgVars, syncVars, acked, boundVars>>

PutFull ==
    /\ appPc = "full"
    /\ IF bgException THEN OutOfMemory ELSE AppGoto("produce")
    /\ UNCHANGED <<cacheVars, logVars, treeVars, bgVars, syncVars, acked, boundVars>>

\* The callback of try_produce: the slot now points to the value in the log.
PutPoint ==
    /\ appPc = "point"
    /\ slotVal' = [slotVal EXCEPT ![appSlot] = Expected(Len(log))]
    /\ AppGoto("publish")
    /\ UNCHANGED <<slotKey, rank, logVars, treeVars, bgVars, syncVars, acked, boundVars>>

\* try_produce hands the entry to the consumer, and put returns OK.
PutPublish ==
    /\ appPc = "publish"
    /\ published' = Len(log)
    /\ acked' = [acked EXCEPT ![appKey] = Effect(Len(log))]
    /\ AppReturn
    /\ UNCHANGED <<cacheVars, log, released, treeVars, bgVars, syncVars, boundVars>>

----------------------------------------------------------------------------
(* The application thread: the catch block of remove *)

\* cache->put with an evict callback that finds no victim.
RemoveOomCache ==
    /\ appPc = "rmCache"
    /\ CachePut(appKey, TombstonePersistent, {})
    /\ AppGoto("rmErase")
    /\ UNCHANGED <<logVars, treeVars, bgVars, syncVars, acked, boundVars>>

\* container->erase and garbage_collect_force, past the log.
RemoveOomErase ==
    /\ appPc = "rmErase"
    /\ container' = [container EXCEPT ![appKey] = 0]
    /\ durable' = [durable EXCEPT ![appKey] = 0]
    /\ AppGoto("rmClear")
    /\ UNCHANGED <<cacheVars, logVars, bgVars, syncVars, acked, boundVars>>

\* bg_exception_ptr is cleared under bg_lock.
RemoveOomClear ==
    /\ appPc = "rmClear"
    /\ bgLock = "free"
    /\ bgException' = FALSE
    /\ AppGoto("rmNotify")
    /\ UNCHANGED <<cacheVars, logVars, treeVars, bgVars, bgLock, stopped, acked, boundVars>>

\* bg_cv.notify_one(): a background thread that sleeps goes on to take bg_lock.
NotifyBg ==
    /\ bgPc' = IF bgPc = "sleep" THEN "lock" ELSE bgPc
    /\ UNCHANGED <<batchEnd, cur, shouldReportOom>>

RemoveOomNotify ==
    /\ appPc = "rmNotify"
    /\ NotifyBg
    /\ acked' = [acked EXCEPT ![appKey] = 0]
    /\ AppReturn
    /\ UNCHANGED <<cacheVars, logVars, treeVars, syncVars, boundVars>>

----------------------------------------------------------------------------
(* The application thread: get (exists is get without a use of the value) *)

GetCall(k) ==
    /\ appPc = "idle"
    /\ appOp' = "get" /\ appKey' = k
    /\ IF Cached(k)
       THEN appPc' = "load" /\ appSlot' = SlotOf(k) /\ CachePromote(k)
       ELSE appPc' = "find" /\ appSlot' = 0 /\ UNCHANGED cacheVars
    /\ UNCHANGED <<appPtr, logVars, treeVars, bgVars, syncVars, acked, boundVars>>

\* v->load(): a pointer into the log must be validated after the value was copied; reading
\* through a null pointer ends the process.
GetLoad ==
    /\ appPc = "load"
    /\ appPtr' = slotVal[appSlot]
    /\ appPc' = IF slotVal[appSlot] = Null THEN "fault"
                ELSE IF slotVal[appSlot][1] = "log" THEN "validate" ELSE "return"
    /\ UNCHANGED <<appOp, appKey, appSlot>>
    /\ UNCHANGED <<cacheVars, logVars, treeVars, bgVars, syncVars, acked, boundVars>>

\* log_read_optimistically: the copy is good if the slot still holds the pointer.
GetValidate ==
    /\ appPc = "validate"
    /\ AppGoto(IF slotVal[appSlot] = appPtr THEN "return" ELSE "load")
    /\ UNCHANGED <<cacheVars, logVars, treeVars, bgVars, syncVars, acked, boundVars>>

\* A cache miss: container->find(key).
GetFind ==
    /\ appPc = "find"
    /\ IF container[appKey] = 0
       THEN appPtr' = Null /\ appPc' = "return"
       ELSE appPtr' = InLeaf(container[appKey]) /\ appPc' = "fill"
    /\ UNCHANGED <<appOp, appKey, appSlot>>
    /\ UNCHANGED <<cacheVars, logVars, treeVars, bgVars, syncVars, acked, boundVars>>

\* cache_put_with_evict(key, &it->value()); with nothing to evict the key stays out of the cache.
GetFill ==
    /\ appPc = "fill"
    /\ CachePut(appKey, appPtr, Evictable)
    /\ AppGoto("return")
    /\ UNCHANGED <<logVars, treeVars, bgVars, syncVars, acked, boundVars>>

GetReturn ==
    /\ appPc = "return"
    /\ AppReturn
    /\ UNCHANGED <<cacheVars, logVars, treeVars, bgVars, syncVars, acked, boundVars>>

----------------------------------------------------------------------------
(* The background thread: bg_work *)

BgGoto(pc) == bgPc' = pc /\ UNCHANGED <<batchEnd, cur, shouldReportOom>>

\* The head of the loop: stopped is looked at before each batch, and only there.
BgTop ==
    /\ bgPc = "top"
    /\ BgGoto(IF stopped THEN "done" ELSE "take")
    /\ UNCHANGED <<cacheVars, logVars, treeVars, appVars, syncVars, acked, boundVars>>

(***************************************************************************)
(* try_consume_batch: a batch that was rolled back is taken again;         *)
(* otherwise the batch is some of the published entries from the oldest    *)
(* on, those before the end of the buffer when they wrap around.  With no  *)
(* entry, the thread collects garbage and goes round.                      *)
(***************************************************************************)
BgTake ==
    /\ bgPc = "take"
    /\ \/ /\ batchEnd > released
          /\ bgPc' = "apply" /\ cur' = released + 1
          /\ UNCHANGED batchEnd
       \/ /\ batchEnd = released
          /\ batchEnd' \in released + 1..published
          /\ bgPc' = "apply" /\ cur' = released + 1
       \/ /\ batchEnd = released /\ released = published
          /\ bgPc' = "top"
          /\ UNCHANGED <<batchEnd, cur>>
    /\ UNCHANGED shouldReportOom
    /\ UNCHANGED <<cacheVars, logVars, treeVars, appVars, syncVars, acked, boundVars>>

AfterEntry == IF cur = batchEnd THEN "commit" ELSE "apply"

NextEntry == bgPc' = AfterEntry /\ cur' = IF cur = batchEnd THEN 0 ELSE cur + 1

\* consume_queue_entry(entry, true): an entry its slot no longer points to is skipped, another
\* is applied to the tree.
BgApply ==
    /\ bgPc = "apply"
    /\ IF slotVal[log[cur].slot] # Expected(cur)
       THEN NextEntry /\ UNCHANGED container
       ELSE /\ container' = [container EXCEPT ![log[cur].key] = Effect(cur)]
            /\ bgPc' = "swap"
            /\ UNCHANGED cur
    /\ UNCHANGED <<batchEnd, shouldReportOom>>
    /\ UNCHANGED <<cacheVars, logVars, durable, appVars, syncVars, acked, boundVars>>

\* Mutants: a plain store in place of the compare and exchange; no store at all.
BgSwapStore ==
    /\ bgPc = "swap"
    /\ slotVal' = [slotVal EXCEPT ![log[cur].slot] = Desired(cur)]
    /\ NextEntry
    /\ UNCHANGED <<batchEnd, shouldReportOom>>
    /\ UNCHANGED <<slotKey, rank, logVars, treeVars, appVars, syncVars, acked, boundVars>>

\* compare_exchange_strong(expected, desired) on the slot.
BgSwap ==
    /\ bgPc = "swap"
    /\ slotVal' = IF slotVal[log[cur].slot] = Expected(cur)
                  THEN [slotVal EXCEPT ![log[cur].slot] = Desired(cur)]
                  ELSE slotVal
    /\ NextEntry
    /\ UNCHANGED <<batchEnd, shouldReportOom>>
    /\ UNCHANGED <<slotKey, rank, logVars, treeVars, appVars, syncVars, acked, boundVars>>

\* A mutant: the ring buffer is not told that the batch was consumed.
BgCommitKeepsLog ==
    /\ bgPc = "commit"
    /\ durable' = container
    /\ shouldReportOom' = FALSE
    /\ bgPc' = "top"
    /\ UNCHANGED <<batchEnd, cur>>
    /\ UNCHANGED <<cacheVars, logVars, container, appVars, syncVars, acked, boundVars>>

\* The transaction of the batch commits, and its space in the ring buffer is free again.
BgCommit ==
    /\ bgPc = "commit"
    /\ durable' = container
    /\ released' = batchEnd
    /\ shouldReportOom' = FALSE
    /\ bgPc' = "top"
    /\ UNCHANGED <<batchEnd, cur>>
    /\ UNCHANGED <<cacheVars, log, published, container, appVars, syncVars, acked, boundVars>>

\* A mutant: the batch whose transaction failed is not taken again.
BgOomDrop ==
    /\ bgPc = "apply"
    /\ slotVal[log[cur].slot] = Expected(cur)
    /\ ooms < MaxOom
    /\ ooms' = ooms + 1
    /\ container' = durable
    /\ released' = batchEnd
    /\ bgPc' \in IF shouldReportOom THEN {"report"} ELSE {"top", "report"}
    /\ shouldReportOom' = TRUE
    /\ cur' = 0
    /\ UNCHANGED batchEnd
    /\ UNCHANGED <<cacheVars, log, published, durable, appVars, syncVars, acked, restarts>>

(***************************************************************************)
(* The update of the tree fails: the transaction is rolled back.  The      *)
(* first time the thread forces a garbage collection and tries again; the  *)
(* second time, or when the collection fails too, it reports to the user.  *)
(***************************************************************************)
BgOom ==
    /\ bgPc = "apply"
    /\ slotVal[log[cur].slot] = Expected(cur)
    /\ ooms < MaxOom
    /\ ooms' = ooms + 1
    /\ container' = durable
    /\ bgPc' \in IF shouldReportOom THEN {"report"} ELSE {"top", "report"}
    /\ shouldReportOom' = TRUE
    /\ cur' = 0
    /\ UNCHANGED batchEnd
    /\ UNCHANGED <<cacheVars, logVars, durable, appVars, syncVars, acked, restarts>>

BgReport ==
    /\ bgPc = "report"
    /\ bgException' = TRUE
    /\ BgGoto("lock")
    /\ UNCHANGED <<cacheVars, logVars, treeVars, appVars, bgLock, stopped, acked, boundVars>>

BgLock ==
    /\ bgPc = "lock"
    /\ bgLock = "free"
    /\ bgLock' = "bg"
    /\ BgGoto("check")
    /\ UNCHANGED <<cacheVars, logVars, treeVars, appVars, bgException, stopped, acked, boundVars>>

\* The predicate of bg_cv.wait, looked at with bg_lock held.
BgCheck ==
    /\ bgPc = "check"
    /\ IF bgException /\ ~stopped
       THEN BgGoto("wait") /\ UNCHANGED bgLock
       ELSE /\ bgLock' = "free"
            /\ bgPc' = IF stopped THEN "done" ELSE "top"
            /\ shouldReportOom' = FALSE
            /\ UNCHANGED <<batchEnd, cur>>
    /\ UNCHANGED <<cacheVars, logVars, treeVars, appVars, bgException, stopped, acked, boundVars>>

\* wait releases bg_lock and sleeps in one step.
BgWait ==
    /\ bgPc = "wait"
    /\ bgLock' = "free"
    /\ BgGoto("sleep")
    /\ UNCHANGED <<cacheVars, logVars, treeVars, appVars, bgException, stopped, acked, boundVars>>

\* A condition variable may wake without a notification.
BgSpuriousWake ==
    /\ bgPc = "sleep"
    /\ BgGoto("lock")
    /\ UNCHANGED <<cacheVars, logVars, treeVars, appVars, syncVars, acked, boundVars>>

----------------------------------------------------------------------------
(* Close, crash and reopening *)

\* A mutant: stopped is set without taking bg_lock.
CloseStopUnlocked ==
    /\ appPc = "idle"
    /\ restarts < MaxRestarts
    /\ stopped' = TRUE
    /\ AppGoto("closeNotify")
    /\ UNCHANGED <<cacheVars, logVars, treeVars, bgVars, bgException, bgLock, acked, boundVars>>

\* ~heterogeneous_radix: stopped is set under bg_lock, ...
CloseStop ==
    /\ appPc = "idle"
    /\ restarts < MaxRestarts
    /\ bgLock = "free"
    /\ stopped' = TRUE
    /\ AppGoto("closeNotify")
    /\ UNCHANGED <<cacheVars, logVars, treeVars, bgVars, bgException, bgLock, acked, boundVars>>

\* ... then the background thread is notified ...
CloseNotify ==
    /\ appPc = "closeNotify"
    /\ NotifyBg
    /\ AppGoto("join")
    /\ UNCHANGED <<cacheVars, logVars, treeVars, syncVars, acked, boundVars>>

\* What is left when the process is gone: the log, and the tree of the last commit.
ProcessEnds ==
    /\ CacheDrop
    /\ published' = Len(log)
    /\ container' = durable
    /\ appPc' = "down" /\ appSlot' = 0 /\ appPtr' = Null
    /\ IF appOp \in {"put", "remove"}
       THEN UNCHANGED <<appOp, appKey>>
       ELSE appOp' = "none" /\ appKey' = NoKey
    /\ bgPc' = "done" /\ batchEnd' = released /\ cur' = 0 /\ shouldReportOom' = FALSE
    /\ bgException' = FALSE /\ bgLock' = "free" /\ stopped' = FALSE
    /\ restarts' = restarts + 1
    /\ UNCHANGED <<log, released, durable, acked, ooms>>

\* ... and joined; what is still in the log stays there.
CloseJoin ==
    /\ appPc = "join"
    /\ bgPc = "done"
    /\ ProcessEnds

Crash ==
    /\ Running
    /\ restarts < MaxRestarts
    /\ ProcessEnds

\* The constructor consumes what the log holds, a batch in one transaction, without looking at
\* the slots the entries name.
Recover ==
    /\ appPc = "down"
    /\ \E to \in released + 1..Len(log) :
        /\ durable' = Replayed(durable, to)
        /\ container' = Replayed(durable, to)
        /\ released' = to
        /\ batchEnd' = to
    /\ UNCHANGED <<cacheVars, log, published, appVars, bgPc, cur, shouldReportOom>>
    /\ UNCHANGED <<syncVars, acked, boundVars>>

\* The engine is open.  The write the crash cut short, if any, counts as what was recovered.
Open ==
    /\ appPc = "down"
    /\ released = Len(log)
    /\ bgPc' = "top"
    /\ acked' = [k \in Keys |-> IF Writing(k) THEN durable[k] ELSE acked[k]]
    /\ AppReturn
    /\ UNCHANGED <<cacheVars, logVars, treeVars, batchEnd, cur, shouldReportOom>>
    /\ UNCHANGED <<syncVars, boundVars>>

----------------------------------------------------------------------------
Init ==
    /\ CacheInit
    /\ log = <<>> /\ released = 0 /\ published = 0
    /\ durable = [k \in Keys |-> 0] /\ container = [k \in Keys |-> 0]
    /\ appPc = "idle" /\ appOp = "none" /\ appKey = NoKey /\ appSlot = 0 /\ appPtr = Null
    /\ bgPc = "top" /\ batchEnd = 0 /\ cur = 0 /\ shouldReportOom = FALSE
    /\ bgException = FALSE /\ bgLock = "free" /\ stopped = FALSE
    /\ acked = [k \in Keys |-> 0]
    /\ restarts = 0 /\ ooms = 0

AppCalls ==
    \/ \E k \in Keys : PutCall(k) \/ RemoveCall(k) \/ GetCall(k)
    \/ CloseStop

\* What the application thread does inside a call.
AppStep ==
    \/ PutReserve \/ PutCheckOom \/ PutProduce \/ PutFull \/ PutPoint \/ PutPublish
    \/ RemoveOomCache \/ RemoveOomErase \/ RemoveOomClear \/ RemoveOomNotify
    \/ GetLoad \/ GetValidate \/ GetFind \/ GetFill \/ GetReturn
    \/ CloseNotify \/ CloseJoin

BgStep ==
    \/ BgTop \/ BgTake \/ BgApply \/ BgSwap \/ BgCommit
    \/ BgOom \/ BgReport \/ BgLock \/ BgCheck \/ BgWait

Next ==
    \/ AppCalls \/ AppStep \/ BgStep \/ BgSpuriousWake
    \/ Crash \/ Recover \/ Open

Spec == Init /\ [][Next]_vars

\* Both threads run, and the application gets bg_lock if the background thread, woken again and
\* again without a reason, keeps releasing it.  Nothing makes the application call, the process
\* crash, a condition variable wake by itself, or anyone reopen the pool.
FairSpec ==
    /\ Spec
    /\ WF_vars(AppStep) /\ WF_vars(BgStep)
    /\ SF_vars(RemoveOomClear)

----------------------------------------------------------------------------
(* Properties *)

\* A slot that points into the log points to an entry of its own key whose space in the ring
\* buffer was not given back: try_read_value never copies from reused space, and consuming an
\* entry always leaves the slot with a leaf or a tombstone.
LogPointersLive ==
    \A s \in Slots : \A i \in 1..Len(log) :
        slotVal[s] = InLog(i) =>
            /\ i > released
            /\ log[i] = [key |-> slotKey[s], slot |-> s, remove |-> FALSE]

\* With a cache slot for every key and no failed update of the tree, a slot that points to a leaf
\* points to the leaf its key has in the tree now ("cache entry points to data in pmem container",
\* try_read_value).  Without either it may not: README, sections 6 and 7.
LeafPointersLive ==
    \A s \in Slots : \A i \in 1..Len(log) :
        slotVal[s] = InLeaf(i) => container[slotKey[s]] = i

\* Whenever the process dies, reopening the pool gives every key whose last finished operation
\* was a put the value of that put, whichever of the log, the batch in progress and the tree
\* holds it, unless another write of the key was under way.
AckedPutsSurvive ==
    \A k \in Keys : acked[k] # 0 /\ ~Writing(k) => Recovered[k] = acked[k]

\* The same for removed keys: they stay removed.
AckedRemovesSurvive ==
    \A k \in Keys : acked[k] = 0 /\ ~Writing(k) => Recovered[k] = 0

\* No crash, close or partial recovery loses an acknowledged put or brings back a removed key.
AckedWritesSurvive == AckedPutsSurvive /\ AckedRemovesSurvive

\* Between calls, and for every key not being written, a get would find the last put value,
\* however far the background thread got with the key's entries.
PutsAreRead ==
    Running => \A k \in Keys : acked[k] # 0 /\ ~Writing(k) => Lookup(k) = acked[k]

\* remove touches the tree from the application thread only while the background thread, which
\* is the tree's only writer otherwise, is held by an exception it reported, with its
\* transaction rolled back.
TreeHasOneWriter ==
    appPc \in {"rmCache", "rmErase", "rmClear"} =>
        /\ bgException
        /\ bgPc \in {"lock", "check", "wait", "sleep"}
        /\ container = durable

\* A put or a remove returns: the room it waits for in the cache or the log is made by the
\* background thread, or the thread's out-of-memory report ends the call.
WritesReturn ==
    appPc \in {"reserve", "checkOom", "produce", "full"} ~> appPc \in {"idle", "down"}

\* A produced entry reaches the tree, or the background thread's failure is there for the
\* application to see.
LogDrains ==
    \A n \in 1..MaxLog : Len(log) >= n ~> released >= n \/ bgException \/ ~Running \/ stopped

\* A crash in the middle of a write leaves its key with the value it had or with the new one.
WritesAreAtomic ==
    \A k \in Keys :
        \/ Recovered[k] = acked[k]
        \/ /\ Writing(k) /\ log # <<>>
           /\ log[Len(log)].key = k
           /\ Recovered[k] = Effect(Len(log))

\* A get never reads through a null pointer.
NoNullRead == appPc # "fault"

\* Closing the engine ends, whatever state the background thread is in.
CloseReturns == stopped ~> appPc = "down"

----------------------------------------------------------------------------
(* The engine implements the map of module KVMap.  The contents are what a *)
(* get would find in a running process, and what a reopening would recover *)
(* when there is none, so no step of the background thread, no crash and   *)
(* no part of a recovery may change them, but for the key being written.   *)

MapContents == [k \in Keys |-> IF Running THEN Lookup(k) ELSE Recovered[k]]

Store == INSTANCE KVMap WITH
    contents <- MapContents,
    version <- Len(log),
    up <- Running,
    op <- appOp,
    key <- appKey,
    answer <- IF appPc \in {"fill", "return"} THEN ValueAt(appPtr) ELSE -1

\* With a cache slot for every key and no failed tree update, the cache, the log and the tree
\* together behave as one crash-safe map.
ImplementsKVMap == Store!Spec
=============================================================================
