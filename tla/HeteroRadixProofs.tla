-------------------------- MODULE HeteroRadixProofs --------------------------
(***************************************************************************)
(* Theorems about HeteroRadix, for every number of keys, cache slots and   *)
(* log entries.  The first ones (IInv, the list of the cache) hold with    *)
(* crashes and with failed tree updates; the later ones (KInv: what is     *)
(* read, what survives a crash, the refinement of KVMap) hold with crashes *)
(* if there is room for all keys in the cache and in memory (RoomForAll).  *)
(* The last part is about HeteroWalk, the range queries: for any number of *)
(* keys and log entries and any number of crashes and restarts, with a     *)
(* cache slot for every key and no failed tree update.                     *)
(***************************************************************************)
EXTENDS HeteroWalk, FiniteSetTheorems, SequenceTheorems, TLAPS

WF == INSTANCE WellFoundedInduction

(***************************************************************************)
(* The inductive invariant.  LogPointersLive alone is not inductive: that  *)
(* a slot holds no pointer to entries of a batch when the batch commits    *)
(* follows from the background thread having passed each of them           *)
(* (Consumed), from entries being handed to it only after the callback of  *)
(* try_produce ran (BgBounds, AtCallback), and from the application's slot *)
(* being the one of its key throughout a write (AppHolds).                 *)
(***************************************************************************)

WritePcs == {"reserve", "checkOom", "produce", "full", "point", "publish"}
RemoveOomPcs == {"rmCache", "rmErase", "rmClear"}
GetPcs == {"load", "validate", "find", "fill", "return"}

\* What the application thread knows at each point of a call.
AppHolds ==
    /\ appPc \in WritePcs \cup RemoveOomPcs \cup GetPcs \cup {"rmNotify", "fault"} =>
           appKey \in Keys
    /\ appPc \in WritePcs => appOp \in {"put", "remove"}
    /\ appPc \in {"produce", "full", "point", "publish"} =>
           appSlot \in Slots /\ slotKey[appSlot] = appKey
    /\ appPc = "checkOom" /\ appSlot # 0 => slotKey[appSlot] = appKey
    /\ appPc \in {"load", "validate"} => appSlot \in Slots
    /\ appPc = "fill" => appPtr \in {InLeaf(i) : i \in 1..Len(log)}
    /\ appPc = "down" =>
           bgPc = "done" /\ published = Len(log) /\ \A s \in Slots : slotVal[s] = Null
    /\ appPc \in {"closeNotify", "join"} => restarts < MaxRestarts

\* The entry the callback of try_produce is called for is in the log and not yet published.
AtCallback ==
    appPc = "point" =>
        /\ published < Len(log)
        /\ log[Len(log)] = [key |-> appKey, slot |-> appSlot, remove |-> appOp = "remove"]

BgBounds ==
    /\ released <= batchEnd /\ batchEnd <= published
    /\ bgPc \in {"apply", "swap"} => released < cur /\ cur <= batchEnd

\* No slot points to an entry of the batch that the background thread has passed.
Consumed ==
    \A s \in Slots : \A i \in 1..Len(log) :
        slotVal[s] = InLog(i) =>
            /\ bgPc \in {"apply", "swap"} => i >= cur
            /\ bgPc = "commit" => i > batchEnd

\* The hand-over of an exception, and what the threads' positions say of each other.
Handover ==
    /\ appPc \in RemoveOomPcs => bgException
    /\ appPc = "down" => ~bgException
    /\ bgException => bgPc \in {"lock", "check", "wait", "sleep"} \/ stopped
    /\ stopped => appPc \in {"closeNotify", "join"}
    /\ bgPc \notin {"apply", "swap", "commit"} => container = durable

IInv ==
    /\ TypeOK
    /\ AppHolds
    /\ AtCallback
    /\ BgBounds
    /\ LogPointersLive
    /\ Consumed
    /\ Handover

----------------------------------------------------------------------------
(* Pointers *)

\* Pointers into the log are unlike all others, and tell their entries apart.
LEMMA PointerKinds ==
    /\ \A i, j : InLog(i) = InLog(j) => i = j
    /\ \A i, j : InLog(i) # InLeaf(j)
    /\ \A i : InLog(i) # Null /\ InLog(i) # TombstoneVolatile /\ InLog(i) # TombstonePersistent
BY DEF InLog, InLeaf, Null, TombstoneVolatile, TombstonePersistent

\* What is a pointer, and that it stays one when the log grows.
LEMMA PointerTypes ==
    ASSUME NEW n \in Nat
    PROVE  /\ Null \in Pointers(n) /\ Tombstones \subseteq Pointers(n)
           /\ TombstoneVolatile \in Pointers(n) /\ TombstonePersistent \in Pointers(n)
           /\ \A i \in 1..n : InLog(i) \in Pointers(n) /\ InLeaf(i) \in Pointers(n)
           /\ Pointers(n) \subseteq Pointers(n + 1)
BY DEF Pointers, Tombstones

\* PutSlot names a slot, or none.
LEMMA PutSlotType ==
    ASSUME NEW k \in Keys, NEW E \in SUBSET Slots
    PROVE  PutSlot(k, E) \in Slots \cup {0}
<1>1. CASE Cached(k)
    BY <1>1 DEF PutSlot, Cached, SlotOf
<1>2. CASE ~Cached(k) /\ FreeSlots # {}
    <2>1. PICK s \in FreeSlots : s = CHOOSE t \in FreeSlots : TRUE
        BY <1>2
    <2> QED
        BY <1>2, <2>1 DEF PutSlot, FreeSlots
<1>3. CASE ~Cached(k) /\ FreeSlots = {} /\ Victims(E) # {}
    <2>1. PICK s \in Victims(E) : s = CHOOSE t \in Victims(E) : TRUE
        BY <1>3
    <2> QED
        BY <1>3, <2>1 DEF PutSlot, Victims
<1> QED
    BY <1>1, <1>2, <1>3 DEF PutSlot

\* 0 is not a slot, so PutSlot = 0 is nullptr and nothing else.
LEMMA ZeroIsNoSlot == 0 \notin Slots /\ Slots \subseteq 0..CacheSize
BY CacheSizeAssumption DEF Slots

\* Ranks stay natural numbers.
LEMMA ToFrontType ==
    ASSUME TypeCache, NEW s \in Slots
    PROVE  ToFront(s) \in [Slots -> Nat]
BY DEF TypeCache, ToFront

\* Recovery makes a tree of entries of the log.
LEMMA ReplayedType ==
    ASSUME TypeMemory, NEW to \in 0..Len(log)
    PROVE  Replayed(durable, to) \in [Keys -> 0..Len(log)]
<1>1. SUFFICES ASSUME NEW k \in Keys
               PROVE  Replayed(durable, to)[k] \in 0..Len(log)
    BY DEF Replayed
<1>2. CASE LastOf(k, released + 1, to) = {}
    BY <1>2 DEF Replayed, TypeMemory
<1>3. CASE LastOf(k, released + 1, to) # {}
    <2>1. PICK i \in LastOf(k, released + 1, to) : i = CHOOSE j \in LastOf(k, released + 1, to) : TRUE
        BY <1>3
    <2>2. i \in 0..Len(log)
        BY DEF LastOf, TypeMemory
    <2>3. Replayed(durable, to)[k] = Effect(i)
        BY <1>3, <2>1 DEF Replayed
    <2> QED
        BY <2>2, <2>3 DEF Effect
<1> QED
    BY <1>2, <1>3

\* What ordered_cache::put writes has the types of the cache.
LEMMA CachePutType ==
    ASSUME TypeCache, NEW k \in Keys, NEW v \in Pointers(Len(log)), NEW E \in SUBSET Slots,
           CachePut(k, v, E)
    PROVE  /\ slotKey' \in [Slots -> Keys \cup {NoKey}]
           /\ slotVal' \in [Slots -> Pointers(Len(log))]
           /\ rank' \in [Slots -> Nat]
BY PutSlotType, ToFrontType DEF TypeCache, CachePut, cacheVars

----------------------------------------------------------------------------
(* Frames: which actions change what *)

\* Only try_produce writes to the log.
LEMMA LogFrame == Next => PutProduce \/ UNCHANGED log
BY DEF Next, AppCalls, AppStep, BgStep, PutCall, RemoveCall, GetCall, CloseStop, PutReserve, PutCheckOom,
   PutFull, PutPoint, PutPublish, RemoveOomCache, RemoveOomErase, RemoveOomClear,
   RemoveOomNotify, GetLoad, GetValidate, GetFind, GetFill, GetReturn, CloseNotify,
   CloseJoin, BgTop, BgTake, BgApply, BgSwap, BgCommit, BgOom, BgReport, BgLock, BgCheck,
   BgWait, BgSpuriousWake, Crash, Recover, Open, ProcessEnds, logVars

\* The actions that touch the cache: get, both halves of a write, the fill after a miss,
\* the compare and exchange of the background thread, and the end of the process.
LEMMA CacheFrame ==
    Next => \/ \E k \in Keys : GetCall(k)
            \/ PutReserve \/ PutPoint \/ RemoveOomCache \/ GetFill \/ BgSwap
            \/ CloseJoin \/ Crash \/ UNCHANGED cacheVars
BY DEF Next, AppCalls, AppStep, BgStep, PutCall, RemoveCall, CloseStop, PutCheckOom, PutProduce, 
   PutFull, PutPublish, RemoveOomErase, RemoveOomClear,
   RemoveOomNotify, GetLoad, GetValidate, GetFind, GetReturn, CloseNotify,
   BgTop, BgTake, BgApply, BgCommit, BgOom, BgReport, BgLock, BgCheck,
   BgWait, BgSpuriousWake, Recover, Open

\* The application thread's state is its own, but for a crash and the opening of the pool.
LEMMA AppFrame ==
    Next => \/ AppCalls \/ AppStep \/ Crash \/ Open \/ UNCHANGED appVars
BY DEF Next, BgStep, BgTop, BgTake, BgApply, BgSwap, BgCommit, BgOom, BgReport, BgLock, BgCheck,
   BgWait, BgSpuriousWake, Recover

\* The background thread's state is changed by it, and by the wake-ups and the close of the
\* application thread.
LEMMA BgFrame ==
    Next => \/ BgStep \/ BgSpuriousWake \/ RemoveOomClear \/ RemoveOomNotify \/ CloseStop
            \/ CloseNotify \/ CloseJoin \/ Crash \/ Recover \/ Open
            \/ UNCHANGED <<bgVars, syncVars>>
BY DEF Next, AppCalls, AppStep, PutCall, RemoveCall, GetCall, PutReserve, PutCheckOom, PutProduce,
   PutFull, PutPoint, PutPublish, RemoveOomCache, RemoveOomErase,
   GetLoad, GetValidate, GetFind, GetFill, GetReturn

\* The variables have their types in an engine just created.
LEMMA TypeInit == Init => TypeOK
<1> SUFFICES ASSUME Init PROVE TypeOK
    OBVIOUS
<1> USE DEF Init
<1>1. Len(log) = 0 /\ log \in Seq(EntryType)
    OBVIOUS
<1>2. TypeMemory
    BY <1>1 DEF TypeMemory
<1>3. TypeCache
    BY <1>1, PointerTypes DEF TypeCache, CacheInit
<1>4. TypeApp
    BY <1>1, PointerTypes DEF TypeApp, AppPcs
<1>5. TypeBg
    BY <1>1 DEF TypeBg, BgPcs
<1>6. TypeFlags
    BY DEF TypeFlags
<1> QED
    BY <1>2, <1>3, <1>4, <1>5, <1>6, BoundsAssumption DEF TypeOK

----------------------------------------------------------------------------
(* Type correctness *)

\* The log, the two trees and the acknowledged puts keep their types.
LEMMA TypeMemoryStep == ASSUME IInv, Next PROVE TypeMemory'
<1> USE DEF IInv, TypeOK
<1>a. Len(log) \in Nat /\ published \in 0..Len(log) /\ released <= published
    BY DEF TypeMemory
<1>b. 0 \in 0..Len(log)
    BY <1>a
<1>1. CASE PutProduce
    <2>1. CASE LogFull
        BY <1>1, <2>1 DEF PutProduce, TypeMemory, treeVars
    <2>2. CASE ~LogFull
        <3>1. [key |-> appKey, slot |-> appSlot, remove |-> appOp = "remove"] \in EntryType
            BY <1>1 DEF PutProduce, AppHolds, WritePcs, EntryType
        <3>2. PICK e \in EntryType : log' = Append(log, e)
            BY <1>1, <2>2, <3>1 DEF PutProduce
        <3>3. log' \in Seq(EntryType) /\ Len(log') = Len(log) + 1
            BY <3>2 DEF TypeMemory
        <3> QED
            BY <1>1, <2>2, <3>3 DEF PutProduce, TypeMemory, treeVars
    <2> QED
        BY <2>1, <2>2
<1>2. CASE PutPublish
    <2>1. Effect(Len(log)) \in 0..Len(log)
        BY <1>a DEF Effect
    <2>2. acked' \in [Keys -> 0..Len(log)]
        BY <1>2, <2>1 DEF PutPublish, TypeMemory
    <2> QED
        BY <1>2, <1>a, <2>2 DEF TypeMemory, PutPublish, treeVars
<1>3. CASE RemoveOomErase
    <2>1. container' \in [Keys -> 0..Len(log)]
        BY <1>3, <1>b DEF RemoveOomErase, TypeMemory
    <2>2. durable' \in [Keys -> 0..Len(log)]
        BY <1>3, <1>b DEF RemoveOomErase, TypeMemory
    <2> QED
        BY <1>3, <2>1, <2>2 DEF TypeMemory, RemoveOomErase, logVars
<1>4. CASE RemoveOomNotify
    <2>1. acked' \in [Keys -> 0..Len(log)]
        BY <1>4, <1>b DEF RemoveOomNotify, TypeMemory
    <2> QED
        BY <1>4, <2>1 DEF TypeMemory, RemoveOomNotify, logVars, treeVars
<1>5. CASE BgApply
    <2>1. Effect(cur) \in 0..Len(log)
        BY <1>a DEF Effect, TypeBg
    <2>2. container' \in [Keys -> 0..Len(log)]
        BY <1>5, <2>1 DEF BgApply, TypeMemory
    <2> QED
        BY <1>5, <2>2 DEF TypeMemory, BgApply, logVars
<1>6. CASE BgCommit
    BY <1>6 DEF TypeMemory, TypeBg, BgCommit, BgBounds
<1>7. CASE BgOom
    BY <1>7 DEF TypeMemory, BgOom, logVars
<1>8. CASE CloseJoin \/ Crash
    BY <1>8 DEF TypeMemory, CloseJoin, Crash, ProcessEnds
<1>9. CASE Recover
    <2>1. PICK to \in released + 1..Len(log) :
              /\ durable' = Replayed(durable, to) /\ container' = Replayed(durable, to)
              /\ released' = to
        BY <1>9 DEF Recover
    <2>2. to \in 0..Len(log)
        BY <1>a, <2>1 DEF TypeMemory
    <2>3. Replayed(durable, to) \in [Keys -> 0..Len(log)]
        BY <2>2, ReplayedType
    <2>4. to <= published
        BY <1>9, <2>1 DEF Recover, AppHolds
    <2> QED
        BY <1>9, <1>a, <2>1, <2>2, <2>3, <2>4 DEF TypeMemory, Recover
<1>10. CASE Open
    BY <1>10 DEF TypeMemory, Open, logVars, treeVars
<1>11. CASE UNCHANGED <<logVars, treeVars, acked>>
    BY <1>11 DEF TypeMemory, logVars, treeVars
<1> QED
    BY <1>1, <1>2, <1>3, <1>4, <1>5, <1>6, <1>7, <1>8, <1>9, <1>10, <1>11
    DEF Next, AppCalls, AppStep, BgStep, PutCall, RemoveCall, GetCall, CloseStop, PutReserve, PutCheckOom,
   PutFull, PutPoint, RemoveOomCache, RemoveOomClear,
   GetLoad, GetValidate, GetFind, GetFill, GetReturn, CloseNotify,
   BgTop, BgTake, BgSwap, BgReport, BgLock, BgCheck, BgWait, BgSpuriousWake

\* The cache keeps its types: no action puts a pointer to an entry not yet produced in it.
LEMMA TypeCacheStep == ASSUME IInv, Next PROVE TypeCache'
<1> USE DEF IInv, TypeOK
<1>a. Len(log) \in Nat
    BY DEF TypeMemory
<1>1. ASSUME NEW k \in Keys, GetCall(k) PROVE TypeCache'
    <2>1. CASE Cached(k)
        <3>1. SlotOf(k) \in Slots
            BY <2>1 DEF Cached, SlotOf
        <3> QED
            BY <1>1, <2>1, <3>1, ToFrontType DEF TypeCache, GetCall, CachePromote, logVars
    <2>2. CASE ~Cached(k)
        BY <1>1, <2>2 DEF TypeCache, GetCall, cacheVars, logVars
    <2> QED
        BY <2>1, <2>2
<1>2. CASE PutReserve \/ RemoveOomCache \/ GetFill
    <2>1. appKey \in Keys /\ appPtr \in Pointers(Len(log))
        BY <1>2 DEF TypeApp, AppHolds, PutReserve, RemoveOomCache, GetFill, WritePcs, RemoveOomPcs, GetPcs
    <2>2. Evictable \in SUBSET Slots /\ {} \in SUBSET Slots
        BY DEF Evictable
    <2>3. Null \in Pointers(Len(log)) /\ TombstonePersistent \in Pointers(Len(log))
        BY <1>a, PointerTypes
    <2>4. UNCHANGED log
        BY <1>2 DEF PutReserve, RemoveOomCache, GetFill, logVars
    <2> QED
        BY <1>2, <2>1, <2>2, <2>3, <2>4, CachePutType
        DEF TypeCache, PutReserve, RemoveOomCache, GetFill
<1>3. CASE PutProduce
    <2>1. Len(log') = Len(log) \/ Len(log') = Len(log) + 1
        BY <1>3, <1>a DEF PutProduce, TypeMemory
    <2>2. Pointers(Len(log)) \subseteq Pointers(Len(log'))
        BY <2>1, <1>a, PointerTypes
    <2> QED
        BY <1>3, <2>2 DEF TypeCache, PutProduce, cacheVars
<1>4. CASE PutPoint
    <2>1. Expected(Len(log)) \in Pointers(Len(log))
        BY <1>4, <1>a, PointerTypes DEF Expected, AtCallback, PutPoint, TypeMemory
    <2> QED
        BY <1>4, <2>1 DEF TypeCache, PutPoint, logVars
<1>5. CASE BgSwap
    <2>1. Desired(cur) \in Pointers(Len(log))
        BY <1>5, <1>a, PointerTypes DEF Desired, BgBounds, BgSwap, TypeBg, TypeMemory
    <2> QED
        BY <1>5, <2>1 DEF TypeCache, BgSwap, logVars
<1>6. CASE CloseJoin \/ Crash
    <2>1. CacheDrop /\ UNCHANGED log
        BY <1>6 DEF CloseJoin, Crash, ProcessEnds
    <2>2. Null \in Pointers(Len(log))
        BY <1>a, PointerTypes
    <2> QED
        BY <2>1, <2>2 DEF TypeCache, CacheDrop
<1>7. CASE UNCHANGED <<cacheVars, log>>
    BY <1>7 DEF TypeCache, cacheVars
<1> QED
    BY <1>1, <1>2, <1>3, <1>4, <1>5, <1>6, <1>7, CacheFrame, LogFrame

\* The application thread's state keeps its type.
LEMMA TypeAppStep == ASSUME IInv, Next PROVE TypeApp'
<1> USE DEF IInv, TypeOK
<1>a. Len(log) \in Nat /\ Null \in Pointers(Len(log))
    BY PointerTypes DEF TypeMemory
<1>1. CASE AppReturn /\ UNCHANGED log
    BY <1>1, <1>a DEF AppReturn, TypeApp, AppPcs
<1>2. ASSUME NEW k \in Keys, PutCall(k) \/ RemoveCall(k) PROVE TypeApp'
    BY <1>2 DEF PutCall, RemoveCall, AppCall, TypeApp, AppPcs, logVars
<1>3. ASSUME NEW k \in Keys, GetCall(k) PROVE TypeApp'
    <2>1. Cached(k) => SlotOf(k) \in Slots
        BY DEF Cached, SlotOf
    <2> QED
        BY <1>3, <2>1 DEF GetCall, TypeApp, AppPcs, logVars
<1>4. CASE PutReserve
    <2>1. appKey \in Keys /\ Evictable \in SUBSET Slots
        BY <1>4 DEF PutReserve, AppHolds, WritePcs, Evictable
    <2>2. PutSlot(appKey, Evictable) \in Slots \cup {0}
        BY <2>1, PutSlotType
    <2> QED
        BY <1>4, <2>2 DEF PutReserve, TypeApp, AppPcs, logVars
<1>5. CASE PutProduce
    <2>1. Len(log') = Len(log) \/ Len(log') = Len(log) + 1
        BY <1>5, <1>a DEF PutProduce, TypeMemory
    <2>2. Pointers(Len(log)) \subseteq Pointers(Len(log'))
        BY <2>1, <1>a, PointerTypes
    <2>3. appPc' \in AppPcs /\ UNCHANGED <<appOp, appKey, appSlot, appPtr>>
        BY <1>5 DEF PutProduce, AppGoto, AppPcs
    <2> QED
        BY <2>2, <2>3 DEF TypeApp
<1>6. CASE GetLoad
    <2>1. appSlot \in Slots
        BY <1>6 DEF GetLoad, AppHolds
    <2>2. appPtr' \in Pointers(Len(log))
        BY <1>6, <2>1 DEF GetLoad, TypeCache
    <2>3. appPc' \in AppPcs /\ UNCHANGED <<log, appOp, appKey, appSlot>>
        BY <1>6 DEF GetLoad, AppPcs, logVars
    <2> QED
        BY <2>2, <2>3 DEF TypeApp
<1>7. CASE GetFind
    <2>1. appKey \in Keys
        BY <1>7 DEF GetFind, AppHolds, GetPcs
    <2>2. container[appKey] # 0 => container[appKey] \in 1..Len(log)
        BY <2>1, <1>a DEF TypeMemory
    <2>3. appPtr' \in Pointers(Len(log))
        BY <1>7, <1>a, <2>2, PointerTypes DEF GetFind
    <2>4. appPc' \in AppPcs /\ UNCHANGED <<log, appOp, appKey, appSlot>>
        BY <1>7 DEF GetFind, AppPcs, logVars
    <2> QED
        BY <2>3, <2>4 DEF TypeApp
<1>8. CASE \E pc \in AppPcs : AppGoto(pc) /\ UNCHANGED log
    BY <1>8 DEF AppGoto, TypeApp
<1>9. CASE CloseJoin \/ Crash
    <2>1. ProcessEnds
        BY <1>9 DEF CloseJoin, Crash
    <2>2. appPc' \in AppPcs /\ appSlot' = 0 /\ appPtr' = Null /\ UNCHANGED log
        BY <2>1 DEF ProcessEnds, AppPcs
    <2>3. appOp' \in {"none", "put", "remove", "get"} /\ appKey' \in Keys \cup {NoKey}
        BY <2>1 DEF ProcessEnds, TypeApp
    <2> QED
        BY <1>a, <2>2, <2>3 DEF TypeApp
<1>10. CASE UNCHANGED <<log, appVars>>
    BY <1>10 DEF TypeApp, appVars
<1>11. AppCalls =>
          \/ \E k \in Keys : PutCall(k) \/ RemoveCall(k) \/ GetCall(k)
          \/ \E pc \in AppPcs : AppGoto(pc) /\ UNCHANGED log
    BY DEF AppCalls, CloseStop, AppPcs, logVars
<1>12. PutCheckOom \/ PutFull \/ PutPoint \/ RemoveOomCache \/ RemoveOomErase \/ RemoveOomClear
       \/ GetValidate \/ GetFill \/ CloseNotify =>
          \/ AppReturn /\ UNCHANGED log
          \/ \E pc \in AppPcs : AppGoto(pc) /\ UNCHANGED log
    BY DEF PutCheckOom, PutFull, OutOfMemory, PutPoint, RemoveOomCache, RemoveOomErase,
       RemoveOomClear, GetValidate, GetFill, CloseNotify, AppPcs, logVars
<1>13. PutPublish \/ RemoveOomNotify \/ GetReturn \/ Open => AppReturn /\ UNCHANGED log
    BY DEF PutPublish, RemoveOomNotify, GetReturn, Open, logVars
<1> QED
    BY <1>1, <1>2, <1>3, <1>4, <1>5, <1>6, <1>7, <1>8, <1>9, <1>10, <1>11, <1>12, <1>13,
       AppFrame, LogFrame DEF AppStep

\* The background thread's place in the log keeps its type.
LEMMA TypeBgStep == ASSUME IInv, Next PROVE TypeBg'
<1> USE DEF IInv, TypeOK
<1>a. Len(log) \in Nat
    BY DEF TypeMemory
<1>b. Len(log') \in Nat /\ Len(log) <= Len(log')
    BY <1>a, LogFrame DEF PutProduce, TypeMemory
<1>1. CASE BgTake
    <2>1. bgPc' \in BgPcs /\ UNCHANGED <<log, bgLock>>
        BY <1>1 DEF BgTake, BgPcs, logVars, syncVars
    <2>2. batchEnd' \in 0..Len(log) /\ cur' \in 0..Len(log)
        BY <1>1, <1>a DEF BgTake, TypeBg, TypeMemory, BgBounds
    <2> QED
        BY <2>1, <2>2 DEF TypeBg
<1>2. CASE (BgApply \/ BgSwap)
    <2>1. bgPc' \in BgPcs /\ UNCHANGED <<log, bgLock, batchEnd>>
        BY <1>2 DEF BgApply, BgSwap, NextEntry, AfterEntry, BgPcs, logVars, syncVars
    <2>2. cur' \in 0..Len(log)
        BY <1>2, <1>a DEF BgApply, BgSwap, NextEntry, TypeBg, BgBounds
    <2> QED
        BY <2>1, <2>2 DEF TypeBg
<1>3. CASE BgOom \/ BgCommit \/ BgTop \/ BgReport \/ BgLock \/ BgCheck \/ BgWait \/ BgSpuriousWake
    <2>1. bgPc' \in BgPcs /\ bgLock' \in {"free", "bg"}
        BY <1>3 DEF BgOom, BgCommit, BgTop, BgReport, BgLock, BgCheck, BgWait, BgSpuriousWake,
           BgGoto, BgPcs, TypeBg, syncVars
    <2>2. UNCHANGED <<log, batchEnd>> /\ cur' \in {0, cur}
        BY <1>3 DEF BgOom, BgCommit, BgTop, BgReport, BgLock, BgCheck, BgWait, BgSpuriousWake,
           BgGoto, logVars
    <2> QED
        BY <2>1, <2>2, <1>a DEF TypeBg
<1>4. CASE RemoveOomClear \/ RemoveOomNotify \/ CloseStop \/ CloseNotify
    BY <1>4 DEF RemoveOomClear, RemoveOomNotify, CloseStop, CloseNotify, NotifyBg, TypeBg, BgPcs,
       logVars, bgVars, syncVars
<1>5. CASE CloseJoin \/ Crash
    BY <1>5, <1>a DEF CloseJoin, Crash, ProcessEnds, TypeBg, TypeMemory, BgPcs
<1>6. CASE Recover
    BY <1>6, <1>a DEF Recover, TypeBg, TypeMemory, syncVars
<1>7. CASE Open
    BY <1>7 DEF Open, TypeBg, BgPcs, logVars, syncVars
<1>8. CASE UNCHANGED <<bgVars, syncVars>>
    BY <1>8, <1>a, <1>b DEF TypeBg, bgVars, syncVars
<1> QED
    BY <1>1, <1>2, <1>3, <1>4, <1>5, <1>6, <1>7, <1>8, BgFrame DEF BgStep

\* The flags the threads share stay Boolean.
LEMMA TypeFlagsStep == ASSUME IInv, Next PROVE TypeFlags'
<1>1. shouldReportOom \in BOOLEAN /\ bgException \in BOOLEAN /\ stopped \in BOOLEAN
    BY DEF IInv, TypeOK, TypeFlags
<1>2. CASE BgStep \/ BgSpuriousWake
    BY <1>1, <1>2 DEF BgStep, BgTop, BgTake, BgApply, BgSwap, BgCommit, BgOom, BgReport, BgLock,
       BgCheck, BgWait, BgSpuriousWake, BgGoto, syncVars, TypeFlags
<1>3. CASE RemoveOomClear \/ RemoveOomNotify \/ CloseStop \/ CloseNotify
    BY <1>1, <1>3 DEF RemoveOomClear, RemoveOomNotify, CloseStop, CloseNotify, NotifyBg, bgVars,
       syncVars, TypeFlags
<1>4. CASE CloseJoin \/ Crash \/ Recover \/ Open
    BY <1>1, <1>4 DEF CloseJoin, Crash, ProcessEnds, Recover, Open, syncVars, TypeFlags
<1>5. CASE UNCHANGED <<bgVars, syncVars>>
    BY <1>1, <1>5 DEF bgVars, syncVars, TypeFlags
<1> QED
    BY <1>2, <1>3, <1>4, <1>5, BgFrame

\* The model's bounds on faults are kept.
LEMMA TypeBoundsStep ==
    ASSUME IInv, Next PROVE restarts' \in 0..MaxRestarts /\ ooms' \in 0..MaxOom
<1> USE DEF IInv, TypeOK
<1>a. MaxRestarts \in Nat /\ MaxOom \in Nat
    BY BoundsAssumption
<1>1. CASE CloseJoin \/ Crash
    <2>1. restarts < MaxRestarts /\ restarts' = restarts + 1 /\ ooms' = ooms
        BY <1>1 DEF CloseJoin, Crash, ProcessEnds, AppHolds
    <2> QED
        BY <1>a, <2>1
<1>2. CASE BgOom
    BY <1>2, <1>a DEF BgOom
<1>3. CASE UNCHANGED boundVars
    BY <1>3 DEF boundVars
<1> QED
    BY <1>1, <1>2, <1>3
    DEF Next, AppCalls, AppStep, BgStep, PutCall, RemoveCall, GetCall, CloseStop, PutReserve, PutCheckOom,
   PutProduce, PutFull, PutPoint, PutPublish, RemoveOomCache, RemoveOomErase, RemoveOomClear,
   RemoveOomNotify, GetLoad, GetValidate, GetFind, GetFill, GetReturn, CloseNotify,
   BgTop, BgTake, BgApply, BgSwap, BgCommit, BgReport, BgLock, BgCheck, BgWait, BgSpuriousWake,
   Recover, Open

----------------------------------------------------------------------------
(* What the application thread knows *)

\* CachePut gives the key a slot and sets the slot's value, or changes nothing.
LEMMA CachePutEffect ==
    ASSUME TypeCache, NEW k \in Keys, NEW v, NEW E \in SUBSET Slots, CachePut(k, v, E)
    PROVE  \/ PutSlot(k, E) = 0 /\ UNCHANGED cacheVars
           \/ \E s \in Slots :
                /\ PutSlot(k, E) = s
                /\ slotKey' = [slotKey EXCEPT ![s] = k] /\ slotKey'[s] = k
                /\ slotVal' = [slotVal EXCEPT ![s] = v] /\ slotVal'[s] = v
BY PutSlotType DEF CachePut, TypeCache

\* What the application thread knows at its position stays true while the other thread moves.
LEMMA AppHoldsStep == ASSUME IInv, Next PROVE AppHolds'
<1> USE DEF IInv, TypeOK
<1>1. CASE AppReturn
    BY <1>1 DEF AppReturn, AppHolds, WritePcs, RemoveOomPcs, GetPcs
<1>2. ASSUME NEW k \in Keys, PutCall(k) \/ RemoveCall(k) \/ GetCall(k) PROVE AppHolds'
    <2>1. CASE PutCall(k) \/ RemoveCall(k)
        BY <2>1 DEF PutCall, RemoveCall, AppCall, AppHolds, WritePcs, RemoveOomPcs, GetPcs
    <2>2. CASE GetCall(k)
        <3>1. Cached(k) => SlotOf(k) \in Slots
            BY DEF Cached, SlotOf
        <3> QED
            BY <2>2, <3>1 DEF GetCall, AppHolds, WritePcs, RemoveOomPcs, GetPcs
    <2> QED
        BY <1>2, <2>1, <2>2
<1>3. CASE PutReserve
    <2>1. appKey \in Keys /\ appOp \in {"put", "remove"}
        BY <1>3 DEF PutReserve, AppHolds, WritePcs
    <2>2. Evictable \in SUBSET Slots
        BY DEF Evictable
    <2>3. PutSlot(appKey, Evictable) # 0 => slotKey'[PutSlot(appKey, Evictable)] = appKey
        BY <1>3, <2>1, <2>2, CachePutEffect DEF PutReserve
    <2> QED
        BY <1>3, <2>1, <2>3 DEF PutReserve, AppHolds, WritePcs, RemoveOomPcs, GetPcs
<1>4. CASE PutCheckOom
    <2>1. appSlot # 0 => appSlot \in Slots
        BY DEF TypeApp
    <2> QED
        BY <1>4, <1>1, <2>1 DEF PutCheckOom, OutOfMemory, AppGoto, AppHolds, WritePcs, RemoveOomPcs,
           GetPcs, cacheVars
<1>5. CASE PutProduce \/ PutFull \/ PutPoint
    BY <1>5, <1>1 DEF PutProduce, PutFull, PutPoint, OutOfMemory, AppGoto, AppHolds, WritePcs,
       RemoveOomPcs, GetPcs, cacheVars
<1>6. CASE RemoveOomCache \/ RemoveOomErase \/ RemoveOomClear
    BY <1>6 DEF RemoveOomCache, RemoveOomErase, RemoveOomClear, AppGoto, AppHolds, WritePcs,
       RemoveOomPcs, GetPcs
<1>7. CASE GetLoad \/ GetValidate \/ GetFill
    BY <1>7 DEF GetLoad, GetValidate, GetFill, AppGoto, AppHolds, WritePcs, RemoveOomPcs, GetPcs
<1>8. CASE GetFind
    <2>1. appKey \in Keys
        BY <1>8 DEF GetFind, AppHolds, GetPcs
    <2>2. container[appKey] # 0 => container[appKey] \in 1..Len(log)
        BY <2>1 DEF TypeMemory
    <2>3. UNCHANGED <<log, appKey>>
        BY <1>8 DEF GetFind, logVars
    <2>4. appPc' = "fill" => appPtr' \in {InLeaf(i) : i \in 1..Len(log)}
        BY <1>8, <2>2 DEF GetFind
    <2>5. appPc' \in {"return", "fill"}
        BY <1>8 DEF GetFind
    <2> QED
        BY <2>1, <2>3, <2>4, <2>5 DEF AppHolds, WritePcs, RemoveOomPcs, GetPcs
<1>9. CASE CloseNotify \/ CloseStop
    BY <1>9 DEF CloseNotify, CloseStop, AppGoto, AppHolds, WritePcs, RemoveOomPcs, GetPcs, boundVars
<1>10. CASE CloseJoin \/ Crash
    <2>1. ProcessEnds
        BY <1>10 DEF CloseJoin, Crash
    <2>2. appPc' = "down" /\ bgPc' = "done" /\ published' = Len(log) /\ log' = log
          /\ slotVal' = [s \in Slots |-> Null]
        BY <2>1 DEF ProcessEnds, CacheDrop
    <2> QED
        BY <2>2 DEF AppHolds, WritePcs, RemoveOomPcs, GetPcs
<1>11. CASE BgStep \/ BgSpuriousWake
    <2>1. UNCHANGED <<appVars, slotKey, log, published, restarts>>
        BY <1>11 DEF BgStep, BgTop, BgTake, BgApply, BgSwap, BgCommit, BgOom, BgReport, BgLock,
           BgCheck, BgWait, BgSpuriousWake, cacheVars, logVars, boundVars
    <2>2. bgPc # "done"
        BY <1>11 DEF BgStep, BgTop, BgTake, BgApply, BgSwap, BgCommit, BgOom, BgReport, BgLock,
           BgCheck, BgWait, BgSpuriousWake
    <2> QED
        BY <2>1, <2>2 DEF AppHolds, appVars
<1>12. CASE Recover
    BY <1>12 DEF Recover, AppHolds, WritePcs, RemoveOomPcs, GetPcs, cacheVars, appVars
<1>13. PutPublish \/ RemoveOomNotify \/ GetReturn \/ Open => AppReturn
    BY DEF PutPublish, RemoveOomNotify, GetReturn, Open
<1> QED
    BY <1>1, <1>2, <1>3, <1>4, <1>5, <1>6, <1>7, <1>8, <1>9, <1>10, <1>11, <1>12, <1>13
    DEF Next, AppCalls, AppStep

\* The entry the callback is called for stays the last of the log until it is published.
LEMMA AtCallbackStep == ASSUME IInv, Next PROVE AtCallback'
<1> USE DEF IInv, TypeOK
<1>1. CASE PutProduce /\ ~LogFull
    <2>1. appPc' = "point" /\ UNCHANGED <<appOp, appKey, appSlot, published>>
        BY <1>1 DEF PutProduce, AppGoto
    <2> DEFINE e == [key |-> appKey, slot |-> appSlot, remove |-> appOp = "remove"]
    <2>2. e \in EntryType
        BY <1>1 DEF PutProduce, AppHolds, WritePcs, EntryType
    <2>3. log' = Append(log, e)
        BY <1>1 DEF PutProduce
    <2> HIDE DEF e
    <2>4. Len(log') = Len(log) + 1 /\ log'[Len(log')] = e /\ published <= Len(log)
        BY <2>2, <2>3 DEF TypeMemory
    <2> QED
        BY <2>1, <2>4 DEF AtCallback, TypeMemory, e
<1>2. CASE appPc' # "point"
    BY <1>2 DEF AtCallback
<1>3. CASE UNCHANGED <<appVars, log, published>>
    BY <1>3 DEF AtCallback, appVars
<1>4. Next => \/ (PutProduce /\ ~LogFull) \/ appPc' # "point" \/ UNCHANGED <<appVars, log, published>>
    BY DEF Next, AppCalls, AppStep, BgStep, PutCall, RemoveCall, AppCall, GetCall, CloseStop,
   PutReserve, PutCheckOom, OutOfMemory, AppReturn, AppGoto,
   PutProduce, PutFull, PutPoint, PutPublish, RemoveOomCache, RemoveOomErase, RemoveOomClear,
   RemoveOomNotify, GetLoad, GetValidate, GetFind, GetFill, GetReturn, CloseNotify, CloseJoin, Crash,
   ProcessEnds, BgTop, BgTake, BgApply, BgSwap, BgCommit, BgOom, BgReport, BgLock, BgCheck, BgWait,
   BgSpuriousWake, Recover, Open, logVars
<1> QED
    BY <1>1, <1>2, <1>3, <1>4

\* The batch stays within the published entries.
LEMMA BgBoundsStep == ASSUME IInv, Next PROVE BgBounds'
<1> USE DEF IInv, TypeOK
<1>a. /\ Len(log) \in Nat /\ released \in Nat /\ published \in Nat /\ batchEnd \in Nat /\ cur \in Nat
      /\ released <= batchEnd /\ batchEnd <= published /\ published <= Len(log)
    BY DEF TypeMemory, TypeBg, BgBounds
<1>1. CASE BgTake
    BY <1>1, <1>a DEF BgTake, BgBounds, logVars
<1>2. CASE BgApply \/ BgSwap
    <2>1. bgPc' \in {"apply", "swap"} => released < cur' /\ cur' <= batchEnd
        BY <1>2, <1>a DEF BgApply, BgSwap, NextEntry, AfterEntry, BgBounds
    <2>2. UNCHANGED <<released, batchEnd, published>>
        BY <1>2 DEF BgApply, BgSwap, logVars
    <2> QED
        BY <1>a, <2>1, <2>2 DEF BgBounds
<1>3. CASE BgCommit
    BY <1>3, <1>a DEF BgCommit, BgBounds
<1>4. CASE BgOom \/ BgTop \/ BgReport \/ BgLock \/ BgCheck \/ BgWait \/ BgSpuriousWake
    <2>1. UNCHANGED <<released, batchEnd, published>> /\ bgPc' \notin {"apply", "swap"}
        BY <1>4 DEF BgOom, BgTop, BgReport, BgLock, BgCheck, BgWait, BgSpuriousWake, BgGoto, logVars
    <2> QED
        BY <1>a, <2>1 DEF BgBounds
<1>5. CASE CloseJoin \/ Crash
    BY <1>5, <1>a DEF CloseJoin, Crash, ProcessEnds, BgBounds
<1>6. CASE Recover
    BY <1>6, <1>a DEF Recover, AppHolds, BgBounds
<1>7. CASE Open
    BY <1>7, <1>a DEF Open, BgBounds, logVars
<1>8. CASE PutPublish
    BY <1>8, <1>a DEF PutPublish, BgBounds, bgVars
<1>9. CASE RemoveOomNotify \/ CloseNotify
    <2>1. UNCHANGED <<released, batchEnd, published, cur>>
          /\ (bgPc' = bgPc \/ bgPc' \notin {"apply", "swap"})
        BY <1>9 DEF RemoveOomNotify, CloseNotify, NotifyBg, logVars
    <2> QED
        BY <1>a, <2>1 DEF BgBounds
<1>10. CASE UNCHANGED <<released, published, bgVars>>
    BY <1>10 DEF BgBounds, bgVars
<1> QED
    BY <1>1, <1>2, <1>3, <1>4, <1>5, <1>6, <1>7, <1>8, <1>9, <1>10
    DEF Next, AppCalls, AppStep, BgStep, PutCall, RemoveCall, GetCall, CloseStop,
   PutReserve, PutCheckOom, PutProduce, PutFull, PutPoint, RemoveOomCache, RemoveOomErase,
   RemoveOomClear, GetLoad, GetValidate, GetFind, GetFill, GetReturn, logVars

----------------------------------------------------------------------------
(* Pointers into the log *)

\* A slot's pointer into the log is to an entry that was produced.
LEMMA PointerBound ==
    ASSUME NEW n \in Nat, NEW i, InLog(i) \in Pointers(n)
    PROVE  i \in 1..n
BY PointerKinds DEF Pointers, Tombstones

\* After a CachePut of a value that is not in the log, what still points there did before.
LEMMA CachePutKeepsLog ==
    ASSUME TypeCache, NEW k \in Keys, NEW v, NEW E \in SUBSET Slots, CachePut(k, v, E),
           \A i : v # InLog(i)
    PROVE  \A s \in Slots : \A i :
               slotVal'[s] = InLog(i) => slotVal[s] = InLog(i) /\ slotKey'[s] = slotKey[s]
<1>1. CASE UNCHANGED cacheVars
    BY <1>1 DEF cacheVars
<1>2. ASSUME NEW t \in Slots,
             slotKey' = [slotKey EXCEPT ![t] = k], slotVal' = [slotVal EXCEPT ![t] = v]
      PROVE  \A s \in Slots : \A i :
                 slotVal'[s] = InLog(i) => slotVal[s] = InLog(i) /\ slotKey'[s] = slotKey[s]
    BY <1>2 DEF TypeCache
<1> QED
    BY <1>1, <1>2, CachePutEffect

\* Of all the actions, only the callback of try_produce makes a slot point into the log, and
\* then to the entry just produced.
LEMMA NewLogPointers ==
    ASSUME IInv, Next, NEW s \in Slots, NEW i, slotVal'[s] = InLog(i)
    PROVE  \/ slotVal[s] = InLog(i) /\ slotKey'[s] = slotKey[s] /\ i \in 1..Len(log)
           \/ PutPoint /\ s = appSlot /\ appOp # "remove" /\ i = Len(log)
<1> USE DEF IInv, TypeOK
<1>a. ASSUME slotVal[s] = InLog(i) PROVE i \in 1..Len(log)
    BY <1>a, PointerBound DEF TypeCache, TypeMemory
<1>1. CASE PutReserve \/ RemoveOomCache \/ GetFill
    <2>1. appKey \in Keys
        BY <1>1 DEF AppHolds, PutReserve, RemoveOomCache, GetFill, WritePcs, RemoveOomPcs, GetPcs
    <2>2. Evictable \in SUBSET Slots /\ {} \in SUBSET Slots
        BY DEF Evictable
    <2>3. CASE PutReserve
        <3>1. CachePut(appKey, Null, Evictable) /\ \A j : Null # InLog(j)
            BY <2>3, PointerKinds DEF PutReserve
        <3> QED
            BY <1>a, <2>1, <2>2, <3>1, CachePutKeepsLog
    <2>4. CASE RemoveOomCache
        <3>1. CachePut(appKey, TombstonePersistent, {}) /\ \A j : TombstonePersistent # InLog(j)
            BY <2>4, PointerKinds DEF RemoveOomCache
        <3> QED
            BY <1>a, <2>1, <2>2, <3>1, CachePutKeepsLog
    <2>5. CASE GetFill
        <3>1. CachePut(appKey, appPtr, Evictable) /\ \A j : appPtr # InLog(j)
            BY <2>5, PointerKinds DEF GetFill, AppHolds
        <3> QED
            BY <1>a, <2>1, <2>2, <3>1, CachePutKeepsLog
    <2> QED
        BY <1>1, <2>3, <2>4, <2>5
<1>2. CASE PutPoint
    <2>1. appSlot \in Slots
        BY <1>2 DEF PutPoint, AppHolds
    <2>2. slotKey' = slotKey /\ slotVal' = [slotVal EXCEPT ![appSlot] = Expected(Len(log))]
        BY <1>2 DEF PutPoint
    <2>3. CASE s = appSlot
        <3>1. Expected(Len(log)) = InLog(i)
            BY <2>1, <2>2, <2>3 DEF TypeCache
        <3>2. log[Len(log)] = [key |-> appKey, slot |-> appSlot, remove |-> appOp = "remove"]
            BY <1>2 DEF AtCallback, PutPoint
        <3>3. log[Len(log)].remove = (appOp = "remove")
            BY <3>2
        <3>4. ~log[Len(log)].remove /\ InLog(Len(log)) = InLog(i)
            BY <3>1, PointerKinds DEF Expected
        <3>5. i = Len(log) /\ appOp # "remove"
            BY <3>3, <3>4, PointerKinds
        <3> QED
            BY <1>2, <2>3, <3>5
    <2>4. CASE s # appSlot
        BY <1>a, <2>2, <2>4 DEF TypeCache
    <2> QED
        BY <2>3, <2>4
<1>3. CASE BgSwap
    <2>1. Desired(cur) # InLog(i)
        BY PointerKinds DEF Desired
    <2>2. slotVal'[s] \in {slotVal[s], Desired(cur)} /\ slotKey' = slotKey
        BY <1>3 DEF BgSwap, TypeCache
    <2> QED
        BY <1>a, <2>1, <2>2
<1>4. CASE CloseJoin \/ Crash
    BY <1>4, PointerKinds DEF CloseJoin, Crash, ProcessEnds, CacheDrop
<1>5. ASSUME NEW k \in Keys, GetCall(k) PROVE UNCHANGED <<slotKey, slotVal>>
    BY <1>5 DEF GetCall, CachePromote, cacheVars
<1>6. CASE UNCHANGED <<slotKey, slotVal>>
    BY <1>a, <1>6
<1> QED
    BY <1>1, <1>2, <1>3, <1>4, <1>5, <1>6, CacheFrame DEF cacheVars

\* Entries of the log never change.
LEMMA LogGrows ==
    ASSUME IInv, Next, NEW i \in 1..Len(log)
    PROVE  i \in 1..Len(log') /\ log'[i] = log[i]
<1> USE DEF IInv, TypeOK
<1>1. CASE PutProduce /\ ~LogFull
    <2>1. PICK e \in EntryType : log' = Append(log, e)
        BY <1>1 DEF PutProduce, AppHolds, WritePcs, EntryType
    <2> QED
        BY <2>1 DEF TypeMemory
<1>2. CASE UNCHANGED log
    BY <1>2
<1> QED
    BY <1>1, <1>2, LogFrame DEF PutProduce

\* The ring buffer's space is given back by a commit or by recovery only.
LEMMA ReleasedFrame == Next => BgCommit \/ Recover \/ UNCHANGED released
BY DEF Next, AppCalls, AppStep, BgStep, PutCall, RemoveCall, GetCall, CloseStop, PutReserve, PutCheckOom,
   PutProduce, PutFull, PutPoint, PutPublish, RemoveOomCache, RemoveOomErase, RemoveOomClear,
   RemoveOomNotify, GetLoad, GetValidate, GetFind, GetFill, GetReturn, CloseNotify,
   CloseJoin, BgTop, BgTake, BgApply, BgSwap, BgOom, BgReport, BgLock, BgCheck,
   BgWait, BgSpuriousWake, Crash, Open, ProcessEnds, logVars

\* No step leaves a slot pointing to an entry of another key or to space given back.
LEMMA LogPointersLiveStep == ASSUME IInv, Next PROVE LogPointersLive'
<1> USE DEF IInv, TypeOK
<1> SUFFICES ASSUME NEW s \in Slots, NEW i, i \in 1..Len(log'), slotVal'[s] = InLog(i)
             PROVE  i > released' /\
                    log'[i] = [key |-> slotKey'[s], slot |-> s, remove |-> FALSE]
    BY DEF LogPointersLive, Slots
<1>1. CASE slotVal[s] = InLog(i) /\ slotKey'[s] = slotKey[s] /\ i \in 1..Len(log)
    <2>1. i > released /\ log[i] = [key |-> slotKey[s], slot |-> s, remove |-> FALSE]
        BY <1>1 DEF LogPointersLive
    <2>2. log'[i] = log[i]
        BY <1>1, LogGrows
    <2>3. i > released'
        <3>1. CASE BgCommit
            BY <1>1, <3>1 DEF BgCommit, Consumed
        <3>2. CASE Recover
            BY <1>1, <3>2, PointerKinds DEF Recover, AppHolds
        <3>3. CASE UNCHANGED released
            BY <2>1, <3>3
        <3> QED
            BY <3>1, <3>2, <3>3, ReleasedFrame
    <2> QED
        BY <1>1, <2>1, <2>2, <2>3
<1>2. CASE PutPoint /\ s = appSlot /\ appOp # "remove" /\ i = Len(log)
    <2>1. log' = log /\ released' = released /\ slotKey' = slotKey
        BY <1>2 DEF PutPoint, logVars
    <2>2. published < Len(log)
          /\ log[i] = [key |-> appKey, slot |-> appSlot, remove |-> FALSE]
        BY <1>2 DEF PutPoint, AtCallback
    <2>3. slotKey[appSlot] = appKey
        BY <1>2 DEF PutPoint, AppHolds
    <2>4. released < Len(log)
        BY <2>2 DEF TypeMemory
    <2> QED
        BY <1>2, <2>1, <2>2, <2>3, <2>4
<1> QED
    BY <1>1, <1>2, NewLogPointers

\* A slot that no longer equals what entry cur expects does not point to entry cur.
LEMMA PassedEntry ==
    ASSUME LogPointersLive, NEW s \in Slots, cur \in 1..Len(log), slotVal[s] = InLog(cur)
    PROVE  log[cur].slot = s /\ slotVal[log[cur].slot] = Expected(cur)
<1>1. log[cur] = [key |-> slotKey[s], slot |-> s, remove |-> FALSE]
    BY DEF LogPointersLive
<1>2. log[cur].slot = s /\ log[cur].remove = FALSE
    BY <1>1
<1> QED
    BY <1>2 DEF Expected

\* An entry the background thread passes leaves no slot pointing to it.
LEMMA ConsumedStep == ASSUME IInv, Next PROVE Consumed'
<1> USE DEF IInv, TypeOK
<1>a. /\ Len(log) \in Nat /\ released \in Nat /\ published \in Nat /\ batchEnd \in Nat /\ cur \in Nat
      /\ released <= batchEnd /\ batchEnd <= published /\ published <= Len(log)
    BY DEF TypeMemory, TypeBg, BgBounds
<1> SUFFICES ASSUME NEW s \in Slots, NEW i, i \in 1..Len(log'), slotVal'[s] = InLog(i)
             PROVE  /\ bgPc' \in {"apply", "swap"} => i >= cur'
                    /\ bgPc' = "commit" => i > batchEnd'
    BY DEF Consumed, Slots
<1>1. CASE PutPoint /\ i = Len(log)
    <2>1. published < Len(log) /\ UNCHANGED bgVars
        BY <1>1 DEF PutPoint, AtCallback
    <2> QED
        BY <1>1, <1>a, <2>1 DEF BgBounds, bgVars
<1>2. CASE slotVal[s] = InLog(i) /\ i \in 1..Len(log)
    <2>0. i > released
        BY <1>2 DEF LogPointersLive
    <2>1. CASE BgTake
        BY <2>0, <2>1, <1>a DEF BgTake
    <2>2. CASE BgApply \/ BgSwap
        <3>1. i >= cur /\ cur \in 1..Len(log) /\ cur <= batchEnd
            BY <1>2, <1>a, <2>2 DEF BgApply, BgSwap, Consumed, BgBounds
        <3>2. CASE bgPc' = "swap"
            <4>1. cur' = cur
                BY <2>2, <3>2 DEF BgApply, BgSwap, NextEntry, AfterEntry
            <4> QED
                BY <3>1, <3>2, <4>1
        <3>3. CASE bgPc' # "swap"
            <4>1. NextEntry /\ batchEnd' = batchEnd
                BY <2>2, <3>3 DEF BgApply, BgSwap
            <4>2. i # cur
                <5> SUFFICES ASSUME i = cur PROVE FALSE
                    OBVIOUS
                <5>1. log[cur].slot = s /\ slotVal[s] = Expected(cur)
                    BY <1>2, <3>1, PassedEntry
                <5>2. CASE BgApply
                    BY <3>3, <5>1, <5>2 DEF BgApply
                <5>3. CASE BgSwap
                    <6>1. slotVal'[s] = Desired(cur)
                        BY <5>1, <5>3 DEF BgSwap, TypeCache
                    <6> QED
                        BY <6>1, PointerKinds DEF Desired
                <5> QED
                    BY <2>2, <5>2, <5>3
            <4> QED
                BY <1>a, <3>1, <4>1, <4>2 DEF NextEntry, AfterEntry
        <3> QED
            BY <3>2, <3>3
    <2>3. CASE bgPc' \notin {"apply", "swap", "commit"}
        BY <2>3
    <2>4. CASE UNCHANGED <<bgPc, cur, batchEnd>>
        BY <1>2, <2>4 DEF Consumed
    <2>5. Next => \/ BgTake \/ BgApply \/ BgSwap
                  \/ bgPc' \notin {"apply", "swap", "commit"}
                  \/ UNCHANGED <<bgPc, cur, batchEnd>>
        <3>1. BgTop \/ BgCommit \/ BgOom \/ BgReport \/ BgLock \/ BgCheck \/ BgWait
              \/ BgSpuriousWake \/ Crash \/ CloseJoin \/ Open =>
                  bgPc' \notin {"apply", "swap", "commit"}
            BY DEF BgTop, BgCommit, BgOom, BgReport, BgLock, BgCheck, BgWait, BgSpuriousWake,
               BgGoto, Crash, CloseJoin, ProcessEnds, Open
        <3>2. RemoveOomNotify \/ CloseNotify =>
                  \/ bgPc' \notin {"apply", "swap", "commit"}
                  \/ UNCHANGED <<bgPc, cur, batchEnd>>
            BY DEF RemoveOomNotify, CloseNotify, NotifyBg
        <3>3. Recover => bgPc' \notin {"apply", "swap", "commit"}
            BY DEF Recover, AppHolds
        <3> QED
            BY <3>1, <3>2, <3>3, BgFrame DEF BgStep, RemoveOomClear, CloseStop, bgVars
    <2> QED
        BY <2>1, <2>2, <2>3, <2>4, <2>5
<1> QED
    BY <1>1, <1>2, NewLogPointers

----------------------------------------------------------------------------
(* The hand-over of an exception *)

\* The exception is reported, consumed and cleared in turn.
LEMMA HandoverStep == ASSUME IInv, Next PROVE Handover'
<1> USE DEF IInv, RemoveOomPcs
<1>1. CASE PutCheckOom \/ PutFull
    BY <1>1 DEF PutCheckOom, PutFull, OutOfMemory, AppReturn, AppGoto, Handover, treeVars, bgVars,
       syncVars
<1>2. CASE RemoveOomErase
    <2>1. bgException /\ ~stopped /\ container = durable
        BY <1>2 DEF RemoveOomErase, Handover
    <2> QED
        BY <1>2, <2>1 DEF RemoveOomErase, AppGoto, Handover, bgVars, syncVars
<1>3. CASE RemoveOomCache \/ RemoveOomClear \/ RemoveOomNotify
    BY <1>3 DEF RemoveOomCache, RemoveOomClear, RemoveOomNotify, NotifyBg, AppGoto, AppReturn,
       Handover, treeVars, bgVars, syncVars
<1>4. CASE CloseStop \/ CloseNotify
    BY <1>4 DEF CloseStop, CloseNotify, NotifyBg, AppGoto, Handover, treeVars, bgVars, syncVars
<1>5. CASE CloseJoin \/ Crash
    BY <1>5 DEF CloseJoin, Crash, ProcessEnds, Handover
<1>6. CASE BgStep \/ BgSpuriousWake
    <2>0. bgPc # "done"
        BY <1>6 DEF BgStep, BgTop, BgTake, BgApply, BgSwap, BgCommit, BgOom, BgReport, BgLock,
           BgCheck, BgWait, BgSpuriousWake
    <2>1. UNCHANGED <<appPc, stopped>> /\ (appPc = "down" => bgPc = "done")
        BY <1>6 DEF BgStep, BgTop, BgTake, BgApply, BgSwap, BgCommit, BgOom, BgReport, BgLock,
           BgCheck, BgWait, BgSpuriousWake, appVars, syncVars, AppHolds
    <2>2. bgException' => bgPc' \in {"lock", "check", "wait", "sleep"} \/ stopped'
        BY <1>6 DEF BgStep, BgTop, BgTake, BgApply, BgSwap, BgCommit, BgOom, BgReport, BgLock,
           BgCheck, BgWait, BgSpuriousWake, BgGoto, syncVars, Handover
    <2>3. bgException => bgException'
        BY <1>6 DEF BgStep, BgTop, BgTake, BgApply, BgSwap, BgCommit, BgOom, BgReport, BgLock,
           BgCheck, BgWait, BgSpuriousWake, syncVars
    <2>4. bgPc' \notin {"apply", "swap", "commit"} => container' = durable'
        BY <1>6 DEF BgStep, BgTop, BgTake, BgApply, BgSwap, NextEntry, AfterEntry, BgCommit, BgOom,
           BgReport, BgLock, BgCheck, BgWait, BgSpuriousWake, BgGoto, treeVars, Handover
    <2> QED
        BY <2>0, <2>1, <2>2, <2>3, <2>4 DEF Handover
<1>7. CASE Recover
    <2>1. appPc = "down" /\ container' = durable'
        BY <1>7 DEF Recover
    <2>2. UNCHANGED <<appPc, bgException, stopped>>
        BY <1>7 DEF Recover, appVars, syncVars
    <2> QED
        BY <2>1, <2>2 DEF Handover
<1>8. CASE Open
    <2>1. appPc = "down" /\ appPc' = "idle" /\ bgPc = "done"
        BY <1>8 DEF Open, AppReturn, AppHolds
    <2>2. UNCHANGED <<bgException, stopped, container, durable>>
        BY <1>8 DEF Open, syncVars, treeVars
    <2> QED
        BY <2>1, <2>2 DEF Handover
<1>9. CASE /\ UNCHANGED <<treeVars, bgVars, syncVars>>
           /\ appPc' \notin RemoveOomPcs \cup {"down"}
           /\ appPc \notin {"closeNotify", "join"}
    BY <1>9 DEF Handover, treeVars, bgVars, syncVars
<1>10. PutReserve \/ PutProduce \/ PutPoint \/ PutPublish \/ GetLoad \/ GetValidate \/ GetFind
      \/ GetFill \/ GetReturn \/ (\E k \in Keys : PutCall(k) \/ RemoveCall(k) \/ GetCall(k)) =>
          /\ UNCHANGED <<treeVars, bgVars, syncVars>>
          /\ appPc' \notin RemoveOomPcs \cup {"down"}
          /\ appPc \notin {"closeNotify", "join"}
    BY DEF PutReserve, PutProduce, PutPoint, PutPublish, GetLoad, GetValidate, GetFind, GetFill,
       GetReturn, PutCall, RemoveCall, GetCall, AppCall, AppGoto, AppReturn
<1> QED
    BY <1>1, <1>2, <1>3, <1>4, <1>5, <1>6, <1>7, <1>8, <1>9, <1>10 DEF Next, AppCalls, AppStep

----------------------------------------------------------------------------
(* The theorems *)

\* The inductive invariant holds in an engine just created.
LEMMA InitInv == Init => IInv
<1> SUFFICES ASSUME Init PROVE IInv
    OBVIOUS
<1>1. TypeOK
    BY TypeInit
<1>2. Len(log) = 0
    BY DEF Init
<1>3. AppHolds
    BY <1>2 DEF Init, AppHolds, WritePcs, RemoveOomPcs, GetPcs
<1>4. AtCallback /\ BgBounds /\ Handover
    BY <1>2 DEF Init, AtCallback, BgBounds, Handover, RemoveOomPcs
<1>5. LogPointersLive /\ Consumed
    BY <1>2 DEF LogPointersLive, Consumed
<1> QED
    BY <1>1, <1>3, <1>4, <1>5 DEF IInv

\* Every step keeps the inductive invariant.
LEMMA NextInv == IInv /\ [Next]_vars => IInv'
<1> SUFFICES ASSUME IInv, [Next]_vars PROVE IInv'
    OBVIOUS
<1>1. CASE Next
    <2>1. TypeOK'
        BY <1>1, TypeMemoryStep, TypeCacheStep, TypeAppStep, TypeBgStep, TypeFlagsStep,
           TypeBoundsStep DEF TypeOK
    <2> QED
        BY <1>1, <2>1, AppHoldsStep, AtCallbackStep, BgBoundsStep, LogPointersLiveStep,
           ConsumedStep, HandoverStep DEF IInv
<1>2. CASE UNCHANGED vars
    <2>1. TypeOK'
        BY <1>2 DEF IInv, TypeOK, TypeMemory, TypeCache, TypeApp, TypeBg, TypeFlags, vars, cacheVars,
           logVars, treeVars, appVars, bgVars, syncVars, boundVars
    <2>2. AppHolds' /\ AtCallback' /\ BgBounds' /\ Handover'
        BY <1>2 DEF IInv, AppHolds, AtCallback, BgBounds, Handover, vars, cacheVars, logVars,
           treeVars, appVars, bgVars, syncVars, boundVars
    <2>3. LogPointersLive' /\ Consumed'
        BY <1>2 DEF IInv, LogPointersLive, Consumed, vars, cacheVars, logVars, bgVars
    <2> QED
        BY <2>1, <2>2, <2>3 DEF IInv
<1> QED
    BY <1>1, <1>2

\* The inductive invariant holds in every behaviour.
LEMMA InvariantHolds == Spec => []IInv
BY InitInv, NextInv, PTL DEF Spec

\* The variables keep their types, for any number of keys, slots and entries.
THEOREM TypeCorrect == Spec => []TypeOK
<1>1. IInv => TypeOK
    BY DEF IInv
<1> QED
    BY <1>1, InvariantHolds, PTL

\* A cache slot that points into the log points to an entry of its own key whose space was not
\* given back, whatever the threads do, with evictions, crashes and failed tree updates.
THEOREM LogPointersAlwaysLive == Spec => []LogPointersLive
<1>1. IInv => LogPointersLive
    BY DEF IInv
<1> QED
    BY <1>1, InvariantHolds, PTL

\* When remove erases from the tree directly, the background thread is held by its exception
\* with its transaction rolled back: the tree has one writer at a time.
THEOREM TreeAlwaysHasOneWriter == Spec => []TreeHasOneWriter
<1>1. IInv => TreeHasOneWriter
    BY DEF IInv, Handover, TreeHasOneWriter, RemoveOomPcs
<1> QED
    BY <1>1, InvariantHolds, PTL

----------------------------------------------------------------------------
(***************************************************************************)
(* The cache's list.  It stays consistent because a key that is cached     *)
(* keeps its slot, one that is not gets a slot whole (a new one, or that   *)
(* of one victim), and moving a slot to the front moves back only those    *)
(* that were before it.                                                    *)
(***************************************************************************)

\* Moving slot s to the front keeps the ranks a row without a gap or a tie.
LEMMA ToFrontKeepsRow ==
    ASSUME rank \in [Slots -> Nat], NEW s \in Slots,
           \A t, u \in Slots : rank[t] = rank[u] /\ rank[t] > 0 => t = u,
           \A t \in Slots : rank[t] > 1 => \E u \in Slots : rank[u] = rank[t] - 1
    PROVE  LET r == ToFront(s) IN
           /\ \A t \in Slots : r[t] > 0 <=> t = s \/ rank[t] > 0
           /\ \A t, u \in Slots : r[t] = r[u] /\ r[t] > 0 => t = u
           /\ \A t \in Slots : r[t] > 1 => \E u \in Slots : r[u] = r[t] - 1
<1> DEFINE r == ToFront(s)
<1>1. \A t \in Slots :
          r[t] = IF t = s THEN 1
                 ELSE IF rank[t] > 0 /\ (rank[s] = 0 \/ rank[t] < rank[s]) THEN rank[t] + 1
                 ELSE rank[t]
    BY DEF ToFront
<1> HIDE DEF r
<1>2. \A t \in Slots : r[t] > 0 <=> t = s \/ rank[t] > 0
    BY <1>1
<1>3. ASSUME NEW t \in Slots, NEW u \in Slots, r[t] = r[u], r[t] > 0, t # u PROVE FALSE
    <2>1. rank[t] \in Nat /\ rank[u] \in Nat /\ rank[s] \in Nat
        OBVIOUS
    <2>2. CASE t = s \/ u = s
        BY <1>1, <1>3, <2>1, <2>2
    <2>3. CASE t # s /\ u # s
        <3>1. rank[t] > 0 /\ rank[u] > 0 /\ rank[t] # rank[u] /\ rank[t] # rank[s] /\ rank[u] # rank[s]
            BY <1>2, <1>3, <2>3
        <3>2. r[t] = IF rank[s] = 0 \/ rank[t] < rank[s] THEN rank[t] + 1 ELSE rank[t]
            BY <1>1, <2>3, <3>1
        <3>3. r[u] = IF rank[s] = 0 \/ rank[u] < rank[s] THEN rank[u] + 1 ELSE rank[u]
            BY <1>1, <2>3, <3>1
        <3>4. CASE rank[s] = 0
            <4>1. r[t] = rank[t] + 1 /\ r[u] = rank[u] + 1
                BY <3>2, <3>3, <3>4
            <4>2. rank[t] + 1 = rank[u] + 1
                BY <1>3, <4>1
            <4> QED
                BY <2>1, <3>1, <4>2
        <3>5. CASE rank[s] > 0 /\ rank[t] < rank[s]
            <4>1. r[t] = rank[t] + 1
                BY <3>2, <3>5
            <4>2. CASE rank[u] < rank[s]
                BY <1>3, <2>1, <3>1, <3>3, <4>1, <4>2
            <4>3. CASE rank[u] > rank[s]
                BY <1>3, <2>1, <3>3, <3>5, <4>1, <4>3
            <4> QED
                BY <2>1, <3>1, <4>2, <4>3
        <3>6. CASE rank[s] > 0 /\ rank[t] > rank[s]
            <4>1. r[t] = rank[t]
                BY <2>1, <3>2, <3>6
            <4>2. CASE rank[u] < rank[s]
                BY <1>3, <2>1, <3>3, <3>6, <4>1, <4>2
            <4>3. CASE rank[u] > rank[s]
                BY <1>3, <2>1, <3>1, <3>3, <3>6, <4>1, <4>3
            <4> QED
                BY <2>1, <3>1, <4>2, <4>3
        <3> QED
            BY <2>1, <3>1, <3>4, <3>5, <3>6
    <2> QED
        BY <2>2, <2>3
<1>4. ASSUME NEW t \in Slots, r[t] > 1 PROVE \E u \in Slots : r[u] = r[t] - 1
    <2>0. t # s /\ rank[t] > 0 /\ rank[t] \in Nat /\ rank[s] \in Nat /\ rank[t] # rank[s] /\ r[s] = 1
        BY <1>1, <1>2, <1>4
    <2>1. CASE rank[s] = 0 \/ rank[t] < rank[s]
        <3>1. r[t] = rank[t] + 1
            BY <1>1, <2>0, <2>1
        <3>2. CASE rank[t] = 1
            BY <2>0, <3>1, <3>2
        <3>3. CASE rank[t] > 1
            <4>1. PICK u \in Slots : rank[u] = rank[t] - 1
                BY <3>3
            <4>2. rank[u] \in Nat /\ rank[u] > 0 /\ u # s /\ (rank[s] = 0 \/ rank[u] < rank[s])
                BY <2>0, <2>1, <3>3, <4>1
            <4>3. r[u] = rank[u] + 1
                BY <1>1, <4>2
            <4> QED
                BY <2>0, <3>1, <4>1, <4>2, <4>3
        <3> QED
            BY <2>0, <3>2, <3>3
    <2>2. CASE ~(rank[s] = 0 \/ rank[t] < rank[s])
        <3>1. r[t] = rank[t] /\ rank[t] > rank[s] /\ rank[s] > 0
            BY <1>1, <2>0, <2>2
        <3>2. PICK u \in Slots : rank[u] = rank[t] - 1
            BY <1>4, <3>1
        <3>3. CASE u # s
            <4>1. rank[u] \in Nat /\ rank[u] # rank[s]
                BY <2>0, <3>1, <3>2, <3>3
            <4>2. ~(rank[s] = 0 \/ rank[u] < rank[s])
                BY <2>0, <3>1, <3>2, <4>1
            <4>3. r[u] = rank[u]
                BY <1>1, <3>3, <4>2
            <4> QED
                BY <3>1, <3>2, <4>3
        <3>4. CASE u = s /\ rank[s] = 1
            BY <2>0, <3>1, <3>2, <3>4
        <3>5. CASE u = s /\ rank[s] > 1
            <4>1. PICK v \in Slots : rank[v] = rank[s] - 1
                BY <3>5
            <4>2. rank[v] \in Nat /\ v # s /\ rank[v] > 0 /\ rank[v] < rank[s]
                BY <2>0, <3>5, <4>1
            <4>3. r[v] = rank[v] + 1
                BY <1>1, <4>2
            <4> QED
                BY <2>0, <3>1, <3>2, <3>5, <4>1, <4>2, <4>3
        <3> QED
            BY <2>0, <3>1, <3>3, <3>4, <3>5
    <2> QED
        BY <2>1, <2>2
<1> QED
    BY <1>2, <1>3, <1>4 DEF r

\* The slot a key is given is the only one that holds it.
LEMMA PutSlotIsOwn ==
    ASSUME LruListConsistent, NEW k \in Keys, NEW E \in SUBSET Slots, PutSlot(k, E) # 0
    PROVE  \A t \in Slots : slotKey[t] = k => t = PutSlot(k, E)
<1>1. CASE Cached(k)
    <2>1. SlotOf(k) \in Slots /\ slotKey[SlotOf(k)] = k
        BY <1>1 DEF Cached, SlotOf
    <2> QED
        BY <1>1, <2>1, NoKeyAssumption DEF PutSlot, LruListConsistent
<1>2. CASE ~Cached(k)
    BY <1>2 DEF Cached
<1> QED
    BY <1>1, <1>2

\* ordered_cache::put keeps the list consistent.
LEMMA CachePutKeepsList ==
    ASSUME TypeCache, LruListConsistent, NEW k \in Keys, NEW v, NEW E \in SUBSET Slots, CachePut(k, v, E)
    PROVE  LruListConsistent'
<1>1. CASE PutSlot(k, E) = 0
    BY <1>1 DEF CachePut, cacheVars, LruListConsistent
<1>2. CASE PutSlot(k, E) # 0
    <2> DEFINE s == PutSlot(k, E)
    <2>1. s \in Slots /\ slotKey' = [slotKey EXCEPT ![s] = k] /\ rank' = ToFront(s)
        BY <1>2, PutSlotType DEF CachePut
    <2>2. \A t \in Slots : slotKey[t] = k => t = s
        BY <1>2, PutSlotIsOwn
    <2> HIDE DEF s
    <2>3. /\ \A t \in Slots : rank'[t] > 0 <=> t = s \/ rank[t] > 0
          /\ \A t, u \in Slots : rank'[t] = rank'[u] /\ rank'[t] > 0 => t = u
          /\ \A t \in Slots : rank'[t] > 1 => \E u \in Slots : rank'[u] = rank'[t] - 1
        BY <2>1, ToFrontKeepsRow DEF TypeCache, LruListConsistent
    <2>4. slotKey'[s] = k /\ \A t \in Slots : t # s => slotKey'[t] = slotKey[t]
        BY <2>1 DEF TypeCache
    <2>5. \A t, u \in Slots : slotKey'[t] = slotKey'[u] /\ slotKey'[t] # NoKey => t = u
        BY <2>1, <2>2, <2>4 DEF LruListConsistent
    <2>6. \A t \in Slots : slotKey'[t] # NoKey <=> rank'[t] > 0
        BY <2>1, <2>3, <2>4, NoKeyAssumption DEF LruListConsistent
    <2> QED
        BY <2>3, <2>5, <2>6 DEF LruListConsistent, Slots
<1> QED
    BY <1>1, <1>2

\* Every step keeps the list consistent.
LEMMA ListStep == ASSUME IInv, LruListConsistent, [Next]_vars PROVE LruListConsistent'
<1>1. CASE PutReserve \/ RemoveOomCache \/ GetFill
    <2>1. appKey \in Keys /\ TypeCache
        BY <1>1 DEF IInv, TypeOK, AppHolds, PutReserve, RemoveOomCache, GetFill, WritePcs, RemoveOomPcs, GetPcs
    <2>2. Evictable \in SUBSET Slots /\ {} \in SUBSET Slots
        BY DEF Evictable
    <2> QED
        BY <1>1, <2>1, <2>2, CachePutKeepsList DEF PutReserve, RemoveOomCache, GetFill
<1>2. ASSUME NEW k \in Keys, GetCall(k) PROVE LruListConsistent'
    <2>1. CASE Cached(k)
        <3> DEFINE s == SlotOf(k)
        <3>1. s \in Slots /\ slotKey[s] = k
            BY <2>1 DEF Cached, SlotOf
        <3>2. slotKey' = slotKey /\ rank' = ToFront(s)
            BY <1>2, <2>1 DEF GetCall, CachePromote
        <3> HIDE DEF s
        <3>3. /\ \A t \in Slots : rank'[t] > 0 <=> t = s \/ rank[t] > 0
              /\ \A t, u \in Slots : rank'[t] = rank'[u] /\ rank'[t] > 0 => t = u
              /\ \A t \in Slots : rank'[t] > 1 => \E u \in Slots : rank'[u] = rank'[t] - 1
            BY <3>1, <3>2, ToFrontKeepsRow DEF IInv, TypeOK, TypeCache, LruListConsistent
        <3>4. \A t \in Slots : slotKey'[t] # NoKey <=> rank'[t] > 0
            BY <3>1, <3>2, <3>3, NoKeyAssumption DEF LruListConsistent
        <3> QED
            BY <3>2, <3>3, <3>4 DEF LruListConsistent, Slots
    <2>2. CASE ~Cached(k)
        BY <1>2, <2>2 DEF GetCall, cacheVars, LruListConsistent
    <2> QED
        BY <2>1, <2>2
<1>3. CASE PutPoint \/ BgSwap
    BY <1>3 DEF PutPoint, BgSwap, LruListConsistent
<1>4. CASE CloseJoin \/ Crash
    BY <1>4 DEF CloseJoin, Crash, ProcessEnds, CacheDrop, LruListConsistent
<1>5. CASE UNCHANGED cacheVars
    BY <1>5 DEF cacheVars, LruListConsistent
<1>6. CASE UNCHANGED vars
    BY <1>5, <1>6 DEF vars
<1> QED
    BY <1>1, <1>2, <1>3, <1>4, <1>5, <1>6, CacheFrame

\* The cache's map and list always agree, with evictions, crashes and failed tree updates.
LEMMA ListHolds == Spec => [](IInv /\ LruListConsistent)
<1>1. Init => LruListConsistent
    BY DEF Init, CacheInit, LruListConsistent
<1> QED
    BY <1>1, ListStep, InitInv, NextInv, PTL DEF Spec

THEOREM ListAlwaysConsistent == Spec => []LruListConsistent
BY ListHolds, PTL

----------------------------------------------------------------------------
(***************************************************************************)
(* What a stretch of a log makes of a key.  The log is a parameter, so the *)
(* facts hold of it before and after a step.                               *)
(***************************************************************************)

\* LastOf, Effect and what Replayed gives key k with value v before, of any log.
LastIn(l, k, a, b) == {i \in a..b : l[i].key = k /\ \A j \in i + 1..b : l[j].key # k}
EffectIn(l, i) == IF l[i].remove THEN 0 ELSE i
After(l, k, v, a, b) ==
    IF LastIn(l, k, a, b) = {} THEN v ELSE EffectIn(l, CHOOSE i \in LastIn(l, k, a, b) : TRUE)

\* They are the model's.
LEMMA HistoryIs ==
    /\ \A k, a, b : LastOf(k, a, b) = LastIn(log, k, a, b)
    /\ \A i : Effect(i) = EffectIn(log, i)
    /\ \A t, to : \A k \in Keys : Replayed(t, to)[k] = After(log, k, t[k], released + 1, to)
BY DEF LastOf, LastIn, Effect, EffectIn, Replayed, After

\* Every set of numbers with an upper bound has a last one.
LEMMA LastExists ==
    ASSUME NEW b \in Int, NEW S \in SUBSET Int, S # {}, \A i \in S : i <= b
    PROVE  \E i \in S : \A j \in S : j <= i
<1> DEFINE T == {b - i : i \in S}
<1>1. T \subseteq Nat /\ T # {}
    <2>1. \A i \in S : i \in Int /\ i <= b /\ b - i \in Nat
        OBVIOUS
    <2> QED
        BY <2>1
<1>2. PICK x \in T : \A y \in T : <<y, x>> \notin WF!OpToRel(<, Nat)
    <2> HIDE DEF T
    <2> QED
        BY <1>1, WF!NatLessThanWellFounded, WF!WFMin, Zenon
<1>3. \A y \in T : ~(y < x)
    <2> SUFFICES ASSUME NEW y \in T, y < x PROVE FALSE
        OBVIOUS
    <2>1. <<y, x>> \in Nat \X Nat /\ <<y, x>>[1] = y /\ <<y, x>>[2] = x
        BY <1>1
    <2>2. <<y, x>> \in WF!OpToRel(<, Nat)
        BY <2>1 DEF WF!OpToRel
    <2> QED
        BY <2>2, <1>2
<1>4. PICK i \in S : x = b - i
    <2>1. x \in {b - i : i \in S}
        BY <1>2
    <2> HIDE DEF T
    <2> QED
        BY <2>1
<1>5. ASSUME NEW j \in S PROVE j <= i
    <2>1. b - j \in T
        BY <1>5
    <2>2. i \in Int /\ j \in Int
        BY <1>4, <1>5
    <2> QED
        BY <2>1, <2>2, <1>3, <1>4, SMTT(30)
<1> QED
    BY <1>5

\* A stretch with an entry of a key has a last one.
LEMMA LastInExists ==
    ASSUME NEW l, NEW k, NEW a \in Int, NEW b \in Int, NEW i \in a..b, l[i].key = k
    PROVE  \E m \in LastIn(l, k, a, b) : m >= i
<1> DEFINE S == {j \in a..b : l[j].key = k}
<1>1. i \in S /\ S \in SUBSET Int /\ \A j \in S : j <= b
    OBVIOUS
<1> HIDE DEF S
<1>2. PICK m \in S : \A j \in S : j <= m
    BY <1>1, LastExists
<1>3. m \in a..b /\ l[m].key = k /\ m >= i /\ m \in Int
    BY <1>1, <1>2 DEF S
<1>4. ASSUME NEW j \in m + 1..b, l[j].key = k PROVE FALSE
    <2>1. j \in a..b
        BY <1>3, <1>4
    <2>2. j \in S
        BY <1>4, <2>1 DEF S
    <2> QED
        BY <1>2, <1>3, <2>2
<1> QED
    BY <1>3, <1>4 DEF LastIn

\* It has only one.
LEMMA LastInIsOne ==
    ASSUME NEW l, NEW k, NEW a \in Int, NEW b \in Int, NEW i \in LastIn(l, k, a, b), NEW j \in LastIn(l, k, a, b)
    PROVE  i = j
<1>1. /\ i \in Int /\ j \in Int /\ i <= b /\ j <= b /\ l[i].key = k /\ l[j].key = k
      /\ \A m \in i + 1..b : l[m].key # k
      /\ \A m \in j + 1..b : l[m].key # k
    BY DEF LastIn
<1>2. ~(i < j)
    BY <1>1
<1>3. ~(j < i)
    BY <1>1
<1> QED
    BY <1>1, <1>2, <1>3

\* A stretch without an entry of the key leaves its value; another gives it its last entry's.
LEMMA AfterNone ==
    ASSUME NEW l, NEW k, NEW v, NEW a \in Int, NEW b \in Int, \A i \in a..b : l[i].key # k
    PROVE  LastIn(l, k, a, b) = {} /\ After(l, k, v, a, b) = v
<1>1. LastIn(l, k, a, b) = {}
    BY DEF LastIn
<1> QED
    BY <1>1 DEF After

LEMMA AfterLast ==
    ASSUME NEW l, NEW k, NEW v, NEW a \in Int, NEW b \in Int, NEW i \in LastIn(l, k, a, b)
    PROVE  After(l, k, v, a, b) = EffectIn(l, i)
<1>1. PICK j \in LastIn(l, k, a, b) : j = CHOOSE m \in LastIn(l, k, a, b) : TRUE
    OBVIOUS
<1>2. i = j
    BY LastInIsOne
<1> QED
    BY <1>1, <1>2 DEF After

\* The stretch holds an entry of the key or none.
LEMMA NoneOrLast ==
    ASSUME NEW l, NEW k, NEW a \in Int, NEW b \in Int
    PROVE  (\A i \in a..b : l[i].key # k) <=> LastIn(l, k, a, b) = {}
<1>1. ASSUME NEW i \in a..b, l[i].key = k PROVE LastIn(l, k, a, b) # {}
    BY <1>1, LastInExists
<1>2. ASSUME NEW i \in LastIn(l, k, a, b) PROVE i \in a..b /\ l[i].key = k
    BY DEF LastIn
<1> QED
    BY <1>1, <1>2

\* The last entry of a stretch that ends a longer one is the longer one's.
LEMMA LastOfEnd ==
    ASSUME NEW l, NEW k, NEW a \in Int, NEW b \in Int, NEW c \in Int, a <= c + 1,
           NEW i \in LastIn(l, k, c + 1, b)
    PROVE  i \in LastIn(l, k, a, b)
<1>1. i \in c + 1..b /\ i \in Int /\ l[i].key = k /\ \A j \in i + 1..b : l[j].key # k
    BY DEF LastIn
<1>2. i \in a..b
    BY <1>1
<1> QED
    BY <1>1, <1>2 DEF LastIn

\* With none in the end, the last entry of the beginning is that of the whole.
LEMMA LastOfBeginning ==
    ASSUME NEW l, NEW k, NEW a \in Int, NEW b \in Int, NEW c \in Int, a <= c + 1, c <= b,
           \A i \in c + 1..b : l[i].key # k
    PROVE  LastIn(l, k, a, c) = LastIn(l, k, a, b)
<1>1. ASSUME NEW i \in LastIn(l, k, a, c) PROVE i \in LastIn(l, k, a, b)
    <2>1. i \in a..c /\ i \in Int /\ l[i].key = k /\ \A j \in i + 1..c : l[j].key # k
        BY DEF LastIn
    <2>2. \A j \in i + 1..b : j \in i + 1..c \/ j \in c + 1..b
        BY <2>1
    <2>3. i \in a..b
        BY <2>1
    <2> QED
        BY <2>1, <2>2, <2>3 DEF LastIn
<1>2. ASSUME NEW i \in LastIn(l, k, a, b) PROVE i \in LastIn(l, k, a, c)
    <2>1. i \in a..b /\ i \in Int /\ l[i].key = k /\ \A j \in i + 1..b : l[j].key # k
        BY DEF LastIn
    <2>2. i \notin c + 1..b
        BY <2>1
    <2>3. i \in a..c
        BY <2>1, <2>2
    <2>4. \A j \in i + 1..c : j \in i + 1..b
        BY <2>1
    <2> QED
        BY <2>1, <2>3, <2>4 DEF LastIn
<1> QED
    BY <1>1, <1>2

\* Two stretches, one after the other, make what both make at once.
LEMMA AfterBoth ==
    ASSUME NEW l, NEW k, NEW v, NEW a \in Int, NEW b \in Int, NEW c \in Int, a <= c + 1, c <= b
    PROVE  After(l, k, After(l, k, v, a, c), c + 1, b) = After(l, k, v, a, b)
<1>1. CASE LastIn(l, k, c + 1, b) # {}
    <2>1. PICK i : i \in LastIn(l, k, c + 1, b)
        BY <1>1
    <2>2. i \in LastIn(l, k, a, b)
        BY <2>1, LastOfEnd
    <2>3. c + 1 \in Int
        OBVIOUS
    <2>4. After(l, k, After(l, k, v, a, c), c + 1, b) = EffectIn(l, i)
        BY <2>1, <2>3, AfterLast
    <2> QED
        BY <2>2, <2>4, AfterLast
<1>2. CASE LastIn(l, k, c + 1, b) = {}
    <2>1. c + 1 \in Int
        OBVIOUS
    <2>2. \A i \in c + 1..b : l[i].key # k
        BY <1>2, <2>1, NoneOrLast
    <2>3. LastIn(l, k, a, c) = LastIn(l, k, a, b)
        BY <2>2, LastOfBeginning
    <2> QED
        BY <1>2, <2>3 DEF After
<1> QED
    BY <1>1, <1>2

\* Only the entries of the stretch count.
LEMMA AfterSame ==
    ASSUME NEW l, NEW m, NEW k, NEW v, NEW a \in Int, NEW b \in Int, \A i \in a..b : l[i] = m[i]
    PROVE  LastIn(l, k, a, b) = LastIn(m, k, a, b) /\ After(l, k, v, a, b) = After(m, k, v, a, b)
<1>1. \A i \in a..b : \A j \in i + 1..b : j \in a..b
    OBVIOUS
<1>2. LastIn(l, k, a, b) = LastIn(m, k, a, b)
    BY <1>1 DEF LastIn
<1>3. CASE LastIn(l, k, a, b) = {}
    BY <1>2, <1>3 DEF After
<1>4. CASE LastIn(l, k, a, b) # {}
    <2>1. PICK i \in LastIn(l, k, a, b) : i = CHOOSE j \in LastIn(l, k, a, b) : TRUE
        BY <1>4
    <2>2. i \in a..b
        BY DEF LastIn
    <2>3. l[i] = m[i]
        BY <2>2
    <2> QED
        BY <1>2, <1>4, <2>1, <2>3 DEF After, EffectIn
<1> QED
    BY <1>2, <1>3, <1>4

----------------------------------------------------------------------------
(***************************************************************************)
(* With a cache slot for every key and no failed tree update, no put takes *)
(* the slot of another key and no batch is rolled back.  Then the cache,   *)
(* the log and the two trees hold one map.  The invariant says where the   *)
(* value of a key is, from the number of the last entry the background     *)
(* thread is done with (Passed) and of the last one a slot was pointed to  *)
(* (Pointed): a slot has the last entry of its key in between, or what the *)
(* tree has (SlotsCurrent); the tree has what the entries up to Passed     *)
(* make, unless later entries or a put in progress hide it (TreeCurrent);  *)
(* and the log with the tree of the last commit has what was acknowledged  *)
(* (LogCurrent).                                                           *)
(***************************************************************************)

RoomForAll ==
    /\ IsFiniteSet(Keys) /\ Cardinality(Keys) <= CacheSize
    /\ MaxOom = 0

Passed ==
    IF bgPc \in {"apply", "swap"} THEN cur - 1
    ELSE IF bgPc = "commit" THEN batchEnd ELSE released

Pointed == IF appPc = "point" THEN Len(log) - 1 ELSE Len(log)

\* The last entry of k in between, as a set of at most one number.
Pending(k) == LastIn(log, k, Passed + 1, Pointed)

\* What the entries before make of k, and what all entries make of it.
Moved(k) == After(log, k, durable[k], released + 1, Passed)
Kept(k) == After(log, k, durable[k], released + 1, Len(log))

\* The application thread has put a null pointer in its slot.
ReservePcs == {"checkOom", "produce", "full", "point"}

Reserved(k) == \E s \in Slots : slotKey[s] = k /\ slotVal[s] = Null

NoFailure ==
    /\ ~bgException
    /\ bgPc \in {"top", "take", "apply", "swap", "commit", "done"}
    /\ bgPc \notin {"apply", "swap", "commit"} => batchEnd = released
    /\ appPc \notin RemoveOomPcs \cup {"rmNotify", "fault"}

AppKnows ==
    /\ appPc \in {"idle", "closeNotify", "join"} => appOp = "none"
    /\ appPc \in GetPcs => appOp = "get"
    /\ appPc \in {"load", "validate"} => slotKey[appSlot] = appKey
    /\ appPc \in {"find", "fill"} => ~Cached(appKey)
    /\ appPc = "fill" => container[appKey] # 0 /\ appPtr = InLeaf(container[appKey])
    /\ appPc = "checkOom" => appSlot # 0
    /\ appPc = "publish" =>
           /\ published < Len(log)
           /\ log[Len(log)] = [key |-> appKey, slot |-> appSlot, remove |-> appOp = "remove"]
    /\ appPc = "down" => \A s \in Slots : slotKey[s] = NoKey

NullIsReserved ==
    \A s \in Slots : slotKey[s] # NoKey /\ slotVal[s] = Null => appPc \in ReservePcs /\ appSlot = s

\* The slot an entry names is still its key's.
EntriesFit ==
    Running => \A i \in released + 1..Len(log) : slotKey[log[i].slot] = log[i].key

\* Slot s holds the last pending entry, or what the tree has, which is then as good.
Current(s) ==
    \/ \E i \in Pending(slotKey[s]) : slotVal[s] = Expected(i)
    \/ /\ slotVal[s] = TombstonePersistent /\ container[slotKey[s]] = 0
       /\ \A i \in Pending(slotKey[s]) : log[i].remove
    \/ /\ slotVal[s] = InLeaf(container[slotKey[s]]) /\ container[slotKey[s]] # 0
       /\ Pending(slotKey[s]) = {}

SlotsCurrent == \A s \in Slots : slotKey[s] # NoKey /\ slotVal[s] # Null => Current(s)

\* Between the tree's update and the exchange of the slot.
AtSwap ==
    bgPc = "swap" =>
        /\ container[log[cur].key] = EffectIn(log, cur)
        /\ slotVal[log[cur].slot] # TombstonePersistent

TreeCurrent ==
    Running => \A k \in Keys : ~Reserved(k) /\ Pending(k) = {} => container[k] = Moved(k)

LogCurrent == \A k \in Keys : ~Writing(k) => Kept(k) = acked[k]

\* What the steps of one thread or the other preserve together.
Holdings == NullIsReserved /\ EntriesFit /\ SlotsCurrent /\ AtSwap /\ TreeCurrent /\ LogCurrent

KInv == IInv /\ LruListConsistent /\ NoFailure /\ AppKnows /\ Holdings

\* The numbers in order.
LEMMA Bounds ==
    ASSUME IInv, NoFailure
    PROVE  /\ Len(log) \in Nat /\ released \in Nat /\ published \in Nat /\ batchEnd \in Nat /\ cur \in Nat
           /\ Passed \in Int /\ Pointed \in Int
           /\ released <= Passed /\ Passed <= published /\ published <= Pointed /\ Pointed <= Len(log)
           /\ bgPc \in {"apply", "swap"} => cur \in Passed + 1..Pointed /\ Passed = cur - 1 /\ cur <= batchEnd
           /\ batchEnd <= published
<1>1. /\ Len(log) \in Nat /\ released \in Nat /\ published \in Nat /\ batchEnd \in Nat /\ cur \in Nat
      /\ released <= published /\ published <= Len(log)
    BY DEF IInv, TypeOK, TypeMemory, TypeBg
<1>2. released <= batchEnd /\ batchEnd <= published /\ (bgPc \in {"apply", "swap"} => released < cur /\ cur <= batchEnd)
    BY DEF IInv, BgBounds
<1>3. appPc = "point" => published < Len(log)
    BY DEF IInv, AtCallback
<1>4. Pointed \in Int /\ published <= Pointed /\ Pointed <= Len(log)
    BY <1>1, <1>3 DEF Pointed
<1>5. Passed \in Int /\ released <= Passed /\ Passed <= published
    BY <1>1, <1>2 DEF Passed
<1>6. bgPc \in {"apply", "swap"} => cur \in Passed + 1..Pointed /\ Passed = cur - 1
    BY <1>1, <1>2, <1>4 DEF Passed
<1> QED
    BY <1>1, <1>2, <1>4, <1>5, <1>6

\* The entries not yet consumed are entries.
LEMMA EntryIs ==
    ASSUME IInv, NEW i \in 1..Len(log)
    PROVE  log[i].key \in Keys /\ log[i].slot \in Slots /\ log[i].remove \in BOOLEAN
<1>1. log \in Seq(EntryType)
    BY DEF IInv, TypeOK, TypeMemory
<1>2. log[i] \in EntryType
    BY <1>1
<1> QED
    BY <1>2 DEF EntryType

----------------------------------------------------------------------------
(* No failure, and what the application thread knows of its key *)

LEMMA NoFailureStep == ASSUME RoomForAll, KInv, Next PROVE NoFailure'
<1> USE DEF KInv, NoFailure, RemoveOomPcs
<1>1. CASE GetLoad
    <2>1. appSlot \in Slots /\ appKey \in Keys /\ slotKey[appSlot] = appKey
        BY <1>1 DEF GetLoad, IInv, AppHolds, AppKnows, GetPcs
    <2>2. slotVal[appSlot] # Null
        BY <1>1, <2>1, NoKeyAssumption DEF GetLoad, Holdings, NullIsReserved, ReservePcs
    <2> QED
        BY <1>1, <2>2 DEF GetLoad, logVars, bgVars, syncVars
<1>2. CASE PutCheckOom \/ PutFull
    BY <1>2 DEF PutCheckOom, PutFull, OutOfMemory, AppGoto, logVars, bgVars, syncVars
<1>3. CASE BgTop \/ BgTake \/ BgApply \/ BgSwap \/ BgCommit
    BY <1>3 DEF BgTop, BgTake, BgApply, BgSwap, BgCommit, BgGoto, NextEntry, AfterEntry, appVars, syncVars, logVars
<1>4. CASE BgOom
    BY <1>4 DEF BgOom, RoomForAll, IInv, TypeOK
<1>5. CASE CloseNotify
    BY <1>5 DEF CloseNotify, NotifyBg, AppGoto, logVars, syncVars
<1>6. CASE CloseJoin \/ Crash
    BY <1>6 DEF CloseJoin, Crash, ProcessEnds
<1>7. CASE Recover
    BY <1>7 DEF Recover, appVars, syncVars, IInv, AppHolds
<1>8. CASE Open
    BY <1>8 DEF Open, AppReturn, logVars, syncVars, IInv, AppHolds
<1> QED
    BY <1>1, <1>2, <1>3, <1>4, <1>5, <1>6, <1>7, <1>8
    DEF Next, AppCalls, AppStep, BgStep, PutCall, RemoveCall, GetCall, CloseStop, AppCall, AppGoto, AppReturn,
        PutReserve, PutProduce, PutPoint, PutPublish, RemoveOomCache, RemoveOomErase, RemoveOomClear,
        RemoveOomNotify, GetValidate, GetFind, GetFill, GetReturn, BgReport, BgLock, BgCheck, BgWait,
        BgSpuriousWake, logVars, bgVars, syncVars

----------------------------------------------------------------------------
(* The slot a key is given is its own, or one no key ever had *)

LEMMA RoomForOne ==
    ASSUME RoomForAll, TypeCache, LruListConsistent, NEW k \in Keys, ~Cached(k)
    PROVE  FreeSlots # {}
<1> SUFFICES ASSUME FreeSlots = {} PROVE FALSE
    OBVIOUS
<1> DEFINE T == Keys \ {k}
           f == [s \in Slots |-> slotKey[s]]
<1>1. IsFiniteSet(T) /\ Cardinality(T) = Cardinality(Keys) - 1 /\ Cardinality(Keys) \in Nat
    BY FS_RemoveElement, FS_CardinalityType DEF RoomForAll
<1>2. IsFiniteSet(Slots) /\ Cardinality(Slots) = CacheSize
    BY FS_Interval, CacheSizeAssumption DEF Slots
<1>3. Cardinality(T) < Cardinality(Slots)
    BY <1>1, <1>2, CacheSizeAssumption DEF RoomForAll
<1>4. \A s \in Slots : slotKey[s] \in T
    BY DEF FreeSlots, Cached, TypeCache
<1>5. f \in [Slots -> T]
    BY <1>4
<1> HIDE DEF f, T
<1>6. PICK s, t \in Slots : s # t /\ f[s] = f[t]
    BY <1>1, <1>2, <1>3, <1>5, FS_PigeonHole
<1>7. slotKey[s] = slotKey[t] /\ slotKey[s] # NoKey
    BY <1>4, <1>6, NoKeyAssumption DEF f, T
<1> QED
    BY <1>6, <1>7 DEF LruListConsistent

LEMMA SlotGiven ==
    ASSUME RoomForAll, TypeCache, LruListConsistent, NEW k \in Keys, NEW E \in SUBSET Slots
    PROVE  /\ PutSlot(k, E) \in Slots
           /\ Cached(k) => slotKey[PutSlot(k, E)] = k
           /\ ~Cached(k) => slotKey[PutSlot(k, E)] = NoKey
<1>1. CASE Cached(k)
    BY <1>1 DEF PutSlot, SlotOf, Cached
<1>2. CASE ~Cached(k)
    <2>1. FreeSlots # {}
        BY <1>2, RoomForOne
    <2>2. PICK s \in FreeSlots : s = CHOOSE t \in FreeSlots : TRUE
        BY <2>1
    <2> QED
        BY <1>2, <2>1, <2>2 DEF PutSlot, FreeSlots
<1> QED
    BY <1>1, <1>2

\* What ordered_cache::put leaves: only that slot changed.
LEMMA CachePutWithRoom ==
    ASSUME RoomForAll, TypeCache, LruListConsistent, NEW k \in Keys, NEW v, NEW E \in SUBSET Slots,
           CachePut(k, v, E)
    PROVE  /\ PutSlot(k, E) \in Slots
           /\ slotKey[PutSlot(k, E)] \in {k, NoKey} /\ (~Cached(k) => slotKey[PutSlot(k, E)] = NoKey)
           /\ slotKey' = [slotKey EXCEPT ![PutSlot(k, E)] = k]
           /\ slotVal' = [slotVal EXCEPT ![PutSlot(k, E)] = v]
           /\ slotKey'[PutSlot(k, E)] = k /\ slotVal'[PutSlot(k, E)] = v
           /\ \A t \in Slots : t # PutSlot(k, E) =>
                  slotKey'[t] = slotKey[t] /\ slotVal'[t] = slotVal[t] /\ slotKey[t] # k
<1> DEFINE s == PutSlot(k, E)
<1>1. s \in Slots /\ (Cached(k) => slotKey[s] = k) /\ (~Cached(k) => slotKey[s] = NoKey)
    BY SlotGiven
<1>2. s # 0
    BY <1>1, ZeroIsNoSlot
<1>3. slotKey' = [slotKey EXCEPT ![s] = k] /\ slotVal' = [slotVal EXCEPT ![s] = v]
    BY <1>2 DEF CachePut
<1>4. \A t \in Slots : slotKey[t] = k => t = s
    BY <1>2, PutSlotIsOwn
<1> HIDE DEF s
<1> QED
    BY <1>1, <1>3, <1>4 DEF TypeCache, s

\* What the application thread knows stays true whatever the background thread does.
LEMMA AppKnowsStep == ASSUME RoomForAll, KInv, Next PROVE AppKnows'
<1> USE DEF KInv, AppKnows
<1>a. TypeCache /\ TypeMemory /\ TypeApp
    BY DEF IInv, TypeOK
<1>b. appPc # "rmNotify" /\ appPc \notin RemoveOomPcs /\ ~bgException
    BY DEF NoFailure
<1>1. ASSUME NEW k \in Keys, PutCall(k) \/ RemoveCall(k) PROVE AppKnows'
    BY <1>1 DEF PutCall, RemoveCall, AppCall, GetPcs
<1>2. ASSUME NEW k \in Keys, GetCall(k) PROVE AppKnows'
    <2>1. CASE Cached(k)
        <3>1. SlotOf(k) \in Slots /\ slotKey[SlotOf(k)] = k
            BY <2>1 DEF Cached, SlotOf
        <3> QED
            BY <1>2, <2>1, <3>1 DEF GetCall, CachePromote, GetPcs
    <2>2. CASE ~Cached(k)
        BY <1>2, <2>2 DEF GetCall, GetPcs, cacheVars, Cached
    <2> QED
        BY <2>1, <2>2
<1>3. CASE CloseStop
    BY <1>3 DEF CloseStop, AppGoto, GetPcs
<1>4. CASE PutReserve
    <2>1. appKey \in Keys
        BY <1>4 DEF PutReserve, IInv, AppHolds, WritePcs
    <2>2. PutSlot(appKey, Evictable) # 0
        BY <1>a, <2>1, SlotGiven, ZeroIsNoSlot DEF Evictable
    <2> QED
        BY <1>4, <2>2 DEF PutReserve, GetPcs
<1>5. CASE PutCheckOom
    BY <1>5, <1>b DEF PutCheckOom, AppGoto, GetPcs
<1>6. CASE PutProduce \/ PutFull
    BY <1>6, <1>b DEF PutProduce, PutFull, AppGoto, GetPcs
<1>7. CASE PutPoint
    BY <1>7 DEF PutPoint, AppGoto, GetPcs, IInv, AtCallback, logVars
<1>8. CASE PutPublish
    BY <1>8 DEF PutPublish, AppReturn, GetPcs
<1>9. CASE GetLoad
    BY <1>9 DEF GetLoad, GetPcs, cacheVars, logVars, treeVars
<1>10. CASE GetValidate
    BY <1>10 DEF GetValidate, AppGoto, GetPcs, cacheVars, logVars, treeVars
<1>11. CASE GetFind
    BY <1>11 DEF GetFind, GetPcs, cacheVars, logVars, treeVars, Cached
<1>12. CASE GetFill
    BY <1>12 DEF GetFill, AppGoto, GetPcs
<1>13. CASE GetReturn
    BY <1>13 DEF GetReturn, AppReturn, GetPcs
<1>14. CASE CloseNotify
    BY <1>14 DEF CloseNotify, AppGoto, GetPcs
<1>15. CASE CloseJoin \/ Crash
    BY <1>15 DEF CloseJoin, Crash, ProcessEnds, CacheDrop, GetPcs
<1>16. CASE Open
    BY <1>16 DEF Open, AppReturn, GetPcs
<1>17. CASE BgApply
    <2>1. container' = container \/ container' = [container EXCEPT ![log[cur].key] = Effect(cur)]
        BY <1>17 DEF BgApply
    <2>2. ~Cached(appKey) /\ appPc = "fill" => container'[appKey] = container[appKey]
        <3> SUFFICES ASSUME ~Cached(appKey), appPc = "fill", bgPc = "apply"
                     PROVE  log[cur].key # appKey
            <4>1. appPc = "fill" => appKey \in Keys
                BY DEF IInv, AppHolds, GetPcs
            <4> QED
                BY <1>a, <1>17, <2>1, <4>1 DEF BgApply, TypeMemory
        <3>1. cur \in released + 1..Len(log) /\ cur \in 1..Len(log)
            BY Bounds
        <3>2. slotKey[log[cur].slot] = log[cur].key
            BY <3>1 DEF Holdings, EntriesFit, Running
        <3> QED
            BY <3>1, <3>2, EntryIs DEF Cached
    <2> QED
        BY <1>17, <2>2 DEF BgApply, appVars, cacheVars, logVars, Cached
<1>18. CASE Recover
    BY <1>18 DEF Recover, appVars, cacheVars, GetPcs
<1>19. CASE BgSwap
    BY <1>19 DEF BgSwap, appVars, logVars, treeVars, Cached
<1>20. CASE BgCommit
    BY <1>20 DEF BgCommit, appVars, cacheVars, Cached
<1>21. CASE UNCHANGED <<appVars, cacheVars, logVars, container>>
    BY <1>21 DEF appVars, cacheVars, logVars, Cached
<1>22. CASE RemoveOomCache \/ RemoveOomErase \/ RemoveOomClear \/ RemoveOomNotify \/ BgOom
    <2>1. ~BgOom
        BY DEF BgOom, RoomForAll, IInv, TypeOK
    <2> QED
        BY <1>b, <1>22, <2>1 DEF RemoveOomCache, RemoveOomErase, RemoveOomClear, RemoveOomNotify, RemoveOomPcs
<1> QED
    BY <1>1, <1>2, <1>3, <1>4, <1>5, <1>6, <1>7, <1>8, <1>9, <1>10, <1>11, <1>12, <1>13, <1>14, <1>15,
       <1>16, <1>17, <1>18, <1>19, <1>20, <1>21, <1>22
    DEF Next, AppCalls, AppStep, BgStep, BgTop, BgTake, BgReport, BgLock, BgCheck, BgWait, BgSpuriousWake, treeVars

----------------------------------------------------------------------------
(* The steps that move nothing *)

Quiet ==
    /\ UNCHANGED <<slotKey, slotVal, log, released, durable, container, acked>>
    /\ Passed' = Passed /\ Pointed' = Pointed
    /\ Running' <=> Running
    /\ appPc \in ReservePcs => appPc' \in ReservePcs /\ appSlot' = appSlot
    /\ \A k \in Keys : Writing(k) => Writing(k)'
    /\ bgPc' = "swap" => bgPc = "swap" /\ cur' = cur

LEMMA QuietStep ==
    ASSUME RoomForAll, KInv, [Next]_vars
    PROVE  \/ PutReserve \/ PutProduce \/ PutPoint \/ PutPublish \/ GetFill
           \/ BgApply \/ BgSwap \/ BgCommit
           \/ CloseJoin \/ Crash \/ Recover \/ Open
           \/ Quiet
<1> USE DEF KInv, NoFailure, Quiet
<1>a. ~BgOom
    BY DEF BgOom, RoomForAll, IInv, TypeOK
<1>1. ASSUME NEW k \in Keys, PutCall(k) \/ RemoveCall(k) PROVE Quiet
    BY <1>1 DEF PutCall, RemoveCall, AppCall, Running, Writing, Passed, Pointed, ReservePcs, AppKnows,
                cacheVars, logVars, treeVars, bgVars
<1>2. ASSUME NEW k \in Keys, GetCall(k) PROVE Quiet
    <2>1. UNCHANGED <<slotKey, slotVal>>
        BY <1>2 DEF GetCall, cacheVars, CachePromote
    <2>2. appOp = "none"
        BY <1>2 DEF GetCall, AppKnows
    <2> QED
        BY <1>2, <2>1, <2>2 DEF GetCall, Running, Writing, Passed, Pointed, ReservePcs, logVars, treeVars, bgVars
<1>3. CASE CloseStop \/ CloseNotify
    BY <1>3 DEF CloseStop, CloseNotify, NotifyBg, AppGoto, Running, Writing, Passed, Pointed, ReservePcs,
                cacheVars, logVars, treeVars, bgVars
<1>4. CASE PutCheckOom \/ PutFull
    <2>1. appPc' \in {"reserve", "produce"} /\ UNCHANGED <<appOp, appKey, appSlot>>
          /\ (appPc = "checkOom" => appPc' = "produce") /\ appPc \in {"checkOom", "full"}
        BY <1>4 DEF PutCheckOom, PutFull, AppGoto, AppKnows
    <2>2. appPc' = "produce"
        BY <1>4, <2>1 DEF PutFull, PutCheckOom, AppGoto
    <2>3. UNCHANGED <<cacheVars, logVars, treeVars, bgVars, acked>>
        BY <1>4 DEF PutCheckOom, PutFull
    <2> QED
        BY <2>1, <2>2, <2>3 DEF Running, Writing, Passed, Pointed, ReservePcs, cacheVars, logVars, treeVars, bgVars
<1>5. CASE GetLoad \/ GetValidate \/ GetFind \/ GetReturn
    <2>1. appPc' # "down" /\ appPc \in GetPcs /\ appPc' # "point"
          /\ UNCHANGED <<cacheVars, logVars, treeVars, bgVars, acked>>
        BY <1>5 DEF GetLoad, GetValidate, GetFind, GetReturn, AppGoto, AppReturn, GetPcs
    <2>2. appOp = "get"
        BY <2>1 DEF AppKnows
    <2> QED
        BY <2>1, <2>2 DEF Running, Writing, Passed, Pointed, ReservePcs, GetPcs, cacheVars, logVars, treeVars, bgVars
<1>6. CASE BgTop \/ BgTake
    <2>1. UNCHANGED <<cacheVars, logVars, treeVars, appVars, acked>>
        BY <1>6 DEF BgTop, BgTake
    <2>2. bgPc \in {"top", "take"} /\ bgPc' \in {"top", "take", "apply", "done"}
          /\ (bgPc' = "apply" => cur' = released + 1)
        BY <1>6 DEF BgTop, BgTake, BgGoto
    <2>3. Passed = released /\ Passed' = released
        <3>1. released \in Int /\ released' = released
            BY <2>1, Bounds DEF logVars
        <3> QED
            BY <2>2, <3>1 DEF Passed
    <2> QED
        BY <2>1, <2>2, <2>3 DEF Running, Writing, Pointed, ReservePcs, cacheVars, logVars, treeVars, appVars
<1>7. CASE UNCHANGED vars
    BY <1>7 DEF vars, cacheVars, logVars, treeVars, appVars, bgVars, Running, Writing, Passed, Pointed, ReservePcs
<1> QED
    BY <1>a, <1>1, <1>2, <1>3, <1>4, <1>5, <1>6, <1>7
    DEF Next, AppCalls, AppStep, BgStep, RemoveOomCache, RemoveOomErase, RemoveOomClear, RemoveOomNotify,
        BgReport, BgLock, BgCheck, BgWait, BgSpuriousWake, RemoveOomPcs

\* What the history of a key depends on.
LEMMA PendingFrame ==
    ASSUME UNCHANGED log, Passed' = Passed, Pointed' = Pointed
    PROVE  \A k \in Keys : Pending(k)' = Pending(k)
BY DEF Pending

LEMMA KeptFrame ==
    ASSUME UNCHANGED <<log, durable, released>>
    PROVE  \A k \in Keys : Kept(k)' = Kept(k)
BY DEF Kept

LEMMA MovedFrame ==
    ASSUME UNCHANGED <<log, durable, released>>, Passed' = Passed
    PROVE  \A k \in Keys : Moved(k)' = Moved(k)
BY DEF Moved

LEMMA QuietHolds == ASSUME KInv, Quiet PROVE Holdings'
<1> USE DEF KInv, Holdings, Quiet
<1>a. \A k \in Keys : Pending(k)' = Pending(k) /\ Kept(k)' = Kept(k) /\ Moved(k)' = Moved(k)
    BY PendingFrame, KeptFrame, MovedFrame
<1>b. \A i : Expected(i)' = Expected(i)
    BY DEF Expected
<1>c. Len(log') = Len(log) /\ slotKey \in [Slots -> Keys \cup {NoKey}]
    BY DEF IInv, TypeOK, TypeCache
<1>1. NullIsReserved'
    BY DEF NullIsReserved
<1>2. EntriesFit'
    BY <1>c DEF EntriesFit
<1>3. SlotsCurrent'
    BY <1>a, <1>b, <1>c DEF SlotsCurrent, Current
<1>4. AtSwap'
    BY DEF AtSwap
<1>5. TreeCurrent'
    BY <1>a DEF TreeCurrent, Reserved
<1>6. LogCurrent'
    BY <1>a DEF LogCurrent
<1> QED
    BY <1>1, <1>2, <1>3, <1>4, <1>5, <1>6

----------------------------------------------------------------------------
(* A put: the slot is reserved, the entry produced, the slot pointed to it, the entry published *)

\* A cached key's slot is the one its unconsumed entries name, and no other.
LEMMA EntrySlot ==
    ASSUME KInv, Running, NEW i \in released + 1..Len(log)
    PROVE  /\ log[i].key \in Keys /\ log[i].slot \in Slots /\ slotKey[log[i].slot] = log[i].key
           /\ log[i].remove \in BOOLEAN
           /\ \A s \in Slots : slotKey[s] = log[i].key => s = log[i].slot
<1>1. i \in 1..Len(log)
    BY Bounds DEF KInv
<1>2. log[i].key \in Keys /\ log[i].slot \in Slots /\ slotKey[log[i].slot] = log[i].key
    BY <1>1, EntryIs DEF KInv, Holdings, EntriesFit
<1> QED
    BY <1>1, <1>2, EntryIs, NoKeyAssumption DEF KInv, LruListConsistent

\* A pending entry is unconsumed.
LEMMA PendingIs ==
    ASSUME KInv, NEW k, NEW i \in Pending(k)
    PROVE  /\ i \in released + 1..Len(log) /\ i \in Passed + 1..Pointed /\ i \in 1..Len(log) /\ i \in Nat
           /\ log[i].key = k /\ \A j \in i + 1..Pointed : log[j].key # k
<1>1. /\ i \in Passed + 1..Pointed /\ log[i].key = k
      /\ \A j \in i + 1..Pointed : log[j].key # k
    BY DEF Pending, LastIn
<1> QED
    BY <1>1, Bounds DEF KInv

\* A key with an unconsumed entry is cached, so one that is not has none pending.
LEMMA UncachedIsMoved ==
    ASSUME KInv, Running, NEW k \in Keys, ~Cached(k)
    PROVE  Pending(k) = {}
BY PendingIs, EntrySlot DEF Cached

LEMMA PutReserveHolds == ASSUME RoomForAll, KInv, PutReserve PROVE Holdings'
<1> USE DEF KInv, Holdings
<1>a. appKey \in Keys /\ Running /\ Running' /\ Writing(appKey)
    BY DEF PutReserve, IInv, AppHolds, WritePcs, Running, Writing
<1>b. /\ UNCHANGED <<log, released, durable, container, acked, bgPc, cur, batchEnd, appOp, appKey>>
      /\ appPc = "reserve" /\ appPc' = "checkOom"
    BY DEF PutReserve, logVars, treeVars, bgVars
<1>c. Passed' = Passed /\ Pointed' = Pointed
    BY <1>b DEF Passed, Pointed
<1>d. \A k \in Keys : Pending(k)' = Pending(k) /\ Kept(k)' = Kept(k) /\ Moved(k)' = Moved(k)
    BY <1>b, <1>c, PendingFrame, KeptFrame, MovedFrame
<1> DEFINE s == PutSlot(appKey, Evictable)
<1>e. /\ s \in Slots /\ slotKey[s] \in {appKey, NoKey} /\ slotKey'[s] = appKey /\ slotVal'[s] = Null
      /\ \A t \in Slots : t # s => slotKey'[t] = slotKey[t] /\ slotVal'[t] = slotVal[t] /\ slotKey[t] # appKey
      /\ appSlot' = s
    BY <1>a, CachePutWithRoom DEF PutReserve, IInv, TypeOK, Evictable
<1> HIDE DEF s
<1>f. \A t \in Slots : t # s /\ slotKey[t] # NoKey => slotVal[t] # Null /\ slotKey[t] \in Keys
    BY <1>b DEF NullIsReserved, ReservePcs, IInv, TypeOK, TypeCache
<1>g. \A i : Expected(i)' = Expected(i)
    BY <1>b DEF Expected
<1>1. NullIsReserved'
    BY <1>b, <1>e, <1>f DEF NullIsReserved, ReservePcs
<1>2. EntriesFit'
    <2> SUFFICES ASSUME NEW i \in released + 1..Len(log) PROVE slotKey'[log[i].slot] = log[i].key
        BY <1>b DEF EntriesFit
    <2>1. log[i].slot \in Slots /\ slotKey[log[i].slot] = log[i].key /\ log[i].key \in Keys
        BY <1>a, EntrySlot
    <2> QED
        BY <2>1, <1>e, NoKeyAssumption
<1>3. SlotsCurrent'
    <2> SUFFICES ASSUME NEW t \in Slots, t # s, slotKey[t] # NoKey PROVE Current(t)'
        BY <1>e DEF SlotsCurrent
    <2>1. Current(t) /\ slotKey[t] \in Keys /\ slotKey'[t] = slotKey[t] /\ slotVal'[t] = slotVal[t]
        BY <1>e, <1>f DEF SlotsCurrent
    <2>2. Pending(slotKey[t])' = Pending(slotKey[t])
        BY <2>1, <1>b, <1>c DEF Pending
    <2> QED
        BY <2>1, <2>2, <1>b, <1>g DEF Current
<1>4. AtSwap'
    <2>1. bgPc = "swap" => log[cur].slot \in Slots
        BY <1>a, EntrySlot, Bounds
    <2>2. Null # TombstonePersistent
        BY DEF Null, TombstonePersistent
    <2> QED
        BY <1>b, <1>e, <2>1, <2>2 DEF AtSwap
<1>5. TreeCurrent'
    <2> SUFFICES ASSUME NEW k \in Keys, ~Reserved(k)', Pending(k)' = {} PROVE container'[k] = Moved(k)'
        BY DEF TreeCurrent
    <2>1. k # appKey
        BY <1>e DEF Reserved
    <2>2. ~Reserved(k)
        BY <1>e, <1>f, <2>1, NoKeyAssumption DEF Reserved
    <2> QED
        BY <1>a, <1>b, <1>d, <2>2 DEF TreeCurrent
<1>6. LogCurrent'
    BY <1>b, <1>d DEF LogCurrent, Writing
<1> QED
    BY <1>1, <1>2, <1>3, <1>4, <1>5, <1>6

\* What the last entry of a stretch adds to it.
LEMMA LastWithOneMore ==
    ASSUME NEW l, NEW k, NEW a \in Int, NEW b \in Int, a <= b
    PROVE  /\ l[b].key # k => LastIn(l, k, a, b) = LastIn(l, k, a, b - 1)
           /\ l[b].key = k => LastIn(l, k, a, b) = {b}
<1>1. CASE l[b].key # k
    <2>1. b - 1 \in Int /\ a <= (b - 1) + 1 /\ b - 1 <= b /\ \A i \in (b - 1) + 1..b : l[i].key # k
        BY <1>1
    <2>2. LastIn(l, k, a, b - 1) = LastIn(l, k, a, b)
        BY <2>1, LastOfBeginning
    <2> QED
        BY <1>1, <2>2
<1>2. CASE l[b].key = k
    <2>1. b \in a..b /\ \A j \in b + 1..b : FALSE
        OBVIOUS
    <2>2. b \in LastIn(l, k, a, b)
        BY <1>2, <2>1 DEF LastIn
    <2>3. \A i \in LastIn(l, k, a, b) : i = b
        BY <2>2, LastInIsOne
    <2> QED
        BY <1>2, <2>2, <2>3
<1> QED
    BY <1>1, <1>2

LEMMA AfterOneMore ==
    ASSUME NEW l, NEW k, NEW v, NEW a \in Int, NEW b \in Int, a <= b
    PROVE  /\ l[b].key # k => After(l, k, v, a, b) = After(l, k, v, a, b - 1)
           /\ l[b].key = k => After(l, k, v, a, b) = EffectIn(l, b)
<1>0. b - 1 \in Int
    OBVIOUS
<1>1. CASE l[b].key # k
    <2>1. LastIn(l, k, a, b) = LastIn(l, k, a, b - 1)
        BY <1>1, LastWithOneMore
    <2>2. CASE LastIn(l, k, a, b) = {}
        BY <1>1, <2>1, <2>2 DEF After
    <2>3. ASSUME NEW i \in LastIn(l, k, a, b) PROVE After(l, k, v, a, b) = After(l, k, v, a, b - 1)
        <3>1. After(l, k, v, a, b) = EffectIn(l, i)
            BY AfterLast
        <3>2. After(l, k, v, a, b - 1) = EffectIn(l, i)
            BY <1>0, <2>1, AfterLast
        <3> QED
            BY <3>1, <3>2
    <2> QED
        BY <1>1, <2>2, <2>3
<1>2. CASE l[b].key = k
    <2>1. b \in LastIn(l, k, a, b)
        BY <1>2, LastWithOneMore
    <2>2. After(l, k, v, a, b) = EffectIn(l, b)
        BY <2>1, AfterLast
    <2> QED
        BY <1>2, <2>2
<1> QED
    BY <1>1, <1>2

LEMMA PutProduceHolds == ASSUME RoomForAll, KInv, PutProduce PROVE Holdings'
<1> USE DEF KInv, Holdings
<1>a. /\ UNCHANGED <<slotKey, slotVal, released, durable, container, acked, bgPc, cur, batchEnd, appOp, appKey, appSlot>>
      /\ appPc = "produce" /\ appPc' \in {"full", "point"}
    BY DEF PutProduce, cacheVars, treeVars, bgVars, AppGoto
<1>b. appKey \in Keys /\ appSlot \in Slots /\ slotKey[appSlot] = appKey /\ Running /\ Running' /\ Writing(appKey)
    BY <1>a DEF IInv, AppHolds, WritePcs, Running, Writing
<1>c. Len(log) \in Nat /\ released \in Nat /\ released <= Len(log) /\ Passed \in Int /\ Passed <= Len(log)
      /\ released <= Passed /\ Pointed = Len(log) /\ Passed + 1 \in Int /\ released + 1 \in Int
    BY <1>a, Bounds DEF Pointed
<1>d. \/ UNCHANGED log /\ appPc' = "full"
      \/ /\ appPc' = "point" /\ Len(log') = Len(log) + 1 /\ \A i \in 1..Len(log) : log'[i] = log[i]
         /\ log'[Len(log) + 1].key = appKey /\ log'[Len(log) + 1].slot = appSlot
    <2>1. CASE LogFull
        BY <2>1 DEF PutProduce, AppGoto
    <2>2. CASE ~LogFull
        <3> DEFINE e == [key |-> appKey, slot |-> appSlot, remove |-> appOp = "remove"]
        <3>1. log' = Append(log, e) /\ appPc' = "point"
            BY <2>2 DEF PutProduce, AppGoto
        <3>2. e.key = appKey /\ e.slot = appSlot
            OBVIOUS
        <3>3. log \in Seq(EntryType) /\ e \in EntryType
            BY <1>a, <1>b DEF IInv, TypeOK, TypeMemory, EntryType
        <3> HIDE DEF e
        <3> QED
            BY <3>1, <3>2, <3>3
    <2> QED
        BY <2>1, <2>2
<1>e. Pointed' = Pointed /\ Passed' = Passed
    BY <1>a, <1>c, <1>d DEF Pointed, Passed
<1>f. \A i \in 1..Len(log) : log'[i] = log[i]
    BY <1>d
<1>g. \A k : Pending(k)' = Pending(k) /\ Moved(k)' = Moved(k)
    <2> TAKE k
    <2>0. Passed + 1 \in Int /\ released + 1 \in Int /\ Passed \in Int /\ Len(log) \in Int
        BY <1>c
    <2>1. \A i \in Passed + 1..Len(log) : log[i] = log'[i]
        BY <1>c, <1>f
    <2>2. LastIn(log, k, Passed + 1, Len(log)) = LastIn(log', k, Passed + 1, Len(log))
        BY <2>0, <2>1, AfterSame
    <2>3. After(log, k, durable[k], released + 1, Passed) = After(log', k, durable[k], released + 1, Passed)
        <3>1. \A i \in released + 1..Passed : log[i] = log'[i]
            BY <1>c, <1>f
        <3> QED
            BY <2>0, <3>1, AfterSame
    <2> QED
        BY <1>a, <1>c, <1>e, <2>2, <2>3 DEF Pending, Moved
<1>h. ASSUME NEW k \in Keys, k # appKey PROVE Kept(k)' = Kept(k)
    <2>1. CASE UNCHANGED log
        BY <1>a, <2>1, KeptFrame
    <2>2. CASE Len(log') = Len(log) + 1 /\ log'[Len(log) + 1].key = appKey
        <3>1. \A i \in released + 1..Len(log) : log[i] = log'[i]
            BY <1>c, <1>f
        <3>2. After(log, k, durable[k], released + 1, Len(log)) = After(log', k, durable[k], released + 1, Len(log))
            BY <1>c, <3>1, AfterSame
        <3>3. After(log', k, durable[k], released + 1, Len(log')) = After(log', k, durable[k], released + 1, Len(log))
            <4>1. released + 1 <= Len(log') /\ Len(log') \in Int /\ log'[Len(log')].key # k /\ Len(log') - 1 = Len(log)
                BY <1>c, <1>h, <2>2
            <4> QED
                BY <1>c, <4>1, AfterOneMore, SMTT(30)
        <3> QED
            BY <1>a, <2>2, <3>2, <3>3 DEF Kept
    <2> QED
        BY <1>d, <2>1, <2>2
<1>1. NullIsReserved'
    BY <1>a, <1>d DEF NullIsReserved, ReservePcs
<1>2. EntriesFit'
    <2> SUFFICES ASSUME NEW i \in released + 1..Len(log') PROVE slotKey[log'[i].slot] = log'[i].key
        BY <1>a DEF EntriesFit
    <2>1. CASE i \in released + 1..Len(log)
        <3>1. log'[i] = log[i]
            BY <1>c, <1>f, <2>1
        <3> QED
            BY <1>b, <2>1, <3>1 DEF EntriesFit
    <2>2. CASE i \notin released + 1..Len(log)
        <3>1. i = Len(log) + 1 /\ log'[i].key = appKey /\ log'[i].slot = appSlot
            BY <1>c, <1>d, <2>2
        <3> QED
            BY <1>b, <3>1
    <2> QED
        BY <2>1, <2>2
<1>3. SlotsCurrent'
    <2> SUFFICES ASSUME NEW s \in Slots, slotKey[s] # NoKey, slotVal[s] # Null PROVE Current(s)'
        BY <1>a DEF SlotsCurrent
    <2>1. Current(s)
        BY DEF SlotsCurrent
    <2>2. \A i \in Pending(slotKey[s]) : log'[i] = log[i]
        BY PendingIs, <1>f
    <2>3. \A i \in Pending(slotKey[s]) : Expected(i)' = Expected(i)
        BY <2>2 DEF Expected
    <2> QED
        BY <2>1, <2>2, <2>3, <1>a, <1>g DEF Current
<1>4. AtSwap'
    <2>1. bgPc = "swap" => log'[cur] = log[cur]
        BY <1>f, Bounds
    <2> QED
        BY <1>a, <2>1 DEF AtSwap, EffectIn
<1>5. TreeCurrent'
    BY <1>a, <1>b, <1>g DEF TreeCurrent, Reserved
<1>6. LogCurrent'
    <2> SUFFICES ASSUME NEW k \in Keys, ~Writing(k)' PROVE Kept(k)' = acked[k]
        BY <1>a DEF LogCurrent
    <2>1. ~Writing(k) /\ k # appKey
        BY <1>a, <1>b DEF Writing
    <2> QED
        BY <1>h, <2>1 DEF LogCurrent
<1> QED
    BY <1>1, <1>2, <1>3, <1>4, <1>5, <1>6

LEMMA PutPointHolds == ASSUME RoomForAll, KInv, PutPoint PROVE Holdings'
<1> USE DEF KInv, Holdings
<1> DEFINE n == Len(log)
<1>a. /\ UNCHANGED <<slotKey, log, released, durable, container, acked, bgPc, cur, batchEnd, appOp, appKey, appSlot>>
      /\ appPc = "point" /\ appPc' = "publish"
      /\ slotVal' = [slotVal EXCEPT ![appSlot] = Expected(n)]
    BY DEF PutPoint, logVars, treeVars, bgVars, AppGoto
<1>b. appKey \in Keys /\ appSlot \in Slots /\ slotKey[appSlot] = appKey /\ Running /\ Running' /\ Writing(appKey)
    BY <1>a DEF IInv, AppHolds, WritePcs, Running, Writing
<1>c. /\ n \in Nat /\ log[n].key = appKey /\ Passed \in Int /\ Passed < n /\ Pointed = n - 1
      /\ Passed' = Passed /\ Pointed' = n
    <2>1. published < n /\ log[n].key = appKey
        BY <1>a DEF IInv, AtCallback
    <2> QED
        BY <1>a, <2>1, Bounds DEF Pointed, Passed
<1>d. slotVal'[appSlot] = Expected(n) /\ \A s \in Slots : s # appSlot => slotVal'[s] = slotVal[s]
    BY <1>a, <1>b DEF IInv, TypeOK, TypeCache
<1>e. \A s \in Slots : slotKey[s] # NoKey /\ s # appSlot => slotVal[s] # Null /\ slotKey[s] # appKey /\ slotKey[s] \in Keys
    BY <1>b, NoKeyAssumption DEF NullIsReserved, LruListConsistent, IInv, TypeOK, TypeCache
<1>f. Pending(appKey)' = {n} /\ \A k : k # appKey => Pending(k)' = Pending(k)
    <2>1. \A k : Pending(k)' = LastIn(log, k, Passed + 1, n) /\ Pending(k) = LastIn(log, k, Passed + 1, n - 1)
        BY <1>a, <1>c DEF Pending
    <2>2. Passed + 1 \in Int /\ Passed + 1 <= n /\ n \in Int
        BY <1>c
    <2>3. \A k : /\ log[n].key # k => LastIn(log, k, Passed + 1, n) = LastIn(log, k, Passed + 1, n - 1)
                 /\ log[n].key = k => LastIn(log, k, Passed + 1, n) = {n}
        <3> HIDE DEF n
        <3> QED
            BY <2>2, LastWithOneMore
    <2> QED
        BY <1>a, <1>c, <2>1, <2>3
<1>g. \A k \in Keys : Kept(k)' = Kept(k) /\ Moved(k)' = Moved(k)
    BY <1>a, <1>c, KeptFrame, MovedFrame
<1>h. \A i : Expected(i)' = Expected(i) /\ Expected(i) # Null /\ Expected(i) # TombstonePersistent
    BY <1>a DEF Expected, TombstoneVolatile, TombstonePersistent, Null, InLog
<1> HIDE DEF n
<1>1. NullIsReserved'
    BY <1>a, <1>d, <1>e, <1>h DEF NullIsReserved
<1>2. EntriesFit'
    BY <1>a, <1>b DEF EntriesFit
<1>3. SlotsCurrent'
    <2> SUFFICES ASSUME NEW s \in Slots, slotKey[s] # NoKey PROVE Current(s)'
        BY <1>a DEF SlotsCurrent
    <2>1. CASE s = appSlot
        <3>1. Pending(slotKey[s])' = {n}
            BY <1>a, <1>b, <1>f, <2>1
        <3> QED
            BY <1>d, <1>h, <2>1, <3>1 DEF Current
    <2>2. CASE s # appSlot
        <3>1. Current(s) /\ slotKey[s] # appKey /\ slotVal'[s] = slotVal[s] /\ slotKey'[s] = slotKey[s]
            BY <1>a, <1>d, <1>e, <2>2 DEF SlotsCurrent
        <3>2. Pending(slotKey[s])' = Pending(slotKey[s])
            BY <1>a, <1>f, <3>1
        <3> QED
            BY <1>a, <1>h, <3>1, <3>2 DEF Current
    <2> QED
        BY <2>1, <2>2
<1>4. AtSwap'
    <2>1. bgPc = "swap" => log[cur].slot \in Slots
        BY <1>b, EntrySlot, Bounds
    <2> QED
        BY <1>a, <1>d, <1>h, <2>1 DEF AtSwap
<1>5. TreeCurrent'
    <2> SUFFICES ASSUME NEW k \in Keys, Pending(k)' = {} PROVE container'[k] = Moved(k)'
        BY DEF TreeCurrent
    <2>1. k # appKey
        BY <1>a, <1>f
    <2>2. ~Reserved(k)
        BY <1>b, <1>e, <2>1, NoKeyAssumption DEF Reserved
    <2>3. Pending(k) = {}
        BY <1>f, <2>1
    <2> QED
        BY <1>a, <1>b, <1>g, <2>2, <2>3 DEF TreeCurrent
<1>6. LogCurrent'
    BY <1>a, <1>g DEF LogCurrent, Writing
<1> QED
    BY <1>1, <1>2, <1>3, <1>4, <1>5, <1>6

LEMMA PutPublishHolds == ASSUME RoomForAll, KInv, PutPublish PROVE Holdings'
<1> USE DEF KInv, Holdings
<1>a. /\ UNCHANGED <<slotKey, slotVal, log, released, durable, container, bgPc, cur, batchEnd>>
      /\ appPc = "publish" /\ appPc' = "idle" /\ appOp' = "none"
      /\ acked' = [acked EXCEPT ![appKey] = Effect(Len(log))]
    BY DEF PutPublish, cacheVars, treeVars, bgVars, AppReturn
<1>b. appKey \in Keys /\ Running /\ Running' /\ appOp \in {"put", "remove"}
    BY <1>a DEF IInv, AppHolds, WritePcs, Running
<1>c. Passed' = Passed /\ Pointed' = Pointed
    BY <1>a DEF Passed, Pointed
<1>d. \A k : Pending(k)' = Pending(k)
    BY <1>a, <1>c DEF Pending
<1>e. \A k \in Keys : Kept(k)' = Kept(k) /\ Moved(k)' = Moved(k)
    BY <1>a, <1>c, KeptFrame, MovedFrame
<1>f. Kept(appKey) = Effect(Len(log))
    <2>1. /\ published < Len(log) /\ log[Len(log)].key = appKey
          /\ Len(log) \in Nat /\ released \in Nat /\ released <= published /\ published \in Nat
        BY <1>a, Bounds DEF AppKnows
    <2>2. /\ Len(log) \in released + 1..Len(log) /\ released + 1 \in Int
          /\ \A j \in Len(log) + 1..Len(log) : FALSE
        BY <2>1
    <2>3. Len(log) \in LastIn(log, appKey, released + 1, Len(log))
        BY <2>1, <2>2 DEF LastIn
    <2>4. Kept(appKey) = EffectIn(log, Len(log))
        BY <2>1, <2>2, <2>3, AfterLast DEF Kept
    <2> QED
        BY <2>4, HistoryIs
<1>1. NullIsReserved'
    BY <1>a DEF NullIsReserved, ReservePcs
<1>2. EntriesFit'
    BY <1>a, <1>b DEF EntriesFit
<1>3. SlotsCurrent'
    BY <1>a, <1>d DEF SlotsCurrent, Current, Expected
<1>4. AtSwap'
    BY <1>a DEF AtSwap
<1>5. TreeCurrent'
    BY <1>a, <1>b, <1>d, <1>e DEF TreeCurrent, Reserved
<1>6. LogCurrent'
    <2> SUFFICES ASSUME NEW k \in Keys PROVE Kept(k) = acked'[k]
        BY <1>e DEF LogCurrent
    <2>1. CASE k = appKey
        BY <1>a, <1>b, <1>f, <2>1 DEF IInv, TypeOK, TypeMemory
    <2>2. CASE k # appKey
        BY <1>a, <1>b, <2>2 DEF IInv, TypeOK, TypeMemory, LogCurrent, Writing
    <2> QED
        BY <2>1, <2>2
<1> QED
    BY <1>1, <1>2, <1>3, <1>4, <1>5, <1>6

----------------------------------------------------------------------------
(* The fill after a miss: a key that is not cached has nothing pending, so its leaf is current *)

LEMMA GetFillHolds == ASSUME RoomForAll, KInv, GetFill PROVE Holdings'
<1> USE DEF KInv, Holdings
<1>a. /\ UNCHANGED <<log, released, durable, container, acked, bgPc, cur, batchEnd, appOp, appKey, appSlot>>
      /\ appPc = "fill" /\ appPc' = "return"
    BY DEF GetFill, logVars, treeVars, bgVars, AppGoto
<1>b. /\ appKey \in Keys /\ Running /\ Running' /\ ~Cached(appKey)
      /\ container[appKey] # 0 /\ appPtr = InLeaf(container[appKey])
    BY <1>a DEF IInv, AppHolds, GetPcs, Running, AppKnows
<1>c. Passed' = Passed /\ Pointed' = Pointed
    BY <1>a DEF Passed, Pointed
<1>d. \A k : Pending(k)' = Pending(k)
    BY <1>a, <1>c DEF Pending
<1>e. \A k \in Keys : Kept(k)' = Kept(k) /\ Moved(k)' = Moved(k)
    BY <1>a, <1>c, KeptFrame, MovedFrame
<1> DEFINE s == PutSlot(appKey, Evictable)
<1>f. /\ s \in Slots /\ slotKey[s] = NoKey /\ slotKey'[s] = appKey /\ slotVal'[s] = InLeaf(container[appKey])
      /\ \A t \in Slots : t # s => slotKey'[t] = slotKey[t] /\ slotVal'[t] = slotVal[t]
    <2>1. CachePut(appKey, appPtr, Evictable) /\ TypeCache /\ Evictable \in SUBSET Slots
        BY DEF GetFill, IInv, TypeOK, Evictable
    <2>2. /\ s \in Slots /\ slotKey[s] = NoKey /\ slotKey'[s] = appKey /\ slotVal'[s] = appPtr
          /\ \A t \in Slots : t # s => slotKey'[t] = slotKey[t] /\ slotVal'[t] = slotVal[t]
        BY <1>b, <2>1, CachePutWithRoom
    <2> QED
        BY <1>b, <2>2
<1> HIDE DEF s
<1>g. Pending(appKey) = {}
    BY <1>b, UncachedIsMoved
<1>h. InLeaf(container[appKey]) # Null /\ InLeaf(container[appKey]) # TombstonePersistent
    BY DEF InLeaf, Null, TombstonePersistent
<1>i. \A i \in released + 1..Len(log) : log[i].slot \in Slots /\ log[i].slot # s
    BY <1>b, <1>f, EntrySlot, NoKeyAssumption
<1>1. NullIsReserved'
    BY <1>a, <1>f, <1>h DEF NullIsReserved, ReservePcs
<1>2. EntriesFit'
    BY <1>a, <1>b, <1>f, <1>i DEF EntriesFit
<1>3. SlotsCurrent'
    <2> SUFFICES ASSUME NEW t \in Slots, slotKey'[t] # NoKey, slotVal'[t] # Null PROVE Current(t)'
        BY DEF SlotsCurrent
    <2>1. CASE t = s
        BY <1>a, <1>b, <1>d, <1>f, <1>g, <2>1 DEF Current
    <2>2. CASE t # s
        <3>1. Current(t) /\ slotVal'[t] = slotVal[t] /\ slotKey'[t] = slotKey[t]
            BY <1>f, <2>2 DEF SlotsCurrent
        <3>2. Pending(slotKey[t])' = Pending(slotKey[t])
            BY <1>a, <1>c, <3>1 DEF Pending
        <3> QED
            BY <1>a, <3>1, <3>2 DEF Current, Expected
    <2> QED
        BY <2>1, <2>2
<1>4. AtSwap'
    <2>1. bgPc = "swap" => cur \in released + 1..Len(log)
        BY Bounds
    <2> QED
        BY <1>a, <1>f, <1>i, <2>1 DEF AtSwap
<1>5. TreeCurrent'
    <2> SUFFICES ASSUME NEW k \in Keys, Pending(k)' = {} PROVE container'[k] = Moved(k)'
        BY DEF TreeCurrent
    <2>1. ~Reserved(k)
        BY <1>a, NoKeyAssumption DEF Reserved, NullIsReserved, ReservePcs
    <2> QED
        BY <1>a, <1>b, <1>d, <1>e, <2>1 DEF TreeCurrent
<1>6. LogCurrent'
    BY <1>a, <1>e DEF LogCurrent, Writing
<1> QED
    BY <1>1, <1>2, <1>3, <1>4, <1>5, <1>6

----------------------------------------------------------------------------
(* The background thread goes past an entry *)

LEMMA LastWithOneLess ==
    ASSUME NEW l, NEW k, NEW a \in Int, NEW b \in Int, a <= b
    PROVE  /\ l[a].key # k => LastIn(l, k, a + 1, b) = LastIn(l, k, a, b)
           /\ l[a].key = k =>
                  \/ LastIn(l, k, a + 1, b) = {} /\ LastIn(l, k, a, b) = {a}
                  \/ LastIn(l, k, a + 1, b) # {} /\ LastIn(l, k, a + 1, b) = LastIn(l, k, a, b)
<1>1. a + 1 \in Int /\ a <= (a + 1) + 1
    OBVIOUS
<1>2. LastIn(l, k, a + 1, b) \subseteq LastIn(l, k, a, b)
    <2> SUFFICES ASSUME NEW i \in LastIn(l, k, a + 1, b) PROVE i \in LastIn(l, k, a, b)
        OBVIOUS
    <2> QED
        BY LastOfEnd
<1>3. \A i \in LastIn(l, k, a, b) : i # a => i \in LastIn(l, k, a + 1, b)
    <2> SUFFICES ASSUME NEW i \in LastIn(l, k, a, b), i # a PROVE i \in LastIn(l, k, a + 1, b)
        OBVIOUS
    <2>1. i \in a..b /\ i \in Int /\ l[i].key = k /\ \A j \in i + 1..b : l[j].key # k
        BY DEF LastIn
    <2>2. i \in a + 1..b
        BY <2>1
    <2> QED
        BY <2>1, <2>2 DEF LastIn
<1>4. CASE l[a].key # k
    <2>1. a \notin LastIn(l, k, a, b)
        BY <1>4 DEF LastIn
    <2> QED
        BY <1>2, <1>3, <1>4, <2>1
<1>5. CASE l[a].key = k
    <2>1. CASE LastIn(l, k, a + 1, b) = {}
        <3>1. LastIn(l, k, a, b) # {}
            <4>1. a \in a..b
                OBVIOUS
            <4> QED
                BY <1>5, <4>1, LastInExists
        <3> QED
            BY <1>3, <1>5, <2>1, <3>1
    <2>2. CASE LastIn(l, k, a + 1, b) # {}
        <3>1. PICK i : i \in LastIn(l, k, a + 1, b)
            BY <2>2
        <3>2. i \in a + 1..b /\ i \in LastIn(l, k, a, b)
            BY <1>2, <3>1 DEF LastIn
        <3>3. a \notin LastIn(l, k, a, b)
            BY <3>2, LastInIsOne
        <3> QED
            BY <1>2, <1>3, <1>5, <2>2, <3>3
    <2> QED
        BY <2>1, <2>2
<1> QED
    BY <1>4, <1>5

\* What changes when entry cur counts as passed.
LEMMA OnePassed ==
    ASSUME KInv, bgPc \in {"apply", "swap"}, UNCHANGED <<log, durable, released>>,
           Passed' = cur, Pointed' = Pointed, NEW k \in Keys
    PROVE  /\ log[cur].key # k => Pending(k)' = Pending(k) /\ Moved(k)' = Moved(k)
           /\ log[cur].key = k =>
                  /\ Moved(k)' = EffectIn(log, cur)
                  /\ \/ Pending(k)' = {} /\ Pending(k) = {cur}
                     \/ Pending(k)' # {} /\ Pending(k)' = Pending(k)
<1>1. /\ cur \in Nat /\ Passed \in Int /\ Pointed \in Int /\ released \in Nat /\ Passed = cur - 1
      /\ Passed + 1 = cur /\ cur <= Pointed /\ released + 1 <= cur
    BY Bounds DEF KInv
<1>2. Pending(k) = LastIn(log, k, cur, Pointed) /\ Pending(k)' = LastIn(log, k, cur + 1, Pointed)
    BY <1>1 DEF Pending
<1>3. Moved(k) = After(log, k, durable[k], released + 1, cur - 1)
    BY <1>1 DEF Moved
<1>4. Moved(k)' = After(log, k, durable[k], released + 1, cur)
    BY DEF Moved
<1>5. cur \in Int /\ released + 1 \in Int
    BY <1>1
<1>6. /\ log[cur].key # k => Moved(k)' = Moved(k)
      /\ log[cur].key = k => Moved(k)' = EffectIn(log, cur)
    BY <1>1, <1>3, <1>4, <1>5, AfterOneMore
<1>7. /\ log[cur].key # k => Pending(k)' = Pending(k)
      /\ log[cur].key = k => \/ Pending(k)' = {} /\ Pending(k) = {cur}
                             \/ Pending(k)' # {} /\ Pending(k)' = Pending(k)
    BY <1>1, <1>2, <1>5, LastWithOneLess
<1> QED
    BY <1>6, <1>7

\* Where the thread is after the entry.
LEMMA NextPassed ==
    ASSUME KInv, bgPc \in {"apply", "swap"}, NextEntry, UNCHANGED batchEnd
    PROVE  Passed' = cur /\ bgPc' # "swap"
<1>1. cur \in Nat
    BY Bounds DEF KInv
<1> QED
    BY <1>1 DEF NextEntry, AfterEntry, Passed

\* The entry the thread is at has a key and a slot that is the key's alone.
LEMMA AtEntry ==
    ASSUME KInv, bgPc \in {"apply", "swap"}
    PROVE  /\ Running /\ cur \in released + 1..Len(log) /\ cur \in Nat
           /\ log[cur].key \in Keys /\ log[cur].slot \in Slots /\ slotKey[log[cur].slot] = log[cur].key
           /\ log[cur].remove \in BOOLEAN
           /\ \A s \in Slots : slotKey[s] = log[cur].key => s = log[cur].slot
           /\ Pending(log[cur].key) # {}
<1>1. Running
    BY DEF KInv, IInv, AppHolds, Running
<1>2. cur \in released + 1..Len(log) /\ cur \in Passed + 1..Pointed /\ cur \in Nat
    BY Bounds DEF KInv
<1>3. Passed + 1 \in Int /\ Pointed \in Int
    BY Bounds DEF KInv
<1>4. Pending(log[cur].key) # {}
    BY <1>2, <1>3, LastInExists DEF Pending
<1> QED
    BY <1>1, <1>2, <1>4, EntrySlot

\* An entry its slot does not have is skipped: a later entry is pending, or the key is being
\* put, or the slot and the tree say that the key was removed, and so does the entry.
LEMMA BgSkipHolds ==
    ASSUME RoomForAll, KInv, BgApply, slotVal[log[cur].slot] # Expected(cur)
    PROVE  Holdings'
<1> USE DEF KInv, Holdings
<1> DEFINE key == log[cur].key
           s == log[cur].slot
<1>a. /\ UNCHANGED <<slotKey, slotVal, log, released, durable, container, acked, batchEnd, appPc, appOp, appKey, appSlot>>
      /\ bgPc = "apply" /\ NextEntry
    BY DEF BgApply, cacheVars, logVars, appVars
<1>b. /\ Running /\ Running' /\ key \in Keys /\ s \in Slots /\ slotKey[s] = key
      /\ log[cur].remove \in BOOLEAN /\ \A t \in Slots : slotKey[t] = key => t = s
    BY <1>a, AtEntry DEF Running
<1>c. Passed' = cur /\ Pointed' = Pointed /\ bgPc' # "swap"
    BY <1>a, NextPassed DEF Pointed
<1>d. \A k \in Keys :
          /\ key # k => Pending(k)' = Pending(k) /\ Moved(k)' = Moved(k)
          /\ key = k =>
                  /\ Moved(k)' = EffectIn(log, cur)
                  /\ \/ Pending(k)' = {} /\ Pending(k) = {cur}
                     \/ Pending(k)' # {} /\ Pending(k)' = Pending(k)
    BY <1>a, <1>c, OnePassed
<1>e. \A k \in Keys : Kept(k)' = Kept(k)
    BY <1>a, KeptFrame
<1> HIDE DEF key, s
<1>f. slotVal[s] # Null /\ Pending(key) = {cur} =>
          slotVal[s] = TombstonePersistent /\ container[key] = 0 /\ log[cur].remove
    <2> SUFFICES ASSUME slotVal[s] # Null, Pending(key) = {cur}
                 PROVE  slotVal[s] = TombstonePersistent /\ container[key] = 0 /\ log[cur].remove
        OBVIOUS
    <2>1. Current(s)
        BY <1>b, NoKeyAssumption DEF SlotsCurrent
    <2> QED
        BY <1>b, <2>1 DEF Current, s
<1>1. NullIsReserved'
    BY <1>a DEF NullIsReserved
<1>2. EntriesFit'
    BY <1>a, <1>b DEF EntriesFit
<1>3. SlotsCurrent'
    <2> SUFFICES ASSUME NEW t \in Slots, slotKey[t] # NoKey, slotVal[t] # Null PROVE Current(t)'
        BY <1>a DEF SlotsCurrent
    <2>1. Current(t) /\ slotKey[t] \in Keys /\ slotKey'[t] = slotKey[t]
        BY <1>a DEF SlotsCurrent, IInv, TypeOK, TypeCache
    <2>2. CASE Pending(slotKey[t])' = Pending(slotKey[t])
        BY <1>a, <2>1, <2>2 DEF Current, Expected
    <2>3. CASE Pending(slotKey[t])' # Pending(slotKey[t])
        <3>1. slotKey[t] = key /\ Pending(key) = {cur} /\ Pending(slotKey[t])' = {}
            <4>1. \A k \in Keys : k = slotKey[t] /\ key # k => Pending(slotKey[t])' = Pending(slotKey[t])
                BY <1>a, <1>d
            <4>2. slotKey[t] = key
                BY <2>1, <2>3, <4>1
            <4>3. Pending(slotKey[t])' = LastIn(log, key, Passed' + 1, Pointed')
                BY <1>a, <2>1, <4>2 DEF Pending
            <4> QED
                BY <1>a, <1>b, <1>d, <2>1, <2>3, <4>2, <4>3 DEF Pending, key
        <3>2. t = s
            BY <1>b, <3>1
        <3> QED
            BY <1>a, <1>b, <1>f, <2>1, <3>1, <3>2 DEF Current
    <2> QED
        BY <2>2, <2>3
<1>4. AtSwap'
    BY <1>c DEF AtSwap
<1>5. TreeCurrent'
    <2> SUFFICES ASSUME NEW k \in Keys, ~Reserved(k)', Pending(k)' = {} PROVE container[k] = Moved(k)'
        BY <1>a DEF TreeCurrent
    <2>0. ~Reserved(k)
        BY <1>a DEF Reserved
    <2>1. CASE k # key
        BY <1>b, <1>d, <2>0, <2>1 DEF TreeCurrent
    <2>2. CASE k = key
        <3>1. Pending(k) = {cur} /\ Moved(k)' = EffectIn(log, cur)
            BY <1>d, <2>2
        <3>2. slotVal[s] # Null
            BY <1>b, <2>0, <2>2 DEF Reserved
        <3>3. container[k] = 0 /\ log[cur].remove
            BY <1>f, <2>2, <3>1, <3>2
        <3> QED
            BY <3>1, <3>3 DEF EffectIn
    <2> QED
        BY <2>1, <2>2
<1>6. LogCurrent'
    BY <1>a, <1>e DEF LogCurrent, Writing
<1> QED
    BY <1>1, <1>2, <1>3, <1>4, <1>5, <1>6

\* An entry its slot has is applied to the tree; it stays pending until the slot is exchanged.
LEMMA BgApplyHolds ==
    ASSUME RoomForAll, KInv, BgApply, slotVal[log[cur].slot] = Expected(cur)
    PROVE  Holdings'
<1> USE DEF KInv, Holdings
<1> DEFINE key == log[cur].key
           s == log[cur].slot
<1>a. /\ UNCHANGED <<slotKey, slotVal, log, released, durable, acked, batchEnd, cur, appPc, appOp, appKey, appSlot>>
      /\ bgPc = "apply" /\ bgPc' = "swap"
      /\ container' = [container EXCEPT ![key] = Effect(cur)]
    BY DEF BgApply, cacheVars, logVars, appVars
<1>b. /\ Running /\ Running' /\ key \in Keys /\ s \in Slots /\ slotKey[s] = key
      /\ log[cur].remove \in BOOLEAN /\ \A t \in Slots : slotKey[t] = key => t = s
      /\ Pending(key) # {}
    BY <1>a, AtEntry DEF Running
<1>c. Passed' = Passed /\ Pointed' = Pointed
    BY <1>a DEF Passed, Pointed
<1>d. \A k \in Keys : Pending(k)' = Pending(k) /\ Kept(k)' = Kept(k) /\ Moved(k)' = Moved(k)
    BY <1>a, <1>c, PendingFrame, KeptFrame, MovedFrame
<1>e. container'[key] = EffectIn(log, cur) /\ \A k \in Keys : k # key => container'[k] = container[k]
    BY <1>a, <1>b, HistoryIs DEF IInv, TypeOK, TypeMemory
<1>f. slotVal[s] = Expected(cur) /\ Expected(cur) # TombstonePersistent
    BY DEF Expected, InLog, TombstoneVolatile, TombstonePersistent
<1>g. \A i, j : Expected(i) # InLeaf(j)
    BY DEF Expected, InLog, TombstoneVolatile, InLeaf
<1>1. NullIsReserved'
    BY <1>a DEF NullIsReserved
<1>2. EntriesFit'
    BY <1>a, <1>b DEF EntriesFit
<1>3. SlotsCurrent'
    <2> SUFFICES ASSUME NEW t \in Slots, slotKey[t] # NoKey, slotVal[t] # Null PROVE Current(t)'
        BY <1>a DEF SlotsCurrent
    <2>1. Current(t) /\ slotKey[t] \in Keys /\ slotKey'[t] = slotKey[t]
        BY <1>a DEF SlotsCurrent, IInv, TypeOK, TypeCache
    <2>2. Pending(slotKey[t])' = Pending(slotKey[t])
        BY <1>a, <1>c, <2>1 DEF Pending
    <2> HIDE DEF key, s
    <2>3. CASE slotKey[t] # key
        BY <1>a, <1>e, <2>1, <2>2, <2>3 DEF Current, Expected
    <2>4. CASE slotKey[t] = key
        <3>1. t = s
            BY <1>b, <2>4
        <3>2. \E i \in Pending(slotKey[t]) : slotVal[t] = Expected(i)
            BY <1>f, <1>g, <2>1, <3>1 DEF Current
        <3> QED
            BY <1>a, <2>2, <3>2 DEF Current, Expected
    <2> QED
        BY <2>3, <2>4
<1>4. AtSwap'
    BY <1>a, <1>e, <1>f DEF AtSwap
<1>5. TreeCurrent'
    <2> SUFFICES ASSUME NEW k \in Keys, ~Reserved(k)', Pending(k)' = {} PROVE container'[k] = Moved(k)'
        BY DEF TreeCurrent
    <2>1. ~Reserved(k) /\ Pending(k) = {} /\ Moved(k)' = Moved(k)
        BY <1>a, <1>d DEF Reserved
    <2>2. k # key
        BY <1>b, <2>1
    <2> QED
        BY <1>b, <1>e, <2>1, <2>2 DEF TreeCurrent
<1>6. LogCurrent'
    BY <1>a, <1>d DEF LogCurrent, Writing
<1> QED
    BY <1>1, <1>2, <1>3, <1>4, <1>5, <1>6

\* The exchange: a slot that still has the entry gets what the tree has; one that does not has a
\* later entry, or is being put.
LEMMA BgSwapHolds == ASSUME RoomForAll, KInv, BgSwap PROVE Holdings'
<1> USE DEF KInv, Holdings
<1> DEFINE key == log[cur].key
           s == log[cur].slot
<1>a. /\ UNCHANGED <<slotKey, log, released, durable, container, acked, batchEnd, appPc, appOp, appKey, appSlot>>
      /\ bgPc = "swap" /\ NextEntry
      /\ slotVal' = IF slotVal[s] = Expected(cur) THEN [slotVal EXCEPT ![s] = Desired(cur)] ELSE slotVal
    BY DEF BgSwap, logVars, treeVars, appVars
<1>b. /\ Running /\ Running' /\ key \in Keys /\ s \in Slots /\ slotKey[s] = key /\ cur \in Nat /\ cur # 0
      /\ log[cur].remove \in BOOLEAN /\ \A t \in Slots : slotKey[t] = key => t = s
      /\ Pending(key) # {}
    BY <1>a, AtEntry, Bounds DEF Running
<1>c. Passed' = cur /\ Pointed' = Pointed /\ bgPc' # "swap"
    BY <1>a, NextPassed DEF Pointed
<1>d. \A k \in Keys :
          /\ key # k => Pending(k)' = Pending(k) /\ Moved(k)' = Moved(k)
          /\ key = k =>
                  /\ Moved(k)' = EffectIn(log, cur)
                  /\ \/ Pending(k)' = {} /\ Pending(k) = {cur}
                     \/ Pending(k)' # {} /\ Pending(k)' = Pending(k)
    BY <1>a, <1>c, OnePassed
<1>e. \A k \in Keys : Kept(k)' = Kept(k)
    BY <1>a, KeptFrame
<1>f. container[key] = EffectIn(log, cur) /\ slotVal[s] # TombstonePersistent
    BY <1>a DEF AtSwap
<1>g. /\ slotVal[s] = Expected(cur) => slotVal'[s] = Desired(cur)
      /\ slotVal[s] # Expected(cur) => slotVal'[s] = slotVal[s]
      /\ \A t \in Slots : t # s => slotVal'[t] = slotVal[t]
    BY <1>a, <1>b DEF IInv, TypeOK, TypeCache
<1>h. /\ Desired(cur) = IF log[cur].remove THEN TombstonePersistent ELSE InLeaf(cur)
      /\ Expected(cur) # Null /\ Desired(cur) # Null /\ \A i : Expected(i)' = Expected(i)
    BY <1>a DEF Expected, Desired, InLog, InLeaf, Null, TombstoneVolatile, TombstonePersistent
<1>i. \A i \in Pending(key) : /\ Expected(i) = Expected(cur) => (log[i].remove <=> log[cur].remove)
                              /\ Expected(i) = Expected(cur) /\ ~log[cur].remove => i = cur
    BY DEF Expected, InLog, TombstoneVolatile
<1>j. slotVal[s] # Null => \E i \in Pending(key) : slotVal[s] = Expected(i)
    <2> HIDE DEF key, s
    <2> SUFFICES ASSUME slotVal[s] # Null PROVE \E i \in Pending(key) : slotVal[s] = Expected(i)
        OBVIOUS
    <2>1. Current(s)
        BY <1>b, NoKeyAssumption DEF SlotsCurrent
    <2> QED
        BY <1>b, <1>f, <2>1 DEF Current
<1>k. \A i, j \in Pending(key) : i = j
    <2>1. Passed + 1 \in Int /\ Pointed \in Int
        BY Bounds
    <2> QED
        BY <2>1, LastInIsOne DEF Pending
<1> HIDE DEF key, s
<1>1. NullIsReserved'
    BY <1>a, <1>b, <1>g, <1>h DEF NullIsReserved
<1>2. EntriesFit'
    BY <1>a, <1>b DEF EntriesFit
<1>3. SlotsCurrent'
    <2> SUFFICES ASSUME NEW t \in Slots, slotKey[t] # NoKey, slotVal'[t] # Null PROVE Current(t)'
        BY <1>a DEF SlotsCurrent
    <2>1. slotKey[t] \in Keys /\ slotKey'[t] = slotKey[t]
        BY <1>a DEF IInv, TypeOK, TypeCache
    <2>2. CASE t # s
        <3>1. Current(t) /\ slotVal'[t] = slotVal[t] /\ slotKey[t] # key
            BY <1>b, <1>g, <2>2 DEF SlotsCurrent
        <3>2. Pending(slotKey[t])' = Pending(slotKey[t])
            <4>1. \A k \in Keys : k = slotKey[t] => Pending(slotKey[t])' = Pending(slotKey[t])
                BY <1>a, <1>d, <3>1
            <4> QED
                BY <2>1, <4>1
        <3> QED
            BY <1>a, <1>h, <2>1, <3>1, <3>2 DEF Current
    <2>3. CASE t = s
        <3>1. slotVal[s] # Null /\ slotKey[t] = key
            BY <1>b, <1>g, <1>h, <2>3
        <3>2. PICK i \in Pending(key) : slotVal[s] = Expected(i)
            BY <1>j, <3>1
        <3>3. Pending(slotKey[t])' = LastIn(log, key, Passed' + 1, Pointed')
            BY <1>a, <3>1 DEF Pending
        <3>4. \/ Pending(slotKey[t])' = {} /\ Pending(key) = {cur}
              \/ Pending(slotKey[t])' = Pending(key)
            <4>1. \A k \in Keys : k = key => \/ LastIn(log, key, Passed' + 1, Pointed') = {} /\ Pending(key) = {cur}
                                             \/ LastIn(log, key, Passed' + 1, Pointed') = Pending(key)
                BY <1>a, <1>d DEF Pending
            <4> QED
                BY <1>b, <3>3, <4>1
        <3>5. CASE slotVal[s] = Expected(cur) /\ log[cur].remove
            <4>1. slotVal'[s] = TombstonePersistent /\ container[key] = 0 /\ log[i].remove
                BY <1>f, <1>g, <1>h, <1>i, <3>2, <3>5 DEF EffectIn
            <4>2. \A j \in Pending(slotKey[t])' : log[j].remove
                BY <1>k, <3>2, <3>4, <4>1
            <4> QED
                BY <1>a, <2>1, <2>3, <3>1, <4>1, <4>2 DEF Current
        <3>6. CASE slotVal[s] = Expected(cur) /\ ~log[cur].remove
            <4>1. slotVal'[s] = InLeaf(cur) /\ container[key] = cur /\ i = cur
                BY <1>f, <1>g, <1>h, <1>i, <3>2, <3>6 DEF EffectIn
            <4>2. Pending(slotKey[t])' = {}
                <5>1. cur \notin LastIn(log, key, Passed' + 1, Pointed')
                    BY <1>b, <1>c DEF LastIn
                <5> QED
                    BY <3>2, <3>3, <3>4, <4>1, <5>1
            <4> QED
                BY <1>a, <1>b, <2>1, <2>3, <3>1, <4>1, <4>2 DEF Current
        <3>7. CASE slotVal[s] # Expected(cur)
            <4>1. slotVal'[s] = Expected(i) /\ i # cur
                BY <1>g, <3>2, <3>7
            <4>2. i \in Pending(slotKey[t])'
                BY <3>2, <3>4, <4>1
            <4> QED
                BY <1>a, <1>h, <2>1, <2>3, <4>1, <4>2 DEF Current
        <3> QED
            BY <1>b, <3>5, <3>6, <3>7 DEF s
    <2> QED
        BY <2>2, <2>3
<1>4. AtSwap'
    BY <1>c DEF AtSwap
<1>5. TreeCurrent'
    <2> SUFFICES ASSUME NEW k \in Keys, ~Reserved(k)', Pending(k)' = {} PROVE container[k] = Moved(k)'
        BY <1>a DEF TreeCurrent
    <2>1. CASE k # key
        <3>1. ~Reserved(k)
            BY <1>a, <1>b, <1>g, <2>1 DEF Reserved
        <3> QED
            BY <1>b, <1>d, <2>1, <3>1 DEF TreeCurrent
    <2>2. CASE k = key
        BY <1>d, <1>f, <2>2
    <2> QED
        BY <2>1, <2>2
<1>6. LogCurrent'
    BY <1>a, <1>e DEF LogCurrent, Writing
<1> QED
    BY <1>1, <1>2, <1>3, <1>4, <1>5, <1>6

\* The commit: the tree it makes durable has what the released entries made of every key that is
\* not being put, or has a later entry that says what the key has.
LEMMA BgCommitHolds == ASSUME RoomForAll, KInv, BgCommit PROVE Holdings'
<1> USE DEF KInv, Holdings
<1>a. /\ UNCHANGED <<slotKey, slotVal, rank, log, container, acked, batchEnd, cur, appPc, appOp, appKey, appSlot>>
      /\ bgPc = "commit" /\ bgPc' = "top" /\ durable' = container /\ released' = batchEnd
    BY DEF BgCommit, cacheVars, appVars
<1>b. Running /\ Running'
    BY <1>a DEF IInv, AppHolds, Running
<1>c. /\ Passed = batchEnd /\ Passed' = batchEnd /\ Pointed' = Pointed
      /\ batchEnd \in Nat /\ released \in Nat /\ released <= batchEnd /\ batchEnd <= Pointed
      /\ Pointed \in Int /\ Pointed <= Len(log) /\ Len(log) \in Nat
    BY <1>a, Bounds DEF Passed, Pointed
<1>d. \A k : Pending(k)' = Pending(k)
    BY <1>a, <1>c DEF Pending
<1>e. ASSUME NEW k \in Keys PROVE Moved(k)' = container[k]
    <2>1. Moved(k)' = After(log, k, container[k], batchEnd + 1, batchEnd)
        BY <1>a, <1>c DEF Moved
    <2>2. batchEnd + 1 \in Int /\ batchEnd \in Int /\ \A i \in batchEnd + 1..batchEnd : FALSE
        BY <1>c
    <2> QED
        BY <2>1, <2>2, AfterNone
<1>f. ASSUME NEW k \in Keys, ~Writing(k) PROVE Kept(k)' = Kept(k)
    <2>1. /\ Kept(k)' = After(log, k, container[k], batchEnd + 1, Len(log))
          /\ Kept(k) = After(log, k, durable[k], released + 1, Len(log))
        BY <1>a DEF Kept
    <2>2. batchEnd + 1 \in Int /\ released + 1 \in Int /\ batchEnd \in Int /\ Len(log) \in Int
          /\ released + 1 <= batchEnd + 1 /\ batchEnd <= Len(log)
        BY <1>c
    <2>3. CASE LastIn(log, k, batchEnd + 1, Len(log)) = {}
        <3>1. \A i \in batchEnd + 1..Len(log) : log[i].key # k
            BY <2>2, <2>3, NoneOrLast
        <3>2. \A i \in batchEnd + 1..Pointed : log[i].key # k
            BY <1>c, <3>1
        <3>3. Pending(k) = {}
            BY <1>c, <2>2, <3>2, NoneOrLast DEF Pending
        <3>4. ~Reserved(k)
            <4> SUFFICES ASSUME NEW s \in Slots, slotKey[s] = k, slotVal[s] = Null PROVE FALSE
                BY DEF Reserved
            <4>1. appPc \in ReservePcs /\ appSlot = s
                BY NoKeyAssumption DEF NullIsReserved
            <4>2. slotKey[appSlot] = appKey /\ appOp \in {"put", "remove"}
                BY <4>1 DEF ReservePcs, IInv, AppHolds, WritePcs, AppKnows
            <4> QED
                BY <1>f, <4>1, <4>2 DEF Writing
        <3>5. container[k] = After(log, k, durable[k], released + 1, batchEnd)
            BY <1>b, <1>c, <3>3, <3>4 DEF TreeCurrent, Moved
        <3>6. After(log, k, container[k], batchEnd + 1, Len(log)) = After(log, k, durable[k], released + 1, Len(log))
            BY <2>2, <3>5, AfterBoth
        <3> QED
            BY <2>1, <3>6
    <2>4. ASSUME NEW i \in LastIn(log, k, batchEnd + 1, Len(log)) PROVE Kept(k)' = Kept(k)
        <3>1. i \in LastIn(log, k, released + 1, Len(log))
            BY <2>2, LastOfEnd
        <3>2. Kept(k)' = EffectIn(log, i)
            BY <2>1, <2>2, AfterLast
        <3>3. Kept(k) = EffectIn(log, i)
            BY <2>1, <2>2, <3>1, AfterLast
        <3> QED
            BY <3>2, <3>3
    <2> QED
        BY <2>3, <2>4
<1>1. NullIsReserved'
    BY <1>a DEF NullIsReserved
<1>2. EntriesFit'
    <2>1. \A i \in batchEnd + 1..Len(log) : i \in released + 1..Len(log)
        BY <1>c
    <2> QED
        BY <1>a, <1>b, <2>1 DEF EntriesFit
<1>3. SlotsCurrent'
    BY <1>a, <1>d DEF SlotsCurrent, Current, Expected
<1>4. AtSwap'
    BY <1>a DEF AtSwap
<1>5. TreeCurrent'
    BY <1>a, <1>e DEF TreeCurrent
<1>6. LogCurrent'
    BY <1>a, <1>f DEF LogCurrent, Writing
<1> QED
    BY <1>1, <1>2, <1>3, <1>4, <1>5, <1>6

----------------------------------------------------------------------------
(* The process ends, the log is replayed a batch at a time, and the pool is open again *)

LEMMA EndHolds == ASSUME RoomForAll, KInv, CloseJoin \/ Crash PROVE Holdings'
<1> USE DEF KInv, Holdings
<1>a. /\ UNCHANGED <<log, released, durable, acked>>
      /\ appPc' = "down" /\ bgPc' = "done"
      /\ \A s \in Slots : slotKey'[s] = NoKey
      /\ \A k \in Keys : Writing(k) => Writing(k)'
    BY DEF CloseJoin, Crash, ProcessEnds, CacheDrop, Writing
<1>1. NullIsReserved'
    BY <1>a DEF NullIsReserved
<1>2. EntriesFit'
    BY <1>a DEF EntriesFit, Running
<1>3. SlotsCurrent'
    BY <1>a DEF SlotsCurrent
<1>4. AtSwap'
    BY <1>a DEF AtSwap
<1>5. TreeCurrent'
    BY <1>a DEF TreeCurrent, Running
<1>6. LogCurrent'
    BY <1>a, KeptFrame DEF LogCurrent
<1> QED
    BY <1>1, <1>2, <1>3, <1>4, <1>5, <1>6

LEMMA RecoverHolds ==
    ASSUME RoomForAll, KInv, Recover
    PROVE  Holdings' /\ \A k \in Keys : Kept(k)' = Kept(k)
<1> USE DEF KInv, Holdings
<1>a. /\ UNCHANGED <<slotKey, slotVal, log, acked, appPc, appOp, appKey, appSlot, bgPc>>
      /\ appPc = "down" /\ bgPc = "done" /\ \A s \in Slots : slotKey[s] = NoKey
    BY DEF Recover, cacheVars, appVars, AppKnows, IInv, AppHolds
<1>b. PICK to \in released + 1..Len(log) : durable' = Replayed(durable, to) /\ released' = to
    BY DEF Recover
<1>c. ASSUME NEW k \in Keys PROVE Kept(k)' = Kept(k)
    <2>1. durable'[k] = After(log, k, durable[k], released + 1, to)
        BY <1>b, HistoryIs
    <2>2. Kept(k)' = After(log, k, durable'[k], to + 1, Len(log))
        BY <1>a, <1>b DEF Kept
    <2>3. released + 1 \in Int /\ to \in Int /\ Len(log) \in Int /\ released + 1 <= to + 1 /\ to <= Len(log)
        BY <1>b, Bounds
    <2>4. After(log, k, After(log, k, durable[k], released + 1, to), to + 1, Len(log))
              = After(log, k, durable[k], released + 1, Len(log))
        BY <2>3, AfterBoth
    <2> QED
        BY <2>1, <2>2, <2>4 DEF Kept
<1>1. NullIsReserved'
    BY <1>a DEF NullIsReserved
<1>2. EntriesFit'
    BY <1>a DEF EntriesFit, Running
<1>3. SlotsCurrent'
    BY <1>a DEF SlotsCurrent
<1>4. AtSwap'
    BY <1>a DEF AtSwap
<1>5. TreeCurrent'
    BY <1>a DEF TreeCurrent, Running
<1>6. LogCurrent'
    BY <1>a, <1>c DEF LogCurrent, Writing
<1> QED
    BY <1>c, <1>1, <1>2, <1>3, <1>4, <1>5, <1>6

\* With nothing left in the log, the tree of the last commit is what is kept.
LEMMA OpenKeeps ==
    ASSUME KInv, appPc = "down", released = Len(log), NEW k \in Keys
    PROVE  Kept(k) = durable[k] /\ container[k] = durable[k]
<1>1. released \in Nat /\ released + 1 \in Int /\ released \in Int /\ \A i \in released + 1..released : FALSE
    BY Bounds DEF KInv
<1>2. Kept(k) = durable[k]
    BY <1>1, AfterNone DEF Kept
<1>3. container = durable
    BY DEF KInv, IInv, AppHolds, Handover
<1> QED
    BY <1>2, <1>3

LEMMA OpenHolds == ASSUME RoomForAll, KInv, Open PROVE Holdings'
<1> USE DEF KInv, Holdings
<1>a. /\ UNCHANGED <<slotKey, slotVal, log, released, durable, container>>
      /\ appPc = "down" /\ appPc' = "idle" /\ appOp' = "none" /\ bgPc = "done" /\ bgPc' = "top"
      /\ \A s \in Slots : slotKey[s] = NoKey
      /\ released = Len(log)
      /\ acked' = [k \in Keys |-> IF Writing(k) THEN durable[k] ELSE acked[k]]
    BY DEF Open, cacheVars, logVars, treeVars, AppReturn, AppKnows, IInv, AppHolds
<1>b. \A k \in Keys : Kept(k)' = Kept(k) /\ Kept(k) = durable[k] /\ container[k] = durable[k]
    BY <1>a, KeptFrame, OpenKeeps
<1>c. Passed' = released /\ Passed = released
    BY <1>a DEF Passed
<1>d. released \in Nat /\ released = Len(log)
    BY <1>a, Bounds
<1>1. NullIsReserved'
    BY <1>a DEF NullIsReserved
<1>2. EntriesFit'
    <2>1. \A i \in released + 1..Len(log) : FALSE
        BY <1>d
    <2> QED
        BY <1>a, <2>1 DEF EntriesFit
<1>3. SlotsCurrent'
    BY <1>a DEF SlotsCurrent
<1>4. AtSwap'
    BY <1>a DEF AtSwap
<1>5. TreeCurrent'
    <2> SUFFICES ASSUME NEW k \in Keys PROVE container[k] = Moved(k)'
        BY <1>a DEF TreeCurrent
    <2>1. Moved(k)' = After(log, k, durable[k], released + 1, released)
        BY <1>a, <1>c DEF Moved
    <2>2. released + 1 \in Int /\ released \in Int /\ \A i \in released + 1..released : FALSE
        BY <1>d
    <2>3. Moved(k)' = durable[k]
      <3>1. \A i \in released + 1..released : log[i].key # k
          BY ONLY <2>2
      <3> PICK a, b : a = released + 1 /\ b = released
          OBVIOUS
      <3>2. a \in Int /\ b \in Int /\ \A i \in a..b : log[i].key # k
          BY <2>2, <3>1
      <3>3. After(log, k, durable[k], a, b) = durable[k]
          BY ONLY <3>2, AfterNone
      <3> QED
          BY <2>1, <3>3
    <2> QED
        BY <1>b, <2>3
<1>6. LogCurrent'
    BY <1>a, <1>b DEF LogCurrent
<1> QED
    BY <1>1, <1>2, <1>3, <1>4, <1>5, <1>6

----------------------------------------------------------------------------
(* The invariant holds *)

LEMMA KInvInit == Init => KInv
<1> SUFFICES ASSUME Init PROVE KInv
    OBVIOUS
<1> USE DEF Init, CacheInit
<1>1. IInv
    BY InitInv
<1>2. LruListConsistent
    BY DEF LruListConsistent
<1>3. NoFailure
    BY DEF NoFailure, RemoveOomPcs
<1>4. AppKnows
    BY DEF AppKnows, GetPcs
<1>5. Len(log) = 0 /\ released = 0 /\ Passed = 0 /\ Pointed = 0
    BY DEF Passed, Pointed
<1>6. released + 1 \in Int /\ released \in Int /\ \A i \in released + 1..released : FALSE
    BY <1>5
<1>7. NullIsReserved /\ SlotsCurrent /\ AtSwap
    BY DEF NullIsReserved, SlotsCurrent, AtSwap
<1>8. EntriesFit
    BY <1>5, <1>6 DEF EntriesFit
<1>9. ASSUME NEW k \in Keys PROVE Moved(k) = 0 /\ Kept(k) = 0
    <2>1. After(log, k, durable[k], released + 1, released) = durable[k]
        BY <1>6, AfterNone
    <2>2. durable[k] = 0
        OBVIOUS
    <2> QED
        BY <1>5, <2>1, <2>2 DEF Moved, Kept
<1>10. TreeCurrent /\ LogCurrent
    BY <1>9 DEF TreeCurrent, LogCurrent
<1> QED
    BY <1>1, <1>2, <1>3, <1>4, <1>7, <1>8, <1>10 DEF KInv, Holdings

LEMMA KInvStep == ASSUME RoomForAll, KInv, [Next]_vars PROVE KInv'
<1>1. IInv' /\ LruListConsistent'
    BY NextInv, ListStep DEF KInv
<1>2. NoFailure' /\ AppKnows'
    <2>1. CASE Next
        BY <2>1, NoFailureStep, AppKnowsStep
    <2>2. CASE UNCHANGED vars
        BY <2>2 DEF vars, cacheVars, logVars, treeVars, appVars, bgVars, syncVars, KInv, NoFailure, AppKnows,
                    Cached
    <2> QED
        BY <2>1, <2>2
<1>3. Holdings'
    <2>1. CASE BgApply
        BY <2>1, BgSkipHolds, BgApplyHolds
    <2> QED
        BY <2>1, QuietStep, QuietHolds, PutReserveHolds, PutProduceHolds, PutPointHolds, PutPublishHolds,
           GetFillHolds, BgSwapHolds, BgCommitHolds, EndHolds, RecoverHolds, OpenHolds
<1> QED
    BY <1>1, <1>2, <1>3 DEF KInv

LEMMA KInvHolds == ASSUME RoomForAll PROVE Spec => []KInv
<1>1. KInv /\ [Next]_vars => KInv'
    BY KInvStep
<1> QED
    BY <1>1, KInvInit, PTL DEF Spec

----------------------------------------------------------------------------
(* What the cache, the log and the tree hold together *)

\* Only a key being written has a null pointer in its slot.
LEMMA ReservedIsWriting ==
    ASSUME KInv, NEW k \in Keys, Reserved(k)
    PROVE  Writing(k) /\ appKey = k /\ appPc \in ReservePcs
<1>1. PICK s \in Slots : slotKey[s] = k /\ slotVal[s] = Null
    BY DEF Reserved
<1>2. appPc \in ReservePcs /\ appSlot = s
    BY <1>1, NoKeyAssumption DEF KInv, Holdings, NullIsReserved
<1>3. slotKey[appSlot] = appKey /\ appOp \in {"put", "remove"}
    BY <1>2 DEF KInv, ReservePcs, IInv, AppHolds, WritePcs, AppKnows
<1> QED
    BY <1>1, <1>2, <1>3 DEF Writing

\* The last pending entry decides, and the tree when there is none.
LEMMA KeptIs ==
    ASSUME KInv, NEW k \in Keys, appPc = "point" => k # appKey
    PROVE  /\ Pending(k) = {} => Kept(k) = Moved(k)
           /\ \A i \in Pending(k) : Kept(k) = EffectIn(log, i)
<1>1. /\ Passed \in Int /\ Pointed \in Int /\ Len(log) \in Int /\ released \in Int
      /\ released <= Passed /\ Passed <= Pointed /\ Pointed <= Len(log)
      /\ Passed + 1 \in Int /\ released + 1 \in Int
    BY Bounds DEF KInv
<1>2. Pending(k) = LastIn(log, k, Passed + 1, Len(log))
    <2>1. CASE appPc # "point"
        BY <2>1 DEF Pending, Pointed
    <2>2. CASE appPc = "point"
        <3>1. log[Len(log)].key = appKey /\ Pointed = Len(log) - 1 /\ Passed + 1 <= Len(log)
            BY <1>1, <2>2 DEF KInv, IInv, AtCallback, Pointed
        <3>2. LastIn(log, k, Passed + 1, Len(log)) = LastIn(log, k, Passed + 1, Len(log) - 1)
          <4>1. log[Len(log)].key # k
              BY <2>2, <3>1
          <4>2. Passed + 1 \in Int /\ Len(log) \in Int /\ Passed + 1 <= Len(log)
              BY <1>1, <3>1
          <4> QED
              BY <4>1, <4>2, LastWithOneMore
        <3> QED
            BY <3>1, <3>2 DEF Pending
    <2> QED
        BY <2>1, <2>2
<1>3. Kept(k) = After(log, k, Moved(k), Passed + 1, Len(log))
    <2>1. released + 1 <= Passed + 1 /\ Passed <= Len(log)
        BY <1>1
    <2> QED
        BY <1>1, <2>1, AfterBoth DEF Kept, Moved
<1>4. Pending(k) = {} => Kept(k) = Moved(k)
    BY <1>2, <1>3 DEF After
<1>5. ASSUME NEW i \in Pending(k) PROVE Kept(k) = EffectIn(log, i)
    BY <1>1, <1>2, <1>3, AfterLast
<1> QED
    BY <1>4, <1>5

\* What the kinds of pointers lead to.
LEMMA ValueIs ==
    /\ ValueAt(Null) = 0 /\ ValueAt(TombstoneVolatile) = 0 /\ ValueAt(TombstonePersistent) = 0
    /\ \A i : ValueAt(InLog(i)) = i /\ ValueAt(InLeaf(i)) = i
    /\ \A i : ValueAt(Expected(i)) = EffectIn(log, i)
BY DEF ValueAt, Tombstones, Null, TombstoneVolatile, TombstonePersistent, InLog, InLeaf, Expected, EffectIn

\* A key whose slot is in use, or that has none, reads as what a reopening would recover.
LEMMA LookupIs ==
    ASSUME KInv, Running, NEW k \in Keys, ~Reserved(k), appPc = "point" => k # appKey
    PROVE  Lookup(k) = Kept(k)
<1>1. /\ Pending(k) = {} => Kept(k) = container[k]
      /\ \A i \in Pending(k) : Kept(k) = EffectIn(log, i)
    BY KeptIs DEF KInv, Holdings, TreeCurrent
<1>2. CASE Cached(k)
    <2> DEFINE s == SlotOf(k)
    <2>1. s \in Slots /\ slotKey[s] = k
        BY <1>2 DEF Cached, SlotOf
    <2>2. Lookup(k) = ValueAt(slotVal[s])
        BY <1>2 DEF Lookup
    <2> HIDE DEF s
    <2>3. Current(s)
        BY <2>1, NoKeyAssumption DEF Reserved, KInv, Holdings, SlotsCurrent
    <2>4. CASE \E i \in Pending(k) : slotVal[s] = Expected(i)
        BY <1>1, <2>2, <2>4, ValueIs
    <2>5. CASE /\ slotVal[s] = TombstonePersistent /\ container[k] = 0
               /\ \A i \in Pending(k) : log[i].remove
        <3>1. Lookup(k) = 0
            BY <2>2, <2>5, ValueIs
        <3>2. \A i \in Pending(k) : EffectIn(log, i) = 0
            BY <2>5 DEF EffectIn
        <3> QED
            BY <1>1, <2>5, <3>1, <3>2
    <2>6. CASE slotVal[s] = InLeaf(container[k]) /\ Pending(k) = {}
        BY <1>1, <2>2, <2>6, ValueIs
    <2> QED
        BY <2>1, <2>3, <2>4, <2>5, <2>6 DEF Current
<1>3. CASE ~Cached(k)
    BY <1>1, <1>3, UncachedIsMoved DEF Lookup
<1> QED
    BY <1>2, <1>3

\* A key no write is under way on reads as its last acknowledged write left it, and a reopening
\* would recover the same.
LEMMA SettledKey ==
    ASSUME KInv, NEW k \in Keys, ~Writing(k)
    PROVE  Recovered[k] = acked[k] /\ (Running => Lookup(k) = acked[k])
<1>1. Kept(k) = acked[k] /\ Recovered[k] = Kept(k)
    BY HistoryIs DEF KInv, Holdings, LogCurrent, Recovered, Kept
<1>2. Running => Lookup(k) = Kept(k)
    <2>1. appPc = "point" => k # appKey
        BY DEF Writing, KInv, IInv, AppHolds, WritePcs
    <2> QED
        BY <2>1, ReservedIsWriting, LookupIs
<1> QED
    BY <1>1, <1>2

\* Whenever the process dies, and however far a recovery got, every key no write was under way
\* on comes back as its last acknowledged put or remove left it.
THEOREM AckedWritesAlwaysSurvive == ASSUME RoomForAll PROVE Spec => []AckedWritesSurvive
<1>1. KInv => AckedWritesSurvive
    BY SettledKey DEF AckedWritesSurvive, AckedPutsSurvive, AckedRemovesSurvive
<1> QED
    BY <1>1, KInvHolds, PTL

\* A get of a key no write is under way on finds its last acknowledged put, whether the cache,
\* the log or the tree holds it.
THEOREM PutsAreAlwaysRead == ASSUME RoomForAll PROVE Spec => []PutsAreRead
<1>1. KInv => PutsAreRead
    BY SettledKey DEF PutsAreRead
<1> QED
    BY <1>1, KInvHolds, PTL

\* A get never loads the null pointer that a put keeps in a slot.
THEOREM NullIsNeverRead == ASSUME RoomForAll PROVE Spec => []NoNullRead
<1>1. KInv => NoNullRead
    BY DEF KInv, NoFailure, NoNullRead
<1> QED
    BY <1>1, KInvHolds, PTL

----------------------------------------------------------------------------
(* Leaf pointers *)

\* A slot no key ever had holds nothing.
EmptyIsNull == \A s \in Slots : slotKey[s] = NoKey => slotVal[s] = Null

LEMMA EmptyIsNullStep == ASSUME RoomForAll, KInv, EmptyIsNull, [Next]_vars PROVE EmptyIsNull'
<1> USE DEF EmptyIsNull
<1>a. TypeCache /\ LruListConsistent
    BY DEF KInv, IInv, TypeOK
<1>1. CASE PutReserve \/ GetFill
    <2>1. appKey \in Keys /\ Evictable \in SUBSET Slots
        BY <1>1 DEF PutReserve, GetFill, KInv, IInv, AppHolds, WritePcs, GetPcs, Evictable
    <2>2. PICK v : CachePut(appKey, v, Evictable)
        BY <1>1 DEF PutReserve, GetFill
    <2>3. \A t \in Slots : \/ slotKey'[t] = appKey
                           \/ slotKey'[t] = slotKey[t] /\ slotVal'[t] = slotVal[t]
        BY <1>a, <2>1, <2>2, CachePutWithRoom
    <2> QED
        BY <2>1, <2>3, NoKeyAssumption
<1>2. CASE PutPoint
    <2>1. appSlot \in Slots /\ slotKey[appSlot] = appKey /\ appKey \in Keys
        BY <1>2 DEF PutPoint, KInv, IInv, AppHolds, WritePcs
    <2> QED
        BY <1>2, <1>a, <2>1, NoKeyAssumption DEF PutPoint, TypeCache
<1>3. CASE BgSwap
    <2>1. log[cur].slot \in Slots /\ slotKey[log[cur].slot] \in Keys
        BY <1>3, AtEntry DEF BgSwap
    <2>2. UNCHANGED slotKey /\ \A t \in Slots : t # log[cur].slot => slotVal'[t] = slotVal[t]
        BY <1>3, <1>a DEF BgSwap, TypeCache
    <2> QED
        BY <2>1, <2>2, NoKeyAssumption
<1>4. CASE CloseJoin \/ Crash
    BY <1>4 DEF CloseJoin, Crash, ProcessEnds, CacheDrop
<1>5. CASE UNCHANGED <<slotKey, slotVal>>
    BY <1>5
<1>6. ASSUME NEW k \in Keys, GetCall(k) PROVE UNCHANGED <<slotKey, slotVal>>
    BY <1>6 DEF GetCall, CachePromote, cacheVars
<1>7. ~RemoveOomCache
    BY DEF RemoveOomCache, KInv, NoFailure, RemoveOomPcs
<1> QED
    BY <1>1, <1>2, <1>3, <1>4, <1>5, <1>6, <1>7, CacheFrame DEF vars, cacheVars

\* A pointer to a leaf always points to the leaf the tree has for the slot's key.
THEOREM LeafPointersAlwaysLive == ASSUME RoomForAll PROVE Spec => []LeafPointersLive
<1>1. Init => EmptyIsNull
    BY DEF Init, CacheInit, EmptyIsNull
<1>2. KInv /\ EmptyIsNull /\ [Next]_vars => EmptyIsNull'
    BY EmptyIsNullStep
<1>3. ASSUME KInv, EmptyIsNull PROVE LeafPointersLive
    <2> SUFFICES ASSUME NEW s \in Slots, NEW i \in 1..Len(log), slotVal[s] = InLeaf(i)
                 PROVE  container[slotKey[s]] = i
        BY DEF LeafPointersLive
    <2>1. slotKey[s] # NoKey /\ slotVal[s] # Null
        BY <1>3 DEF EmptyIsNull, InLeaf, Null
    <2>2. Current(s)
        BY <1>3, <2>1 DEF KInv, Holdings, SlotsCurrent
    <2>3. /\ \A j : Expected(j) # InLeaf(i)
          /\ TombstonePersistent # InLeaf(i)
          /\ \A j : InLeaf(j) = InLeaf(i) => j = i
        BY DEF Expected, InLog, InLeaf, TombstoneVolatile, TombstonePersistent
    <2> QED
        BY <2>2, <2>3 DEF Current
<1> QED
    BY <1>1, <1>2, <1>3, KInvHolds, PTL DEF Spec

----------------------------------------------------------------------------
(***************************************************************************)
(* The engine implements KVMap.  The map's contents are acked for every    *)
(* key no write is under way on (Settled), so a step of either thread can  *)
(* change the contents of one key only; the steps in which a get finds its *)
(* answer and a put returns need what the slot of their key holds.         *)
(***************************************************************************)

AnswerNow == IF appPc \in {"fill", "return"} THEN ValueAt(appPtr) ELSE -1

\* The contents are numbers of entries, and those of a settled key are acknowledged.
LEMMA ContentsType == ASSUME KInv PROVE MapContents \in [Keys -> 0..Len(log)]
<1>1. SUFFICES ASSUME NEW k \in Keys
               PROVE  (IF Running THEN Lookup(k) ELSE Recovered[k]) \in 0..Len(log)
    BY DEF MapContents
<1>2. Len(log) \in Nat /\ released \in 0..Len(log) /\ TypeMemory /\ TypeCache
    BY DEF KInv, IInv, TypeOK, TypeMemory
<1>3. Recovered[k] \in 0..Len(log)
    <2>1. Len(log) \in 0..Len(log)
        BY <1>2
    <2>2. Replayed(durable, Len(log)) \in [Keys -> 0..Len(log)]
        BY <1>2, <2>1, ReplayedType
    <2> QED
        BY <2>2 DEF Recovered
<1>4. Lookup(k) \in 0..Len(log)
    <2>1. CASE Cached(k)
        <3> DEFINE s == SlotOf(k)
        <3>1. s \in Slots
            BY <2>1 DEF Cached, SlotOf
        <3>2. slotVal[s] \in Pointers(Len(log))
            BY <1>2, <3>1 DEF TypeCache
        <3>3. Lookup(k) = ValueAt(slotVal[s])
            BY <2>1 DEF Lookup
        <3> HIDE DEF s
        <3>4. ValueAt(slotVal[s]) \in 0..Len(log)
            BY <1>2, <3>2, ValueIs DEF Pointers, Tombstones
        <3> QED
            BY <3>3, <3>4
    <2>2. CASE ~Cached(k)
        BY <1>2, <2>2 DEF Lookup, TypeMemory
    <2> QED
        BY <2>1, <2>2
<1> QED
    BY <1>3, <1>4

LEMMA Settled == KInv => \A k \in Keys : ~Writing(k) => MapContents[k] = acked[k]
BY SettledKey DEF MapContents

\* Both after a step.
LEMMA SettledNext ==
    KInv' => /\ (MapContents \in [Keys -> 0..Len(log)])'
             /\ (\A k \in Keys : ~Writing(k) => MapContents[k] = acked[k])'
<1>1. KInv => MapContents \in [Keys -> 0..Len(log)]
    BY ContentsType
<1> QED
    BY <1>1, Settled, PTL

\* With the cache and the tree unchanged, so are the contents.
LEMMA SameContents ==
    ASSUME UNCHANGED <<slotKey, slotVal, container>>, Running, Running'
    PROVE  MapContents' = MapContents
BY DEF MapContents, Lookup, Cached, SlotOf, ValueAt

\* A step inside a call, or of the background thread, on which at most the log grows.
LEMMA InsideCall ==
    ASSUME KInv, KInv', Running, Running', UNCHANGED <<acked, appOp, appKey>>,
           AnswerNow' = AnswerNow, Len(log') \in {Len(log), Len(log) + 1},
           appOp \in {"put", "remove"} => appKey \in Keys,
           appOp \notin {"put", "remove"} => Len(log') = Len(log)
    PROVE  [Store!Next]_(Store!mapVars)
<1>1. MapContents \in [Keys -> 0..Len(log)] /\ MapContents' \in [Keys -> 0..Len(log')]
    BY ContentsType, SettledNext
<1>2. \A k \in Keys : ~Writing(k) => MapContents'[k] = MapContents[k]
    <2> SUFFICES ASSUME NEW k \in Keys, ~Writing(k) PROVE MapContents'[k] = MapContents[k]
        OBVIOUS
    <2>1. MapContents[k] = acked[k]
        BY Settled
    <2>2. ~Writing(k)'
        BY DEF Writing
    <2>3. (\A j \in Keys : ~Writing(j) => MapContents[j] = acked[j])'
        BY SettledNext
    <2>4. MapContents'[k] = acked'[k]
        BY <2>2, <2>3
    <2> QED
        BY <2>1, <2>4
<1>3. CASE appOp \in {"put", "remove"}
    <2> DEFINE v == MapContents'[appKey]
    <2>1. v \in 0..Len(log')
        BY <1>1, <1>3
    <2>2. MapContents' = [MapContents EXCEPT ![appKey] = v]
        <3>1. \A k \in Keys : MapContents'[k] = [MapContents EXCEPT ![appKey] = v][k]
            BY <1>1, <1>2, <1>3 DEF Writing
        <3> HIDE DEF v
        <3> QED
            BY <1>1, <3>1
    <2> HIDE DEF v
    <2>3. Store!Progress
        BY <1>3, <2>1, <2>2 DEF Store!Progress, Store!Writing, AnswerNow
    <2> QED
        BY <2>3 DEF Store!Next
<1>4. CASE appOp \notin {"put", "remove"}
    <2>1. \A k \in Keys : MapContents'[k] = MapContents[k]
        BY <1>2, <1>4 DEF Writing
    <2>2. MapContents' = MapContents
        BY <1>1, <2>1
    <2> QED
        BY <1>4, <2>2 DEF Store!mapVars, AnswerNow
<1> QED
    BY <1>3, <1>4

\* A call begins.
LEMMA BeginStep ==
    ASSUME KInv, NEW k \in Keys, PutCall(k) \/ RemoveCall(k) \/ GetCall(k)
    PROVE  Store!Next
<1>1. /\ appPc = "idle" /\ appPc' \in {"reserve", "load", "find"} /\ appKey' = k
      /\ appOp' \in {"put", "remove", "get"}
      /\ UNCHANGED <<slotKey, slotVal, container, log>>
    BY DEF PutCall, RemoveCall, GetCall, AppCall, CachePromote, cacheVars, logVars, treeVars
<1>2. appOp = "none" /\ Running /\ Running'
    BY <1>1 DEF KInv, AppKnows, Running
<1>3. MapContents' = MapContents
    BY <1>1, <1>2, SameContents
<1>4. PICK o \in {"put", "remove", "get"} : appOp' = o
    BY <1>1
<1>5. Store!Begin(o, k)
    BY <1>1, <1>2, <1>3, <1>4 DEF Store!Begin
<1> QED
    BY <1>5 DEF Store!Next

\* A write returns: its key reads as it was written.
LEMMA FinishStep == ASSUME KInv, PutPublish PROVE Store!Next
<1>1. /\ appPc = "publish" /\ appPc' = "idle" /\ appOp' = "none" /\ appKey' = NoKey
      /\ UNCHANGED <<slotKey, slotVal, container, log>>
    BY DEF PutPublish, AppReturn, cacheVars, treeVars
<1>2. Running /\ Running' /\ appKey \in Keys /\ appOp \in {"put", "remove"}
    BY <1>1 DEF Running, KInv, IInv, AppHolds, WritePcs
<1>3. MapContents' = MapContents
    BY <1>1, <1>2, SameContents
<1>4. ~Reserved(appKey)
    BY <1>1, <1>2, ReservedIsWriting DEF ReservePcs
<1>5. MapContents[appKey] = Kept(appKey)
    BY <1>1, <1>2, <1>4, LookupIs DEF MapContents
<1>6. /\ published < Len(log) /\ published \in Nat /\ Len(log) \in Nat /\ released \in Nat /\ released <= published
      /\ log[Len(log)].key = appKey /\ log[Len(log)].remove = (appOp = "remove")
    BY <1>1, Bounds DEF KInv, AppKnows
<1>7. Kept(appKey) = EffectIn(log, Len(log))
    <2>1. released + 1 \in Int /\ Len(log) \in Int /\ released + 1 <= Len(log)
        BY <1>6
    <2> QED
        BY <1>6, <2>1, AfterOneMore DEF Kept
<1>8. MapContents[appKey] = IF appOp = "put" THEN Len(log) ELSE 0
    BY <1>2, <1>5, <1>6, <1>7 DEF EffectIn
<1>9. Store!Finish
    BY <1>1, <1>2, <1>3, <1>8 DEF Store!Finish, Store!Writing
<1> QED
    BY <1>9 DEF Store!Next

\* A get finds what the map holds: in its slot, or in the tree on a miss.
LEMMA AnswerStep == ASSUME KInv, GetLoad \/ GetValidate \/ GetFind PROVE [Store!Next]_(Store!mapVars)
<1>1. /\ UNCHANGED <<slotKey, slotVal, container, log, appOp, appKey>>
      /\ appPc \in {"load", "validate", "find"} /\ appPc' # "down"
    BY DEF GetLoad, GetValidate, GetFind, AppGoto, cacheVars, logVars, treeVars
<1>2. Running /\ Running' /\ appKey \in Keys /\ appOp = "get" /\ appPc \notin {"fill", "return"}
    BY <1>1 DEF Running, KInv, IInv, AppHolds, GetPcs, AppKnows
<1>3. MapContents' = MapContents
    BY <1>1, <1>2, SameContents
<1>4. CASE appPc' \notin {"fill", "return"}
    BY <1>1, <1>2, <1>3, <1>4 DEF Store!mapVars
<1>5. CASE appPc' \in {"fill", "return"}
    <2>1. ValueAt(appPtr') = Lookup(appKey)
        <3>1. CASE GetLoad \/ GetValidate
            <4>1. appSlot \in Slots /\ slotKey[appSlot] = appKey
                BY <3>1 DEF GetLoad, GetValidate, KInv, IInv, AppHolds, AppKnows
            <4>2. Cached(appKey) /\ SlotOf(appKey) \in Slots /\ slotKey[SlotOf(appKey)] = appKey
                BY <4>1 DEF Cached, SlotOf
            <4>3. SlotOf(appKey) = appSlot
                BY <1>2, <4>1, <4>2, NoKeyAssumption DEF KInv, LruListConsistent
            <4>4. appPtr' = slotVal[appSlot]
                BY <1>5, <3>1 DEF GetLoad, GetValidate, AppGoto
            <4> QED
                BY <4>2, <4>3, <4>4 DEF Lookup
        <3>2. CASE GetFind
            <4>1. Lookup(appKey) = container[appKey]
                BY <3>2 DEF GetFind, KInv, AppKnows, Lookup
            <4>2. \/ container[appKey] = 0 /\ appPtr' = Null
                  \/ appPtr' = InLeaf(container[appKey])
                BY <3>2 DEF GetFind
            <4> QED
                BY <4>1, <4>2, ValueIs
        <3> QED
            BY <3>1, <3>2
    <2>2. MapContents[appKey] = Lookup(appKey)
        BY <1>2 DEF MapContents
    <2>3. ValueAt(appPtr)' = ValueAt(appPtr')
        BY DEF ValueAt
    <2>4. Store!Answer
        BY <1>1, <1>2, <1>3, <1>5, <2>1, <2>2, <2>3 DEF Store!Answer
    <2> QED
        BY <2>4 DEF Store!Next
<1> QED
    BY <1>4, <1>5

LEMMA ReturnStep == ASSUME KInv, GetReturn PROVE Store!Next
<1>1. /\ appPc = "return" /\ appPc' = "idle" /\ appOp' = "none" /\ appKey' = NoKey
      /\ UNCHANGED <<slotKey, slotVal, container, log>>
    BY DEF GetReturn, AppReturn, cacheVars, logVars, treeVars
<1>2. Running /\ Running' /\ appOp = "get"
    BY <1>1 DEF Running, KInv, AppKnows, GetPcs
<1>3. MapContents' = MapContents
    BY <1>1, <1>2, SameContents
<1>4. ValueAt(appPtr) # -1
    <2>1. appPtr \in Pointers(Len(log)) /\ Len(log) \in Nat
        BY DEF KInv, IInv, TypeOK, TypeApp, TypeMemory
    <2>2. ValueAt(appPtr) \in Nat
        BY <2>1, ValueIs DEF Pointers, Tombstones
    <2> QED
        BY <2>2
<1>5. Store!Return
    BY <1>1, <1>2, <1>3, <1>4 DEF Store!Return
<1> QED
    BY <1>5 DEF Store!Next

\* The process ends; no key but the one being written changes.
LEMMA DownStep == ASSUME KInv, KInv', CloseJoin \/ Crash PROVE Store!Next
<1>1. /\ Running /\ ~Running' /\ UNCHANGED <<acked, log>>
      /\ appPc' = "down"
      /\ IF appOp \in {"put", "remove"} THEN UNCHANGED <<appOp, appKey>>
                                        ELSE appOp' = "none" /\ appKey' = NoKey
    BY DEF CloseJoin, Crash, ProcessEnds, Running
<1>2. MapContents \in [Keys -> 0..Len(log)] /\ MapContents' \in [Keys -> 0..Len(log)]
    <2>1. (MapContents \in [Keys -> 0..Len(log)])'
        BY SettledNext
    <2> QED
        BY <1>1, <2>1, ContentsType
<1>3. \A k \in Keys : ~Writing(k) => MapContents'[k] = MapContents[k]
    <2> SUFFICES ASSUME NEW k \in Keys, ~Writing(k) PROVE MapContents'[k] = MapContents[k]
        OBVIOUS
    <2>1. MapContents[k] = acked[k]
        BY Settled
    <2>2. ~Writing(k)'
        BY <1>1 DEF Writing
    <2>3. (\A j \in Keys : ~Writing(j) => MapContents[j] = acked[j])'
        BY SettledNext
    <2>4. MapContents'[k] = acked'[k]
        BY <2>2, <2>3
    <2> QED
        BY <1>1, <2>1, <2>4
<1>4. CASE appOp \in {"put", "remove"}
    <2> DEFINE v == IF appKey \in Keys THEN MapContents'[appKey] ELSE 0
    <2>1. v \in 0..Len(log)
        BY <1>2 DEF KInv, IInv, TypeOK, TypeMemory
    <2>2. MapContents' = [MapContents EXCEPT ![appKey] = v]
        <3>1. \A k \in Keys : MapContents'[k] = [MapContents EXCEPT ![appKey] = v][k]
            BY <1>2, <1>3, <1>4 DEF Writing
        <3> HIDE DEF v
        <3> QED
            BY <1>2, <3>1
    <2> HIDE DEF v
    <2>3. \E u \in 0..Len(log) : MapContents' = [MapContents EXCEPT ![appKey] = u]
        BY <2>1, <2>2
    <2>4. Running /\ Running' = FALSE /\ appPc' \notin {"fill", "return"} /\ Len(log') = Len(log)
        BY <1>1 DEF Running
    <2>5. Store!Down
        BY <1>1, <1>4, <2>3, <2>4 DEF Store!Down, Store!Writing
    <2> QED
        BY <2>5 DEF Store!Next
<1>5. CASE appOp \notin {"put", "remove"}
    <2>1. \A k \in Keys : MapContents'[k] = MapContents[k]
        BY <1>3, <1>5 DEF Writing
    <2>2. MapContents' = MapContents
        BY <1>2, <2>1
    <2>3. Store!Down
        BY <1>1, <1>5, <2>2 DEF Store!Down, Store!Writing
    <2> QED
        BY <2>3 DEF Store!Next
<1> QED
    BY <1>4, <1>5

\* A recovery moves entries from the log to the tree and changes nothing.
LEMMA RecoverStep == ASSUME RoomForAll, KInv, Recover PROVE UNCHANGED Store!mapVars
<1>1. UNCHANGED <<log, appVars>> /\ appPc = "down" /\ ~Running /\ ~Running'
    BY DEF Recover, appVars, Running
<1>2. \A k \in Keys : Recovered[k] = Kept(k)
    BY HistoryIs DEF Recovered, Kept
<1>3. (\A k \in Keys : Recovered[k] = Kept(k))'
    BY DEF Recovered, Kept, Replayed, After, LastIn, LastOf, Effect, EffectIn
<1>4. \A k \in Keys : Recovered'[k] = Recovered[k]
    BY <1>2, <1>3, RecoverHolds
<1>5. MapContents' = MapContents
    BY <1>1, <1>4 DEF MapContents
<1> QED
    BY <1>1, <1>5 DEF Store!mapVars, appVars, Running

LEMMA UpStep == ASSUME KInv, Open PROVE Store!Next
<1>1. /\ appPc = "down" /\ appPc' = "idle" /\ ~Running /\ Running' /\ released = Len(log)
      /\ appOp' = "none" /\ appKey' = NoKey
      /\ UNCHANGED <<slotKey, slotVal, container, durable, log>>
    BY DEF Open, AppReturn, Running, cacheVars, treeVars, logVars
<1>2. \A k \in Keys : Recovered[k] = container[k]
    BY <1>1, OpenKeeps, HistoryIs DEF Recovered, Kept
<1>3. \A s \in Slots : slotKey'[s] = NoKey
    BY <1>1 DEF KInv, AppKnows
<1>4. \A k \in Keys : Lookup(k)' = container[k]
    <2>1. \A k \in Keys : ~(\E s \in Slots : slotKey'[s] = k)
        BY <1>3, NoKeyAssumption
    <2> QED
        BY <1>1, <2>1 DEF Lookup, Cached
<1>5. MapContents' = MapContents
    BY <1>1, <1>2, <1>4 DEF MapContents
<1>6. Store!Up
    BY <1>1, <1>5 DEF Store!Up
<1> QED
    BY <1>6 DEF Store!Next

\* Every step of the engine is a step of the map, or none.
LEMMA StoreStep == ASSUME RoomForAll, KInv, KInv', [Next]_vars PROVE [Store!Next]_(Store!mapVars)
<1>a. Len(log) \in Nat /\ appPc \notin RemoveOomPcs \cup {"rmNotify"}
    BY DEF KInv, NoFailure, IInv, TypeOK, TypeMemory
<1>b. ~BgOom
    BY DEF BgOom, RoomForAll, KInv, IInv, TypeOK
<1>c. appOp \in {"put", "remove"} /\ Running => appKey \in Keys
    BY DEF KInv, AppKnows, IInv, AppHolds, TypeOK, TypeApp, AppPcs, Running, WritePcs, RemoveOomPcs, GetPcs
<1>1. ASSUME NEW k \in Keys, PutCall(k) \/ RemoveCall(k) \/ GetCall(k) PROVE Store!Next
    BY <1>1, BeginStep
<1>2. CASE PutReserve \/ PutCheckOom \/ PutProduce \/ PutFull \/ PutPoint
    <2>1. /\ UNCHANGED <<acked, appOp, appKey>>
          /\ appPc \in WritePcs /\ appPc' \in WritePcs
        BY <1>2 DEF PutReserve, PutCheckOom, PutProduce, PutFull, PutPoint, AppGoto, WritePcs, OutOfMemory,
                    KInv, NoFailure
    <2>2. Len(log') \in {Len(log), Len(log) + 1}
        <3>1. CASE PutProduce
            <4>1. log \in Seq(EntryType)
                BY DEF KInv, IInv, TypeOK, TypeMemory
            <4> QED
                BY <3>1, <4>1 DEF PutProduce
        <3>2. CASE ~PutProduce
            BY <1>2, <3>2 DEF PutReserve, PutCheckOom, PutFull, PutPoint, logVars
        <3> QED
            BY <3>1, <3>2
    <2>3. Running /\ Running' /\ AnswerNow' = AnswerNow /\ appOp \in {"put", "remove"}
        BY <2>1 DEF Running, AnswerNow, WritePcs, KInv, IInv, AppHolds
    <2> QED
        BY <1>c, <2>1, <2>2, <2>3, InsideCall
<1>3. CASE PutPublish
    BY <1>3, FinishStep
<1>4. CASE GetLoad \/ GetValidate \/ GetFind
    BY <1>4, AnswerStep
<1>5. CASE GetFill
    <2>1. UNCHANGED <<acked, appOp, appKey, appPtr, log>> /\ appPc = "fill" /\ appPc' = "return"
        BY <1>5 DEF GetFill, AppGoto, logVars
    <2>2. Running /\ Running' /\ AnswerNow' = AnswerNow
        BY <2>1 DEF Running, AnswerNow, ValueAt
    <2> QED
        BY <1>a, <1>c, <2>1, <2>2, InsideCall
<1>6. CASE GetReturn
    BY <1>6, ReturnStep
<1>7. CASE CloseStop \/ CloseNotify
    <2>1. UNCHANGED <<acked, appOp, appKey, log>> /\ Running /\ Running' /\ AnswerNow' = AnswerNow
        BY <1>7 DEF CloseStop, CloseNotify, AppGoto, logVars, Running, AnswerNow
    <2> QED
        BY <1>a, <1>c, <2>1, InsideCall
<1>8. CASE CloseJoin \/ Crash
    BY <1>8, DownStep
<1>9. CASE BgTop \/ BgTake \/ BgApply \/ BgSwap \/ BgCommit \/ BgReport \/ BgLock \/ BgCheck \/ BgWait \/ BgSpuriousWake
    <2>1. UNCHANGED <<acked, appVars, log>> /\ bgPc # "done"
        BY <1>9 DEF BgTop, BgTake, BgApply, BgSwap, BgCommit, BgReport, BgLock, BgCheck, BgWait, BgSpuriousWake, logVars
    <2>2. Running
        BY <2>1 DEF Running, KInv, IInv, AppHolds
    <2>3. Running' /\ AnswerNow' = AnswerNow /\ UNCHANGED <<appOp, appKey>>
        BY <2>1, <2>2 DEF appVars, Running, AnswerNow, ValueAt
    <2> QED
        BY <1>a, <1>c, <2>1, <2>2, <2>3, InsideCall
<1>10. CASE Recover
    BY <1>10, RecoverStep
<1>11. CASE Open
    BY <1>11, UpStep
<1>12. CASE UNCHANGED vars
    BY <1>12 DEF vars, cacheVars, logVars, treeVars, appVars, Store!mapVars, MapContents, Lookup, Cached, SlotOf,
                 ValueAt, Recovered, Replayed, LastOf, Effect, Running
<1> QED
    BY <1>a, <1>b, <1>1, <1>2, <1>3, <1>4, <1>5, <1>6, <1>7, <1>8, <1>9, <1>10, <1>11, <1>12
    DEF Next, AppCalls, AppStep, BgStep, RemoveOomCache, RemoveOomErase, RemoveOomClear, RemoveOomNotify, RemoveOomPcs

\* With a cache slot for every key, the cache, the log and the tree together are one map that
\* answers every get, settles every write when it returns, and survives crashes and partial
\* recoveries but for the key being written.
THEOREM CrashSafeMap == ASSUME RoomForAll PROVE Spec => ImplementsKVMap
<1>1. Init => Store!Init
    <2> SUFFICES ASSUME Init PROVE Store!Init
        OBVIOUS
    <2>1. Running /\ Len(log) = 0 /\ appPc = "idle"
        BY DEF Init, Running
    <2>2. \A k \in Keys : Lookup(k) = 0
        BY NoKeyAssumption DEF Init, CacheInit, Lookup, Cached
    <2>3. MapContents = [k \in Keys |-> 0]
        BY <2>1, <2>2 DEF MapContents
    <2> QED
        BY <2>1, <2>3 DEF Init, Store!Init
<1>2. KInv /\ KInv' /\ [Next]_vars => [Store!Next]_(Store!mapVars)
    BY StoreStep
<1> QED
    BY <1>1, <1>2, KInvHolds, PTL DEF Spec, ImplementsKVMap, Store!Spec

-----------------------------------------------------------------------------

(***************************************************************************)
(* Range queries (HeteroWalk).                                             *)
(*                                                                         *)
(* What a query relies on.  The cache's map stays as it is while the query *)
(* runs, and so do the acknowledged contents; the background thread moves  *)
(* values to the tree only for keys that are cached.  So a key that is not *)
(* cached is in the tree with its acknowledged value throughout, and the   *)
(* two iterators need to agree on the cached ones only (Passing).          *)
(***************************************************************************)

WalkPcs == {"idle", "settle", "test", "value", "read", "next", "stopped", "return"}
OnElementPcs == {"test", "value", "read", "next", "stopped"}

Elements == {End} \cup [key : Keys, entry : Nat]
AnyPointer == {"null", "tombstone_volatile", "tombstone_persistent", "log", "leaf"} \X Nat
Reports == [key : Keys, size : Nat, entry : Nat]

WalkType ==
  walk \in [pc : WalkPcs, dram : Keys \cup {NoKey}, pmem : Elements, cur : {"dram", "pmem"},
            above : Nat, below : Nat, ptr : AnyPointer, size : Nat, seen : Seq(Reports)]

\* An iterator at position p has gone past key k.
Before(k, p) == p = NoKey \/ k < p

Positions ==
  /\ ~DramEnd => walk.above < walk.dram /\ Cached(walk.dram)
  /\ ~PmemEnd =>
       /\ walk.above < walk.pmem.key
       /\ ~Cached(walk.pmem.key) => walk.pmem.entry = acked[walk.pmem.key] /\ walk.pmem.entry # 0

\* Neither iterator runs ahead of the other over a key that only it could report.
Passing ==
  \A k \in Keys : walk.above < k =>
    /\ Cached(k) /\ Before(k, walk.dram) => Before(k, walk.pmem.key)
    /\ ~Cached(k) /\ acked[k] # 0 /\ Before(k, walk.pmem.key) => Before(k, walk.dram)

OnElement ==
  /\ walk.pc \in OnElementPcs =>
       /\ walk.cur = "pmem" => PmemFirst
       /\ walk.cur = "dram" => DramFirst /\ acked[walk.dram] # 0
  /\ walk.pc \in OnElementPcs \ {"test"} => CurrentKey < walk.below
  /\ walk.pc = "read" =>
       walk.cur = "dram" /\ walk.size = acked[walk.dram] /\ ValueAt(walk.ptr) = acked[walk.dram]

Wanted == {k \in Keys : walk.above < k /\ k < walk.below /\ acked[k] # 0}

\* Both iterators are past k, or k was reported a moment ago.
Covered(k) ==
  \/ Before(k, walk.dram) /\ Before(k, walk.pmem.key)
  \/ walk.pc \in AfterCallback /\ k = CurrentKey

Past == {k \in Keys : walk.above < k /\ acked[k] # 0 /\ Covered(k)}

SeenAll ==
  /\ walk.pc # "return" => Past \subseteq Wanted /\ Len(walk.seen) = Cardinality(Past)
  /\ walk.pc = "return" => Len(walk.seen) = Cardinality(Wanted)

RankIn(k, ks) == Cardinality({j \in ks : j < k})

SeenInOrder ==
  \A n \in 1 .. Len(walk.seen) :
    LET k == walk.seen[n].key IN
    k \in Wanted /\ RankIn(k, Wanted) = n - 1 /\ walk.seen[n] = [key |-> k, size |-> acked[k], entry |-> acked[k]]

WInv ==
  /\ WalkType
  /\ walk.pc = "idle" => walk = NoWalk
  /\ walk.pc # "idle" => appPc = "idle" /\ Positions /\ Passing /\ OnElement /\ SeenAll /\ SeenInOrder

-----------------------------------------------------------------------------
(* The iterators.                                                          *)

\* upper_bound finds the least key there is.
LEMMA LeastIs ==
  ASSUME NEW S \in SUBSET Nat, S # {}
  PROVE  LeastOf(S) \in S /\ \A j \in S : LeastOf(S) <= j
<1> DEFINE T == {0 - i : i \in S}
<1>1. T \in SUBSET Int /\ T # {} /\ \A i \in T : i <= 0
  <2>1. \A i \in S : i \in Nat /\ 0 - i \in Int /\ 0 - i <= 0
    OBVIOUS
  <2> QED
    BY <2>1
<1>2. \E i \in T : \A j \in T : j <= i
  <2> HIDE DEF T
  <2> QED
    BY <1>1, LastExists
<1>3. PICK m \in S : \A j \in T : j <= 0 - m
  BY <1>2
<1>4. ASSUME NEW j \in S PROVE m <= j
  <2>1. 0 - j \in T /\ j \in Int /\ m \in Int
    BY <1>4
  <2>2. 0 - j <= 0 - m
    <3> HIDE DEF T
    <3> QED
      BY <1>3, <2>1
  <2> QED
    BY <2>1, <2>2
<1> QED
  BY <1>3, <1>4, Zenon DEF LeastOf

\* ++ of the cache's iterator leaves out no cached key.
LEMMA NextCachedIs ==
  ASSUME NEW k \in Nat
  PROVE  /\ NextCached(k) \in Keys \cup {NoKey}
         /\ NextCached(k) # NoKey => k < NextCached(k) /\ Cached(NextCached(k))
         /\ \A j \in Keys : k < j /\ Cached(j) => ~Before(j, NextCached(k))
<1> DEFINE S == {j \in Keys : j > k /\ Cached(j)}
<1>1. NextCached(k) = IF S = {} THEN NoKey ELSE LeastOf(S)
  BY DEF NextCached
<1>2. S \subseteq Nat /\ S \subseteq Keys /\ Keys \subseteq Nat
  BY OrderAssumption
<1>3. CASE S = {}
  BY <1>1, <1>2, <1>3
<1>4. CASE S # {}
  <2>1. LeastOf(S) \in S /\ \A j \in S : LeastOf(S) <= j
    <3> HIDE DEF S
    <3> QED
      BY <1>2, <1>4, LeastIs
  <2>2. NextCached(k) = LeastOf(S)
    BY <1>1, <1>4
  <2>3. ASSUME NEW j \in Keys, k < j, Cached(j) PROVE ~Before(j, NextCached(k))
    <3>1. j \in S
      BY <2>3
    <3>2. NextCached(k) \in Keys /\ NextCached(k) <= j /\ NextCached(k) # NoKey
      BY <2>1, <2>2, <3>1, NoKeyAssumption
    <3>3. NextCached(k) \in Nat /\ j \in Nat
      BY <1>2, <3>2
    <3> QED
      BY <3>2, <3>3 DEF Before
  <2> QED
    BY <2>1, <2>2, <2>3
<1> QED
  BY <1>3, <1>4

\* ++ of the tree's iterator leaves out no key of the tree.
LEMMA NextLeafIs ==
  ASSUME NEW k \in Nat, container \in [Keys -> Nat]
  PROVE  /\ NextLeaf(k) \in Elements
         /\ NextLeaf(k) # End =>
              /\ NextLeaf(k).key \in Keys /\ k < NextLeaf(k).key
              /\ NextLeaf(k).entry = container[NextLeaf(k).key] /\ NextLeaf(k).entry # 0
         /\ \A j \in Keys : k < j /\ container[j] # 0 => ~Before(j, NextLeaf(k).key)
<1> DEFINE S == {j \in Keys : j > k /\ container[j] # 0}
<1>1. NextLeaf(k) = IF S = {} THEN End ELSE [key |-> LeastOf(S), entry |-> container[LeastOf(S)]]
  BY DEF NextLeaf
<1>2. S \subseteq Nat /\ S \subseteq Keys /\ Keys \subseteq Nat
  BY OrderAssumption
<1>3. CASE S = {}
  BY <1>1, <1>2, <1>3 DEF Elements
<1>4. CASE S # {}
  <2>1. LeastOf(S) \in S /\ \A j \in S : LeastOf(S) <= j
    <3> HIDE DEF S
    <3> QED
      BY <1>2, <1>4, LeastIs
  <2>2. NextLeaf(k) = [key |-> LeastOf(S), entry |-> container[LeastOf(S)]]
    BY <1>1, <1>4
  <2>3. NextLeaf(k).key = LeastOf(S) /\ NextLeaf(k).entry = container[LeastOf(S)] /\ LeastOf(S) \in Keys
    <3>1. LeastOf(S) \in Keys
      <4> HIDE DEF S
      <4> QED
        BY <1>2, <2>1
    <3>2. \A m, e : [key |-> m, entry |-> e].key = m /\ [key |-> m, entry |-> e].entry = e
      OBVIOUS
    <3> HIDE DEF S
    <3> QED
      BY <2>2, <3>1, <3>2, Zenon
  <2>4. ASSUME NEW j \in Keys, k < j, container[j] # 0 PROVE ~Before(j, NextLeaf(k).key)
    <3>1. j \in S
      BY <2>4
    <3>2. LeastOf(S) <= j /\ LeastOf(S) # NoKey /\ LeastOf(S) \in Nat /\ j \in Nat
      BY <1>2, <2>1, <2>3, <3>1, NoKeyAssumption
    <3> HIDE DEF S
    <3> QED
      BY <2>3, <3>2 DEF Before
  <2> QED
    BY <2>1, <2>2, <2>3, <2>4 DEF Elements
<1> QED
  BY <1>3, <1>4

-----------------------------------------------------------------------------
(* What a query sees of a key while the background thread goes on.         *)

\* A key's value is where the cache says, and in the tree when it is not cached.
LEMMA KeyIs ==
  ASSUME KInv, appPc = "idle", NEW k \in Keys
  PROVE  /\ k \in Nat /\ acked[k] \in Nat /\ container \in [Keys -> Nat]
         /\ Cached(k) =>
              /\ SlotOf(k) \in Slots /\ slotVal[SlotOf(k)] \in AnyPointer
              /\ ValueAt(slotVal[SlotOf(k)]) = acked[k]
              /\ slotVal[SlotOf(k)] \in Tombstones <=> acked[k] = 0
         /\ ~Cached(k) => container[k] = acked[k]
<1>1. Running /\ ~Writing(k) /\ TypeMemory /\ TypeCache
  BY DEF KInv, IInv, AppKnows, Running, Writing, TypeOK
<1>2. Lookup(k) = acked[k]
  BY <1>1, SettledKey
<1>3. k \in Nat /\ acked[k] \in Nat /\ container \in [Keys -> Nat]
  BY <1>1, OrderAssumption DEF TypeMemory
<1>4. ASSUME Cached(k)
      PROVE  /\ SlotOf(k) \in Slots /\ slotVal[SlotOf(k)] \in AnyPointer
             /\ slotVal[SlotOf(k)] \in Tombstones <=> ValueAt(slotVal[SlotOf(k)]) = 0
  <2> DEFINE s == SlotOf(k)
  <2>1. s \in Slots /\ slotKey[s] = k
    BY <1>4 DEF Cached, SlotOf
  <2>2. slotVal[s] # Null
    BY <2>1, NoKeyAssumption DEF KInv, Holdings, NullIsReserved, ReservePcs
  <2>3. slotVal[s] \in Pointers(Len(log)) /\ Len(log) \in Nat
    BY <1>1, <2>1 DEF TypeCache, TypeMemory
  <2>4. CASE slotVal[s] \in Tombstones
    BY <2>1, <2>4, ValueIs DEF Tombstones, TombstoneVolatile, TombstonePersistent, AnyPointer
  <2>5. CASE slotVal[s] \notin Tombstones
    <3>1. PICK i \in 1 .. Len(log) : slotVal[s] = InLog(i) \/ slotVal[s] = InLeaf(i)
      BY <2>2, <2>3, <2>5 DEF Pointers
    <3>2. ValueAt(slotVal[s]) = i /\ i \in Nat /\ i # 0
      BY <2>3, <3>1, ValueIs
    <3>3. InLog(i) \in AnyPointer /\ InLeaf(i) \in AnyPointer
      BY <3>2 DEF InLog, InLeaf, AnyPointer
    <3> QED
      BY <2>1, <2>5, <3>1, <3>2, <3>3
  <2> QED
    BY <2>4, <2>5
<1> QED
  BY <1>2, <1>3, <1>4 DEF Lookup

\* The iterators are on keys.
LEMMA PositionsAre ==
  ASSUME WInv, walk.pc # "idle"
  PROVE  /\ walk.above \in Nat /\ walk.below \in Nat /\ walk.pmem \in Elements
         /\ DramEnd <=> walk.dram = NoKey
         /\ PmemEnd <=> walk.pmem.key = NoKey
         /\ ~DramEnd => walk.dram \in Keys /\ walk.dram \in Nat
         /\ ~PmemEnd => walk.pmem.key \in Keys /\ walk.pmem.key \in Nat
<1>1. WalkType
  BY DEF WInv
<1>2. walk.above \in Nat /\ walk.below \in Nat /\ walk.pmem \in Elements /\ walk.dram \in Keys \cup {NoKey}
  BY <1>1 DEF WalkType
<1>3. PmemEnd => walk.pmem.key = NoKey
  BY DEF PmemEnd, End
<1>4. ~PmemEnd => walk.pmem.key \in Keys
  BY <1>2 DEF PmemEnd, Elements
<1> QED
  BY <1>2, <1>3, <1>4, NoKeyAssumption, OrderAssumption DEF DramEnd

\* A step that reports nothing and passes no key leaves the report as it is.
LEMMA SeenFrame ==
  ASSUME WInv, walk.pc \notin {"idle", "return"}, walk'.pc # "return", acked' = acked,
         walk'.above = walk.above, walk'.below = walk.below, walk'.seen = walk.seen,
         \A k \in Keys : walk.above < k /\ acked[k] # 0 => (Covered(k)' <=> Covered(k))
  PROVE  SeenAll' /\ SeenInOrder'
<1>1. Wanted' = Wanted
  BY DEF Wanted
<1>2. Past' = Past
  BY DEF Past
<1> QED
  BY <1>1, <1>2 DEF WInv, SeenAll, SeenInOrder, RankIn

\* The map of the cache is the same.
LEMMA CachedFrame ==
  ASSUME slotKey' = slotKey
  PROVE  \A k : Cached(k)' <=> Cached(k)
BY DEF Cached

-----------------------------------------------------------------------------
(* The steps.                                                              *)

LEMMA SkipPmemInv == ASSUME KInv, WInv, SkipPmem PROVE WInv'
<1> DEFINE p == walk.pmem.key
<1>1. /\ walk.pc = "settle" /\ walk' = [walk EXCEPT !.pmem = NextLeaf(walk.pmem.key)]
      /\ WalkType /\ appPc = "idle" /\ UNCHANGED vars
  BY DEF SkipPmem, Walking, WInv
<1>2. p \in Keys /\ p \in Nat /\ walk.dram = p /\ ~DramEnd /\ walk.above < p /\ Cached(p) /\ walk.above \in Nat
  BY <1>1, PositionsAre DEF SkipPmem, SameKey, WInv, Positions
<1>3. container \in [Keys -> Nat] /\ \A k \in Keys : k \in Nat /\ (~Cached(k) => container[k] = acked[k])
  BY <1>1, <1>2, KeyIs
<1>4. /\ NextLeaf(p) \in Elements
      /\ NextLeaf(p) # End =>
           /\ NextLeaf(p).key \in Keys /\ p < NextLeaf(p).key
           /\ NextLeaf(p).entry = container[NextLeaf(p).key] /\ NextLeaf(p).entry # 0
      /\ \A j \in Keys : p < j /\ container[j] # 0 => ~Before(j, NextLeaf(p).key)
      /\ NextLeaf(p) = End => NextLeaf(p).key = NoKey
  BY <1>2, <1>3, NextLeafIs DEF End
<1>5. /\ walk'.pc = "settle" /\ walk'.dram = walk.dram /\ walk'.pmem = NextLeaf(p) /\ walk'.above = walk.above
      /\ walk'.below = walk.below /\ walk'.seen = walk.seen /\ WalkType'
  BY <1>1, <1>4 DEF WalkType
<1>6. acked' = acked /\ slotKey' = slotKey /\ appPc' = "idle"
  BY <1>1 DEF vars, cacheVars, appVars
<1>7. Positions'
  <2>1. CASE NextLeaf(p) = End
    BY <1>1, <1>5, <1>6, <2>1, CachedFrame DEF Positions, PmemEnd, DramEnd, WInv
  <2>2. CASE NextLeaf(p) # End
    <3>1. walk.above < NextLeaf(p).key
      BY <1>2, <1>3, <1>4, <2>2
    <3> QED
      BY <1>1, <1>3, <1>4, <1>5, <1>6, <2>2, <3>1, CachedFrame DEF Positions, PmemEnd, DramEnd, WInv
  <2> QED
    BY <2>1, <2>2
<1>8. ASSUME NEW k \in Keys
      PROVE  /\ Before(k, walk.dram) <=> k < p
             /\ Before(k, walk.pmem.key) <=> k < p
             /\ k < p => Before(k, NextLeaf(p).key)
  <2>1. p # NoKey
    BY <1>2, NoKeyAssumption
  <2> QED
    BY <1>2, <1>3, <1>4, <2>1 DEF Before
<1>9. Passing'
  <2> SUFFICES ASSUME NEW k \in Keys, walk.above < k
               PROVE  /\ Cached(k) /\ Before(k, walk.dram) => Before(k, NextLeaf(p).key)
                      /\ ~Cached(k) /\ acked[k] # 0 /\ Before(k, NextLeaf(p).key) => Before(k, walk.dram)
    BY <1>5, <1>6, CachedFrame DEF Passing
  <2>1. ~Cached(k) /\ acked[k] # 0 /\ Before(k, NextLeaf(p).key) => ~(p < k) /\ k # p
    BY <1>2, <1>3, <1>4
  <2> QED
    BY <1>2, <1>3, <1>8, <2>1
<1>10. SeenAll' /\ SeenInOrder'
  <2>1. \A k \in Keys : Covered(k)' <=> Covered(k)
    BY <1>1, <1>5, <1>8 DEF Covered, AfterCallback
  <2> QED
    BY <1>1, <1>5, <1>6, <2>1, SeenFrame
<1> QED
  BY <1>5, <1>6, <1>7, <1>9, <1>10 DEF WInv, OnElement, OnElementPcs

LEMMA TakePmemInv == ASSUME KInv, WInv, TakePmem PROVE WInv'
<1>1. /\ walk.pc = "settle" /\ walk' = [walk EXCEPT !.cur = "pmem", !.pc = "test"]
      /\ WalkType /\ appPc = "idle" /\ UNCHANGED vars /\ PmemFirst
  BY DEF TakePmem, Walking, WInv
<1>2. /\ walk'.pc = "test" /\ walk'.cur = "pmem" /\ walk'.dram = walk.dram /\ walk'.pmem = walk.pmem
      /\ walk'.above = walk.above /\ walk'.below = walk.below /\ walk'.seen = walk.seen /\ WalkType'
  BY <1>1 DEF WalkType, WalkPcs
<1>3. acked' = acked /\ slotKey' = slotKey /\ appPc' = "idle"
  BY <1>1 DEF vars, cacheVars, appVars
<1>4. Positions' /\ Passing'
  BY <1>1, <1>2, <1>3, CachedFrame DEF WInv, Positions, Passing, DramEnd, PmemEnd
<1>5. OnElement'
  BY <1>1, <1>2, <1>3 DEF OnElement, PmemFirst, DramEnd, PmemEnd
<1>6. SeenAll' /\ SeenInOrder'
  <2>1. \A k \in Keys : Covered(k)' <=> Covered(k)
    BY <1>1, <1>2 DEF Covered, AfterCallback
  <2> QED
    BY <1>1, <1>2, <1>3, <2>1, SeenFrame
<1> QED
  BY <1>2, <1>3, <1>4, <1>5, <1>6 DEF WInv

LEMMA TakeDramInv == ASSUME KInv, WInv, TakeDram PROVE WInv'
<1> DEFINE d == walk.dram
<1>1. /\ walk.pc = "settle" /\ DramFirst /\ WalkType /\ appPc = "idle" /\ UNCHANGED vars
      /\ walk' = IF slotVal[SlotOf(walk.dram)] \in Tombstones
                 THEN [walk EXCEPT !.dram = NextCached(walk.dram)]
                 ELSE [walk EXCEPT !.cur = "dram", !.pc = "test"]
  BY DEF TakeDram, Walking, WInv
<1>2. d \in Keys /\ d \in Nat /\ d # NoKey /\ ~DramEnd /\ walk.above < d /\ Cached(d) /\ walk.above \in Nat
  BY <1>1, PositionsAre, NoKeyAssumption DEF DramFirst, WInv, Positions
<1>3. /\ \A k \in Keys : k \in Nat /\ (~Cached(k) => container[k] = acked[k])
      /\ slotVal[SlotOf(d)] \in Tombstones <=> acked[d] = 0
  BY <1>1, <1>2, KeyIs
<1>4. acked' = acked /\ slotKey' = slotKey /\ appPc' = "idle"
  BY <1>1 DEF vars, cacheVars, appVars
<1>5. CASE acked[d] # 0
  <2>1. /\ walk'.pc = "test" /\ walk'.cur = "dram" /\ walk'.dram = walk.dram /\ walk'.pmem = walk.pmem
        /\ walk'.above = walk.above /\ walk'.below = walk.below /\ walk'.seen = walk.seen /\ WalkType'
    BY <1>1, <1>3, <1>5 DEF WalkType, WalkPcs
  <2>2. Positions' /\ Passing'
    BY <1>1, <1>4, <2>1, CachedFrame DEF WInv, Positions, Passing, DramEnd, PmemEnd
  <2>3. OnElement'
    BY <1>1, <1>4, <1>5, <2>1 DEF OnElement, DramFirst, DramEnd, PmemEnd
  <2>4. SeenAll' /\ SeenInOrder'
    <3>1. \A k \in Keys : Covered(k)' <=> Covered(k)
      BY <1>1, <2>1 DEF Covered, AfterCallback
    <3> QED
      BY <1>1, <1>4, <2>1, <3>1, SeenFrame
  <2> QED
    BY <1>4, <2>1, <2>2, <2>3, <2>4 DEF WInv
<1>6. CASE acked[d] = 0
  <2>1. /\ NextCached(d) \in Keys \cup {NoKey}
        /\ NextCached(d) # NoKey => d < NextCached(d) /\ Cached(NextCached(d))
        /\ \A j \in Keys : d < j /\ Cached(j) => ~Before(j, NextCached(d))
    BY <1>2, NextCachedIs
  <2>2. /\ walk'.pc = "settle" /\ walk'.dram = NextCached(d) /\ walk'.pmem = walk.pmem
        /\ walk'.above = walk.above /\ walk'.below = walk.below /\ walk'.seen = walk.seen /\ WalkType'
    BY <1>1, <1>3, <1>6, <2>1 DEF WalkType
  <2>3. NextCached(d) # NoKey => walk.above < NextCached(d)
    BY <1>2, <1>3, <2>1
  <2>4. Positions'
    BY <1>1, <1>4, <2>1, <2>2, <2>3, CachedFrame DEF WInv, Positions, DramEnd, PmemEnd
  <2>5. ASSUME NEW k \in Keys
        PROVE  /\ Before(k, walk.dram) <=> k < d
               /\ k < d => Before(k, NextCached(d))
               /\ k <= d => Before(k, walk.pmem.key)
    <3>1. ~PmemEnd => d < walk.pmem.key /\ walk.pmem.key \in Nat
      <4>1. ~PmemEnd => d < walk.pmem.key
        BY <1>1 DEF DramFirst
      <4>2. ~PmemEnd => walk.pmem.key \in Nat
        BY <1>1, PositionsAre
      <4> QED
        BY <4>1, <4>2
    <3>2. PmemEnd => walk.pmem.key = NoKey
      BY DEF PmemEnd, End
    <3> QED
      BY <1>2, <1>3, <2>1, <3>1, <3>2 DEF Before
  <2>6. Passing'
    <3> SUFFICES ASSUME NEW k \in Keys, walk.above < k
                 PROVE  /\ Cached(k) /\ Before(k, NextCached(d)) => Before(k, walk.pmem.key)
                        /\ ~Cached(k) /\ acked[k] # 0 /\ Before(k, walk.pmem.key) => Before(k, NextCached(d))
      BY <1>4, <2>2, CachedFrame DEF Passing
    <3>1. Cached(k) /\ Before(k, NextCached(d)) => k <= d
      BY <1>2, <1>3, <2>1
    <3>2. ~Cached(k) /\ acked[k] # 0 /\ Before(k, walk.pmem.key) => Before(k, walk.dram)
      BY <1>1 DEF WInv, Passing
    <3> QED
      BY <2>5, <3>1, <3>2
  <2>7. SeenAll' /\ SeenInOrder'
    <3>1. ASSUME NEW k \in Keys, walk.above < k, acked[k] # 0 PROVE Covered(k)' <=> Covered(k)
      <4>1. k # d
        BY <1>6, <3>1
      <4>2. Before(k, NextCached(d)) /\ Before(k, walk.pmem.key) => k < d
        <5>1. CASE Cached(k)
          BY <1>2, <1>3, <2>1, <4>1, <5>1
        <5>2. CASE ~Cached(k)
          BY <1>1, <2>5, <3>1, <5>2 DEF WInv, Passing
        <5> QED
          BY <5>1, <5>2
      <4>3. Covered(k)' <=> Before(k, NextCached(d)) /\ Before(k, walk.pmem.key)
        BY <2>2 DEF Covered, AfterCallback
      <4>4. Covered(k) <=> Before(k, walk.dram) /\ Before(k, walk.pmem.key)
        BY <1>1 DEF Covered, AfterCallback
      <4> QED
        BY <1>2, <1>3, <2>5, <4>2, <4>3, <4>4
    <3> QED
      BY <1>1, <1>4, <2>2, <3>1, SeenFrame
  <2> QED
    BY <1>4, <2>2, <2>4, <2>6, <2>7 DEF WInv, OnElement, OnElementPcs
<1> QED
  BY <1>5, <1>6

\* With both iterators at their ends nothing is left to report.
LEMMA AtEndInv == ASSUME KInv, WInv, AtEnd PROVE WInv'
<1>1. /\ walk.pc = "settle" /\ walk' = [walk EXCEPT !.pc = "return"] /\ DramEnd /\ PmemEnd
      /\ WalkType /\ appPc = "idle" /\ UNCHANGED vars
  BY DEF AtEnd, Walking, WInv
<1>2. /\ walk'.pc = "return" /\ walk'.dram = walk.dram /\ walk'.pmem = walk.pmem
      /\ walk'.above = walk.above /\ walk'.below = walk.below /\ walk'.seen = walk.seen /\ WalkType'
  BY <1>1 DEF WalkType, WalkPcs
<1>3. acked' = acked /\ slotKey' = slotKey /\ appPc' = "idle"
  BY <1>1 DEF vars, cacheVars, appVars
<1>4. Positions' /\ Passing'
  BY <1>1, <1>2, <1>3, CachedFrame DEF WInv, Positions, Passing, DramEnd, PmemEnd
<1>5. Wanted' = Wanted
  BY <1>2, <1>3 DEF Wanted
<1>6. SeenInOrder'
  <2>1. SeenInOrder
    BY <1>1 DEF WInv
  <2> QED
    BY <1>2, <1>3, <1>5, <2>1 DEF SeenInOrder, RankIn
<1>7. SeenAll'
  <2>1. Past = Wanted
    <3>1. Past \subseteq Wanted
      BY <1>1 DEF WInv, SeenAll
    <3>2. Wanted \subseteq Past
      BY <1>1 DEF Wanted, Past, Covered, Before, DramEnd, PmemEnd, End
    <3> QED
      BY <3>1, <3>2
  <2> QED
    BY <1>1, <1>2, <1>5, <2>1 DEF WInv, SeenAll
<1> QED
  BY <1>2, <1>3, <1>4, <1>6, <1>7 DEF WInv, OnElement, OnElementPcs

\* The condition of the loop, and the end of the range.
LEMMA TestInv == ASSUME KInv, WInv, Test PROVE WInv'
<1>1. /\ walk.pc = "test" /\ WalkType /\ appPc = "idle" /\ UNCHANGED vars
      /\ walk' = [walk EXCEPT !.pc = IF CurrentKey < walk.below THEN "value" ELSE "return"]
  BY DEF Test, Walking, WInv
<1>2. /\ walk'.pc = IF CurrentKey < walk.below THEN "value" ELSE "return"
      /\ walk'.dram = walk.dram /\ walk'.pmem = walk.pmem /\ walk'.cur = walk.cur
      /\ walk'.above = walk.above /\ walk'.below = walk.below /\ walk'.seen = walk.seen /\ WalkType'
  BY <1>1 DEF WalkType, WalkPcs
<1>3. acked' = acked /\ slotKey' = slotKey /\ appPc' = "idle"
  BY <1>1 DEF vars, cacheVars, appVars
<1>4. Positions' /\ Passing'
  BY <1>1, <1>2, <1>3, CachedFrame DEF WInv, Positions, Passing, DramEnd, PmemEnd
<1>5. CurrentKey' = CurrentKey
  BY <1>2 DEF CurrentKey
<1>6. CASE CurrentKey < walk.below
  <2>1. walk'.pc = "value"
    BY <1>2, <1>6
  <2>2. OnElement'
    BY <1>1, <1>2, <1>3, <1>5, <1>6, <2>1
       DEF WInv, OnElement, OnElementPcs, DramFirst, PmemFirst, DramEnd, PmemEnd
  <2>3. SeenAll' /\ SeenInOrder'
    <3>1. \A k \in Keys : Covered(k)' <=> Covered(k)
      BY <1>1, <1>2, <2>1 DEF Covered, AfterCallback
    <3> QED
      BY <1>1, <1>2, <1>3, <2>1, <3>1, SeenFrame
  <2> QED
    BY <1>2, <1>3, <1>4, <2>1, <2>2, <2>3 DEF WInv
<1>7. CASE ~(CurrentKey < walk.below)
  <2>1. walk'.pc = "return"
    BY <1>2, <1>7
  <2>2. Wanted' = Wanted
    BY <1>2, <1>3 DEF Wanted
  <2>3. SeenInOrder'
    <3>1. SeenInOrder
      BY <1>1 DEF WInv
    <3> QED
      BY <1>2, <1>3, <2>2, <3>1 DEF SeenInOrder, RankIn
  <2>4. Past = Wanted
    <3>1. Past \subseteq Wanted
      BY <1>1 DEF WInv, SeenAll
    <3>2. ASSUME NEW k \in Wanted PROVE k \in Past
      <4>1. k \in Keys /\ k \in Nat /\ k < walk.below /\ walk.below \in Nat
        BY <1>1, PositionsAre, OrderAssumption DEF Wanted
      <4>2. CASE walk.cur = "dram"
        <5>1. ~DramEnd /\ CurrentKey = walk.dram /\ walk.dram \in Nat /\ (~PmemEnd => walk.dram < walk.pmem.key)
          BY <1>1, <4>2, PositionsAre DEF WInv, OnElement, OnElementPcs, DramFirst, CurrentKey
        <5>2. k < walk.dram /\ (~PmemEnd => k < walk.pmem.key)
          BY <1>1, <1>7, <4>1, <5>1, PositionsAre
        <5> QED
          BY <1>1, <5>2, PositionsAre DEF Past, Wanted, Covered, Before
      <4>3. CASE walk.cur = "pmem"
        <5>1. ~PmemEnd /\ CurrentKey = walk.pmem.key /\ walk.pmem.key \in Nat /\ (~DramEnd => walk.dram > walk.pmem.key)
          BY <1>1, <4>3, PositionsAre DEF WInv, OnElement, OnElementPcs, PmemFirst, CurrentKey
        <5>2. k < walk.pmem.key /\ (~DramEnd => k < walk.dram)
          BY <1>1, <1>7, <4>1, <5>1, PositionsAre
        <5> QED
          BY <1>1, <5>2, PositionsAre DEF Past, Wanted, Covered, Before
      <4> QED
        BY <1>1, <4>2, <4>3 DEF WalkType
    <3> QED
      BY <3>1, <3>2
  <2>5. SeenAll'
    BY <1>1, <1>2, <2>1, <2>2, <2>4 DEF WInv, SeenAll
  <2> QED
    BY <1>2, <1>3, <1>4, <2>1, <2>3, <2>5 DEF WInv, OnElement, OnElementPcs
<1> QED
  BY <1>6, <1>7

\* value() of an element of the cache.
LEMMA LoadPointerInv == ASSUME KInv, WInv, LoadPointer PROVE WInv'
<1> DEFINE v == slotVal[SlotOf(walk.dram)]
<1>1. /\ walk.pc = "value" /\ walk.cur = "dram" /\ WalkType /\ appPc = "idle" /\ UNCHANGED vars
      /\ walk' = [walk EXCEPT !.pc = "read", !.ptr = v, !.size = ValueAt(v)]
  BY DEF LoadPointer, Walking, WInv
<1>2. walk.dram \in Keys /\ Cached(walk.dram)
  BY <1>1, PositionsAre DEF WInv, OnElement, OnElementPcs, DramFirst, Positions
<1>3. v \in AnyPointer /\ ValueAt(v) = acked[walk.dram] /\ acked[walk.dram] \in Nat
  BY <1>1, <1>2, KeyIs
<1>4. /\ walk'.pc = "read" /\ walk'.ptr = v /\ walk'.size = acked[walk.dram]
      /\ walk'.dram = walk.dram /\ walk'.pmem = walk.pmem /\ walk'.cur = walk.cur
      /\ walk'.above = walk.above /\ walk'.below = walk.below /\ walk'.seen = walk.seen /\ WalkType'
  BY <1>1, <1>3 DEF WalkType, WalkPcs
<1>5. acked' = acked /\ slotKey' = slotKey /\ appPc' = "idle"
  BY <1>1 DEF vars, cacheVars, appVars
<1>6. Positions' /\ Passing'
  BY <1>1, <1>4, <1>5, CachedFrame DEF WInv, Positions, Passing, DramEnd, PmemEnd
<1>7. ValueAt(walk.ptr)' = acked[walk.dram]
  BY <1>3, <1>4 DEF ValueAt
<1>8. OnElement'
  BY <1>1, <1>4, <1>5, <1>7 DEF WInv, OnElement, OnElementPcs, DramFirst, DramEnd, PmemEnd, CurrentKey
<1>9. SeenAll' /\ SeenInOrder'
  <2>1. \A k \in Keys : Covered(k)' <=> Covered(k)
    BY <1>1, <1>4 DEF Covered, AfterCallback
  <2> QED
    BY <1>1, <1>4, <1>5, <2>1, SeenFrame
<1> QED
  BY <1>4, <1>5, <1>6, <1>8, <1>9 DEF WInv

\* An element of the tree that comes first is of a key that is not cached.
LEMMA UncachedFirst ==
  ASSUME WInv, walk.pc # "idle", PmemFirst
  PROVE  ~Cached(walk.pmem.key) /\ walk.pmem.entry = acked[walk.pmem.key] /\ acked[walk.pmem.key] # 0
<1> DEFINE p == walk.pmem.key
<1>1. ~PmemEnd /\ p \in Keys /\ p \in Nat /\ p # NoKey /\ walk.above < p /\ (~DramEnd => walk.dram > p)
  BY PositionsAre, NoKeyAssumption DEF PmemFirst, WInv, Positions
<1>2. Before(p, walk.dram)
  <2>1. ~DramEnd => p < walk.dram
    BY <1>1, PositionsAre
  <2> QED
    BY <2>1, PositionsAre DEF Before
<1>3. ~Before(p, p)
  BY <1>1 DEF Before
<1>4. ~Cached(p)
  BY <1>1, <1>2, <1>3 DEF WInv, Passing
<1> QED
  BY <1>1, <1>4 DEF WInv, Positions

\* The element a query is on is a key of the range, and the iterators are past the lower ones.
LEMMA CurrentIs ==
  ASSUME WInv, walk.pc \in OnElementPcs
  PROVE  /\ CurrentKey \in Keys /\ CurrentKey \in Nat /\ walk.above < CurrentKey /\ acked[CurrentKey] # 0
         /\ \A k \in Keys : Before(k, walk.dram) /\ Before(k, walk.pmem.key) <=> k < CurrentKey
<1>1. walk.pc # "idle" /\ WalkType /\ Positions /\ OnElement /\ Keys \subseteq Nat
  BY OrderAssumption DEF WInv, OnElementPcs
<1>2. CASE walk.cur = "dram"
  <2>1. /\ ~DramEnd /\ CurrentKey = walk.dram /\ walk.dram \in Nat /\ walk.dram \in Keys /\ walk.dram # NoKey
        /\ (~PmemEnd => walk.dram < walk.pmem.key) /\ acked[walk.dram] # 0 /\ walk.above < walk.dram
    BY <1>1, <1>2, PositionsAre, NoKeyAssumption DEF OnElement, DramFirst, CurrentKey, Positions
  <2>2. ASSUME NEW k \in Keys PROVE Before(k, walk.dram) /\ Before(k, walk.pmem.key) <=> k < CurrentKey
    <3>1. Before(k, walk.dram) <=> k < walk.dram
      BY <2>1 DEF Before
    <3>2. k < walk.dram => Before(k, walk.pmem.key)
      <4>1. k < walk.dram /\ ~PmemEnd => k < walk.pmem.key
        BY <1>1, <2>1, PositionsAre
      <4> QED
        BY <1>1, <4>1, PositionsAre DEF Before
    <3> QED
      BY <2>1, <3>1, <3>2
  <2> QED
    BY <2>1, <2>2
<1>3. CASE walk.cur = "pmem"
  <2>1. PmemFirst
    BY <1>1, <1>3 DEF OnElement
  <2>2. /\ ~PmemEnd /\ CurrentKey = walk.pmem.key /\ walk.pmem.key \in Nat /\ walk.pmem.key \in Keys
        /\ walk.pmem.key # NoKey /\ walk.above < walk.pmem.key
        /\ ~DramEnd => walk.dram > walk.pmem.key
    BY <1>1, <1>3, <2>1, PositionsAre, NoKeyAssumption DEF PmemFirst, CurrentKey, Positions
  <2>3. ASSUME NEW k \in Keys PROVE Before(k, walk.dram) /\ Before(k, walk.pmem.key) <=> k < CurrentKey
    <3>1. Before(k, walk.pmem.key) <=> k < walk.pmem.key
      BY <2>2 DEF Before
    <3>2. k < walk.pmem.key => Before(k, walk.dram)
      <4>1. k < walk.pmem.key /\ ~DramEnd => k < walk.dram
        BY <1>1, <2>2, PositionsAre
      <4> QED
        BY <1>1, <4>1, PositionsAre DEF Before
    <3> QED
      BY <2>2, <3>1, <3>2
  <2>4. acked[walk.pmem.key] # 0
    BY <1>1, <2>1, UncachedFirst
  <2> QED
    BY <2>2, <2>3, <2>4
<1> QED
  BY <1>1, <1>2, <1>3 DEF WalkType

\* The callback is told the next key of the range with its acknowledged value.
LEMMA ReportInv ==
  ASSUME RoomForAll, KInv, WInv, walk.pc \in {"value", "read"}, UNCHANGED vars,
         Report(acked[CurrentKey], acked[CurrentKey])
  PROVE  WInv'
<1> DEFINE c == CurrentKey
           r == [key |-> c, size |-> acked[c], entry |-> acked[c]]
<1>1. /\ walk.pc \in OnElementPcs /\ walk.pc \notin {"idle", "return"} /\ walk.pc \notin AfterCallback
      /\ WalkType /\ appPc = "idle" /\ Positions /\ Passing /\ OnElement /\ SeenAll /\ SeenInOrder
  BY DEF OnElementPcs, AfterCallback, WInv
<1>2. PICK pc \in AfterCallback :
        walk' = [walk EXCEPT !.pc = pc, !.seen = Append(walk.seen, r), !.ptr = Null, !.size = 0]
  BY DEF Report, Reported
<1>3. /\ c \in Keys /\ c \in Nat /\ walk.above < c /\ acked[c] # 0
      /\ \A k \in Keys : Before(k, walk.dram) /\ Before(k, walk.pmem.key) <=> k < c
  BY <1>1, CurrentIs
<1>4. r \in Reports /\ walk.seen \in Seq(Reports)
  BY <1>1, <1>3, KeyIs DEF Reports, WalkType
<1>5. /\ walk'.pc \in AfterCallback /\ walk'.seen = Append(walk.seen, r) /\ walk'.dram = walk.dram /\ walk'.pmem = walk.pmem
      /\ walk'.cur = walk.cur /\ walk'.above = walk.above /\ walk'.below = walk.below
      /\ WalkType'
  <2>1. Append(walk.seen, r) \in Seq(Reports)
    <3> HIDE DEF r
    <3> QED
      BY <1>4
  <2>2. Null \in AnyPointer /\ pc \in WalkPcs
    BY DEF Null, AnyPointer, AfterCallback, WalkPcs
  <2> HIDE DEF r
  <2> QED
    BY <1>1, <1>2, <2>1, <2>2 DEF WalkType
<1>6. acked' = acked /\ slotKey' = slotKey /\ appPc' = "idle"
  BY <1>1 DEF vars, cacheVars, appVars
<1>7. CurrentKey' = c
  BY <1>5 DEF CurrentKey
<1>8. Positions' /\ Passing'
  BY <1>1, <1>5, <1>6, CachedFrame DEF Positions, Passing, DramEnd, PmemEnd
<1>9. OnElement'
  BY <1>1, <1>5, <1>6, <1>7 DEF OnElement, OnElementPcs, AfterCallback, DramFirst, PmemFirst, DramEnd, PmemEnd
<1>10. Wanted' = Wanted /\ c \in Wanted
  BY <1>1, <1>3, <1>5, <1>6 DEF Wanted, OnElement, OnElementPcs
<1>11. \A k \in Keys : Covered(k) <=> k < c
  BY <1>1, <1>3 DEF Covered
<1>12. \A k \in Keys : Covered(k)' <=> k < c \/ k = c
  BY <1>3, <1>5, <1>7 DEF Covered
<1>13. Past' = Past \cup {c} /\ c \notin Past
  <2>1. Past' = {k \in Keys : walk.above < k /\ acked[k] # 0 /\ (k < c \/ k = c)}
    BY <1>5, <1>6, <1>12 DEF Past
  <2>2. Past = {k \in Keys : walk.above < k /\ acked[k] # 0 /\ k < c}
    BY <1>11 DEF Past
  <2>3. ~(c < c)
    BY <1>3
  <2> HIDE DEF c
  <2> QED
    BY <1>3, <2>1, <2>2, <2>3
<1>14. Past \subseteq Wanted /\ Len(walk.seen) = Cardinality(Past) /\ IsFiniteSet(Past)
  <2>1. Past \in SUBSET Keys
    BY DEF Past
  <2>2. IsFiniteSet(Past)
    BY <2>1, FS_Subset DEF RoomForAll
  <2> QED
    BY <1>1, <2>2 DEF SeenAll
<1>15. SeenAll'
  <2>1. Cardinality(Past') = Cardinality(Past) + 1
    BY <1>13, <1>14, FS_AddElement
  <2>2. Len(walk'.seen) = Len(walk.seen) + 1
    <3> HIDE DEF r
    <3> QED
      BY <1>4, <1>5
  <2>3. Past' \subseteq Wanted'
    BY <1>10, <1>13, <1>14
  <2> QED
    BY <1>5, <1>14, <2>1, <2>2, <2>3 DEF SeenAll, AfterCallback
<1>16. SeenInOrder'
  <2>1. RankIn(c, Wanted) = Len(walk.seen)
    <3>1. {j \in Wanted : j < c} = Past
      BY <1>11, <1>14 DEF Wanted, Past
    <3> QED
      BY <1>14, <3>1 DEF RankIn
  <2>2. ASSUME NEW n \in 1 .. Len(walk'.seen)
        PROVE  LET k == walk'.seen[n].key IN
               k \in Wanted /\ RankIn(k, Wanted) = n - 1 /\ walk'.seen[n] = [key |-> k, size |-> acked[k], entry |-> acked[k]]
    <3>1. CASE n \in 1 .. Len(walk.seen)
      <4>1. walk'.seen[n] = walk.seen[n]
        <5> HIDE DEF r
        <5> QED
          BY <1>4, <1>5, <3>1
      <4> QED
        BY <1>1, <3>1, <4>1 DEF SeenInOrder
    <3>2. CASE n \notin 1 .. Len(walk.seen)
      <4>1. walk'.seen[n] = r /\ n = Len(walk.seen) + 1 /\ Len(walk.seen) \in Nat
        <5> HIDE DEF r
        <5> QED
          BY <1>4, <1>5, <3>2
      <4>2. walk'.seen[n].key = c
        BY <4>1
      <4> QED
        BY <1>10, <2>1, <4>1, <4>2
    <3> QED
      BY <3>1, <3>2
  <2> QED
    BY <1>6, <1>10, <2>2 DEF SeenInOrder, RankIn
<1> QED
  BY <1>5, <1>6, <1>8, <1>9, <1>15, <1>16 DEF WInv, AfterCallback

LEMMA ValueOfLeafInv == ASSUME RoomForAll, KInv, WInv, ValueOfLeaf PROVE WInv'
<1>1. walk.pc = "value" /\ walk.cur = "pmem" /\ UNCHANGED vars /\ Report(walk.pmem.entry, walk.pmem.entry)
  BY DEF ValueOfLeaf, Walking
<1>2. PmemFirst /\ CurrentKey = walk.pmem.key
  BY <1>1 DEF WInv, OnElement, OnElementPcs, CurrentKey
<1>3. walk.pmem.entry = acked[CurrentKey]
  BY <1>1, <1>2, UncachedFirst
<1> QED
  BY <1>1, <1>3, ReportInv

LEMMA ReadLeafInv == ASSUME RoomForAll, KInv, WInv, ReadLeaf PROVE WInv'
<1>1. walk.pc = "read" /\ UNCHANGED vars /\ Report(walk.size, ValueAt(walk.ptr))
  BY DEF ReadLeaf, Walking
<1>2. walk.size = acked[CurrentKey] /\ ValueAt(walk.ptr) = acked[CurrentKey]
  BY <1>1 DEF WInv, OnElement, CurrentKey
<1> QED
  BY <1>1, <1>2, ReportInv

\* A pointer that is tried again leads to the same value.
LEMMA CopyFromLogInv == ASSUME RoomForAll, KInv, WInv, CopyFromLog PROVE WInv'
<1> DEFINE now == slotVal[SlotOf(walk.dram)]
<1>1. /\ walk.pc = "read" /\ UNCHANGED vars /\ WalkType /\ appPc = "idle"
      /\ walk.cur = "dram" /\ walk.size = acked[walk.dram] /\ ValueAt(walk.ptr) = acked[walk.dram]
  BY DEF CopyFromLog, Walking, WInv, OnElement
<1>2. CASE now = walk.ptr
  <2>1. Report(acked[CurrentKey], acked[CurrentKey])
    BY <1>1, <1>2 DEF CopyFromLog, CurrentKey
  <2> QED
    BY <1>1, <2>1, ReportInv
<1>3. CASE now # walk.ptr
  <2>1. walk' = [walk EXCEPT !.ptr = now]
    BY <1>3 DEF CopyFromLog
  <2>2. walk.dram \in Keys /\ Cached(walk.dram)
    BY <1>1, PositionsAre DEF WInv, OnElement, OnElementPcs, DramFirst, Positions
  <2>3. now \in AnyPointer /\ ValueAt(now) = acked[walk.dram]
    BY <1>1, <2>2, KeyIs
  <2>4. /\ walk'.pc = "read" /\ walk'.ptr = now /\ walk'.size = walk.size
        /\ walk'.dram = walk.dram /\ walk'.pmem = walk.pmem /\ walk'.cur = walk.cur
        /\ walk'.above = walk.above /\ walk'.below = walk.below /\ walk'.seen = walk.seen /\ WalkType'
    BY <1>1, <2>1, <2>3 DEF WalkType
  <2>5. acked' = acked /\ slotKey' = slotKey /\ appPc' = "idle"
    BY <1>1 DEF vars, cacheVars, appVars
  <2>6. Positions' /\ Passing'
    BY <1>1, <2>4, <2>5, CachedFrame DEF WInv, Positions, Passing, DramEnd, PmemEnd
  <2>7. ValueAt(walk.ptr)' = acked[walk.dram]
    BY <2>3, <2>4 DEF ValueAt
  <2>8. OnElement'
    BY <1>1, <2>4, <2>5, <2>7 DEF WInv, OnElement, OnElementPcs, DramFirst, DramEnd, PmemEnd, CurrentKey
  <2>9. SeenAll' /\ SeenInOrder'
    <3>1. \A k \in Keys : Covered(k)' <=> Covered(k)
      BY <1>1, <2>4 DEF Covered, AfterCallback
    <3> QED
      BY <1>1, <2>4, <2>5, <3>1, SeenFrame
  <2> QED
    BY <2>4, <2>5, <2>6, <2>8, <2>9 DEF WInv
<1> QED
  BY <1>2, <1>3

\* ++ passes over no key that has a value.
LEMMA IncrementInv == ASSUME KInv, WInv, Increment PROVE WInv'
<1> DEFINE c == CurrentKey
<1>1. /\ walk.pc = "next" /\ WalkType /\ appPc = "idle" /\ UNCHANGED vars
      /\ Positions /\ Passing /\ OnElement
  BY DEF Increment, Walking, WInv
<1>2. /\ c \in Keys /\ c \in Nat /\ walk.above < c /\ walk.above \in Nat /\ c # NoKey
      /\ \A k \in Keys : Before(k, walk.dram) /\ Before(k, walk.pmem.key) <=> k < c
  BY <1>1, CurrentIs, PositionsAre, NoKeyAssumption DEF OnElementPcs
<1>3. container \in [Keys -> Nat] /\ \A k \in Keys : k \in Nat /\ (~Cached(k) => container[k] = acked[k])
  BY <1>1, <1>2, KeyIs
<1>4. acked' = acked /\ slotKey' = slotKey /\ appPc' = "idle"
  BY <1>1 DEF vars, cacheVars, appVars
<1>5. \A k \in Keys : Covered(k) <=> k < c \/ k = c
  BY <1>1, <1>2 DEF Covered, AfterCallback
<1>8. c \in Nat /\ walk.above < c /\ walk.above \in Nat /\ \A k \in Keys : k \in Nat
  BY <1>2, <1>3
<1> HIDE DEF c
<1>6. CASE walk.cur = "dram"
  <2>1. walk.dram = c /\ DramFirst /\ Cached(c)
    BY <1>1, <1>6 DEF OnElement, OnElementPcs, c, CurrentKey, DramFirst, Positions
  <2>2. /\ NextCached(c) \in Keys \cup {NoKey}
        /\ NextCached(c) # NoKey => c < NextCached(c) /\ Cached(NextCached(c))
        /\ \A j \in Keys : c < j /\ Cached(j) => ~Before(j, NextCached(c))
    BY <1>2, NextCachedIs
  <2>3. walk' = [walk EXCEPT !.pc = "settle", !.dram = NextCached(c)]
    BY <1>6, <2>1 DEF Increment
  <2>4. /\ walk'.pc = "settle" /\ walk'.dram = NextCached(c) /\ walk'.pmem = walk.pmem
        /\ walk'.above = walk.above /\ walk'.below = walk.below /\ walk'.seen = walk.seen /\ WalkType'
    BY <1>1, <2>2, <2>3 DEF WalkType, WalkPcs
  <2>5. NextCached(c) # NoKey => walk.above < NextCached(c)
    BY <1>8, <2>2
  <2>6. Positions'
    BY <1>1, <1>4, <2>2, <2>4, <2>5, CachedFrame DEF Positions, DramEnd, PmemEnd
  <2>7. ASSUME NEW k \in Keys
        PROVE  /\ Before(k, walk.dram) <=> k < c
               /\ k < c \/ k = c => Before(k, NextCached(c)) /\ Before(k, walk.pmem.key)
    <3>1. ~PmemEnd => c < walk.pmem.key /\ walk.pmem.key \in Nat
      BY <1>1, <2>1, PositionsAre DEF DramFirst
    <3>2. PmemEnd => walk.pmem.key = NoKey
      BY DEF PmemEnd, End
    <3>3. k < c \/ k = c => Before(k, NextCached(c))
      BY <1>8, <2>2 DEF Before
    <3>4. k < c \/ k = c => Before(k, walk.pmem.key)
      BY <1>2, <1>3, <3>1, <3>2 DEF Before
    <3> QED
      BY <1>2, <2>1, <3>3, <3>4 DEF Before
  <2>8. Passing'
    <3> SUFFICES ASSUME NEW k \in Keys, walk.above < k
                 PROVE  /\ Cached(k) /\ Before(k, NextCached(c)) => Before(k, walk.pmem.key)
                        /\ ~Cached(k) /\ acked[k] # 0 /\ Before(k, walk.pmem.key) => Before(k, NextCached(c))
      BY <1>4, <2>4, CachedFrame DEF Passing
    <3>1. Cached(k) /\ Before(k, NextCached(c)) => k < c \/ k = c
      BY <1>8, <2>2
    <3>2. ~Cached(k) /\ acked[k] # 0 /\ Before(k, walk.pmem.key) => Before(k, walk.dram)
      BY <1>1 DEF Passing
    <3> QED
      BY <2>7, <3>1, <3>2
  <2>9. ASSUME NEW k \in Keys, walk.above < k, acked[k] # 0 PROVE Covered(k)' <=> Covered(k)
    <3>1. Before(k, NextCached(c)) /\ Before(k, walk.pmem.key) => k < c \/ k = c
      <4>1. CASE Cached(k)
        BY <1>2, <1>3, <2>2, <4>1
      <4>2. CASE ~Cached(k)
        BY <1>1, <2>7, <2>9, <4>2 DEF Passing
      <4> QED
        BY <4>1, <4>2
    <3>2. Covered(k)' <=> Before(k, NextCached(c)) /\ Before(k, walk.pmem.key)
      BY <2>4 DEF Covered, AfterCallback
    <3> QED
      BY <1>5, <2>7, <3>1, <3>2
  <2>10. SeenAll' /\ SeenInOrder'
    BY <1>1, <1>4, <2>4, <2>9, SeenFrame
  <2> QED
    BY <1>4, <2>4, <2>6, <2>8, <2>10 DEF WInv, OnElement, OnElementPcs
<1>7. CASE walk.cur = "pmem"
  <2>1. walk.pmem.key = c /\ PmemFirst /\ ~Cached(c) /\ acked[c] # 0
    BY <1>1, <1>7, UncachedFirst DEF OnElement, OnElementPcs, c, CurrentKey
  <2>2. /\ NextLeaf(c) \in Elements
        /\ NextLeaf(c) # End =>
             /\ NextLeaf(c).key \in Keys /\ c < NextLeaf(c).key
             /\ NextLeaf(c).entry = container[NextLeaf(c).key] /\ NextLeaf(c).entry # 0
        /\ \A j \in Keys : c < j /\ container[j] # 0 => ~Before(j, NextLeaf(c).key)
        /\ NextLeaf(c) = End => NextLeaf(c).key = NoKey
    BY <1>2, <1>3, NextLeafIs DEF End
  <2>3. walk' = [walk EXCEPT !.pc = "settle", !.pmem = NextLeaf(c)]
    BY <1>7, <2>1 DEF Increment
  <2>4. /\ walk'.pc = "settle" /\ walk'.dram = walk.dram /\ walk'.pmem = NextLeaf(c)
        /\ walk'.above = walk.above /\ walk'.below = walk.below /\ walk'.seen = walk.seen /\ WalkType'
    BY <1>1, <2>2, <2>3 DEF WalkType, WalkPcs
  <2>5. Positions'
    <3>1. CASE NextLeaf(c) = End
      BY <1>1, <1>4, <2>4, <3>1, CachedFrame DEF Positions, PmemEnd, DramEnd
    <3>2. CASE NextLeaf(c) # End
      <4>1. walk.above < NextLeaf(c).key
        BY <1>8, <2>2, <3>2
      <4> QED
        BY <1>1, <1>3, <1>4, <2>2, <2>4, <3>2, <4>1, CachedFrame DEF Positions, PmemEnd, DramEnd
    <3> QED
      BY <3>1, <3>2
  <2>6. ASSUME NEW k \in Keys
        PROVE  /\ Before(k, walk.pmem.key) <=> k < c
               /\ k < c \/ k = c => Before(k, NextLeaf(c).key) /\ Before(k, walk.dram)
    <3>1. ~DramEnd => c < walk.dram /\ walk.dram \in Nat
      BY <1>1, <1>2, <2>1, PositionsAre DEF PmemFirst
    <3>2. DramEnd => walk.dram = NoKey
      BY DEF DramEnd
    <3>3. k < c \/ k = c => Before(k, NextLeaf(c).key)
      BY <1>8, <2>2 DEF Before
    <3>4. k < c \/ k = c => Before(k, walk.dram)
      BY <1>2, <1>3, <3>1, <3>2 DEF Before
    <3> QED
      BY <1>2, <2>1, <3>3, <3>4 DEF Before
  <2>7. Passing'
    <3> SUFFICES ASSUME NEW k \in Keys, walk.above < k
                 PROVE  /\ Cached(k) /\ Before(k, walk.dram) => Before(k, NextLeaf(c).key)
                        /\ ~Cached(k) /\ acked[k] # 0 /\ Before(k, NextLeaf(c).key) => Before(k, walk.dram)
      BY <1>4, <2>4, CachedFrame DEF Passing
    <3>1. ~Cached(k) /\ acked[k] # 0 /\ Before(k, NextLeaf(c).key) => k < c \/ k = c
      BY <1>2, <1>3, <2>2
    <3>2. Cached(k) /\ Before(k, walk.dram) => Before(k, walk.pmem.key)
      BY <1>1 DEF Passing
    <3> QED
      BY <2>6, <3>1, <3>2
  <2>8. ASSUME NEW k \in Keys, walk.above < k, acked[k] # 0 PROVE Covered(k)' <=> Covered(k)
    <3>1. Before(k, walk.dram) /\ Before(k, NextLeaf(c).key) => k < c \/ k = c
      <4>1. CASE Cached(k)
        BY <1>1, <2>6, <2>8, <4>1 DEF Passing
      <4>2. CASE ~Cached(k)
        BY <1>2, <1>3, <2>2, <2>8, <4>2
      <4> QED
        BY <4>1, <4>2
    <3>2. Covered(k)' <=> Before(k, walk.dram) /\ Before(k, NextLeaf(c).key)
      BY <2>4 DEF Covered, AfterCallback
    <3> QED
      BY <1>5, <2>6, <3>1, <3>2
  <2>9. SeenAll' /\ SeenInOrder'
    BY <1>1, <1>4, <2>4, <2>8, SeenFrame
  <2> QED
    BY <1>4, <2>4, <2>5, <2>7, <2>9 DEF WInv, OnElement, OnElementPcs
<1> QED
  BY <1>1, <1>6, <1>7 DEF WalkType

LEMMA NoWalkFits ==
  NoWalk \in [pc : WalkPcs, dram : Keys \cup {NoKey}, pmem : Elements, cur : {"dram", "pmem"},
              above : Nat, below : Nat, ptr : AnyPointer, size : Nat, seen : Seq(Reports)]
<1>1. Null \in AnyPointer /\ <<>> \in Seq(Reports)
  BY DEF Null, AnyPointer
<1> QED
  BY <1>1 DEF NoWalk, WalkPcs, Elements

\* No query, no claim.
LEMMA IdleInv == ASSUME walk' = NoWalk PROVE WInv'
<1>1. walk'.pc = "idle"
  BY DEF NoWalk
<1> QED
  BY <1>1, NoWalkFits DEF WInv, WalkType

\* The first elements of the cache and the tree above a bound.
LEMMA QueryInv == ASSUME RoomForAll, KInv, WInv, Query PROVE WInv'
<1>1. PICK above \in Keys \cup {0}, below \in Keys \cup {Cardinality(Keys) + 1} : WalkCall(above, below)
  BY DEF Query
<1>2. above \in Nat /\ below \in Nat
  BY OrderAssumption, FS_CardinalityType DEF RoomForAll
<1>3. /\ appPc = "idle" /\ walk.pc = "idle" /\ UNCHANGED vars
      /\ walk' = [NoWalk EXCEPT !.pc = "settle", !.above = above, !.below = below,
                                !.dram = NextCached(above), !.pmem = NextLeaf(above)]
  BY <1>1 DEF WalkCall, Walking
<1>4. container \in [Keys -> Nat] /\ \A k \in Keys : k \in Nat /\ (~Cached(k) => container[k] = acked[k])
  <2>1. container \in [Keys -> 0 .. Len(log)] /\ 0 .. Len(log) \subseteq Nat
    BY DEF KInv, IInv, TypeOK, TypeMemory
  <2> QED
    BY <1>3, <2>1, KeyIs
<1>5. /\ NextCached(above) \in Keys \cup {NoKey}
      /\ NextCached(above) # NoKey => above < NextCached(above) /\ Cached(NextCached(above))
      /\ \A j \in Keys : above < j /\ Cached(j) => ~Before(j, NextCached(above))
  BY <1>2, NextCachedIs
<1>6. /\ NextLeaf(above) \in Elements
      /\ NextLeaf(above) # End =>
           /\ NextLeaf(above).key \in Keys /\ above < NextLeaf(above).key
           /\ NextLeaf(above).entry = container[NextLeaf(above).key] /\ NextLeaf(above).entry # 0
      /\ \A j \in Keys : above < j /\ container[j] # 0 => ~Before(j, NextLeaf(above).key)
  BY <1>2, <1>4, NextLeafIs
<1>7. /\ walk'.pc = "settle" /\ walk'.dram = NextCached(above) /\ walk'.pmem = NextLeaf(above)
      /\ walk'.above = above /\ walk'.below = below /\ walk'.seen = <<>> /\ WalkType'
  <2> HIDE DEF NoWalk
  <2>1. NoWalk.seen = <<>>
    BY DEF NoWalk
  <2> QED
    BY <1>2, <1>3, <1>5, <1>6, <2>1, NoWalkFits DEF WalkType, WalkPcs
<1>8. acked' = acked /\ slotKey' = slotKey /\ appPc' = "idle"
  BY <1>3 DEF vars, cacheVars, appVars
<1>9. Positions'
  BY <1>4, <1>5, <1>6, <1>7, <1>8, CachedFrame DEF Positions, DramEnd, PmemEnd
<1>10. ASSUME NEW k \in Keys, above < k
       PROVE  /\ Cached(k) => ~Before(k, NextCached(above))
              /\ ~Cached(k) /\ acked[k] # 0 => ~Before(k, NextLeaf(above).key)
  BY <1>4, <1>5, <1>6, <1>10
<1>11. Passing'
  BY <1>7, <1>8, <1>10, CachedFrame DEF Passing
<1>12. SeenAll' /\ SeenInOrder'
  <2>1. ASSUME NEW k \in Keys, above < k, acked[k] # 0 PROVE ~Covered(k)'
    BY <1>7, <1>10, <2>1 DEF Covered, AfterCallback
  <2>2. Past' = {}
    BY <1>7, <1>8, <2>1 DEF Past
  <2>3. Len(walk'.seen) = 0
    BY <1>7
  <2> QED
    BY <1>7, <2>2, <2>3, FS_EmptySet DEF SeenAll, SeenInOrder
<1> QED
  BY <1>7, <1>8, <1>9, <1>11, <1>12 DEF WInv, OnElement, OnElementPcs

\* The background thread changes neither which keys are cached nor what was acknowledged.
LEMMA BgStepInv == ASSUME WInv, BgStep, UNCHANGED walk PROVE WInv'
<1>1. acked' = acked /\ slotKey' = slotKey /\ appPc' = appPc
  BY DEF BgStep, BgTop, BgTake, BgApply, BgSwap, BgCommit, BgOom, BgReport, BgLock, BgCheck, BgWait, appVars, cacheVars
<1>2. \A k : Cached(k)' <=> Cached(k)
  BY <1>1, CachedFrame
<1>3. Wanted' = Wanted /\ Past' = Past /\ CurrentKey' = CurrentKey
  BY <1>1 DEF Wanted, Past, Covered, CurrentKey
<1>4. Positions' = Positions /\ Passing' = Passing /\ SeenAll' = SeenAll /\ SeenInOrder' = SeenInOrder
  BY <1>1, <1>2, <1>3 DEF Positions, Passing, SeenAll, SeenInOrder, RankIn, DramEnd, PmemEnd
<1>5. OnElement' = OnElement
  BY <1>1, <1>3 DEF OnElement, DramFirst, PmemFirst, DramEnd, PmemEnd, ValueAt
<1> QED
  BY <1>1, <1>4, <1>5 DEF WInv, WalkType

LEMMA WInvStep == ASSUME RoomForAll, KInv, WInv, [WalkNext]_<<vars, walk>> PROVE WInv'
<1>1. CASE Around
  <2>1. CASE walk.pc = "idle" /\ UNCHANGED walk
    BY <2>1, IdleInv DEF WInv
  <2>2. CASE BgStep /\ UNCHANGED walk
    BY <2>2, BgStepInv
  <2>3. CASE walk' = NoWalk
    BY <2>3, IdleInv
  <2> QED
    BY <1>1, <2>1, <2>2, <2>3 DEF Around
<1>2. CASE WalkStep
  <2>1. CASE WalkReturn
    BY <2>1, IdleInv DEF WalkReturn
  <2> QED
    BY <1>2, <2>1, SkipPmemInv, TakePmemInv, TakeDramInv, AtEndInv, TestInv, ValueOfLeafInv, LoadPointerInv,
       ReadLeafInv, CopyFromLogInv, IncrementInv DEF WalkStep
<1>3. CASE Query
  BY <1>3, QueryInv
<1>4. CASE UNCHANGED <<vars, walk>>
  <2>1. walk' = walk /\ acked' = acked /\ slotKey' = slotKey /\ appPc' = appPc
    BY <1>4 DEF vars, cacheVars, appVars
  <2>2. \A k : Cached(k)' <=> Cached(k)
    BY <2>1, CachedFrame
  <2> QED
    BY <2>1, <2>2 DEF WInv, WalkType, Positions, Passing, OnElement, SeenAll, SeenInOrder, RankIn, Wanted, Past, Covered,
                      CurrentKey, DramFirst, PmemFirst, DramEnd, PmemEnd, ValueAt
<1> QED
  BY <1>1, <1>2, <1>3, <1>4 DEF WalkNext

\* What goes on around a query is what goes on without one.
LEMMA StepAround == [WalkNext]_<<vars, walk>> => [Next]_vars
<1>1. Around => Next
  BY DEF Around, Next
<1>2. WalkStep \/ Query => UNCHANGED vars
  BY DEF WalkStep, SkipPmem, TakePmem, TakeDram, AtEnd, Test, ValueOfLeaf, LoadPointer, ReadLeaf, CopyFromLog, Increment,
         WalkReturn, Query, WalkCall, Walking
<1> QED
  BY <1>1, <1>2 DEF WalkNext

\* The engine with queries is the engine: they write nothing, so whatever holds of HeteroRadix
\* holds while a query runs.
THEOREM QueriesOnlyRead == WalkSpec => Spec
<1>1. WalkInit => Init
  BY DEF WalkInit
<1> QED
  BY <1>1, StepAround, PTL DEF WalkSpec, Spec

LEMMA WInvHolds == ASSUME RoomForAll PROVE WalkSpec => [](KInv /\ WInv)
<1>1. WalkInit => WInv
  BY NoWalkFits DEF WalkInit, WInv, WalkType, NoWalk
<1>2. KInv /\ WInv /\ [WalkNext]_<<vars, walk>> => WInv'
  BY WInvStep
<1>3. Spec => []KInv
  BY KInvHolds
<1> QED
  BY <1>1, <1>2, <1>3, QueriesOnlyRead, PTL DEF WalkSpec

-----------------------------------------------------------------------------
(* What was reported is the beginning of the answer.                       *)

\* Keys of a set have different ranks in it.
LEMMA RanksDiffer ==
  ASSUME NEW ks \in SUBSET Nat, IsFiniteSet(ks), NEW j \in ks, NEW k \in ks, RankIn(j, ks) = RankIn(k, ks)
  PROVE  j = k
<1>1. ASSUME NEW a \in ks, NEW b \in ks, a < b PROVE RankIn(a, ks) # RankIn(b, ks)
  <2> DEFINE A == {i \in ks : i < a}
             B == {i \in ks : i < b}
  <2>1. A \in SUBSET B /\ a \in B /\ a \notin A /\ B \in SUBSET ks
    <3>1. a \in Nat /\ b \in Nat /\ \A i \in ks : i \in Nat
      OBVIOUS
    <3>2. \A i \in ks : i < a => i < b
      BY <1>1, <3>1
    <3>3. A \in SUBSET B /\ B \in SUBSET ks
      BY <3>2
    <3>4. a \in B /\ a \notin A
      BY <1>1, <3>1
    <3> QED
      BY <3>3, <3>4
  <2>2. IsFiniteSet(B) /\ (Cardinality(B) = Cardinality(A) => B = A)
    <3> HIDE DEF A, B
    <3> QED
      BY <2>1, FS_Subset
  <2>3. Cardinality(A) # Cardinality(B)
    <3> HIDE DEF A, B
    <3> QED
      BY <2>1, <2>2
  <2> QED
    BY <2>3 DEF RankIn
<1>2. j \in Nat /\ k \in Nat
  OBVIOUS
<1> QED
  BY <1>1, <1>2

LEMMA SeenIsAnswer == ASSUME RoomForAll, WInv PROVE WalkIsExact
<1> SUFFICES ASSUME walk.pc # "idle"
             PROVE  /\ Len(walk.seen) <= Len(Answer)
                    /\ walk.seen = SubSeq(Answer, 1, Len(walk.seen))
                    /\ walk.pc = "return" => Len(walk.seen) = Len(Answer)
  BY DEF WalkIsExact
<1> DEFINE Nth(n) == CHOOSE k \in Wanted : RankIn(k, Wanted) = n - 1
           c == Cardinality(Wanted)
           Row(n) == [key |-> Nth(n), size |-> acked[Nth(n)], entry |-> acked[Nth(n)]]
<1>1. Answer = [n \in 1 .. c |-> Row(n)]
  BY DEF Answer, Wanted, RankIn
<1>2. Wanted \in SUBSET Keys /\ Wanted \in SUBSET Nat /\ IsFiniteSet(Wanted) /\ c \in Nat
  <2>1. Wanted \in SUBSET Keys
    BY DEF Wanted
  <2> QED
    BY <2>1, OrderAssumption, FS_Subset, FS_CardinalityType DEF RoomForAll
<1>3. walk.seen \in Seq(Reports) /\ Len(walk.seen) \in Nat /\ SeenAll /\ SeenInOrder
  BY DEF WInv, WalkType
<1>4. Len(walk.seen) <= c /\ (walk.pc = "return" => Len(walk.seen) = c)
  <2>1. CASE walk.pc = "return"
    BY <1>2, <1>3, <2>1 DEF SeenAll
  <2>2. CASE walk.pc # "return"
    <3>1. Past \in SUBSET Wanted /\ Len(walk.seen) = Cardinality(Past)
      BY <1>3, <2>2 DEF SeenAll
    <3>2. Cardinality(Past) <= Cardinality(Wanted)
      BY <1>2, <3>1, FS_Subset
    <3> QED
      BY <2>2, <3>1, <3>2
  <2> QED
    BY <2>1, <2>2
<1>5. ASSUME NEW n \in 1 .. Len(walk.seen) PROVE walk.seen[n] = Row(n)
  <2> DEFINE k == walk.seen[n].key
  <2>1. /\ k \in Wanted /\ RankIn(k, Wanted) = n - 1
        /\ walk.seen[n] = [key |-> k, size |-> acked[k], entry |-> acked[k]]
    BY <1>3 DEF SeenInOrder
  <2>2. Nth(n) \in Wanted /\ RankIn(Nth(n), Wanted) = n - 1
    BY <2>1
  <2>3. Nth(n) = k
    <3> HIDE DEF Nth, k
    <3> QED
      BY <1>2, <2>1, <2>2, RanksDiffer
  <2> QED
    BY <2>1, <2>3
<1> HIDE DEF Row, c
<1>6. Answer \in Seq({Row(n) : n \in 1 .. c}) /\ Len(Answer) = c
  <2> DEFINE R == {Row(n) : n \in 1 .. c}
  <2>1. Answer \in [1 .. c -> R]
    BY <1>1
  <2> HIDE DEF R
  <2>2. Answer \in Seq(R)
    BY <1>2, <2>1, SeqDef
  <2>3. DOMAIN Answer = 1 .. c /\ DOMAIN Answer = 1 .. Len(Answer) /\ Len(Answer) \in Nat
    BY <2>1, <2>2, LenProperties
  <2> QED
    BY <1>2, <2>2, <2>3 DEF R
<1>7. walk.seen = SubSeq(Answer, 1, Len(walk.seen))
  <2>1. SubSeq(Answer, 1, Len(walk.seen)) = [i \in 1 .. Len(walk.seen) |-> Answer[i]]
    BY <1>2, <1>3, <1>4, <1>6
  <2>2. walk.seen = [i \in 1 .. Len(walk.seen) |-> walk.seen[i]]
    BY <1>3
  <2>3. \A i \in 1 .. Len(walk.seen) : Answer[i] = walk.seen[i]
    BY <1>1, <1>2, <1>3, <1>4, <1>5
  <2> QED
    BY <2>1, <2>2, <2>3
<1> QED
  BY <1>4, <1>6, <1>7

\* A range query of the caching engine hands out exactly the acknowledged contents of its range,
\* in order, however the background thread moves the entries meanwhile
\* (merged_iterator::set_current_it, value and operator++).
THEOREM RangeQueriesAreExact == ASSUME RoomForAll PROVE WalkSpec => []WalkIsExact
<1>1. KInv /\ WInv => WalkIsExact
  BY SeenIsAnswer
<1> QED
  BY <1>1, WInvHolds, PTL
=============================================================================
