--------------------------- MODULE HashMapsProofs ---------------------------
(***************************************************************************)
(* Theorems about HashMaps, for any number of threads, keys and elements:  *)
(* what the locks protect, that nobody waits in a circle, and that the     *)
(* maps implement ConcurrentHashMap.                                       *)
(***************************************************************************)
EXTENDS HashMaps, TLAPS

KeyedCalls == [op : {"get", "exists", "remove"}, key : Keys, value : {NoValue}] \cup [op : {"put"}, key : Keys, value : Values]
Cursors == [op : {"iterator"}, key : Keys \cup {NoKey}, value : {NoValue}]
Known == Values \cup {Empty}

TypeInv ==
  /\ engine \in {"cmap", "vcmap"}
  /\ bucket \in [Keys -> Elements \cup {NoElement}] /\ live \subseteq Elements
  /\ value \in [Elements -> Values \cup {NoValue, Empty, Torn}]
  /\ undo \in [Elements -> Values \cup {NoValue, Empty}]
  /\ readers \in [Elements -> SUBSET Threads] /\ writer \in [Elements -> Threads \cup {NoThread}]
  /\ pc \in [Threads -> {"idle", "start", "callback", "fill", "assign", "delete", "return", "iter", "seek", "commit"}]
  /\ call \in [Threads -> KeyedCalls \cup Cursors \cup {Idle}]
  /\ held \in [Threads -> Elements \cup {NoElement}]
  /\ seen \in [Threads -> Values \cup {NoValue, Empty}] /\ log \in [Threads -> Values \cup {NoValue}]

\* The call of a thread is one that its position belongs to.
CallsFit ==
  \A t \in Threads :
    /\ pc[t] \in {"start", "fill", "assign"} => call[t] \in KeyedCalls
    /\ pc[t] \in {"fill", "assign"} => call[t].op = "put"
    /\ pc[t] \in {"iter", "seek", "commit"} => call[t] \in Cursors
    /\ pc[t] = "seek" => call[t].key \in Keys
    /\ pc[t] = "idle" => call[t] = Idle

\* At its position a thread has the lock of the element it stands on.
HoldersLock ==
  \A t \in Threads :
    /\ pc[t] = "callback" => held[t] # NoElement /\ t \in readers[held[t]]
    /\ pc[t] \in {"fill", "assign", "commit"} => held[t] # NoElement /\ writer[held[t]] = t
    /\ pc[t] = "iter" /\ held[t] # NoElement => writer[held[t]] = t
    /\ pc[t] = "delete" => held[t] # NoElement
    /\ pc[t] \in {"idle", "start", "return", "seek"} => held[t] = NoElement
    /\ log[t] # NoValue => pc[t] \in {"iter", "commit"} /\ held[t] # NoElement
    /\ pc[t] = "commit" => log[t] # NoValue

\* Nobody else has a lock, and nobody has one of an element another is alone with.
LocksHeld ==
  \A e \in Elements, t \in Threads :
    /\ writer[e] = t => held[t] = e /\ pc[t] \in {"fill", "assign", "iter", "commit"}
    /\ t \in readers[e] => held[t] = e /\ pc[t] = "callback" /\ writer[e] = NoThread

\* What is linked or held is allocated; an element is under one key, and
\* under none once a remove has taken it.
Allocated ==
  /\ \A k \in Keys : bucket[k] # NoElement => bucket[k] \in live
  /\ \A t \in Threads : held[t] # NoElement => held[t] \in live
  /\ \A j, k \in Keys : bucket[j] = bucket[k] /\ bucket[j] # NoElement => j = k
  /\ \A t \in Threads, k \in Keys : pc[t] = "delete" => bucket[k] # held[t]
  /\ \A t, u \in Threads : pc[t] = "delete" /\ pc[u] = "delete" /\ held[t] = held[u] => t = u

\* An element has a value, or somebody commits to it and a rollback has one.
ValuesGood ==
  \A e \in live :
    \/ value[e] \in Known
    \/ value[e] = Torn /\ undo[e] \in Known /\ writer[e] \in Threads /\ pc[writer[e]] = "commit"

Stable ==
  \A t \in Threads :
    pc[t] \in {"callback", "iter"} /\ held[t] # NoElement => value[held[t]] = seen[t] /\ seen[t] \in Known

IInv == TypeInv /\ CallsFit /\ HoldersLock /\ LocksHeld /\ Allocated /\ ValuesGood /\ Stable

LEMMA BeginKeeps ==
  ASSUME IInv, NEW t \in Threads, NEW c \in Calls, Begin(t, c)
  PROVE  IInv'
<1> USE NamesAssumption DEF IInv, Begin, Goto, Calls, content, locks
<1>1. TypeInv'
    BY DEF TypeInv, KeyedCalls, Cursors, Known, CallsFit, HoldersLock
<1>2. CallsFit'
    BY DEF TypeInv, CallsFit, KeyedCalls, Cursors, Idle
<1>3. HoldersLock'
    BY DEF TypeInv, HoldersLock, LocksHeld, Allocated
<1>4. LocksHeld'
    BY DEF TypeInv, HoldersLock, LocksHeld, Allocated
<1>5. Allocated'
    BY DEF TypeInv, HoldersLock, LocksHeld, Allocated, CallsFit, KeyedCalls
<1>6. ValuesGood'
    BY DEF TypeInv, CallsFit, KeyedCalls, HoldersLock, LocksHeld, Allocated, ValuesGood, Stable, Known
<1>7. Stable'
    BY DEF TypeInv, CallsFit, KeyedCalls, HoldersLock, LocksHeld, Allocated, ValuesGood, Stable, Known
<1> QED
    BY <1>1, <1>2, <1>3, <1>4, <1>5, <1>6, <1>7

LEMMA GetKeeps ==
  ASSUME IInv, NEW t \in Threads, Get(t)
  PROVE  IInv'
<1> USE NamesAssumption DEF IInv, Get, Starts, Target, ShareFound, Share, Goto, content, locks
<1>1. TypeInv'
  <2>1. ASSUME Target(t) # NoElement PROVE value[Target(t)] \in Known
      BY <2>1 DEF TypeInv, CallsFit, KeyedCalls, Allocated, ValuesGood
  <2>2. seen' \in [Threads -> Values \cup {NoValue, Empty}]
      BY <2>1 DEF TypeInv, Known
  <2>3. readers' \in [Elements -> SUBSET Threads] /\ writer' \in [Elements -> Threads \cup {NoThread}]
      BY DEF TypeInv
  <2>4. held' \in [Threads -> Elements \cup {NoElement}]
      BY DEF TypeInv, CallsFit, KeyedCalls
  <2>5. pc' \in [Threads -> {"idle", "start", "callback", "fill", "assign", "delete", "return", "iter", "seek", "commit"}]
      BY DEF TypeInv
  <2> QED
      BY <2>2, <2>3, <2>4, <2>5 DEF TypeInv
<1>2. CallsFit'
    BY DEF TypeInv, CallsFit, KeyedCalls, Cursors, Idle
<1>3. HoldersLock'
  <2>1. CASE Target(t) = NoElement
      BY <2>1 DEF TypeInv, HoldersLock, LocksHeld
  <2>2. CASE Target(t) # NoElement
    <3>1. Target(t) \in Elements
        BY <2>2 DEF TypeInv, CallsFit, KeyedCalls
    <3>2. /\ readers' = [readers EXCEPT ![Target(t)] = @ \cup {t}] /\ writer' = writer /\ log' = log
          /\ held' = [held EXCEPT ![t] = Target(t)] /\ pc' = [pc EXCEPT ![t] = "callback"]
        BY <2>2
    <3> QED
        BY <2>2, <3>1, <3>2 DEF TypeInv, HoldersLock
  <2> QED
      BY <2>1, <2>2
<1>4. LocksHeld'
    BY DEF TypeInv, HoldersLock, LocksHeld, Allocated
<1>5. Allocated'
    BY SMTT(30) DEF TypeInv, HoldersLock, LocksHeld, Allocated, CallsFit, KeyedCalls
<1>6. ValuesGood'
    BY DEF TypeInv, CallsFit, KeyedCalls, HoldersLock, LocksHeld, Allocated, ValuesGood, Stable, Known
<1>7. Stable'
    BY DEF TypeInv, CallsFit, KeyedCalls, HoldersLock, LocksHeld, Allocated, ValuesGood, Stable, Known
<1> QED
    BY <1>1, <1>2, <1>3, <1>4, <1>5, <1>6, <1>7

LEMMA GetReturnKeeps ==
  ASSUME IInv, NEW t \in Threads, GetReturn(t)
  PROVE  IInv'
<1> USE NamesAssumption DEF IInv, GetReturn, Release, Goto, content, locks
<1>1. TypeInv'
    BY DEF TypeInv, KeyedCalls, Cursors, Known, CallsFit, HoldersLock
<1>2. CallsFit'
    BY DEF TypeInv, CallsFit, KeyedCalls, Cursors, Idle
<1>3. HoldersLock'
    BY DEF TypeInv, HoldersLock, LocksHeld, Allocated
<1>4. LocksHeld'
    BY DEF TypeInv, HoldersLock, LocksHeld, Allocated
<1>5. Allocated'
    BY DEF TypeInv, HoldersLock, LocksHeld, Allocated, CallsFit, KeyedCalls
<1>6. ValuesGood'
    BY DEF TypeInv, CallsFit, KeyedCalls, HoldersLock, LocksHeld, Allocated, ValuesGood, Stable, Known
<1>7. Stable'
    BY DEF TypeInv, CallsFit, KeyedCalls, HoldersLock, LocksHeld, Allocated, ValuesGood, Stable, Known
<1> QED
    BY <1>1, <1>2, <1>3, <1>4, <1>5, <1>6, <1>7

LEMMA ExistsKeeps ==
  ASSUME IInv, NEW t \in Threads, Exists(t)
  PROVE  IInv'
<1> USE NamesAssumption DEF IInv, Exists, Starts, Target, Durable, Goto, content, locks
<1>1. TypeInv'
    BY DEF TypeInv, KeyedCalls, Cursors, Known, CallsFit, HoldersLock
<1>2. CallsFit'
    BY DEF TypeInv, CallsFit, KeyedCalls, Cursors, Idle
<1>3. HoldersLock'
    BY DEF TypeInv, HoldersLock, LocksHeld, Allocated
<1>4. LocksHeld'
    BY DEF TypeInv, HoldersLock, LocksHeld, Allocated
<1>5. Allocated'
    BY DEF TypeInv, HoldersLock, LocksHeld, Allocated, CallsFit, KeyedCalls
<1>6. ValuesGood'
    BY DEF TypeInv, CallsFit, KeyedCalls, HoldersLock, LocksHeld, Allocated, ValuesGood, Stable, Known
<1>7. Stable'
    BY DEF TypeInv, CallsFit, KeyedCalls, HoldersLock, LocksHeld, Allocated, ValuesGood, Stable, Known
<1> QED
    BY <1>1, <1>2, <1>3, <1>4, <1>5, <1>6, <1>7

LEMMA PutNewKeeps ==
  ASSUME IInv, NEW t \in Threads, PutNew(t)
  PROVE  IInv'
<1> USE NamesAssumption DEF IInv, PutNew, Starts, Target, NextFree, Own, Goto, content, locks
<1>1. TypeInv'
  <2>1. PICK e \in Elements \ live :
          /\ live' = live \cup {e}
          /\ bucket' = [bucket EXCEPT ![call[t].key] = e]
          /\ IF engine = "cmap"
             THEN /\ value' = [value EXCEPT ![e] = call[t].value]
                  /\ pc' = [pc EXCEPT ![t] = "return"]
                  /\ UNCHANGED <<readers, writer, held>>
             ELSE /\ value' = [value EXCEPT ![e] = Empty]
                  /\ Own(t, e)
                  /\ held' = [held EXCEPT ![t] = e]
                  /\ pc' = [pc EXCEPT ![t] = "fill"]
      OBVIOUS
  <2>2. call[t].value \in Values
      BY DEF CallsFit, KeyedCalls
  <2>3. CASE engine = "cmap"
      BY <2>1, <2>2, <2>3, ZenonT(30) DEF TypeInv
  <2>4. CASE engine # "cmap"
    <3>1. writer' \in [Elements -> Threads \cup {NoThread}] /\ readers' = readers
      <4>1. writer' = [x \in Elements |-> IF x = e THEN t ELSE IF writer[x] = t THEN NoThread ELSE writer[x]] /\ readers' = readers
          BY <2>1, <2>4
      <4> QED
          BY <4>1 DEF TypeInv
    <3>2. /\ value' \in [Elements -> Values \cup {NoValue, Empty, Torn}]
          /\ held' \in [Threads -> Elements \cup {NoElement}]
          /\ live' \subseteq Elements
          /\ bucket' \in [Keys -> Elements \cup {NoElement}]
      <4>1. /\ value' = [value EXCEPT ![e] = Empty] /\ held' = [held EXCEPT ![t] = e] /\ live' = live \cup {e}
            /\ bucket' = [bucket EXCEPT ![call[t].key] = e] /\ e \in Elements
          BY <2>1, <2>4
      <4> QED
          BY <4>1 DEF TypeInv
    <3>3. pc' \in [Threads -> {"idle", "start", "callback", "fill", "assign", "delete", "return", "iter", "seek", "commit"}]
        BY <2>1, <2>4 DEF TypeInv
    <3> QED
        BY <3>1, <3>2, <3>3 DEF TypeInv
  <2> QED
      BY <2>3, <2>4
<1>2. CallsFit'
    BY DEF TypeInv, CallsFit, KeyedCalls, Cursors, Idle
<1>3. HoldersLock'
    BY DEF TypeInv, HoldersLock, LocksHeld, Allocated
<1>4. LocksHeld'
    BY DEF TypeInv, HoldersLock, LocksHeld, Allocated
<1>5. Allocated'
    BY SMTT(30) DEF TypeInv, HoldersLock, LocksHeld, Allocated, CallsFit, KeyedCalls
<1>6. ValuesGood'
    BY DEF TypeInv, CallsFit, KeyedCalls, HoldersLock, LocksHeld, Allocated, ValuesGood, Stable, Known
<1>7. Stable'
    BY DEF TypeInv, CallsFit, KeyedCalls, HoldersLock, LocksHeld, Allocated, ValuesGood, Stable, Known
<1> QED
    BY <1>1, <1>2, <1>3, <1>4, <1>5, <1>6, <1>7

LEMMA PutOldKeeps ==
  ASSUME IInv, NEW t \in Threads, PutOld(t)
  PROVE  IInv'
<1> USE NamesAssumption DEF IInv, PutOld, Starts, Target, Own, Goto, content, locks
<1>1. TypeInv'
    BY DEF TypeInv, KeyedCalls, Cursors, Known, CallsFit, HoldersLock
<1>2. CallsFit'
    BY DEF TypeInv, CallsFit, KeyedCalls, Cursors, Idle
<1>3. HoldersLock'
  <2>1. Target(t) \in Elements /\ Target(t) # NoElement
      BY DEF TypeInv, CallsFit, KeyedCalls
  <2>2. /\ readers' = readers /\ writer' = [writer EXCEPT ![Target(t)] = t] /\ log' = log
        /\ held' = [held EXCEPT ![t] = Target(t)] /\ pc' = [pc EXCEPT ![t] = "assign"]
    <3>1. \A x \in Elements : writer[x] # t
        BY DEF TypeInv, HoldersLock, LocksHeld
    <3>2. writer' = [x \in Elements |-> IF x = Target(t) THEN t ELSE IF writer[x] = t THEN NoThread ELSE writer[x]]
        OBVIOUS
    <3>3. writer' = [writer EXCEPT ![Target(t)] = t]
      <4> HIDE DEF Target
      <4> QED
          BY <2>1, <3>1, <3>2 DEF TypeInv
    <3> QED
        BY <3>3
  <2>3. \A u \in Threads : writer[Target(t)] # u
      BY <2>1
  <2> HIDE DEF Target
  <2> QED
      BY <2>1, <2>2, <2>3 DEF TypeInv, HoldersLock
<1>4. LocksHeld'
    BY DEF TypeInv, HoldersLock, LocksHeld, Allocated
<1>5. Allocated'
    BY DEF TypeInv, HoldersLock, LocksHeld, Allocated, CallsFit, KeyedCalls
<1>6. ValuesGood'
    BY DEF TypeInv, CallsFit, KeyedCalls, HoldersLock, LocksHeld, Allocated, ValuesGood, Stable, Known
<1>7. Stable'
    BY DEF TypeInv, CallsFit, KeyedCalls, HoldersLock, LocksHeld, Allocated, ValuesGood, Stable, Known
<1> QED
    BY <1>1, <1>2, <1>3, <1>4, <1>5, <1>6, <1>7

LEMMA PutRefusedKeeps ==
  ASSUME IInv, NEW t \in Threads, PutRefused(t)
  PROVE  IInv'
<1> USE NamesAssumption DEF IInv, PutRefused, Starts, Goto, content, locks
<1>1. TypeInv'
    BY DEF TypeInv, KeyedCalls, Cursors, Known, CallsFit, HoldersLock
<1>2. CallsFit'
    BY DEF TypeInv, CallsFit, KeyedCalls, Cursors, Idle
<1>3. HoldersLock'
    BY DEF TypeInv, HoldersLock, LocksHeld, Allocated
<1>4. LocksHeld'
    BY DEF TypeInv, HoldersLock, LocksHeld, Allocated
<1>5. Allocated'
    BY DEF TypeInv, HoldersLock, LocksHeld, Allocated, CallsFit, KeyedCalls
<1>6. ValuesGood'
    BY DEF TypeInv, CallsFit, KeyedCalls, HoldersLock, LocksHeld, Allocated, ValuesGood, Stable, Known
<1>7. Stable'
    BY DEF TypeInv, CallsFit, KeyedCalls, HoldersLock, LocksHeld, Allocated, ValuesGood, Stable, Known
<1> QED
    BY <1>1, <1>2, <1>3, <1>4, <1>5, <1>6, <1>7

LEMMA PutAssignKeeps ==
  ASSUME IInv, NEW t \in Threads, PutAssign(t)
  PROVE  IInv'
<1> USE NamesAssumption DEF IInv, PutAssign, Release, Goto, content, locks
<1>1. TypeInv'
    BY DEF TypeInv, KeyedCalls, Cursors, Known, CallsFit, HoldersLock
<1>2. CallsFit'
    BY DEF TypeInv, CallsFit, KeyedCalls, Cursors, Idle
<1>3. HoldersLock'
    BY DEF TypeInv, HoldersLock, LocksHeld, Allocated
<1>4. LocksHeld'
    BY DEF TypeInv, HoldersLock, LocksHeld, Allocated
<1>5. Allocated'
    BY DEF TypeInv, HoldersLock, LocksHeld, Allocated, CallsFit, KeyedCalls
<1>6. ValuesGood'
    BY SMTT(30) DEF TypeInv, CallsFit, KeyedCalls, HoldersLock, LocksHeld, Allocated, ValuesGood, Stable, Known
<1>7. Stable'
    BY DEF TypeInv, CallsFit, KeyedCalls, HoldersLock, LocksHeld, Allocated, ValuesGood, Stable, Known
<1> QED
    BY <1>1, <1>2, <1>3, <1>4, <1>5, <1>6, <1>7

LEMMA RemoveUnlinkKeeps ==
  ASSUME IInv, NEW t \in Threads, RemoveUnlink(t)
  PROVE  IInv'
<1> USE NamesAssumption DEF IInv, RemoveUnlink, Starts, Target, Erasable, Goto, content, locks
<1>1. TypeInv'
    BY SMTT(30) DEF TypeInv, KeyedCalls, Cursors, Known, CallsFit, HoldersLock
<1>2. CallsFit'
    BY DEF TypeInv, CallsFit, KeyedCalls, Cursors, Idle
<1>3. HoldersLock'
    BY DEF TypeInv, HoldersLock, LocksHeld, Allocated
<1>4. LocksHeld'
    BY DEF TypeInv, HoldersLock, LocksHeld, Allocated
<1>5. Allocated'
  <2>1. CASE Target(t) = NoElement
      BY <2>1 DEF TypeInv, Allocated
  <2>2. CASE Target(t) # NoElement
    <3> DEFINE k == call[t].key
    <3>1. k \in Keys
        BY DEF CallsFit, KeyedCalls
    <3>2. /\ bucket' = [bucket EXCEPT ![k] = NoElement] /\ held' = [held EXCEPT ![t] = bucket[k]] /\ live' = live
          /\ pc' = [pc EXCEPT ![t] = "delete"] /\ bucket[k] # NoElement
        BY <2>2
    <3>3. \A j \in Keys \ {k} : bucket'[j] = bucket[j] /\ bucket[j] # bucket[k]
        BY <3>1, <3>2 DEF TypeInv, Allocated
    <3>4. bucket'[k] = NoElement /\ held'[t] = bucket[k] /\ pc'[t] = "delete"
        BY <3>1, <3>2 DEF TypeInv
    <3>5. \A u \in Threads \ {t} : held'[u] = held[u] /\ pc'[u] = pc[u] /\ (pc[u] = "delete" => held[u] # bucket[k])
        BY <3>1, <3>2 DEF TypeInv, Allocated
    <3>6. bucket[k] \in live /\ NoElement \notin Elements /\ live \subseteq Elements
        BY <3>1, <3>2 DEF TypeInv, Allocated
    <3> HIDE DEF k
    <3>7. \A j \in Keys : bucket'[j] # NoElement => j # k /\ bucket'[j] = bucket[j]
        BY <3>3, <3>4
    <3>8. /\ \A j \in Keys : bucket'[j] # NoElement => bucket'[j] \in live'
          /\ \A i, j \in Keys : bucket'[i] = bucket'[j] /\ bucket'[i] # NoElement => i = j
        BY <3>2, <3>7 DEF Allocated
    <3>9. \A u \in Threads : held'[u] # NoElement => held'[u] \in live'
        BY <3>2, <3>4, <3>5, <3>6 DEF Allocated
    <3>10. \A u \in Threads, j \in Keys : pc'[u] = "delete" => bucket'[j] # held'[u]
      <4> SUFFICES ASSUME NEW u \in Threads, NEW j \in Keys, pc'[u] = "delete", bucket'[j] = held'[u] PROVE FALSE
          OBVIOUS
      <4>1. held'[u] # NoElement
          BY <3>4, <3>5, <3>6 DEF HoldersLock
      <4>2. j # k /\ bucket'[j] = bucket[j]
          BY <3>7, <4>1
      <4>3. CASE u = t
          BY <3>3, <3>4, <4>2, <4>3
      <4>4. CASE u # t
        <5>1. pc[u] = "delete" /\ held'[u] = held[u]
            BY <3>5, <4>4
        <5>2. bucket[j] # held[u]
            BY <5>1 DEF Allocated
        <5> QED
            BY <4>2, <5>1, <5>2
      <4> QED
          BY <4>3, <4>4
    <3>11. \A u, w \in Threads : pc'[u] = "delete" /\ pc'[w] = "delete" /\ held'[u] = held'[w] => u = w
        BY <3>4, <3>5 DEF Allocated
    <3> QED
        BY <3>8, <3>9, <3>10, <3>11 DEF Allocated
  <2> QED
      BY <2>1, <2>2
<1>6. ValuesGood'
    BY DEF TypeInv, CallsFit, KeyedCalls, HoldersLock, LocksHeld, Allocated, ValuesGood, Stable, Known
<1>7. Stable'
    BY DEF TypeInv, CallsFit, KeyedCalls, HoldersLock, LocksHeld, Allocated, ValuesGood, Stable, Known
<1> QED
    BY <1>1, <1>2, <1>3, <1>4, <1>5, <1>6, <1>7

LEMMA RemoveDeleteKeeps ==
  ASSUME IInv, NEW t \in Threads, RemoveDelete(t)
  PROVE  IInv'
<1> USE NamesAssumption DEF IInv, RemoveDelete, Goto, content, locks
<1>1. TypeInv'
    BY DEF TypeInv, KeyedCalls, Cursors, Known, CallsFit, HoldersLock
<1>2. CallsFit'
    BY DEF TypeInv, CallsFit, KeyedCalls, Cursors, Idle
<1>3. HoldersLock'
    BY DEF TypeInv, HoldersLock, LocksHeld, Allocated
<1>4. LocksHeld'
    BY DEF TypeInv, HoldersLock, LocksHeld, Allocated
<1>5. Allocated'
    BY DEF TypeInv, HoldersLock, LocksHeld, Allocated, CallsFit, KeyedCalls
<1>6. ValuesGood'
    BY DEF TypeInv, CallsFit, KeyedCalls, HoldersLock, LocksHeld, Allocated, ValuesGood, Stable, Known
<1>7. Stable'
    BY DEF TypeInv, CallsFit, KeyedCalls, HoldersLock, LocksHeld, Allocated, ValuesGood, Stable, Known
<1> QED
    BY <1>1, <1>2, <1>3, <1>4, <1>5, <1>6, <1>7

LEMMA ReturnKeeps ==
  ASSUME IInv, NEW t \in Threads, Return(t)
  PROVE  IInv'
<1> USE NamesAssumption DEF IInv, Return, Goto, content, locks
<1>1. TypeInv'
    BY DEF TypeInv, KeyedCalls, Cursors, Known, CallsFit, HoldersLock
<1>2. CallsFit'
    BY DEF TypeInv, CallsFit, KeyedCalls, Cursors, Idle
<1>3. HoldersLock'
    BY DEF TypeInv, HoldersLock, LocksHeld, Allocated
<1>4. LocksHeld'
    BY DEF TypeInv, HoldersLock, LocksHeld, Allocated
<1>5. Allocated'
    BY DEF TypeInv, HoldersLock, LocksHeld, Allocated, CallsFit, KeyedCalls
<1>6. ValuesGood'
    BY DEF TypeInv, CallsFit, KeyedCalls, HoldersLock, LocksHeld, Allocated, ValuesGood, Stable, Known
<1>7. Stable'
    BY DEF TypeInv, CallsFit, KeyedCalls, HoldersLock, LocksHeld, Allocated, ValuesGood, Stable, Known
<1> QED
    BY <1>1, <1>2, <1>3, <1>4, <1>5, <1>6, <1>7

LEMMA SeekKeeps ==
  ASSUME IInv, NEW t \in Threads, NEW k \in Keys, Seek(t, k)
  PROVE  IInv'
<1> USE NamesAssumption DEF IInv, Seek, SeekBegin, Release, Goto, content, locks
<1>1. TypeInv'
    BY DEF TypeInv, KeyedCalls, Cursors, Known, CallsFit, HoldersLock
<1>2. CallsFit'
    BY DEF TypeInv, CallsFit, KeyedCalls, Cursors, Idle
<1>3. HoldersLock'
    BY DEF TypeInv, HoldersLock, LocksHeld, Allocated
<1>4. LocksHeld'
    BY DEF TypeInv, HoldersLock, LocksHeld, Allocated
<1>5. Allocated'
    BY DEF TypeInv, HoldersLock, LocksHeld, Allocated, CallsFit, KeyedCalls
<1>6. ValuesGood'
    BY DEF TypeInv, CallsFit, KeyedCalls, HoldersLock, LocksHeld, Allocated, ValuesGood, Stable, Known
<1>7. Stable'
    BY DEF TypeInv, CallsFit, KeyedCalls, HoldersLock, LocksHeld, Allocated, ValuesGood, Stable, Known
<1> QED
    BY <1>1, <1>2, <1>3, <1>4, <1>5, <1>6, <1>7

LEMMA SeekFindKeeps ==
  ASSUME IInv, NEW t \in Threads, SeekFind(t)
  PROVE  IInv'
<1> USE NamesAssumption DEF IInv, SeekFind, Target, Release, Own, Goto, content, locks
<1>1. TypeInv'
  <2>1. ASSUME Target(t) # NoElement PROVE value[Target(t)] \in Known /\ Target(t) \in Elements
      BY <2>1 DEF TypeInv, CallsFit, Allocated, ValuesGood
  <2>2. seen' \in [Threads -> Values \cup {NoValue, Empty}] /\ held' \in [Threads -> Elements \cup {NoElement}]
      BY <2>1 DEF TypeInv, Known
  <2>3. readers' \in [Elements -> SUBSET Threads]
      BY DEF TypeInv
  <2>4. writer' \in [Elements -> Threads \cup {NoThread}]
      BY DEF TypeInv
  <2>5. call' \in [Threads -> KeyedCalls \cup Cursors \cup {Idle}]
    <3>1. [call[t] EXCEPT !.key = NoKey] \in Cursors
        BY DEF CallsFit, Cursors
    <3> QED
        BY <3>1 DEF TypeInv
  <2> QED
      BY <2>2, <2>3, <2>4, <2>5 DEF TypeInv
<1>2. CallsFit'
    BY DEF TypeInv, CallsFit, KeyedCalls, Cursors, Idle
<1>3. HoldersLock'
  <2>1. CASE Target(t) = NoElement
      BY <2>1 DEF TypeInv, HoldersLock, LocksHeld
  <2>2. CASE Target(t) # NoElement
    <3>1. Target(t) \in Elements
        BY <2>2 DEF TypeInv, CallsFit
    <3>2. /\ readers' = readers /\ writer' = [writer EXCEPT ![Target(t)] = t] /\ log' = log
          /\ held' = [held EXCEPT ![t] = Target(t)] /\ pc' = [pc EXCEPT ![t] = "iter"]
        BY <2>2, <3>1 DEF TypeInv, HoldersLock, LocksHeld
    <3>3. \A u \in Threads : writer[Target(t)] # u
        BY <2>2, <3>1
    <3> HIDE DEF Target
    <3> QED
        BY <2>2, <3>1, <3>2, <3>3 DEF TypeInv, HoldersLock
  <2> QED
      BY <2>1, <2>2
<1>4. LocksHeld'
    BY DEF TypeInv, HoldersLock, LocksHeld, Allocated
<1>5. Allocated'
    BY DEF TypeInv, HoldersLock, LocksHeld, Allocated, CallsFit, KeyedCalls
<1>6. ValuesGood'
    BY DEF TypeInv, CallsFit, KeyedCalls, HoldersLock, LocksHeld, Allocated, ValuesGood, Stable, Known
<1>7. Stable'
    BY DEF TypeInv, CallsFit, KeyedCalls, HoldersLock, LocksHeld, Allocated, ValuesGood, Stable, Known
<1> QED
    BY <1>1, <1>2, <1>3, <1>4, <1>5, <1>6, <1>7

LEMMA WriteRangeKeeps ==
  ASSUME IInv, NEW t \in Threads, WriteRange(t)
  PROVE  IInv'
<1> USE NamesAssumption DEF IInv, WriteRange, content, locks
<1>1. TypeInv'
    BY DEF TypeInv, KeyedCalls, Cursors, Known, CallsFit, HoldersLock
<1>2. CallsFit'
    BY DEF TypeInv, CallsFit, KeyedCalls, Cursors, Idle
<1>3. HoldersLock'
    BY DEF TypeInv, HoldersLock, LocksHeld, Allocated
<1>4. LocksHeld'
    BY DEF TypeInv, HoldersLock, LocksHeld, Allocated
<1>5. Allocated'
    BY DEF TypeInv, HoldersLock, LocksHeld, Allocated, CallsFit, KeyedCalls
<1>6. ValuesGood'
    BY DEF TypeInv, CallsFit, KeyedCalls, HoldersLock, LocksHeld, Allocated, ValuesGood, Stable, Known
<1>7. Stable'
    BY DEF TypeInv, CallsFit, KeyedCalls, HoldersLock, LocksHeld, Allocated, ValuesGood, Stable, Known
<1> QED
    BY <1>1, <1>2, <1>3, <1>4, <1>5, <1>6, <1>7

LEMMA AbortKeeps ==
  ASSUME IInv, NEW t \in Threads, Abort(t)
  PROVE  IInv'
<1> USE NamesAssumption DEF IInv, Abort, content, locks
<1>1. TypeInv'
    BY DEF TypeInv, KeyedCalls, Cursors, Known, CallsFit, HoldersLock
<1>2. CallsFit'
    BY DEF TypeInv, CallsFit, KeyedCalls, Cursors, Idle
<1>3. HoldersLock'
    BY DEF TypeInv, HoldersLock, LocksHeld, Allocated
<1>4. LocksHeld'
    BY DEF TypeInv, HoldersLock, LocksHeld, Allocated
<1>5. Allocated'
    BY DEF TypeInv, HoldersLock, LocksHeld, Allocated, CallsFit, KeyedCalls
<1>6. ValuesGood'
    BY DEF TypeInv, CallsFit, KeyedCalls, HoldersLock, LocksHeld, Allocated, ValuesGood, Stable, Known
<1>7. Stable'
    BY DEF TypeInv, CallsFit, KeyedCalls, HoldersLock, LocksHeld, Allocated, ValuesGood, Stable, Known
<1> QED
    BY <1>1, <1>2, <1>3, <1>4, <1>5, <1>6, <1>7

LEMMA CommitStartKeeps ==
  ASSUME IInv, NEW t \in Threads, CommitStart(t)
  PROVE  IInv'
<1> USE NamesAssumption DEF IInv, CommitStart, Snapshot, Goto, content, locks
<1>1. TypeInv'
  <2>1. held[t] \in Elements /\ value[held[t]] \in Known
      BY DEF TypeInv, HoldersLock, Stable
  <2> QED
      BY <2>1 DEF TypeInv, Known
<1>2. CallsFit'
    BY DEF TypeInv, CallsFit, KeyedCalls, Cursors, Idle
<1>3. HoldersLock'
    BY DEF TypeInv, HoldersLock, LocksHeld, Allocated
<1>4. LocksHeld'
    BY DEF TypeInv, HoldersLock, LocksHeld, Allocated
<1>5. Allocated'
    BY DEF TypeInv, HoldersLock, LocksHeld, Allocated, CallsFit, KeyedCalls
<1>6. ValuesGood'
    BY DEF TypeInv, CallsFit, KeyedCalls, HoldersLock, LocksHeld, Allocated, ValuesGood, Stable, Known
<1>7. Stable'
    BY DEF TypeInv, CallsFit, KeyedCalls, HoldersLock, LocksHeld, Allocated, ValuesGood, Stable, Known
<1> QED
    BY <1>1, <1>2, <1>3, <1>4, <1>5, <1>6, <1>7

LEMMA CommitEndKeeps ==
  ASSUME IInv, NEW t \in Threads, CommitEnd(t)
  PROVE  IInv'
<1> USE NamesAssumption DEF IInv, CommitEnd, Goto, content, locks
<1>1. TypeInv'
    BY DEF TypeInv, KeyedCalls, Cursors, Known, CallsFit, HoldersLock
<1>2. CallsFit'
    BY DEF TypeInv, CallsFit, KeyedCalls, Cursors, Idle
<1>3. HoldersLock'
    BY DEF TypeInv, HoldersLock, LocksHeld, Allocated
<1>4. LocksHeld'
    BY DEF TypeInv, HoldersLock, LocksHeld, Allocated
<1>5. Allocated'
    BY DEF TypeInv, HoldersLock, LocksHeld, Allocated, CallsFit, KeyedCalls
<1>6. ValuesGood'
    BY DEF TypeInv, CallsFit, KeyedCalls, HoldersLock, LocksHeld, Allocated, ValuesGood, Stable, Known
<1>7. Stable'
    BY DEF TypeInv, CallsFit, KeyedCalls, HoldersLock, LocksHeld, Allocated, ValuesGood, Stable, Known
<1> QED
    BY <1>1, <1>2, <1>3, <1>4, <1>5, <1>6, <1>7

LEMMA IterDeleteKeeps ==
  ASSUME IInv, NEW t \in Threads, IterDelete(t)
  PROVE  IInv'
<1> USE NamesAssumption DEF IInv, IterDelete, Release, Goto, content, locks
<1>1. TypeInv'
    BY DEF TypeInv, KeyedCalls, Cursors, Known, CallsFit, HoldersLock
<1>2. CallsFit'
    BY DEF TypeInv, CallsFit, KeyedCalls, Cursors, Idle
<1>3. HoldersLock'
    BY DEF TypeInv, HoldersLock, LocksHeld, Allocated
<1>4. LocksHeld'
    BY DEF TypeInv, HoldersLock, LocksHeld, Allocated
<1>5. Allocated'
    BY DEF TypeInv, HoldersLock, LocksHeld, Allocated, CallsFit, KeyedCalls
<1>6. ValuesGood'
    BY DEF TypeInv, CallsFit, KeyedCalls, HoldersLock, LocksHeld, Allocated, ValuesGood, Stable, Known
<1>7. Stable'
    BY DEF TypeInv, CallsFit, KeyedCalls, HoldersLock, LocksHeld, Allocated, ValuesGood, Stable, Known
<1> QED
    BY <1>1, <1>2, <1>3, <1>4, <1>5, <1>6, <1>7

LEMMA CrashKeeps ==
  ASSUME IInv, Crash
  PROVE  IInv'
<1> USE NamesAssumption DEF IInv, Crash, Durable, content, locks
<1>1. TypeInv'
    BY DEF TypeInv, KeyedCalls, Cursors, Known, CallsFit, HoldersLock
<1>2. CallsFit'
    BY DEF TypeInv, CallsFit, KeyedCalls, Cursors, Idle
<1>3. HoldersLock'
    BY DEF TypeInv, HoldersLock, LocksHeld, Allocated
<1>4. LocksHeld'
    BY DEF TypeInv, HoldersLock, LocksHeld, Allocated
<1>5. Allocated'
    BY DEF TypeInv, HoldersLock, LocksHeld, Allocated, CallsFit, KeyedCalls
<1>6. ValuesGood'
    BY DEF TypeInv, CallsFit, KeyedCalls, HoldersLock, LocksHeld, Allocated, ValuesGood, Stable, Known
<1>7. Stable'
    BY DEF TypeInv, CallsFit, KeyedCalls, HoldersLock, LocksHeld, Allocated, ValuesGood, Stable, Known
<1> QED
    BY <1>1, <1>2, <1>3, <1>4, <1>5, <1>6, <1>7

-----------------------------------------------------------------------------
(* Theorems.                                                               *)

LEMMA InitInv == Init => IInv
BY NamesAssumption DEF Init, IInv, TypeInv, CallsFit, HoldersLock, LocksHeld, Allocated, ValuesGood, Stable

LEMMA NextInv == IInv /\ [Next]_vars => IInv'
<1> SUFFICES ASSUME IInv, [Next]_vars PROVE IInv'
    OBVIOUS
<1>1. CASE Crash
    BY <1>1, CrashKeeps
<1>2. ASSUME NEW t \in Threads, Step(t) PROVE IInv'
    BY <1>2, BeginKeeps, GetKeeps, GetReturnKeeps, ExistsKeeps, PutNewKeeps, PutOldKeeps, PutRefusedKeeps, PutAssignKeeps,
       RemoveUnlinkKeeps, RemoveDeleteKeeps, ReturnKeeps, SeekKeeps, SeekFindKeeps, WriteRangeKeeps, AbortKeeps,
       CommitStartKeeps, CommitEndKeeps, IterDeleteKeeps DEF Step
<1>3. CASE UNCHANGED vars
    BY <1>3 DEF vars, IInv, TypeInv, CallsFit, HoldersLock, LocksHeld, Allocated, ValuesGood, Stable
<1> QED
    BY <1>1, <1>2, <1>3 DEF Next

\* The value a callback or an iterator was given stays as it is, and where it
\* is, for any number of threads that write, remove and commit.
THEOREM HeldIsAlwaysStable == Spec => []HeldIsStable
<1>1. IInv => HeldIsStable
    BY DEF IInv, Allocated, Stable, HeldIsStable, Known
<1> QED
    BY <1>1, InitInv, NextInv, PTL DEF Spec

\* A thread that waits for an element has none, so nobody waits for it.
LEMMA WaitersHoldNothing ==
  ASSUME IInv, NEW t \in Threads, NEW u \in Threads, NEW w \in Threads, WaitsFor(t, u)
  PROVE  ~WaitsFor(u, w)
<1>1. PICK e \in Elements : writer[e] = u \/ u \in readers[e]
  <2>1. CASE pc[t] \in {"start", "seek"}
      BY <2>1 DEF IInv, TypeInv, CallsFit, KeyedCalls, WaitsFor, Target
  <2>2. CASE pc[t] = "delete"
      BY <2>2 DEF IInv, TypeInv, HoldersLock, WaitsFor
  <2> QED
      BY <2>1, <2>2 DEF WaitsFor
<1>2. pc[u] \in {"fill", "assign", "iter", "commit", "callback"}
    BY <1>1 DEF IInv, LocksHeld
<1> QED
    BY <1>2 DEF WaitsFor

\* No set of threads is stuck on each other's elements, whatever calls they make.
THEOREM HashMapsNeverWaitInCircle == Spec => []NoCircularWait
<1>1. IInv => NoCircularWait
  <2> SUFFICES ASSUME IInv, NEW S \in SUBSET Threads, S # {}
               PROVE  \E t \in S : \A u \in S : ~WaitsFor(t, u)
      BY DEF NoCircularWait
  <2>1. PICK t \in S : TRUE
      OBVIOUS
  <2>2. CASE \A u \in S : ~WaitsFor(t, u)
      BY <2>1, <2>2
  <2>3. ASSUME NEW u \in S, WaitsFor(t, u) PROVE \A w \in S : ~WaitsFor(u, w)
      BY <2>1, <2>3, WaitersHoldNothing
  <2> QED
      BY <2>2, <2>3
<1> QED
    BY <1>1, InitInv, NextInv, PTL DEF Spec

(***************************************************************************)
(* HashMaps implements ConcurrentHashMap: for any number of threads, keys, *)
(* values and elements, every call on cmap and vcmap takes effect at one   *)
(* moment, with the two exceptions ConcurrentHashMap makes for vcmap.      *)
(*                                                                         *)
(* Each step of a thread either cannot be seen from outside, or is one of  *)
(* the abstract steps.  What a step of t shows is split into what lasts of *)
(* every key (Stored) and how each thread looks (Phase, Asked, Answered).  *)
(***************************************************************************)

\* What the call of a thread has fixed at its position, beyond IInv.
Fixed ==
  \A t \in Threads :
    /\ pc[t] \in {"idle", "start"} => seen[t] = NoValue
    /\ pc[t] = "callback" => call[t] \in KeyedCalls /\ call[t].op = "get"
    /\ pc[t] = "delete" => call[t] \in KeyedCalls /\ call[t].op = "remove"
    /\ pc[t] = "return" => call[t] \in KeyedCalls
    /\ call[t].op = "exists" => engine = "cmap"
    /\ pc[t] = "fill" => engine = "vcmap" /\ value[held[t]] = Empty
    /\ pc[t] \in {"fill", "assign"} => \A k \in Keys : bucket[k] = held[t] => k = call[t].key

RInv == IInv /\ Fixed

LEMMA CallFields ==
  /\ \A c \in Calls : c \in KeyedCalls \/ c = [op |-> "iterator", key |-> NoKey, value |-> NoValue]
  /\ \A c \in KeyedCalls : c.op \in {"get", "exists", "remove", "put"} /\ c.key \in Keys /\ c.value \in Values \cup {NoValue}
                           /\ (c.op = "put" => c.value \in Values)
  /\ \A c \in Cursors : c.op = "iterator"
  /\ Idle.op = "none"
BY DEF Calls, KeyedCalls, Cursors, Idle

\* Fixed is kept by every step.
LEMMA FixedStep ==
  ASSUME RInv, NEW t \in Threads, Step(t)
  PROVE  Fixed'
<1> USE NamesAssumption, CallFields DEF RInv, IInv, Fixed, TypeInv, CallsFit, Goto, content, locks
<1>1. CASE \E c \in Calls : Begin(t, c)
  BY <1>1 DEF Begin
<1>2. CASE Get(t)
  BY <1>2 DEF Get, Starts
<1>3. CASE GetReturn(t)
  BY <1>3 DEF GetReturn, Release
<1>4. CASE Exists(t)
  BY <1>4 DEF Exists, Starts
<1>5. CASE PutNew(t)
  <2>1. PICK e \in Elements \ live :
          /\ bucket' = [bucket EXCEPT ![call[t].key] = e]
          /\ IF engine = "cmap"
             THEN value' = [value EXCEPT ![e] = call[t].value] /\ pc' = [pc EXCEPT ![t] = "return"] /\ held' = held
             ELSE value' = [value EXCEPT ![e] = Empty] /\ pc' = [pc EXCEPT ![t] = "fill"] /\ held' = [held EXCEPT ![t] = e]
    BY <1>5 DEF PutNew, NextFree
  <2>2. /\ UNCHANGED <<engine, call, seen>> /\ pc[t] = "start" /\ call[t] \in KeyedCalls
        /\ \A k \in Keys : bucket[k] # e /\ \A u \in Threads : held[u] # e
    BY <1>5 DEF PutNew, Starts, Allocated
  <2>3. CASE engine = "cmap"
    BY <2>1, <2>2, <2>3
  <2>4. CASE engine = "vcmap"
    <3>1. /\ bucket' = [bucket EXCEPT ![call[t].key] = e] /\ value' = [value EXCEPT ![e] = Empty]
          /\ pc' = [pc EXCEPT ![t] = "fill"] /\ held' = [held EXCEPT ![t] = e]
      BY <2>1, <2>4
    <3>2. \A u \in Threads : u # t => held'[u] = held[u] /\ pc'[u] = pc[u] /\ (held[u] \in Elements => value'[held[u]] = value[held[u]])
      BY <2>2, <3>1
    <3>3. value'[held'[t]] = Empty /\ pc'[t] = "fill" /\ \A k \in Keys : bucket'[k] = held'[t] => k = call[t].key
      BY <2>2, <3>1
    <3>4. \A u \in Threads : u # t /\ pc[u] \in {"fill", "assign"} => \A k \in Keys : bucket'[k] = held[u] => k = call[u].key
      BY <2>2, <3>1
    <3>5. \A u \in Threads : pc[u] = "fill" => held[u] \in Elements
      BY DEF HoldersLock
    <3> QED
      BY <2>2, <2>4, <3>2, <3>3, <3>4, <3>5
  <2> QED
    BY <2>3, <2>4
<1>6. CASE PutOld(t)
  BY <1>6 DEF PutOld, Starts, Target, Allocated
<1>7. CASE PutRefused(t)
  BY <1>7 DEF PutRefused, Starts
<1>8. CASE PutAssign(t)
  BY <1>8 DEF PutAssign, Release, HoldersLock, LocksHeld
<1>9. CASE RemoveUnlink(t)
  BY <1>9 DEF RemoveUnlink, Starts, HoldersLock
<1>10. CASE RemoveDelete(t)
  BY <1>10 DEF RemoveDelete, HoldersLock
<1>11. CASE Return(t)
  BY <1>11 DEF Return
<1>12. CASE \E k \in Keys : Seek(t, k)
  BY <1>12 DEF Seek, SeekBegin, Release
<1>13. CASE SeekFind(t)
  BY <1>13 DEF SeekFind, Release
<1>14. CASE WriteRange(t) \/ Abort(t)
  BY <1>14 DEF WriteRange, Abort
<1>15. CASE CommitStart(t)
  BY <1>15 DEF CommitStart, HoldersLock
<1>16. CASE CommitEnd(t)
  BY <1>16 DEF CommitEnd, HoldersLock
<1>17. CASE IterDelete(t)
  BY <1>17 DEF IterDelete, Release
<1> QED
  BY <1>1, <1>2, <1>3, <1>4, <1>5, <1>6, <1>7, <1>8, <1>9, <1>10, <1>11, <1>12, <1>13, <1>14, <1>15, <1>16, <1>17 DEF Step

\* What the step of t shows.
Lasts == \A k \in Keys : Stored(k)' = Stored(k)
Stores(k, v) == \A j \in Keys : Stored(j)' = IF j = k THEN v ELSE Stored(j)
Looks(t, phase, asked, answered) == Phase(t)' = phase /\ Asked(t)' = asked /\ Answered(t)' = answered
Stays(u) == Looks(u, Phase(u), Asked(u), Answered(u))

\* A step of t touches no call but its own, ...
LEMMA OthersKeep ==
  ASSUME RInv, NEW t \in Threads, Step(t), NEW u \in Threads, u # t
  PROVE  pc'[u] = pc[u] /\ call'[u] = call[u] /\ seen'[u] = seen[u] /\ held'[u] = held[u]
<1> USE DEF RInv, IInv, TypeInv, Goto, Release
<1>1. CASE PutNew(t)
  <2>1. /\ pc' \in {[pc EXCEPT ![t] = "return"], [pc EXCEPT ![t] = "fill"]} /\ call' = call /\ seen' = seen
        /\ \E e \in Elements : held' \in {held, [held EXCEPT ![t] = e]}
    BY <1>1 DEF PutNew, NextFree
  <2> QED
    BY <2>1
<1>2. CASE ~PutNew(t)
  BY <1>2 DEF Step, Begin, Get, GetReturn, Exists, PutOld, PutRefused, PutAssign, RemoveUnlink, RemoveDelete, Return,
     Seek, SeekBegin, SeekFind, WriteRange, Abort, CommitStart, CommitEnd, IterDelete
<1> QED
  BY <1>1, <1>2

\* ... and only an unlinking remove is seen at the place of another thread.
LEMMA OthersStay ==
  ASSUME RInv, NEW t \in Threads, Step(t), ~RemoveUnlink(t), NEW u \in Threads, u # t
  PROVE  Stays(u)
<1> USE DEF RInv, IInv, TypeInv
<1>1. pc'[u] = pc[u] /\ call'[u] = call[u] /\ seen'[u] = seen[u] /\ held'[u] = held[u]
  BY OthersKeep
<1>2. pc[u] \in {"fill", "assign"} => Linked(u)' = Linked(u)
  <2>1. CASE PutNew(t)
    <3>1. PICK e \in Elements \ live : bucket' = [bucket EXCEPT ![call[t].key] = e]
      BY <2>1 DEF PutNew, NextFree
    <3>2. bucket[call[t].key] = NoElement /\ call[t].key \in Keys
      BY <2>1, CallFields DEF PutNew, Starts, Target, CallsFit
    <3> QED
      BY <1>1, <3>1, <3>2, NamesAssumption DEF Linked, HoldersLock, Allocated
  <2>2. CASE ~PutNew(t)
    <3>1. bucket' = bucket
      BY <2>2 DEF Step, Begin, Get, GetReturn, Exists, PutOld, PutRefused, PutAssign, RemoveDelete, Return,
         Seek, SeekFind, WriteRange, Abort, CommitStart, CommitEnd, IterDelete, content
    <3> QED
      BY <1>1, <3>1 DEF Linked
  <2> QED
    BY <2>1, <2>2
<1> QED
  BY <1>1, <1>2 DEF Stays, Looks, Phase, Asked, Answered

\* The views of all threads, as the abstract steps of t write them.
LEMMA ViewOf ==
  ASSUME RInv, NEW t \in Threads, Step(t), ~RemoveUnlink(t),
         NEW phase, NEW asked, NEW answered, Looks(t, phase, asked, answered)
  PROVE  /\ [u \in Threads |-> Phase(u)]' = [[u \in Threads |-> Phase(u)] EXCEPT ![t] = phase]
         /\ [u \in Threads |-> Asked(u)]' = [[u \in Threads |-> Asked(u)] EXCEPT ![t] = asked]
         /\ [u \in Threads |-> Answered(u)]' = [[u \in Threads |-> Answered(u)] EXCEPT ![t] = answered]
<1>1. \A u \in Threads : u # t => Phase(u)' = Phase(u) /\ Asked(u)' = Asked(u) /\ Answered(u)' = Answered(u)
  BY OthersStay DEF Stays, Looks
<1> QED
  BY <1>1 DEF Looks

\* The same for a step that only moves t on.
LEMMA PhaseOf ==
  ASSUME RInv, NEW t \in Threads, Step(t), ~RemoveUnlink(t), NEW phase, Looks(t, phase, Asked(t), Answered(t))
  PROVE  /\ [u \in Threads |-> Phase(u)]' = [[u \in Threads |-> Phase(u)] EXCEPT ![t] = phase]
         /\ [u \in Threads |-> Asked(u)]' = [u \in Threads |-> Asked(u)]
         /\ [u \in Threads |-> Answered(u)]' = [u \in Threads |-> Answered(u)]
<1>1. \A u \in Threads : u # t => Phase(u)' = Phase(u) /\ Asked(u)' = Asked(u) /\ Answered(u)' = Answered(u)
  BY OthersStay DEF Stays, Looks
<1> QED
  BY <1>1 DEF Looks

\* The contents, as the abstract steps write them.
LEMMA StoreOf ==
  ASSUME NEW k \in Keys, NEW v, Stores(k, v)
  PROVE  [j \in Keys |-> Stored(j)]' = [[j \in Keys |-> Stored(j)] EXCEPT ![k] = v]
BY DEF Stores

LEMMA StoreStays == ASSUME Lasts PROVE [j \in Keys |-> Stored(j)]' = [j \in Keys |-> Stored(j)]
BY DEF Lasts

\* The engine is what it was made.
LEMMA EngineStays ==
  ASSUME NEW t \in Threads, Step(t)
  PROVE  engine' = engine
BY DEF Step, Begin, Get, GetReturn, Exists, PutNew, PutOld, PutRefused, PutAssign, RemoveUnlink, RemoveDelete, Return,
   Seek, SeekFind, WriteRange, Abort, CommitStart, CommitEnd, IterDelete

\* A step that cannot be seen is a stuttering step of ConcurrentHashMap.
LEMMA SilentStutters ==
  ASSUME RInv, NEW t \in Threads, Step(t), ~RemoveUnlink(t), Lasts, Stays(t)
  PROVE  UNCHANGED Abstract!concurrentVars
<1>1. \A u \in Threads : Phase(u)' = Phase(u) /\ Asked(u)' = Asked(u) /\ Answered(u)' = Answered(u)
  BY OthersStay DEF Stays, Looks
<1>2. \A j \in Keys : Stored(j)' = Stored(j)
  BY DEF Lasts
<1>3. engine' = engine
  BY EngineStays
<1> QED
  BY <1>1, <1>2, <1>3 DEF Abstract!concurrentVars, Abstract!mapVars

\* Steps that change no value and no link keep what lasts, unless a put of vcmap begins or ends.
LEMMA ContentStays ==
  ASSUME RInv, NEW t \in Threads, Step(t), UNCHANGED <<bucket, value, undo>>, pc[t] # "fill", pc'[t] # "fill"
  PROVE  Lasts
<1>1. \A e \in Elements : Pending(e)' = Pending(e)
  <2> SUFFICES ASSUME NEW e \in Elements, NEW u \in Threads
               PROVE  (pc'[u] = "fill" /\ held'[u] = e) = (pc[u] = "fill" /\ held[u] = e)
    BY DEF Pending
  <2> QED
    BY OthersKeep
<1> QED
  BY <1>1 DEF Lasts, Stored, Durable, RInv, IInv, TypeInv

\* A step of ConcurrentHashMap, or none.
AbstractStep == [UNCHANGED Abstract!concurrentVars \/ Abstract!HashMapNext]_(Abstract!concurrentVars)

LEMMA CallStepOf ==
  ASSUME NEW t \in Threads, Step(t), Abstract!CallStep(t)
  PROVE  AbstractStep
BY EngineStays DEF AbstractStep, Abstract!HashMapNext

\* What is asked for by a put, remove, get or exists under way.
LEMMA AskedOf ==
  ASSUME NEW t \in Threads, call[t] \in KeyedCalls
  PROVE  /\ Asked(t) \in Abstract!Requests
         /\ Asked(t).op = IF call[t].op = "exists" THEN "get" ELSE call[t].op
         /\ Asked(t).key = call[t].key /\ Asked(t).value = call[t].value
BY DEF Asked, KeyedCalls, Abstract!Requests

\* A put stores its value.
LEMMA PutIsEffect ==
  ASSUME RInv, NEW t \in Threads, Step(t), ~RemoveUnlink(t), call[t] \in KeyedCalls, call[t].op = "put",
         Phase(t) = "called", Stores(call[t].key, call[t].value), Looks(t, "done", Asked(t), Answered(t))
  PROVE  Abstract!Effect(t)
<1>1. call[t].key \in Keys /\ Asked(t).op = "put" /\ Asked(t).key = call[t].key /\ Asked(t).value = call[t].value
  BY AskedOf, CallFields
<1>2. /\ [u \in Threads |-> Phase(u)]' = [[u \in Threads |-> Phase(u)] EXCEPT ![t] = "done"]
      /\ [u \in Threads |-> Asked(u)]' = [u \in Threads |-> Asked(u)]
      /\ [u \in Threads |-> Answered(u)]' = [u \in Threads |-> Answered(u)]
  BY PhaseOf
<1>3. [j \in Keys |-> Stored(j)]' = [[j \in Keys |-> Stored(j)] EXCEPT ![call[t].key] = call[t].value]
  BY <1>1, StoreOf
<1> QED
  BY <1>1, <1>2, <1>3 DEF Abstract!Effect

\* A put that fails stores nothing.
LEMMA PutIsFailure ==
  ASSUME RInv, NEW t \in Threads, Step(t), ~RemoveUnlink(t), call[t] \in KeyedCalls, call[t].op = "put",
         Phase(t) = "called", Lasts, Looks(t, "done", Asked(t), Answered(t))
  PROVE  Abstract!Failure(t)
<1>1. Asked(t).op = "put"
  BY AskedOf
<1> QED
  BY <1>1, PhaseOf, StoreStays DEF Abstract!Failure

\* A get or exists answers what is stored.
LEMMA GetIsEffect ==
  ASSUME RInv, NEW t \in Threads, Step(t), ~RemoveUnlink(t), call[t] \in KeyedCalls, call[t].op \in {"get", "exists"},
         Phase(t) = "called", Lasts, Looks(t, "done", Asked(t), Stored(call[t].key))
  PROVE  Abstract!Effect(t)
<1>1. call[t].key \in Keys /\ Asked(t).op = "get" /\ Asked(t).key = call[t].key
  BY AskedOf, CallFields
<1>2. \A u \in Threads : u # t => Phase(u)' = Phase(u) /\ Asked(u)' = Asked(u) /\ Answered(u)' = Answered(u)
  BY OthersStay DEF Stays, Looks
<1>3. /\ [u \in Threads |-> Phase(u)]' = [[u \in Threads |-> Phase(u)] EXCEPT ![t] = "done"]
      /\ [u \in Threads |-> Asked(u)]' = [u \in Threads |-> Asked(u)]
      /\ [u \in Threads |-> Answered(u)]' = [[u \in Threads |-> Answered(u)] EXCEPT ![t] = Stored(call[t].key)]
  BY <1>2 DEF Looks
<1> QED
  BY <1>1, <1>3, StoreStays DEF Abstract!Effect

LEMMA BeginRefines ==
  ASSUME RInv, NEW t \in Threads, NEW c \in Calls, Begin(t, c), Step(t)
  PROVE  AbstractStep
<1>1. /\ pc[t] = "idle" /\ call[t] = Idle /\ call'[t] = c /\ seen'[t] = NoValue /\ seen[t] = NoValue
      /\ pc'[t] = IF c.op = "iterator" THEN "iter" ELSE "start"
  BY DEF Begin, Goto, RInv, IInv, TypeInv, CallsFit, Fixed
<1>2. Lasts /\ ~RemoveUnlink(t)
  <2>1. pc'[t] # "fill"
    BY <1>1
  <2> QED
    BY <1>1, <2>1, ContentStays DEF Begin, content, RemoveUnlink, Starts
<1>3. Phase(t) = "idle" /\ Answered(t) = NoValue /\ Asked(t) = [op |-> "none"]
  BY <1>1, CallFields DEF Phase, Answered, Asked
<1>4. CASE c \in KeyedCalls
  <2>1. Asked(t)' \in Abstract!Requests
    BY <1>1, <1>4 DEF Asked, KeyedCalls, Abstract!Requests
  <2>2. Looks(t, "called", Asked(t)', Answered(t))
    BY <1>1, <1>3, <1>4, CallFields DEF Looks, Phase, Answered
  <2>3. Abstract!Call(t, Asked(t)')
    <3>1. /\ [u \in Threads |-> Phase(u)]' = [[u \in Threads |-> Phase(u)] EXCEPT ![t] = "called"]
          /\ [u \in Threads |-> Asked(u)]' = [[u \in Threads |-> Asked(u)] EXCEPT ![t] = Asked(t)']
          /\ [u \in Threads |-> Answered(u)]' = [[u \in Threads |-> Answered(u)] EXCEPT ![t] = Answered(t)]
      BY <1>2, <2>2, ViewOf
    <3>2. [[u \in Threads |-> Answered(u)] EXCEPT ![t] = Answered(t)] = [u \in Threads |-> Answered(u)]
      OBVIOUS
    <3> QED
      BY <1>2, <1>3, <3>1, <3>2, StoreStays DEF Abstract!Call
  <2> QED
    BY <2>1, <2>3, CallStepOf DEF Abstract!CallStep
<1>5. CASE c.op = "iterator"
  <2>1. Looks(t, "cursor", Asked(t), Answered(t))
    BY <1>1, <1>3, <1>5 DEF Looks, Phase, Answered, Asked
  <2>2. Abstract!Open(t)
    BY <1>2, <1>3, <2>1, PhaseOf, StoreStays DEF Abstract!Open
  <2> QED
    BY <2>2, CallStepOf DEF Abstract!CallStep
<1> QED
  BY <1>4, <1>5, CallFields

LEMMA GetRefines ==
  ASSUME RInv, NEW t \in Threads, Get(t), Step(t)
  PROVE  AbstractStep
<1>1. pc[t] = "start" /\ call[t] \in KeyedCalls /\ call[t].op = "get" /\ call[t].key \in Keys /\ call' = call /\ seen[t] = NoValue
  BY CallFields DEF Get, Starts, RInv, IInv, CallsFit, Fixed
<1>2. pc'[t] \in {"return", "callback"}
  BY DEF Get, Goto, RInv, IInv, TypeInv
<1>3. Lasts /\ ~RemoveUnlink(t)
  BY <1>1, <1>2, ContentStays DEF Get, content, RemoveUnlink, Starts
<1>4. seen'[t] = Stored(call[t].key)
  <2>1. CASE Target(t) = NoElement
    BY <1>1, <2>1 DEF Get, Stored, Target
  <2>2. CASE Target(t) # NoElement
    <3>1. Target(t) \in live /\ writer[Target(t)] = NoThread /\ seen'[t] = value[Target(t)]
      BY <1>1, <2>2 DEF Get, ShareFound, Share, Target, RInv, IInv, TypeInv, Allocated
    <3>2. value[Target(t)] # Torn /\ ~Pending(Target(t))
      BY <3>1, NamesAssumption DEF RInv, IInv, ValuesGood, Known, Pending, HoldersLock
    <3> QED
      BY <1>1, <2>2, <3>1, <3>2 DEF Stored, Durable, Target
  <2> QED
    BY <2>1, <2>2
<1>5. Phase(t) = "called" /\ Looks(t, "done", Asked(t), Stored(call[t].key))
  BY <1>1, <1>2, <1>4 DEF Phase, Looks, Asked, Answered
<1> QED
  BY <1>1, <1>3, <1>5, GetIsEffect, CallStepOf DEF Abstract!CallStep

LEMMA ExistsRefines ==
  ASSUME RInv, NEW t \in Threads, Exists(t), Step(t)
  PROVE  AbstractStep
<1>1. /\ pc[t] = "start" /\ call[t] \in KeyedCalls /\ call[t].op = "exists" /\ call[t].key \in Keys /\ call' = call
      /\ engine = "cmap" /\ seen[t] = NoValue
  BY CallFields DEF Exists, Starts, RInv, IInv, CallsFit, Fixed
<1>2. pc'[t] = "return"
  BY DEF Exists, Goto, RInv, IInv, TypeInv
<1>3. Lasts /\ ~RemoveUnlink(t)
  BY <1>1, <1>2, ContentStays DEF Exists, content, RemoveUnlink, Starts
<1>4. seen'[t] = Stored(call[t].key)
  <2>1. ~Pending(Target(t))
    BY <1>1 DEF Pending, RInv, Fixed
  <2> QED
    BY <1>1, <2>1 DEF Exists, Stored, Target, RInv, IInv, TypeInv
<1>5. Phase(t) = "called" /\ Looks(t, "done", Asked(t), Stored(call[t].key))
  BY <1>1, <1>2, <1>4 DEF Phase, Looks, Asked, Answered
<1> QED
  BY <1>1, <1>3, <1>5, GetIsEffect, CallStepOf DEF Abstract!CallStep

LEMMA ReturnRefines ==
  ASSUME RInv, NEW t \in Threads, Return(t), Step(t)
  PROVE  AbstractStep
<1>1. pc[t] = "return" /\ call[t] \in KeyedCalls /\ call'[t] = Idle /\ pc'[t] = "idle"
  BY DEF Return, Goto, RInv, IInv, TypeInv, Fixed
<1>2. Lasts /\ ~RemoveUnlink(t)
  BY <1>1, ContentStays DEF Return, content, RemoveUnlink, Starts
<1>3. Phase(t) = "done" /\ Looks(t, "idle", [op |-> "none"], NoValue)
  BY <1>1, CallFields DEF Phase, Looks, Asked, Answered
<1>4. Abstract!Return(t)
  <2>1. /\ [u \in Threads |-> Phase(u)]' = [[u \in Threads |-> Phase(u)] EXCEPT ![t] = "idle"]
        /\ [u \in Threads |-> Asked(u)]' = [[u \in Threads |-> Asked(u)] EXCEPT ![t] = [op |-> "none"]]
        /\ [u \in Threads |-> Answered(u)]' = [[u \in Threads |-> Answered(u)] EXCEPT ![t] = NoValue]
    <3>1. \A u \in Threads : u # t => Phase(u)' = Phase(u) /\ Asked(u)' = Asked(u) /\ Answered(u)' = Answered(u)
      BY <1>2, OthersStay DEF Stays, Looks
    <3> QED
      BY <1>3, <3>1 DEF Looks
  <2> QED
    BY <1>2, <1>3, <2>1, StoreStays DEF Abstract!Return, Abstract!NoRequest
<1> QED
  BY <1>4, CallStepOf DEF Abstract!CallStep

LEMMA IterDeleteRefines ==
  ASSUME RInv, NEW t \in Threads, IterDelete(t), Step(t)
  PROVE  AbstractStep
<1>1. pc[t] = "iter" /\ call[t].op = "iterator" /\ call'[t] = Idle /\ pc'[t] = "idle"
  BY CallFields DEF IterDelete, Goto, RInv, IInv, TypeInv, CallsFit
<1>2. Lasts /\ ~RemoveUnlink(t)
  BY <1>1, ContentStays DEF IterDelete, content, RemoveUnlink, Starts
<1>3. Phase(t) = "cursor" /\ Looks(t, "idle", Asked(t), Answered(t))
  BY <1>1, CallFields DEF Phase, Looks, Asked, Answered
<1>4. Abstract!Close(t)
  BY <1>2, <1>3, PhaseOf, StoreStays DEF Abstract!Close
<1> QED
  BY <1>4, CallStepOf DEF Abstract!CallStep

\* The steps of gets and iterators in between cannot be seen.
LEMMA SilentCalls ==
  ASSUME RInv, NEW t \in Threads, Step(t),
         \/ GetReturn(t) \/ (\E k \in Keys : Seek(t, k)) \/ SeekFind(t) \/ WriteRange(t) \/ Abort(t)
  PROVE  AbstractStep
<1> USE CallFields DEF RInv, IInv, TypeInv, CallsFit, Fixed, Goto
<1>1. /\ UNCHANGED <<bucket, value, undo>> /\ call'[t].op = call[t].op /\ ~RemoveUnlink(t)
      /\ \/ pc[t] \in {"iter", "seek"} /\ pc'[t] \in {"iter", "seek"} /\ call[t].op = "iterator"
         \/ pc[t] = "callback" /\ pc'[t] = "return" /\ call[t].op = "get" /\ call' = call /\ seen' = seen
  <2>1. CASE GetReturn(t)
    BY <2>1 DEF GetReturn, content, RemoveUnlink, Starts
  <2>2. ASSUME NEW k \in Keys, Seek(t, k) PROVE <1>1!:
    BY <2>2 DEF Seek, content, RemoveUnlink, Starts
  <2>3. CASE SeekFind(t)
    BY <2>3 DEF SeekFind, content, RemoveUnlink, Starts
  <2>4. CASE WriteRange(t) \/ Abort(t)
    BY <2>4 DEF WriteRange, Abort, content, RemoveUnlink, Starts
  <2> QED
    BY <2>1, <2>2, <2>3, <2>4
<1>2. Lasts
  BY <1>1, ContentStays
<1>3. Stays(t)
  BY <1>1 DEF Stays, Looks, Phase, Asked, Answered
<1> QED
  BY <1>1, <1>2, <1>3, SilentStutters DEF AbstractStep

\* A commit that begins is undone by a crash, and nobody else looks.
LEMMA CommitStartRefines ==
  ASSUME RInv, NEW t \in Threads, CommitStart(t), Step(t)
  PROVE  AbstractStep
<1>1. /\ pc[t] = "iter" /\ pc'[t] = "commit" /\ call' = call /\ seen' = seen /\ bucket' = bucket /\ held' = held
      /\ call[t].op = "iterator" /\ held[t] \in Elements
  BY CallFields DEF CommitStart, Goto, RInv, IInv, TypeInv, CallsFit, HoldersLock
<1>2. value[held[t]] # Torn
  BY <1>1, NamesAssumption DEF RInv, IInv, Stable, Known, HoldersLock
<1>3. \A e \in Elements : Durable(e)' = Durable(e)
  BY <1>1, <1>2, NamesAssumption DEF CommitStart, Snapshot, Durable, RInv, IInv, TypeInv
<1>4. \A e \in Elements : Pending(e)' = Pending(e)
  BY <1>1 DEF Pending, CommitStart, Goto, RInv, IInv, TypeInv
<1>5. Lasts /\ Stays(t) /\ ~RemoveUnlink(t)
  BY <1>1, <1>3, <1>4 DEF Lasts, Stored, Stays, Looks, Phase, Asked, Answered, RInv, IInv, TypeInv, RemoveUnlink, Starts
<1> QED
  BY <1>5, SilentStutters DEF AbstractStep

\* A commit replaces the value of a record, unless a remove has unlinked it meanwhile.
LEMMA CommitEndRefines ==
  ASSUME RInv, NEW t \in Threads, CommitEnd(t), Step(t)
  PROVE  AbstractStep
<1>1. /\ pc[t] = "commit" /\ pc'[t] = "iter" /\ call' = call /\ bucket' = bucket /\ held' = held
      /\ call[t].op = "iterator" /\ held[t] \in Elements /\ held[t] \in live /\ writer[held[t]] = t /\ log[t] \in Values
  BY CallFields DEF CommitEnd, Goto, RInv, IInv, TypeInv, CallsFit, HoldersLock, Allocated
<1>2. Durable(held[t]) # NoValue
  BY <1>1, NamesAssumption DEF Durable, RInv, IInv, ValuesGood, Known
<1>3. \A e \in Elements : Durable(e)' = IF e = held[t] THEN log[t] ELSE Durable(e)
  BY <1>1, NamesAssumption DEF CommitEnd, Durable, RInv, IInv, TypeInv
<1>4. \A e \in Elements : Pending(e)' = Pending(e)
  BY <1>1 DEF Pending, CommitEnd, Goto, RInv, IInv, TypeInv
<1>5. ~Pending(held[t])
  BY <1>1 DEF Pending, RInv, IInv, HoldersLock
<1>6. Stays(t) /\ ~RemoveUnlink(t)
  BY <1>1 DEF Stays, Looks, Phase, Asked, Answered, RemoveUnlink, Starts
<1>7. CASE Linked(t)
  <2>1. PICK k \in Keys : bucket[k] = held[t]
    BY <1>7 DEF Linked
  <2>2. Stores(k, log[t]) /\ Stored(k) # NoValue
    BY <1>1, <1>2, <1>3, <1>4, <1>5, <2>1, NamesAssumption DEF Stores, Stored, RInv, IInv, TypeInv, Allocated
  <2>3. Phase(t) = "cursor"
    BY <1>1 DEF Phase
  <2>4. /\ [u \in Threads |-> Phase(u)]' = [u \in Threads |-> Phase(u)]
        /\ [u \in Threads |-> Asked(u)]' = [u \in Threads |-> Asked(u)]
        /\ [u \in Threads |-> Answered(u)]' = [u \in Threads |-> Answered(u)]
    <3>1. \A u \in Threads : Phase(u)' = Phase(u) /\ Asked(u)' = Asked(u) /\ Answered(u)' = Answered(u)
      BY <1>6, OthersStay DEF Stays, Looks
    <3> QED
      BY <3>1
  <2>5. [j \in Keys |-> Stored(j)]' = [[j \in Keys |-> Stored(j)] EXCEPT ![k] = log[t]]
    BY <2>2, StoreOf
  <2>6. Abstract!Update(t)
    BY <1>1, <2>2, <2>3, <2>4, <2>5 DEF Abstract!Update
  <2> QED
    BY <2>6, CallStepOf DEF Abstract!CallStep
<1>8. CASE ~Linked(t)
  <2>1. Lasts
    BY <1>1, <1>3, <1>4, <1>8 DEF Lasts, Stored, Linked, RInv, IInv, TypeInv
  <2> QED
    BY <1>6, <2>1, SilentStutters DEF AbstractStep
<1> QED
  BY <1>7, <1>8

\* A put that only finds its element is not seen yet; one that gets no memory fails.
LEMMA PutOldRefines ==
  ASSUME RInv, NEW t \in Threads, PutOld(t), Step(t)
  PROVE  AbstractStep
<1>1. /\ pc[t] = "start" /\ pc'[t] = "assign" /\ call' = call /\ seen' = seen /\ held'[t] = bucket[call[t].key]
      /\ call[t] \in KeyedCalls /\ call[t].op = "put" /\ call[t].key \in Keys /\ UNCHANGED <<bucket, value, undo>>
  BY CallFields DEF PutOld, Starts, Target, Goto, content, RInv, IInv, TypeInv, CallsFit
<1>2. Lasts /\ ~RemoveUnlink(t)
  BY <1>1, ContentStays DEF RemoveUnlink, Starts
<1>3. Stays(t)
  BY <1>1 DEF Stays, Looks, Phase, Linked, Asked, Answered
<1> QED
  BY <1>2, <1>3, SilentStutters DEF AbstractStep

LEMMA PutRefusedRefines ==
  ASSUME RInv, NEW t \in Threads, PutRefused(t), Step(t)
  PROVE  AbstractStep
<1>1. /\ pc[t] = "start" /\ pc'[t] = "return" /\ call' = call /\ seen' = seen
      /\ call[t] \in KeyedCalls /\ call[t].op = "put" /\ UNCHANGED <<bucket, value, undo>>
  BY DEF PutRefused, Starts, Goto, content, RInv, IInv, TypeInv, CallsFit
<1>2. Lasts /\ ~RemoveUnlink(t)
  BY <1>1, ContentStays DEF RemoveUnlink, Starts
<1>3. Phase(t) = "called" /\ Looks(t, "done", Asked(t), Answered(t))
  BY <1>1 DEF Looks, Phase, Asked, Answered
<1> QED
  BY <1>1, <1>2, <1>3, PutIsFailure, CallStepOf DEF Abstract!CallStep

\* A new record is stored at once by cmap, and shown by vcmap only when it is filled.
LEMMA PutNewRefines ==
  ASSUME RInv, NEW t \in Threads, PutNew(t), Step(t)
  PROVE  AbstractStep
<1>1. /\ pc[t] = "start" /\ call' = call /\ seen' = seen /\ undo' = undo /\ engine' = engine
      /\ call[t] \in KeyedCalls /\ call[t].op = "put" /\ call[t].key \in Keys /\ call[t].value \in Values
      /\ bucket[call[t].key] = NoElement
  BY CallFields DEF PutNew, Starts, Target, RInv, IInv, CallsFit
<1>2. PICK e \in Elements \ live :
        /\ bucket' = [bucket EXCEPT ![call[t].key] = e]
        /\ IF engine = "cmap"
           THEN value' = [value EXCEPT ![e] = call[t].value] /\ pc' = [pc EXCEPT ![t] = "return"] /\ held' = held
           ELSE value' = [value EXCEPT ![e] = Empty] /\ pc' = [pc EXCEPT ![t] = "fill"] /\ held' = [held EXCEPT ![t] = e]
  BY DEF PutNew, NextFree, Goto
<1>3. Phase(t) = "called" /\ ~RemoveUnlink(t)
  BY <1>1 DEF Phase, RemoveUnlink, Starts
<1>4. e # NoElement /\ \A j \in Keys : bucket[j] # e
  BY NamesAssumption DEF RInv, IInv, Allocated
<1>5. CASE engine = "cmap"
  <2>1. /\ bucket' = [bucket EXCEPT ![call[t].key] = e] /\ value' = [value EXCEPT ![e] = call[t].value]
        /\ pc' = [pc EXCEPT ![t] = "return"]
    BY <1>2, <1>5
  <2>2. \A x \in Elements : ~Pending(x) /\ ~Pending(x)'
    BY <1>5, <2>1 DEF Pending, RInv, IInv, TypeInv, Fixed
  <2>3. Stores(call[t].key, call[t].value)
    <3>1. \A j \in Keys : j # call[t].key => bucket'[j] = bucket[j] /\ bucket[j] # e
      BY <1>4, <2>1 DEF RInv, IInv, TypeInv
    <3>2. bucket'[call[t].key] = e /\ value'[e] = call[t].value /\ \A x \in Elements : x # e => value'[x] = value[x]
      BY <1>1, <2>1 DEF RInv, IInv, TypeInv
    <3> QED
      BY <1>1, <1>4, <2>2, <3>1, <3>2, NamesAssumption DEF Stores, Stored, Durable, RInv, IInv, TypeInv
  <2>4. Looks(t, "done", Asked(t), Answered(t))
    BY <1>1, <2>1 DEF Looks, Phase, Asked, Answered, RInv, IInv, TypeInv
  <2> QED
    BY <1>1, <1>3, <2>3, <2>4, PutIsEffect, CallStepOf DEF Abstract!CallStep
<1>6. CASE engine # "cmap"
  <2>1. /\ bucket' = [bucket EXCEPT ![call[t].key] = e] /\ value' = [value EXCEPT ![e] = Empty]
        /\ pc' = [pc EXCEPT ![t] = "fill"] /\ held' = [held EXCEPT ![t] = e]
    BY <1>2, <1>6
  <2>2. bucket'[call[t].key] = e /\ pc'[t] = "fill" /\ held'[t] = e
    BY <1>1, <2>1 DEF RInv, IInv, TypeInv
  <2>3. Pending(e)' /\ \A x \in Elements : x # e => Pending(x)' = Pending(x)
    BY <1>1, <2>1, <2>2 DEF Pending, RInv, IInv, TypeInv
  <2>4. Lasts
    <3>1. ASSUME NEW j \in Keys, j = call[t].key PROVE Stored(j)' = Stored(j)
      BY <1>1, <2>2, <2>3, <3>1 DEF Stored
    <3>2. \A j \in Keys : j # call[t].key => bucket'[j] = bucket[j] /\ bucket[j] # e
      BY <1>4, <2>1 DEF RInv, IInv, TypeInv
    <3>3. \A x \in Elements : x # e => Durable(x)' = Durable(x)
      BY <1>1, <2>1 DEF Durable, RInv, IInv, TypeInv
    <3>4. ASSUME NEW j \in Keys, j # call[t].key PROVE Stored(j)' = Stored(j)
      <4>1. bucket'[j] = bucket[j] /\ bucket[j] # e /\ bucket[j] \in Elements \cup {NoElement}
        BY <3>2, <3>4 DEF RInv, IInv, TypeInv
      <4> QED
        BY <2>3, <3>3, <4>1 DEF Stored
    <3> QED
      BY <3>1, <3>4 DEF Lasts
  <2>5. Stays(t)
    BY <1>1, <1>3, <2>2 DEF Stays, Looks, Phase, Linked, Asked, Answered
  <2> QED
    BY <1>3, <2>4, <2>5, SilentStutters DEF AbstractStep
<1> QED
  BY <1>5, <1>6

\* The assignment of a put stores its value, or fails and leaves the old or the
\* empty one; if a remove has unlinked the element, nobody sees it.
LEMMA PutAssignRefines ==
  ASSUME RInv, NEW t \in Threads, PutAssign(t), Step(t)
  PROVE  AbstractStep
<1>1. /\ pc[t] \in {"fill", "assign"} /\ pc'[t] = "return" /\ call' = call /\ seen' = seen /\ bucket' = bucket
      /\ undo' = undo /\ engine' = engine
      /\ call[t] \in KeyedCalls /\ call[t].op = "put" /\ call[t].key \in Keys /\ call[t].value \in Values
      /\ held[t] \in Elements /\ held[t] \in live /\ writer[held[t]] = t
  BY CallFields DEF PutAssign, Goto, RInv, IInv, TypeInv, CallsFit, HoldersLock, Allocated
<1>2. PICK v \in {call[t].value, value[held[t]]} : value' = [value EXCEPT ![held[t]] = v]
  BY DEF PutAssign
<1>3. ~RemoveUnlink(t) /\ Looks(t, "done", Asked(t), Answered(t))
  BY <1>1 DEF RemoveUnlink, Starts, Looks, Phase, Asked, Answered
<1>4. value[held[t]] \in Known /\ v \in Known
  BY <1>1, <1>2 DEF RInv, IInv, ValuesGood, Known
<1>5. \A e \in Elements : Durable(e)' = IF e = held[t] THEN v ELSE Durable(e)
  BY <1>1, <1>2, <1>4, NamesAssumption DEF Durable, Known, RInv, IInv, TypeInv
<1>6. Durable(held[t]) = value[held[t]]
  BY <1>4, NamesAssumption DEF Durable, Known
<1>7. \A e \in Elements : Pending(e)' = (Pending(e) /\ e # held[t])
  <2>1. pc'[t] # "fill" /\ \A u \in Threads : u # t => held'[u] = held[u] /\ pc'[u] = pc[u]
    BY <1>1, OthersKeep
  <2>2. \A u \in Threads : u # t => ~(pc[u] = "fill" /\ held[u] = held[t])
    BY <1>1 DEF RInv, IInv, HoldersLock
  <2> QED
    BY <2>1, <2>2 DEF Pending
<1>8. CASE ~Linked(t)
  <2>1. Lasts
    BY <1>1, <1>5, <1>7, <1>8 DEF Lasts, Stored, Linked, RInv, IInv, TypeInv
  <2>2. Phase(t) = "done"
    BY <1>1, <1>8 DEF Phase
  <2> QED
    BY <1>3, <2>1, <2>2, SilentStutters DEF Stays, AbstractStep
<1>9. CASE Linked(t)
  <2>1. Phase(t) = "called"
    BY <1>1, <1>9 DEF Phase
  <2>2. bucket[call[t].key] = held[t] /\ \A j \in Keys : bucket[j] = held[t] => j = call[t].key
    BY <1>1, <1>9 DEF Linked, RInv, Fixed
  <2>3. Stores(call[t].key, v)
    BY <1>1, <1>5, <1>7, <2>2, NamesAssumption DEF Stores, Stored, RInv, IInv, TypeInv
  <2>4. CASE v = call[t].value
    BY <1>1, <1>3, <2>1, <2>3, <2>4, PutIsEffect, CallStepOf DEF Abstract!CallStep
  <2>5. CASE v = value[held[t]] /\ pc[t] = "assign"
    <3>1. ~Pending(held[t])
      BY <1>1, <2>5 DEF Pending, RInv, IInv, HoldersLock
    <3>2. Stored(call[t].key) = v
      BY <1>1, <1>6, <2>2, <2>5, <3>1, NamesAssumption DEF Stored
    <3>3. Lasts
      BY <2>3, <3>2 DEF Lasts, Stores
    <3> QED
      BY <1>1, <1>3, <2>1, <3>3, PutIsFailure, CallStepOf DEF Abstract!CallStep
  <2>6. CASE v = value[held[t]] /\ pc[t] = "fill"
    <3>1. v = Empty /\ engine = "vcmap"
      BY <1>1, <2>6 DEF RInv, Fixed
    <3>2. Stored(call[t].key) = NoValue
      BY <1>1, <2>2, <2>6 DEF Stored, Pending
    <3>3. Asked(t).op = "put" /\ Asked(t).key = call[t].key
      BY <1>1, AskedOf
    <3>4. [j \in Keys |-> Stored(j)]' = [[j \in Keys |-> Stored(j)] EXCEPT ![call[t].key] = Empty]
      BY <1>1, <2>3, <3>1, StoreOf
    <3>5. Abstract!FailureLeavesEmpty(t)
      BY <1>1, <1>3, <2>1, <3>2, <3>3, <3>4, PhaseOf DEF Abstract!FailureLeavesEmpty
    <3> QED
      BY <1>1, <3>1, <3>5 DEF AbstractStep, Abstract!HashMapNext
  <2> QED
    BY <1>1, <1>2, <2>4, <2>5, <2>6
<1> QED
  BY <1>8, <1>9

\* The element a remove frees is linked nowhere.
LEMMA RemoveDeleteRefines ==
  ASSUME RInv, NEW t \in Threads, RemoveDelete(t), Step(t)
  PROVE  AbstractStep
<1>1. /\ pc[t] = "delete" /\ pc'[t] = "return" /\ call' = call /\ seen' = seen /\ bucket' = bucket /\ undo' = undo
      /\ call[t] \in KeyedCalls /\ call[t].op = "remove" /\ held[t] \in Elements
      /\ \A k \in Keys : bucket[k] # held[t]
  BY DEF RemoveDelete, Goto, RInv, IInv, TypeInv, Fixed, HoldersLock, Allocated
<1>2. \A e \in Elements : e # held[t] => Durable(e)' = Durable(e)
  BY <1>1 DEF RemoveDelete, Durable, RInv, IInv, TypeInv
<1>3. \A e \in Elements : Pending(e)' = Pending(e)
  <2>1. \A u \in Threads : u # t => pc'[u] = pc[u] /\ held'[u] = held[u]
    BY OthersKeep
  <2> QED
    BY <1>1, <2>1 DEF Pending
<1>4. Lasts
  BY <1>1, <1>2, <1>3 DEF Lasts, Stored, RInv, IInv, TypeInv
<1>5. Stays(t) /\ ~RemoveUnlink(t)
  BY <1>1 DEF Stays, Looks, Phase, Asked, Answered, RemoveUnlink, Starts
<1> QED
  BY <1>4, <1>5, SilentStutters DEF AbstractStep

\* A remove takes effect when it unlinks the element, together with a put that
\* is about to assign to it.
LEMMA RemoveUnlinkRefines ==
  ASSUME RInv, NEW t \in Threads, RemoveUnlink(t), Step(t)
  PROVE  AbstractStep
<1> DEFINE key == call[t].key
           e == bucket[key]
<1>1. /\ pc[t] = "start" /\ pc'[t] \in {"return", "delete"} /\ call' = call /\ seen' = seen /\ UNCHANGED <<engine, value, undo>>
      /\ call[t] \in KeyedCalls /\ call[t].op = "remove" /\ key \in Keys
      /\ bucket' = [bucket EXCEPT ![key] = NoElement]
  BY CallFields DEF RemoveUnlink, Starts, Target, Goto, RInv, IInv, TypeInv, CallsFit
<1>2. \A u \in Threads : u # t => pc'[u] = pc[u] /\ held'[u] = held[u]
  BY OthersKeep
<1>3. Stores(key, NoValue)
  <2>1. \A x \in Elements : Pending(x)' = Pending(x)
    BY <1>1, <1>2 DEF Pending
  <2>2. \A j \in Keys : j # key => bucket'[j] = bucket[j]
    BY <1>1 DEF RInv, IInv, TypeInv
  <2>3. bucket'[key] = NoElement
    BY <1>1 DEF RInv, IInv, TypeInv
  <2> QED
    BY <1>1, <2>1, <2>2, <2>3 DEF Stores, Stored, Durable, RInv, IInv, TypeInv
<1>4. Phase(t) = "called" /\ Looks(t, "done", Asked(t), Answered(t))
  BY <1>1 DEF Phase, Looks, Asked, Answered
<1>5. Asked(t).op = "remove" /\ Asked(t).key = key
  BY <1>1, AskedOf
<1>6. [j \in Keys |-> Stored(j)]' = [[j \in Keys |-> Stored(j)] EXCEPT ![key] = NoValue]
  BY <1>1, <1>3, StoreOf
<1>7. \A u \in Threads : Asked(u)' = Asked(u) /\ Answered(u)' = Answered(u)
  BY <1>1 DEF Asked, Answered
<1>8. ASSUME NEW u \in Threads, u # t, ~(pc[u] \in {"fill", "assign"} /\ held[u] = e) PROVE Phase(u)' = Phase(u)
  <2>1. pc[u] \in {"fill", "assign"} => Linked(u)' = Linked(u)
    BY <1>1, <1>2, <1>8 DEF Linked, RInv, IInv, TypeInv, HoldersLock
  <2> QED
    BY <1>1, <1>2, <1>8, <2>1 DEF Phase
<1>9. CASE \E u \in Threads : pc[u] \in {"fill", "assign"} /\ held[u] = e
  <2>1. PICK u \in Threads : pc[u] \in {"fill", "assign"} /\ held[u] = e
    BY <1>9
  <2>2. u # t /\ e \in Elements /\ writer[e] = u
    BY <1>1, <2>1 DEF RInv, IInv, TypeInv, HoldersLock
  <2>3. engine = "vcmap"
    BY <1>1, <2>2, NamesAssumption DEF RemoveUnlink, Target, Erasable, RInv, IInv, TypeInv
  <2>4. Phase(u) = "called" /\ Phase(u)' = "done"
    <3>1. call[u] \in KeyedCalls /\ call[u].op = "put"
      BY <2>1 DEF RInv, IInv, CallsFit
    <3>2. Linked(u) /\ ~Linked(u)'
      BY <1>1, <1>2, <2>1, <2>2, NamesAssumption DEF Linked, RInv, IInv, TypeInv, Allocated
    <3> QED
      BY <1>1, <1>2, <2>1, <2>2, <3>1, <3>2 DEF Phase
  <2>5. Asked(u).op = "put" /\ Asked(u).key = key
    <3>1. call[u] \in KeyedCalls /\ call[u].op = "put" /\ call[u].key = key
      BY <1>1, <2>1 DEF RInv, IInv, CallsFit, Fixed
    <3> QED
      BY <3>1, AskedOf
  <2>6. \A w \in Threads : w # t /\ w # u => Phase(w)' = Phase(w)
    BY <1>8, <2>1, <2>2 DEF RInv, IInv, HoldersLock
  <2>7. [w \in Threads |-> Phase(w)]' = [[w \in Threads |-> Phase(w)] EXCEPT ![u] = "done", ![t] = "done"]
    BY <1>4, <2>2, <2>4, <2>6 DEF Looks
  <2>8. Abstract!Overtaken(u, t)
    BY <1>1, <1>4, <1>5, <1>6, <1>7, <2>4, <2>5, <2>7 DEF Abstract!Overtaken
  <2> QED
    BY <1>1, <2>3, <2>8 DEF AbstractStep, Abstract!HashMapNext
<1>10. CASE ~\E u \in Threads : pc[u] \in {"fill", "assign"} /\ held[u] = e
  <2>1. [w \in Threads |-> Phase(w)]' = [[w \in Threads |-> Phase(w)] EXCEPT ![t] = "done"]
    BY <1>4, <1>8, <1>10 DEF Looks
  <2>2. Abstract!Effect(t)
    BY <1>1, <1>4, <1>5, <1>6, <1>7, <2>1 DEF Abstract!Effect
  <2> QED
    BY <2>2, CallStepOf DEF Abstract!CallStep
<1> QED
  BY <1>9, <1>10

\* A crash keeps what lasts, and nothing else.
LEMMA CrashRefines ==
  ASSUME RInv, Crash
  PROVE  Fixed' /\ AbstractStep
<1>1. \A e \in Elements : ~Pending(e) /\ ~Pending(e)'
  BY DEF Crash, Pending, RInv, Fixed
<1>2. \A k \in Keys : Stored(k)' = Stored(k)
  BY <1>1, NamesAssumption DEF Crash, Stored, Durable, RInv, IInv, TypeInv, Allocated, ValuesGood, Known
<1>3. \A u \in Threads : Phase(u)' = "idle" /\ Asked(u)' = [op |-> "none"] /\ Answered(u)' = NoValue
  BY CallFields DEF Crash, Phase, Asked, Answered
<1>4. engine = "cmap" /\ engine' = engine
  BY DEF Crash
<1>5. Abstract!Crash
  BY <1>2, <1>3 DEF Abstract!Crash, Abstract!NoRequest
<1>6. Fixed'
  BY CallFields DEF Crash, Fixed
<1> QED
  BY <1>4, <1>5, <1>6 DEF AbstractStep, Abstract!HashMapNext

\* Whatever a thread does is a step of ConcurrentHashMap, or cannot be seen there.
LEMMA StepRefines ==
  ASSUME RInv, NEW t \in Threads, Step(t)
  PROVE  AbstractStep
BY BeginRefines, GetRefines, ExistsRefines, PutNewRefines, PutOldRefines, PutRefusedRefines, PutAssignRefines,
   RemoveUnlinkRefines, RemoveDeleteRefines, ReturnRefines, SilentCalls, CommitStartRefines, CommitEndRefines,
   IterDeleteRefines DEF Step

\* For any number of threads, keys, values and elements, with failing puts and, for
\* cmap, crashes: every put, remove, get, exists and iterator commit of the hash
\* maps takes effect at one moment (cmap.cc, basic_vcmap.h).
THEOREM HashMapsImplementConcurrentHashMap == Spec => ImplementsConcurrentHashMap
<1>1. Init => RInv /\ Abstract!HashMapInit
  <2> SUFFICES ASSUME Init PROVE RInv /\ Abstract!HashMapInit
    OBVIOUS
  <2>1. RInv
    BY InitInv, CallFields DEF Init, RInv, Fixed
  <2>2. \A k \in Keys : Stored(k) = NoValue
    BY DEF Init, Stored
  <2>3. \A u \in Threads : Phase(u) = "idle" /\ Asked(u) = [op |-> "none"] /\ Answered(u) = NoValue
    BY CallFields DEF Init, Phase, Asked, Answered
  <2> QED
    BY <2>1, <2>2, <2>3 DEF Abstract!HashMapInit, Abstract!Init, Abstract!NoRequest
<1>2. RInv /\ [Next]_vars => RInv' /\ AbstractStep
  <2> SUFFICES ASSUME RInv, [Next]_vars PROVE RInv' /\ AbstractStep
    OBVIOUS
  <2>1. IInv'
    BY NextInv DEF RInv
  <2>2. ASSUME NEW t \in Threads, Step(t) PROVE Fixed' /\ AbstractStep
    BY <2>2, FixedStep, StepRefines
  <2>3. ASSUME Crash PROVE Fixed' /\ AbstractStep
    BY <2>3, CrashRefines
  <2>4. ASSUME UNCHANGED vars PROVE Fixed' /\ AbstractStep
    <3>1. Fixed'
      BY <2>4 DEF vars, RInv, Fixed
    <3>2. UNCHANGED Abstract!concurrentVars
      BY <2>4 DEF vars, Abstract!concurrentVars, Abstract!mapVars, Stored, Pending, Durable, Phase, Linked, Asked, Answered
    <3> QED
      BY <3>1, <3>2 DEF AbstractStep
  <2> QED
    BY <2>1, <2>2, <2>3, <2>4 DEF Next, RInv
<1> QED
  BY <1>1, <1>2, PTL DEF Spec, ImplementsConcurrentHashMap, Abstract!HashMapSpec, AbstractStep
=============================================================================
