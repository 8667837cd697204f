----------------------------- MODULE HashMaps ------------------------------
(***************************************************************************)
(* The concurrent hash maps: cmap (src/src/engines/cmap.cc, cmap.h) over   *)
(* the persistent concurrent_hash_map of libpmemobj-cpp, and vcmap and     *)
(* dram_vcmap (src/src/engines/basic_vcmap.h) over the one of TBB.         *)
(*                                                                         *)
(* The containers are external and are modelled by what the engines call:  *)
(* find(const_accessor) and find(accessor) give up what the accessor holds *)
(* and wait for the lock of the element, shared or alone, and the accessor *)
(* keeps it; insert returns with the element held alone.  The erase of TBB *)
(* unlinks the element and then waits for those who still hold it; the one *)
(* of libpmemobj-cpp waits first.                                          *)
(*                                                                         *)
(* Left out: count_all and get_all, which the documentation keeps out of   *)
(* concurrent use (libpmemkv.7), and defrag, which moves memory only.  A   *)
(* thread with an open iterator calls only that iterator, and callbacks    *)
(* call nothing.                                                           *)
(***************************************************************************)
EXTENDS Integers, FiniteSets

CONSTANTS Threads, Keys, Values,
          Elements,  \* the nodes of the container, numbered; there is always a free one
          NoValue, Empty, Torn, NoKey, NoThread, NoElement

ASSUME ElementsAssumption ==
  Elements \subseteq Int /\ Cardinality(Elements) >= Cardinality(Keys) + Cardinality(Threads)
ASSUME NamesAssumption ==
  /\ NoValue \notin Values /\ Empty \notin Values \cup {NoValue} /\ Torn \notin Values \cup {NoValue, Empty}
  /\ NoKey \notin Keys /\ NoThread \notin Threads /\ NoElement \notin Elements

VARIABLES
  engine,            \* which of the two this is; never changes
  bucket,            \* key -> the element linked under it
  live,              \* the elements that are allocated
  value,             \* element -> its value
  undo,              \* element -> what a running transaction of cmap restores
  readers, writer,   \* the lock of each element
  pc, call,          \* what each thread does next, and for which call
  held,              \* the element its accessor holds, or its erase has unlinked
  seen,              \* the value its callback or iterator was given
  log                \* what its iterator has written and not committed

vars == <<engine, bucket, live, value, undo, readers, writer, pc, call, held, seen, log>>
content == <<bucket, live, value, undo>>
locks == <<readers, writer>>

Idle == [op |-> "none"]
Calls == [op : {"get", "exists", "remove"}, key : Keys, value : {NoValue}]
         \cup [op : {"put"}, key : Keys, value : Values]
         \cup [op : {"iterator"}, key : {NoKey}, value : {NoValue}]

Init ==
  /\ engine \in {"cmap", "vcmap"}
  /\ bucket = [k \in Keys |-> NoElement] /\ live = {}
  /\ value = [e \in Elements |-> NoValue] /\ undo = [e \in Elements |-> NoValue]
  /\ readers = [e \in Elements |-> {}] /\ writer = [e \in Elements |-> NoThread]
  /\ pc = [t \in Threads |-> "idle"] /\ call = [t \in Threads |-> Idle]
  /\ held = [t \in Threads |-> NoElement]
  /\ seen = [t \in Threads |-> NoValue] /\ log = [t \in Threads |-> NoValue]

Goto(t, label) == pc' = [pc EXCEPT ![t] = label]

Begin(t, c) ==
  /\ pc[t] = "idle"
  /\ c.op = "exists" => engine = "cmap"
  /\ call' = [call EXCEPT ![t] = c]
  /\ Goto(t, IF c.op = "iterator" THEN "iter" ELSE "start")
  /\ UNCHANGED <<engine, content, locks, held, seen, log>>

Starts(t, op) == pc[t] = "start" /\ call[t].op = op
\* The element the container finds for the key of the call, or NoElement.
Target(t) == bucket[call[t].key]
\* What is left of the value of element e if the process ends now.
Durable(e) == IF value[e] = Torn THEN undo[e] ELSE value[e]

Share(t, e) ==
  /\ writer[e] = NoThread
  /\ readers' = [readers EXCEPT ![e] = @ \cup {t}]
  /\ UNCHANGED writer
\* accessor: alone; what it held before is given up.
Own(t, e) ==
  /\ writer[e] = NoThread /\ readers[e] = {}
  /\ writer' = [x \in Elements |-> IF x = e THEN t ELSE IF writer[x] = t THEN NoThread ELSE writer[x]]
  /\ UNCHANGED readers
Release(t) ==
  /\ readers' = [e \in Elements |-> readers[e] \ {t}]
  /\ writer' = [e \in Elements |-> IF writer[e] = t THEN NoThread ELSE writer[e]]
  /\ held' = [held EXCEPT ![t] = NoElement]

\* Mutant of ShareFound: the accessor is gone when the callback runs.
PeekFound(t) == UNCHANGED locks
\* const_accessor result; find(result, key)
ShareFound(t) == Share(t, Target(t))

\* get; the exists of vcmap is a get whose callback does nothing.
Get(t) ==
  /\ Starts(t, "get")
  /\ IF Target(t) = NoElement
     THEN Goto(t, "return") /\ UNCHANGED <<locks, held, seen>>
     ELSE /\ ShareFound(t)
          /\ held' = [held EXCEPT ![t] = Target(t)]
          /\ seen' = [seen EXCEPT ![t] = value[Target(t)]]
          /\ Goto(t, "callback")
  /\ UNCHANGED <<engine, content, call, log>>

GetReturn(t) ==
  /\ pc[t] = "callback"
  /\ Release(t)
  /\ Goto(t, "return")
  /\ UNCHANGED <<engine, content, call, seen, log>>

\* exists of cmap counts, without a lock: what it finds may be changing.
Exists(t) ==
  /\ Starts(t, "exists")
  /\ seen' = [seen EXCEPT ![t] = IF Target(t) = NoElement THEN NoValue ELSE Durable(Target(t))]
  /\ Goto(t, "return")
  /\ UNCHANGED <<engine, content, locks, call, held, log>>

\* The node that is allocated next; which one is of no matter.
NextFree == {e \in Elements \ live : \A f \in Elements \ live : e <= f}

\* put of a new key: cmap inserts it with its value, vcmap inserts an empty one and keeps it locked.
PutNew(t) ==
  /\ Starts(t, "put") /\ Target(t) = NoElement
  /\ \E e \in NextFree :
       /\ live' = live \cup {e}
       /\ bucket' = [bucket EXCEPT ![call[t].key] = e]
       /\ IF engine = "cmap"
          THEN /\ value' = [value EXCEPT ![e] = call[t].value]
               /\ Goto(t, "return")
               /\ UNCHANGED <<locks, held>>
          ELSE /\ value' = [value EXCEPT ![e] = Empty]
               /\ Own(t, e)
               /\ held' = [held EXCEPT ![t] = e]
               /\ Goto(t, "fill")
  /\ UNCHANGED <<engine, undo, call, seen, log>>

\* put of a key that is there waits for its element.
PutOld(t) ==
  /\ Starts(t, "put") /\ Target(t) # NoElement
  /\ Own(t, Target(t))
  /\ held' = [held EXCEPT ![t] = Target(t)]
  /\ Goto(t, "assign")
  /\ UNCHANGED <<engine, content, call, seen, log>>

\* There is no memory for the element.
PutRefused(t) ==
  /\ Starts(t, "put") /\ Target(t) = NoElement
  /\ Goto(t, "return")
  /\ UNCHANGED <<engine, content, locks, call, held, seen, log>>

\* The assignment, a transaction in cmap; or it fails and changes nothing.
PutAssign(t) ==
  /\ pc[t] \in {"fill", "assign"}
  /\ \E v \in {call[t].value, value[held[t]]} : value' = [value EXCEPT ![held[t]] = v]
  /\ Release(t)
  /\ Goto(t, "return")
  /\ UNCHANGED <<engine, bucket, live, undo, call, seen, log>>

Erasable(e) == engine = "cmap" => readers[e] = {} /\ writer[e] = NoThread

RemoveUnlink(t) ==
  /\ Starts(t, "remove")
  /\ IF Target(t) = NoElement
     THEN Goto(t, "return") /\ UNCHANGED <<bucket, held>>
     ELSE /\ Erasable(Target(t))
          /\ bucket' = [bucket EXCEPT ![call[t].key] = NoElement]
          /\ held' = [held EXCEPT ![t] = Target(t)]
          /\ Goto(t, "delete")
  /\ UNCHANGED <<engine, live, value, undo, locks, call, seen, log>>

\* The element is freed; in cmap the transaction that unlinked it ends.
RemoveDelete(t) ==
  /\ pc[t] = "delete"
  /\ readers[held[t]] = {} /\ writer[held[t]] = NoThread
  /\ live' = live \ {held[t]}
  /\ value' = [value EXCEPT ![held[t]] = NoValue]
  /\ held' = [held EXCEPT ![t] = NoElement]
  /\ Goto(t, "return")
  /\ UNCHANGED <<engine, bucket, undo, locks, call, seen, log>>

Return(t) ==
  /\ pc[t] = "return"
  /\ call' = [call EXCEPT ![t] = Idle] /\ seen' = [seen EXCEPT ![t] = NoValue]
  /\ Goto(t, "idle")
  /\ UNCHANGED <<engine, content, locks, held, log>>

\* Mutant of SeekBegin: the element is given up only when the next one is held.
SeekHolds(t) == UNCHANGED <<locks, held>>
\* find(acc_, key) releases acc_ first.
SeekBegin(t) == Release(t)

\* seek: init_seek drops the write log.
Seek(t, k) ==
  /\ pc[t] = "iter"
  /\ SeekBegin(t)
  /\ call' = [call EXCEPT ![t].key = k]
  /\ log' = [log EXCEPT ![t] = NoValue] /\ seen' = [seen EXCEPT ![t] = NoValue]
  /\ Goto(t, "seek")
  /\ UNCHANGED <<engine, content>>

\* The element is locked alone, even by an iterator that only reads.
SeekFind(t) ==
  /\ pc[t] = "seek"
  /\ IF Target(t) = NoElement
     THEN Release(t) /\ UNCHANGED seen
     ELSE /\ Own(t, Target(t))
          /\ held' = [held EXCEPT ![t] = Target(t)]
          /\ seen' = [seen EXCEPT ![t] = value[Target(t)]]
  /\ call' = [call EXCEPT ![t].key = NoKey]
  /\ Goto(t, "iter")
  /\ UNCHANGED <<engine, content, log>>

\* write_range hands out a copy of some bytes of the value, which the program fills.
WriteRange(t) ==
  /\ pc[t] = "iter" /\ held[t] # NoElement /\ value[held[t]] # Empty
  /\ \E v \in Values : log' = [log EXCEPT ![t] = v]
  /\ UNCHANGED <<engine, content, locks, pc, call, held, seen>>

Abort(t) ==
  /\ pc[t] = "iter" /\ log[t] # NoValue
  /\ log' = [log EXCEPT ![t] = NoValue]
  /\ UNCHANGED <<engine, content, locks, pc, call, held, seen>>

\* Mutant of Snapshot: the bytes are changed outside of a transaction.
NoSnapshot(e) == UNCHANGED undo
Snapshot(e) == undo' = [undo EXCEPT ![e] = value[e]]

\* commit copies the log into the value; in cmap inside a transaction.
CommitStart(t) ==
  /\ pc[t] = "iter" /\ log[t] # NoValue
  /\ Snapshot(held[t])
  /\ value' = [value EXCEPT ![held[t]] = Torn]
  /\ Goto(t, "commit")
  /\ UNCHANGED <<engine, bucket, live, locks, call, held, seen, log>>

CommitEnd(t) ==
  /\ pc[t] = "commit"
  /\ value' = [value EXCEPT ![held[t]] = log[t]]
  /\ undo' = [undo EXCEPT ![held[t]] = NoValue]
  /\ seen' = [seen EXCEPT ![t] = log[t]] /\ log' = [log EXCEPT ![t] = NoValue]
  /\ Goto(t, "iter")
  /\ UNCHANGED <<engine, bucket, live, locks, call, held>>

IterDelete(t) ==
  /\ pc[t] = "iter"
  /\ Release(t)
  /\ call' = [call EXCEPT ![t] = Idle]
  /\ log' = [log EXCEPT ![t] = NoValue] /\ seen' = [seen EXCEPT ![t] = NoValue]
  /\ Goto(t, "idle")
  /\ UNCHANGED <<engine, content>>

\* The process ends at any point and Recover finds the container again: transactions are rolled back or done.
Crash ==
  /\ engine = "cmap"
  /\ live' = {e \in Elements : \E k \in Keys : bucket[k] = e}
  /\ value' = [e \in Elements |-> IF e \in live' THEN Durable(e) ELSE NoValue]
  /\ undo' = [e \in Elements |-> NoValue]
  /\ readers' = [e \in Elements |-> {}] /\ writer' = [e \in Elements |-> NoThread]
  /\ pc' = [t \in Threads |-> "idle"] /\ call' = [t \in Threads |-> Idle]
  /\ held' = [t \in Threads |-> NoElement]
  /\ seen' = [t \in Threads |-> NoValue] /\ log' = [t \in Threads |-> NoValue]
  /\ UNCHANGED <<engine, bucket>>

Step(t) ==
  \/ \E c \in Calls : Begin(t, c)
  \/ Get(t) \/ GetReturn(t) \/ Exists(t)
  \/ PutNew(t) \/ PutOld(t) \/ PutRefused(t) \/ PutAssign(t)
  \/ RemoveUnlink(t) \/ RemoveDelete(t)
  \/ Return(t)
  \/ \E k \in Keys : Seek(t, k)
  \/ SeekFind(t) \/ WriteRange(t) \/ Abort(t) \/ CommitStart(t) \/ CommitEnd(t) \/ IterDelete(t)

Next == Crash \/ \E t \in Threads : Step(t)

Spec == Init /\ [][Next]_vars

-----------------------------------------------------------------------------
(* Properties *)

TypeOK ==
  /\ engine \in {"cmap", "vcmap"}
  /\ bucket \in [Keys -> Elements \cup {NoElement}] /\ live \subseteq Elements
  /\ value \in [Elements -> Values \cup {NoValue, Empty, Torn}]
  /\ undo \in [Elements -> Values \cup {NoValue, Empty}]
  /\ readers \in [Elements -> SUBSET Threads] /\ writer \in [Elements -> Threads \cup {NoThread}]
  /\ pc \in [Threads -> {"idle", "start", "callback", "fill", "assign", "delete", "return", "iter", "seek", "commit"}]
  /\ \A t \in Threads : call[t] \in Calls \cup {Idle} \/ (pc[t] = "seek" /\ call[t].op = "iterator" /\ call[t].key \in Keys)
  /\ held \in [Threads -> Elements \cup {NoElement}]
  /\ seen \in [Threads -> Values \cup {NoValue, Empty}] /\ log \in [Threads -> Values \cup {NoValue}]

\* What a callback of get was given, and what an iterator stands on, is neither freed, torn nor changed under it
\* by another thread (cmap.cc:63-71 and 150-176, basic_vcmap.h:129-139 and 236-265).
HeldIsStable ==
  \A t \in Threads :
    (pc[t] \in {"callback", "iter"} /\ held[t] # NoElement) =>
      /\ held[t] \in live
      /\ value[held[t]] = seen[t]
      /\ seen[t] \in Values \cup {Empty}

\* Thread t waits for an element that thread u holds.
WaitsFor(t, u) ==
  LET blocks(e, alone) == writer[e] = u \/ (alone /\ u \in readers[e])
  IN  \/ pc[t] \in {"start", "seek"} /\ Target(t) # NoElement /\
           blocks(Target(t), call[t].op \in {"put", "iterator"} \/ (call[t].op = "remove" /\ engine = "cmap"))
      \/ pc[t] = "delete" /\ blocks(held[t], TRUE)

\* No threads wait for each other's elements in a circle: a thread that waits for one holds none
\* (cmap.cc:150-158, basic_vcmap.h:236-244, one accessor for all positions of an iterator).
NoCircularWait ==
  \A S \in SUBSET Threads : S # {} => \E t \in S : \A u \in S : ~WaitsFor(t, u)

\* Nobody has assigned to e yet: a put of vcmap has linked it empty and still holds it.
Pending(e) == \E t \in Threads : pc[t] = "fill" /\ held[t] = e

Linked(t) == \E k \in Keys : bucket[k] = held[t]

\* Where each call is, seen from outside.  A put whose element is unlinked has been overtaken by a remove.
Phase(t) ==
  IF pc[t] = "idle" THEN "idle"
  ELSE IF call[t].op = "iterator" THEN "cursor"
  ELSE IF pc[t] = "start" \/ (pc[t] \in {"fill", "assign"} /\ Linked(t)) THEN "called"
  ELSE "done"

Stored(k) == IF bucket[k] = NoElement \/ Pending(bucket[k]) THEN NoValue ELSE Durable(bucket[k])
Asked(t) ==
  IF call[t].op \in {"none", "iterator"} THEN [op |-> "none"]
  ELSE [call[t] EXCEPT !.op = IF @ = "exists" THEN "get" ELSE @]
Answered(t) == IF call[t].op \in {"get", "exists"} THEN seen[t] ELSE NoValue

Abstract == INSTANCE ConcurrentHashMap WITH
  volatile <- engine = "vcmap",
  store    <- [k \in Keys |-> Stored(k)],
  phase    <- [t \in Threads |-> Phase(t)],
  request  <- [t \in Threads |-> Asked(t)],
  answer   <- [t \in Threads |-> Answered(t)]

\* The locks of the elements make every put, remove, get, exists and iterator commit atomic for other threads, and
\* the transactions of cmap make them atomic for crashes: the maps implement ConcurrentHashMap.
ImplementsConcurrentHashMap == Abstract!HashMapSpec
=============================================================================
