------------------------------- MODULE Csmap -------------------------------
(***************************************************************************)
(* The csmap engine: src/src/engines-experimental/csmap.cc and csmap.h.    *)
(*                                                                         *)
(* Threads share a persistent skip list (concurrent_map of libpmemobj-cpp, *)
(* external: its lookups and try_emplace are atomic, its unsafe_erase is   *)
(* not).  Two kinds of lock order them: mtx, which every call takes shared *)
(* and remove takes alone, and the mutex of each element, which a callback *)
(* holds shared and an assignment or an iterator holds alone.              *)
(*                                                                         *)
(* A value being assigned inside a transaction, or an element being        *)
(* erased, is Torn for whoever looks; a crash, or a transaction that       *)
(* fails, puts back what it was.  Callbacks call nothing, and a thread     *)
(* with an open iterator calls only that iterator.                         *)
(***************************************************************************)
EXTENDS Integers, FiniteSets

CONSTANTS Threads,
          Keys,      \* integers, in the order of the comparator
          End,       \* container->end(), after every key
          Values,
          NoValue, Torn, NoThread,
          Ranges     \* the ranges walks are called with: from the first key up to, not including, the second

ASSUME KeysAssumption == Keys \subseteq Int /\ End \in Int /\ \A k \in Keys : k < End
ASSUME NamesAssumption == NoValue \notin Values /\ Torn \notin Values \cup {NoValue} /\ NoThread \notin Threads
ASSUME RangesAssumption == Ranges \subseteq Keys \X (Keys \cup {End})

VARIABLES
  map,       \* persistent: key -> value
  undo,      \* persistent: what a running transaction restores if it does not commit
  gReaders, gWriter,   \* mtx
  nReaders, nWriter,   \* mapped_type::mtx of the element of each key
  pc,        \* what each thread does next
  call,      \* the call each thread makes
  pos,       \* the element its search, walk or iterator stands on
  last,      \* where its walk stops
  seen,      \* the value its callback or iterator was given, or its get answers
  log,       \* what its iterator has written and not committed
  reported,  \* the keys its walk has reported
  before     \* the keys of the range that were there when its walk began (for the properties)

vars == <<map, undo, gReaders, gWriter, nReaders, nWriter,
          pc, call, pos, last, seen, log, reported, before>>
data == <<map, undo>>
globals == <<gReaders, gWriter>>
nodes == <<nReaders, nWriter>>
walks == <<last, reported, before>>

Positions == Keys \cup {End}
Present == {k \in Keys : map[k] # NoValue}
InRange(c) == {k \in Keys : c.key <= k /\ k < c.to}

\* Mutant of AtOrAfter: lower_bound taken for upper_bound.
After(k) == {p \in Present \cup {End} : (k < p \/ p = End) /\ \A q \in Present : k < q => p <= q}

\* lower_bound, the only element of a set; upper_bound(k) is AtOrAfter(k + 1).
AtOrAfter(k) == {p \in Present \cup {End} : k <= p /\ \A q \in Present : k <= q => p <= q}
\* find_lower: the greatest key below k, or end().
Before(k) == {p \in Present : p < k /\ \A q \in Present : q < k => q <= p}
             \cup {p \in {End} : \A q \in Present : k <= q}

Idle == [op |-> "none", key |-> End, to |-> End, value |-> NoValue]
Calls == [op : {"get", "remove"}, key : Keys, to : {End}, value : {NoValue}]
         \cup [op : {"put"}, key : Keys, to : {End}, value : Values]
         \cup {[op |-> o, key |-> r[1], to |-> r[2], value |-> NoValue] : o \in {"walk", "count"}, r \in Ranges}
         \cup {[Idle EXCEPT !.op = "iterator"]}

Init ==
  /\ map = [k \in Keys |-> NoValue] /\ undo = [k \in Keys |-> NoValue]
  /\ gReaders = {} /\ gWriter = NoThread
  /\ nReaders = [k \in Keys |-> {}] /\ nWriter = [k \in Keys |-> NoThread]
  /\ pc = [t \in Threads |-> "idle"] /\ call = [t \in Threads |-> Idle]
  /\ pos = [t \in Threads |-> End] /\ last = [t \in Threads |-> End]
  /\ seen = [t \in Threads |-> NoValue] /\ log = [t \in Threads |-> NoValue]
  /\ reported = [t \in Threads |-> {}] /\ before = [t \in Threads |-> {}]

Goto(t, label) == pc' = [pc EXCEPT ![t] = label]

Begin(t, c) ==
  /\ pc[t] = "idle"
  /\ call' = [call EXCEPT ![t] = c]
  /\ Goto(t, IF c.op = "remove" THEN "global_alone" ELSE "global")
  /\ UNCHANGED <<data, globals, nodes, pos, walks, seen, log>>

\* shared_global_lock_type lock(mtx), by a call of one of these kinds.
ShareGlobal(t, ops) ==
  /\ pc[t] = "global" /\ call[t].op \in ops
  /\ gWriter = NoThread
  /\ gReaders' = gReaders \cup {t}
  /\ UNCHANGED gWriter

\* get and exists: the search.
GetFind(t) ==
  /\ ShareGlobal(t, {"get"})
  /\ IF call[t].key \in Present
     THEN pos' = [pos EXCEPT ![t] = call[t].key] /\ Goto(t, "share")
     ELSE UNCHANGED pos /\ Goto(t, "unlock")
  /\ UNCHANGED <<data, nodes, call, walks, seen, log>>

\* get and iterate: the mutex of the element, and the callback begins.
ShareNode(t) ==
  /\ pc[t] = "share" /\ nWriter[pos[t]] = NoThread
  /\ nReaders' = [nReaders EXCEPT ![pos[t]] = @ \cup {t}]
  /\ seen' = [seen EXCEPT ![t] = map[pos[t]]]
  /\ Goto(t, "callback")
  /\ UNCHANGED <<data, globals, nWriter, call, pos, walks, log>>

LeaveNode(t) == nReaders' = [nReaders EXCEPT ![pos[t]] = @ \ {t}] /\ UNCHANGED nWriter

GetReturn(t) ==
  /\ pc[t] = "callback" /\ call[t].op = "get"
  /\ LeaveNode(t)
  /\ Goto(t, "unlock")
  /\ UNCHANGED <<data, globals, call, pos, walks, seen, log>>

\* put: try_emplace adds the key, or finds the element to assign to.
PutEmplace(t) ==
  /\ ShareGlobal(t, {"put"})
  /\ IF call[t].key \in Present
     THEN pos' = [pos EXCEPT ![t] = call[t].key] /\ Goto(t, "own") /\ UNCHANGED map
     ELSE map' = [map EXCEPT ![call[t].key] = call[t].value] /\ Goto(t, "unlock") /\ UNCHANGED pos
  /\ UNCHANGED <<undo, nodes, call, walks, seen, log>>

\* Mutant of OwnNode: does not wait for the callbacks that read the element.
OwnNodeReaders(t) ==
  /\ pc[t] = "own" /\ nWriter[pos[t]] = NoThread
  /\ nWriter' = [nWriter EXCEPT ![pos[t]] = t]
  /\ UNCHANGED nReaders

\* The mutex of an element, alone.
OwnNode(t) ==
  /\ pc[t] = "own" /\ nWriter[pos[t]] = NoThread /\ nReaders[pos[t]] = {}
  /\ nWriter' = [nWriter EXCEPT ![pos[t]] = t]
  /\ UNCHANGED nReaders

\* Mutant of Start: changes the value without a snapshot.
StartUnlogged(k) == undo' = undo /\ map' = [map EXCEPT ![k] = Torn]

\* A transaction begins to change the value of key k, and ends.
Start(k) == undo' = [undo EXCEPT ![k] = map[k]] /\ map' = [map EXCEPT ![k] = Torn]
Finish(k, v) == map' = [map EXCEPT ![k] = v] /\ undo' = [undo EXCEPT ![k] = NoValue]

PutAssign(t) ==
  /\ OwnNode(t) /\ call[t].op = "put"
  /\ Start(pos[t])
  /\ Goto(t, "assign")
  /\ UNCHANGED <<globals, call, pos, walks, seen, log>>

\* The transaction commits, or fails and is rolled back; the element is unlocked.
PutCommit(t) ==
  /\ pc[t] = "assign"
  /\ \E v \in {call[t].value, undo[pos[t]]} : Finish(pos[t], v)
  /\ nWriter' = [nWriter EXCEPT ![pos[t]] = NoThread]
  /\ Goto(t, "unlock")
  /\ UNCHANGED <<globals, nReaders, call, pos, walks, seen, log>>

\* remove: mtx alone, and the element is erased in steps nobody may watch.
RemoveLock(t) ==
  /\ pc[t] = "global_alone" /\ gWriter = NoThread /\ gReaders = {}
  /\ gWriter' = t
  /\ IF call[t].key \in Present THEN Start(call[t].key) ELSE UNCHANGED data
  /\ Goto(t, "erase")
  /\ UNCHANGED <<gReaders, nodes, call, pos, walks, seen, log>>

RemoveErase(t) ==
  /\ pc[t] = "erase"
  /\ Finish(call[t].key, NoValue)
  /\ Goto(t, "unlock")
  /\ UNCHANGED <<globals, nodes, call, pos, walks, seen, log>>

\* get_* and count_*: the two ends of the range are looked up one after the other.
WalkFirst(t) ==
  /\ ShareGlobal(t, {"walk", "count"})
  /\ \E p \in AtOrAfter(call[t].key) : pos' = [pos EXCEPT ![t] = p]
  /\ before' = [before EXCEPT ![t] = Present \cap InRange(call[t])]
  /\ Goto(t, "last")
  /\ UNCHANGED <<data, nodes, call, last, reported, seen, log>>

WalkLast(t) ==
  /\ pc[t] = "last"
  /\ \E p \in AtOrAfter(call[t].to) : last' = [last EXCEPT ![t] = p]
  /\ Goto(t, "walk")
  /\ UNCHANGED <<data, globals, nodes, call, pos, reported, before, seen, log>>

\* it != last; only get_* takes the mutex of the element.  (There is no step for an element past the end.)
WalkTest(t) ==
  /\ pc[t] = "walk"
  /\ pos[t] # last[t] => pos[t] # End
  /\ Goto(t, IF pos[t] = last[t] THEN "unlock"
             ELSE IF call[t].op = "count" THEN "next" ELSE "share")
  /\ UNCHANGED <<data, globals, nodes, call, pos, walks, seen, log>>

\* The callback ends, the element is unlocked and ++it; or the callback stops the walk.
WalkNext(t) ==
  /\ \/ pc[t] = "callback" /\ call[t].op = "walk" /\ LeaveNode(t)
     \/ pc[t] = "next" /\ UNCHANGED nodes
  /\ reported' = [reported EXCEPT ![t] = @ \cup {pos[t]}]
  /\ seen' = [seen EXCEPT ![t] = NoValue]
  /\ \E p \in AtOrAfter(pos[t] + 1) : pos' = [pos EXCEPT ![t] = p]
  /\ Goto(t, "walk")
  /\ UNCHANGED <<data, globals, call, last, before, log>>

\* A callback that asks to stop ends get_all there; what is left is not walked (nothing is then promised).
WalkStop(t) ==
  /\ pc[t] = "callback" /\ call[t].op = "walk" /\ LeaveNode(t)
  /\ before' = [before EXCEPT ![t] = {}]
  /\ Goto(t, "unlock")
  /\ UNCHANGED <<data, globals, call, pos, last, reported, seen, log>>

\* The locks go out of scope and the call returns.
Unlock(t) ==
  /\ pc[t] = "unlock"
  /\ gReaders' = gReaders \ {t}
  /\ gWriter' = IF gWriter = t THEN NoThread ELSE gWriter
  /\ call' = [call EXCEPT ![t] = Idle] /\ pos' = [pos EXCEPT ![t] = End]
  /\ last' = [last EXCEPT ![t] = End] /\ seen' = [seen EXCEPT ![t] = NoValue]
  /\ reported' = [reported EXCEPT ![t] = {}] /\ before' = [before EXCEPT ![t] = {}]
  /\ Goto(t, "idle")
  /\ UNCHANGED <<data, nodes, log>>

\* new_iterator: the iterator keeps mtx shared for as long as it lives.
IterNew(t) ==
  /\ ShareGlobal(t, {"iterator"})
  /\ Goto(t, "iter")
  /\ UNCHANGED <<data, nodes, call, pos, walks, seen, log>>

\* Mutant of InitSeek: the element is given up only when the next one is held.
InitSeekHolds(t) ==
  /\ pc[t] = "iter"
  /\ log' = [log EXCEPT ![t] = NoValue]
  /\ seen' = [seen EXCEPT ![t] = NoValue]
  /\ UNCHANGED nodes

\* init_seek, and the write log is dropped.
InitSeek(t) ==
  /\ pc[t] = "iter"
  /\ nWriter' = [k \in Keys |-> IF k = pos[t] THEN NoThread ELSE nWriter[k]]
  /\ log' = [log EXCEPT ![t] = NoValue]
  /\ seen' = [seen EXCEPT ![t] = NoValue]
  /\ UNCHANGED nReaders

\* seek, seek_lower, seek_lower_eq, seek_higher, seek_higher_eq, next
Targets(t, k) ==
  [seek      |-> {p \in Positions : p = IF k \in Present THEN k ELSE End},
   lower     |-> Before(k),
   lower_eq  |-> Before(k + 1),
   higher    |-> AtOrAfter(k + 1),
   higher_eq |-> AtOrAfter(k),
   next      |-> IF pos[t] = End THEN {End} ELSE AtOrAfter(pos[t] + 1)]

Seek(t) ==
  /\ InitSeek(t)
  /\ \E k \in Keys : \E kind \in DOMAIN Targets(t, k) : \E p \in Targets(t, k)[kind] :
       /\ pos' = [pos EXCEPT ![t] = p]
       /\ Goto(t, IF p = End THEN "iter" ELSE "own")
  /\ UNCHANGED <<data, globals, call, walks>>

\* seek_to_first leaves the position as it was when there is nothing.
SeekToFirst(t) ==
  /\ InitSeek(t)
  /\ IF Present = {} THEN UNCHANGED <<pos, pc>>
     ELSE /\ \E p \in Present : (\A q \in Present : p <= q) /\ pos' = [pos EXCEPT ![t] = p]
          /\ Goto(t, "own")
  /\ UNCHANGED <<data, globals, call, walks>>

IterOwn(t) ==
  /\ OwnNode(t) /\ call[t].op = "iterator"
  /\ seen' = [seen EXCEPT ![t] = map[pos[t]]]
  /\ Goto(t, "iter")
  /\ UNCHANGED <<data, globals, call, pos, walks, log>>

\* write_range hands out a copy, which the program fills; abort drops it.
WriteRange(t) ==
  /\ pc[t] = "iter" /\ pos[t] # End
  /\ \E v \in Values : log' = [log EXCEPT ![t] = v]
  /\ UNCHANGED <<data, globals, nodes, pc, call, pos, walks, seen>>

Abort(t) ==
  /\ pc[t] = "iter" /\ log[t] # NoValue
  /\ log' = [log EXCEPT ![t] = NoValue]
  /\ UNCHANGED <<data, globals, nodes, pc, call, pos, walks, seen>>

CommitStart(t) ==
  /\ pc[t] = "iter" /\ log[t] # NoValue
  /\ Start(pos[t])
  /\ Goto(t, "commit")
  /\ UNCHANGED <<globals, nodes, call, pos, walks, seen, log>>

CommitEnd(t) ==
  /\ pc[t] = "commit"
  /\ Finish(pos[t], log[t])
  /\ seen' = [seen EXCEPT ![t] = log[t]]
  /\ log' = [log EXCEPT ![t] = NoValue]
  /\ Goto(t, "iter")
  /\ UNCHANGED <<globals, nodes, call, pos, walks>>

IterDelete(t) ==
  /\ InitSeek(t)
  /\ pos' = [pos EXCEPT ![t] = End]
  /\ call' = [call EXCEPT ![t] = Idle]
  /\ gReaders' = gReaders \ {t}
  /\ Goto(t, "idle")
  /\ UNCHANGED <<data, gWriter, walks>>

\* What is left of the value of k if the process ends now.
Durable(k) == IF map[k] = Torn THEN undo[k] ELSE map[k]

\* External: the process ends at any point, and Recover opens the pool again; no lock outlives it.
Crash ==
  /\ map' = [k \in Keys |-> Durable(k)]
  /\ undo' = [k \in Keys |-> NoValue]
  /\ gReaders' = {} /\ gWriter' = NoThread
  /\ nReaders' = [k \in Keys |-> {}] /\ nWriter' = [k \in Keys |-> NoThread]
  /\ pc' = [t \in Threads |-> "idle"] /\ call' = [t \in Threads |-> Idle]
  /\ pos' = [t \in Threads |-> End] /\ last' = [t \in Threads |-> End]
  /\ seen' = [t \in Threads |-> NoValue] /\ log' = [t \in Threads |-> NoValue]
  /\ reported' = [t \in Threads |-> {}] /\ before' = [t \in Threads |-> {}]

Step(t) ==
  \/ \E c \in Calls : Begin(t, c)
  \/ GetFind(t) \/ ShareNode(t) \/ GetReturn(t)
  \/ PutEmplace(t) \/ PutAssign(t) \/ PutCommit(t)
  \/ RemoveLock(t) \/ RemoveErase(t)
  \/ WalkFirst(t) \/ WalkLast(t) \/ WalkTest(t) \/ WalkNext(t) \/ WalkStop(t)
  \/ IterNew(t) \/ Seek(t) \/ SeekToFirst(t) \/ IterOwn(t)
  \/ WriteRange(t) \/ Abort(t) \/ CommitStart(t) \/ CommitEnd(t) \/ IterDelete(t)
  \/ Unlock(t)

Next == Crash \/ \E t \in Threads : Step(t)

Spec == Init /\ [][Next]_vars

-----------------------------------------------------------------------------
(* Properties *)

TypeOK ==
  /\ map \in [Keys -> Values \cup {NoValue, Torn}]
  /\ undo \in [Keys -> Values \cup {NoValue}]
  /\ gReaders \subseteq Threads /\ gWriter \in Threads \cup {NoThread}
  /\ nReaders \in [Keys -> SUBSET Threads] /\ nWriter \in [Keys -> Threads \cup {NoThread}]
  /\ pc \in [Threads -> {"idle", "global", "global_alone", "share", "own", "callback", "assign", "erase",
                         "last", "walk", "next", "iter", "commit", "unlock"}]
  /\ call \in [Threads -> Calls \cup {Idle}]
  /\ pos \in [Threads -> Positions] /\ last \in [Threads -> Positions]
  /\ seen \in [Threads -> Values \cup {NoValue}] /\ log \in [Threads -> Values \cup {NoValue}]
  /\ reported \in [Threads -> SUBSET Keys] /\ before \in [Threads -> SUBSET Keys]

\* What a callback was given, and what an iterator stands on, is neither changed, torn nor erased under it
\* by another thread (csmap.cc:230-241 and 309-481, mtx and mapped_type::mtx).
ElementsAreStable ==
  \A t \in Threads :
    (pc[t] = "callback" \/ (pc[t] = "iter" /\ pos[t] # End)) =>
      /\ map[pos[t]] = seen[t]
      /\ seen[t] \in Values

\* Thread t waits for a lock that thread u holds.
WaitsFor(t, u) ==
  \/ pc[t] = "global" /\ gWriter = u
  \/ pc[t] = "global_alone" /\ (gWriter = u \/ u \in gReaders)
  \/ pc[t] = "share" /\ nWriter[pos[t]] = u
  \/ pc[t] = "own" /\ (nWriter[pos[t]] = u \/ u \in nReaders[pos[t]])

\* No threads wait for each other in a circle: mtx comes before the mutex of an element, and nobody
\* who holds the mutex of an element waits for another (csmap.cc:119-134, 244-271, 309-481).
NoCircularWait ==
  \A S \in SUBSET Threads : S # {} => \E t \in S : \A u \in S : ~WaitsFor(t, u)

\* A walk to the end of the map reports, or counts, every key that was there when it began, and none
\* that is not there or out of range (get_all, get_above, count_above: csmap.cc:40-64 and 119-173).
WalkIsExact ==
  \A t \in Threads :
    (pc[t] = "unlock" /\ call[t].op \in {"walk", "count"} /\ before[t] # {}) =>
      /\ before[t] \subseteq reported[t]
      /\ reported[t] \subseteq Present \cap InRange(call[t])

\* A walk never stands behind the last element while it looks for another: the loop of iterate and
\* std::distance dereference and increment what they stand on (csmap.cc:119-134, iterator.h:60-66).
WalkStaysInMap ==
  \A t \in Threads : pc[t] = "walk" /\ pos[t] = End => last[t] = End

\* Where each call is, seen from outside.
Phase(t) ==
  IF pc[t] = "idle" \/ call[t].op \in {"walk", "count"} \/ (call[t].op = "iterator" /\ pc[t] = "global") THEN "idle"
  ELSE IF call[t].op = "iterator" THEN "cursor"
  ELSE IF pc[t] \in {"callback", "unlock"} THEN "done"
  ELSE "called"

Requests(t) ==
  IF call[t].op \in {"put", "remove", "get"}
  THEN [op |-> call[t].op, key |-> call[t].key, value |-> call[t].value]
  ELSE [op |-> "none"]

Answer(t) == IF call[t].op = "get" THEN seen[t] ELSE NoValue

Concurrent == INSTANCE ConcurrentMap WITH
  store   <- [k \in Keys |-> Durable(k)],
  phase   <- [t \in Threads |-> Phase(t)],
  request <- [t \in Threads |-> Requests(t)],
  answer  <- [t \in Threads |-> Answer(t)]

\* The locks and transactions make every put, remove, get and iterator commit of csmap atomic, for other threads
\* and for crashes: csmap implements ConcurrentMap.
ImplementsConcurrentMap == Concurrent!Spec
=============================================================================
