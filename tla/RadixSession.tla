---------------------------- MODULE RadixSession ----------------------------
(***************************************************************************)
(* An open database of the radix engine and what an application does with  *)
(* it: puts and removes, a transaction, an iterator, and their commits.    *)
(* src/src/engines-experimental/radix.cc 15-56, 76-315 and 1136-1323,      *)
(* src/src/transaction.h, src/src/iterator.cc.                             *)
(*                                                                         *)
(* The engine is not concurrent: only the process's end can fall between   *)
(* two steps.  A commit is a transaction of libpmemobj around a loop, and  *)
(* is modelled step by step: run.undo is what its undo log restores.  A    *)
(* put or remove outside is one call of the radix tree, hence one step.    *)
(*                                                                         *)
(* Keys are integers in the order of the tree, values are sequences of     *)
(* bytes.  The application uses an iterator only while it is on a record   *)
(* (anything else is undefined behaviour, libpmemkv_iterator(3)), and      *)
(* writes only into the last range it was handed: log is a vector of       *)
(* strings, and a later write_range may move the earlier ones.             *)
(***************************************************************************)
EXTENDS Walks

CONSTANTS Keys, Values,
          Bounds,          \* what queries may be asked about: keys, and what lies between them
          Bytes, MaxLen,   \* what values are made of
          NoKey, NoValue,
          End,             \* container->end()
          Nowhere,         \* an iterator that is on no record and not at the end
          MaxLog           \* bound: operations of a transaction and ranges of an iterator, together

ASSUME KeysAssumption == Keys \subseteq Int /\ {NoKey, End, Nowhere} \cap Keys = {} /\ End # Nowhere
\* Whatever is stored has a first and a last key, as in any finite set.
ASSUME OrderAssumption ==
  \A S \in (SUBSET Keys) \ {{}} : (\E k \in S : \A j \in S : k <= j) /\ (\E k \in S : \A j \in S : j <= k)
ASSUME ValuesAssumption == Values \subseteq Seq(Bytes) /\ NoValue \notin Seq(Bytes) /\ \A v \in Values : Len(v) <= MaxLen
ASSUME BytesAssumption == Bytes \subseteq Int
ASSUME BoundsAssumption == Bounds \subseteq Int /\ MaxLog \in Nat /\ MaxLen \in Nat

VARIABLES
  map,      \* persistent: the radix tree
  tx,       \* the transaction and its dram_log
  it,       \* the iterator, its place and its log of ranges
  run,      \* the commit under way
  wanted    \* what the record of the iterator should be after a commit (for a property)

sessionVars == <<map, tx, it, run, wanted>>

NoTx == [open |-> FALSE, log |-> <<>>]
NoIterator == [kind |-> "none", at |-> Nowhere, log |-> <<>>]
NotRunning == [kind |-> "none", next |-> 1, undo |-> [k \in Keys |-> NoValue]]
Idle == run.kind = "none"

Room == Len(tx.log) + Len(it.log) < MaxLog

Empty == [k \in Keys |-> NoValue]
Present(m) == {k \in Keys : m[k] # NoValue}

SessionInit ==
  /\ map = Empty
  /\ tx = NoTx
  /\ it = NoIterator
  /\ run = NotRunning
  /\ wanted = NoValue

-----------------------------------------------------------------------------
(* Places in the tree.                                                     *)

Least(S) == IF S = {} THEN End ELSE CHOOSE k \in S : \A j \in S : k <= j
Greatest(S) == CHOOSE k \in S : \A j \in S : j <= k

Begin == Least(Present(map))
LowerBound(k) == Least({j \in Present(map) : j >= k})
UpperBound(k) == Least({j \in Present(map) : j > k})
After(p) == UpperBound(p)
Before(p) == Greatest({j \in Present(map) : p = End \/ j < p})

\* seek_lower and seek_lower_eq go to the bound and take a step back.
StepBack(bound) == IF bound = Begin THEN End ELSE Before(bound)

SeekTarget(how, k) ==
  CASE how = "seek"      -> IF k \in Present(map) THEN k ELSE End
    [] how = "lower"     -> StepBack(LowerBound(k))
    [] how = "lower_eq"  -> StepBack(UpperBound(k))
    [] how = "higher"    -> UpperBound(k)
    [] how = "higher_eq" -> LowerBound(k)
    [] how = "first"     -> IF Present(map) = {} THEN it.at ELSE Begin
    [] how = "last"      -> IF Present(map) = {} THEN it.at ELSE Before(End)

Seeks == {"seek", "lower", "lower_eq", "higher", "higher_eq", "first", "last"}

\* A record keeps its place when its value is assigned, unless it is erased
\* or grows out of its leaf.
PlacesAfter(m, at, ops) ==
  LET on == {i \in DOMAIN ops : ops[i].key = at} IN
  CASE at \notin Keys -> {at}
    [] at \in Keys /\ \E i \in on : ops[i].value = NoValue -> {Nowhere}
    [] OTHER -> IF \E i \in on : Len(ops[i].value) > Len(m[at]) THEN {at, Nowhere} ELSE {at}

\* What a commit of the iterator should leave is no longer known when
\* others have written the record meanwhile.
WantedAfter(ops) == IF \E i \in DOMAIN ops : ops[i].key = it.at THEN NoValue ELSE wanted

-----------------------------------------------------------------------------
(* Queries.  They only read: each is what it returns.  A range is walked   *)
(* with ++ from its first place until the last one is met.                 *)

Ahead(p) == IF p = End THEN {} ELSE {k \in Present(map) : k >= p}

\* A last place behind the first is never met: then the walk ends with the tree.
Visited(first, last) == IF Ahead(last) \subseteq Ahead(first) THEN Ahead(first) \ Ahead(last) ELSE Ahead(first)

\* The order of the tree.
ByKey == [k \in Keys |-> k]

\* Records in it, up to the first one whose callback answers non-zero.
Iterate(first, last, stops) == Walk(Visited(first, last), ByKey, stops)

Distance(first, last) == Cardinality(Visited(first, last))

CountAll == Cardinality(Present(map))
CountAbove(k) == Distance(UpperBound(k), End)
CountEqualAbove(k) == Distance(LowerBound(k), End)
CountEqualBelow(k) == Distance(Begin, UpperBound(k))
CountBelow(k) == Distance(Begin, LowerBound(k))
CountBetween(k1, k2) == IF k1 < k2 THEN Distance(UpperBound(k1), LowerBound(k2)) ELSE 0

GetAll(stops) == Iterate(Begin, End, stops)
GetAbove(k, stops) == Iterate(UpperBound(k), End, stops)
GetEqualAbove(k, stops) == Iterate(LowerBound(k), End, stops)
GetEqualBelow(k, stops) == Iterate(Begin, UpperBound(k), stops)
GetBelow(k, stops) == Iterate(Begin, LowerBound(k), stops)

\* A mutant: the keys are not compared first.
GetBetweenAnyway(k1, k2, stops) == Iterate(UpperBound(k1), LowerBound(k2), stops)

GetBetween(k1, k2, stops) ==
  IF k1 < k2 THEN Iterate(UpperBound(k1), LowerBound(k2), stops) ELSE [status |-> "OK", seen |-> <<>>]

Find(k) == IF k \in Present(map) THEN k ELSE End
Exists(k) == IF Find(k) # End THEN "OK" ELSE "NOT_FOUND"
Get(k) == IF Find(k) # End THEN [status |-> "OK", value |-> map[Find(k)]] ELSE [status |-> "NOT_FOUND", value |-> NoValue]

-----------------------------------------------------------------------------
(* Calls outside a transaction.                                            *)

Put(k, v) ==
  /\ Idle
  /\ map' = [map EXCEPT ![k] = v]
  /\ \E p \in PlacesAfter(map, it.at, <<[key |-> k, value |-> v]>>) : it' = [it EXCEPT !.at = p]
  /\ wanted' = WantedAfter(<<[key |-> k, value |-> v]>>)
  /\ UNCHANGED <<tx, run>>

RemoveKey(k) ==
  /\ Idle /\ k \in Present(map)
  /\ map' = [map EXCEPT ![k] = NoValue]
  /\ \E p \in PlacesAfter(map, it.at, <<[key |-> k, value |-> NoValue]>>) : it' = [it EXCEPT !.at = p]
  /\ wanted' = WantedAfter(<<[key |-> k, value |-> NoValue]>>)
  /\ UNCHANGED <<tx, run>>

-----------------------------------------------------------------------------
(* The transaction.                                                        *)

TxBegin ==
  /\ Idle /\ ~tx.open
  /\ tx' = [open |-> TRUE, log |-> <<>>]
  /\ UNCHANGED <<map, it, run, wanted>>

TxPut(k, v) ==
  /\ Idle /\ tx.open /\ Room
  /\ tx' = [tx EXCEPT !.log = Append(@, [key |-> k, value |-> v])]
  /\ UNCHANGED <<map, it, run, wanted>>

TxRemove(k) ==
  /\ Idle /\ tx.open /\ Room
  /\ tx' = [tx EXCEPT !.log = Append(@, [key |-> k, value |-> NoValue])]
  /\ UNCHANGED <<map, it, run, wanted>>

TxAbort ==
  /\ Idle /\ tx.open
  /\ tx' = [tx EXCEPT !.log = <<>>]
  /\ UNCHANGED <<map, it, run, wanted>>

TxEnd ==
  /\ Idle /\ tx.open
  /\ tx' = NoTx
  /\ UNCHANGED <<map, it, run, wanted>>

TxCommit ==
  /\ Idle /\ tx.open
  /\ run' = [kind |-> "tx", next |-> 1, undo |-> map]
  /\ UNCHANGED <<map, tx, it, wanted>>

\* insert_cb and remove_cb: a value of NoValue stands for an operation of type remove.
Replay(m, op) == [m EXCEPT ![op.key] = op.value]

TxReplay ==
  /\ run.kind = "tx" /\ run.next <= Len(tx.log)
  /\ map' = Replay(map, tx.log[run.next])
  /\ run' = [run EXCEPT !.next = @ + 1]
  /\ UNCHANGED <<tx, it, wanted>>

TxCommitted ==
  /\ run.kind = "tx" /\ run.next > Len(tx.log)
  /\ run' = NotRunning
  /\ tx' = [tx EXCEPT !.log = <<>>]
  /\ \E p \in PlacesAfter(run.undo, it.at, tx.log) : it' = [it EXCEPT !.at = p]
  /\ wanted' = WantedAfter(tx.log)
  /\ UNCHANGED map

\* A mutant: no transaction around the loop.
LeftHalfDone ==
  /\ ~Idle
  /\ run' = NotRunning
  /\ UNCHANGED <<map, tx, it, wanted>>

\* An operation runs out of memory, or a range no longer fits the value:
\* the exception leaves the loop, the undo log is applied, the log is kept.
Rollback ==
  /\ ~Idle
  /\ map' = run.undo
  /\ run' = NotRunning
  /\ UNCHANGED <<tx, it, wanted>>

-----------------------------------------------------------------------------
(* The iterator.                                                           *)

IterNew(kind) ==
  /\ Idle /\ it.kind = "none"
  /\ it' = [kind |-> kind, at |-> Nowhere, log |-> <<>>]
  /\ wanted' = NoValue
  /\ UNCHANGED <<map, tx, run>>

IterDelete ==
  /\ Idle /\ it.kind # "none"
  /\ it' = NoIterator
  /\ wanted' = NoValue
  /\ UNCHANGED <<map, tx, run>>

\* init_seek, which drops what was handed out at the old place, and the move.
MoveTo(place) ==
  /\ it' = [it EXCEPT !.at = place, !.log = <<>>]
  /\ wanted' = IF place \in Keys THEN map[place] ELSE NoValue
  /\ UNCHANGED <<map, tx, run>>

IterSeek(how, k) ==
  /\ Idle /\ it.kind # "none"
  /\ MoveTo(SeekTarget(how, k))

IterNext ==
  /\ Idle /\ it.kind # "none" /\ it.at # Nowhere
  /\ MoveTo(IF it.at = End THEN End ELSE After(it.at))

IterPrev ==
  /\ Idle /\ it.kind # "none" /\ it.at # Nowhere
  /\ MoveTo(IF it.at = Begin THEN it.at ELSE Before(it.at))

\* The part of a value from pos, no longer than n and than the value is.
Clamped(v, pos, n) ==
  IF pos + n > Len(v) THEN SubSeq(v, pos + 1, Len(v)) ELSE SubSeq(v, pos + 1, pos + n)

Covers(range, c) == c - range.pos \in DOMAIN range.data
Overlap(r, q) == \E c \in 1 .. MaxLen : Covers(r, c) /\ Covers(q, c)

\* A copy of what is stored; a pos beyond the value makes the copy throw.
WriteRange(pos, n) ==
  /\ Idle /\ it.kind = "write" /\ it.at \in Keys
  /\ Room
  /\ pos <= Len(map[it.at])
  /\ LET range == [pos |-> pos, data |-> Clamped(map[it.at], pos, n)] IN
     /\ it' = [it EXCEPT !.log = Append(@, range)]
     /\ wanted' = IF \E i \in DOMAIN it.log : Overlap(it.log[i], range) THEN NoValue ELSE wanted
  /\ UNCHANGED <<map, tx, run>>

\* The application writes a byte through the pointer it got last.
Modify(c, b) ==
  /\ Idle /\ it.log # <<>>
  /\ LET last == it.log[Len(it.log)] IN
     /\ c \in DOMAIN last.data
     /\ it' = [it EXCEPT !.log[Len(it.log)].data[c] = b]
     /\ wanted' = IF wanted = NoValue THEN NoValue ELSE [wanted EXCEPT ![last.pos + c] = b]
  /\ UNCHANGED <<map, tx, run>>

IterAbort ==
  /\ Idle /\ it.kind = "write"
  /\ it' = [it EXCEPT !.log = <<>>]
  /\ wanted' = IF it.at \in Keys THEN map[it.at] ELSE NoValue
  /\ UNCHANGED <<map, tx, run>>

IterCommit ==
  /\ Idle /\ it.kind = "write" /\ it.at \in Keys
  /\ run' = [kind |-> "iter", next |-> 1, undo |-> map]
  /\ UNCHANGED <<map, tx, it, wanted>>

\* A mutant: the copy starts at the beginning of the value.
OverwrittenAtStart(v, range) == [c \in DOMAIN v |-> IF c \in DOMAIN range.data THEN range.data[c] ELSE v[c]]

Overwritten(v, range) == [c \in DOMAIN v |-> IF Covers(range, c) THEN range.data[c - range.pos] ELSE v[c]]

\* value().range() throws when the value became too short for the range: then only Rollback is left.
IterCopy ==
  /\ run.kind = "iter" /\ run.next <= Len(it.log)
  /\ LET range == it.log[run.next] IN
     /\ range.pos + Len(range.data) <= Len(map[it.at])
     /\ map' = [map EXCEPT ![it.at] = Overwritten(@, range)]
  /\ run' = [run EXCEPT !.next = @ + 1]
  /\ UNCHANGED <<tx, it, wanted>>

IterCommitted ==
  /\ run.kind = "iter" /\ run.next > Len(it.log)
  /\ run' = NotRunning
  /\ it' = [it EXCEPT !.log = <<>>]
  /\ wanted' = map[it.at]
  /\ UNCHANGED <<map, tx>>

-----------------------------------------------------------------------------
(* The process ends: what persistent memory keeps, with the undo log       *)
(* applied when the pool is next opened.                                   *)

Stored == IF Idle THEN map ELSE run.undo

SessionEnd ==
  /\ map' = Stored
  /\ tx' = NoTx /\ it' = NoIterator /\ run' = NotRunning
  /\ wanted' = NoValue

SessionStep ==
  \/ \E k \in Keys, v \in Values : Put(k, v) \/ TxPut(k, v)
  \/ \E k \in Keys : RemoveKey(k) \/ TxRemove(k)
  \/ TxBegin \/ TxAbort \/ TxEnd \/ TxCommit \/ TxReplay \/ TxCommitted \/ Rollback
  \/ \E kind \in {"read", "write"} : IterNew(kind)
  \/ \E how \in Seeks, k \in Keys : IterSeek(how, k)
  \/ IterDelete \/ IterNext \/ IterPrev
  \/ \E pos \in 0 .. MaxLen, n \in 1 .. MaxLen : WriteRange(pos, n)
  \/ \E c \in 1 .. MaxLen, b \in Bytes : Modify(c, b)
  \/ IterAbort \/ IterCommit \/ IterCopy \/ IterCommitted

SessionNext == SessionStep \/ SessionEnd

SessionSpec == SessionInit /\ [][SessionNext]_sessionVars

-----------------------------------------------------------------------------
(* Properties.                                                             *)

Places == Keys \cup {End, Nowhere}
OpType == [key : Keys, value : Seq(Bytes) \cup {NoValue}]
RangeType == [pos : Nat, data : Seq(Bytes)]
MapType == [Keys -> Seq(Bytes) \cup {NoValue}]

\* The types of the state; an iterator on a record is on one that is there,
\* and only one that may write has handed out ranges.
SessionTypeOK ==
  /\ map \in MapType
  /\ tx \in [open : BOOLEAN, log : Seq(OpType)]
  /\ it \in [kind : {"none", "read", "write"}, at : Places, log : Seq(RangeType)]
  /\ run \in [kind : {"none", "tx", "iter"}, next : Nat \ {0}, undo : MapType]
  /\ it.at \in Keys => Stored[it.at] # NoValue
  /\ it.log # <<>> => it.kind = "write"
  /\ run.kind = "iter" => it.at \in Keys

\* A commit of an iterator leaves the record as the application has edited
\* it, when its ranges do not overlap and nobody else wrote the record
\* meanwhile, and every other record as it was (radix_iterator::write_range
\* and commit).
EditsAreCommitted ==
  [][ run.kind = "iter" /\ run'.kind = "none" /\ it'.kind = "write" /\ it'.log = <<>> /\ it.log # <<>> /\ wanted # NoValue
      => map' = [run.undo EXCEPT ![it.at] = wanted] ]_sessionVars

\* What a query that sees the records of S, in order, must return.
Answers(count, get, S) ==
  /\ count = Cardinality(S)
  /\ \A stops \in SUBSET Keys : Reports(get[stops], S, ByKey, stops)

\* Between any two steps of a transaction, an iterator and their commits,
\* each family of queries counts and reports, in ascending order and up to
\* the callback that stops it, exactly the committed records on its side of
\* any bound, of absent keys and of bounds in the wrong order too; nothing of
\* an open transaction or of uncommitted ranges is seen (radix.cc 87-279).
QueriesAreExact ==
  Idle =>
    /\ Answers(CountAll, [stops \in SUBSET Keys |-> GetAll(stops)], Present(map))
    /\ \A k \in Bounds :
         /\ Answers(CountAbove(k), [stops \in SUBSET Keys |-> GetAbove(k, stops)], {j \in Present(map) : j > k})
         /\ Answers(CountEqualAbove(k), [stops \in SUBSET Keys |-> GetEqualAbove(k, stops)], {j \in Present(map) : j >= k})
         /\ Answers(CountEqualBelow(k), [stops \in SUBSET Keys |-> GetEqualBelow(k, stops)], {j \in Present(map) : j <= k})
         /\ Answers(CountBelow(k), [stops \in SUBSET Keys |-> GetBelow(k, stops)], {j \in Present(map) : j < k})
         /\ \A h \in Bounds :
              Answers(CountBetween(k, h), [stops \in SUBSET Keys |-> GetBetween(k, h, stops)], {j \in Present(map) : k < j /\ j < h})
         /\ Exists(k) = "OK" <=> k \in Present(map)
         /\ k \in Keys => Get(k).value = Stored[k]

Draft == IF it.at \in Keys THEN [at |-> it.at, ranges |-> it.log] ELSE [at |-> NoKey, ranges |-> <<>>]

Abstract == INSTANCE TxMap WITH map <- Stored, pending <- tx.log, draft <- Draft

\* Commits of transactions and iterators are one atomic step each, in the
\* order of the calls; nothing uncommitted is ever stored, and nothing
\* committed is lost (radix transaction::commit, radix_iterator::commit).
ImplementsTxMap == Abstract!Spec
=============================================================================
