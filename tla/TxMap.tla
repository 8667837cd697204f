------------------------------- MODULE TxMap -------------------------------
(***************************************************************************)
(* What a database promises to an application that uses transactions and   *)
(* write iterators: libpmemkv_tx(3) ("All operations of this transaction   *)
(* are applied as a single power fail-safe atomic action", "Actions in a   *)
(* transaction are executed in the order in which they were called") and   *)
(* libpmemkv_iterator(3) ("Changes made on a requested range are not       *)
(* persistent until pmemkv_write_iterator_commit() is called", "You need   *)
(* to call this method before changing the iterator position, otherwise    *)
(* modifications will be automatically aborted").                          *)
(*                                                                         *)
(* Nothing is said here of replaying operations one after the other: what  *)
(* a key holds after a commit is what its last operation gave it.          *)
(***************************************************************************)
EXTENDS Integers, Sequences

CONSTANTS Keys, Values, NoKey, NoValue

VARIABLES
  map,       \* what is in the database, NoValue for an absent key
  pending,   \* the operations of the transaction, not committed yet
  draft      \* the record a write iterator is on and the ranges it was given

mapVars == <<map, pending, draft>>

NoDraft == [at |-> NoKey, ranges |-> <<>>]

\* Each key holds what the last of the first n operations on it gave it.
Applied(m, ops, n) ==
  [k \in Keys |->
     LET on == {i \in 1 .. n : ops[i].key = k} IN
     IF on = {} THEN m[k] ELSE ops[CHOOSE i \in on : \A j \in on : j <= i].value]

\* Each byte is that of the last of the first n ranges that covers it.
Patched(v, ranges, n) ==
  [c \in DOMAIN v |->
     LET over == {i \in 1 .. n : c - ranges[i].pos \in DOMAIN ranges[i].data} IN
     IF over = {} THEN v[c]
     ELSE LET last == CHOOSE i \in over : \A j \in over : j <= i
          IN ranges[last].data[c - ranges[last].pos]]

Init ==
  /\ map = [k \in Keys |-> NoValue]
  /\ pending = <<>>
  /\ draft = NoDraft

\* A put or a remove outside the transaction; an iterator on the record may lose its place.
Write ==
  /\ \E k \in Keys, v \in Values \cup {NoValue} : map' = [map EXCEPT ![k] = v]
  /\ draft' \in {draft, NoDraft}
  /\ UNCHANGED pending

Add ==
  /\ \E k \in Keys, v \in Values \cup {NoValue} : pending' = Append(pending, [key |-> k, value |-> v])
  /\ UNCHANGED <<map, draft>>

Discard == pending' = <<>> /\ UNCHANGED <<map, draft>>

Commit ==
  /\ map' = Applied(map, pending, Len(pending))
  /\ pending' = <<>>
  /\ draft' \in {draft, NoDraft}

\* The iterator moves, or drops what it was given.
Move ==
  /\ \E k \in Keys \cup {NoKey} : draft' = [at |-> k, ranges |-> <<>>]
  /\ UNCHANGED <<map, pending>>

\* A range is handed out: one more than before, the others as they were.
Range ==
  /\ draft.at \in Keys
  /\ draft'.at = draft.at
  /\ Len(draft'.ranges) = Len(draft.ranges) + 1
  /\ \A i \in DOMAIN draft.ranges : draft'.ranges[i] = draft.ranges[i]
  /\ UNCHANGED <<map, pending>>

\* The application writes into ranges it has; where they lie is settled.
Edit ==
  /\ draft'.at = draft.at
  /\ DOMAIN draft'.ranges = DOMAIN draft.ranges
  /\ \A i \in DOMAIN draft.ranges :
       /\ draft'.ranges[i].pos = draft.ranges[i].pos
       /\ Len(draft'.ranges[i].data) = Len(draft.ranges[i].data)
  /\ UNCHANGED <<map, pending>>

CommitDraft ==
  /\ draft.at \in Keys
  /\ map' = [map EXCEPT ![draft.at] = Patched(@, draft.ranges, Len(draft.ranges))]
  /\ draft' = [draft EXCEPT !.ranges = <<>>]
  /\ UNCHANGED pending

\* The process ends, by a crash or a close.
Down ==
  /\ pending' = <<>> /\ draft' = NoDraft
  /\ UNCHANGED map

Next == Write \/ Add \/ Discard \/ Commit \/ Move \/ Range \/ Edit \/ CommitDraft \/ Down

Spec == Init /\ [][Next]_mapVars
=============================================================================
