------------------------------ MODULE Results ------------------------------
(***************************************************************************)
(* result<T> of src/src/libpmemkv.hpp for the iterators of a database: a   *)
(* union whose value is alive while the status is OK, moved from one       *)
(* result to another and out into a variable of the application.           *)
(*                                                                         *)
(* The value is a unique_ptr to an iterator of the C API: destroying or    *)
(* assigning over it deletes what it holds, moving from it leaves it       *)
(* empty.  A result is not assigned to itself.                             *)
(***************************************************************************)
EXTENDS Integers, FiniteSets

CONSTANTS RawIterators, NoIterator,  \* iterators of the C API
          Slots     \* variables of type result<iterator>

ASSUME ResultsAssumption == NoIterator \notin RawIterators

VARIABLES
  made,     \* the iterators of the C API that were made and not deleted
  slot,     \* the results
  owned     \* the iterators that variables of the application hold

resultVars == <<made, slot, owned>>

NoResult == [born |-> FALSE, s |-> "none", value |-> NoIterator]
Result(s, value) == [born |-> TRUE, s |-> s, value |-> value]
Error == Result("error", NoIterator)

Ok(r) == slot[r].s = "OK"
Deleted(i) == made' = made \ {i}

ResultsInit == made = {} /\ slot = [r \in Slots |-> NoResult] /\ owned = {}

\* new_read_iterator and new_write_iterator of an engine that has iterators.
NewIterator(r, i) ==
  /\ ~slot[r].born /\ i \notin made
  /\ made' = made \cup {i}
  /\ slot' = [slot EXCEPT ![r] = Result("OK", i)]
  /\ UNCHANGED owned

\* The same calls when the engine throws, or without a database.
NewError(r) ==
  /\ ~slot[r].born
  /\ slot' = [slot EXCEPT ![r] = Error]
  /\ UNCHANGED <<made, owned>>

\* result(result &&other)
MoveConstruct(r, other) ==
  /\ ~slot[r].born /\ slot[other].born
  /\ slot' = [slot EXCEPT ![r] = slot[other], ![other] = Error]
  /\ UNCHANGED <<made, owned>>

\* A mutant: the new value is built over the old one, which is not destroyed.
Overwritten(r, other) == UNCHANGED made

\* The old value goes when it is assigned over and when it is destroyed.
Replaced(r, other) == IF Ok(r) THEN Deleted(slot[r].value) ELSE UNCHANGED made

\* operator=(result &&other)
MoveAssign(r, other) ==
  /\ r # other /\ slot[r].born /\ slot[other].born
  /\ Replaced(r, other)
  /\ slot' = [slot EXCEPT ![r] = slot[other], ![other] = Error]
  /\ UNCHANGED owned

\* auto it = std::move(r.get_value()): the status stays OK, the value is empty.
TakeFromLvalue(r) ==
  /\ slot[r].born /\ Ok(r)
  /\ owned' = owned \cup ({slot[r].value} \ {NoIterator})
  /\ slot' = [slot EXCEPT ![r].value = NoIterator]
  /\ UNCHANGED made

\* auto it = std::move(r).get_value(): get_value() && sets the status first.
TakeFromRvalue(r) ==
  /\ slot[r].born /\ Ok(r)
  /\ owned' = owned \cup ({slot[r].value} \ {NoIterator})
  /\ slot' = [slot EXCEPT ![r] = Error]
  /\ UNCHANGED made

\* ~result()
Destroy(r) ==
  /\ slot[r].born
  /\ IF Ok(r) THEN Deleted(slot[r].value) ELSE UNCHANGED made
  /\ slot' = [slot EXCEPT ![r] = NoResult]
  /\ UNCHANGED owned

\* The application's variable goes out of scope.
DropIterator(i) ==
  /\ i \in owned
  /\ owned' = owned \ {i}
  /\ Deleted(i)
  /\ UNCHANGED slot

ResultsStep ==
  \/ \E r, other \in Slots : MoveConstruct(r, other) \/ MoveAssign(r, other)
  \/ \E r \in Slots : NewError(r) \/ TakeFromLvalue(r) \/ TakeFromRvalue(r) \/ Destroy(r)
  \/ \E i \in RawIterators : DropIterator(i)

\* However results are moved, assigned, emptied and destroyed: every iterator
\* of the C API that exists is held by exactly one result whose status is OK
\* or one variable of the application, which will delete it, and nothing
\* holds one that was deleted (result<T>, libpmemkv.hpp 175-400).
IteratorsAreHeldOnce ==
  /\ \A i \in RawIterators :
       Cardinality({r \in Slots : Ok(r) /\ slot[r].value = i}) + Cardinality(owned \cap {i})
         = IF i \in made THEN 1 ELSE 0
  /\ \A r \in Slots : slot[r].value # NoIterator => Ok(r)
=============================================================================
