------------------------------- MODULE Calls -------------------------------
(***************************************************************************)
(* The way of a call: from the wrapper in src/src/libpmemkv.hpp through    *)
(* the function in libpmemkv.cc to what the engine overrides, or to the    *)
(* default of engine.cc and iterator.cc, and back as a status and, from    *)
(* out.cc, a message.                                                      *)
(*                                                                         *)
(* The wrappers cast and pass on: a call here is that of either API.  The  *)
(* database is one record; what the other modules know of an engine's      *)
(* answers is left open.  The application may have a libpmemobj            *)
(* transaction of its own open, in which writes to the pool are undone     *)
(* when it aborts.                                                         *)
(***************************************************************************)
EXTENDS Integers, FiniteSets

CONSTANTS
  Threads,
  Called,         \* the operations the threads call
  Texts, NoText,  \* contents of the record, and none
  None,           \* no database, no thread, and nothing to undo
  CommitsInside   \* whether objects commit in a transaction of the application

VARIABLES
  base,       \* the engine behind the database handle
  text,       \* the record
  held,       \* the transaction or iterator each thread has
  last,       \* last_status of each thread
  said,       \* what its error_stream holds: nothing, or the words of this or an earlier call
  failed,     \* whether its last call failed and had something to say about it
  outer,      \* the thread that has a transaction of the application open
  undo        \* the record before that transaction wrote to it

callVars == <<base, text, held, last, said, failed, outer, undo>>

-----------------------------------------------------------------------------
(* The operations.                                                         *)

CountCalls == {"count_all", "count_above", "count_equal_above", "count_equal_below", "count_below", "count_between"}
UpwardCalls == {"get_all", "get_above", "get_equal_above"}
DownwardCalls == {"get_equal_below", "get_below", "get_between"}
KeyCalls == {"exists", "get", "get_copy", "put", "remove"}
Makers == {"tx_begin", "iterator_new", "write_iterator_new"}
EngineCalls == CountCalls \cup UpwardCalls \cup DownwardCalls \cup KeyCalls \cup {"defrag"} \cup Makers

SeekCalls == {"seek", "seek_lower", "seek_lower_eq", "seek_higher", "seek_higher_eq", "seek_to_first", "seek_to_last"}
MoveCalls == {"is_next", "next", "prev"}
ReadCalls == {"key", "read_range"}
EditCalls == {"write_range", "commit"}
IteratorCalls == SeekCalls \cup MoveCalls \cup ReadCalls \cup EditCalls

TxCalls == {"tx_put", "tx_remove", "tx_commit"}

ASSUME CallsAssumption ==
  Called \subseteq EngineCalls \cup IteratorCalls \cup TxCalls /\ NoText \notin Texts /\ None \notin Threads

-----------------------------------------------------------------------------
(* What the engines override, of what has a default.                       *)

Queries == CountCalls \cup UpwardCalls \cup DownwardCalls \cup {"exists"}
IteratorMakers == {"iterator_new", "write_iterator_new"}

BlackholeHas == Queries \cup IteratorMakers
CmapHas == {"count_all", "get_all", "exists", "defrag"} \cup IteratorMakers
VcmapHas == {"count_all", "get_all", "exists"} \cup IteratorMakers
RobinhoodHas == {"count_all", "get_all", "exists"}
Tree3Has == {"count_all", "get_all", "exists"}
CsmapHas == Queries \cup IteratorMakers
RadixHas == Queries \cup Makers
CachedRadixHas == Queries
StreeHas == Queries \cup IteratorMakers
VsmapHas == Queries \cup IteratorMakers

CmapIteratorHas == EditCalls
VcmapIteratorHas == EditCalls
CsmapIteratorHas == (SeekCalls \cup MoveCalls \cup EditCalls) \ {"seek_to_last", "prev"}
RadixIteratorHas == SeekCalls \cup MoveCalls \cup EditCalls
StreeIteratorHas == SeekCalls \cup MoveCalls \cup EditCalls
VsmapIteratorHas == SeekCalls \cup MoveCalls \cup EditCalls

Overridden ==
  [blackhole |-> BlackholeHas, cmap |-> CmapHas \cup CmapIteratorHas, vcmap |-> VcmapHas \cup VcmapIteratorHas,
   robinhood |-> RobinhoodHas, tree3 |-> Tree3Has, csmap |-> CsmapHas \cup CsmapIteratorHas,
   radix |-> RadixHas \cup RadixIteratorHas, cached_radix |-> CachedRadixHas,
   stree |-> StreeHas \cup StreeIteratorHas, vsmap |-> VsmapHas \cup VsmapIteratorHas]
Engines == DOMAIN Overridden

\* Pure virtual in engine.h, iterator.h and transaction.h.
Always == {"get", "get_copy", "put", "remove", "seek", "key", "read_range"} \cup TxCalls
Overrides(op) == op \in Always \/ op \in Overridden[base]

Persistent == base \in Engines \ {"blackhole", "vcmap", "vsmap"}

-----------------------------------------------------------------------------
(* What becomes of a call: its status, whether it has something to say of  *)
(* it, and the record after it.                                            *)

Returns(s) == [status |-> s, speaks |-> FALSE, text |-> text]
Throws(s) == [status |-> s, speaks |-> TRUE, text |-> text]
Writes(v) == [status |-> "OK", speaks |-> FALSE, text |-> v]

\* engine.cc throws for what would make an object, and returns for the rest;
\* iterator.cc returns.
EngineDefault(op) == {IF op \in Makers THEN Throws("NOT_SUPPORTED") ELSE Returns("NOT_SUPPORTED")}
IteratorDefault == {Returns("NOT_SUPPORTED")}

\* A mutant: calls that change something are not checked.
ChecksQueries(t, op) == Persistent /\ outer = t /\ op \in Queries \cup {"get", "get_copy"}

\* check_outside_tx, which every call of a persistent engine for records begins with.
OutsideTx(t, op) == Persistent /\ outer = t /\ op \in Queries \cup KeyCalls \cup {"defrag"}

Blackhole(op) ==
  {Returns(IF op \in CountCalls \cup {"put", "remove", "seek"} \cup Makers THEN "OK" ELSE "NOT_FOUND")}

\* A callback reads on, stops, or throws through the engine.
Callback == {Returns("OK"), Returns("STOPPED_BY_CB"), Throws("UNKNOWN_ERROR")}

WhenThere(answers) == IF text = NoText THEN {Returns("NOT_FOUND")} ELSE answers

\* The callback of get_copy does not throw, and that the buffer is too small
\* is not told to last_status.
Copies == WhenThere({Returns("OK")})

Puts ==
  {Writes(v) : v \in Texts} \cup {Throws("OUT_OF_MEMORY")}
    \cup (IF base = "robinhood" THEN {Returns("INVALID_ARGUMENT"), Returns("UNKNOWN_ERROR")} ELSE {})

\* cmap::defrag writes the message itself and returns.
Defrags == {Returns("OK"), Throws("INVALID_ARGUMENT"), Throws("DEFRAG_ERROR")}

EngineAnswers(t, op) ==
  IF ~Overrides(op) THEN EngineDefault(op)
  ELSE IF base = "blackhole" THEN Blackhole(op)
  ELSE IF OutsideTx(t, op) THEN {Throws("TRANSACTION_SCOPE_ERROR")}
  ELSE
  CASE op \in CountCalls -> {Returns("OK")}
    [] op \in UpwardCalls \cup DownwardCalls -> Callback
    [] op = "exists" -> WhenThere({Returns("OK")})
    [] op = "get_copy" -> Copies
    [] op = "get" -> WhenThere({Returns("OK"), Throws("UNKNOWN_ERROR")})
    [] op = "put" -> Puts
    [] op = "remove" -> WhenThere({Writes(NoText), Throws("OUT_OF_MEMORY")})
    [] op = "defrag" -> Defrags
    [] op \in Makers -> {Returns("OK"), Throws("OUT_OF_MEMORY")}

\* A commit writes what the object has in its log, whatever that is.
IteratorAnswers(op) ==
  IF ~Overrides(op) THEN IteratorDefault
  ELSE IF base = "blackhole" THEN Blackhole(op)
  ELSE
  CASE op \in SeekCalls \cup MoveCalls -> WhenThere({Returns("OK"), Returns("NOT_FOUND")})
    [] op \in ReadCalls -> {Returns("OK")}
    [] op = "write_range" -> {Returns("OK"), Throws("OUT_OF_MEMORY")}
    [] op = "commit" -> {Writes(v) : v \in Texts} \cup {Throws("OUT_OF_MEMORY")}

TxAnswers(op) ==
  IF op = "tx_commit" THEN {Writes(v) : v \in Texts \cup {NoText}} \cup {Throws("OUT_OF_MEMORY")}
  ELSE {Returns("OK"), Throws("OUT_OF_MEMORY")}

-----------------------------------------------------------------------------
(* The C functions.                                                        *)

\* A mutant: one error stream for all threads.
SaidByAll(t) == [u \in Threads |-> IF u = t THEN "this" ELSE "earlier"]

\* out_err_stream: error_stream is thread_local.
SaidBy(t) == [said EXCEPT ![t] = "this"]

\* The next call of t: what was said is of an earlier call.
Earlier(t) == [said EXCEPT ![t] = IF @ = "nothing" THEN @ ELSE "earlier"]

\* catch_and_return_status of thread t with what the engine did.
Caught(t, a) ==
  /\ last' = [last EXCEPT ![t] = a.status]
  /\ said' = IF a.speaks THEN SaidBy(t) ELSE Earlier(t)
  /\ failed' = [failed EXCEPT ![t] = a.speaks]
  /\ text' = a.text

\* A write inside the application's transaction is undone when that aborts;
\* other threads keep off a record that such a transaction has written to.
Recorded(t, a) ==
  /\ a.text # text => undo = None \/ outer = t
  /\ undo' = IF a.text # text /\ outer = t /\ undo = None THEN text ELSE undo

\* A handle that is null is refused before anything else.
NullCall(t) ==
  /\ base = None
  /\ said' = Earlier(t) /\ failed' = [failed EXCEPT ![t] = FALSE]
  /\ UNCHANGED <<base, text, held, last, outer, undo>>

NoObject == [what |-> "nothing", placed |-> FALSE]
MadeBy(op) == [what |-> op, placed |-> FALSE]

EngineCall(t, op) ==
  /\ base # None /\ op \in EngineCalls
  /\ op \in Makers => held[t] = NoObject
  /\ \E a \in EngineAnswers(t, op) :
       /\ Caught(t, a) /\ Recorded(t, a)
       /\ held' = IF op \in Makers /\ a.status = "OK" THEN [held EXCEPT ![t] = MadeBy(op)] ELSE held
  /\ UNCHANGED <<base, outer>>

\* The position is used only after a seek or a move told there is one, and
\* ranges are written only by a write_iterator.
IteratorCall(t, op) ==
  /\ op \in IteratorCalls /\ held[t].what \in IteratorMakers
  /\ op \in MoveCalls \cup ReadCalls \cup EditCalls => held[t].placed /\ (base = "blackhole" \/ text # NoText)
  /\ op \in EditCalls => held[t].what = "write_iterator_new"
  /\ op = "commit" /\ Persistent /\ outer = t => CommitsInside
  /\ \E a \in IteratorAnswers(op) :
       /\ Caught(t, a) /\ Recorded(t, a)
       /\ held' = IF op \in SeekCalls \cup (MoveCalls \ {"is_next"}) /\ Overrides(op)
                  THEN [held EXCEPT ![t].placed = a.status = "OK"] ELSE held
  /\ UNCHANGED <<base, outer>>

TxCall(t, op) ==
  /\ op \in TxCalls /\ held[t].what = "tx_begin"
  /\ op = "tx_commit" /\ outer = t => CommitsInside
  /\ \E a \in TxAnswers(op) : Caught(t, a) /\ Recorded(t, a)
  /\ UNCHANGED <<base, held, outer>>

\* tx_end, iterator_delete and write_iterator_delete return nothing and leave the last status alone.
EndObject(t) ==
  /\ held[t] # NoObject
  /\ held' = [held EXCEPT ![t] = NoObject]
  /\ said' = Earlier(t) /\ failed' = [failed EXCEPT ![t] = FALSE]
  /\ UNCHANGED <<base, text, last, outer, undo>>

-----------------------------------------------------------------------------
(* The application's own transaction.                                      *)

BeginOuter(t) ==
  /\ Persistent /\ outer = None
  /\ outer' = t
  /\ UNCHANGED <<base, text, held, last, said, failed, undo>>

CommitOuter ==
  /\ outer # None
  /\ outer' = None /\ undo' = None
  /\ UNCHANGED <<base, text, held, last, said, failed>>

AbortOuter ==
  /\ outer # None
  /\ outer' = None /\ undo' = None
  /\ text' = IF undo = None THEN text ELSE undo
  /\ UNCHANGED <<base, held, last, said, failed>>

CallsInit ==
  /\ base = None /\ text = NoText /\ outer = None /\ undo = None
  /\ held = [t \in Threads |-> NoObject]
  /\ last = [t \in Threads |-> "OK"]
  /\ said = [t \in Threads |-> "nothing"]
  /\ failed = [t \in Threads |-> FALSE]

NoObjects == outer = None /\ \A t \in Threads : held[t] = NoObject
NobodyCalled == NoObjects /\ text = NoText /\ \A t \in Threads : last[t] = "OK" /\ said[t] = "nothing" /\ ~failed[t]

\* The handle gets an engine, or loses the one it has.
BaseIs(engine) == base' = engine /\ text' = NoText /\ UNCHANGED <<held, last, said, failed, outer, undo>>

CallsStep ==
  \/ \E t \in Threads : NullCall(t) \/ EndObject(t) \/ BeginOuter(t)
  \/ \E t \in Threads, op \in Called : EngineCall(t, op) \/ IteratorCall(t, op) \/ TxCall(t, op)
  \/ CommitOuter \/ AbortOuter

-----------------------------------------------------------------------------
(* Properties.                                                             *)

\* pmemkv_errormsg
ErrorMsg(t) == IF last[t] \in {"NOT_FOUND", "STOPPED_BY_CB"} THEN "nothing" ELSE said[t]

\* A thread whose last call failed with something to say is told exactly
\* that by errormsg, whatever status its earlier calls left behind and
\* whatever other threads call and fail at before it asks: the stream is
\* emptied for each message, and it and last_status are per thread (out.cc).
FailuresAreExplained == \A t \in Threads : failed[t] => ErrorMsg(t) = "this"

\* An application that aborts a transaction of its own takes back no put and
\* no remove that was told OK, of its own or of another thread: engines with
\* a pool refuse to work inside it (check_outside_tx, pmemobj_engine.h).
AbortTakesNothingBack == [][ outer # None /\ outer' # outer => text' = text ]_callVars
=============================================================================
