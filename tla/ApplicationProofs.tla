------------------------- MODULE ApplicationProofs -------------------------
(***************************************************************************)
(* Theorems about Application, for all constants: any number of threads,   *)
(* texts, results, iterators, objects and names of items, any JSON texts,  *)
(* any set of operations called.  First what calls come back with, then    *)
(* the iterators in results, the ownership of what a config is given       *)
(* (Handles), and the records of vsmap (Vsmap).                            *)
(***************************************************************************)
EXTENDS Application, WalksProofs, SequenceTheorems

-----------------------------------------------------------------------------
(* What every call comes back with.                                        *)

Statuses == {"OK", "NOT_FOUND", "STOPPED_BY_CB", "UNKNOWN_ERROR", "NOT_SUPPORTED", "OUT_OF_MEMORY",
             "INVALID_ARGUMENT", "DEFRAG_ERROR", "TRANSACTION_SCOPE_ERROR"}
Silent == {"NOT_FOUND", "STOPPED_BY_CB"}

IsAnswer(a) == a.status \in Statuses /\ a.speaks \in BOOLEAN /\ (a.speaks => a.status \notin Silent)

LEMMA EveryAnswer ==
  /\ \A s \in Statuses : IsAnswer(Returns(s)) /\ Returns(s).text = text
  /\ \A s \in Statuses \ Silent : IsAnswer(Throws(s)) /\ Throws(s).text = text
  /\ \A v : IsAnswer(Writes(v))
BY DEF IsAnswer, Returns, Throws, Writes, Statuses

LEMMA EveryStatus ==
  /\ {"OK", "NOT_FOUND", "STOPPED_BY_CB", "UNKNOWN_ERROR", "NOT_SUPPORTED", "INVALID_ARGUMENT"} \subseteq Statuses
  /\ {"UNKNOWN_ERROR", "NOT_SUPPORTED", "OUT_OF_MEMORY", "INVALID_ARGUMENT", "DEFRAG_ERROR", "TRANSACTION_SCOPE_ERROR"}
       \subseteq Statuses \ Silent
BY DEF Statuses, Silent

LEMMA DefaultAnswers ==
  ASSUME NEW op, NEW a, a \in EngineDefault(op) \/ a \in IteratorDefault \/ a \in Blackhole(op)
  PROVE  IsAnswer(a) /\ a.text = text
<1>1. a \in {Returns("OK"), Returns("NOT_FOUND"), Returns("NOT_SUPPORTED"), Throws("NOT_SUPPORTED")}
  <2>1. CASE a \in EngineDefault(op)
      BY <2>1 DEF EngineDefault
  <2>2. CASE a \in IteratorDefault
      BY <2>2 DEF IteratorDefault
  <2>3. CASE a \in Blackhole(op)
    <3>1. a = Returns(IF op \in CountCalls \cup {"put", "remove", "seek"} \cup Makers THEN "OK" ELSE "NOT_FOUND")
        BY <2>3 DEF Blackhole
    <3>2. CASE op \in CountCalls \cup {"put", "remove", "seek"} \cup Makers
        BY <3>1, <3>2
    <3>3. CASE op \notin CountCalls \cup {"put", "remove", "seek"} \cup Makers
        BY <3>1, <3>3
    <3> QED
        BY <3>2, <3>3
  <2> QED
      BY <2>1, <2>2, <2>3
<1> QED
    BY <1>1, EveryAnswer, EveryStatus

LEMMA EngineCallAnswers ==
  ASSUME NEW t, NEW op \in EngineCalls, NEW a \in EngineAnswers(t, op)
  PROVE  IsAnswer(a) /\ (OutsideTx(t, op) \/ op \notin {"put", "remove"} => a.text = text)
<1>1. CASE ~Overrides(op) \/ base = "blackhole"
    BY <1>1, DefaultAnswers DEF EngineAnswers
<1>2. CASE Overrides(op) /\ base # "blackhole" /\ OutsideTx(t, op)
  <2>1. a = Throws("TRANSACTION_SCOPE_ERROR")
      BY <1>2 DEF EngineAnswers
  <2> QED
      BY <2>1, EveryAnswer, EveryStatus
<1>3. CASE Overrides(op) /\ base # "blackhole" /\ ~OutsideTx(t, op)
  <2> DEFINE Mild == {Returns("OK"), Returns("NOT_FOUND"), Returns("STOPPED_BY_CB"), Throws("UNKNOWN_ERROR"),
                      Throws("OUT_OF_MEMORY"), Throws("INVALID_ARGUMENT"), Throws("DEFRAG_ERROR")}
             Wild == {Returns("INVALID_ARGUMENT"), Returns("UNKNOWN_ERROR"), Writes(NoText)} \cup {Writes(v) : v \in Texts}
  <2>1. CASE op \in CountCalls \cup UpwardCalls \cup DownwardCalls
      <3>1. a \in {Returns("OK")} \cup Callback
          BY <1>3, <2>1 DEF EngineAnswers, CountCalls, UpwardCalls, DownwardCalls, Makers
      <3> QED
          BY <2>1, <3>1, EveryAnswer, EveryStatus DEF Callback, CountCalls, UpwardCalls, DownwardCalls
  <2>2. CASE op \in KeyCalls \cup {"defrag"} /\ op \notin {"put", "remove"}
      <3>1. a \in Mild
          BY <1>3, <2>2 DEF EngineAnswers, KeyCalls, CountCalls, UpwardCalls, DownwardCalls, Copies, WhenThere, Defrags
      <3> QED
          BY <3>1, EveryAnswer, EveryStatus
  <2>3. CASE op \in {"put", "remove"}
      <3>1. a \in Mild \cup Wild
          BY <1>3, <2>3 DEF EngineAnswers, CountCalls, UpwardCalls, DownwardCalls, Puts, WhenThere
      <3> QED
          BY <1>3, <2>3, <3>1, EveryAnswer, EveryStatus
  <2>4. CASE op \in Makers
      <3>1. a \in Mild
          BY <1>3, <2>4 DEF EngineAnswers, Makers, CountCalls, UpwardCalls, DownwardCalls
      <3> QED
          BY <3>1, EveryAnswer, EveryStatus
  <2> QED
      BY <2>1, <2>2, <2>3, <2>4 DEF EngineCalls
<1> QED
    BY <1>1, <1>2, <1>3

LEMMA IteratorCallAnswers ==
  ASSUME NEW op \in IteratorCalls, NEW a \in IteratorAnswers(op)
  PROVE  IsAnswer(a) /\ (op # "commit" => a.text = text)
<1>1. CASE ~Overrides(op) \/ base = "blackhole"
    BY <1>1, DefaultAnswers DEF IteratorAnswers
<1>2. CASE Overrides(op) /\ base # "blackhole"
  <2>1. CASE op # "commit"
    <3>1. a \in {Returns("OK"), Returns("NOT_FOUND"), Throws("OUT_OF_MEMORY")}
        BY <1>2, <2>1 DEF IteratorAnswers, IteratorCalls, SeekCalls, MoveCalls, ReadCalls, EditCalls, WhenThere
    <3> QED
        BY <3>1, EveryAnswer, EveryStatus
  <2>2. CASE op = "commit"
    <3>1. a \in {Writes(v) : v \in Texts} \cup {Throws("OUT_OF_MEMORY")}
        BY <1>2, <2>2 DEF IteratorAnswers, SeekCalls, MoveCalls, ReadCalls
    <3> QED
        BY <2>2, <3>1, EveryAnswer, EveryStatus
  <2> QED
      BY <2>1, <2>2
<1> QED
    BY <1>1, <1>2

LEMMA TxCallAnswers ==
  ASSUME NEW op \in TxCalls, NEW a \in TxAnswers(op)
  PROVE  IsAnswer(a) /\ (op # "tx_commit" => a.text = text)
BY EveryAnswer, EveryStatus DEF TxAnswers

-----------------------------------------------------------------------------
(* What a step of the application is to the calls.                         *)

LEMMA StepOfCalls ==
  ASSUME Next
  PROVE  \/ CallsStep
         \/ \E engine : BaseIs(engine) /\ outer = None
         \/ UNCHANGED callVars
<1>1. ASSUME NEW members \in JsonTexts, FillConfig(members) PROVE UNCHANGED callVars
    BY <1>1 DEF FillConfig
<1>2. CASE UseConfig
    BY <1>2 DEF UseConfig
<1>3. CASE OpenDatabase
    BY <1>3 DEF OpenDatabase, NobodyCalled, NoObjects
<1>4. CASE CloseDatabase
    BY <1>4 DEF CloseDatabase, NoObjects
<1>5. CASE DestroyDatabase
    BY <1>5 DEF DestroyDatabase
<1>6. CASE UseRecords
    BY <1>6 DEF UseRecords
<1>7. CASE UseResults
    BY <1>7 DEF UseResults
<1>8. CASE UseDatabase
    BY <1>8 DEF UseDatabase
<1> QED
    BY <1>1, <1>2, <1>3, <1>4, <1>5, <1>6, <1>7, <1>8 DEF Next

-----------------------------------------------------------------------------
(* The last error of a thread.                                             *)

\* What FailuresAreExplained comes from: a failure that spoke is the last
\* thing said, and its status does not keep errormsg from saying it.
MessageInv ==
  /\ last \in [Threads -> Statuses]
  /\ said \in [Threads -> {"nothing", "this", "earlier"}]
  /\ failed \in [Threads -> BOOLEAN]
  /\ \A t \in Threads : failed[t] => said[t] = "this" /\ last[t] \notin Silent

LEMMA CaughtKeepsMessages ==
  ASSUME MessageInv, NEW t \in Threads, NEW a, IsAnswer(a), Caught(t, a)
  PROVE  MessageInv'
<1>1. SaidBy(t) \in [Threads -> {"nothing", "this", "earlier"}] /\ SaidBy(t)[t] = "this"
      /\ \A u \in Threads \ {t} : SaidBy(t)[u] = said[u]
    BY DEF MessageInv, SaidBy
<1>2. Earlier(t) \in [Threads -> {"nothing", "this", "earlier"}]
      /\ \A u \in Threads \ {t} : Earlier(t)[u] = said[u]
    BY DEF MessageInv, Earlier
<1> QED
    BY <1>1, <1>2 DEF MessageInv, Caught, IsAnswer

LEMMA QuietKeepsMessages ==
  ASSUME MessageInv, NEW t \in Threads, said' = Earlier(t), failed' = [failed EXCEPT ![t] = FALSE], last' = last
  PROVE  MessageInv'
BY DEF MessageInv, Earlier

LEMMA CallKeepsMessages ==
  ASSUME MessageInv, CallsStep
  PROVE  MessageInv'
<1>1. ASSUME NEW t \in Threads, NullCall(t) \/ EndObject(t)
      PROVE  MessageInv'
    BY <1>1, QuietKeepsMessages DEF NullCall, EndObject
<1>2. ASSUME NEW t \in Threads, NEW op \in Called, EngineCall(t, op)
      PROVE  MessageInv'
    BY <1>2, CaughtKeepsMessages, EngineCallAnswers DEF EngineCall
<1>3. ASSUME NEW t \in Threads, NEW op \in Called, IteratorCall(t, op)
      PROVE  MessageInv'
    BY <1>3, CaughtKeepsMessages, IteratorCallAnswers DEF IteratorCall
<1>4. ASSUME NEW t \in Threads, NEW op \in Called, TxCall(t, op)
      PROVE  MessageInv'
    BY <1>4, CaughtKeepsMessages, TxCallAnswers DEF TxCall
<1>5. ASSUME CommitOuter \/ AbortOuter \/ \E t \in Threads : BeginOuter(t)
      PROVE  MessageInv'
    BY <1>5 DEF CommitOuter, AbortOuter, BeginOuter, MessageInv
<1> QED
    BY <1>1, <1>2, <1>3, <1>4, <1>5 DEF CallsStep

\* pmemkv_errormsg tells a thread of its own last failure, however many
\* threads call and whichever engine answers.
THEOREM FailuresAlwaysExplained == Spec => []FailuresAreExplained
<1>1. Init => MessageInv
    BY DEF Init, CallsInit, MessageInv, Statuses
<1>2. MessageInv /\ [Next]_vars => MessageInv'
  <2> SUFFICES ASSUME MessageInv, [Next]_vars PROVE MessageInv'
      OBVIOUS
  <2>1. CASE UNCHANGED callVars
      BY <2>1 DEF callVars, MessageInv
  <2>2. ASSUME NEW engine, BaseIs(engine) PROVE MessageInv'
      BY <2>2 DEF BaseIs, MessageInv
  <2>3. CASE UNCHANGED vars
      BY <2>1, <2>3 DEF vars
  <2> QED
      BY <2>1, <2>2, <2>3, CallKeepsMessages, StepOfCalls
<1>3. MessageInv => FailuresAreExplained
    BY DEF MessageInv, FailuresAreExplained, ErrorMsg, Silent
<1> QED
    BY <1>1, <1>2, <1>3, PTL DEF Spec

-----------------------------------------------------------------------------
(* The application's own transaction.                                      *)

\* What AbortTakesNothingBack comes from: such a transaction is open only
\* with an engine that has a pool, and nothing was written in it.
OuterInv == undo = None /\ (outer # None => Persistent)

LEMMA NothingWrittenInside ==
  ASSUME OuterInv, NEW t \in Threads, NEW a, Recorded(t, a), outer = t /\ outer # None => a.text = text
  PROVE  undo' = None
<1>1. CASE a.text = text
    BY <1>1 DEF OuterInv, Recorded
<1>2. CASE outer # t
    BY <1>2 DEF OuterInv, Recorded
<1> QED
    BY <1>1, <1>2, CallsAssumption

LEMMA CallKeepsOuter ==
  ASSUME ~CommitsInside, OuterInv, CallsStep
  PROVE  OuterInv' /\ (outer # None /\ outer' # outer => text' = text)
<1>1. ASSUME NEW t \in Threads, NEW op \in Called, EngineCall(t, op)
      PROVE  undo' = None
  <2>1. PICK a \in EngineAnswers(t, op) : Recorded(t, a)
      BY <1>1 DEF EngineCall
  <2>2. ASSUME outer = t, outer # None PROVE a.text = text
    <3>1. op \in {"put", "remove"} => OutsideTx(t, op)
        BY <2>2 DEF OuterInv, OutsideTx, KeyCalls
    <3> QED
        BY <1>1, <3>1, EngineCallAnswers DEF EngineCall
  <2> QED
      BY <2>1, <2>2, NothingWrittenInside
<1>2. ASSUME NEW t \in Threads, NEW op \in Called, IteratorCall(t, op)
      PROVE  undo' = None
  <2>1. PICK a \in IteratorAnswers(op) : Recorded(t, a)
      BY <1>2 DEF IteratorCall
  <2>2. ASSUME outer = t, outer # None PROVE a.text = text
      BY <1>2, <2>2, IteratorCallAnswers DEF IteratorCall, OuterInv
  <2> QED
      BY <2>1, <2>2, NothingWrittenInside
<1>3. ASSUME NEW t \in Threads, NEW op \in Called, TxCall(t, op)
      PROVE  undo' = None
  <2>1. PICK a \in TxAnswers(op) : Recorded(t, a)
      BY <1>3 DEF TxCall
  <2>2. ASSUME outer = t, outer # None PROVE a.text = text
      BY <1>3, <2>2, TxCallAnswers DEF TxCall
  <2> QED
      BY <2>1, <2>2, NothingWrittenInside
<1>4. ASSUME NEW t \in Threads, NEW op \in Called, EngineCall(t, op) \/ IteratorCall(t, op) \/ TxCall(t, op)
      PROVE  OuterInv' /\ outer' = outer
    BY <1>1, <1>2, <1>3, <1>4 DEF OuterInv, EngineCall, IteratorCall, TxCall, Persistent
<1>5. ASSUME NEW t \in Threads, NullCall(t) \/ EndObject(t)
      PROVE  OuterInv' /\ outer' = outer
    BY <1>5 DEF OuterInv, NullCall, EndObject, Persistent
<1>6. ASSUME NEW t \in Threads, BeginOuter(t)
      PROVE  OuterInv' /\ outer = None
    BY <1>6 DEF OuterInv, BeginOuter, Persistent
<1>7. CASE CommitOuter \/ AbortOuter
    BY <1>7 DEF OuterInv, CommitOuter, AbortOuter, Persistent
<1> QED
    BY <1>4, <1>5, <1>6, <1>7 DEF CallsStep

\* No put and no remove that was told OK is undone by a transaction of the
\* application, if transactions and iterators of the database commit outside.
THEOREM AbortNeverTakesBack == ASSUME ~CommitsInside PROVE Spec => AbortTakesNothingBack
<1>1. Init => OuterInv
    BY DEF Init, CallsInit, OuterInv
<1>2. ASSUME OuterInv, [Next]_vars
      PROVE  OuterInv' /\ (outer # None /\ outer' # outer => text' = text)
  <2>1. CASE UNCHANGED callVars
      BY <1>2, <2>1 DEF callVars, OuterInv, Persistent
  <2>2. ASSUME NEW engine, BaseIs(engine), outer = None
        PROVE  OuterInv' /\ outer' = None
      BY <1>2, <2>2 DEF BaseIs, OuterInv
  <2>3. CASE UNCHANGED vars
      BY <2>1, <2>3 DEF vars
  <2> QED
      BY <1>2, <2>1, <2>2, <2>3, CallKeepsOuter, StepOfCalls
<1>3. OuterInv /\ [Next]_vars => OuterInv' /\ [outer # None /\ outer' # outer => text' = text]_callVars
    BY <1>2
<1> QED
    BY <1>1, <1>3, PTL DEF Spec, AbortTakesNothingBack

-----------------------------------------------------------------------------
(* Iterators in results.                                                   *)

Holds(r) == slot[r].value # NoIterator

ResultType ==
  /\ slot \in [Slots -> [born : BOOLEAN, s : {"none", "error", "OK"}, value : RawIterators \cup {NoIterator}]]
  /\ made \subseteq RawIterators /\ owned \subseteq made

\* What IteratorsAreHeldOnce comes from, without counting: what a result has
\* exists and belongs to nobody else, and what exists belongs to somebody.
HeldInv ==
  /\ ResultType
  /\ \A r \in Slots : Holds(r) => slot[r].born /\ slot[r].s = "OK" /\ slot[r].value \in made \ owned
  /\ \A r, q \in Slots : Holds(r) /\ slot[r].value = slot[q].value => r = q
  /\ \A i \in made \ owned : \E r \in Slots : slot[r].value = i

LEMMA NewKeepsHeld ==
  ASSUME HeldInv, NEW r \in Slots, NewError(r) \/ \E i \in Iterators : NewIterator(r, i)
  PROVE  HeldInv'
<1> USE DEF HeldInv, ResultType, Holds
<1>1. CASE NewError(r)
    BY <1>1 DEF NewError, Error, Result
<1>2. ASSUME NEW i \in Iterators, NewIterator(r, i) PROVE HeldInv'
    BY <1>2, IteratorsAssumption, ResultsAssumption DEF NewIterator, Result
<1> QED
    BY <1>1, <1>2

LEMMA MoveKeepsHeld ==
  ASSUME HeldInv, NEW r \in Slots, NEW other \in Slots, MoveConstruct(r, other) \/ MoveAssign(r, other)
  PROVE  HeldInv'
<1> USE DEF HeldInv, ResultType, Holds
<1>1. CASE MoveConstruct(r, other)
    BY <1>1 DEF MoveConstruct, Error, Result
<1>2. CASE MoveAssign(r, other)
  <2>1. r # other /\ slot' = [slot EXCEPT ![r] = slot[other], ![other] = Error] /\ owned' = owned
      BY <1>2 DEF MoveAssign
  <2>2. made' = made \ {slot[r].value}
      BY <1>2, ResultsAssumption DEF MoveAssign, Replaced, Ok, Deleted
  <2>3. ResultType'
      BY <2>1, <2>2, ResultsAssumption DEF Error, Result
  <2> QED
      BY <2>1, <2>2, <2>3, ResultsAssumption DEF Error, Result
<1> QED
    BY <1>1, <1>2

LEMMA TakeKeepsHeld ==
  ASSUME HeldInv, NEW r \in Slots, TakeFromLvalue(r) \/ TakeFromRvalue(r)
  PROVE  HeldInv'
<1> USE DEF HeldInv, ResultType, Holds
<1>1. CASE TakeFromLvalue(r)
    BY <1>1 DEF TakeFromLvalue, Ok
<1>2. CASE TakeFromRvalue(r)
    BY <1>2 DEF TakeFromRvalue, Ok, Error, Result
<1> QED
    BY <1>1, <1>2

LEMMA EndKeepsHeld ==
  ASSUME HeldInv, (\E r \in Slots : Destroy(r)) \/ \E i \in RawIterators : DropIterator(i)
  PROVE  HeldInv'
<1> USE DEF HeldInv, ResultType, Holds
<1>1. ASSUME NEW r \in Slots, Destroy(r) PROVE HeldInv'
  <2>1. slot' = [slot EXCEPT ![r] = NoResult] /\ owned' = owned
      BY <1>1 DEF Destroy
  <2>2. made' = made \ {slot[r].value}
      BY <1>1, ResultsAssumption DEF Destroy, Ok, Deleted
  <2> QED
      BY <2>1, <2>2, ResultsAssumption DEF NoResult
<1>2. ASSUME NEW i \in RawIterators, DropIterator(i) PROVE HeldInv'
    BY <1>2 DEF DropIterator, Deleted
<1> QED
    BY <1>1, <1>2

LEMMA HeldOnceCounts ==
  ASSUME HeldInv, NEW i \in RawIterators
  PROVE  Cardinality({r \in Slots : Ok(r) /\ slot[r].value = i}) + Cardinality(owned \cap {i})
           = IF i \in made THEN 1 ELSE 0
<1> DEFINE Keepers == {r \in Slots : Ok(r) /\ slot[r].value = i}
           Owns == owned \cap {i}
<1>1. CASE i \notin made
  <2>1. Keepers = {} /\ Owns = {}
      BY <1>1, ResultsAssumption DEF HeldInv, ResultType, Holds
  <2>2. Cardinality(Keepers) = 0 /\ Cardinality(Owns) = 0
      BY <2>1, FS_EmptySet, Zenon
  <2> QED
      BY <1>1, <2>2
<1>2. CASE i \in owned
  <2>1. Keepers = {} /\ Owns = {i} /\ i \in made
      BY <1>2, ResultsAssumption DEF HeldInv, ResultType, Holds
  <2>2. Cardinality(Keepers) = 0 /\ Cardinality(Owns) = 1
      BY <2>1, FS_EmptySet, FS_Singleton, Zenon
  <2> QED
      BY <2>1, <2>2
<1>3. CASE i \in made \ owned
  <2>1. PICK r \in Slots : slot[r].value = i
      BY <1>3 DEF HeldInv
  <2>2. Keepers = {r} /\ Owns = {}
      BY <1>3, <2>1, ResultsAssumption DEF HeldInv, ResultType, Holds, Ok
  <2>3. Cardinality(Keepers) = 1 /\ Cardinality(Owns) = 0
      BY <2>2, FS_EmptySet, FS_Singleton, Zenon
  <2> QED
      BY <1>3, <2>3
<1> QED
    BY <1>1, <1>2, <1>3

LEMMA HeldInvInvariant == Spec => []HeldInv
<1>1. Init => HeldInv
    BY DEF Init, ResultsInit, NoResult, HeldInv, ResultType, Holds
<1>2. HeldInv /\ [Next]_vars => HeldInv'
  <2> SUFFICES ASSUME HeldInv, [Next]_vars PROVE HeldInv'
      OBVIOUS
  <2>1. CASE UNCHANGED resultVars
      BY <2>1 DEF resultVars, HeldInv, ResultType, Holds
  <2>2. CASE UseResults
      BY <2>2, NewKeepsHeld, MoveKeepsHeld, TakeKeepsHeld, EndKeepsHeld DEF UseResults, ResultsStep
  <2>3. ASSUME Next, ~UseResults PROVE UNCHANGED resultVars
      BY <2>3 DEF Next, FillConfig, UseConfig, OpenDatabase, CloseDatabase, DestroyDatabase, UseRecords, UseDatabase
  <2>4. CASE UNCHANGED vars
      BY <2>1, <2>4 DEF vars
  <2> QED
      BY <2>1, <2>2, <2>3, <2>4
<1> QED
    BY <1>1, <1>2, PTL DEF Spec

\* However many results and iterators there are: each iterator of the C API
\* will be deleted by one holder, and none is held that was deleted.
THEOREM IteratorsAlwaysHeldOnce == Spec => []IteratorsAreHeldOnce
<1>1. HeldInv => IteratorsAreHeldOnce
  <2> SUFFICES ASSUME HeldInv PROVE IteratorsAreHeldOnce
      OBVIOUS
  <2>1. \A r \in Slots : slot[r].value # NoIterator => Ok(r)
      BY DEF HeldInv, Holds, Ok
  <2> QED
      BY <2>1, HeldOnceCounts DEF IteratorsAreHeldOnce
<1> QED
    BY <1>1, HeldInvInvariant, PTL

-----------------------------------------------------------------------------
(* Engines.                                                                *)

\* Where the config and the map are among the members of an engine; 9 is nowhere.
ConfigAt(kind) == IF kind = "vcmap" THEN 1 ELSE IF kind = "keeps" THEN 2 ELSE IF kind = "vsmap" THEN 3 ELSE 9
MapAt(kind) == IF kind = "vsmap" THEN 2 ELSE IF kind = "vcmap" THEN 3 ELSE 9

IsEngine(e) ==
  /\ e \in EngineRecords
  /\ Len(e.parts) \in 1 .. Len(Members(e.kind))
  /\ \A i \in 1 .. Len(e.parts) : e.parts[i] = Members(e.kind)[i]
  /\ e.kind # "drops" => e.items \in Configs
  /\ e.cmp # NoItem => Compares(e.kind) /\ e.cmp = e.items["comparator"]
  /\ e.heap # NoItem => e.kind = "vcmap" /\ e.heap = e.items["allocator"]

Whole(e) == Len(e.parts) = Len(Members(e.kind))

LEMMA MembersOfKinds ==
  ASSUME NEW kind \in Kinds
  PROVE  /\ Members(kind) \in Seq(PartNames) /\ Len(Members(kind)) \in 1 .. 3
         /\ \A i \in 1 .. Len(Members(kind)) : Members(kind)[i] = "config" <=> i = ConfigAt(kind)
         /\ \A i \in 1 .. Len(Members(kind)) : Members(kind)[i] = "map" <=> i = MapAt(kind)
         /\ kind # "drops" => ConfigAt(kind) \in 1 .. Len(Members(kind))
         /\ MapAt(kind) \in 1 .. Len(Members(kind))
              => \E i \in 1 .. MapAt(kind) : Members(kind)[i] = "allocator"
         /\ kind = "vcmap" => ConfigAt(kind) < MapAt(kind)
<1>1. CASE kind = "vsmap"
  <2>1. Members(kind) = <<"allocator", "map", "config">> /\ ConfigAt(kind) = 3 /\ MapAt(kind) = 2
      BY <1>1 DEF Members, ConfigAt, MapAt
  <2>2. Len(Members(kind)) = 3 /\ Members(kind)[1] = "allocator" /\ Members(kind)[2] = "map" /\ Members(kind)[3] = "config"
      BY <2>1
  <2>3. Members(kind) \in Seq(PartNames)
      BY <2>1 DEF PartNames
  <2>4. \A i \in 1 .. 3 : i = 1 \/ i = 2 \/ i = 3
      OBVIOUS
  <2>5. \E i \in 1 .. MapAt(kind) : Members(kind)[i] = "allocator"
    <3>1. 1 \in 1 .. MapAt(kind)
        BY <2>1
    <3> QED
        BY <2>2, <3>1
  <2>6. \A i \in 1 .. 3 : (Members(kind)[i] = "config" <=> i = 3) /\ (Members(kind)[i] = "map" <=> i = 2)
      BY <2>2, <2>4
  <2> QED
      BY <1>1, <2>1, <2>2, <2>3, <2>5, <2>6
<1>2. CASE kind = "vcmap"
  <2>1. Members(kind) = <<"config", "allocator", "map">> /\ ConfigAt(kind) = 1 /\ MapAt(kind) = 3
      BY <1>2 DEF Members, ConfigAt, MapAt
  <2>2. Len(Members(kind)) = 3 /\ Members(kind)[1] = "config" /\ Members(kind)[2] = "allocator" /\ Members(kind)[3] = "map"
      BY <2>1
  <2>3. Members(kind) \in Seq(PartNames)
      BY <2>1 DEF PartNames
  <2>4. \A i \in 1 .. 3 : i = 1 \/ i = 2 \/ i = 3
      OBVIOUS
  <2>5. \E i \in 1 .. MapAt(kind) : Members(kind)[i] = "allocator"
    <3>1. 2 \in 1 .. MapAt(kind)
        BY <2>1
    <3> QED
        BY <2>2, <3>1
  <2> QED
      BY <1>2, <2>1, <2>2, <2>3, <2>4, <2>5
<1>3. CASE kind = "keeps"
  <2>1. Members(kind) = <<"pool", "config">> /\ ConfigAt(kind) = 2 /\ MapAt(kind) = 9
      BY <1>3 DEF Members, ConfigAt, MapAt
  <2>2. Len(Members(kind)) = 2 /\ Members(kind)[1] = "pool" /\ Members(kind)[2] = "config"
      BY <2>1
  <2>3. Members(kind) \in Seq(PartNames)
      BY <2>1 DEF PartNames
  <2>4. \A i \in 1 .. 2 : i = 1 \/ i = 2
      OBVIOUS
  <2>5. MapAt(kind) \notin 1 .. 2
      BY <2>1
  <2> QED
      BY <1>3, <2>1, <2>2, <2>3, <2>4, <2>5
<1>4. CASE kind = "drops"
  <2>1. Members(kind) = <<"pool">> /\ ConfigAt(kind) = 9 /\ MapAt(kind) = 9
      BY <1>4 DEF Members, ConfigAt, MapAt
  <2>2. Len(Members(kind)) = 1 /\ Members(kind)[1] = "pool"
      BY <2>1
  <2>3. Members(kind) \in Seq(PartNames)
      BY <2>1 DEF PartNames
  <2>4. \A i \in 1 .. 1 : i = 1
      OBVIOUS
  <2>5. MapAt(kind) \notin 1 .. 1
      BY <2>1
  <2> QED
      BY <1>4, <2>1, <2>2, <2>3, <2>4, <2>5
<1> QED
    BY <1>1, <1>2, <1>3, <1>4 DEF Kinds

LEMMA AtMostThree ==
  ASSUME NEW m \in 1 .. 3
  PROVE  m \in 1 .. m /\ \A n \in 1 .. m : n \in 1 .. 3 /\ ~(9 <= n)
OBVIOUS

LEMMA PartsOfEngines ==
  ASSUME NEW e, e # NoEngine, IsEngine(e)
  PROVE  /\ Has(e, "config") <=> ConfigAt(e.kind) <= Len(e.parts)
         /\ Has(e, "map") <=> MapAt(e.kind) <= Len(e.parts)
         /\ Has(e, "map") => Has(e, "allocator")
         /\ Has(e, "config") => e.items \in Configs
<1>1. e.kind \in Kinds /\ DOMAIN e.parts = 1 .. Len(e.parts) /\ Len(e.parts) \in 1 .. 3
      /\ Len(e.parts) \in 1 .. Len(Members(e.kind)) /\ Len(Members(e.kind)) \in 1 .. 3
  <2>1. e.kind \in Kinds /\ e.parts \in Seq(PartNames) /\ Len(e.parts) \in 1 .. Len(Members(e.kind))
      BY DEF IsEngine, EngineRecords
  <2>2. Len(Members(e.kind)) \in 1 .. 3
      BY <2>1, MembersOfKinds
  <2>3. Len(e.parts) \in 1 .. 3
      BY <2>1, <2>2, AtMostThree, Zenon
  <2>4. DOMAIN e.parts = 1 .. Len(e.parts)
      BY <2>1
  <2> QED
      BY <2>1, <2>2, <2>3, <2>4
<1>2. ConfigAt(e.kind) \in 1 .. 9 /\ MapAt(e.kind) \in 1 .. 9
    BY DEF ConfigAt, MapAt
<1>3. \A i \in 1 .. Len(e.parts) : /\ e.parts[i] = Members(e.kind)[i]
                                   /\ e.parts[i] = "config" <=> i = ConfigAt(e.kind)
                                   /\ e.parts[i] = "map" <=> i = MapAt(e.kind)
    BY <1>1, MembersOfKinds DEF IsEngine
<1>4. Has(e, "config") <=> ConfigAt(e.kind) <= Len(e.parts)
    BY <1>1, <1>2, <1>3 DEF Has
<1>5. Has(e, "map") <=> MapAt(e.kind) <= Len(e.parts)
    BY <1>1, <1>2, <1>3 DEF Has
<1>6. ASSUME Has(e, "map") PROVE Has(e, "allocator")
  <2>1. MapAt(e.kind) \in 1 .. Len(Members(e.kind)) /\ MapAt(e.kind) <= Len(e.parts)
      BY <1>1, <1>2, <1>5, <1>6
  <2>2. PICK i \in 1 .. MapAt(e.kind) : Members(e.kind)[i] = "allocator"
      BY <1>1, <2>1, MembersOfKinds
  <2>3. i \in 1 .. Len(e.parts) /\ e.parts[i] = "allocator"
      BY <1>1, <1>2, <1>3, <2>1, <2>2
  <2> QED
      BY <1>1, <2>3 DEF Has
<1>7. ASSUME e.kind = "drops" PROVE ~Has(e, "config")
  <2>1. ConfigAt(e.kind) = 9
      BY <1>7 DEF ConfigAt
  <2>2. ~(9 <= Len(e.parts))
      BY <1>1, AtMostThree, Zenon
  <2> QED
      BY <1>4, <2>1, <2>2
<1> QED
    BY <1>4, <1>5, <1>6, <1>7 DEF IsEngine

LEMMA EngineIsEngine ==
  ASSUME NEW kind \in Kinds, NEW c \in Configs, kind = "vcmap" => c["allocator"] \in Objects,
         Compares(kind) => c["comparator"] # Plain
  PROVE  /\ IsEngine(Engine(kind, c)) /\ Whole(Engine(kind, c)) /\ Engine(kind, c) # NoEngine
         /\ HeldBy(Engine(kind, c)) = IF kind = "drops" THEN {} ELSE ObjectsIn(c)
<1> DEFINE e == Engine(kind, c)
<1>1. /\ e.kind = kind /\ e.parts = Members(kind)
      /\ e.items = IF kind = "drops" THEN NullConfig ELSE c
      /\ e.cmp = IF Compares(kind) THEN c["comparator"] ELSE NoItem
      /\ e.heap = IF kind = "vcmap" THEN c["allocator"] ELSE NoItem
    BY DEF Engine
<1>2. c["comparator"] \in Objects \cup {NoItem, Plain} /\ (Compares(kind) => kind # "drops")
    BY HandlesAssumption DEF Configs, Compares
<1>3. IsEngine(e) /\ Whole(e)
  <2>1. Len(Members(kind)) \in 1 .. 3 /\ Members(kind) \in Seq(PartNames)
      BY MembersOfKinds
  <2>2. e.cmp \in Objects \cup {NoItem} /\ (e.cmp # NoItem => Compares(kind) /\ e.cmp = e.items["comparator"])
      BY <1>1, <1>2
  <2>3. e.heap \in Objects \cup {NoItem} /\ (e.heap # NoItem => kind = "vcmap" /\ e.heap = e.items["allocator"])
      BY <1>1
  <2>4. e.items \in Configs \cup {NullConfig} /\ (kind # "drops" => e.items \in Configs)
      BY <1>1
  <2>5. e = [kind |-> e.kind, items |-> e.items, cmp |-> e.cmp, heap |-> e.heap, parts |-> e.parts]
      BY DEF Engine
  <2> QED
    <3>1. e \in EngineRecords
        BY <1>1, <2>1, <2>2, <2>3, <2>4, <2>5 DEF EngineRecords
    <3>2. \A i \in 1 .. Len(e.parts) : e.parts[i] = Members(e.kind)[i]
        BY <1>1
    <3>3. Len(e.parts) \in 1 .. Len(Members(e.kind)) /\ Whole(e)
      <4>1. Len(e.parts) = Len(Members(e.kind)) /\ Len(Members(e.kind)) \in 1 .. 3
          BY <1>1, <2>1
      <4>2. Len(Members(e.kind)) \in 1 .. Len(Members(e.kind))
          BY <4>1, AtMostThree, Zenon
      <4> QED
          BY <4>1, <4>2, Zenon DEF Whole
    <3> HIDE DEF e
    <3> QED
        BY <1>1, <2>2, <2>3, <2>4, <3>1, <3>2, <3>3 DEF IsEngine
<1>4. e # NoEngine
    BY <1>3, EngineAssumption DEF IsEngine
<1>5. HeldBy(e) = IF kind = "drops" THEN {} ELSE ObjectsIn(c)
  <2>1. Has(e, "config") <=> ConfigAt(kind) <= Len(Members(kind))
      BY <1>1, <1>4, <1>3, PartsOfEngines
  <2>2. Has(e, "config") <=> kind # "drops"
      BY <2>1, MembersOfKinds DEF ConfigAt
  <2> QED
      BY <1>1, <2>2 DEF HeldBy
<1> QED
    BY <1>4, <1>3, <1>5

-----------------------------------------------------------------------------
(* Configs.                                                                *)

LEMMA EmptyConfigs ==
  /\ ObjectsIn(NullConfig) = {}
  /\ NoItems \in Configs /\ ObjectsIn(NoItems) = {}
  /\ \A c \in Configs : c # NullConfig
<1>1. NoItems \in Configs /\ \A c \in Configs : c # NullConfig
    BY HandlesAssumption DEF NoItems, Configs
<1> QED
    BY <1>1, HandlesAssumption DEF ObjectsIn, NoItems

LEMMA ConfigWith ==
  ASSUME NEW c \in Configs, NEW k \in ItemKeys, c[k] = NoItem, NEW item \in Objects \cup {Plain}
  PROVE  /\ [c EXCEPT ![k] = item] \in Configs
         /\ ObjectsIn([c EXCEPT ![k] = item]) = ObjectsIn(c) \cup ({item} \cap Objects)
<1>1. [c EXCEPT ![k] = item] \in Configs
    BY DEF Configs
<1>2. c # NullConfig /\ [c EXCEPT ![k] = item] # NullConfig
    BY <1>1, EmptyConfigs
<1> QED
    BY <1>1, <1>2, HandlesAssumption DEF ObjectsIn, Configs

LEMMA ConfigFromNull ==
  ASSUME config \in Configs \cup {NullConfig}
  PROVE  Initialized(config) \in Configs /\ ObjectsIn(Initialized(config)) = ObjectsIn(config)
BY EmptyConfigs DEF Initialized

-----------------------------------------------------------------------------
(* Who has what.                                                           *)

HandleType ==
  /\ config \in Configs \cup {NullConfig}
  /\ db # NoEngine => IsEngine(db) /\ Whole(db)
  /\ closing # NoEngine => IsEngine(closing)

\* What OwnedOnce and UsedIsAlive come from: the config, the open engine and
\* the closing one have disjoint sets of objects, together all that was given.
OwnInv ==
  /\ HandleType
  /\ given \subseteq alive
  /\ given = ObjectsIn(config) \cup HeldBy(db) \cup HeldBy(closing)
  /\ ObjectsIn(config) \cap HeldBy(db) = {}
  /\ ObjectsIn(config) \cap HeldBy(closing) = {}
  /\ HeldBy(db) \cap HeldBy(closing) = {}

LEMMA NoEngineHolds == HeldBy(NoEngine) = {}
BY DEF HeldBy, Has

\* A config that gets objects nobody has.
LEMMA GivenToConfig ==
  ASSUME OwnInv, NEW c \in Configs, NEW new, ObjectsIn(c) = ObjectsIn(config) \cup new, new \cap alive = {},
         config' = c, given' = given \cup new, alive \cup new \subseteq alive', UNCHANGED <<db, closing>>
  PROVE  OwnInv'
<1>1. HandleType'
    BY DEF OwnInv, HandleType
<1>2. ObjectsIn(config') = ObjectsIn(config) \cup new /\ HeldBy(db') = HeldBy(db) /\ HeldBy(closing') = HeldBy(closing)
    OBVIOUS
<1> QED
    BY <1>1, <1>2 DEF OwnInv

LEMMA EmplaceKeeps ==
  ASSUME OwnInv, NEW c \in Configs, ObjectsIn(c) = ObjectsIn(config), NEW k \in ItemKeys, NEW o \in Objects, o \notin alive,
         NEW left, Emplace(c, k, o, left), UNCHANGED <<db, closing>>
  PROVE  OwnInv'
<1>1. CASE c[k] = NoItem
  <2>1. config' = [c EXCEPT ![k] = o] /\ alive' = alive \cup {o} /\ given' = given \cup {o}
      BY <1>1 DEF Emplace
  <2>2. [c EXCEPT ![k] = o] \in Configs /\ ObjectsIn([c EXCEPT ![k] = o]) = ObjectsIn(config) \cup {o}
    <3>1. /\ [c EXCEPT ![k] = o] \in Configs
          /\ ObjectsIn([c EXCEPT ![k] = o]) = ObjectsIn(c) \cup ({o} \cap Objects)
        BY <1>1, ConfigWith, ZenonT(30)
    <3> QED
        BY <3>1
  <2>3. {o} \cap alive = {} /\ alive \cup {o} \subseteq alive'
      BY <2>1
  <2> DEFINE d == [c EXCEPT ![k] = o]
  <2>4. d \in Configs /\ ObjectsIn(d) = ObjectsIn(config) \cup {o} /\ config' = d
      BY <2>1, <2>2
  <2> HIDE DEF d
  <2> QED
      BY <2>1, <2>3, <2>4, GivenToConfig
<1>2. CASE c[k] # NoItem
  <2>1. config' = c /\ alive' = alive \cup left /\ given' = given
      BY <1>2 DEF Emplace
  <2>2. ObjectsIn(c) = ObjectsIn(config) \cup {} /\ given' = given \cup {} /\ alive \cup {} \subseteq alive'
      BY <2>1
  <2> QED
      BY <2>1, <2>2, GivenToConfig
<1> QED
    BY <1>1, <1>2

LEMMA ConfigStepKeeps ==
  ASSUME OwnInv, ConfigStep
  PROVE  OwnInv'
<1>0. config \in Configs \cup {NullConfig}
    BY DEF OwnInv, HandleType
<1>1. CASE ConfigNew
  <2>1. ObjectsIn(NoItems) = ObjectsIn(config) \cup {} /\ given' = given \cup {} /\ alive \cup {} \subseteq alive'
      BY <1>1, EmptyConfigs DEF ConfigNew
  <2> QED
      BY <1>1, <2>1, EmptyConfigs, GivenToConfig DEF ConfigNew
<1>2. CASE ConfigDelete
  <2>1. config' = NullConfig /\ given' = given \ ObjectsIn(config) /\ alive' = alive \ ObjectsIn(config)
        /\ db' = db /\ closing' = closing
      BY <1>2 DEF ConfigDelete, Freed
  <2>2. HandleType' /\ ObjectsIn(config') = {} /\ HeldBy(db') = HeldBy(db) /\ HeldBy(closing') = HeldBy(closing)
      BY <2>1, EmptyConfigs DEF OwnInv, HandleType
  <2> QED
      BY <2>1, <2>2 DEF OwnInv
<1>3. ASSUME NEW k \in ItemKeys, PutPlain(k) PROVE OwnInv'
  <2> DEFINE c == Initialized(config)
  <2>1. c \in Configs /\ ObjectsIn(c) = ObjectsIn(config)
      BY <1>0, ConfigFromNull
  <2>2. config' = IF c[k] = NoItem THEN [c EXCEPT ![k] = Plain] ELSE c
      BY <1>3 DEF PutPlain
  <2>3. c[k] = NoItem => /\ [c EXCEPT ![k] = Plain] \in Configs
                         /\ ObjectsIn([c EXCEPT ![k] = Plain]) = ObjectsIn(config)
      BY <2>1, ConfigWith, HandlesAssumption
  <2>4. config' \in Configs /\ ObjectsIn(config') = ObjectsIn(config) \cup {}
      BY <2>1, <2>2, <2>3
  <2> HIDE DEF c
  <2> QED
      BY <1>3, <2>4, GivenToConfig DEF PutPlain
<1>4. ASSUME NEW k \in ItemKeys, NEW o \in Others, PutObject(k, o) \/ PutUnique(k, o) PROVE OwnInv'
  <2>1. PICK left \in SUBSET {o} : Emplace(Initialized(config), k, o, left)
      BY <1>4 DEF PutObject, PutUnique
  <2> QED
      BY <1>0, <1>4, <2>1, ConfigFromNull, EmplaceKeeps DEF PutObject, PutUnique, Objects
<1>5. ASSUME NEW o \in Comparators, PutComparator(o) PROVE OwnInv'
  <2>1. CASE config = NullConfig
      BY <1>5, <2>1 DEF PutComparator, OwnInv, HandleType
  <2>2. CASE config # NullConfig
      BY <1>0, <1>5, <2>2, EmplaceKeeps, HandlesAssumption DEF PutComparator, Objects
  <2> QED
      BY <2>1, <2>2
<1>6. ASSUME NEW o \in Others, DeleteOwn(o) PROVE OwnInv'
    BY <1>6 DEF DeleteOwn, OwnInv, HandleType
<1> QED
    BY <1>1, <1>2, <1>3, <1>4, <1>5, <1>6 DEF ConfigStep

LEMMA FromJsonKeeps ==
  ASSUME OwnInv, NEW members \in JsonTexts, FromJson(members)
  PROVE  OwnInv'
<1> DEFINE put(n) == {members[i] : i \in 1 .. n}
           new(n) == {m.item : m \in put(n)} \cap Objects
           next(n) == [k \in ItemKeys |-> IF \E m \in put(n) : m.key = k THEN (CHOOSE m \in put(n) : m.key = k).item ELSE config[k]]
<1>1. PICK n \in 0 .. Len(members) :
        /\ \A i \in 1 .. n : /\ members[i].item # Bad /\ config[members[i].key] = NoItem
                             /\ \A j \in 1 .. i - 1 : members[j].key # members[i].key
        /\ config' = next(n) /\ alive' = alive \cup new(n) /\ given' = given \cup new(n)
    BY DEF FromJson
<1>2. config \in Configs
    BY DEF FromJson, OwnInv, HandleType
<1>3. \A i \in 1 .. n : members[i] \in [key : ItemKeys, item : Objects \cup {Plain, Bad}] /\ members[i].item \notin alive
  <2> DEFINE Member == [key : ItemKeys, item : Objects \cup {Plain, Bad}]
  <2>1. members \in Seq(Member)
      BY JsonTextsAssumption
  <2> HIDE DEF Member
  <2>2. 1 .. n \subseteq DOMAIN members
      BY <2>1
  <2>3. \A i \in DOMAIN members : members[i].item \notin alive
      BY DEF FromJson
  <2>4. \A i \in DOMAIN members : members[i] \in Member
      BY <2>1
  <2> QED
      BY <2>2, <2>3, <2>4 DEF Member
<1>4. \A i, j \in 1 .. n : members[i].key = members[j].key => i = j
  <2> SUFFICES ASSUME NEW i \in 1 .. n, NEW j \in 1 .. n, members[i].key = members[j].key, i # j PROVE FALSE
      OBVIOUS
  <2>1. CASE j < i
      BY <1>1, <2>1
  <2>2. CASE i < j
      BY <1>1, <2>2
  <2> QED
      BY <2>1, <2>2
<1>5. \A i \in 1 .. n : next(n)[members[i].key] = members[i].item
  <2> SUFFICES ASSUME NEW i \in 1 .. n PROVE next(n)[members[i].key] = members[i].item
      OBVIOUS
  <2> DEFINE found == CHOOSE m \in put(n) : m.key = members[i].key
  <2>1. members[i] \in put(n) /\ members[i].key \in ItemKeys
      BY <1>3
  <2>2. found \in put(n) /\ found.key = members[i].key
      BY <2>1
  <2>3. found = members[i]
      BY <1>4, <2>2
  <2> QED
      BY <2>1, <2>3
<1>6. \A k \in ItemKeys : (\A i \in 1 .. n : members[i].key # k) => next(n)[k] = config[k]
    OBVIOUS
<1>7. \A i \in 1 .. n : members[i].item \in Objects \cup {Plain} /\ members[i].key \in ItemKeys
    BY <1>1, <1>3
<1>8. DOMAIN next(n) = ItemKeys /\ next(n) = [k \in ItemKeys |-> next(n)[k]]
    OBVIOUS
<1>9. new(n) = {members[i].item : i \in 1 .. n} \cap Objects
    OBVIOUS
<1> HIDE DEF next, new, put
<1>10. next(n) \in Configs
  <2>1. \A k \in ItemKeys : next(n)[k] \in Objects \cup {NoItem, Plain}
      BY <1>2, <1>5, <1>6, <1>7 DEF Configs
  <2> QED
      BY <1>8, <2>1 DEF Configs
<1>11. ObjectsIn(next(n)) = ObjectsIn(config) \cup new(n)
  <2>1. next(n) # NullConfig /\ config # NullConfig
      BY <1>2, <1>10, EmptyConfigs
  <2>2. ASSUME NEW o \in ObjectsIn(next(n)) PROVE o \in ObjectsIn(config) \cup new(n)
    <3>1. PICK k \in ItemKeys : o = next(n)[k] /\ o \in Objects
        BY <2>1, <2>2 DEF ObjectsIn
    <3>2. CASE \E i \in 1 .. n : members[i].key = k
        BY <1>5, <1>9, <3>1, <3>2
    <3>3. CASE \A i \in 1 .. n : members[i].key # k
        BY <1>6, <2>1, <3>1, <3>3 DEF ObjectsIn
    <3> QED
        BY <3>2, <3>3
  <2>3. ASSUME NEW o \in ObjectsIn(config) PROVE o \in ObjectsIn(next(n))
    <3>1. PICK k \in ItemKeys : o = config[k] /\ o \in Objects
        BY <2>1, <2>3 DEF ObjectsIn
    <3>2. \A i \in 1 .. n : members[i].key # k
        BY <1>1, <3>1, HandlesAssumption
    <3> QED
        BY <1>6, <2>1, <3>1, <3>2 DEF ObjectsIn
  <2>4. ASSUME NEW o \in new(n) PROVE o \in ObjectsIn(next(n))
    <3>1. PICK i \in 1 .. n : o = members[i].item /\ o \in Objects
        BY <1>9, <2>4
    <3> QED
        BY <1>5, <1>7, <2>1, <3>1 DEF ObjectsIn
  <2> QED
      BY <2>2, <2>3, <2>4
<1>12. new(n) \cap alive = {} /\ alive \cup new(n) \subseteq alive'
    BY <1>1, <1>3, <1>9
<1> QED
    BY <1>1, <1>10, <1>11, <1>12, GivenToConfig DEF FromJson

LEMMA OpenFailsKeeps ==
  ASSUME OwnInv, NEW kind \in Kinds, OpenFails(kind)
  PROVE  OwnInv'
<1>1. config' = NullConfig /\ given' = given \ ObjectsIn(config) /\ alive' = alive \ ObjectsIn(config)
      /\ db' = db /\ closing' = closing
    BY DEF OpenFails, Released, Freed
<1>2. HandleType' /\ ObjectsIn(config') = {} /\ HeldBy(db') = HeldBy(db) /\ HeldBy(closing') = HeldBy(closing)
    BY <1>1, EmptyConfigs DEF OwnInv, HandleType
<1> QED
    BY <1>1, <1>2 DEF OwnInv

\* What an engine of this kind is handed by open.
Handed(kind, h) == ObjectsIn(config) \cup (IF kind = "vcmap" THEN {h} ELSE {})

LEMMA OpenSucceedsMakes ==
  ASSUME OwnInv, NEW kind \in Kinds, NEW h \in Heaps, OpenSucceeds(kind, h)
  PROVE  /\ closing = NoEngine /\ closing' = db /\ config' = NullConfig /\ db' # NoEngine
         /\ IsEngine(db') /\ Whole(db')
         /\ kind = "vcmap" => h \notin alive
         /\ HeldBy(db') = IF kind = "drops" THEN {} ELSE Handed(kind, h)
         /\ alive' = IF kind = "drops" THEN alive \ Handed(kind, h) ELSE alive \cup Handed(kind, h)
         /\ given' = IF kind = "drops" THEN given \ Handed(kind, h) ELSE given \cup Handed(kind, h)
<1> DEFINE c == Equipped(kind, config, h)
<1>1. config \in Configs /\ (Compares(kind) => config["comparator"] # Plain) /\ (kind = "vcmap" => config["allocator"] = NoItem /\ h \notin alive)
      /\ closing = NoEngine
    BY DEF OpenSucceeds, Refuses, Ready, OwnInv, HandleType
<1>2. h \in Objects /\ "allocator" \in ItemKeys
    BY HandlesAssumption DEF Objects
<1>3. c \in Configs /\ ObjectsIn(c) = ObjectsIn(config) \cup (IF kind = "vcmap" THEN {h} ELSE {})
  <2>1. CASE kind = "vcmap"
    <3>1. /\ [config EXCEPT !["allocator"] = h] \in Configs
          /\ ObjectsIn([config EXCEPT !["allocator"] = h]) = ObjectsIn(config) \cup ({h} \cap Objects)
        BY <1>1, <1>2, <2>1, ConfigWith
    <3> QED
        BY <1>2, <2>1, <3>1 DEF Equipped
  <2>2. CASE kind # "vcmap"
      BY <1>1, <2>2 DEF Equipped
  <2> QED
      BY <2>1, <2>2
<1>4. (kind = "vcmap" => c["allocator"] \in Objects) /\ (Compares(kind) => c["comparator"] # Plain)
  <2>1. kind = "vcmap" => c["allocator"] = h /\ ~Compares(kind)
      BY <1>1, <1>2 DEF Equipped, Compares, Configs
  <2>2. kind # "vcmap" => c = config
      BY DEF Equipped
  <2> QED
      BY <1>1, <1>2, <2>1, <2>2
<1>5. /\ db' = Engine(kind, c) /\ closing' = db /\ config' = NullConfig
      /\ alive' = IF kind = "drops" THEN alive \ ObjectsIn(c) ELSE alive \cup ObjectsIn(c)
      /\ given' = IF kind = "drops" THEN given \ ObjectsIn(c) ELSE given \cup ObjectsIn(c)
    BY DEF OpenSucceeds, Released
<1> HIDE DEF c
<1>6. IsEngine(db') /\ Whole(db') /\ db' # NoEngine /\ HeldBy(db') = IF kind = "drops" THEN {} ELSE ObjectsIn(c)
    BY <1>3, <1>4, <1>5, EngineIsEngine
<1>7. ObjectsIn(c) = Handed(kind, h)
    BY <1>3 DEF Handed
<1> QED
    BY <1>1, <1>5, <1>6, <1>7

LEMMA OpenSucceedsKeeps ==
  ASSUME OwnInv, NEW kind \in Kinds, NEW h \in Heaps, OpenSucceeds(kind, h)
  PROVE  OwnInv'
<1>1. closing = NoEngine /\ closing' = db /\ config' = NullConfig /\ IsEngine(db') /\ Whole(db')
    BY OpenSucceedsMakes
<1>2. /\ kind = "vcmap" => h \notin alive
      /\ HeldBy(db') = IF kind = "drops" THEN {} ELSE Handed(kind, h)
      /\ alive' = IF kind = "drops" THEN alive \ Handed(kind, h) ELSE alive \cup Handed(kind, h)
      /\ given' = IF kind = "drops" THEN given \ Handed(kind, h) ELSE given \cup Handed(kind, h)
    BY OpenSucceedsMakes
<1>3. HandleType'
    BY <1>1 DEF OwnInv, HandleType
<1>4. ObjectsIn(config') = {} /\ HeldBy(closing') = HeldBy(db) /\ HeldBy(closing) = {}
    BY <1>1, EmptyConfigs, NoEngineHolds
<1>5. CASE kind = "drops"
    BY <1>2, <1>3, <1>4, <1>5 DEF OwnInv, Handed
<1>6. CASE kind # "drops"
    BY <1>2, <1>3, <1>4, <1>6 DEF OwnInv, Handed
<1> QED
    BY <1>5, <1>6

LEMMA CloseKeeps ==
  ASSUME OwnInv, Close
  PROVE  OwnInv'
<1>1. db' = NoEngine /\ closing' = db /\ closing = NoEngine /\ UNCHANGED <<config, alive, given>>
    BY DEF Close, Ready
<1>2. HandleType'
    BY <1>1 DEF OwnInv, HandleType
<1>3. HeldBy(db') = {} /\ HeldBy(closing') = HeldBy(db) /\ HeldBy(closing) = {}
    BY <1>1, NoEngineHolds
<1> QED
    BY <1>1, <1>2, <1>3 DEF OwnInv

\* The parts that are left when one of at most three is gone.
LEMMA OneLess == \A m \in 1 .. 3 : m # 1 => m - 1 \in Int /\ 1 <= m - 1
  OBVIOUS

LEMMA DestroyMemberKeeps ==
  ASSUME OwnInv, DestroyMember
  PROVE  OwnInv'
<1> DEFINE n == Len(closing.parts)
           shorter == SubSeq(closing.parts, 1, n - 1)
           rest == [closing EXCEPT !.parts = shorter]
<1>1. IsEngine(closing) /\ closing # NoEngine /\ closing.parts \in Seq(PartNames) /\ closing.kind \in Kinds
    BY DEF DestroyMember, OwnInv, HandleType, IsEngine, EngineRecords
<1>2. Len(Members(closing.kind)) \in 1 .. 3 /\ n \in 1 .. Len(Members(closing.kind))
    BY <1>1, MembersOfKinds DEF IsEngine
<1>3. ConfigAt(closing.kind) \in 1 .. 9 /\ n \in 1 .. 3
  <2>1. ConfigAt(closing.kind) \in 1 .. 9
      BY DEF ConfigAt
  <2>2. n \in 1 .. 3
      BY <1>2, AtMostThree, Zenon
  <2> QED
      BY <2>1, <2>2
<1>4. /\ closing' = IF n = 1 THEN NoEngine ELSE rest
      /\ config' = config /\ db' = db
      /\ closing.parts[n] = "config" => given' = given \ ObjectsIn(closing.items) /\ alive' = alive \ ObjectsIn(closing.items)
      /\ closing.parts[n] # "config" => given' = given /\ alive' = alive
    BY DEF DestroyMember, Freed
<1>5. closing.parts[n] = "config" <=> n = ConfigAt(closing.kind)
  <2>1. closing.parts[n] = Members(closing.kind)[n]
      BY <1>1, <1>3 DEF IsEngine
  <2> QED
      BY <1>1, <1>2, <2>1, MembersOfKinds
<1>6. Has(closing, "config") <=> ConfigAt(closing.kind) <= n
    BY <1>1, PartsOfEngines
<1>7. ASSUME n # 1
      PROVE  /\ IsEngine(rest) /\ rest.kind = closing.kind /\ rest.items = closing.items
             /\ Len(rest.parts) = n - 1
  <2>1. \A i \in 1 .. n - 1 : closing.parts[i] \in PartNames
      BY <1>1
  <2>2. n - 1 \in Int /\ 1 <= n - 1
      BY <1>3, <1>7, OneLess, Zenon
  <2>3. shorter \in Seq(PartNames) /\ Len(shorter) = n - 1 /\ \A i \in 1 .. n - 1 : shorter[i] = closing.parts[i]
      BY <2>1, <2>2, SubSeqProperties
  <2>4. /\ rest.kind = closing.kind /\ rest.items = closing.items /\ rest.cmp = closing.cmp /\ rest.heap = closing.heap
        /\ rest.parts = shorter
        /\ rest \in EngineRecords
      BY <1>1, <2>3 DEF IsEngine, EngineRecords
  <2>5. n - 1 \in 1 .. Len(Members(closing.kind)) /\ 1 .. n - 1 \subseteq 1 .. n
      BY <1>2, <1>3, <2>2
  <2> HIDE DEF shorter, rest
  <2> QED
      BY <1>1, <2>3, <2>4, <2>5 DEF IsEngine
<1>8. HandleType'
    BY <1>4, <1>7 DEF OwnInv, HandleType
<1> HIDE DEF rest
<1>9. HeldBy(closing') = IF n = ConfigAt(closing.kind) THEN {} ELSE HeldBy(closing)
  <2>1. CASE n = 1
    <3>1. HeldBy(closing') = {}
        BY <1>4, <2>1, NoEngineHolds
    <3>2. ConfigAt(closing.kind) # 1 => ~Has(closing, "config")
        BY <1>3, <1>6, <2>1
    <3> QED
        BY <2>1, <3>1, <3>2 DEF HeldBy
  <2>2. CASE n # 1
    <3>1. rest # NoEngine
        BY <1>7, <2>2, EngineAssumption DEF IsEngine
    <3>2. Has(rest, "config") <=> ConfigAt(closing.kind) <= n - 1
        BY <1>7, <2>2, <3>1, PartsOfEngines
    <3> QED
        BY <1>3, <1>4, <1>6, <1>7, <2>2, <3>2 DEF HeldBy
  <2> QED
      BY <2>1, <2>2
<1>10. n = ConfigAt(closing.kind) => HeldBy(closing) = ObjectsIn(closing.items)
    BY <1>3, <1>6 DEF HeldBy
<1>11. CASE n = ConfigAt(closing.kind)
    BY <1>4, <1>5, <1>8, <1>9, <1>10, <1>11 DEF OwnInv
<1>12. CASE n # ConfigAt(closing.kind)
    BY <1>4, <1>5, <1>8, <1>9, <1>12 DEF OwnInv
<1> QED
    BY <1>11, <1>12

-----------------------------------------------------------------------------
(* Theorems.                                                               *)

\* What a step of the application is to the handles.
LEMMA StepOfHandles ==
  ASSUME Next
  PROVE  \/ ConfigStep \/ \E members \in JsonTexts : FromJson(members)
         \/ (\E kind \in Kinds, h \in Heaps : OpenSucceeds(kind, h)) \/ \E kind \in Kinds : OpenFails(kind)
         \/ Close \/ DestroyMember \/ UNCHANGED handleVars
BY DEF Next, FillConfig, UseConfig, OpenDatabase, CloseDatabase, DestroyDatabase, UseRecords, UseResults, UseDatabase

LEMMA OwnInvInvariant == Spec => []OwnInv
<1>1. Init => OwnInv
    BY EmptyConfigs, NoEngineHolds DEF Init, HandlesInit, OwnInv, HandleType
<1>2. OwnInv /\ [Next]_vars => OwnInv'
  <2> SUFFICES ASSUME OwnInv, [Next]_vars PROVE OwnInv'
      OBVIOUS
  <2>1. CASE UNCHANGED handleVars
      BY <2>1 DEF handleVars, OwnInv, HandleType
  <2>2. CASE UNCHANGED vars
      BY <2>1, <2>2 DEF vars
  <2> QED
      BY <2>1, <2>2, StepOfHandles, ConfigStepKeeps, FromJsonKeeps, OpenSucceedsKeeps, OpenFailsKeeps, CloseKeeps,
         DestroyMemberKeeps
<1> QED
    BY <1>1, <1>2, PTL DEF Spec

LEMMA HoldersOfObject ==
  ASSUME OwnInv, NEW o \in Objects
  PROVE  Cardinality(Holders(o)) = IF o \in given THEN 1 ELSE 0
<1>1. CASE o \notin given
  <2>1. Holders(o) = {}
      BY <1>1 DEF OwnInv, Holders
  <2> QED
      BY <1>1, <2>1, FS_EmptySet, Zenon
<1>2. CASE o \in ObjectsIn(config)
  <2>1. Holders(o) = {1} /\ o \in given
      BY <1>2 DEF OwnInv, Holders
  <2> QED
      BY <2>1, FS_Singleton, Zenon
<1>3. CASE o \in HeldBy(db)
  <2>1. Holders(o) = {2} /\ o \in given
      BY <1>3 DEF OwnInv, Holders
  <2> QED
      BY <2>1, FS_Singleton, Zenon
<1>4. CASE o \in HeldBy(closing)
  <2>1. Holders(o) = {3} /\ o \in given
      BY <1>4 DEF OwnInv, Holders
  <2> QED
      BY <2>1, FS_Singleton, Zenon
<1> QED
    BY <1>1, <1>2, <1>3, <1>4 DEF OwnInv

\* The deleter of each object runs once, whichever calls fail and whatever a
\* JSON text holds.
THEOREM ObjectsAlwaysOwnedOnce == Spec => []OwnedOnce
<1>1. OwnInv => OwnedOnce
  <2> SUFFICES ASSUME OwnInv PROVE OwnedOnce
      OBVIOUS
  <2>1. \A o \in Objects : Cardinality(Holders(o)) = IF o \in given THEN 1 ELSE 0
      BY HoldersOfObject
  <2>2. given \subseteq alive
      BY DEF OwnInv
  <2> QED
      BY <2>1, <2>2 DEF OwnedOnce
<1> QED
    BY <1>1, OwnInvInvariant, PTL

LEMMA ItemsAreHeld ==
  ASSUME NEW e, e # NoEngine, IsEngine(e), Has(e, "config"), NEW k \in ItemKeys, e.items[k] \in Objects
  PROVE  e.items[k] \in HeldBy(e)
<1>1. e.items \in Configs /\ e.items # NullConfig
    BY PartsOfEngines, EmptyConfigs
<1> QED
    BY <1>1 DEF HeldBy, ObjectsIn

\* No engine uses a comparator, and no map an allocator, that was freed.
THEOREM UsedIsAlwaysAlive == Spec => []UsedIsAlive
<1>1. ASSUME OwnInv, db # NoEngine, db.cmp # NoItem
      PROVE  db.cmp \in alive
  <2>1. IsEngine(db) /\ Whole(db) /\ db.kind \in Kinds /\ db.kind # "drops"
      BY <1>1 DEF OwnInv, HandleType, IsEngine, EngineRecords, Compares
  <2>2. db.cmp = db.items["comparator"] /\ db.cmp \in Objects /\ "comparator" \in ItemKeys
      BY <1>1, <2>1, HandlesAssumption DEF IsEngine, EngineRecords
  <2>3. ConfigAt(db.kind) <= Len(db.parts)
      BY <2>1, MembersOfKinds DEF Whole
  <2>4. db.items["comparator"] \in HeldBy(db)
      BY <1>1, <2>1, <2>2, <2>3, PartsOfEngines, ItemsAreHeld
  <2> QED
      BY <1>1, <2>2, <2>4 DEF OwnInv
<1>2. ASSUME OwnInv, NEW e \in {db, closing} \ {NoEngine}, Has(e, "map")
      PROVE  Has(e, "allocator") /\ (e.heap # NoItem => e.heap \in alive)
  <2>1. IsEngine(e) /\ e # NoEngine /\ e.kind \in Kinds
      BY <1>2 DEF OwnInv, HandleType, IsEngine, EngineRecords
  <2>2. Has(e, "allocator") /\ MapAt(e.kind) <= Len(e.parts)
      BY <1>2, <2>1, PartsOfEngines
  <2>3. ASSUME e.heap # NoItem PROVE e.heap \in alive
    <3>1. e.kind = "vcmap" /\ e.heap = e.items["allocator"] /\ e.heap \in Objects /\ "allocator" \in ItemKeys
        BY <2>1, <2>3, HandlesAssumption DEF IsEngine, EngineRecords
    <3>2. ConfigAt(e.kind) <= Len(e.parts)
        BY <2>1, <2>2, <3>1 DEF ConfigAt, MapAt, IsEngine, EngineRecords
    <3>3. e.items["allocator"] \in HeldBy(e)
        BY <2>1, <3>1, <3>2, PartsOfEngines, ItemsAreHeld
    <3> QED
        BY <1>2, <3>1, <3>3 DEF OwnInv
  <2> QED
      BY <2>2, <2>3
<1>3. OwnInv => UsedIsAlive
    BY <1>1, <1>2 DEF UsedIsAlive
<1> QED
    BY <1>3, OwnInvInvariant, PTL

\* No failed open, and nothing but close, takes an open database away.
THEOREM DatabaseAlwaysSurvives == Spec => DatabaseSurvivesFailedOpen
<1>1. ASSUME OwnInv, [Next]_vars, db' # db, db # NoEngine
      PROVE  closing' = db /\ IF db' = NoEngine THEN config' = config ELSE returned' = "OK"
  <2>1. CASE Close
      BY <2>1 DEF Close
  <2>2. ASSUME NEW kind \in Kinds, NEW h \in Heaps, OpenSucceeds(kind, h)
        PROVE  closing' = db /\ db' # NoEngine /\ returned' = "OK"
      BY <1>1, <2>2, OpenSucceedsMakes DEF OpenSucceeds
  <2>3. ConfigStep \/ (\E members \in JsonTexts : FromJson(members)) \/ (\E kind \in Kinds : OpenFails(kind))
        \/ DestroyMember \/ UNCHANGED handleVars => db' = db
      BY DEF ConfigStep, ConfigNew, ConfigDelete, PutPlain, PutObject, PutUnique, PutComparator, DeleteOwn, FromJson,
         OpenFails, DestroyMember, handleVars
  <2>4. CASE UNCHANGED vars
      BY <1>1, <2>4 DEF vars, handleVars
  <2> QED
      BY <1>1, <2>1, <2>2, <2>3, <2>4, StepOfHandles
<1>2. OwnInv /\ [Next]_vars
      => [db' # db /\ db # NoEngine
          => closing' = db /\ IF db' = NoEngine THEN config' = config ELSE returned' = "OK"]_handleVars
    BY <1>1
<1> QED
    BY <1>2, OwnInvInvariant, PTL DEF Spec, DatabaseSurvivesFailedOpen

-----------------------------------------------------------------------------
(* The order of vsmap is that of a comparator.                             *)

\* No JSON text gives a sub-config the name under which an engine looks for
\* its comparator: the engine would take it for one.
NamesNoSubconfig ==
  \A members \in JsonTexts : \A i \in DOMAIN members :
    members[i].key = "comparator" => members[i].item \notin Others \cup Heaps

ComparatorInv == config # NullConfig => config["comparator"] \in Comparators \cup {NoItem, Plain}

LEMMA EmplaceKeepsComparator ==
  ASSUME NEW c \in Configs, c["comparator"] \in Comparators \cup {NoItem, Plain},
         NEW k, NEW o, NEW left, k # "comparator" \/ o \in Comparators, Emplace(c, k, o, left)
  PROVE  ComparatorInv'
<1>1. config' = c \/ config' = [c EXCEPT ![k] = o]
    BY DEF Emplace
<1>2. "comparator" \in ItemKeys
    BY HandlesAssumption
<1>3. [c EXCEPT ![k] = o]["comparator"] \in Comparators \cup {NoItem, Plain}
    BY <1>2 DEF Configs
<1> QED
    BY <1>1, <1>3 DEF ComparatorInv

LEMMA FromJsonKeepsComparator ==
  ASSUME NamesNoSubconfig, OwnInv, ComparatorInv, NEW members \in JsonTexts, FromJson(members)
  PROVE  ComparatorInv'
<1>1. "comparator" \in ItemKeys
    BY HandlesAssumption
<1>2. PICK n \in 0 .. Len(members) :
        LET put == {members[i] : i \in 1 .. n} IN
        /\ \A i \in 1 .. n : members[i].item # Bad
        /\ config' = [k \in ItemKeys |-> IF \E m \in put : m.key = k THEN (CHOOSE m \in put : m.key = k).item ELSE config[k]]
    BY DEF FromJson
<1> DEFINE put == {members[i] : i \in 1 .. n}
           named == CHOOSE m \in put : m.key = "comparator"
<1>3. config'["comparator"] = IF \E m \in put : m.key = "comparator" THEN named.item ELSE config["comparator"]
    BY <1>1, <1>2
<1>4. config["comparator"] \in Comparators \cup {NoItem, Plain}
    BY DEF ComparatorInv, FromJson
<1>5. CASE ~\E m \in put : m.key = "comparator"
    BY <1>3, <1>4, <1>5 DEF ComparatorInv
<1>6. CASE \E m \in put : m.key = "comparator"
  <2>1. named \in put /\ named.key = "comparator"
    <3> HIDE DEF put
    <3> QED
        BY <1>6
  <2>2. PICK i \in 1 .. n : named = members[i]
      BY <2>1
  <2>3. members \in Seq([key : ItemKeys, item : Objects \cup {Plain, Bad}])
      BY JsonTextsAssumption
  <2>4. i \in DOMAIN members /\ members[i].item \in Objects \cup {Plain, Bad}
    <3>1. Len(members) \in Nat /\ DOMAIN members = 1 .. Len(members)
        BY <2>3
    <3>2. i \in 1 .. Len(members)
        BY <3>1
    <3>3. members[i] \in [key : ItemKeys, item : Objects \cup {Plain, Bad}]
        BY <2>3, <3>2, ElementOfSeq
    <3> QED
        BY <3>1, <3>2, <3>3
  <2>5. members[i].item \in Comparators \cup {Plain}
      BY <1>2, <2>1, <2>2, <2>4 DEF NamesNoSubconfig, Objects
  <2> HIDE DEF named
  <2> QED
      BY <1>3, <1>6, <2>2, <2>5 DEF ComparatorInv
<1> QED
    BY <1>5, <1>6

LEMMA ComparatorIsOne ==
  ASSUME NamesNoSubconfig, OwnInv, ComparatorInv, [Next]_vars
  PROVE  ComparatorInv'
<1> USE DEF ComparatorInv
<1>1. config \in Configs \cup {NullConfig}
    BY DEF OwnInv, HandleType
<1>2. Initialized(config) \in Configs /\ Initialized(config)["comparator"] \in Comparators \cup {NoItem, Plain}
  <2>1. NoItems["comparator"] = NoItem
      BY HandlesAssumption DEF NoItems
  <2> QED
      BY <1>1, <2>1, ConfigFromNull DEF Initialized
<1>3. CASE ConfigStep
  <2>1. CASE ConfigNew
      BY <2>1, HandlesAssumption DEF ConfigNew, NoItems
  <2>2. ASSUME NEW k \in ItemKeys, PutPlain(k) PROVE ComparatorInv'
      BY <1>2, <2>2, HandlesAssumption DEF PutPlain, Configs
  <2>3. ASSUME NEW k \in ItemKeys \ {"comparator"}, NEW o \in Others, PutObject(k, o) \/ PutUnique(k, o)
        PROVE  ComparatorInv'
      BY <1>2, <2>3, EmplaceKeepsComparator DEF PutObject, PutUnique
  <2>4. ASSUME NEW o \in Comparators, PutComparator(o) PROVE ComparatorInv'
      BY <1>1, <2>4, EmplaceKeepsComparator DEF PutComparator
  <2>5. CASE ConfigDelete \/ \E o \in Others : DeleteOwn(o)
      BY <2>5 DEF ConfigDelete, DeleteOwn
  <2> QED
      BY <1>3, <2>1, <2>2, <2>3, <2>4, <2>5 DEF ConfigStep
<1>4. ASSUME NEW kind \in Kinds, (\E h \in Heaps : OpenSucceeds(kind, h)) \/ OpenFails(kind)
      PROVE  ComparatorInv'
    BY <1>4 DEF OpenSucceeds, OpenFails, Released
<1>5. CASE Close \/ DestroyMember \/ UNCHANGED handleVars
    BY <1>5 DEF Close, DestroyMember, handleVars
<1>6. CASE UNCHANGED vars
    BY <1>5, <1>6 DEF vars
<1> QED
    BY <1>3, <1>4, <1>5, <1>6, FromJsonKeepsComparator, StepOfHandles

LEMMA OpenedWithComparator ==
  ASSUME OwnInv, ComparatorInv, NEW kind \in Kinds, NEW h \in Heaps, OpenSucceeds(kind, h)
  PROVE  Rank[db'.cmp] \in [Keys -> Int]
<1>1. db' = Engine(kind, Equipped(kind, config, h)) /\ config # NullConfig /\ (Compares(kind) => config["comparator"] # Plain)
    BY DEF OpenSucceeds, Refuses
<1>2. Compares(kind) => Equipped(kind, config, h) = config
    BY DEF Compares, Equipped
<1>3. db'.cmp \in Comparators \cup {NoItem}
    BY <1>1, <1>2 DEF ComparatorInv, Engine
<1> QED
    BY <1>3, RankAssumption

-----------------------------------------------------------------------------
(* Places among the records of vsmap.                                      *)

\* What the queries and the iterators rest on: the records are finitely many
\* and no two are equivalent, and an iterator is never on one that is gone.
RecordsInv ==
  /\ records \in [Keys -> Values \cup {NoValue}]
  /\ order \in [Keys -> Int]
  /\ at \in [Iterators -> Keys \cup {End, Nowhere}]
  /\ Orders(order, Present)
  /\ \A i \in Iterators : at[i] \in Keys => at[i] \in Present
  /\ \A i \in Iterators \ made : at[i] = Nowhere

LEMMA PartIsOrdered ==
  ASSUME RecordsInv, NEW S \in SUBSET Present
  PROVE  Orders(order, S) /\ S \subseteq Keys
<1>1. IsFiniteSet(Present)
    BY DEF RecordsInv, Orders
<1>2. IsFiniteSet(S)
    BY <1>1, FS_Subset
<1> QED
    BY <1>2 DEF RecordsInv, Orders, Present

LEMMA LeastIs ==
  ASSUME RecordsInv, NEW S \in SUBSET Present
  PROVE  /\ S # {} => Least(S) \in S /\ \A j \in S : order[Least(S)] <= order[j]
         /\ S = {} => Least(S) = End
<1>1. CASE S # {}
  <2>1. Orders(order, S)
      BY PartIsOrdered
  <2>2. PICK k \in S : \A j \in S : order[k] <= order[j]
      BY <1>1, <2>1, EndsExist
  <2>3. \A j \in S : ~Less(j, k)
      BY <2>1, <2>2 DEF Less, Orders
  <2>4. Least(S) \in S /\ \A j \in S : ~Less(j, Least(S))
      BY <1>1, <2>3 DEF Least
  <2> QED
      BY <1>1, <2>1, <2>4 DEF Less, Orders
<1> QED
    BY <1>1 DEF Least

LEMMA GreatestIs ==
  ASSUME RecordsInv, NEW S \in SUBSET Present, S # {}
  PROVE  Greatest(S) \in S /\ \A j \in S : order[j] <= order[Greatest(S)]
<1>1. Orders(order, S)
    BY PartIsOrdered
<1>2. PICK k \in S : \A j \in S : order[j] <= order[k]
    BY <1>1, EndsExist
<1>3. \A j \in S : ~Less(k, j)
    BY <1>1, <1>2 DEF Less, Orders
<1>4. Greatest(S) \in S /\ \A j \in S : ~Less(Greatest(S), j)
    BY <1>3 DEF Greatest
<1> QED
    BY <1>1, <1>4 DEF Less, Orders

\* The records from some bound on.
Upward(U) == U \in SUBSET Present /\ \A j \in U, k \in Present : order[j] <= order[k] => k \in U

\* Every bound of a query or a seek is the first record of such a set.
LEMMA AheadOfUpward ==
  ASSUME RecordsInv, NEW U, Upward(U)
  PROVE  Ahead(Least(U)) = U /\ Least(U) \in U \cup {End}
<1>1. \A j, k \in Present : order[j] \in Int /\ order[k] \in Int
    BY DEF RecordsInv, Orders
<1>2. End \notin Present
    BY VsmapAssumption DEF Present
<1>3. CASE U = {}
    BY <1>3, LeastIs DEF Ahead, Upward
<1>4. CASE U # {}
  <2>1. Least(U) \in U /\ Least(U) \in Present /\ \A j \in U : order[Least(U)] <= order[j]
      BY <1>4, LeastIs DEF Upward
  <2>2. \A k \in Present : k \in U <=> order[Least(U)] <= order[k]
      BY <2>1 DEF Upward
  <2>3. \A k \in Present : k \in U <=> ~Less(k, Least(U))
      BY <1>1, <2>1, <2>2 DEF Less
  <2> QED
      BY <1>2, <2>1, <2>3 DEF Ahead, Upward
<1> QED
    BY <1>3, <1>4

\* What stepping back from the first record of such a set finds.
LEMMA StepBackIs ==
  ASSUME RecordsInv, NEW U, Upward(U)
  PROVE  /\ Least(U) = Begin <=> U = Present
         /\ U # Present => Before(Least(U)) \in Present \ U /\ \A j \in Present \ U : order[j] <= order[Before(Least(U))]
<1>1. Upward(Present)
    BY DEF Upward
<1>2. Least(U) = Begin <=> U = Present
    BY <1>1, AheadOfUpward DEF Begin
<1>3. {j \in Present : Least(U) = End \/ Less(j, Least(U))} = Present \ U
  <2>1. Ahead(Least(U)) = U
      BY AheadOfUpward
  <2>2. CASE Least(U) = End
      BY <2>1, <2>2 DEF Ahead
  <2>3. CASE Least(U) # End
      BY <2>1, <2>3 DEF Ahead
  <2> QED
      BY <2>2, <2>3
<1>4. ASSUME U # Present PROVE Before(Least(U)) \in Present \ U /\ \A j \in Present \ U : order[j] <= order[Before(Least(U))]
  <2>1. Before(Least(U)) = Greatest(Present \ U)
      BY <1>3 DEF Before
  <2>2. Present \ U # {} /\ Present \ U \in SUBSET Present
      BY <1>4 DEF Upward
  <2> QED
      BY <2>1, <2>2, GreatestIs
<1> QED
    BY <1>2, <1>4

\* The bounds of the model, and what is before them.
LEMMA BoundsAre ==
  ASSUME RecordsInv, NEW k \in Keys
  PROVE  /\ Upward({j \in Present : order[j] >= order[k]}) /\ LowerBound(k) = Least({j \in Present : order[j] >= order[k]})
         /\ Upward({j \in Present : order[j] > order[k]}) /\ UpperBound(k) = Least({j \in Present : order[j] > order[k]})
         /\ Present \ {j \in Present : order[j] >= order[k]} = {j \in Present : order[j] < order[k]}
         /\ Present \ {j \in Present : order[j] > order[k]} = {j \in Present : order[j] <= order[k]}
<1>1. order[k] \in Int /\ \A j \in Present : order[j] \in Int
    BY DEF RecordsInv, Orders
<1>2. {j \in Present : ~Less(j, k)} = {j \in Present : order[j] >= order[k]}
    BY <1>1 DEF Less
<1>3. {j \in Present : Less(k, j)} = {j \in Present : order[j] > order[k]}
    BY <1>1 DEF Less
<1>4. Upward({j \in Present : order[j] >= order[k]}) /\ Upward({j \in Present : order[j] > order[k]})
    BY <1>1 DEF Upward
<1>5. /\ Present \ {j \in Present : order[j] >= order[k]} = {j \in Present : order[j] < order[k]}
      /\ Present \ {j \in Present : order[j] > order[k]} = {j \in Present : order[j] <= order[k]}
    BY <1>1
<1> QED
    BY <1>2, <1>3, <1>4, <1>5 DEF LowerBound, UpperBound

LEMMA FindIs ==
  ASSUME RecordsInv, NEW k \in Keys
  PROVE  /\ Find(k) # End => Find(k) \in Present /\ order[Find(k)] = order[k]
         /\ Find(k) = End <=> {j \in Present : order[j] = order[k]} = {}
<1> DEFINE S == {j \in Present : order[j] = order[k]}
<1>1. S \in SUBSET Present /\ End \notin S
    BY VsmapAssumption DEF Present
<1>2. (S # {} => Find(k) \in S) /\ (S = {} => Find(k) = End)
    BY <1>1, LeastIs DEF Find
<1> QED
    BY <1>1, <1>2

\* Where an iterator may be is the first record of such a set too.
LEMMA PlacesAreBounds ==
  ASSUME RecordsInv, NEW p, p \in Present \/ p = End
  PROVE  Upward(Ahead(p)) /\ p = Least(Ahead(p))
<1>1. \A j \in Present : order[j] \in Int
    BY DEF RecordsInv, Orders
<1>2. CASE p = End
    BY <1>2 DEF Ahead, Upward, Least
<1>3. CASE p # End
  <2>1. p \in Present /\ Ahead(p) = {k \in Present : order[p] <= order[k]}
      BY <1>1, <1>3 DEF Ahead, Less
  <2>2. p \in Ahead(p) /\ Ahead(p) \in SUBSET Present
      BY <1>1, <2>1
  <2>3. Upward(Ahead(p))
      BY <1>1, <2>1 DEF Upward
  <2>4. Least(Ahead(p)) \in Ahead(p) /\ order[Least(Ahead(p))] <= order[p]
      BY <2>2, LeastIs
  <2>5. Least(Ahead(p)) \in Present /\ order[Least(Ahead(p))] = order[p]
      BY <1>1, <2>1, <2>2, <2>4
  <2> QED
      BY <2>1, <2>3, <2>5 DEF RecordsInv, Orders
<1> QED
    BY <1>2, <1>3

-----------------------------------------------------------------------------
(* The iterators of vsmap.                                                 *)

\* Each call that moves an iterator finds the record it is to find.
LEMMA SeeksFind ==
  ASSUME RecordsInv, NEW k \in Keys
  PROVE  /\ IsGreatest(SeekLower(k), {j \in Present : order[j] < order[k]})
         /\ IsGreatest(SeekLowerEq(k), {j \in Present : order[j] <= order[k]})
         /\ IsLeast(SeekHigher(k), {j \in Present : order[j] > order[k]})
         /\ IsLeast(SeekHigherEq(k), {j \in Present : order[j] >= order[k]})
         /\ IsLeast(Seek(k), {j \in Present : order[j] = order[k]})
<1> DEFINE From == {j \in Present : order[j] >= order[k]}
           Above == {j \in Present : order[j] > order[k]}
           Under == {j \in Present : order[j] < order[k]}
           UpTo == {j \in Present : order[j] <= order[k]}
           Same == {j \in Present : order[j] = order[k]}
<1>1. /\ Upward(From) /\ LowerBound(k) = Least(From) /\ Present \ From = Under
      /\ Upward(Above) /\ UpperBound(k) = Least(Above) /\ Present \ Above = UpTo
    BY BoundsAre
<1>2. From \in SUBSET Present /\ Above \in SUBSET Present /\ Same \in SUBSET Present
    OBVIOUS
<1>3. Find(k) = Least(Same)
    BY DEF Find
<1>4. End \notin Present
    BY VsmapAssumption DEF Present
<1> HIDE DEF From, Above, Under, UpTo, Same
<1>5. ASSUME NEW S \in SUBSET Present PROVE IsLeast(Moved(Least(S)), S)
  <2>1. Moved(Least(S)).place = Least(S) /\ Moved(Least(S)).status = IF Least(S) = End THEN "NOT_FOUND" ELSE "OK"
      BY DEF Moved, Found
  <2> QED
      BY <1>4, <2>1, LeastIs DEF IsLeast
<1>6. ASSUME NEW U, Upward(U)
      PROVE  IsGreatest(IF Least(U) = Begin THEN Moved(End) ELSE Moved(Before(Least(U))), Present \ U)
  <2>1. CASE U = Present
    <3>1. Least(U) = Begin /\ Present \ U = {} /\ Moved(End).status = "NOT_FOUND"
        BY <1>6, <2>1, StepBackIs DEF Moved, Found
    <3> QED
        BY <3>1 DEF IsGreatest
  <2>2. CASE U # Present
    <3> DEFINE b == Before(Least(U))
    <3>1. Least(U) # Begin /\ b \in Present \ U /\ \A j \in Present \ U : order[j] <= order[b]
        BY <1>6, <2>2, StepBackIs
    <3>2. Moved(b).place = b /\ Moved(b).status = "OK"
        BY <1>4, <3>1 DEF Moved, Found
    <3> HIDE DEF b
    <3>3. IsGreatest(Moved(b), Present \ U)
        BY <3>1, <3>2 DEF IsGreatest
    <3> QED
        BY <3>1, <3>3 DEF b
  <2> QED
      BY <2>1, <2>2
<1>7. IsGreatest(SeekLower(k), Under)
    BY <1>1, <1>6 DEF SeekLower
<1>8. IsGreatest(SeekLowerEq(k), UpTo)
    BY <1>1, <1>6 DEF SeekLowerEq
<1>9. IsLeast(SeekHigher(k), Above) /\ IsLeast(SeekHigherEq(k), From) /\ IsLeast(Seek(k), Same)
    BY <1>1, <1>2, <1>3, <1>5 DEF SeekHigher, SeekHigherEq, Seek
<1> QED
    BY <1>7, <1>8, <1>9 DEF From, Above, Under, UpTo, Same

LEMMA EndsAreFound ==
  ASSUME RecordsInv, NEW i \in Iterators
  PROVE  IsLeast(SeekToFirst(i), Present) /\ IsGreatest(SeekToLast(i), Present)
<1>1. CASE Present = {}
  <2>1. Stays(at[i]).status = "NOT_FOUND"
      BY DEF Stays
  <2> QED
      BY <1>1, <2>1 DEF IsLeast, IsGreatest, SeekToFirst, SeekToLast
<1>2. CASE Present # {}
  <2>1. Begin \in Present /\ \A j \in Present : order[Begin] <= order[j]
      BY <1>2, LeastIs DEF Begin
  <2>2. Upward({}) /\ Least({}) = End
      BY DEF Upward, Least
  <2>3. Before(End) \in Present /\ \A j \in Present : order[j] <= order[Before(End)]
      BY <1>2, <2>2, StepBackIs
  <2>4. End \notin Present
      BY VsmapAssumption DEF Present
  <2>5. \A p \in Present : Moved(p).place = p /\ Moved(p).status = "OK"
      BY <2>4 DEF Moved, Found
  <2> QED
      BY <1>2, <2>1, <2>3, <2>5 DEF IsLeast, IsGreatest, SeekToFirst, SeekToLast
<1> QED
    BY <1>1, <1>2

LEMMA NeighboursAreFound ==
  ASSUME RecordsInv, NEW i \in Iterators, at[i] \in Present
  PROVE  /\ IsLeast(StepNext(i), {j \in Present : order[j] > order[at[i]]})
         /\ IsGreatest(StepPrev(i), {j \in Present : order[j] < order[at[i]]})
<1>1. at[i] \in Keys /\ at[i] # End /\ End \notin Present /\ \A j \in Present : order[j] \in Int
    BY VsmapAssumption DEF Present, RecordsInv, Orders
<1>2. StepNext(i) = SeekHigher(at[i])
    BY <1>1 DEF StepNext, After, SeekHigher
<1> DEFINE U == Ahead(at[i])
<1>3. Upward(U) /\ at[i] = Least(U)
    BY PlacesAreBounds
<1>4. Present \ U = {j \in Present : order[j] < order[at[i]]}
    BY <1>1 DEF Ahead, Less
<1> HIDE DEF U
<1>5. CASE U = Present
  <2>1. StepPrev(i).status = "NOT_FOUND"
      BY <1>3, <1>5, StepBackIs DEF StepPrev, Stays
  <2> QED
      BY <1>1, <1>2, <1>4, <1>5, <2>1, SeeksFind DEF IsGreatest
<1>6. CASE U # Present
  <2>1. /\ at[i] # Begin /\ Before(at[i]) \in Present \ U
        /\ \A j \in Present \ U : order[j] <= order[Before(at[i])]
      BY <1>3, <1>6, StepBackIs
  <2>2. StepPrev(i).place = Before(at[i]) /\ StepPrev(i).status = "OK"
      BY <1>1, <2>1 DEF StepPrev, Moved, Found
  <2>3. IsGreatest(StepPrev(i), Present \ U)
      BY <2>1, <2>2 DEF IsGreatest
  <2> QED
      BY <1>1, <1>2, <1>4, <2>3, SeeksFind
<1> QED
    BY <1>5, <1>6

\* A call leaves its iterator on a record, at the end, or where it was.
LEMMA SeeksStayInside ==
  ASSUME RecordsInv, NEW i \in Iterators, SeekCall(i) \/ StepCall(i)
  PROVE  /\ \E p \in Present \cup {End, at[i]} : at' = [at EXCEPT ![i] = p]
         /\ UNCHANGED <<records, order>>
<1> DEFINE Places == Present \cup {End, at[i]}
<1>1. ASSUME NEW S, NEW r, S \in SUBSET Present, IsLeast(r, S) \/ IsGreatest(r, S), r.status = "OK"
      PROVE  r.place \in Places
    BY <1>1 DEF IsLeast, IsGreatest
<1>2. \A p : Moved(p).place = p /\ (p # End => Moved(p).status = "OK") /\ Stays(p).place = p
    BY DEF Moved, Stays, Found
<1>3. ASSUME NEW k \in Keys, NEW r \in {Seek(k), SeekLower(k), SeekLowerEq(k), SeekHigher(k), SeekHigherEq(k)}
      PROVE  r.place \in Places
  <2>1. r.place = End \/ r.status = "OK"
      BY <1>2, <1>3 DEF Seek, SeekLower, SeekLowerEq, SeekHigher, SeekHigherEq
  <2>2. \E S \in SUBSET Present : IsLeast(r, S) \/ IsGreatest(r, S)
      BY <1>3, SeeksFind
  <2> QED
      BY <1>1, <2>1, <2>2
<1>4. ASSUME NEW r \in {SeekToFirst(i), SeekToLast(i)}
      PROVE  r.place \in Places
  <2>1. r.place \in {End, at[i]} \/ r.status = "OK"
      BY <1>2, <1>4 DEF SeekToFirst, SeekToLast
  <2> QED
      BY <1>1, <1>4, <2>1, EndsAreFound
<1>5. ASSUME at[i] # Nowhere, NEW r \in {StepNext(i), StepPrev(i)}
      PROVE  r.place \in Places
  <2>1. at[i] \in Present \/ at[i] = End
      BY <1>5 DEF RecordsInv
  <2>2. r.place \in {End, at[i]} \/ r.status = "OK"
      BY <1>2, <1>5 DEF StepNext, StepPrev
  <2>3. CASE at[i] \in Present
    <3>1. \E S \in SUBSET Present : IsLeast(r, S) \/ IsGreatest(r, S)
        BY <1>5, <2>3, NeighboursAreFound
    <3> QED
        BY <1>1, <2>2, <3>1
  <2>4. CASE at[i] = End
    <3>1. StepNext(i).place = End
        BY <1>2, <2>4 DEF StepNext
    <3>2. Upward({}) /\ Least({}) = End
        BY DEF Upward, Least
    <3>3. StepPrev(i).place \in Places
      <4>1. CASE Present = {}
          BY <1>2, <2>4, <3>2, <4>1, StepBackIs DEF StepPrev
      <4>2. CASE Present # {}
          BY <1>2, <2>4, <3>2, <4>2, StepBackIs DEF StepPrev
      <4> QED
          BY <4>1, <4>2
    <3> QED
        BY <1>5, <3>1, <3>3
  <2> QED
      BY <2>1, <2>3, <2>4
<1> HIDE DEF Places
<1>6. \E r : r.place \in Places /\ MoveTo(i, r)
    BY <1>3, <1>4, <1>5 DEF SeekCall, StepCall
<1> QED
    BY <1>6 DEF MoveTo, Places

LEMMA MovesKeepRecords ==
  ASSUME RecordsInv, NEW i \in made, SeekCall(i) \/ StepCall(i), made \subseteq Iterators, made' = made
  PROVE  RecordsInv'
<1>1. PICK p \in Present \cup {End, at[i]} : at' = [at EXCEPT ![i] = p]
    BY SeeksStayInside
<1>2. records' = records /\ order' = order /\ Present' = Present
  <2>1. records' = records /\ order' = order
      BY SeeksStayInside
  <2> QED
      BY <2>1 DEF Present
<1>3. p \in Keys \cup {End, Nowhere} /\ (p \in Keys => p \in Present)
    BY <1>1, VsmapAssumption DEF RecordsInv, Present
<1>4. Orders(order, Present)'
    BY <1>2 DEF RecordsInv, Orders
<1>5. at' \in [Iterators -> Keys \cup {End, Nowhere}]
    BY <1>1, <1>3 DEF RecordsInv
<1>6. \A h \in Iterators : at'[h] = IF h = i THEN p ELSE at[h]
    BY <1>1 DEF RecordsInv
<1> QED
    BY <1>2, <1>3, <1>4, <1>5, <1>6 DEF RecordsInv

LEMMA PutKeepsRecords ==
  ASSUME RecordsInv, NEW k \in Keys, NEW v \in Values, Put(k, v), made' = made
  PROVE  RecordsInv'
<1> DEFINE place == IF Find(k) # End THEN Find(k) ELSE k
<1>1. records' = [records EXCEPT ![place] = v] /\ order' = order /\ at' = at /\ v # NoValue
    BY VsmapAssumption DEF Put
<1>2. place \in Keys /\ (place \in Present \/ \A j \in Present : order[j] # order[place])
    BY FindIs DEF Present
<1> HIDE DEF place
<1>3. records' \in [Keys -> Values \cup {NoValue}] /\ Present' = Present \cup {place}
    BY <1>1, <1>2 DEF RecordsInv, Present
<1>4. Orders(order, Present \cup {place})
  <2>1. IsFiniteSet(Present \cup {place})
      BY FS_AddElement DEF RecordsInv, Orders
  <2>2. order[place] \in Int
      BY <1>2 DEF RecordsInv
  <2> QED
      BY <1>2, <2>1, <2>2 DEF RecordsInv, Orders
<1>5. Orders(order, Present)'
    BY <1>1, <1>3, <1>4 DEF Orders
<1> QED
    BY <1>1, <1>3, <1>5 DEF RecordsInv

LEMMA RemoveKeepsRecords ==
  ASSUME RecordsInv, NEW k \in Keys, RemoveKey(k), made' = made
  PROVE  RecordsInv'
<1>1. CASE Find(k) = End
  <2>1. UNCHANGED <<records, order, at, made>>
      BY <1>1 DEF RemoveKey
  <2> QED
      BY <2>1 DEF RecordsInv, Orders, Present
<1>2. CASE Find(k) # End
  <2>1. /\ records' = [records EXCEPT ![Find(k)] = NoValue] /\ order' = order
        /\ at' = [i \in Iterators |-> IF at[i] = Find(k) THEN Nowhere ELSE at[i]]
      BY <1>2 DEF RemoveKey
  <2>2. Find(k) \in Keys
      BY <1>2, FindIs DEF Present
  <2> DEFINE gone == Find(k)
  <2> HIDE DEF gone
  <2>3. records' \in [Keys -> Values \cup {NoValue}] /\ Present' = Present \ {gone}
      BY <2>1, <2>2 DEF RecordsInv, Present, gone
  <2>4. Present \ {gone} \in SUBSET Present
      OBVIOUS
  <2>5. Orders(order, Present \ {gone})
      BY <2>4, PartIsOrdered
  <2>6. Orders(order, Present)'
      BY <2>1, <2>3, <2>5 DEF Orders
  <2>7. at' \in [Iterators -> Keys \cup {End, Nowhere}]
      BY <2>1 DEF RecordsInv
  <2>8. \A i \in Iterators : /\ at'[i] \in Keys => at'[i] = at[i] /\ at[i] # gone
                             /\ at[i] = Nowhere => at'[i] = Nowhere
      BY <2>1, VsmapAssumption DEF RecordsInv, gone
  <2> QED
      BY <2>1, <2>3, <2>6, <2>7, <2>8 DEF RecordsInv
<1> QED
    BY <1>1, <1>2

LEMMA NoRecordsAreInOrder ==
  ASSUME order \in [Keys -> Int], at = [i \in Iterators |-> Nowhere], records = NoRecords
  PROVE  RecordsInv
<1>1. Present = {}
    BY DEF Present, NoRecords
<1>2. Orders(order, Present)
    BY <1>1, FS_EmptySet DEF Orders
<1> QED
    BY <1>1, <1>2, VsmapAssumption DEF RecordsInv, NoRecords

LEMMA StepKeepsRecords ==
  ASSUME NamesNoSubconfig, OwnInv, ComparatorInv, HeldInv, RecordsInv, [Next]_vars
  PROVE  RecordsInv'
<1>1. made \subseteq Iterators
    BY IteratorsAssumption DEF HeldInv, ResultType
<1>2. ASSUME made = {} PROVE at = [i \in Iterators |-> Nowhere]
    BY <1>2 DEF RecordsInv
<1>3. Rank[NoItem] \in [Keys -> Int]
    BY RankAssumption
<1>4. CASE UNCHANGED <<vsmapVars, made>>
    BY <1>4 DEF vsmapVars, RecordsInv, Orders, Present
<1>5. CASE OpenDatabase
  <2>1. CASE \E kind \in Kinds : OpenFails(kind) /\ UNCHANGED <<records, order, callVars>>
      BY <1>4, <1>5, <2>1 DEF OpenDatabase, vsmapVars, resultVars
  <2>2. ASSUME NoIterators, NEW kind \in Kinds, NEW h \in Heaps, OpenSucceeds(kind, h), records' = NoRecords,
               order' = IF db'.kind = "vsmap" THEN Rank[db'.cmp] ELSE Rank[NoItem]
        PROVE  RecordsInv'
    <3>1. order' \in [Keys -> Int]
        BY <1>3, <2>2, OpenedWithComparator
    <3>2. at' = [i \in Iterators |-> Nowhere]
        BY <1>2, <1>5, <2>2 DEF OpenDatabase, NoIterators
    <3>3. Present' = {} /\ made' = made
        BY <1>5, <2>2 DEF Present, NoRecords, OpenDatabase, resultVars
    <3>4. Orders(order, Present)'
        BY <3>3, FS_EmptySet DEF Orders
    <3> QED
        BY <2>2, <3>1, <3>2, <3>3, <3>4, VsmapAssumption DEF RecordsInv, NoRecords
  <2> QED
      BY <1>5, <2>1, <2>2 DEF OpenDatabase
<1>6. CASE CloseDatabase
  <2>1. /\ records' = NoRecords /\ order' = Rank[NoItem] /\ at' = [i \in Iterators |-> Nowhere]
        /\ made' = made
      BY <1>2, <1>6 DEF CloseDatabase, NoIterators, resultVars
  <2>2. Present' = {}
      BY <2>1 DEF Present, NoRecords
  <2>3. Orders(order, Present)'
      BY <2>2, FS_EmptySet DEF Orders
  <2> QED
      BY <1>3, <2>1, <2>2, <2>3, VsmapAssumption DEF RecordsInv, NoRecords
<1>7. CASE UseRecords
    BY <1>1, <1>7, MovesKeepRecords, PutKeepsRecords, RemoveKeepsRecords DEF UseRecords, resultVars
<1>8. CASE UseResults
  <2>1. /\ records' = records /\ order' = order
        /\ at' = [i \in Iterators |-> IF i \in made' THEN at[i] ELSE Nowhere]
      BY <1>8 DEF UseResults
  <2>2. Present' = Present
      BY <2>1 DEF Present
  <2>3. Orders(order, Present)'
      BY <2>1, <2>2 DEF RecordsInv, Orders
  <2>4. at' \in [Iterators -> Keys \cup {End, Nowhere}]
      BY <2>1 DEF RecordsInv
  <2>5. \A i \in Iterators : at'[i] \in Keys => at'[i] = at[i]
      BY <2>1, VsmapAssumption
  <2> QED
      BY <2>1, <2>2, <2>3, <2>4, <2>5 DEF RecordsInv
<1>9. CASE UNCHANGED vars
    BY <1>4, <1>9 DEF vars, resultVars
<1>10. CASE (\E members \in JsonTexts : FillConfig(members)) \/ UseConfig \/ DestroyDatabase \/ UseDatabase
    BY <1>4, <1>10 DEF FillConfig, UseConfig, DestroyDatabase, UseDatabase, resultVars
<1> QED
    BY <1>5, <1>6, <1>7, <1>8, <1>9, <1>10 DEF Next

LEMMA RecordsInvInvariant == ASSUME NamesNoSubconfig PROVE Spec => []RecordsInv
<1>1. Init => ComparatorInv /\ RecordsInv
    BY NoRecordsAreInOrder, RankAssumption DEF Init, HandlesInit, ComparatorInv, Nothing
<1>2. OwnInv /\ HeldInv /\ ComparatorInv /\ RecordsInv /\ [Next]_vars => (ComparatorInv /\ RecordsInv)'
    BY ComparatorIsOne, StepKeepsRecords
<1> QED
    BY <1>1, <1>2, OwnInvInvariant, HeldInvInvariant, PTL DEF Spec

\* Whatever comparator a vsmap database was opened with, however many
\* records it has and wherever its iterators are: every seek, next and prev
\* goes to the record the manual names, or answers that there is none.
THEOREM SeeksAreAlwaysExact == ASSUME NamesNoSubconfig PROVE Spec => []SeeksAreExact
<1>1. RecordsInv => SeeksAreExact
  <2> SUFFICES ASSUME RecordsInv PROVE SeeksAreExact
      OBVIOUS
  <2>1. ASSUME NEW i \in Iterators PROVE IsNext(i) = StepNext(i).status
      BY DEF IsNext, StepNext, Stays, Moved
  <2>2. ASSUME NEW i \in Iterators, at[i] \in Keys PROVE at[i] \in Present
      BY <2>2 DEF RecordsInv
  <2> QED
      BY <2>1, <2>2, SeeksFind, EndsAreFound, NeighboursAreFound DEF SeeksAreExact
<1> QED
    BY <1>1, RecordsInvInvariant, PTL

-----------------------------------------------------------------------------
(* The queries of vsmap.                                                   *)

LEMMA VisitedIs ==
  ASSUME RecordsInv, NEW U, NEW V, Upward(U), Upward(V), V \subseteq U
  PROVE  Visited(Least(U), Least(V)) = U \ V
BY AheadOfUpward DEF Visited

\* A query is exact when it walks the records it is to report.
LEMMA AnswersAre ==
  ASSUME RecordsInv, NEW S \in SUBSET Present, NEW get, \A stops \in SUBSET Keys : get[stops] = Walk(S, order, stops)
  PROVE  Answers(Cardinality(S), get, S)
<1>1. Orders(order, S)
    BY PartIsOrdered
<1> QED
    BY <1>1, WalkReports DEF Answers

LEMMA NothingReported ==
  ASSUME NEW get, NEW S, S = {}, \A stops \in SUBSET Keys : get[stops] = [status |-> "OK", seen |-> <<>>]
  PROVE  Answers(0, get, S)
<1>1. Cardinality({}) = 0 /\ {k \in {} : TRUE} = {}
    BY FS_EmptySet
<1>2. ASSUME NEW stops \in SUBSET Keys PROVE Reports(get[stops], S, order, stops)
  <2>1. get[stops].status = "OK" /\ get[stops].seen = <<>> /\ Len(<<>>) = 0 /\ DOMAIN <<>> = {}
      BY <1>2
  <2>2. {k \in S : ~\E j \in S \cap stops : order[j] < order[k]} = {} /\ S \cap stops = {}
      OBVIOUS
  <2>3. {get[stops].seen[n] : n \in DOMAIN get[stops].seen} = {}
      BY <2>1
  <2> QED
      BY <1>1, <2>1, <2>2, <2>3 DEF Reports
<1> QED
    BY <1>1, <1>2 DEF Answers

LEMMA QueriesOfOneBound ==
  ASSUME RecordsInv, NEW k \in Keys
  PROVE  /\ Answers(CountAbove(k), [stops \in SUBSET Keys |-> GetAbove(k, stops)], {j \in Present : order[j] > order[k]})
         /\ Answers(CountEqualAbove(k), [stops \in SUBSET Keys |-> GetEqualAbove(k, stops)],
                    {j \in Present : order[j] >= order[k]})
         /\ Answers(CountEqualBelow(k), [stops \in SUBSET Keys |-> GetEqualBelow(k, stops)],
                    {j \in Present : order[j] <= order[k]})
         /\ Answers(CountBelow(k), [stops \in SUBSET Keys |-> GetBelow(k, stops)], {j \in Present : order[j] < order[k]})
<1> DEFINE From == {j \in Present : order[j] >= order[k]}
           Above == {j \in Present : order[j] > order[k]}
           Under == {j \in Present : order[j] < order[k]}
           UpTo == {j \in Present : order[j] <= order[k]}
<1>1. /\ Upward(From) /\ LowerBound(k) = Least(From) /\ Present \ From = Under
      /\ Upward(Above) /\ UpperBound(k) = Least(Above) /\ Present \ Above = UpTo
    BY BoundsAre
<1>2. Upward({}) /\ Least({}) = End /\ Upward(Present) /\ Least(Present) = Begin
    BY DEF Upward, Least, Begin
<1>3. From \in SUBSET Present /\ Above \in SUBSET Present /\ Under \in SUBSET Present /\ UpTo \in SUBSET Present
    OBVIOUS
<1> HIDE DEF From, Above, Under, UpTo
<1>4. /\ Visited(UpperBound(k), End) = Above /\ Visited(LowerBound(k), End) = From
      /\ Visited(Begin, UpperBound(k)) = UpTo /\ Visited(Begin, LowerBound(k)) = Under
  <2>1. Visited(Least(Above), Least({})) = Above \ {} /\ Visited(Least(From), Least({})) = From \ {}
      BY <1>1, <1>2, VisitedIs
  <2>2. Visited(Least(Present), Least(Above)) = Present \ Above /\ Visited(Least(Present), Least(From)) = Present \ From
      BY <1>1, <1>2, <1>3, VisitedIs
  <2> QED
      BY <1>1, <1>2, <2>1, <2>2
<1>5. Answers(CountAbove(k), [stops \in SUBSET Keys |-> GetAbove(k, stops)], Above)
    BY <1>3, <1>4, AnswersAre DEF CountAbove, GetAbove, Distance, Iterate
<1>6. Answers(CountEqualAbove(k), [stops \in SUBSET Keys |-> GetEqualAbove(k, stops)], From)
    BY <1>3, <1>4, AnswersAre DEF CountEqualAbove, GetEqualAbove, Distance, Iterate
<1>7. Answers(CountEqualBelow(k), [stops \in SUBSET Keys |-> GetEqualBelow(k, stops)], UpTo)
    BY <1>3, <1>4, AnswersAre DEF CountEqualBelow, GetEqualBelow, Distance, Iterate
<1>8. Answers(CountBelow(k), [stops \in SUBSET Keys |-> GetBelow(k, stops)], Under)
    BY <1>3, <1>4, AnswersAre DEF CountBelow, GetBelow, Distance, Iterate
<1> QED
    BY <1>5, <1>6, <1>7, <1>8 DEF From, Above, Under, UpTo

LEMMA QueriesOfTwoBounds ==
  ASSUME RecordsInv, NEW k \in Keys, NEW h \in Keys
  PROVE  Answers(CountBetween(k, h), [stops \in SUBSET Keys |-> GetBetween(k, h, stops)],
                 {j \in Present : order[k] < order[j] /\ order[j] < order[h]})
<1> DEFINE U == {j \in Present : order[j] > order[k]}
           V == {j \in Present : order[j] >= order[h]}
           Between == {j \in Present : order[k] < order[j] /\ order[j] < order[h]}
<1>1. Upward(U) /\ UpperBound(k) = Least(U) /\ Upward(V) /\ LowerBound(h) = Least(V)
    BY BoundsAre
<1>2. order[k] \in Int /\ order[h] \in Int /\ \A j \in Present : order[j] \in Int
    BY DEF RecordsInv, Orders
<1>3. CASE Less(k, h)
  <2>1. V \subseteq U /\ U \ V = Between
      BY <1>2, <1>3 DEF Less
  <2>2. Between \in SUBSET Present
      OBVIOUS
  <2> HIDE DEF U, V, Between
  <2>3. Visited(UpperBound(k), LowerBound(h)) = Between
      BY <1>1, <2>1, VisitedIs
  <2>4. Answers(CountBetween(k, h), [stops \in SUBSET Keys |-> GetBetween(k, h, stops)], Between)
      BY <1>3, <2>2, <2>3, AnswersAre DEF CountBetween, GetBetween, Distance, Iterate
  <2> QED
      BY <2>4 DEF Between
<1>4. CASE ~Less(k, h)
  <2>1. Between = {}
      BY <1>2, <1>4 DEF Less
  <2> HIDE DEF Between
  <2>2. CountBetween(k, h) = 0 /\ \A stops \in SUBSET Keys : GetBetween(k, h, stops) = [status |-> "OK", seen |-> <<>>]
      BY <1>4 DEF CountBetween, GetBetween
  <2>3. Answers(CountBetween(k, h), [stops \in SUBSET Keys |-> GetBetween(k, h, stops)], Between)
      BY <2>1, <2>2, NothingReported
  <2> QED
      BY <2>3 DEF Between
<1> QED
    BY <1>3, <1>4

\* Every family of queries counts and reports exactly the records on its
\* side of any bound, in the order of any comparator, up to any callback
\* that stops it.
THEOREM QueriesAreAlwaysExact == ASSUME NamesNoSubconfig PROVE Spec => []QueriesAreExact
<1>1. RecordsInv => QueriesAreExact
  <2> SUFFICES ASSUME RecordsInv PROVE QueriesAreExact
      OBVIOUS
  <2>1. \A j, k \in Present : order[j] = order[k] => j = k
      BY DEF RecordsInv, Orders
  <2>2. Answers(CountAll, [stops \in SUBSET Keys |-> GetAll(stops)], Present)
    <3>1. Upward({}) /\ Least({}) = End /\ Upward(Present) /\ Least(Present) = Begin
        BY DEF Upward, Least, Begin
    <3>2. Visited(Begin, End) = Present
      <4>1. Visited(Least(Present), Least({})) = Present \ {}
          BY <3>1, VisitedIs
      <4> QED
          BY <3>1, <4>1
    <3>3. \A stops \in SUBSET Keys : GetAll(stops) = Walk(Present, order, stops)
        BY <3>2 DEF GetAll, Iterate
    <3> QED
        BY <3>3, AnswersAre DEF CountAll
  <2>3. ASSUME NEW k \in Keys PROVE Exists(k) = "OK" <=> \E j \in Present : order[j] = order[k]
      BY FindIs DEF Exists
  <2>4. ASSUME NEW k \in Keys PROVE Get(k).status = Exists(k)
      BY DEF Get, Exists
  <2> QED
      BY <2>1, <2>2, <2>3, <2>4, QueriesOfOneBound, QueriesOfTwoBounds DEF QueriesAreExact
<1> QED
    BY <1>1, RecordsInvInvariant, PTL
=============================================================================
