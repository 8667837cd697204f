---------------------------- MODULE CsmapProofs ----------------------------
(***************************************************************************)
(* Theorems about Csmap, for any number of threads, keys and values, with  *)
(* crashes and failed transactions.                                        *)
(***************************************************************************)
EXTENDS Csmap, TLAPS

(***************************************************************************)
(* The inductive invariant.  ElementsAreStable and NoCircularWait speak of *)
(* what threads see and wait for; they follow from who holds which lock at *)
(* which point of a call (GlobalLocks, NodeLocks), from what a call may be *)
(* at that point (CallsMade), and from every element a thread stands on    *)
(* being there, and torn only under a thread that owns it (Elements).      *)
(***************************************************************************)

Sharing == {"share", "own", "callback", "assign", "last", "walk", "next", "iter", "commit"}
Outside == {"idle", "global", "global_alone"}
Owning == {"assign", "iter", "commit"}

GlobalLocks ==
  /\ gWriter # NoThread => gReaders = {}
  /\ \A t \in Threads : pc[t] \in Sharing => t \in gReaders
  /\ \A t \in Threads : pc[t] = "erase" => gWriter = t
  /\ \A t \in Threads : pc[t] \in Outside => t \notin gReaders /\ gWriter # t

NodeLocks ==
  /\ \A t \in Threads, k \in Keys : nWriter[k] = t <=> pc[t] \in Owning /\ pos[t] = k
  /\ \A t \in Threads, k \in Keys : t \in nReaders[k] <=> pc[t] = "callback" /\ pos[t] = k
  /\ \A k \in Keys : nWriter[k] # NoThread => nReaders[k] = {}

CallsMade ==
  /\ \A t \in Threads : call[t].op = "put" => call[t].value \in Values
  /\ \A t \in Threads : call[t].op \in {"put", "get", "remove"} => call[t].key \in Keys
  /\ \A t \in Threads : pc[t] \in {"global_alone", "erase"} => call[t].op = "remove"
  /\ \A t \in Threads : pc[t] = "assign" => call[t].op = "put"
  /\ \A t \in Threads : pc[t] \in {"iter", "commit"} => call[t].op = "iterator"
  /\ \A t \in Threads : pc[t] \in {"share", "own", "callback", "assign", "commit", "next"} => pos[t] \in Keys
  /\ \A t \in Threads : pc[t] \in Outside => pos[t] = End
  /\ \A t \in Threads : log[t] # NoValue => pc[t] \in {"iter", "commit"} /\ pos[t] \in Keys
  /\ \A t \in Threads : pc[t] = "commit" => log[t] # NoValue

\* A thread inside a call stands on an element that is there.
StandsOnElement ==
  \A t \in Threads : pc[t] \in Sharing /\ pos[t] \in Keys => map[pos[t]] # NoValue

\* A torn element has a thread that assigns to it or erases it.
TornHasOwner ==
  \A k \in Keys : map[k] = Torn =>
    \/ \E t \in Threads : pc[t] \in {"assign", "commit"} /\ pos[t] = k
    \/ \E t \in Threads : pc[t] = "erase" /\ call[t].key = k

OwnerCanUndo ==
  \A t \in Threads : pc[t] \in {"assign", "commit"} => map[pos[t]] = Torn /\ undo[pos[t]] \in Values

SeenIsStored ==
  \A t \in Threads :
    pc[t] = "callback" \/ (pc[t] = "iter" /\ pos[t] \in Keys) => map[pos[t]] = seen[t]

Elements == StandsOnElement /\ TornHasOwner /\ OwnerCanUndo /\ SeenIsStored

IInv == TypeOK /\ GlobalLocks /\ NodeLocks /\ CallsMade /\ Elements

-----------------------------------------------------------------------------
(* Calls and positions *)

\* What is in a call.
LEMMA CallFields ==
  ASSUME NEW c \in Calls
  PROVE  /\ c.op \in {"get", "put", "remove", "walk", "count", "iterator"}
         /\ c.op = "put" => c.value \in Values
         /\ c.op \in {"put", "get", "remove"} => c.key \in Keys
         /\ c \in Calls \cup {Idle}
BY RangesAssumption DEF Calls, Idle

\* Idle is no call.
LEMMA IdleFields == Idle.op = "none"
BY DEF Idle

\* Seeks end on an element that is there, or at the end.
LEMMA TargetsPresent ==
  ASSUME NEW t \in Threads, NEW k \in Keys, NEW kind \in DOMAIN Targets(t, k), NEW p \in Targets(t, k)[kind]
  PROVE  p \in Present \cup {End}
<1>1. kind \in {"seek", "lower", "lower_eq", "higher", "higher_eq", "next"}
  BY DEF Targets
<1>2. CASE kind = "seek"
  BY <1>2 DEF Targets
<1>3. CASE kind \in {"lower", "lower_eq"}
  BY <1>3 DEF Targets, Before
<1>4. CASE kind \in {"higher", "higher_eq", "next"}
  BY <1>4 DEF Targets, AtOrAfter
<1> QED
  BY <1>1, <1>2, <1>3, <1>4

\* An element nobody owns holds a value, for a thread that waits for it.
LEMMA Settled ==
  ASSUME IInv, NEW t \in Threads, pc[t] \in {"share", "own"}, nWriter[pos[t]] = NoThread
  PROVE  pos[t] \in Keys /\ map[pos[t]] \in Values
BY NamesAssumption DEF IInv, TypeOK, GlobalLocks, NodeLocks, CallsMade, Elements, StandsOnElement, TornHasOwner, Sharing, Outside, Owning

\* So does the element an iterator stands on.
LEMMA Held ==
  ASSUME IInv, NEW t \in Threads, pc[t] = "iter", pos[t] \in Keys
  PROVE  map[pos[t]] \in Values
BY NamesAssumption DEF IInv, TypeOK, Elements, StandsOnElement, SeenIsStored, Sharing

\* An element has one owner, and while it has one no callback reads it.
LEMMA Alone ==
  ASSUME IInv, NEW t \in Threads, NEW u \in Threads, pc[t] \in Owning, pos[t] \in Keys, pos[u] = pos[t],
         pc[u] \in Owning \cup {"callback"}
  PROVE  u = t
BY NamesAssumption DEF IInv, TypeOK, NodeLocks, Owning

\* When nobody holds mtx, no element is torn.
LEMMA Unwatched ==
  ASSUME IInv, gWriter = NoThread, gReaders = {}, NEW k \in Keys
  PROVE  map[k] \in Values \cup {NoValue}
BY NamesAssumption DEF IInv, TypeOK, GlobalLocks, Elements, TornHasOwner, Sharing

-----------------------------------------------------------------------------
(* Every step keeps each part of the invariant *)

\* Types.
LEMMA TypeStep ==
  ASSUME IInv, NEW t \in Threads, Step(t)
  PROVE  TypeOK'
<1> USE KeysAssumption, NamesAssumption, CallFields, IdleFields DEF IInv, TypeOK, CallsMade, Elements, OwnerCanUndo, Positions
<1>1. CASE GetFind(t)
  BY <1>1 DEF GetFind, ShareGlobal, Goto, Present, data, globals, nodes, walks
<1>2. CASE ShareNode(t)
  <2>1. pos[t] \in Keys /\ map[pos[t]] \in Values
    BY <1>2, Settled DEF ShareNode
  <2>2. nReaders' \in [Keys -> SUBSET Threads]
    <3>1. nReaders[pos[t]] \cup {t} \in SUBSET Threads
      BY <2>1
    <3> QED
      BY <1>2, <2>1, <3>1 DEF ShareNode
  <2>3. pc' \in [Threads -> {"idle", "global", "global_alone", "share", "own", "callback", "assign", "erase",
                            "last", "walk", "next", "iter", "commit", "unlock"}]
    BY <1>2 DEF ShareNode, Goto
  <2>4. seen' \in [Threads -> Values \cup {NoValue}]
    BY <1>2, <2>1 DEF ShareNode
  <2> QED
    BY <1>2, <2>2, <2>3, <2>4 DEF ShareNode, data, globals, nodes, walks
<1>3. CASE GetReturn(t)
  BY <1>3 DEF GetReturn, LeaveNode, Goto, data, globals, nodes, walks
<1>4. CASE PutEmplace(t)
  BY <1>4, SMTT(30) DEF PutEmplace, ShareGlobal, Goto, Present, data, globals, nodes, walks
<1>5. CASE PutAssign(t)
  BY <1>5, Settled DEF PutAssign, OwnNode, Start, Goto, data, globals, nodes, walks
<1>6. CASE PutCommit(t)
  BY <1>6 DEF PutCommit, Finish, Goto, data, globals, nodes, walks
<1>7. CASE RemoveLock(t)
  BY <1>7, Unwatched, ZenonT(60) DEF RemoveLock, Start, Goto, Present, data, globals, nodes, walks
<1>8. CASE RemoveErase(t)
  BY <1>8 DEF RemoveErase, Finish, Goto, data, globals, nodes, walks
<1>9. CASE WalkFirst(t)
  BY <1>9 DEF WalkFirst, ShareGlobal, AtOrAfter, Present, Goto, data, globals, nodes, walks
<1>10. CASE WalkLast(t)
  BY <1>10 DEF WalkLast, AtOrAfter, Present, Goto, data, globals, nodes, walks
<1>11. CASE WalkTest(t)
  BY <1>11 DEF WalkTest, Goto, data, globals, nodes, walks
<1>12. CASE WalkNext(t)
  BY <1>12 DEF WalkNext, LeaveNode, AtOrAfter, Present, Goto, data, globals, nodes, walks
<1>13. CASE WalkStop(t)
  BY <1>13 DEF WalkStop, LeaveNode, Goto, data, globals, nodes, walks
<1>14. CASE IterNew(t)
  BY <1>14 DEF IterNew, ShareGlobal, Goto, data, globals, nodes, walks
<1>15. CASE Seek(t)
  BY <1>15, TargetsPresent DEF Seek, InitSeek, Goto, Present, data, globals, nodes, walks
<1>16. CASE SeekToFirst(t)
  BY <1>16 DEF SeekToFirst, InitSeek, Present, Goto, data, globals, nodes, walks
<1>17. CASE IterOwn(t)
  BY <1>17, Settled DEF IterOwn, OwnNode, Goto, data, globals, nodes, walks
<1>18. CASE WriteRange(t)
  BY <1>18 DEF WriteRange, data, globals, nodes, walks
<1>19. CASE Abort(t)
  BY <1>19 DEF Abort, data, globals, nodes, walks
<1>20. CASE CommitStart(t)
  BY <1>20, Held DEF CommitStart, Start, Goto, data, globals, nodes, walks
<1>21. CASE CommitEnd(t)
  BY <1>21 DEF CommitEnd, Finish, Goto, data, globals, nodes, walks
<1>22. CASE IterDelete(t)
  BY <1>22 DEF IterDelete, InitSeek, Goto, data, globals, nodes, walks
<1>23. CASE Unlock(t)
  BY <1>23 DEF Unlock, Goto, data, globals, nodes, walks
<1>24. CASE \E c \in Calls : Begin(t, c)
  BY <1>24, CallFields DEF Begin, Goto, data, globals, nodes, walks
<1> QED
  BY <1>1, <1>2, <1>3, <1>4, <1>5, <1>6, <1>7, <1>8, <1>9, <1>10, <1>11, <1>12, <1>13, <1>14, <1>15, <1>16, <1>17, <1>18, <1>19, <1>20, <1>21, <1>22, <1>23, <1>24 DEF Step

\* Who holds mtx.
LEMMA GlobalStep ==
  ASSUME IInv, NEW t \in Threads, Step(t)
  PROVE  GlobalLocks'
<1> USE KeysAssumption, NamesAssumption DEF IInv, TypeOK, CallsMade, GlobalLocks, Sharing, Outside, Owning, Positions
<1>1. CASE GetFind(t)
  BY <1>1 DEF GetFind, ShareGlobal, Goto, Present, data, globals, nodes, walks
<1>2. CASE ShareNode(t)
  BY <1>2 DEF ShareNode, Goto, data, globals, nodes, walks
<1>3. CASE GetReturn(t)
  BY <1>3 DEF GetReturn, LeaveNode, Goto, data, globals, nodes, walks
<1>4. CASE PutEmplace(t)
  BY <1>4 DEF PutEmplace, ShareGlobal, Goto, Present, data, globals, nodes, walks
<1>5. CASE PutAssign(t)
  BY <1>5 DEF PutAssign, OwnNode, Start, Goto, data, globals, nodes, walks
<1>6. CASE PutCommit(t)
  BY <1>6 DEF PutCommit, Finish, Goto, data, globals, nodes, walks
<1>7. CASE RemoveLock(t)
  BY <1>7 DEF RemoveLock, Start, Goto, Present, data, globals, nodes, walks
<1>8. CASE RemoveErase(t)
  BY <1>8 DEF RemoveErase, Finish, Goto, data, globals, nodes, walks
<1>9. CASE WalkFirst(t)
  BY <1>9 DEF WalkFirst, ShareGlobal, AtOrAfter, Present, Goto, data, globals, nodes, walks
<1>10. CASE WalkLast(t)
  BY <1>10 DEF WalkLast, AtOrAfter, Present, Goto, data, globals, nodes, walks
<1>11. CASE WalkTest(t)
  BY <1>11 DEF WalkTest, Goto, data, globals, nodes, walks
<1>12. CASE WalkNext(t)
  BY <1>12 DEF WalkNext, LeaveNode, AtOrAfter, Present, Goto, data, globals, nodes, walks
<1>13. CASE WalkStop(t)
  BY <1>13 DEF WalkStop, LeaveNode, Goto, data, globals, nodes, walks
<1>14. CASE IterNew(t)
  BY <1>14 DEF IterNew, ShareGlobal, Goto, data, globals, nodes, walks
<1>15. CASE Seek(t)
  BY <1>15 DEF Seek, InitSeek, Goto, data, globals, nodes, walks
<1>16. CASE SeekToFirst(t)
  BY <1>16 DEF SeekToFirst, InitSeek, Present, Goto, data, globals, nodes, walks
<1>17. CASE IterOwn(t)
  BY <1>17 DEF IterOwn, OwnNode, Goto, data, globals, nodes, walks
<1>18. CASE WriteRange(t)
  BY <1>18 DEF WriteRange, data, globals, nodes, walks
<1>19. CASE Abort(t)
  BY <1>19 DEF Abort, data, globals, nodes, walks
<1>20. CASE CommitStart(t)
  BY <1>20 DEF CommitStart, Start, Goto, data, globals, nodes, walks
<1>21. CASE CommitEnd(t)
  BY <1>21 DEF CommitEnd, Finish, Goto, data, globals, nodes, walks
<1>22. CASE IterDelete(t)
  BY <1>22 DEF IterDelete, InitSeek, Goto, data, globals, nodes, walks
<1>23. CASE Unlock(t)
  BY <1>23 DEF Unlock, Goto, data, globals, nodes, walks
<1>24. CASE \E c \in Calls : Begin(t, c)
  BY <1>24, CallFields DEF Begin, Goto, data, globals, nodes, walks
<1> QED
  BY <1>1, <1>2, <1>3, <1>4, <1>5, <1>6, <1>7, <1>8, <1>9, <1>10, <1>11, <1>12, <1>13, <1>14, <1>15, <1>16, <1>17, <1>18, <1>19, <1>20, <1>21, <1>22, <1>23, <1>24 DEF Step

\* Who holds the mutex of an element.
LEMMA NodeStep ==
  ASSUME IInv, NEW t \in Threads, Step(t)
  PROVE  NodeLocks'
<1> USE KeysAssumption, NamesAssumption DEF IInv, TypeOK, CallsMade, Elements, StandsOnElement, NodeLocks, Sharing, Outside, Owning, Positions
<1>1. CASE GetFind(t)
  BY <1>1 DEF GetFind, ShareGlobal, Goto, Present, data, globals, nodes, walks
<1>2. CASE ShareNode(t)
  BY <1>2 DEF ShareNode, Goto, data, globals, nodes, walks
<1>3. CASE GetReturn(t)
  BY <1>3 DEF GetReturn, LeaveNode, Goto, data, globals, nodes, walks
<1>4. CASE PutEmplace(t)
  BY <1>4 DEF PutEmplace, ShareGlobal, Goto, Present, data, globals, nodes, walks
<1>5. CASE PutAssign(t)
  BY <1>5 DEF PutAssign, OwnNode, Start, Goto, data, globals, nodes, walks
<1>6. CASE PutCommit(t)
  BY <1>6 DEF PutCommit, Finish, Goto, data, globals, nodes, walks
<1>7. CASE RemoveLock(t)
  BY <1>7 DEF RemoveLock, Start, Goto, Present, data, globals, nodes, walks
<1>8. CASE RemoveErase(t)
  BY <1>8 DEF RemoveErase, Finish, Goto, data, globals, nodes, walks
<1>9. CASE WalkFirst(t)
  BY <1>9 DEF WalkFirst, ShareGlobal, AtOrAfter, Present, Goto, data, globals, nodes, walks
<1>10. CASE WalkLast(t)
  BY <1>10 DEF WalkLast, AtOrAfter, Present, Goto, data, globals, nodes, walks
<1>11. CASE WalkTest(t)
  BY <1>11 DEF WalkTest, Goto, data, globals, nodes, walks
<1>12. CASE WalkNext(t)
  BY <1>12 DEF WalkNext, LeaveNode, AtOrAfter, Present, Goto, data, globals, nodes, walks
<1>13. CASE WalkStop(t)
  BY <1>13 DEF WalkStop, LeaveNode, Goto, data, globals, nodes, walks
<1>14. CASE IterNew(t)
  BY <1>14 DEF IterNew, ShareGlobal, Goto, data, globals, nodes, walks
<1>15. CASE Seek(t)
  BY <1>15, TargetsPresent DEF Seek, InitSeek, Goto, Present, data, globals, nodes, walks
<1>16. CASE SeekToFirst(t)
  BY <1>16 DEF SeekToFirst, InitSeek, Present, Goto, data, globals, nodes, walks
<1>17. CASE IterOwn(t)
  BY <1>17 DEF IterOwn, OwnNode, Goto, data, globals, nodes, walks
<1>18. CASE WriteRange(t)
  BY <1>18 DEF WriteRange, data, globals, nodes, walks
<1>19. CASE Abort(t)
  BY <1>19 DEF Abort, data, globals, nodes, walks
<1>20. CASE CommitStart(t)
  BY <1>20 DEF CommitStart, Start, Goto, data, globals, nodes, walks
<1>21. CASE CommitEnd(t)
  BY <1>21 DEF CommitEnd, Finish, Goto, data, globals, nodes, walks
<1>22. CASE IterDelete(t)
  BY <1>22 DEF IterDelete, InitSeek, Goto, data, globals, nodes, walks
<1>23. CASE Unlock(t)
  BY <1>23 DEF Unlock, Goto, data, globals, nodes, walks
<1>24. CASE \E c \in Calls : Begin(t, c)
  BY <1>24 DEF Begin, Goto, data, globals, nodes, walks
<1> QED
  BY <1>1, <1>2, <1>3, <1>4, <1>5, <1>6, <1>7, <1>8, <1>9, <1>10, <1>11, <1>12, <1>13, <1>14, <1>15, <1>16, <1>17, <1>18, <1>19, <1>20, <1>21, <1>22, <1>23, <1>24 DEF Step

\* What calls may be where.
LEMMA CallsStep ==
  ASSUME IInv, NEW t \in Threads, Step(t)
  PROVE  CallsMade'
<1> USE KeysAssumption, NamesAssumption, IdleFields DEF IInv, TypeOK, CallsMade, Outside, Positions
<1>1. CASE GetFind(t)
  BY <1>1 DEF GetFind, ShareGlobal, Goto, Present, data, globals, nodes, walks
<1>2. CASE ShareNode(t)
  BY <1>2 DEF ShareNode, Goto, data, globals, nodes, walks
<1>3. CASE GetReturn(t)
  BY <1>3 DEF GetReturn, LeaveNode, Goto, data, globals, nodes, walks
<1>4. CASE PutEmplace(t)
  BY <1>4 DEF PutEmplace, ShareGlobal, Goto, Present, data, globals, nodes, walks
<1>5. CASE PutAssign(t)
  BY <1>5 DEF PutAssign, OwnNode, Start, Goto, data, globals, nodes, walks
<1>6. CASE PutCommit(t)
  BY <1>6 DEF PutCommit, Finish, Goto, data, globals, nodes, walks
<1>7. CASE RemoveLock(t)
  BY <1>7 DEF RemoveLock, Start, Goto, Present, data, globals, nodes, walks
<1>8. CASE RemoveErase(t)
  BY <1>8 DEF RemoveErase, Finish, Goto, data, globals, nodes, walks
<1>9. CASE WalkFirst(t)
  BY <1>9 DEF WalkFirst, ShareGlobal, AtOrAfter, Present, Goto, data, globals, nodes, walks
<1>10. CASE WalkLast(t)
  BY <1>10 DEF WalkLast, AtOrAfter, Present, Goto, data, globals, nodes, walks
<1>11. CASE WalkTest(t)
  BY <1>11 DEF WalkTest, Goto, data, globals, nodes, walks
<1>12. CASE WalkNext(t)
  BY <1>12 DEF WalkNext, LeaveNode, AtOrAfter, Present, Goto, data, globals, nodes, walks
<1>13. CASE WalkStop(t)
  BY <1>13 DEF WalkStop, LeaveNode, Goto, data, globals, nodes, walks
<1>14. CASE IterNew(t)
  BY <1>14 DEF IterNew, ShareGlobal, Goto, data, globals, nodes, walks
<1>15. CASE Seek(t)
  BY <1>15, TargetsPresent DEF Seek, InitSeek, Goto, Present, data, globals, nodes, walks
<1>16. CASE SeekToFirst(t)
  BY <1>16 DEF SeekToFirst, InitSeek, Present, Goto, data, globals, nodes, walks
<1>17. CASE IterOwn(t)
  BY <1>17 DEF IterOwn, OwnNode, Goto, data, globals, nodes, walks
<1>18. CASE WriteRange(t)
  BY <1>18 DEF WriteRange, data, globals, nodes, walks
<1>19. CASE Abort(t)
  BY <1>19 DEF Abort, data, globals, nodes, walks
<1>20. CASE CommitStart(t)
  BY <1>20 DEF CommitStart, Start, Goto, data, globals, nodes, walks
<1>21. CASE CommitEnd(t)
  BY <1>21 DEF CommitEnd, Finish, Goto, data, globals, nodes, walks
<1>22. CASE IterDelete(t)
  BY <1>22 DEF IterDelete, InitSeek, Goto, data, globals, nodes, walks
<1>23. CASE Unlock(t)
  BY <1>23 DEF Unlock, Goto, data, globals, nodes, walks
<1>24. CASE \E c \in Calls : Begin(t, c)
  BY <1>24, CallFields DEF Begin, Goto, data, globals, nodes, walks
<1> QED
  BY <1>1, <1>2, <1>3, <1>4, <1>5, <1>6, <1>7, <1>8, <1>9, <1>10, <1>11, <1>12, <1>13, <1>14, <1>15, <1>16, <1>17, <1>18, <1>19, <1>20, <1>21, <1>22, <1>23, <1>24 DEF Step

\* Nothing is erased under a thread.
LEMMA StandingStep ==
  ASSUME IInv, NEW t \in Threads, Step(t)
  PROVE  StandsOnElement'
<1> USE KeysAssumption, NamesAssumption DEF IInv, TypeOK, CallsMade, GlobalLocks, NodeLocks, Elements, Sharing, Outside, Owning, Positions, StandsOnElement
<1>1. CASE GetFind(t)
  BY <1>1 DEF GetFind, ShareGlobal, Goto, Present, data, globals, nodes, walks
<1>2. CASE ShareNode(t)
  BY <1>2 DEF ShareNode, Goto, data, globals, nodes, walks
<1>3. CASE GetReturn(t)
  BY <1>3 DEF GetReturn, LeaveNode, Goto, data, globals, nodes, walks
<1>4. CASE PutEmplace(t)
  BY <1>4 DEF PutEmplace, ShareGlobal, Goto, Present, data, globals, nodes, walks
<1>5. CASE PutAssign(t)
  BY <1>5 DEF PutAssign, OwnNode, Start, Goto, data, globals, nodes, walks
<1>6. CASE PutCommit(t)
  <2>1. undo[pos[t]] \in Values /\ call[t].value \in Values
    BY <1>6 DEF PutCommit, OwnerCanUndo
  <2> QED
    BY <1>6, <2>1 DEF PutCommit, Finish, Goto, data, globals, nodes, walks
<1>7. CASE RemoveLock(t)
  BY <1>7 DEF RemoveLock, Start, Goto, Present, data, globals, nodes, walks
<1>8. CASE RemoveErase(t)
  BY <1>8 DEF RemoveErase, Finish, Goto, data, globals, nodes, walks
<1>9. CASE WalkFirst(t)
  BY <1>9 DEF WalkFirst, ShareGlobal, AtOrAfter, Present, Goto, data, globals, nodes, walks
<1>10. CASE WalkLast(t)
  BY <1>10 DEF WalkLast, AtOrAfter, Present, Goto, data, globals, nodes, walks
<1>11. CASE WalkTest(t)
  BY <1>11 DEF WalkTest, Goto, data, globals, nodes, walks
<1>12. CASE WalkNext(t)
  BY <1>12 DEF WalkNext, LeaveNode, AtOrAfter, Present, Goto, data, globals, nodes, walks
<1>13. CASE WalkStop(t)
  BY <1>13 DEF WalkStop, LeaveNode, Goto, data, globals, nodes, walks
<1>14. CASE IterNew(t)
  BY <1>14 DEF IterNew, ShareGlobal, Goto, data, globals, nodes, walks
<1>15. CASE Seek(t)
  <2>1. PICK k \in Keys : \E kind \in DOMAIN Targets(t, k) : \E p \in Targets(t, k)[kind] :
          pos' = [pos EXCEPT ![t] = p] /\ Goto(t, IF p = End THEN "iter" ELSE "own")
    BY <1>15 DEF Seek
  <2>2. PICK p \in Present \cup {End} : pos' = [pos EXCEPT ![t] = p]
    BY <2>1, TargetsPresent
  <2> QED
    BY <1>15, <2>1, <2>2 DEF Seek, InitSeek, Goto, Present, data
<1>16. CASE SeekToFirst(t)
  BY <1>16 DEF SeekToFirst, InitSeek, Present, Goto, data, globals, nodes, walks
<1>17. CASE IterOwn(t)
  BY <1>17 DEF IterOwn, OwnNode, Goto, data, globals, nodes, walks
<1>18. CASE WriteRange(t)
  BY <1>18 DEF WriteRange, data, globals, nodes, walks
<1>19. CASE Abort(t)
  BY <1>19 DEF Abort, data, globals, nodes, walks
<1>20. CASE CommitStart(t)
  BY <1>20 DEF CommitStart, Start, Goto, data, globals, nodes, walks
<1>21. CASE CommitEnd(t)
  BY <1>21 DEF CommitEnd, Finish, Goto, data, globals, nodes, walks
<1>22. CASE IterDelete(t)
  BY <1>22 DEF IterDelete, InitSeek, Goto, data, globals, nodes, walks
<1>23. CASE Unlock(t)
  BY <1>23 DEF Unlock, Goto, data, globals, nodes, walks
<1>24. CASE \E c \in Calls : Begin(t, c)
  BY <1>24 DEF Begin, Goto, data, globals, nodes, walks
<1> QED
  BY <1>1, <1>2, <1>3, <1>4, <1>5, <1>6, <1>7, <1>8, <1>9, <1>10, <1>11, <1>12, <1>13, <1>14, <1>15, <1>16, <1>17, <1>18, <1>19, <1>20, <1>21, <1>22, <1>23, <1>24 DEF Step

\* Only an element someone owns is torn.
LEMMA TornStep ==
  ASSUME IInv, NEW t \in Threads, Step(t)
  PROVE  TornHasOwner'
<1> USE KeysAssumption, NamesAssumption DEF IInv, TypeOK, CallsMade, GlobalLocks, NodeLocks, Elements, Sharing, Outside, Owning, Positions, TornHasOwner
<1>1. CASE GetFind(t)
  BY <1>1 DEF GetFind, ShareGlobal, Goto, Present, data, globals, nodes, walks
<1>2. CASE ShareNode(t)
  BY <1>2 DEF ShareNode, Goto, data, globals, nodes, walks
<1>3. CASE GetReturn(t)
  BY <1>3 DEF GetReturn, LeaveNode, Goto, data, globals, nodes, walks
<1>4. CASE PutEmplace(t)
  BY <1>4 DEF PutEmplace, ShareGlobal, Goto, Present, data, globals, nodes, walks
<1>5. CASE PutAssign(t)
  BY <1>5 DEF PutAssign, OwnNode, Start, Goto, data, globals, nodes, walks
<1>6. CASE PutCommit(t)
  <2> SUFFICES ASSUME NEW k \in Keys, map'[k] = Torn
               PROVE  \/ \E u \in Threads : pc'[u] \in {"assign", "commit"} /\ pos'[u] = k
                      \/ \E u \in Threads : pc'[u] = "erase" /\ call'[u].key = k
    OBVIOUS
  <2>1. k # pos[t] /\ map[k] = Torn
    BY <1>6 DEF PutCommit, Finish, OwnerCanUndo
  <2>2. PICK u \in Threads : (pc[u] \in {"assign", "commit"} /\ pos[u] = k) \/ (pc[u] = "erase" /\ call[u].key = k)
    BY <2>1
  <2>3. u # t
    BY <1>6, <2>1, <2>2 DEF PutCommit
  <2> QED
    BY <1>6, <2>2, <2>3 DEF PutCommit, Goto, data, globals, nodes, walks
<1>7. CASE RemoveLock(t)
  BY <1>7 DEF RemoveLock, Start, Goto, Present, data, globals, nodes, walks
<1>8. CASE RemoveErase(t)
  BY <1>8 DEF RemoveErase, Finish, Goto, data, globals, nodes, walks
<1>9. CASE WalkFirst(t)
  BY <1>9 DEF WalkFirst, ShareGlobal, AtOrAfter, Present, Goto, data, globals, nodes, walks
<1>10. CASE WalkLast(t)
  BY <1>10 DEF WalkLast, AtOrAfter, Present, Goto, data, globals, nodes, walks
<1>11. CASE WalkTest(t)
  BY <1>11 DEF WalkTest, Goto, data, globals, nodes, walks
<1>12. CASE WalkNext(t)
  BY <1>12 DEF WalkNext, LeaveNode, AtOrAfter, Present, Goto, data, globals, nodes, walks
<1>13. CASE WalkStop(t)
  BY <1>13 DEF WalkStop, LeaveNode, Goto, data, globals, nodes, walks
<1>14. CASE IterNew(t)
  BY <1>14 DEF IterNew, ShareGlobal, Goto, data, globals, nodes, walks
<1>15. CASE Seek(t)
  <2> SUFFICES ASSUME NEW k \in Keys, map[k] = Torn
               PROVE  \/ \E u \in Threads : pc'[u] \in {"assign", "commit"} /\ pos'[u] = k
                      \/ \E u \in Threads : pc'[u] = "erase" /\ call'[u].key = k
    BY <1>15 DEF Seek, data
  <2>1. PICK u \in Threads : (pc[u] \in {"assign", "commit"} /\ pos[u] = k) \/ (pc[u] = "erase" /\ call[u].key = k)
    BY ZenonT(60)
  <2>2. u # t
    BY <1>15, <2>1 DEF Seek, InitSeek
  <2> QED
    BY <1>15, <2>1, <2>2 DEF Seek, Goto
<1>16. CASE SeekToFirst(t)
  BY <1>16 DEF SeekToFirst, InitSeek, Present, Goto, data, globals, nodes, walks
<1>17. CASE IterOwn(t)
  BY <1>17 DEF IterOwn, OwnNode, Goto, data, globals, nodes, walks
<1>18. CASE WriteRange(t)
  BY <1>18, ZenonT(60) DEF WriteRange, data, globals, nodes, walks
<1>19. CASE Abort(t)
  BY <1>19 DEF Abort, data, globals, nodes, walks
<1>20. CASE CommitStart(t)
  BY <1>20 DEF CommitStart, Start, Goto, data, globals, nodes, walks
<1>21. CASE CommitEnd(t)
  <2> SUFFICES ASSUME NEW k \in Keys, map'[k] = Torn
               PROVE  \/ \E u \in Threads : pc'[u] \in {"assign", "commit"} /\ pos'[u] = k
                      \/ \E u \in Threads : pc'[u] = "erase" /\ call'[u].key = k
    OBVIOUS
  <2>1. k # pos[t] /\ map[k] = Torn
    BY <1>21 DEF CommitEnd, Finish
  <2>2. PICK u \in Threads : (pc[u] \in {"assign", "commit"} /\ pos[u] = k) \/ (pc[u] = "erase" /\ call[u].key = k)
    BY <2>1
  <2>3. u # t
    BY <1>21, <2>1, <2>2 DEF CommitEnd
  <2> QED
    BY <1>21, <2>2, <2>3 DEF CommitEnd, Goto, data, globals, nodes, walks
<1>22. CASE IterDelete(t)
  BY <1>22 DEF IterDelete, InitSeek, Goto, data, globals, nodes, walks
<1>23. CASE Unlock(t)
  BY <1>23 DEF Unlock, Goto, data, globals, nodes, walks
<1>24. CASE \E c \in Calls : Begin(t, c)
  BY <1>24 DEF Begin, Goto, data, globals, nodes, walks
<1> QED
  BY <1>1, <1>2, <1>3, <1>4, <1>5, <1>6, <1>7, <1>8, <1>9, <1>10, <1>11, <1>12, <1>13, <1>14, <1>15, <1>16, <1>17, <1>18, <1>19, <1>20, <1>21, <1>22, <1>23, <1>24 DEF Step

\* A transaction can be undone.
LEMMA UndoStep ==
  ASSUME IInv, NEW t \in Threads, Step(t)
  PROVE  OwnerCanUndo'
<1> USE KeysAssumption, NamesAssumption DEF IInv, TypeOK, CallsMade, GlobalLocks, NodeLocks, Elements, Sharing, Outside, Owning, Positions, OwnerCanUndo
<1>1. CASE GetFind(t)
  BY <1>1 DEF GetFind, ShareGlobal, Goto, Present, data, globals, nodes, walks
<1>2. CASE ShareNode(t)
  BY <1>2 DEF ShareNode, Goto, data, globals, nodes, walks
<1>3. CASE GetReturn(t)
  BY <1>3 DEF GetReturn, LeaveNode, Goto, data, globals, nodes, walks
<1>4. CASE PutEmplace(t)
  BY <1>4 DEF PutEmplace, ShareGlobal, Goto, Present, data, globals, nodes, walks
<1>5. CASE PutAssign(t)
  BY <1>5, Settled DEF PutAssign, OwnNode, Start, Goto, data, globals, nodes, walks
<1>6. CASE PutCommit(t)
  <2> SUFFICES ASSUME NEW u \in Threads, pc'[u] \in {"assign", "commit"}
               PROVE  map'[pos'[u]] = Torn /\ undo'[pos'[u]] \in Values
    OBVIOUS
  <2>1. u # t
    BY <1>6 DEF PutCommit, Goto
  <2>2. pc'[u] = pc[u] /\ pos'[u] = pos[u] /\ map[pos[u]] = Torn /\ undo[pos[u]] \in Values
    BY <1>6, <2>1 DEF PutCommit, Goto
  <2>3. pos[u] # pos[t]
    BY <1>6, <2>1, <2>2, Alone DEF PutCommit
  <2> QED
    BY <1>6, <2>2, <2>3 DEF PutCommit, Finish
<1>7. CASE RemoveLock(t)
  BY <1>7 DEF RemoveLock, Start, Goto, Present, data, globals, nodes, walks
<1>8. CASE RemoveErase(t)
  BY <1>8 DEF RemoveErase, Finish, Goto, data, globals, nodes, walks
<1>9. CASE WalkFirst(t)
  BY <1>9 DEF WalkFirst, ShareGlobal, AtOrAfter, Present, Goto, data, globals, nodes, walks
<1>10. CASE WalkLast(t)
  BY <1>10 DEF WalkLast, AtOrAfter, Present, Goto, data, globals, nodes, walks
<1>11. CASE WalkTest(t)
  BY <1>11 DEF WalkTest, Goto, data, globals, nodes, walks
<1>12. CASE WalkNext(t)
  BY <1>12 DEF WalkNext, LeaveNode, AtOrAfter, Present, Goto, data, globals, nodes, walks
<1>13. CASE WalkStop(t)
  BY <1>13 DEF WalkStop, LeaveNode, Goto, data, globals, nodes, walks
<1>14. CASE IterNew(t)
  BY <1>14 DEF IterNew, ShareGlobal, Goto, data, globals, nodes, walks
<1>15. CASE Seek(t)
  BY <1>15 DEF Seek, InitSeek, Goto, data, globals, nodes, walks
<1>16. CASE SeekToFirst(t)
  BY <1>16 DEF SeekToFirst, InitSeek, Present, Goto, data, globals, nodes, walks
<1>17. CASE IterOwn(t)
  BY <1>17 DEF IterOwn, OwnNode, Goto, data, globals, nodes, walks
<1>18. CASE WriteRange(t)
  BY <1>18 DEF WriteRange, data, globals, nodes, walks
<1>19. CASE Abort(t)
  BY <1>19 DEF Abort, data, globals, nodes, walks
<1>20. CASE CommitStart(t)
  BY <1>20, Held DEF CommitStart, Start, Goto, data, globals, nodes, walks
<1>21. CASE CommitEnd(t)
  <2> SUFFICES ASSUME NEW u \in Threads, pc'[u] \in {"assign", "commit"}
               PROVE  map'[pos'[u]] = Torn /\ undo'[pos'[u]] \in Values
    OBVIOUS
  <2>1. u # t
    BY <1>21 DEF CommitEnd, Goto
  <2>2. pc'[u] = pc[u] /\ pos'[u] = pos[u] /\ map[pos[u]] = Torn /\ undo[pos[u]] \in Values
    BY <1>21, <2>1 DEF CommitEnd, Goto
  <2>3. pos[u] # pos[t]
    BY <1>21, <2>1, <2>2, Alone DEF CommitEnd
  <2> QED
    BY <1>21, <2>2, <2>3 DEF CommitEnd, Finish
<1>22. CASE IterDelete(t)
  BY <1>22 DEF IterDelete, InitSeek, Goto, data, globals, nodes, walks
<1>23. CASE Unlock(t)
  BY <1>23 DEF Unlock, Goto, data, globals, nodes, walks
<1>24. CASE \E c \in Calls : Begin(t, c)
  BY <1>24 DEF Begin, Goto, data, globals, nodes, walks
<1> QED
  BY <1>1, <1>2, <1>3, <1>4, <1>5, <1>6, <1>7, <1>8, <1>9, <1>10, <1>11, <1>12, <1>13, <1>14, <1>15, <1>16, <1>17, <1>18, <1>19, <1>20, <1>21, <1>22, <1>23, <1>24 DEF Step

\* Nothing is changed under a callback or an iterator.
LEMMA SeenStep ==
  ASSUME IInv, NEW t \in Threads, Step(t)
  PROVE  SeenIsStored'
<1> USE KeysAssumption, NamesAssumption DEF IInv, TypeOK, CallsMade, GlobalLocks, NodeLocks, Elements, Sharing, Outside, Owning, Positions, SeenIsStored
<1>1. CASE GetFind(t)
  BY <1>1 DEF GetFind, ShareGlobal, Goto, Present, data, globals, nodes, walks
<1>2. CASE ShareNode(t)
  BY <1>2 DEF ShareNode, Goto, data, globals, nodes, walks
<1>3. CASE GetReturn(t)
  BY <1>3 DEF GetReturn, LeaveNode, Goto, data, globals, nodes, walks
<1>4. CASE PutEmplace(t)
  <2> SUFFICES ASSUME NEW u \in Threads, pc'[u] = "callback" \/ (pc'[u] = "iter" /\ pos'[u] \in Keys)
               PROVE  map'[pos'[u]] = seen'[u]
    OBVIOUS
  <2>1. u # t
    BY <1>4 DEF PutEmplace, Goto
  <2>2. pc'[u] = pc[u] /\ pos'[u] = pos[u] /\ seen'[u] = seen[u] /\ map[pos[u]] = seen[u] /\ pos[u] \in Keys
    BY <1>4, <2>1 DEF PutEmplace, Goto
  <2>3. map[pos[u]] # NoValue
    BY <1>4, <2>2, <2>1 DEF StandsOnElement
  <2> QED
    BY <1>4, <2>2, <2>3 DEF PutEmplace, Present
<1>5. CASE PutAssign(t)
  <2> SUFFICES ASSUME NEW u \in Threads, pc'[u] = "callback" \/ (pc'[u] = "iter" /\ pos'[u] \in Keys)
               PROVE  map'[pos'[u]] = seen'[u]
    OBVIOUS
  <2>1. u # t
    BY <1>5 DEF PutAssign, Goto
  <2>2. pc'[u] = pc[u] /\ pos'[u] = pos[u] /\ seen'[u] = seen[u] /\ map[pos[u]] = seen[u] /\ pos[u] \in Keys
    BY <1>5, <2>1 DEF PutAssign, OwnNode, Goto, walks
  <2>3. pos[u] # pos[t]
    <3>1. nWriter[pos[t]] = NoThread /\ nReaders[pos[t]] = {}
      BY <1>5 DEF PutAssign, OwnNode
    <3>2. CASE pc[u] = "callback"
      BY <2>2, <3>1, <3>2
    <3>3. CASE pc[u] = "iter"
      <4>1. nWriter[pos[u]] = u
        BY <2>2, <3>3, ZenonT(30)
      <4> QED
        BY <3>1, <4>1
    <3> QED
      BY <2>2, <3>2, <3>3
  <2> QED
    BY <1>5, <2>2, <2>3 DEF PutAssign, Start
<1>6. CASE PutCommit(t)
  <2> SUFFICES ASSUME NEW u \in Threads, pc'[u] = "callback" \/ (pc'[u] = "iter" /\ pos'[u] \in Keys)
               PROVE  map'[pos'[u]] = seen'[u]
    OBVIOUS
  <2>1. u # t
    BY <1>6 DEF PutCommit, Goto
  <2>2. pc'[u] = pc[u] /\ pos'[u] = pos[u] /\ seen'[u] = seen[u] /\ map[pos[u]] = seen[u] /\ pos[u] \in Keys
    BY <1>6, <2>1 DEF PutCommit, OwnNode, Goto, walks
  <2>3. pos[u] # pos[t]
    BY <1>6, <2>1, <2>2, Alone DEF PutCommit
  <2> QED
    BY <1>6, <2>2, <2>3 DEF PutCommit, Finish
<1>7. CASE RemoveLock(t)
  BY <1>7 DEF RemoveLock, Start, Goto, Present, data, globals, nodes, walks
<1>8. CASE RemoveErase(t)
  BY <1>8 DEF RemoveErase, Finish, Goto, data, globals, nodes, walks
<1>9. CASE WalkFirst(t)
  BY <1>9 DEF WalkFirst, ShareGlobal, AtOrAfter, Present, Goto, data, globals, nodes, walks
<1>10. CASE WalkLast(t)
  BY <1>10 DEF WalkLast, AtOrAfter, Present, Goto, data, globals, nodes, walks
<1>11. CASE WalkTest(t)
  BY <1>11 DEF WalkTest, Goto, data, globals, nodes, walks
<1>12. CASE WalkNext(t)
  BY <1>12 DEF WalkNext, LeaveNode, AtOrAfter, Present, Goto, data, globals, nodes, walks
<1>13. CASE WalkStop(t)
  BY <1>13 DEF WalkStop, LeaveNode, Goto, data, globals, nodes, walks
<1>14. CASE IterNew(t)
  BY <1>14 DEF IterNew, ShareGlobal, Goto, data, globals, nodes, walks
<1>15. CASE Seek(t)
  BY <1>15 DEF Seek, InitSeek, Goto, data, globals, nodes, walks
<1>16. CASE SeekToFirst(t)
  BY <1>16 DEF SeekToFirst, InitSeek, Present, Goto, data, globals, nodes, walks
<1>17. CASE IterOwn(t)
  BY <1>17 DEF IterOwn, OwnNode, Goto, data, globals, nodes, walks
<1>18. CASE WriteRange(t)
  BY <1>18 DEF WriteRange, data, globals, nodes, walks
<1>19. CASE Abort(t)
  BY <1>19 DEF Abort, data, globals, nodes, walks
<1>20. CASE CommitStart(t)
  <2> SUFFICES ASSUME NEW u \in Threads, pc'[u] = "callback" \/ (pc'[u] = "iter" /\ pos'[u] \in Keys)
               PROVE  map'[pos'[u]] = seen'[u]
    OBVIOUS
  <2>1. u # t
    BY <1>20 DEF CommitStart, Goto
  <2>2. pc'[u] = pc[u] /\ pos'[u] = pos[u] /\ seen'[u] = seen[u] /\ map[pos[u]] = seen[u] /\ pos[u] \in Keys
    BY <1>20, <2>1 DEF CommitStart, OwnNode, Goto, walks
  <2>3. pos[u] # pos[t]
    BY <1>20, <2>1, <2>2, Alone DEF CommitStart
  <2> QED
    BY <1>20, <2>2, <2>3 DEF CommitStart, Start
<1>21. CASE CommitEnd(t)
  <2> SUFFICES ASSUME NEW u \in Threads, pc'[u] = "callback" \/ (pc'[u] = "iter" /\ pos'[u] \in Keys)
               PROVE  map'[pos'[u]] = seen'[u]
    OBVIOUS
  <2>1. CASE u = t
    BY <1>21, <2>1 DEF CommitEnd, Finish, walks
  <2>2. CASE u # t
    <3>1. pc'[u] = pc[u] /\ pos'[u] = pos[u] /\ seen'[u] = seen[u] /\ map[pos[u]] = seen[u] /\ pos[u] \in Keys
      BY <1>21, <2>2 DEF CommitEnd, Goto
    <3>2. pos[u] # pos[t]
      BY <1>21, <2>2, <3>1, Alone DEF CommitEnd
    <3> QED
      BY <1>21, <3>1, <3>2 DEF CommitEnd, Finish
  <2> QED
    BY <2>1, <2>2
<1>22. CASE IterDelete(t)
  BY <1>22 DEF IterDelete, InitSeek, Goto, data, globals, nodes, walks
<1>23. CASE Unlock(t)
  BY <1>23 DEF Unlock, Goto, data, globals, nodes, walks
<1>24. CASE \E c \in Calls : Begin(t, c)
  BY <1>24 DEF Begin, Goto, data, globals, nodes, walks
<1> QED
  BY <1>1, <1>2, <1>3, <1>4, <1>5, <1>6, <1>7, <1>8, <1>9, <1>10, <1>11, <1>12, <1>13, <1>14, <1>15, <1>16, <1>17, <1>18, <1>19, <1>20, <1>21, <1>22, <1>23, <1>24 DEF Step

\* A crash keeps the whole invariant.
LEMMA CrashStep ==
  ASSUME IInv, Crash
  PROVE  IInv'
<1> USE KeysAssumption, NamesAssumption, IdleFields DEF Crash, Durable
<1>1. TypeOK'
  BY DEF IInv, TypeOK, Positions
<1>2. GlobalLocks' /\ NodeLocks' /\ CallsMade'
  BY DEF GlobalLocks, NodeLocks, CallsMade, Sharing, Outside, Owning
<1>3. Elements'
  BY DEF IInv, TypeOK, Elements, StandsOnElement, TornHasOwner, OwnerCanUndo, SeenIsStored, Sharing
<1> QED
  BY <1>1, <1>2, <1>3 DEF IInv

-----------------------------------------------------------------------------
(* The theorems *)

\* The inductive invariant holds in a map just created.
LEMMA InitInv == Init => IInv
BY KeysAssumption, NamesAssumption, IdleFields
   DEF Init, IInv, TypeOK, Positions, GlobalLocks, NodeLocks, CallsMade, Elements, StandsOnElement,
       TornHasOwner, OwnerCanUndo, SeenIsStored, Sharing, Outside, Owning

\* Every step keeps it.
LEMMA NextInv == IInv /\ [Next]_vars => IInv'
<1> SUFFICES ASSUME IInv, [Next]_vars PROVE IInv'
  OBVIOUS
<1>1. ASSUME NEW t \in Threads, Step(t) PROVE IInv'
  BY <1>1, TypeStep, GlobalStep, NodeStep, CallsStep, StandingStep, TornStep, UndoStep, SeenStep DEF IInv, Elements
<1>2. CASE Crash
  BY <1>2, CrashStep
<1>3. CASE UNCHANGED vars
  BY <1>3 DEF vars, IInv, TypeOK, Present, GlobalLocks, NodeLocks, CallsMade, Elements, StandsOnElement,
              TornHasOwner, OwnerCanUndo, SeenIsStored
<1> QED
  BY <1>1, <1>2, <1>3 DEF Next

\* It holds in every behaviour.
LEMMA InvariantHolds == Spec => []IInv
BY InitInv, NextInv, PTL DEF Spec

\* What a callback was given, and what an iterator stands on, is not changed, torn or erased under it,
\* for any number of threads: mtx and the mutexes of the elements do what csmap.cc uses them for.
THEOREM ElementsAreAlwaysStable == Spec => []ElementsAreStable
<1>1. IInv => ElementsAreStable
  <2> SUFFICES ASSUME IInv, NEW t \in Threads, pc[t] = "callback" \/ (pc[t] = "iter" /\ pos[t] # End)
               PROVE  map[pos[t]] = seen[t] /\ seen[t] \in Values
    BY DEF ElementsAreStable
  <2>1. pos[t] \in Keys
    BY DEF IInv, TypeOK, CallsMade, Positions
  <2>2. map[pos[t]] = seen[t] /\ map[pos[t]] # NoValue
    BY <2>1 DEF IInv, Elements, SeenIsStored, StandsOnElement, Sharing
  <2>3. seen[t] \in Values \cup {NoValue}
    BY DEF IInv, TypeOK
  <2> QED
    BY <2>2, <2>3
<1> QED
  BY <1>1, InvariantHolds, PTL

\* Who waits for the mutex of an element waits for a thread that waits for nobody.
LEMMA NodeOwnersRun ==
  ASSUME IInv, NEW t \in Threads, NEW u \in Threads, pc[t] \in {"share", "own"}, WaitsFor(t, u), NEW v \in Threads
  PROVE  ~WaitsFor(u, v)
<1>1. pc[u] \in Owning \cup {"callback"}
  BY DEF WaitsFor, IInv, CallsMade, NodeLocks
<1> QED
  BY <1>1 DEF WaitsFor, Owning

\* Who waits for mtx waits for a thread that waits at most for the mutex of an element.
LEMMA GlobalOwnersGoOn ==
  ASSUME IInv, NEW t \in Threads, NEW u \in Threads, pc[t] \in {"global", "global_alone"}, WaitsFor(t, u),
         NEW v \in Threads, WaitsFor(u, v)
  PROVE  pc[u] \in {"share", "own"}
<1>1. pc[u] \notin Outside
  BY DEF WaitsFor, IInv, GlobalLocks
<1> QED
  BY <1>1 DEF WaitsFor, Outside

\* Whatever calls any number of threads make, no set of them waits in a circle.
THEOREM NeverCircularWait == Spec => []NoCircularWait
<1>1. IInv => NoCircularWait
  <2> SUFFICES ASSUME IInv, NEW S \in SUBSET Threads, S # {}, \A t \in S : \E u \in S : WaitsFor(t, u)
               PROVE  FALSE
    BY DEF NoCircularWait
  <2>1. PICK t \in S : TRUE
    OBVIOUS
  <2>2. PICK u \in S : WaitsFor(t, u)
    BY <2>1
  <2>3. PICK v \in S : WaitsFor(u, v)
    BY <2>2
  <2>4. PICK w \in S : WaitsFor(v, w)
    BY <2>3
  <2>5. CASE pc[t] \in {"share", "own"}
    BY <2>2, <2>3, <2>5, NodeOwnersRun
  <2>6. CASE pc[t] \in {"global", "global_alone"}
    <3>1. pc[u] \in {"share", "own"}
      BY <2>2, <2>3, <2>6, GlobalOwnersGoOn
    <3> QED
      BY <3>1, <2>3, <2>4, NodeOwnersRun
  <2> QED
    BY <2>2, <2>5, <2>6 DEF WaitsFor
<1> QED
  BY <1>1, InvariantHolds, PTL

-----------------------------------------------------------------------------
(* The refinement: csmap implements ConcurrentMap *)

\* What a call may be at each point, and what it has fixed there.
CallsFit ==
  /\ \A t \in Threads : pc[t] = "idle" => call[t] = Idle
  /\ \A t \in Threads : pc[t] # "idle" => call[t] \in Calls
  /\ \A t \in Threads : pc[t] \in Outside => seen[t] = NoValue
  /\ \A t \in Threads : pc[t] \in {"share", "callback"} => call[t].op \in {"get", "walk"}
  /\ \A t \in Threads : pc[t] = "own" => call[t].op \in {"put", "iterator"}
  /\ \A t \in Threads : pc[t] \in {"last", "walk", "next"} => call[t].op \in {"walk", "count"}
  /\ \A t \in Threads : pc[t] \in {"share", "callback"} /\ call[t].op = "get" => pos[t] = call[t].key
  /\ \A t \in Threads : pc[t] \in {"own", "assign"} /\ call[t].op = "put" => pos[t] = call[t].key
  /\ \A t \in Threads : pc[t] = "unlock" => call[t].op # "iterator"

\* Calls keep to their path.
LEMMA FitStep ==
  ASSUME IInv, CallsFit, NEW t \in Threads, Step(t)
  PROVE  CallsFit'
<1> USE KeysAssumption, NamesAssumption, IdleFields, CallFields DEF IInv, TypeOK, CallsMade, CallsFit, Outside, Positions
<1>1. CASE GetFind(t)
  BY <1>1 DEF GetFind, ShareGlobal, Goto, Present, data, globals, nodes, walks
<1>2. CASE ShareNode(t)
  BY <1>2 DEF ShareNode, Goto, data, globals, nodes, walks
<1>3. CASE GetReturn(t)
  BY <1>3 DEF GetReturn, LeaveNode, Goto, data, globals, nodes, walks
<1>4. CASE PutEmplace(t)
  BY <1>4 DEF PutEmplace, ShareGlobal, Goto, Present, data, globals, nodes, walks
<1>5. CASE PutAssign(t)
  BY <1>5 DEF PutAssign, OwnNode, Start, Goto, data, globals, nodes, walks
<1>6. CASE PutCommit(t)
  BY <1>6 DEF PutCommit, Finish, Goto, data, globals, nodes, walks
<1>7. CASE RemoveLock(t)
  BY <1>7 DEF RemoveLock, Start, Goto, Present, data, globals, nodes, walks
<1>8. CASE RemoveErase(t)
  BY <1>8 DEF RemoveErase, Finish, Goto, data, globals, nodes, walks
<1>9. CASE WalkFirst(t)
  BY <1>9 DEF WalkFirst, ShareGlobal, AtOrAfter, Present, Goto, data, globals, nodes, walks
<1>10. CASE WalkLast(t)
  BY <1>10 DEF WalkLast, AtOrAfter, Present, Goto, data, globals, nodes, walks
<1>11. CASE WalkTest(t)
  BY <1>11 DEF WalkTest, Goto, data, globals, nodes, walks
<1>12. CASE WalkNext(t)
  BY <1>12 DEF WalkNext, LeaveNode, AtOrAfter, Present, Goto, data, globals, nodes, walks
<1>13. CASE WalkStop(t)
  BY <1>13 DEF WalkStop, LeaveNode, Goto, data, globals, nodes, walks
<1>14. CASE IterNew(t)
  BY <1>14 DEF IterNew, ShareGlobal, Goto, data, globals, nodes, walks
<1>15. CASE Seek(t)
  BY <1>15 DEF Seek, InitSeek, Goto, data, globals, nodes, walks
<1>16. CASE SeekToFirst(t)
  BY <1>16 DEF SeekToFirst, InitSeek, Present, Goto, data, globals, nodes, walks
<1>17. CASE IterOwn(t)
  BY <1>17 DEF IterOwn, OwnNode, Goto, data, globals, nodes, walks
<1>18. CASE WriteRange(t)
  BY <1>18 DEF WriteRange, data, globals, nodes, walks
<1>19. CASE Abort(t)
  BY <1>19 DEF Abort, data, globals, nodes, walks
<1>20. CASE CommitStart(t)
  BY <1>20 DEF CommitStart, Start, Goto, data, globals, nodes, walks
<1>21. CASE CommitEnd(t)
  BY <1>21 DEF CommitEnd, Finish, Goto, data, globals, nodes, walks
<1>22. CASE IterDelete(t)
  BY <1>22 DEF IterDelete, InitSeek, Goto, data, globals, nodes, walks
<1>23. CASE Unlock(t)
  BY <1>23 DEF Unlock, Goto, data, globals, nodes, walks
<1>24. CASE \E c \in Calls : Begin(t, c)
  BY <1>24, CallFields DEF Begin, Goto, data, globals, nodes, walks
<1> QED
  BY <1>1, <1>2, <1>3, <1>4, <1>5, <1>6, <1>7, <1>8, <1>9, <1>10, <1>11, <1>12, <1>13, <1>14, <1>15, <1>16, <1>17, <1>18, <1>19, <1>20, <1>21, <1>22, <1>23, <1>24 DEF Step

\* What the other threads look like from outside does not depend on a step of t.
LEMMA OthersStay ==
  ASSUME TypeOK, NEW t \in Threads, Step(t), NEW u \in Threads, u # t
  PROVE  Phase(u)' = Phase(u) /\ Requests(u)' = Requests(u) /\ Answer(u)' = Answer(u)
<1> USE DEF TypeOK, Goto, walks
<1>1. pc'[u] = pc[u]
  BY DEF Step, Begin, GetFind, ShareNode, GetReturn, PutEmplace, PutAssign, PutCommit, RemoveLock, RemoveErase,
         WalkFirst, WalkLast, WalkTest, WalkNext, WalkStop, IterNew, Seek, SeekToFirst, IterOwn, WriteRange,
         Abort, CommitStart, CommitEnd, IterDelete, Unlock
<1>2. call'[u] = call[u]
  BY DEF Step, Begin, GetFind, ShareNode, GetReturn, PutEmplace, PutAssign, PutCommit, RemoveLock, RemoveErase,
         WalkFirst, WalkLast, WalkTest, WalkNext, WalkStop, IterNew, Seek, SeekToFirst, IterOwn, WriteRange,
         Abort, CommitStart, CommitEnd, IterDelete, Unlock
<1>3. seen'[u] = seen[u]
  BY DEF Step, Begin, GetFind, ShareNode, GetReturn, PutEmplace, PutAssign, PutCommit, RemoveLock, RemoveErase,
         WalkFirst, WalkLast, WalkTest, WalkNext, WalkStop, IterNew, InitSeek, Seek, SeekToFirst, IterOwn, WriteRange,
         Abort, CommitStart, CommitEnd, IterDelete, Unlock
<1> QED
  BY <1>1, <1>2, <1>3 DEF Phase, Requests, Answer

\* Opening a transaction on an element that is not torn changes nothing that lasts, ...
LEMMA StartKeeps ==
  ASSUME TypeOK, NEW k \in Keys, map[k] # Torn, Start(k), NEW j \in Keys
  PROVE  Durable(j)' = Durable(j)
BY NamesAssumption DEF TypeOK, Start, Durable

\* ... and its end stores one value.
LEMMA FinishStores ==
  ASSUME TypeOK, NEW k \in Keys, NEW v \in Values \cup {NoValue}, Finish(k, v), NEW j \in Keys
  PROVE  Durable(j)' = IF j = k THEN v ELSE Durable(j)
BY NamesAssumption DEF TypeOK, Finish, Durable

\* Every step keeps what lasts of every key, or stores one value.
Lasts == \A j \in Keys : Durable(j)' = Durable(j)
Stores(k, v) == \A j \in Keys : Durable(j)' = IF j = k THEN v ELSE Durable(j)
LooksAs(t, phase, request, answer) == Phase(t)' = phase /\ Requests(t)' = request /\ Answer(t)' = answer

\* Steps that cannot be seen from outside.
Silent(t) == Lasts /\ LooksAs(t, Phase(t), Requests(t), Answer(t))

\* Steps that leave the map alone keep what lasts.
LEMMA DataStays == ASSUME UNCHANGED data PROVE Lasts
BY DEF data, Lasts, Durable

\* The steps of walks, searches and iterators cannot be seen.
LEMMA SilentCalls ==
  ASSUME IInv, CallsFit, NEW t \in Threads,
         \/ WalkLast(t) \/ WalkTest(t) \/ WalkNext(t) \/ WalkStop(t) \/ WalkFirst(t)
         \/ Seek(t) \/ SeekToFirst(t) \/ IterOwn(t) \/ WriteRange(t) \/ Abort(t)
         \/ (ShareNode(t) /\ call[t].op # "get") \/ GetReturn(t)
         \/ (GetFind(t) /\ call[t].key \in Present)
  PROVE  Silent(t)
<1>1. Lasts
  BY DataStays DEF WalkFirst, WalkLast, WalkTest, WalkNext, WalkStop, Seek, SeekToFirst, IterOwn, WriteRange, Abort,
     ShareNode, GetReturn, GetFind
<1>2. call' = call
  BY DEF WalkFirst, WalkLast, WalkTest, WalkNext, WalkStop, Seek, SeekToFirst, IterOwn, WriteRange, Abort,
     ShareNode, GetReturn, GetFind
<1>3. CASE call[t].op \in {"walk", "count", "iterator"}
  <2>1. Requests(t)' = Requests(t) /\ Answer(t)' = Answer(t)
    BY <1>2, <1>3 DEF Requests, Answer
  <2>2. pc[t] \notin {"idle"} /\ pc'[t] # "idle"
    BY <1>3 DEF Goto, IInv, TypeOK, ShareGlobal, InitSeek, OwnNode, WalkFirst, WalkLast, WalkTest, WalkNext, WalkStop,
       Seek, SeekToFirst, IterOwn, WriteRange, Abort, ShareNode, GetReturn, GetFind
  <2>3. call[t].op = "iterator" => pc[t] # "global" /\ pc'[t] # "global"
    BY <1>3 DEF Goto, IInv, TypeOK, CallsFit, ShareGlobal, InitSeek, OwnNode, WalkFirst, WalkLast, WalkTest, WalkNext,
       WalkStop, Seek, SeekToFirst, IterOwn, WriteRange, Abort, ShareNode, GetReturn, GetFind
  <2>4. Phase(t)' = Phase(t)
    BY <1>2, <1>3, <2>2, <2>3 DEF Phase
  <2> QED
    BY <1>1, <2>1, <2>4 DEF Silent, LooksAs
<1>4. CASE call[t].op \notin {"walk", "count", "iterator"}
  <2>1. call[t].op = "get" /\ (GetReturn(t) \/ (GetFind(t) /\ call[t].key \in Present))
    BY <1>4 DEF CallsFit, IInv, CallsMade, ShareGlobal, InitSeek, OwnNode, WalkFirst, WalkLast, WalkTest, WalkNext,
       WalkStop, Seek, SeekToFirst, IterOwn, WriteRange, Abort, ShareNode, GetReturn, GetFind
  <2>2. seen'[t] = seen[t] /\ Phase(t)' = Phase(t)
    BY <1>2, <2>1 DEF GetReturn, GetFind, ShareGlobal, Goto, Phase, IInv, TypeOK
  <2> QED
    BY <1>1, <1>2, <2>1, <2>2 DEF Silent, LooksAs, Requests, Answer
<1> QED
  BY <1>3, <1>4

\* Nor can a transaction that has only begun, or a put that has only found its element.
LEMMA SilentTransactions ==
  ASSUME IInv, CallsFit, NEW t \in Threads,
         PutAssign(t) \/ RemoveLock(t) \/ CommitStart(t) \/ (PutEmplace(t) /\ call[t].key \in Present)
  PROVE  Silent(t)
<1>1. call' = call /\ seen' = seen
  BY DEF PutAssign, RemoveLock, CommitStart, PutEmplace
<1>2. Phase(t)' = Phase(t)
  BY <1>1 DEF Phase, PutAssign, OwnNode, RemoveLock, CommitStart, PutEmplace, ShareGlobal, Goto, IInv, TypeOK, CallsMade
<1>3. Lasts
  <2>1. CASE PutAssign(t)
    BY <2>1, Settled, StartKeeps, NamesAssumption DEF PutAssign, OwnNode, Lasts, IInv
  <2>2. CASE RemoveLock(t)
    <3>1. call[t].key \in Keys
      BY <2>2 DEF RemoveLock, IInv, CallsMade
    <3> QED
      BY <2>2, <3>1, Unwatched, StartKeeps, DataStays, NamesAssumption DEF RemoveLock, Lasts, IInv
  <2>3. CASE CommitStart(t)
    <3>1. pos[t] \in Keys
      BY <2>3 DEF CommitStart, IInv, CallsMade
    <3> QED
      BY <2>3, <3>1, Held, StartKeeps, NamesAssumption DEF CommitStart, Lasts, IInv
  <2>4. CASE PutEmplace(t) /\ call[t].key \in Present
    BY <2>4 DEF PutEmplace, Lasts, Durable
  <2> QED
    BY <2>1, <2>2, <2>3, <2>4
<1> QED
  BY <1>1, <1>2, <1>3 DEF Silent, LooksAs, Requests, Answer

\* A step that cannot be seen is a stuttering step of ConcurrentMap.
LEMMA SilentStutters ==
  ASSUME IInv, NEW t \in Threads, Step(t), Silent(t)
  PROVE  UNCHANGED Concurrent!mapVars
<1>1. \A u \in Threads : Phase(u)' = Phase(u) /\ Requests(u)' = Requests(u) /\ Answer(u)' = Answer(u)
  BY OthersStay DEF Silent, LooksAs, IInv
<1>2. \A j \in Keys : Durable(j)' = Durable(j)
  BY DEF Silent, Lasts
<1> QED
  BY <1>1, <1>2 DEF Concurrent!mapVars

\* The views of the other threads, as the abstract steps of t write them.
LEMMA ViewOf ==
  ASSUME IInv, NEW t \in Threads, Step(t), NEW phase, NEW request, NEW answer, LooksAs(t, phase, request, answer)
  PROVE  /\ [u \in Threads |-> Phase(u)]' = [[u \in Threads |-> Phase(u)] EXCEPT ![t] = phase]
         /\ [u \in Threads |-> Requests(u)]' = [[u \in Threads |-> Requests(u)] EXCEPT ![t] = request]
         /\ [u \in Threads |-> Answer(u)]' = [[u \in Threads |-> Answer(u)] EXCEPT ![t] = answer]
<1>1. \A u \in Threads : u # t => Phase(u)' = Phase(u) /\ Requests(u)' = Requests(u) /\ Answer(u)' = Answer(u)
  BY OthersStay DEF IInv
<1> QED
  BY <1>1 DEF LooksAs

\* The contents, as the abstract steps write them.
LEMMA StoreOf ==
  ASSUME NEW k \in Keys, NEW v, Stores(k, v)
  PROVE  [j \in Keys |-> Durable(j)]' = [[j \in Keys |-> Durable(j)] EXCEPT ![k] = v]
BY DEF Stores

\* The contents, when they stay.
LEMMA StoreStays == ASSUME Lasts PROVE [j \in Keys |-> Durable(j)]' = [j \in Keys |-> Durable(j)]
BY DEF Lasts

\* A view that stays is one written with what it was.
LEMMA SameAnswer ==
  ASSUME NEW t \in Threads
  PROVE  /\ [[u \in Threads |-> Requests(u)] EXCEPT ![t] = Requests(t)] = [u \in Threads |-> Requests(u)]
         /\ [[u \in Threads |-> Answer(u)] EXCEPT ![t] = Answer(t)] = [u \in Threads |-> Answer(u)]
OBVIOUS

\* A call begins.
LEMMA BeginIsCall ==
  ASSUME IInv, CallsFit, NEW t \in Threads, Step(t), NEW c \in Calls, Begin(t, c)
  PROVE  [Concurrent!Next]_Concurrent!mapVars
<1>0. Lasts /\ pc[t] = "idle" /\ call[t] = Idle /\ call'[t] = c /\ seen'[t] = seen[t] /\ seen[t] = NoValue
  BY DataStays DEF Begin, CallsFit, IInv, TypeOK, Outside
<1>1. CASE c.op \in {"put", "get", "remove"}
  <2> DEFINE r == [op |-> c.op, key |-> c.key, value |-> c.value]
  <2>1. r \in Concurrent!Requests
    BY <1>1, RangesAssumption DEF Calls, Concurrent!Requests, Idle
  <2>2. LooksAs(t, "called", r, Answer(t))
    BY <1>0, <1>1, IdleFields DEF LooksAs, Phase, Requests, Answer, Begin, Goto, IInv, TypeOK
  <2>3. Phase(t) = "idle"
    BY <1>0 DEF Phase
  <2>4. Concurrent!Call(t, r)
    <3> HIDE DEF r
    <3>1. /\ [u \in Threads |-> Phase(u)]' = [[u \in Threads |-> Phase(u)] EXCEPT ![t] = "called"]
          /\ [u \in Threads |-> Requests(u)]' = [[u \in Threads |-> Requests(u)] EXCEPT ![t] = r]
          /\ [u \in Threads |-> Answer(u)]' = [[u \in Threads |-> Answer(u)] EXCEPT ![t] = Answer(t)]
      BY <2>2, ViewOf, ZenonT(60)
    <3> QED
      BY <1>0, <2>3, <3>1, StoreStays, SameAnswer DEF Concurrent!Call
  <2> QED
    BY <2>1, <2>4 DEF Concurrent!Next
<1>2. CASE c.op \in {"walk", "count", "iterator"}
  <2>1. Silent(t)
    BY <1>0, <1>2, IdleFields DEF Silent, LooksAs, Phase, Requests, Answer, Begin, Goto, IInv, TypeOK
  <2> QED
    BY <2>1, SilentStutters
<1> QED
  BY <1>1, <1>2, CallFields

\* What the request of a put, remove or get under way says.
LEMMA RequestOf ==
  ASSUME IInv, CallsFit, NEW t \in Threads, call[t].op \in {"put", "remove", "get"}
  PROVE  /\ Requests(t).op = call[t].op /\ Requests(t).key = call[t].key /\ Requests(t).value = call[t].value
         /\ call[t].key \in Keys
BY DEF Requests, IInv, CallsMade

\* A get takes effect when it has the mutex of its element, or finds none.
LEMMA GetIsEffect ==
  ASSUME IInv, CallsFit, NEW t \in Threads, Step(t), call[t].op = "get",
         ShareNode(t) \/ (GetFind(t) /\ call[t].key \notin Present)
  PROVE  Concurrent!Effect(t)
<1>1. Phase(t) = "called" /\ call[t].key \in Keys
  BY DEF Phase, ShareNode, GetFind, ShareGlobal, IInv, CallsMade
<1>2. LooksAs(t, "done", Requests(t), Durable(call[t].key))
  <2>1. CASE ShareNode(t)
    <3>1. pos[t] = call[t].key /\ map[pos[t]] \in Values
      BY <2>1, Settled DEF ShareNode, CallsFit
    <3> QED
      BY <2>1, <3>1, NamesAssumption
      DEF ShareNode, LooksAs, Phase, Requests, Answer, Goto, Durable, IInv, TypeOK
  <2>2. CASE GetFind(t) /\ call[t].key \notin Present
    <3>1. seen[t] = NoValue
      BY <2>2 DEF GetFind, ShareGlobal, CallsFit, Outside
    <3> QED
      BY <1>1, <2>2, <3>1, NamesAssumption
      DEF GetFind, Present, LooksAs, Phase, Requests, Answer, Goto, Durable, IInv, TypeOK
  <2> QED
    BY <2>1, <2>2
<1>3. Lasts
  BY DataStays DEF ShareNode, GetFind
<1>4. /\ [u \in Threads |-> Phase(u)]' = [[u \in Threads |-> Phase(u)] EXCEPT ![t] = "done"]
      /\ [u \in Threads |-> Requests(u)]' = [[u \in Threads |-> Requests(u)] EXCEPT ![t] = Requests(t)]
      /\ [u \in Threads |-> Answer(u)]' = [[u \in Threads |-> Answer(u)] EXCEPT ![t] = Durable(call[t].key)]
  <2>1. \A u \in Threads : u # t => Phase(u)' = Phase(u) /\ Requests(u)' = Requests(u) /\ Answer(u)' = Answer(u)
    BY OthersStay DEF IInv
  <2>2. Phase(t)' = "done" /\ Requests(t)' = Requests(t) /\ Answer(t)' = Durable(call[t].key)
    BY <1>2 DEF LooksAs
  <2> QED
    BY <2>1, <2>2
<1>5. [u \in Threads |-> Requests(u)]' = [u \in Threads |-> Requests(u)]
  BY <1>4, SameAnswer
<1>6. Requests(t).op = "get" /\ Requests(t).key = call[t].key
  BY RequestOf
<1> QED
  BY <1>1, <1>3, <1>4, <1>5, <1>6, StoreStays DEF Concurrent!Effect

\* A put or remove that stores its value.
LEMMA WriteIsEffect ==
  ASSUME IInv, CallsFit, NEW t \in Threads, Step(t), call[t].op \in {"put", "remove"}, Phase(t) = "called",
         Stores(call[t].key, IF call[t].op = "put" THEN call[t].value ELSE NoValue),
         LooksAs(t, "done", Requests(t), Answer(t))
  PROVE  Concurrent!Effect(t)
<1>1. /\ [u \in Threads |-> Phase(u)]' = [[u \in Threads |-> Phase(u)] EXCEPT ![t] = "done"]
      /\ [u \in Threads |-> Requests(u)]' = [[u \in Threads |-> Requests(u)] EXCEPT ![t] = Requests(t)]
      /\ [u \in Threads |-> Answer(u)]' = [[u \in Threads |-> Answer(u)] EXCEPT ![t] = Answer(t)]
  BY ViewOf
<1>2. /\ [u \in Threads |-> Requests(u)]' = [u \in Threads |-> Requests(u)]
      /\ [u \in Threads |-> Answer(u)]' = [u \in Threads |-> Answer(u)]
  BY <1>1, SameAnswer
<1>3. Requests(t).op = call[t].op /\ Requests(t).key = call[t].key /\ Requests(t).value = call[t].value
  BY RequestOf
<1>4. [j \in Keys |-> Durable(j)]' =
        [[j \in Keys |-> Durable(j)] EXCEPT ![call[t].key] = IF call[t].op = "put" THEN call[t].value ELSE NoValue]
  BY RequestOf, StoreOf
<1>5. CASE call[t].op = "put"
  BY <1>1, <1>2, <1>3, <1>4, <1>5 DEF Concurrent!Effect
<1>6. CASE call[t].op = "remove"
  BY <1>1, <1>2, <1>3, <1>4, <1>6 DEF Concurrent!Effect
<1> QED
  BY <1>5, <1>6

\* A step that leaves pc[t] at unlock and the call as it was.
LEMMA Done ==
  ASSUME IInv, NEW t \in Threads, pc'[t] = "unlock", call' = call, seen' = seen,
         call[t].op \in {"put", "remove"}
  PROVE  LooksAs(t, "done", Requests(t), Answer(t))
BY DEF LooksAs, Phase, Requests, Answer

\* A put of a new key takes effect in try_emplace.
LEMMA PutEmplaceIsEffect ==
  ASSUME IInv, CallsFit, NEW t \in Threads, Step(t), PutEmplace(t), call[t].key \notin Present
  PROVE  Concurrent!Effect(t)
<1>1. call[t].op = "put" /\ Phase(t) = "called"
  BY DEF PutEmplace, ShareGlobal, Phase
<1>2. call[t].key \in Keys /\ call[t].value \in Values
  BY <1>1 DEF IInv, CallsMade
<1>3. Stores(call[t].key, call[t].value)
  BY <1>2, NamesAssumption DEF PutEmplace, Stores, Durable, IInv, TypeOK
<1>4. LooksAs(t, "done", Requests(t), Answer(t))
  <2>1. pc'[t] = "unlock" /\ call' = call /\ seen' = seen
    BY DEF PutEmplace, Goto, IInv, TypeOK
  <2> QED
    BY <1>1, <2>1, Done
<1> QED
  BY <1>1, <1>3, <1>4, WriteIsEffect

\* A put of a key that is there takes effect when its transaction commits, and fails when it aborts.
LEMMA PutCommitIsEffect ==
  ASSUME IInv, CallsFit, NEW t \in Threads, Step(t), PutCommit(t)
  PROVE  Concurrent!Effect(t) \/ Concurrent!Failure(t)
<1>1. call[t].op = "put" /\ Phase(t) = "called" /\ pos[t] = call[t].key
  BY DEF PutCommit, Phase, IInv, CallsMade, CallsFit
<1>2. call[t].key \in Keys /\ call[t].value \in Values /\ map[pos[t]] = Torn /\ undo[pos[t]] \in Values
  BY <1>1 DEF IInv, CallsMade, Elements, OwnerCanUndo, PutCommit
<1>3. LooksAs(t, "done", Requests(t), Answer(t))
  <2>1. pc'[t] = "unlock" /\ call' = call /\ seen' = seen
    BY DEF PutCommit, Goto, IInv, TypeOK
  <2> QED
    BY <1>1, <2>1, Done
<1>4. CASE Finish(pos[t], call[t].value)
  <2>1. Stores(call[t].key, call[t].value)
    BY <1>1, <1>2, <1>4, FinishStores DEF Stores, IInv
  <2> QED
    BY <1>1, <1>3, <2>1, WriteIsEffect
<1>5. CASE Finish(pos[t], undo[pos[t]])
  <2>1. Lasts
    BY <1>1, <1>2, <1>5, FinishStores DEF Lasts, Durable, IInv
  <2>2. /\ [u \in Threads |-> Phase(u)]' = [[u \in Threads |-> Phase(u)] EXCEPT ![t] = "done"]
        /\ [u \in Threads |-> Requests(u)]' = [[u \in Threads |-> Requests(u)] EXCEPT ![t] = Requests(t)]
        /\ [u \in Threads |-> Answer(u)]' = [[u \in Threads |-> Answer(u)] EXCEPT ![t] = Answer(t)]
    BY <1>3, ViewOf, ZenonT(60)
  <2>3. /\ [u \in Threads |-> Requests(u)]' = [u \in Threads |-> Requests(u)]
        /\ [u \in Threads |-> Answer(u)]' = [u \in Threads |-> Answer(u)]
    BY <2>2, SameAnswer
  <2>4. Requests(t).op = "put"
    BY <1>1, RequestOf
  <2>5. Concurrent!Failure(t)
    BY <1>1, <2>1, <2>2, <2>3, <2>4, StoreStays DEF Concurrent!Failure
  <2> QED
    BY <2>5
<1> QED
  BY <1>4, <1>5 DEF PutCommit

\* A remove takes effect when the element is erased.
LEMMA RemoveEraseIsEffect ==
  ASSUME IInv, CallsFit, NEW t \in Threads, Step(t), RemoveErase(t)
  PROVE  Concurrent!Effect(t)
<1>1. call[t].op = "remove" /\ Phase(t) = "called" /\ call[t].key \in Keys
  BY DEF RemoveErase, Phase, IInv, CallsMade
<1>2. Stores(call[t].key, NoValue)
  BY <1>1, FinishStores DEF RemoveErase, Stores, IInv
<1>3. LooksAs(t, "done", Requests(t), Answer(t))
  <2>1. pc'[t] = "unlock" /\ call' = call /\ seen' = seen
    BY DEF RemoveErase, Goto, IInv, TypeOK
  <2> QED
    BY <1>1, <2>1, Done
<1> QED
  BY <1>1, <1>2, <1>3, WriteIsEffect

\* A call returns.
LEMMA UnlockIsReturn ==
  ASSUME IInv, CallsFit, NEW t \in Threads, Step(t), Unlock(t)
  PROVE  [Concurrent!Next]_Concurrent!mapVars
<1>1. Lasts /\ pc[t] = "unlock" /\ call[t] \in Calls /\ call[t].op # "iterator"
  BY DataStays DEF Unlock, CallsFit
<1>2. LooksAs(t, "idle", [op |-> "none"], NoValue)
  BY IdleFields DEF Unlock, LooksAs, Phase, Requests, Answer, Goto, IInv, TypeOK
<1>3. CASE call[t].op \in {"put", "remove", "get"}
  <2>1. Phase(t) = "done"
    BY <1>1, <1>3 DEF Phase
  <2>2. Concurrent!Return(t)
    <3>1. /\ [u \in Threads |-> Phase(u)]' = [[u \in Threads |-> Phase(u)] EXCEPT ![t] = "idle"]
          /\ [u \in Threads |-> Requests(u)]' = [[u \in Threads |-> Requests(u)] EXCEPT ![t] = [op |-> "none"]]
          /\ [u \in Threads |-> Answer(u)]' = [[u \in Threads |-> Answer(u)] EXCEPT ![t] = NoValue]
      <4>1. \A u \in Threads : u # t => Phase(u)' = Phase(u) /\ Requests(u)' = Requests(u) /\ Answer(u)' = Answer(u)
        BY OthersStay DEF IInv
      <4>2. Phase(t)' = "idle" /\ Requests(t)' = [op |-> "none"] /\ Answer(t)' = NoValue
        BY <1>2 DEF LooksAs
      <4> QED
        BY <4>1, <4>2
    <3> QED
      BY <1>1, <2>1, <3>1, StoreStays DEF Concurrent!Return, Concurrent!NoRequest
  <2> QED
    BY <2>2 DEF Concurrent!Next
<1>4. CASE call[t].op \in {"walk", "count"}
  <2>1. Silent(t)
    BY <1>1, <1>2, <1>4 DEF Silent, LooksAs, Phase, Requests, Answer
  <2> QED
    BY <2>1, SilentStutters
<1> QED
  BY <1>1, <1>3, <1>4, CallFields

\* An iterator is opened.
LEMMA IterNewIsOpen ==
  ASSUME IInv, CallsFit, NEW t \in Threads, Step(t), IterNew(t)
  PROVE  Concurrent!Open(t)
<1>1. Lasts /\ Phase(t) = "idle"
  BY DataStays DEF IterNew, ShareGlobal, Phase
<1>2. LooksAs(t, "cursor", Requests(t), Answer(t))
  BY DEF IterNew, ShareGlobal, LooksAs, Phase, Requests, Answer, Goto, IInv, TypeOK
<1> QED
  BY <1>1, <1>2, ViewOf, StoreStays, SameAnswer, ZenonT(60) DEF Concurrent!Open

\* An iterator is closed.
LEMMA IterDeleteIsClose ==
  ASSUME IInv, CallsFit, NEW t \in Threads, Step(t), IterDelete(t)
  PROVE  Concurrent!Close(t)
<1>1. Lasts /\ call[t].op = "iterator" /\ pc[t] = "iter"
  BY DataStays DEF IterDelete, InitSeek, IInv, CallsMade
<1>2. LooksAs(t, "idle", Requests(t), Answer(t)) /\ Phase(t) = "cursor"
  BY <1>1, IdleFields DEF IterDelete, LooksAs, Phase, Requests, Answer, Goto, IInv, TypeOK
<1> QED
  BY <1>1, <1>2, ViewOf, StoreStays, SameAnswer, ZenonT(60) DEF Concurrent!Close

\* An iterator commit replaces the value of the element it owns.
LEMMA CommitEndIsUpdate ==
  ASSUME IInv, CallsFit, NEW t \in Threads, Step(t), CommitEnd(t)
  PROVE  Concurrent!Update(t)
<1>1. pc[t] = "commit" /\ call[t].op = "iterator" /\ pos[t] \in Keys /\ log[t] \in Values
  BY DEF CommitEnd, IInv, CallsMade, TypeOK
<1>2. Stores(pos[t], log[t])
  BY <1>1, FinishStores DEF CommitEnd, Stores, IInv
<1>3. LooksAs(t, Phase(t), Requests(t), Answer(t)) /\ Phase(t) = "cursor"
  BY <1>1 DEF CommitEnd, LooksAs, Phase, Requests, Answer, Goto, IInv, TypeOK
<1>4. Durable(pos[t]) # NoValue
  BY <1>1, NamesAssumption DEF IInv, Elements, OwnerCanUndo, Durable
<1>5. [j \in Keys |-> Durable(j)]' = [[j \in Keys |-> Durable(j)] EXCEPT ![pos[t]] = log[t]]
  BY <1>1, <1>2, StoreOf
<1>6. /\ [u \in Threads |-> Phase(u)]' = [u \in Threads |-> Phase(u)]
      /\ [u \in Threads |-> Requests(u)]' = [u \in Threads |-> Requests(u)]
      /\ [u \in Threads |-> Answer(u)]' = [u \in Threads |-> Answer(u)]
  <2>1. \A u \in Threads : u # t => Phase(u)' = Phase(u) /\ Requests(u)' = Requests(u) /\ Answer(u)' = Answer(u)
    BY OthersStay DEF IInv
  <2>2. Phase(t)' = Phase(t) /\ Requests(t)' = Requests(t) /\ Answer(t)' = Answer(t)
    BY <1>3 DEF LooksAs
  <2> QED
    BY <2>1, <2>2
<1>7. [u \in Threads |-> Phase(u)][t] = "cursor" /\ [j \in Keys |-> Durable(j)][pos[t]] # NoValue
  BY <1>1, <1>3, <1>4
<1> QED
  BY <1>1, <1>5, <1>6, <1>7 DEF Concurrent!Update

\* A crash keeps what lasts, and nothing else.
LEMMA CrashIsCrash ==
  ASSUME IInv, Crash
  PROVE  Concurrent!Crash
<1>1. \A j \in Keys : Durable(j)' = Durable(j)
  BY NamesAssumption DEF Crash, Durable, IInv, TypeOK
<1>2. \A u \in Threads : Phase(u)' = "idle" /\ Requests(u)' = [op |-> "none"] /\ Answer(u)' = NoValue
  BY IdleFields DEF Crash, Phase, Requests, Answer
<1> QED
  BY <1>1, <1>2 DEF Concurrent!Crash, Concurrent!NoRequest

\* Every step of csmap is a step of ConcurrentMap, or cannot be seen there.
LEMMA StepRefines ==
  ASSUME IInv, CallsFit, NEW t \in Threads, Step(t)
  PROVE  [Concurrent!Next]_Concurrent!mapVars
<1>1. CASE \E c \in Calls : Begin(t, c)
  BY <1>1, BeginIsCall
<1>2. CASE GetFind(t) \/ ShareNode(t)
  <2>1. CASE call[t].op = "get" /\ (ShareNode(t) \/ call[t].key \notin Present)
    BY <1>2, <2>1, GetIsEffect DEF Concurrent!Next
  <2>2. CASE ~(call[t].op = "get" /\ (ShareNode(t) \/ call[t].key \notin Present))
    <3>1. call[t].op # "get" => ShareNode(t)
      BY <1>2 DEF GetFind, ShareGlobal
    <3> QED
      BY <1>2, <2>2, <3>1, SilentCalls, SilentStutters
  <2> QED
    BY <2>1, <2>2
<1>3. CASE PutEmplace(t)
  <2>1. CASE call[t].key \in Present
    BY <1>3, <2>1, SilentTransactions, SilentStutters
  <2>2. CASE call[t].key \notin Present
    BY <1>3, <2>2, PutEmplaceIsEffect DEF Concurrent!Next
  <2> QED
    BY <2>1, <2>2
<1>4. CASE PutAssign(t) \/ RemoveLock(t) \/ CommitStart(t)
  BY <1>4, SilentTransactions, SilentStutters
<1>5. CASE PutCommit(t) \/ RemoveErase(t)
  BY <1>5, PutCommitIsEffect, RemoveEraseIsEffect DEF Concurrent!Next
<1>6. CASE GetReturn(t) \/ WalkFirst(t) \/ WalkLast(t) \/ WalkTest(t) \/ WalkNext(t) \/ WalkStop(t)
  BY <1>6, SilentCalls, SilentStutters
<1>7. CASE Seek(t) \/ SeekToFirst(t) \/ IterOwn(t) \/ WriteRange(t) \/ Abort(t)
  BY <1>7, SilentCalls, SilentStutters
<1>8. CASE IterNew(t) \/ IterDelete(t) \/ CommitEnd(t)
  BY <1>8, IterNewIsOpen, IterDeleteIsClose, CommitEndIsUpdate DEF Concurrent!Next
<1>9. CASE Unlock(t)
  BY <1>9, UnlockIsReturn
<1> QED
  BY <1>1, <1>2, <1>3, <1>4, <1>5, <1>6, <1>7, <1>8, <1>9 DEF Step

\* For any number of threads, keys and values, with crashes and failing transactions, every put, remove, get
\* and iterator commit of csmap takes effect at one moment.
THEOREM CsmapImplementsConcurrentMap == Spec => ImplementsConcurrentMap
<1> DEFINE RInv == IInv /\ CallsFit
<1>1. Init => RInv /\ Concurrent!Init
  <2> SUFFICES ASSUME Init PROVE RInv /\ Concurrent!Init
    OBVIOUS
  <2>1. RInv
    BY InitInv DEF Init, CallsFit, Outside
  <2>2. \A j \in Keys : Durable(j) = NoValue
    BY NamesAssumption DEF Init, Durable
  <2>3. \A u \in Threads : Phase(u) = "idle" /\ Requests(u) = [op |-> "none"] /\ Answer(u) = NoValue
    BY IdleFields DEF Init, Phase, Requests, Answer
  <2> QED
    BY <2>1, <2>2, <2>3 DEF Concurrent!Init, Concurrent!NoRequest
<1>2. RInv /\ [Next]_vars => RInv' /\ [Concurrent!Next]_Concurrent!mapVars
  <2> SUFFICES ASSUME RInv, [Next]_vars PROVE RInv' /\ [Concurrent!Next]_Concurrent!mapVars
    OBVIOUS
  <2>1. ASSUME NEW t \in Threads, Step(t) PROVE RInv' /\ [Concurrent!Next]_Concurrent!mapVars
    <3>1. IInv'
      BY <2>1, NextInv DEF Next
    <3> QED
      BY <2>1, <3>1, FitStep, StepRefines
  <2>2. CASE Crash
    <3>1. CallsFit'
      BY <2>2 DEF Crash, CallsFit, Outside
    <3> QED
      BY <2>2, <3>1, CrashStep, CrashIsCrash DEF Concurrent!Next
  <2>3. CASE UNCHANGED vars
    <3>1. RInv'
      BY <2>3, NextInv DEF vars, CallsFit
    <3>2. UNCHANGED Concurrent!mapVars
      BY <2>3 DEF vars, Concurrent!mapVars, Durable, Phase, Requests, Answer
    <3> QED
      BY <3>1, <3>2
  <2> QED
    BY <2>1, <2>2, <2>3 DEF Next
<1> QED
  BY <1>1, <1>2, PTL DEF Spec, ImplementsConcurrentMap, Concurrent!Spec

-----------------------------------------------------------------------------
(***************************************************************************)
(* Walks.  WalkIsExact speaks of the moment a walk ends; what makes it     *)
(* true then is what the walk has reported when it stands anywhere: every  *)
(* key below its position that was there when it began, and nothing else   *)
(* (SoFar).  Nothing is erased under it, for remove takes mtx alone.  A    *)
(* range that ends at a key has its second end looked up after the first,  *)
(* and keys may come between: it reports all that was there, and perhaps   *)
(* keys past its end (ReportOf).                                           *)
(***************************************************************************)

Walking(t) == call[t].op \in {"walk", "count"}
Moving == {"last", "walk", "next", "share", "callback"}

PlaceOf(t) ==
  /\ pc[t] \in {"last", "walk", "next"} => Walking(t)
  /\ Walking(t) => /\ pc[t] \in Moving \cup {"global", "unlock"}
                   /\ call[t].key \in Keys /\ call[t].to \in Positions
                   /\ pc[t] = "unlock" => t \in gReaders
  /\ reported[t] # {} => Walking(t) /\ pc[t] \in Moving \cup {"unlock"} /\ pc[t] # "last"

\* The range held a key when the walk began, or it has no upper end.
Aimed(t) == before[t] # {} \/ call[t].to = End

SoFar(t) ==
  Walking(t) /\ pc[t] \in Moving =>
    /\ pos[t] \in Present \cup {End} /\ call[t].key <= pos[t]
    /\ before[t] \subseteq Present \cap InRange(call[t])
    /\ \A k \in before[t] : k < pos[t] => k \in reported[t]
    /\ \A k \in reported[t] : k \in Present /\ call[t].key <= k /\ k < pos[t]
    /\ Aimed(t) /\ pc[t] = "last" => pos[t] <= call[t].to
    /\ Aimed(t) /\ pc[t] # "last" => last[t] \in Present \cup {End} /\ call[t].to <= last[t] /\ pos[t] <= last[t]
    /\ pc[t] \in {"next", "share", "callback"} => pos[t] # last[t]

ReportOf(t) ==
  Walking(t) /\ pc[t] = "unlock" /\ before[t] # {} =>
    /\ before[t] \subseteq reported[t]
    /\ \A k \in reported[t] : k \in Present /\ call[t].key <= k

Walks == \A t \in Threads : PlaceOf(t) /\ SoFar(t) /\ ReportOf(t)

\* While anybody shares mtx, no key goes.
LEMMA PresentStays ==
  ASSUME IInv, NEW t \in Threads, Step(t), gReaders # {}, NEW k \in Present
  PROVE  k \in Present'
<1> USE NamesAssumption DEF Present
<1>1. CASE RemoveErase(t)
  BY <1>1 DEF RemoveErase, IInv, GlobalLocks
<1>2. CASE PutCommit(t)
  <2>1. undo[pos[t]] \in Values /\ call[t].value \in Values
    BY <1>2 DEF PutCommit, IInv, CallsMade, Elements, OwnerCanUndo
  <2> QED
    BY <1>2, <2>1 DEF PutCommit, Finish, IInv, TypeOK
<1>3. CASE CommitEnd(t)
  BY <1>3 DEF CommitEnd, Finish, IInv, TypeOK, CallsMade
<1>4. CASE PutEmplace(t)
  <2>1. call[t].value \in Values
    BY <1>4 DEF PutEmplace, ShareGlobal, IInv, CallsMade
  <2> QED
    BY <1>4, <2>1 DEF PutEmplace, IInv, TypeOK
<1>5. CASE PutAssign(t) \/ RemoveLock(t) \/ CommitStart(t)
  BY <1>5 DEF PutAssign, RemoveLock, CommitStart, Start, IInv, TypeOK, data
<1>6. CASE UNCHANGED map
  BY <1>6
<1> QED
  BY <1>1, <1>2, <1>3, <1>4, <1>5, <1>6
     DEF Step, Begin, GetFind, ShareNode, GetReturn, WalkFirst, WalkLast, WalkTest, WalkNext, WalkStop, IterNew,
         Seek, SeekToFirst, IterOwn, WriteRange, Abort, IterDelete, Unlock, data

\* A thread's walk is changed by its own steps only.
LEMMA WalkOfOthers ==
  ASSUME IInv, NEW t \in Threads, Step(t), NEW u \in Threads, u # t
  PROVE  /\ pc'[u] = pc[u] /\ call'[u] = call[u] /\ pos'[u] = pos[u] /\ last'[u] = last[u]
         /\ reported'[u] = reported[u] /\ before'[u] = before[u]
         /\ u \in gReaders => u \in gReaders'
<1> USE DEF IInv, TypeOK, Goto, globals, walks, ShareGlobal
<1>1. pc'[u] = pc[u]
  BY DEF Step, Begin, GetFind, ShareNode, GetReturn, PutEmplace, PutAssign, PutCommit, RemoveLock, RemoveErase,
         WalkFirst, WalkLast, WalkTest, WalkNext, WalkStop, IterNew, Seek, SeekToFirst, IterOwn, WriteRange,
         Abort, CommitStart, CommitEnd, IterDelete, Unlock
<1>2. call'[u] = call[u]
  BY DEF Step, Begin, GetFind, ShareNode, GetReturn, PutEmplace, PutAssign, PutCommit, RemoveLock, RemoveErase,
         WalkFirst, WalkLast, WalkTest, WalkNext, WalkStop, IterNew, Seek, SeekToFirst, IterOwn, WriteRange,
         Abort, CommitStart, CommitEnd, IterDelete, Unlock
<1>3. pos'[u] = pos[u]
  BY DEF Step, Begin, GetFind, ShareNode, GetReturn, PutEmplace, PutAssign, PutCommit, RemoveLock, RemoveErase,
         WalkFirst, WalkLast, WalkTest, WalkNext, WalkStop, IterNew, Seek, SeekToFirst, IterOwn, WriteRange,
         Abort, CommitStart, CommitEnd, IterDelete, Unlock
<1>4. last'[u] = last[u] /\ reported'[u] = reported[u] /\ before'[u] = before[u]
  BY DEF Step, Begin, GetFind, ShareNode, GetReturn, PutEmplace, PutAssign, PutCommit, RemoveLock, RemoveErase,
         WalkFirst, WalkLast, WalkTest, WalkNext, WalkStop, IterNew, Seek, SeekToFirst, IterOwn, WriteRange,
         Abort, CommitStart, CommitEnd, IterDelete, Unlock
<1>5. u \in gReaders => u \in gReaders'
  BY DEF Step, Begin, GetFind, ShareNode, GetReturn, PutEmplace, PutAssign, PutCommit, RemoveLock, RemoveErase,
         WalkFirst, WalkLast, WalkTest, WalkNext, WalkStop, IterNew, Seek, SeekToFirst, IterOwn, WriteRange,
         Abort, CommitStart, CommitEnd, IterDelete, Unlock
<1> QED
  BY <1>1, <1>2, <1>3, <1>4, <1>5

\* Steps of other threads leave what is known of a walk as it is.
LEMMA OthersLeaveWalk ==
  ASSUME IInv, NEW t \in Threads, Step(t), NEW u \in Threads, u # t, PlaceOf(u), SoFar(u), ReportOf(u)
  PROVE  PlaceOf(u)' /\ SoFar(u)' /\ ReportOf(u)'
<1>1. /\ pc'[u] = pc[u] /\ call'[u] = call[u] /\ pos'[u] = pos[u] /\ last'[u] = last[u]
      /\ reported'[u] = reported[u] /\ before'[u] = before[u]
      /\ u \in gReaders => u \in gReaders'
  BY WalkOfOthers
<1>2. PlaceOf(u)'
  BY <1>1 DEF PlaceOf, Walking, Positions
<1>3. Walking(u) /\ pc[u] \in Moving \cup {"unlock"} => u \in gReaders
  BY DEF PlaceOf, Moving, IInv, GlobalLocks, Sharing
<1>4. ASSUME Walking(u), pc[u] \in Moving \cup {"unlock"}, NEW k \in Present PROVE k \in Present'
  BY <1>3, <1>4, PresentStays
<1>5. SoFar(u)'
  BY <1>1, <1>4 DEF SoFar, Walking, Aimed, InRange
<1>6. ReportOf(u)'
  BY <1>1, <1>4 DEF ReportOf, Walking
<1> QED
  BY <1>2, <1>5, <1>6

\* The keys a lookup skips are not there.
LEMMA LookupFields ==
  ASSUME NEW k, NEW p \in AtOrAfter(k)
  PROVE  p \in Present \cup {End} /\ k <= p /\ \A q \in Present : k <= q => p <= q
BY DEF AtOrAfter

\* Positions are compared as integers.
LEMMA PositionFields ==
  ASSUME NEW p \in Positions
  PROVE  p \in Int /\ p <= End /\ (p \in Keys => p < End)
BY KeysAssumption DEF Positions

\* A walk begins: nothing of its range is below its position.
LEMMA WalkFirstStep ==
  ASSUME IInv, NEW t \in Threads, WalkFirst(t), PlaceOf(t)
  PROVE  PlaceOf(t)' /\ SoFar(t)' /\ ReportOf(t)'
<1>1. /\ Walking(t) /\ pc[t] = "global" /\ pc'[t] = "last" /\ call' = call /\ map' = map
      /\ reported' = reported /\ reported[t] = {} /\ before'[t] = Present \cap InRange(call[t])
  BY DEF WalkFirst, ShareGlobal, Goto, Walking, PlaceOf, Moving, walks, data, IInv, TypeOK
<1>2. call[t].key \in Keys /\ call[t].to \in Positions
  BY <1>1 DEF PlaceOf
<1>3. PICK p \in AtOrAfter(call[t].key) : pos' = [pos EXCEPT ![t] = p]
  BY DEF WalkFirst
<1>4. pos'[t] = p /\ p \in Present \cup {End} /\ call[t].key <= p /\ \A q \in Present : call[t].key <= q => p <= q
  BY <1>3, LookupFields DEF IInv, TypeOK
<1>5. PlaceOf(t)'
  BY <1>1, <1>2 DEF PlaceOf, Walking, Moving, Positions
<1> p \in Positions /\ p \in Int /\ p <= End /\ call[t].key \in Int /\ call[t].to \in Int /\ Present \subseteq Int
  BY <1>2, <1>4, PositionFields, KeysAssumption DEF Present, Positions
<1>6. before'[t] # {} \/ call[t].to = End => p <= call[t].to
  <2>1. CASE call[t].to = End
    BY <2>1
  <2>2. ASSUME NEW k \in before'[t] PROVE p <= call[t].to
    <3>1. k \in Present /\ call[t].key <= k /\ k < call[t].to /\ p <= k
      BY <2>2, <1>1, <1>4 DEF InRange
    <3> QED
      BY <3>1
  <2> QED
    BY <2>1, <2>2
<1>7. \A k \in before'[t] : ~(k < p)
  <2> SUFFICES ASSUME NEW k \in before'[t] PROVE ~(k < p)
    OBVIOUS
  <2>1. k \in Present /\ call[t].key <= k
    BY <1>1 DEF InRange
  <2>2. p <= k /\ k \in Int
    BY <2>1, <1>4
  <2> QED
    BY <2>2
<1>8. Present' = Present
  BY <1>1 DEF Present
<1>9. SoFar(t)'
  BY <1>1, <1>4, <1>6, <1>7, <1>8 DEF SoFar, Walking, Moving, Aimed, InRange
<1>10. ReportOf(t)'
  BY <1>1 DEF ReportOf
<1> QED
  BY <1>5, <1>9, <1>10

\* The second end is looked up: it is not below the first.
LEMMA WalkLastStep ==
  ASSUME IInv, NEW t \in Threads, WalkLast(t), PlaceOf(t), SoFar(t)
  PROVE  PlaceOf(t)' /\ SoFar(t)' /\ ReportOf(t)'
<1>1. /\ Walking(t) /\ pc[t] = "last" /\ pc'[t] = "walk" /\ call' = call /\ map' = map /\ pos' = pos
      /\ reported' = reported /\ before' = before
  BY DEF WalkLast, Goto, Walking, PlaceOf, data, IInv, TypeOK
<1>2. call[t].key \in Keys /\ call[t].to \in Positions
  BY <1>1 DEF PlaceOf
<1>3. PICK p \in AtOrAfter(call[t].to) : last' = [last EXCEPT ![t] = p]
  BY DEF WalkLast
<1>4. last'[t] = p /\ p \in Present \cup {End} /\ call[t].to <= p
  BY <1>3, LookupFields DEF IInv, TypeOK
<1>5. PlaceOf(t)'
  BY <1>1, <1>2 DEF PlaceOf, Walking, Moving, Positions
<1>6. Present' = Present
  BY <1>1 DEF Present
<1>7. Aimed(t) => pos[t] <= p
  <2>1. Aimed(t) => pos[t] <= call[t].to
    BY <1>1 DEF SoFar, Moving
  <2>2. pos[t] \in Int /\ call[t].to \in Int /\ p \in Int
    BY <1>2, <1>4, PositionFields DEF Present, Positions, IInv, TypeOK
  <2> QED
    BY <2>1, <2>2, <1>4
<1>8. SoFar(t)'
  BY <1>1, <1>4, <1>6, <1>7 DEF SoFar, Walking, Moving, Aimed, InRange
<1>9. ReportOf(t)'
  BY <1>1 DEF ReportOf
<1> QED
  BY <1>5, <1>8, <1>9

\* A walk that stands on its second end has reported the whole range.
LEMMA WalkTestStep ==
  ASSUME IInv, NEW t \in Threads, WalkTest(t), PlaceOf(t), SoFar(t)
  PROVE  PlaceOf(t)' /\ SoFar(t)' /\ ReportOf(t)'
<1>1. /\ Walking(t) /\ pc[t] = "walk" /\ call' = call /\ map' = map /\ pos' = pos /\ last' = last
      /\ reported' = reported /\ before' = before /\ gReaders' = gReaders
      /\ pc'[t] = IF pos[t] = last[t] THEN "unlock" ELSE IF call[t].op = "count" THEN "next" ELSE "share"
  BY DEF WalkTest, Goto, Walking, PlaceOf, data, globals, walks, IInv, TypeOK
<1>2. call[t].key \in Keys /\ call[t].to \in Positions
  BY <1>1 DEF PlaceOf
<1>3. t \in gReaders
  BY <1>1 DEF IInv, GlobalLocks, Sharing
<1>4. PlaceOf(t)'
  BY <1>1, <1>2, <1>3 DEF PlaceOf, Walking, Moving, Positions
<1>5. Present' = Present
  BY <1>1 DEF Present
<1>6. SoFar(t)'
  BY <1>1, <1>5 DEF SoFar, Walking, Moving, Aimed, InRange
<1>7. ReportOf(t)'
  <2> SUFFICES ASSUME pos[t] = last[t], before[t] # {}
               PROVE  before[t] \subseteq reported[t] /\ \A k \in reported[t] : k \in Present /\ call[t].key <= k
    BY <1>1, <1>5 DEF ReportOf, Walking
  <2>1. call[t].to <= pos[t] /\ pos[t] \in Positions /\ before[t] \subseteq Present \cap InRange(call[t])
    BY <1>1 DEF SoFar, Moving, Aimed, Positions, Present
  <2>2. \A k \in before[t] : k < pos[t]
    <3>1. pos[t] \in Int /\ call[t].to \in Int /\ \A k \in before[t] : k \in Int /\ k < call[t].to
      BY <2>1, <1>2, PositionFields DEF InRange, Positions
    <3> QED
      BY <2>1, <3>1
  <2> QED
    BY <1>1, <2>2 DEF SoFar, Moving
<1> QED
  BY <1>4, <1>6, <1>7

\* The element is reported and the walk steps to the one after it: no key lies between.
LEMMA WalkNextStep ==
  ASSUME IInv, NEW t \in Threads, WalkNext(t), PlaceOf(t), SoFar(t)
  PROVE  PlaceOf(t)' /\ SoFar(t)' /\ ReportOf(t)'
<1>1. /\ Walking(t) /\ pc[t] \in {"callback", "next"} /\ pc'[t] = "walk" /\ call' = call /\ map' = map /\ last' = last
      /\ reported'[t] = reported[t] \cup {pos[t]} /\ before' = before
  BY DEF WalkNext, Goto, Walking, PlaceOf, data, IInv, TypeOK
<1>2. call[t].key \in Keys /\ call[t].to \in Positions
  BY <1>1 DEF PlaceOf
<1>3. PICK p \in AtOrAfter(pos[t] + 1) : pos' = [pos EXCEPT ![t] = p]
  BY DEF WalkNext
<1>4. pos[t] \in Keys /\ pos[t] \in Present /\ pos[t] \in Int /\ call[t].key \in Int /\ call[t].to \in Int
  BY <1>1, <1>2, KeysAssumption DEF IInv, CallsMade, SoFar, Moving, Positions
<1>5. /\ pos'[t] = p /\ p \in Present \cup {End} /\ p \in Int /\ pos[t] < p
      /\ \A q \in Present : pos[t] < q => p <= q
  <2>1. pos'[t] = p
    BY <1>3 DEF IInv, TypeOK
  <2>2. p \in Present \cup {End} /\ pos[t] + 1 <= p /\ \A q \in Present : pos[t] + 1 <= q => p <= q
    BY <1>3, LookupFields
  <2>3. p \in Int /\ Present \subseteq Int
    BY <2>2, KeysAssumption DEF Present
  <2> QED
    BY <2>1, <2>2, <2>3, <1>4, SMTT(30)
<1>6. PlaceOf(t)'
  BY <1>1, <1>2 DEF PlaceOf, Walking, Moving, Positions
<1>7. Present' = Present
  BY <1>1 DEF Present
<1>8. Present \subseteq Int /\ before[t] \subseteq Present \cap InRange(call[t])
  BY <1>1, KeysAssumption DEF SoFar, Moving, Present
<1>9. \A k \in before[t] : k < p => k \in reported[t] \cup {pos[t]}
  <2> SUFFICES ASSUME NEW k \in before[t], k < p, k # pos[t] PROVE k \in reported[t]
    OBVIOUS
  <2>1. k \in Present /\ k \in Int
    BY <1>8
  <2>2. ~(pos[t] < k)
    <3>1. pos[t] < k => p <= k
      BY <2>1, <1>5
    <3> QED
      BY <2>1, <3>1, <1>5
  <2>3. k < pos[t]
    BY <2>1, <2>2, <1>4
  <2> QED
    BY <1>1, <2>3 DEF SoFar, Moving
<1>10. \A k \in reported[t] \cup {pos[t]} : k \in Present /\ call[t].key <= k /\ k < p
  <2>1. ASSUME NEW k \in reported[t] PROVE k \in Present /\ call[t].key <= k /\ k < p
    <3>1. k \in Present /\ call[t].key <= k /\ k < pos[t]
      BY <1>1 DEF SoFar, Moving
    <3>2. k \in Int
      BY <3>1, <1>8
    <3> QED
      BY <3>1, <3>2, <1>4, <1>5
  <2>2. pos[t] \in Present /\ call[t].key <= pos[t] /\ pos[t] < p
    BY <1>1, <1>4, <1>5 DEF SoFar, Moving
  <2> QED
    BY <2>1, <2>2
<1>11. Aimed(t) => last[t] \in Present \cup {End} /\ call[t].to <= last[t] /\ p <= last[t]
  <2> SUFFICES ASSUME Aimed(t) PROVE last[t] \in Present \cup {End} /\ call[t].to <= last[t] /\ p <= last[t]
    OBVIOUS
  <2>1. last[t] \in Present \cup {End} /\ call[t].to <= last[t] /\ pos[t] <= last[t] /\ pos[t] # last[t]
    BY <1>1 DEF SoFar, Moving
  <2>2. last[t] \in Int
    BY <2>1, <1>8, KeysAssumption
  <2>5. pos[t] < last[t]
    BY <2>1, <2>2, <1>4
  <2>3. CASE last[t] \in Present
    BY <2>1, <2>5, <2>3, <1>5
  <2>4. CASE last[t] = End
    BY <2>1, <2>4, <1>5, PositionFields DEF Present, Positions
  <2> QED
    BY <2>1, <2>3, <2>4
<1>12. call[t].key <= p
  BY <1>1, <1>4, <1>5 DEF SoFar, Moving
<1>13. SoFar(t)'
  BY <1>1, <1>5, <1>7, <1>8, <1>9, <1>10, <1>11, <1>12 DEF SoFar, Walking, Moving, Aimed, InRange
<1>14. ReportOf(t)'
  BY <1>1 DEF ReportOf
<1> QED
  BY <1>6, <1>13, <1>14

\* The other steps of a thread: a callback begins or stops the walk, the call returns, or it is no walk.
LEMMA WalkOtherStep ==
  ASSUME IInv, NEW t \in Threads, Step(t), PlaceOf(t), SoFar(t), ReportOf(t),
         ~WalkFirst(t), ~WalkLast(t), ~WalkTest(t), ~WalkNext(t)
  PROVE  PlaceOf(t)' /\ SoFar(t)' /\ ReportOf(t)'
<1> USE DEF IInv, TypeOK, Goto, Walking, Moving
<1>1. CASE ShareNode(t)
  <2>1. /\ pc[t] = "share" /\ pc'[t] = "callback" /\ call' = call /\ pos' = pos /\ last' = last /\ map' = map
        /\ reported' = reported /\ before' = before
    BY <1>1 DEF ShareNode, data, walks
  <2> QED
    BY <2>1 DEF PlaceOf, SoFar, ReportOf, Aimed, InRange, Present, Positions
<1>2. CASE WalkStop(t)
  <2>1. /\ pc[t] = "callback" /\ pc'[t] = "unlock" /\ call' = call /\ reported' = reported /\ before'[t] = {}
        /\ gReaders' = gReaders /\ t \in gReaders
    BY <1>2 DEF WalkStop, globals, GlobalLocks, Sharing
  <2> QED
    BY <2>1 DEF PlaceOf, SoFar, ReportOf, Positions
<1>3. CASE Unlock(t)
  BY <1>3, IdleFields DEF Unlock, PlaceOf, SoFar, ReportOf
<1>4. CASE IterDelete(t)
  <2>1. reported[t] = {}
    BY <1>4 DEF IterDelete, InitSeek, PlaceOf
  <2> QED
    BY <1>4, <2>1, IdleFields DEF IterDelete, InitSeek, PlaceOf, SoFar, ReportOf, walks
<1>5. CASE \E c \in Calls : Begin(t, c)
  <2>1. PICK c \in Calls : Begin(t, c)
    BY <1>5
  <2>2. reported[t] = {} /\ pc[t] = "idle"
    BY <2>1 DEF Begin, PlaceOf
  <2>3. call'[t] = c /\ reported' = reported /\ pc'[t] \in {"global", "global_alone"} /\ (pc'[t] = "global_alone" => c.op = "remove")
    BY <2>1 DEF Begin, walks
  <2>4. c.op \in {"walk", "count"} => c.key \in Keys /\ c.to \in Positions
    BY RangesAssumption DEF Calls, Idle, Positions
  <2> QED
    BY <2>2, <2>3, <2>4 DEF PlaceOf, SoFar, ReportOf, Positions
<1>6. CASE GetFind(t) \/ GetReturn(t) \/ PutEmplace(t) \/ PutAssign(t) \/ PutCommit(t) \/ RemoveLock(t) \/ RemoveErase(t)
           \/ IterNew(t) \/ Seek(t) \/ SeekToFirst(t) \/ IterOwn(t) \/ WriteRange(t) \/ Abort(t) \/ CommitStart(t) \/ CommitEnd(t)
  <2>1. ~Walking(t)
    BY <1>6 DEF GetFind, GetReturn, PutEmplace, PutAssign, PutCommit, RemoveLock, RemoveErase, ShareGlobal, IterNew,
                Seek, SeekToFirst, InitSeek, IterOwn, WriteRange, Abort, CommitStart, CommitEnd, PlaceOf
  <2>2. call' = call /\ reported' = reported
    BY <1>6 DEF GetFind, GetReturn, PutEmplace, PutAssign, PutCommit, RemoveLock, RemoveErase, IterNew,
                Seek, SeekToFirst, IterOwn, WriteRange, Abort, CommitStart, CommitEnd, walks
  <2>3. pc'[t] \notin {"last", "walk", "next"}
    BY <1>6 DEF GetFind, GetReturn, PutEmplace, PutAssign, PutCommit, RemoveLock, RemoveErase, IterNew, InitSeek,
                Seek, SeekToFirst, IterOwn, OwnNode, WriteRange, Abort, CommitStart, CommitEnd
  <2> QED
    BY <2>1, <2>2, <2>3 DEF PlaceOf, SoFar, ReportOf
<1> QED
  BY <1>1, <1>2, <1>3, <1>4, <1>5, <1>6 DEF Step

\* Calls keep to their path in every behaviour.
LEMMA FitHolds == Spec => []CallsFit
<1>1. Init => CallsFit
  BY DEF Init, CallsFit, Outside
<1>2. IInv /\ CallsFit /\ [Next]_vars => CallsFit'
  <2> SUFFICES ASSUME IInv, CallsFit, [Next]_vars PROVE CallsFit'
    OBVIOUS
  <2>1. CASE Crash
    BY <2>1 DEF Crash, CallsFit, Outside
  <2>2. CASE UNCHANGED vars
    BY <2>2 DEF vars, CallsFit
  <2> QED
    BY <2>1, <2>2, FitStep DEF Next
<1> QED
  BY <1>1, <1>2, InvariantHolds, PTL DEF Spec

\* What is known of every walk holds in every behaviour.
LEMMA WalksHold == Spec => []Walks
<1>1. Init => Walks
  BY IdleFields DEF Init, Walks, PlaceOf, SoFar, ReportOf, Walking, Moving
<1>2. IInv /\ Walks /\ [Next]_vars => Walks'
  <2> SUFFICES ASSUME IInv, Walks, [Next]_vars PROVE Walks'
    OBVIOUS
  <2>1. ASSUME NEW t \in Threads, Step(t) PROVE Walks'
    <3> SUFFICES ASSUME NEW u \in Threads PROVE PlaceOf(u)' /\ SoFar(u)' /\ ReportOf(u)'
      BY DEF Walks
    <3>1. PlaceOf(u) /\ SoFar(u) /\ ReportOf(u)
      BY DEF Walks
    <3>2. CASE u # t
      BY <2>1, <3>1, <3>2, OthersLeaveWalk
    <3>3. CASE u = t
      BY <2>1, <3>1, <3>3, WalkFirstStep, WalkLastStep, WalkTestStep, WalkNextStep, WalkOtherStep
    <3> QED
      BY <3>2, <3>3
  <2>2. CASE Crash
    BY <2>2, IdleFields DEF Crash, Walks, PlaceOf, SoFar, ReportOf, Walking, Moving
  <2>3. CASE UNCHANGED vars
    BY <2>3 DEF vars, Walks, PlaceOf, SoFar, ReportOf, Walking, Aimed, InRange, Present
  <2> QED
    BY <2>1, <2>2, <2>3 DEF Next
<1> QED
  BY <1>1, <1>2, InvariantHolds, PTL DEF Spec

\* Whatever other threads do, a walk or count of a range that held a key when it began reports every key that was
\* there then, and only keys that are there; without an upper end, only keys of the range: mtx keeps remove out while
\* csmap.cc:119-134 looks up both ends and steps.
NothingMissed ==
  \A t \in Threads :
    pc[t] = "unlock" /\ call[t].op \in {"walk", "count"} /\ before[t] # {} =>
      /\ before[t] \subseteq reported[t] /\ reported[t] \subseteq Present
      /\ call[t].to = End => reported[t] \subseteq InRange(call[t])

THEOREM WalksMissNothing == Spec => []NothingMissed
<1>1. Walks => NothingMissed
  <2> SUFFICES ASSUME Walks, NEW t \in Threads, pc[t] = "unlock", Walking(t), before[t] # {}
               PROVE  /\ before[t] \subseteq reported[t] /\ reported[t] \subseteq Present
                      /\ call[t].to = End => reported[t] \subseteq InRange(call[t])
    BY DEF NothingMissed, Walking
  <2>1. before[t] \subseteq reported[t] /\ \A k \in reported[t] : k \in Present /\ call[t].key <= k
    BY DEF Walks, ReportOf
  <2>2. \A k \in Present : k \in Keys /\ k < End
    BY KeysAssumption DEF Present
  <2> QED
    BY <2>1, <2>2 DEF InRange
<1> QED
  BY <1>1, WalksHold, PTL

\* A walk to the end of the map reports exactly that, and no key out of its range.
THEOREM WalksAreExact ==
  ASSUME \A r \in Ranges : r[2] = End
  PROVE  Spec => []WalkIsExact
<1>1. CallsFit => \A t \in Threads : Walking(t) => call[t].to = End
  BY DEF CallsFit, Calls, Idle, Walking
<1>2. NothingMissed /\ CallsFit => WalkIsExact
  BY <1>1 DEF NothingMissed, WalkIsExact, Walking
<1> QED
  BY <1>2, WalksMissNothing, FitHolds, PTL
=============================================================================
