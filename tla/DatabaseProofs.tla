--------------------------- MODULE DatabaseProofs ---------------------------
(***************************************************************************)
(* Theorems about Database, for any set of processes, engines, names and   *)
(* configs: the pool is released on every path (PoolIsReleased), the order *)
(* of an open database is the one it was stored with (OrderIsKept), and an *)
(* open that fits succeeds (FittingOpenSucceeds).                          *)
(*                                                                         *)
(* IInv relates where each process is in pmemkv_open to the file, to the   *)
(* root of the pool and to who holds it.  For each action there is a lemma *)
(* that it keeps IInv: first what it does to the process that takes it and *)
(* to the pool, then one step for each conjunct.  What is done with the    *)
(* records of an open database changes nothing IInv is about.              *)
(*                                                                         *)
(* Then the records, for any keys, values, bytes and lengths of logs:      *)
(* commits of transactions and of iterators are one atomic step each with  *)
(* the effect libpmemkv_tx(3) and libpmemkv_iterator(3) promise            *)
(* (ImplementsTxMap), a commit of an iterator leaves the record as the     *)
(* application edited it (EditsAreCommitted), and queries report what they *)
(* must (QueriesAreExact).                                                 *)
(***************************************************************************)
EXTENDS Database, WalksProofs

\* The types.  A pool may name any comparator some config has.
AnyName == {BinaryComparator, ""} \cup {c["comparator"].value : c \in Configs}
KeptConfigs == {[key \in DOMAIN c \cap S |-> c[key]] : c \in Configs, S \in SUBSET {"path", "oid", "comparator"}}
CallType == [engine : Engines \cup {"none"}, config : Configs \cup {NullConfig} \cup KeptConfigs]
Positions == {"idle", "open", "create", "creating", "root", "compare", "commit", "up"}

TypeInv ==
  /\ file \in {"none", "torn", "app"} \cup Engines
  /\ root \in [state : {"null", "new", "made"}, engine : Engines \cup {"none"},
               name : AnyName, cmp : Process \cup {Dangling}]
  /\ owner \in Process \cup {NoProcess} /\ lent \in BOOLEAN
  /\ pc \in [Process -> Positions]
  /\ call \in [Process -> CallType]
  /\ calm \in [Process -> BOOLEAN]

\* What is kept of a config has the path and the comparator it had.
LEMMA KeptIsConfig ==
  ASSUME NEW p \in Process, Config(p) \in Configs, Engine(p) \in Engines
  PROVE  /\ Kept(p) \in CallType
         /\ Kept(p).engine = Engine(p)
         /\ Has(Kept(p).config, "path") <=> Has(Config(p), "path")
         /\ Engine(p) \in Compares => ComparatorName(Kept(p).config) = ComparatorName(Config(p))
<1> DEFINE d == [key \in DOMAIN Config(p) \cap KeptItems(p) |-> Config(p)[key]]
<1>1. KeptItems(p) \in SUBSET {"path", "oid", "comparator"}
  BY DEF KeptItems
<1>2. d \in KeptConfigs
  BY <1>1 DEF KeptConfigs
<1>3. Kept(p) = [engine |-> Engine(p), config |-> d]
  BY DEF Kept
<1>4. Kept(p) \in CallType
  BY <1>2, <1>3 DEF CallType
<1>5. DOMAIN d = DOMAIN Config(p) \cap KeptItems(p) /\ \A key \in DOMAIN d : d[key] = Config(p)[key]
  OBVIOUS
<1>6. Kept(p).engine = Engine(p) /\ Kept(p).config = d
  BY <1>3
<1> HIDE DEF d
<1>7. Has(d, "path") <=> Has(Config(p), "path")
  BY <1>5 DEF Has, KeptItems
<1>8. Engine(p) \in Compares => ComparatorName(d) = ComparatorName(Config(p))
  BY <1>5 DEF Has, KeptItems, ComparatorName
<1> QED
  BY <1>4, <1>6, <1>7, <1>8

\* The comparator of p's config is right for the root as it is.
ComparatorFits(p) ==
  Engine(p) \in Compares =>
    (IF root.state = "made" THEN MismatchFault(Config(p)) ELSE ComparatorFault(Config(p))) = "none"
SizeFits(c) == SizeFault(c) = "none" /\ c["size"].value >= MinPool

Asked == {"open", "create", "creating", "root", "compare", "commit"}
Placed == {"root", "compare", "commit", "up"}

\* What a process in pmemkv_open has been asked for.
CallInv ==
  \A p \in Process :
    /\ pc[p] \in Asked => Config(p) \in Configs \ {NullConfig}
    /\ pc[p] # "idle" => Engine(p) \in Engines
    /\ pc[p] \in {"open", "create", "creating"} => ByPath(p)

\* Whoever uses the pool has it, and by its path unless the application lent it.
Holds == \A p \in Process : pc[p] \in Using => owner = p /\ (ByPath(p) <=> ~lent)

\* Nobody else has it, but for an application with a pool of its own.
Lends ==
  /\ \A p \in Process : owner = p /\ pc[p] \notin Using => lent
  /\ lent => owner # NoProcess /\ file = "app"

\* Without a pool there are no records, and nobody has one open.
NoPool ==
  /\ file \in {"none", "torn"} => root = NullRoot
  /\ file = "none" => owner = NoProcess
  /\ \A p \in Process : pc[p] = "creating" => file = "torn"

\* A pool with the layout of an engine holds the root of that engine.
Layouts ==
  /\ file \in Engines /\ root.state # "null" => root.engine = file
  /\ \A p \in Process : pc[p] \in Placed /\ ByPath(p) => file = Engine(p)

\* The root is unfinished only in the middle of the transaction that makes it.
NewRoot == root.state = "new" <=> \E p \in Process : pc[p] \in {"compare", "commit"}

\* A root is that of the engine at work on it, and names a comparator if that needs one.
MadeRoot ==
  /\ root.state = "made" => root.engine \in Engines /\ (root.engine \in Compares => root.name # "")
  /\ \A p \in Process : pc[p] \in Placed /\ root.state # "null" => root.engine = Engine(p)

\* The comparator in the pool is that of the process that has it open.
ComparedAt(p) ==
  /\ pc[p] = "compare" => Engine(p) \in Compares
  /\ pc[p] = "up" => root.state = "made"
  /\ pc[p] \in {"commit", "up"} /\ Engine(p) \in Compares =>
       root.name = ComparatorName(Config(p)) /\ root.name # "" /\ root.cmp = p
Compared == \A p \in Process : ComparedAt(p)

\* Nobody is about but the process whose call fits what is at the path.
AloneAt(p) == pc[p] \in Asked /\ (\A q \in Process \ {p} : pc[q] = "idle") /\ owner \in {NoProcess, p}
Alone == \A p \in Process : calm[p] => AloneAt(p)

\* What is left to be done for that call will succeed.
FittingAt(p) ==
  /\ pc[p] = "open" =>
       owner = NoProcess /\ (file = Engine(p) \/ (file = "none" /\ MayCreate(Config(p)) /\ SizeFits(Config(p))))
  /\ pc[p] = "create" => file = "none" /\ SizeFits(Config(p))
  /\ pc[p] \in {"open", "create", "creating", "root"} => ComparatorFits(p)
  /\ pc[p] = "compare" => ComparatorFault(Config(p)) = "none"
Fitting == \A p \in Process : calm[p] => FittingAt(p)

IInv ==
  /\ TypeInv /\ CallInv /\ Holds /\ Lends /\ NoPool /\ Layouts
  /\ NewRoot /\ MadeRoot /\ Compared /\ Alone /\ Fitting

-----------------------------------------------------------------------------
(* What a step does to the process that takes it.                          *)

LEMMA NoCallIsCall == NoCall \in CallType
BY DEF NoCall, CallType

LEMMA RootStates ==
  /\ NullRoot.state = "null" /\ NullRoot.cmp = Dangling
  /\ NullRoot \in [state : {"null", "new", "made"}, engine : Engines \cup {"none"},
                   name : AnyName, cmp : Process \cup {Dangling}]
BY DEF NullRoot, AnyName

LEMMA ConstantNames ==
  /\ Compares \subseteq Engines /\ "none" \notin Engines /\ "torn" \notin Engines /\ "app" \notin Engines
  /\ NoProcess \notin Process /\ Dangling \notin Process
BY EnginesAssumption, ProcessAssumption

\* A step of p leaves the other processes where they are.
Others(p) == \A q \in Process \ {p} : pc'[q] = pc[q] /\ call'[q] = call[q] /\ calm'[q] = calm[q]
ProcessTypes == pc \in [Process -> Positions] /\ call \in [Process -> CallType] /\ calm \in [Process -> BOOLEAN]

LEMMA GoesOn ==
  ASSUME TypeInv, NEW p \in Process, NEW place \in Positions, At(p, place), UNCHANGED <<call, calm>>
  PROVE  /\ ProcessTypes' /\ Others(p)
         /\ pc'[p] = place /\ call'[p] = call[p] /\ calm'[p] = calm[p]
BY DEF TypeInv, At, Others, ProcessTypes

LEMMA Leaves ==
  ASSUME TypeInv, NEW p \in Process, NEW status, NEW undisturbed, Leave(p, status, undisturbed)
  PROVE  /\ ProcessTypes' /\ Others(p)
         /\ pc'[p] = "idle" /\ call'[p] = NoCall /\ ~calm'[p]
         /\ returned' = [status |-> status, calm |-> undisturbed]
BY NoCallIsCall DEF TypeInv, Leave, Report, At, Others, ProcessTypes, Positions

LEMMA Succeeds ==
  ASSUME TypeInv, NEW p \in Process, Succeed(p), Config(p) \in Configs, Engine(p) \in Engines
  PROVE  /\ ProcessTypes' /\ Others(p)
         /\ pc'[p] = "up" /\ ~calm'[p]
         /\ Engine(p)' = Engine(p)
         /\ ByPath(p)' <=> ByPath(p)
         /\ Engine(p) \in Compares => ComparatorName(Config(p))' = ComparatorName(Config(p))
<1>1. Kept(p) \in CallType
  BY KeptIsConfig
<1>2. ProcessTypes' /\ Others(p) /\ pc'[p] = "up" /\ ~calm'[p] /\ call'[p] = Kept(p)
  BY <1>1 DEF TypeInv, Succeed, At, Others, ProcessTypes, Positions
<1> QED
  BY <1>2, KeptIsConfig DEF Engine, Config, ByPath

LEMMA Ends ==
  ASSUME TypeInv, NEW p \in Process, At(p, "idle"),
         call' = [call EXCEPT ![p] = NoCall], calm' = [calm EXCEPT ![p] = FALSE]
  PROVE  /\ ProcessTypes' /\ Others(p)
         /\ pc'[p] = "idle" /\ call'[p] = NoCall /\ ~calm'[p]
BY NoCallIsCall DEF TypeInv, At, Others, ProcessTypes, Positions

\* A process that is past opening and creating is the only one to use the pool.
LEMMA HasPool ==
  ASSUME IInv, NEW p \in Process, pc[p] \in Placed
  PROVE  /\ owner = p /\ Engine(p) \in Engines
         /\ file \notin {"none", "torn"} /\ (ByPath(p) <=> ~lent)
         /\ \A q \in Process \ {p} : pc[q] \in {"idle", "open", "create"} /\ ~calm[q]
<1> USE ConstantNames DEF IInv, Placed, Using
<1>1. owner = p /\ (ByPath(p) <=> ~lent)
  BY DEF Holds
<1>2. Engine(p) \in Engines
  BY DEF CallInv
<1>3. file \notin {"none", "torn"}
  BY <1>1, <1>2 DEF Layouts, Lends
<1>4. \A q \in Process \ {p} : pc[q] \in {"idle", "open", "create"}
  BY <1>1 DEF Holds, TypeInv, Positions
<1>5. \A q \in Process \ {p} : ~calm[q]
  BY DEF Alone, AloneAt
<1> QED
  BY <1>1, <1>2, <1>3, <1>4, <1>5

LEMMA ComparatorStored ==
  ASSUME TypeInv, NEW p \in Process, NEW n \in AnyName, root' = [root EXCEPT !.name = n, !.cmp = p]
  PROVE  /\ root' \in [state : {"null", "new", "made"}, engine : Engines \cup {"none"},
                       name : AnyName, cmp : Process \cup {Dangling}]
         /\ root'.state = root.state /\ root'.engine = root.engine /\ root'.name = n /\ root'.cmp = p
BY DEF TypeInv

-----------------------------------------------------------------------------
(* The actions.                                                            *)

LEMMA OpenPoolKeeps ==
  ASSUME IInv, NEW p \in Process, OpenPool(p)
  PROVE  IInv'
<1> USE ConstantNames, RootStates DEF IInv
<1>a. /\ ProcessTypes' /\ Others(p)
      /\ pc'[p] = "root" /\ call'[p] = call[p] /\ calm'[p] = calm[p]
  BY GoesOn DEF OpenPool, Positions
<1>b. pc[p] = "open" /\ owner = NoProcess /\ file = Engine(p) /\ owner' = p /\ UNCHANGED <<file, root, lent>>
  BY <1>a DEF OpenPool
<1>1. TypeInv'
  BY <1>a, <1>b DEF TypeInv, ProcessTypes, CallInv, Holds, Lends, NewRoot, Layouts, Using, Placed
<1>2. CallInv'
  BY <1>a, <1>b DEF CallInv, Asked, Engine, Config, ByPath, Others, TypeInv, Holds, Lends, NewRoot, Layouts, Using, Placed
<1>3. Holds'
  BY <1>a, <1>b DEF Holds, Using, ByPath, Config, Others, TypeInv, CallInv, Lends, NewRoot, Layouts, Placed
<1>4. Lends'
  BY <1>a, <1>b DEF Lends, Using, Others, TypeInv, CallInv, Holds, NewRoot, Layouts, Placed
<1>5. NoPool'
  BY <1>a, <1>b DEF NoPool, Others, TypeInv, CallInv, Holds, Lends, NewRoot, Layouts, Using, Placed
<1>6. Layouts'
  BY <1>a, <1>b DEF Layouts, Placed, ByPath, Engine, Config, Others, TypeInv, CallInv, Holds, Lends, NewRoot, Using
<1>7. NewRoot'
  BY <1>a, <1>b DEF NewRoot, Others, TypeInv, CallInv, Holds, Lends, Layouts, Using, Placed
<1>8. MadeRoot'
  BY <1>a, <1>b, ZenonT(60) DEF MadeRoot, Placed, Engine, Others, TypeInv, CallInv, Holds, Lends, NewRoot, Layouts, Using
<1>9. Compared'
  <2>1. ASSUME NEW q \in Process \ {p} PROVE ComparedAt(q)'
    <3>1. pc'[q] = pc[q] /\ Engine(q)' = Engine(q) /\ Config(q)' = Config(q)
      BY <1>a DEF Others, Engine, Config
    <3> QED
      BY <1>b, <3>1, ZenonT(60) DEF Compared, ComparedAt
  <2>2. ComparedAt(p)'
    BY <1>a, <1>b DEF Compared, ComparedAt, Engine, Config, ComparatorName, Has
  <2> QED
    BY <2>1, <2>2 DEF Compared
<1>10. Alone'
  <2>1. ASSUME NEW q \in Process \ {p} PROVE calm'[q] => AloneAt(q)'
    BY <1>a, <1>b DEF Alone, AloneAt, Asked, TypeInv, CallInv, Holds, Lends, NewRoot, Layouts, Using, Placed, Others
  <2>2. calm'[p] => AloneAt(p)'
    BY <1>a, <1>b, ZenonT(60) DEF Alone, AloneAt, Asked, TypeInv, CallInv, Holds, Lends, NewRoot, Layouts, Using, Placed, Others
  <2> QED
    BY <2>1, <2>2 DEF Alone
<1>11. Fitting'
  <2>1. ASSUME NEW q \in Process \ {p} PROVE calm'[q] => FittingAt(q)'
    BY <1>a, <1>b DEF Fitting, FittingAt, ComparatorFits, MismatchFault, Engine, Config, TypeInv, CallInv, Holds, Lends, NewRoot, Layouts, Using, Placed, Others, Alone, AloneAt
  <2>2. calm'[p] => FittingAt(p)'
    BY <1>a, <1>b DEF Fitting, FittingAt, ComparatorFits, MismatchFault, Engine, Config, TypeInv, CallInv, Holds, Lends, NewRoot, Layouts, Using, Placed
  <2> QED
    BY <2>1, <2>2 DEF Fitting
<1> QED
  BY <1>1, <1>2, <1>3, <1>4, <1>5, <1>6, <1>7, <1>8, <1>9, <1>10, <1>11

LEMMA OpenLockedKeeps ==
  ASSUME IInv, NEW p \in Process, OpenLocked(p)
  PROVE  IInv'
<1> USE ConstantNames, RootStates DEF IInv
<1>a. /\ ProcessTypes' /\ Others(p)
      /\ pc'[p] = "idle" /\ call'[p] = NoCall /\ ~calm'[p]
  BY Leaves DEF OpenLocked, Positions
<1>b. pc[p] = "open" /\ UNCHANGED <<file, root, owner, lent>>
  BY <1>a DEF OpenLocked
<1>1. TypeInv'
  BY <1>a, <1>b DEF TypeInv, ProcessTypes
<1>2. CallInv'
  BY <1>a, <1>b DEF CallInv, Asked, Engine, Config, ByPath, Others
<1>3. Holds'
  BY <1>a, <1>b DEF Holds, Using, ByPath, Config, Others
<1>4. Lends'
  BY <1>a, <1>b DEF Lends, Using, Others
<1>5. NoPool'
  BY <1>a, <1>b DEF NoPool, Others
<1>6. Layouts'
  BY <1>a, <1>b DEF Layouts, Placed, ByPath, Engine, Config, Others
<1>7. NewRoot'
  BY <1>a, <1>b DEF NewRoot, Others
<1>8. MadeRoot'
  BY <1>a, <1>b, ZenonT(30) DEF MadeRoot, Placed, Engine, Others
<1>9. Compared'
  <2>1. ASSUME NEW q \in Process \ {p} PROVE ComparedAt(q)'
    <3>1. pc'[q] = pc[q] /\ Engine(q)' = Engine(q) /\ Config(q)' = Config(q)
      BY <1>a DEF Others, Engine, Config
    <3> QED
      BY <1>b, <3>1, ZenonT(60) DEF Compared, ComparedAt
  <2>2. ComparedAt(p)'
    BY <1>a, <1>b DEF Compared, ComparedAt, Engine, Config, ComparatorName, Has
  <2> QED
    BY <2>1, <2>2 DEF Compared
<1>10. Alone'
  <2>1. ASSUME NEW q \in Process \ {p} PROVE calm'[q] => AloneAt(q)'
    BY <1>a, <1>b DEF Alone, AloneAt, Asked, Others
  <2>2. calm'[p] => AloneAt(p)'
    BY <1>a, <1>b DEF Alone, AloneAt, Asked, Others
  <2> QED
    BY <2>1, <2>2 DEF Alone
<1>11. Fitting'
  <2>1. ASSUME NEW q \in Process \ {p} PROVE calm'[q] => FittingAt(q)'
    BY <1>a, <1>b DEF Fitting, FittingAt, ComparatorFits, MismatchFault, Engine, Config, Others, Alone, AloneAt
  <2>2. calm'[p] => FittingAt(p)'
    BY <1>a, <1>b DEF Fitting, FittingAt, ComparatorFits, MismatchFault, Engine, Config
  <2> QED
    BY <2>1, <2>2 DEF Fitting
<1> QED
  BY <1>1, <1>2, <1>3, <1>4, <1>5, <1>6, <1>7, <1>8, <1>9, <1>10, <1>11

LEMMA OpenInvalidCreatesKeeps ==
  ASSUME IInv, NEW p \in Process, OpenInvalid(p), MayCreate(Config(p))
  PROVE  IInv'
<1> USE ConstantNames, RootStates DEF IInv
<1>a. /\ ProcessTypes' /\ Others(p)
      /\ pc'[p] = "create" /\ call'[p] = call[p] /\ calm'[p] = calm[p]
  BY GoesOn DEF OpenInvalid, Positions
<1>b. pc[p] = "open" /\ owner = NoProcess /\ file # Engine(p) /\ UNCHANGED <<file, root, owner, lent>>
  BY <1>a DEF OpenInvalid
<1>1. TypeInv'
  BY <1>a, <1>b DEF TypeInv, ProcessTypes
<1>2. CallInv'
  BY <1>a, <1>b DEF CallInv, Asked, Engine, Config, ByPath, Others
<1>3. Holds'
  BY <1>a, <1>b DEF Holds, Using, ByPath, Config, Others
<1>4. Lends'
  BY <1>a, <1>b DEF Lends, Using, Others
<1>5. NoPool'
  BY <1>a, <1>b DEF NoPool, Others
<1>6. Layouts'
  BY <1>a, <1>b DEF Layouts, Placed, ByPath, Engine, Config, Others
<1>7. NewRoot'
  BY <1>a, <1>b DEF NewRoot, Others
<1>8. MadeRoot'
  BY <1>a, <1>b, ZenonT(60) DEF MadeRoot, Placed, Engine, Others
<1>9. Compared'
  <2>1. ASSUME NEW q \in Process \ {p} PROVE ComparedAt(q)'
    <3>1. pc'[q] = pc[q] /\ Engine(q)' = Engine(q) /\ Config(q)' = Config(q)
      BY <1>a DEF Others, Engine, Config
    <3> QED
      BY <1>b, <3>1, ZenonT(60) DEF Compared, ComparedAt
  <2>2. ComparedAt(p)'
    BY <1>a, <1>b DEF Compared, ComparedAt, Engine, Config, ComparatorName, Has
  <2> QED
    BY <2>1, <2>2 DEF Compared
<1>10. Alone'
  <2>1. ASSUME NEW q \in Process \ {p} PROVE calm'[q] => AloneAt(q)'
    BY <1>a, <1>b DEF Alone, AloneAt, Asked, Others
  <2>2. calm'[p] => AloneAt(p)'
    BY <1>a, <1>b DEF Alone, AloneAt, Asked, Others
  <2> QED
    BY <2>1, <2>2 DEF Alone
<1>11. Fitting'
  <2>1. ASSUME NEW q \in Process \ {p} PROVE calm'[q] => FittingAt(q)'
    BY <1>a, <1>b DEF Fitting, FittingAt, ComparatorFits, MismatchFault, Engine, Config, Others, Alone, AloneAt
  <2>2. calm'[p] => FittingAt(p)'
    BY <1>a, <1>b DEF Fitting, FittingAt, ComparatorFits, MismatchFault, Engine, Config
  <2> QED
    BY <2>1, <2>2 DEF Fitting
<1> QED
  BY <1>1, <1>2, <1>3, <1>4, <1>5, <1>6, <1>7, <1>8, <1>9, <1>10, <1>11

LEMMA OpenInvalidLeavesKeeps ==
  ASSUME IInv, NEW p \in Process, OpenInvalid(p), ~MayCreate(Config(p))
  PROVE  IInv'
<1> USE ConstantNames, RootStates DEF IInv
<1>a. /\ ProcessTypes' /\ Others(p)
      /\ pc'[p] = "idle" /\ call'[p] = NoCall /\ ~calm'[p]
  BY Leaves DEF OpenInvalid, Positions
<1>b. pc[p] = "open" /\ UNCHANGED <<file, root, owner, lent>>
  BY <1>a DEF OpenInvalid
<1>1. TypeInv'
  BY <1>a, <1>b DEF TypeInv, ProcessTypes
<1>2. CallInv'
  BY <1>a, <1>b DEF CallInv, Asked, Engine, Config, ByPath, Others
<1>3. Holds'
  BY <1>a, <1>b DEF Holds, Using, ByPath, Config, Others
<1>4. Lends'
  BY <1>a, <1>b DEF Lends, Using, Others
<1>5. NoPool'
  BY <1>a, <1>b DEF NoPool, Others
<1>6. Layouts'
  BY <1>a, <1>b DEF Layouts, Placed, ByPath, Engine, Config, Others
<1>7. NewRoot'
  BY <1>a, <1>b DEF NewRoot, Others
<1>8. MadeRoot'
  BY <1>a, <1>b, ZenonT(30) DEF MadeRoot, Placed, Engine, Others
<1>9. Compared'
  <2>1. ASSUME NEW q \in Process \ {p} PROVE ComparedAt(q)'
    <3>1. pc'[q] = pc[q] /\ Engine(q)' = Engine(q) /\ Config(q)' = Config(q)
      BY <1>a DEF Others, Engine, Config
    <3> QED
      BY <1>b, <3>1, ZenonT(60) DEF Compared, ComparedAt
  <2>2. ComparedAt(p)'
    BY <1>a, <1>b DEF Compared, ComparedAt, Engine, Config, ComparatorName, Has
  <2> QED
    BY <2>1, <2>2 DEF Compared
<1>10. Alone'
  <2>1. ASSUME NEW q \in Process \ {p} PROVE calm'[q] => AloneAt(q)'
    BY <1>a, <1>b DEF Alone, AloneAt, Asked, Others
  <2>2. calm'[p] => AloneAt(p)'
    BY <1>a, <1>b DEF Alone, AloneAt, Asked, Others
  <2> QED
    BY <2>1, <2>2 DEF Alone
<1>11. Fitting'
  <2>1. ASSUME NEW q \in Process \ {p} PROVE calm'[q] => FittingAt(q)'
    BY <1>a, <1>b DEF Fitting, FittingAt, ComparatorFits, MismatchFault, Engine, Config, Others, Alone, AloneAt
  <2>2. calm'[p] => FittingAt(p)'
    BY <1>a, <1>b DEF Fitting, FittingAt, ComparatorFits, MismatchFault, Engine, Config
  <2> QED
    BY <2>1, <2>2 DEF Fitting
<1> QED
  BY <1>1, <1>2, <1>3, <1>4, <1>5, <1>6, <1>7, <1>8, <1>9, <1>10, <1>11

LEMMA CreateRefusedKeeps ==
  ASSUME IInv, NEW p \in Process, CreateRefused(p)
  PROVE  IInv'
<1> USE ConstantNames, RootStates DEF IInv
<1>a. /\ ProcessTypes' /\ Others(p)
      /\ pc'[p] = "idle" /\ call'[p] = NoCall /\ ~calm'[p]
  BY Leaves DEF CreateRefused, Positions
<1>b. pc[p] = "create" /\ UNCHANGED <<file, root, owner, lent>>
  BY <1>a DEF CreateRefused
<1>1. TypeInv'
  BY <1>a, <1>b DEF TypeInv, ProcessTypes
<1>2. CallInv'
  BY <1>a, <1>b DEF CallInv, Asked, Engine, Config, ByPath, Others
<1>3. Holds'
  BY <1>a, <1>b DEF Holds, Using, ByPath, Config, Others
<1>4. Lends'
  BY <1>a, <1>b DEF Lends, Using, Others
<1>5. NoPool'
  BY <1>a, <1>b DEF NoPool, Others
<1>6. Layouts'
  BY <1>a, <1>b DEF Layouts, Placed, ByPath, Engine, Config, Others
<1>7. NewRoot'
  BY <1>a, <1>b DEF NewRoot, Others
<1>8. MadeRoot'
  BY <1>a, <1>b, ZenonT(30) DEF MadeRoot, Placed, Engine, Others
<1>9. Compared'
  <2>1. ASSUME NEW q \in Process \ {p} PROVE ComparedAt(q)'
    <3>1. pc'[q] = pc[q] /\ Engine(q)' = Engine(q) /\ Config(q)' = Config(q)
      BY <1>a DEF Others, Engine, Config
    <3> QED
      BY <1>b, <3>1, ZenonT(60) DEF Compared, ComparedAt
  <2>2. ComparedAt(p)'
    BY <1>a, <1>b DEF Compared, ComparedAt, Engine, Config, ComparatorName, Has
  <2> QED
    BY <2>1, <2>2 DEF Compared
<1>10. Alone'
  <2>1. ASSUME NEW q \in Process \ {p} PROVE calm'[q] => AloneAt(q)'
    BY <1>a, <1>b DEF Alone, AloneAt, Asked, Others
  <2>2. calm'[p] => AloneAt(p)'
    BY <1>a, <1>b DEF Alone, AloneAt, Asked, Others
  <2> QED
    BY <2>1, <2>2 DEF Alone
<1>11. Fitting'
  <2>1. ASSUME NEW q \in Process \ {p} PROVE calm'[q] => FittingAt(q)'
    BY <1>a, <1>b DEF Fitting, FittingAt, ComparatorFits, MismatchFault, Engine, Config, Others, Alone, AloneAt
  <2>2. calm'[p] => FittingAt(p)'
    BY <1>a, <1>b DEF Fitting, FittingAt, ComparatorFits, MismatchFault, Engine, Config
  <2> QED
    BY <2>1, <2>2 DEF Fitting
<1> QED
  BY <1>1, <1>2, <1>3, <1>4, <1>5, <1>6, <1>7, <1>8, <1>9, <1>10, <1>11

LEMMA CreateBeginsKeeps ==
  ASSUME IInv, NEW p \in Process, CreateBegins(p)
  PROVE  IInv'
<1> USE ConstantNames, RootStates DEF IInv
<1>a. /\ ProcessTypes' /\ Others(p)
      /\ pc'[p] = "creating" /\ call'[p] = call[p] /\ calm'[p] = calm[p]
  BY GoesOn DEF CreateBegins, Positions
<1>b. pc[p] = "create" /\ file = "none" /\ file' = "torn" /\ owner' = p /\ UNCHANGED <<root, lent>>
  BY <1>a DEF CreateBegins
<1>1. TypeInv'
  BY <1>a, <1>b DEF TypeInv, ProcessTypes, CallInv, Holds, Lends, NoPool, NewRoot, Using, Asked
<1>2. CallInv'
  BY <1>a, <1>b DEF CallInv, Asked, Engine, Config, ByPath, Others, TypeInv, Holds, Lends, NoPool, NewRoot, Using
<1>3. Holds'
  BY <1>a, <1>b DEF Holds, Using, ByPath, Config, Others, TypeInv, CallInv, Lends, NoPool, NewRoot, Asked
<1>4. Lends'
  BY <1>a, <1>b DEF Lends, Using, Others, TypeInv, CallInv, Holds, NoPool, NewRoot, Asked
<1>5. NoPool'
  BY <1>a, <1>b DEF NoPool, Others, TypeInv, CallInv, Holds, Lends, NewRoot, Using, Asked
<1>6. Layouts'
  BY <1>a, <1>b DEF Layouts, Placed, ByPath, Engine, Config, Others, TypeInv, CallInv, Holds, Lends, NoPool, NewRoot, Using, Asked
<1>7. NewRoot'
  BY <1>a, <1>b DEF NewRoot, Others, TypeInv, CallInv, Holds, Lends, NoPool, Using, Asked
<1>8. MadeRoot'
  BY <1>a, <1>b DEF MadeRoot, Placed, Engine, Others, TypeInv, CallInv, Holds, Lends, NoPool, NewRoot, Using, Asked
<1>9. Compared'
  <2>1. ASSUME NEW q \in Process \ {p} PROVE ComparedAt(q)'
    <3>1. pc'[q] = pc[q] /\ Engine(q)' = Engine(q) /\ Config(q)' = Config(q)
      BY <1>a DEF Others, Engine, Config
    <3> QED
      BY <1>b, <3>1 DEF Compared, ComparedAt, TypeInv, CallInv, Holds, Lends, NoPool, NewRoot, Using, Asked
  <2>2. ComparedAt(p)'
    BY <1>a, <1>b DEF Compared, ComparedAt, Engine, Config, ComparatorName, Has, TypeInv, CallInv, Holds, Lends, NoPool, NewRoot, Using, Asked
  <2> QED
    BY <2>1, <2>2 DEF Compared
<1>10. Alone'
  <2>1. ASSUME NEW q \in Process \ {p} PROVE calm'[q] => AloneAt(q)'
    BY <1>a, <1>b DEF Alone, AloneAt, Asked, TypeInv, CallInv, Holds, Lends, NoPool, NewRoot, Using, Others
  <2>2. calm'[p] => AloneAt(p)'
    BY <1>a, <1>b, ZenonT(30) DEF Alone, AloneAt, Asked, TypeInv, CallInv, Holds, Lends, NoPool, NewRoot, Using, Others
  <2> QED
    BY <2>1, <2>2 DEF Alone
<1>11. Fitting'
  <2>1. ASSUME NEW q \in Process \ {p} PROVE calm'[q] => FittingAt(q)'
    BY <1>a, <1>b DEF Fitting, FittingAt, ComparatorFits, MismatchFault, Engine, Config, TypeInv, CallInv, Holds, Lends, NoPool, NewRoot, Using, Asked, Others, Alone, AloneAt
  <2>2. calm'[p] => FittingAt(p)'
    BY <1>a, <1>b DEF Fitting, FittingAt, ComparatorFits, MismatchFault, Engine, Config, TypeInv, CallInv, Holds, Lends, NoPool, NewRoot, Using, Asked
  <2> QED
    BY <2>1, <2>2 DEF Fitting
<1> QED
  BY <1>1, <1>2, <1>3, <1>4, <1>5, <1>6, <1>7, <1>8, <1>9, <1>10, <1>11

LEMMA CreateEndsKeeps ==
  ASSUME IInv, NEW p \in Process, CreateEnds(p)
  PROVE  IInv'
<1> USE ConstantNames, RootStates DEF IInv
<1>a. /\ ProcessTypes' /\ Others(p)
      /\ pc'[p] = "root" /\ call'[p] = call[p] /\ calm'[p] = calm[p]
  BY GoesOn DEF CreateEnds, Positions
<1>b. pc[p] = "creating" /\ file' = Engine(p) /\ root' = NullRoot /\ UNCHANGED <<owner, lent>>
  BY <1>a DEF CreateEnds
<1>1. TypeInv'
  BY <1>a, <1>b DEF TypeInv, ProcessTypes, CallInv, Holds, Lends, NoPool, NewRoot, Using, Asked, Placed, ByPath
<1>2. CallInv'
  BY <1>a, <1>b DEF CallInv, Asked, Engine, Config, ByPath, Others, Holds, Lends, NoPool, NewRoot, Using, Placed
<1>3. Holds'
  BY <1>a, <1>b DEF Holds, Using, ByPath, Config, Others, CallInv, Lends, NoPool, NewRoot, Asked, Placed
<1>4. Lends'
  BY <1>a, <1>b DEF Lends, Using, Others, CallInv, Holds, NoPool, NewRoot, Asked, Placed, ByPath
<1>5. NoPool'
  BY <1>a, <1>b DEF NoPool, Others, CallInv, Holds, Lends, NewRoot, Using, Asked, Placed, ByPath
<1>6. Layouts'
  BY <1>a, <1>b DEF Layouts, Placed, ByPath, Engine, Config, Others, CallInv, Holds, Lends, NoPool, NewRoot, Using, Asked
<1>7. NewRoot'
  BY <1>a, <1>b DEF NewRoot, Others, CallInv, Holds, Lends, NoPool, Using, Asked, Placed, ByPath
<1>8. MadeRoot'
  BY <1>a, <1>b DEF MadeRoot, Placed, Engine, Others, CallInv, Holds, Lends, NoPool, NewRoot, Using, Asked, ByPath
<1>9. Compared'
  <2>1. ASSUME NEW q \in Process \ {p} PROVE ComparedAt(q)'
    <3>1. pc'[q] = pc[q] /\ Engine(q)' = Engine(q) /\ Config(q)' = Config(q)
      BY <1>a DEF Others, Engine, Config
    <3> QED
      BY <1>b, <3>1 DEF Compared, ComparedAt, CallInv, Holds, Lends, NoPool, NewRoot, Using, Asked, Placed, ByPath
  <2>2. ComparedAt(p)'
    BY <1>a, <1>b DEF Compared, ComparedAt, Engine, Config, ComparatorName, Has, CallInv, Holds, Lends, NoPool, NewRoot, Using, Asked, Placed, ByPath
  <2> QED
    BY <2>1, <2>2 DEF Compared
<1>10. Alone'
  <2>1. ASSUME NEW q \in Process \ {p} PROVE calm'[q] => AloneAt(q)'
    BY <1>a, <1>b DEF Alone, AloneAt, Asked, CallInv, Holds, Lends, NoPool, NewRoot, Using, Placed, ByPath, Others
  <2>2. calm'[p] => AloneAt(p)'
    BY <1>a, <1>b, ZenonT(30) DEF Alone, AloneAt, Asked, CallInv, Holds, Lends, NoPool, NewRoot, Using, Placed, ByPath, Others
  <2> QED
    BY <2>1, <2>2 DEF Alone
<1>11. Fitting'
  <2>1. ASSUME NEW q \in Process \ {p} PROVE calm'[q] => FittingAt(q)'
    BY <1>a, <1>b DEF Fitting, FittingAt, ComparatorFits, MismatchFault, Engine, Config, CallInv, Holds, Lends, NoPool, NewRoot, Using, Asked, Placed, ByPath, Others, Alone, AloneAt
  <2>2. calm'[p] => FittingAt(p)'
    BY <1>a, <1>b DEF Fitting, FittingAt, ComparatorFits, MismatchFault, Engine, Config, CallInv, Holds, Lends, NoPool, NewRoot, Using, Asked, Placed, ByPath
  <2> QED
    BY <2>1, <2>2 DEF Fitting
<1> QED
  BY <1>1, <1>2, <1>3, <1>4, <1>5, <1>6, <1>7, <1>8, <1>9, <1>10, <1>11

LEMMA CreateFailsKeeps ==
  ASSUME IInv, NEW p \in Process, CreateFails(p)
  PROVE  IInv'
<1> USE ConstantNames, RootStates DEF IInv
<1>a. /\ ProcessTypes' /\ Others(p)
      /\ pc'[p] = "idle" /\ call'[p] = NoCall /\ ~calm'[p]
  BY Leaves DEF CreateFails, Positions
<1>b. pc[p] = "creating" /\ file' = "none" /\ owner' = NoProcess /\ UNCHANGED <<root, lent>>
  BY <1>a DEF CreateFails
<1>1. TypeInv'
  BY <1>a, <1>b DEF TypeInv, ProcessTypes, CallInv, Holds, Lends, NoPool, NewRoot, Using, Asked, ByPath
<1>2. CallInv'
  BY <1>a, <1>b DEF CallInv, Asked, Engine, Config, ByPath, Others, TypeInv, Holds, Lends, NoPool, NewRoot, Using
<1>3. Holds'
  BY <1>a, <1>b DEF Holds, Using, ByPath, Config, Others, TypeInv, CallInv, Lends, NoPool, NewRoot, Asked
<1>4. Lends'
  BY <1>a, <1>b DEF Lends, Using, Others, TypeInv, CallInv, Holds, NoPool, NewRoot, Asked, ByPath
<1>5. NoPool'
  BY <1>a, <1>b DEF NoPool, Others, TypeInv, CallInv, Holds, Lends, NewRoot, Using, Asked, ByPath
<1>6. Layouts'
  BY <1>a, <1>b DEF Layouts, Placed, ByPath, Engine, Config, Others, TypeInv, CallInv, Holds, Lends, NoPool, NewRoot, Using, Asked
<1>7. NewRoot'
  BY <1>a, <1>b DEF NewRoot, Others, TypeInv, CallInv, Holds, Lends, NoPool, Using, Asked, ByPath
<1>8. MadeRoot'
  BY <1>a, <1>b DEF MadeRoot, Placed, Engine, Others, TypeInv, CallInv, Holds, Lends, NoPool, NewRoot, Using, Asked, ByPath
<1>9. Compared'
  <2>1. ASSUME NEW q \in Process \ {p} PROVE ComparedAt(q)'
    <3>1. pc'[q] = pc[q] /\ Engine(q)' = Engine(q) /\ Config(q)' = Config(q)
      BY <1>a DEF Others, Engine, Config
    <3> QED
      BY <1>b, <3>1 DEF Compared, ComparedAt, TypeInv, CallInv, Holds, Lends, NoPool, NewRoot, Using, Asked, ByPath
  <2>2. ComparedAt(p)'
    BY <1>a, <1>b DEF Compared, ComparedAt, Engine, Config, ComparatorName, Has, TypeInv, CallInv, Holds, Lends, NoPool, NewRoot, Using, Asked, ByPath
  <2> QED
    BY <2>1, <2>2 DEF Compared
<1>10. Alone'
  <2>1. ASSUME NEW q \in Process \ {p} PROVE calm'[q] => AloneAt(q)'
    BY <1>a, <1>b DEF Alone, AloneAt, Asked, TypeInv, CallInv, Holds, Lends, NoPool, NewRoot, Using, ByPath, Others
  <2>2. calm'[p] => AloneAt(p)'
    BY <1>a, <1>b DEF Alone, AloneAt, Asked, TypeInv, CallInv, Holds, Lends, NoPool, NewRoot, Using, ByPath, Others
  <2> QED
    BY <2>1, <2>2 DEF Alone
<1>11. Fitting'
  <2>1. ASSUME NEW q \in Process \ {p} PROVE calm'[q] => FittingAt(q)'
    BY <1>a, <1>b DEF Fitting, FittingAt, ComparatorFits, MismatchFault, Engine, Config, TypeInv, CallInv, Holds, Lends, NoPool, NewRoot, Using, Asked, ByPath, Others, Alone, AloneAt
  <2>2. calm'[p] => FittingAt(p)'
    BY <1>a, <1>b DEF Fitting, FittingAt, ComparatorFits, MismatchFault, Engine, Config, TypeInv, CallInv, Holds, Lends, NoPool, NewRoot, Using, Asked, ByPath
  <2> QED
    BY <2>1, <2>2 DEF Fitting
<1> QED
  BY <1>1, <1>2, <1>3, <1>4, <1>5, <1>6, <1>7, <1>8, <1>9, <1>10, <1>11

LEMMA RootMadeKeeps ==
  ASSUME IInv, NEW p \in Process, RootMade(p)
  PROVE  IInv'
<1> USE ConstantNames, RootStates DEF IInv
<1>a. /\ ProcessTypes' /\ Others(p)
      /\ pc'[p] = (IF Engine(p) \in Compares THEN "compare" ELSE "commit") /\ call'[p] = call[p] /\ calm'[p] = calm[p]
  BY GoesOn DEF RootMade, Positions
<1>b. pc[p] = "root" /\ root.state = "null" /\ UNCHANGED <<file, owner, lent>>
  BY <1>a DEF RootMade
<1>c. /\ owner = p /\ Engine(p) \in Engines
      /\ file \notin {"none", "torn"} /\ (ByPath(p) <=> ~lent)
      /\ \A q \in Process \ {p} : pc[q] \in {"idle", "open", "create"} /\ ~calm[q]
  BY <1>b, HasPool DEF Placed
<1>d. root' \in [state : {"null", "new", "made"}, engine : Engines \cup {"none"},
                 name : AnyName, cmp : Process \cup {Dangling}]
      /\ root'.state = "new" /\ root'.engine = Engine(p)
  BY <1>b, <1>c DEF RootMade, TypeInv, CallInv
<1>1. TypeInv'
  BY <1>a, <1>b, <1>c, <1>d DEF TypeInv, ProcessTypes
<1>2. CallInv'
  BY <1>a, <1>b, <1>c DEF CallInv, Asked, Engine, Config, ByPath, Others
<1>3. Holds'
  BY <1>a, <1>b, <1>c DEF Holds, Using, ByPath, Config, Others
<1>4. Lends'
  BY <1>a, <1>b, <1>c DEF Lends, Using, Others
<1>5. NoPool'
  BY <1>a, <1>b, <1>c, <1>d DEF NoPool, Others
<1>6. Layouts'
  BY <1>a, <1>b, <1>c, <1>d DEF Layouts, Placed, ByPath, Engine, Config, Others, MadeRoot, Lends, NewRoot
<1>7. NewRoot'
  BY <1>a, <1>b, <1>c, <1>d DEF NewRoot, Others
<1>8. MadeRoot'
  BY <1>a, <1>b, <1>c, <1>d, ZenonT(30) DEF MadeRoot, Placed, Engine, Others, NewRoot, Compared, ComparedAt
<1>9. Compared'
  <2>1. ASSUME NEW q \in Process \ {p} PROVE ComparedAt(q)'
    <3>1. pc'[q] = pc[q] /\ Engine(q)' = Engine(q) /\ Config(q)' = Config(q)
      BY <1>a DEF Others, Engine, Config
    <3> QED
      BY <1>b, <3>1, <1>c, <1>d DEF Compared, ComparedAt
  <2>2. ComparedAt(p)'
    BY <1>a, <1>b, <1>c, <1>d DEF Compared, ComparedAt, Engine, Config, ComparatorName, Has
  <2> QED
    BY <2>1, <2>2 DEF Compared
<1>10. Alone'
  <2>1. ASSUME NEW q \in Process \ {p} PROVE calm'[q] => AloneAt(q)'
    BY <1>a, <1>b, <1>c DEF Alone, AloneAt, Asked, Using, Others
  <2>2. calm'[p] => AloneAt(p)'
    BY <1>a, <1>b, <1>c DEF Alone, AloneAt, Asked, Using, Others
  <2> QED
    BY <2>1, <2>2 DEF Alone
<1>11. Fitting'
  <2>1. ASSUME NEW q \in Process \ {p} PROVE calm'[q] => FittingAt(q)'
    BY <1>a, <1>b, <1>c, <1>d DEF Fitting, FittingAt, ComparatorFits, MismatchFault, Engine, Config, Alone, AloneAt, Others, Alone, AloneAt
  <2>2. calm'[p] => FittingAt(p)'
    BY <1>a, <1>b, <1>c, <1>d DEF Fitting, FittingAt, ComparatorFits, MismatchFault, Engine, Config, Alone, AloneAt
  <2> QED
    BY <2>1, <2>2 DEF Fitting
<1> QED
  BY <1>1, <1>2, <1>3, <1>4, <1>5, <1>6, <1>7, <1>8, <1>9, <1>10, <1>11

LEMMA RootCommittedKeeps ==
  ASSUME IInv, NEW p \in Process, RootCommitted(p)
  PROVE  IInv'
<1> USE ConstantNames, RootStates DEF IInv
<1>a. /\ ProcessTypes' /\ Others(p)
      /\ pc'[p] = "up" /\ ~calm'[p] /\ Engine(p)' = Engine(p) /\ (ByPath(p)' <=> ByPath(p))
      /\ Engine(p) \in Compares => ComparatorName(Config(p))' = ComparatorName(Config(p))
  BY Succeeds DEF RootCommitted, Positions, CallInv, Asked
<1>b. pc[p] = "commit" /\ UNCHANGED <<file, owner, lent>>
  BY <1>a DEF RootCommitted
<1>c. /\ owner = p /\ Engine(p) \in Engines
      /\ file \notin {"none", "torn"} /\ (ByPath(p) <=> ~lent)
      /\ \A q \in Process \ {p} : pc[q] \in {"idle", "open", "create"} /\ ~calm[q]
  BY <1>b, HasPool DEF Placed
<1>d. root' \in [state : {"null", "new", "made"}, engine : Engines \cup {"none"},
                 name : AnyName, cmp : Process \cup {Dangling}]
      /\ root'.state = "made" /\ root'.engine = root.engine /\ root'.name = root.name /\ root'.cmp = root.cmp
  BY <1>b, <1>c DEF RootCommitted, TypeInv, CallInv
<1>1. TypeInv'
  BY <1>a, <1>b, <1>c, <1>d DEF TypeInv, ProcessTypes
<1>2. CallInv'
  BY <1>a, <1>b, <1>c DEF CallInv, Asked, Engine, Config, ByPath, Others
<1>3. Holds'
  BY <1>a, <1>b, <1>c DEF Holds, Using, ByPath, Config, Others
<1>4. Lends'
  BY <1>a, <1>b, <1>c DEF Lends, Using, Others
<1>5. NoPool'
  BY <1>a, <1>b, <1>c, <1>d DEF NoPool, Others
<1>6. Layouts'
  BY <1>a, <1>b, <1>c, <1>d DEF Layouts, Placed, ByPath, Engine, Config, Others, MadeRoot, Lends, NewRoot
<1>7. NewRoot'
  BY <1>a, <1>b, <1>c, <1>d DEF NewRoot, Others
<1>8. MadeRoot'
  BY <1>a, <1>b, <1>c, <1>d, ZenonT(30) DEF MadeRoot, Placed, Engine, Others, NewRoot, Compared, ComparedAt
<1>9. Compared'
  <2>1. ASSUME NEW q \in Process \ {p} PROVE ComparedAt(q)'
    <3>1. pc'[q] = pc[q] /\ Engine(q)' = Engine(q) /\ Config(q)' = Config(q)
      BY <1>a DEF Others, Engine, Config
    <3> QED
      BY <1>b, <3>1, <1>c, <1>d DEF Compared, ComparedAt
  <2>2. ComparedAt(p)'
    BY <1>a, <1>b, <1>c, <1>d DEF Compared, ComparedAt, Engine, Config, ComparatorName, Has
  <2> QED
    BY <2>1, <2>2 DEF Compared
<1>10. Alone'
  <2>1. ASSUME NEW q \in Process \ {p} PROVE calm'[q] => AloneAt(q)'
    BY <1>a, <1>b, <1>c DEF Alone, AloneAt, Asked, Using, Others
  <2>2. calm'[p] => AloneAt(p)'
    BY <1>a, <1>b, <1>c DEF Alone, AloneAt, Asked, Using, Others
  <2> QED
    BY <2>1, <2>2 DEF Alone
<1>11. Fitting'
  <2>1. ASSUME NEW q \in Process \ {p} PROVE calm'[q] => FittingAt(q)'
    BY <1>a, <1>b, <1>c, <1>d DEF Fitting, FittingAt, ComparatorFits, MismatchFault, Engine, Config, Alone, AloneAt, Others, Alone, AloneAt
  <2>2. calm'[p] => FittingAt(p)'
    BY <1>a, <1>b, <1>c, <1>d DEF Fitting, FittingAt, ComparatorFits, MismatchFault, Engine, Config, Alone, AloneAt
  <2> QED
    BY <2>1, <2>2 DEF Fitting
<1> QED
  BY <1>1, <1>2, <1>3, <1>4, <1>5, <1>6, <1>7, <1>8, <1>9, <1>10, <1>11

LEMMA RootFailsKeeps ==
  ASSUME IInv, NEW p \in Process, RootFails(p)
  PROVE  IInv'
<1> USE ConstantNames, RootStates DEF IInv
<1>a. /\ ProcessTypes' /\ Others(p)
      /\ pc'[p] = "idle" /\ call'[p] = NoCall /\ ~calm'[p]
  BY Leaves DEF RootFails, Positions
<1>b. pc[p] \in {"compare", "commit"} /\ root' = NullRoot /\ owner' = Released(p) /\ UNCHANGED <<file, lent>>
  BY <1>a DEF RootFails
<1>c. /\ owner = p /\ Engine(p) \in Engines
      /\ file \notin {"none", "torn"} /\ (ByPath(p) <=> ~lent)
      /\ \A q \in Process \ {p} : pc[q] \in {"idle", "open", "create"} /\ ~calm[q]
  BY <1>b, HasPool DEF Placed
<1>d. root' \in [state : {"null", "new", "made"}, engine : Engines \cup {"none"},
                 name : AnyName, cmp : Process \cup {Dangling}]
      /\ owner' = (IF ByPath(p) THEN NoProcess ELSE p)
  BY <1>b, <1>c DEF RootFails, TypeInv, CallInv, Released
<1>1. TypeInv'
  BY <1>a, <1>b, <1>c, <1>d DEF TypeInv, ProcessTypes
<1>2. CallInv'
  BY <1>a, <1>b, <1>c, <1>d DEF CallInv, Asked, Engine, Config, ByPath, Others
<1>3. Holds'
  BY <1>a, <1>b, <1>c, <1>d DEF Holds, Using, ByPath, Config, Others
<1>4. Lends'
  BY <1>a, <1>b, <1>c, <1>d DEF Lends, Using, Others
<1>5. NoPool'
  BY <1>a, <1>b, <1>c, <1>d DEF NoPool, Others
<1>6. Layouts'
  BY <1>a, <1>b, <1>c, <1>d DEF Layouts, Placed, ByPath, Engine, Config, Others, MadeRoot, Lends, NewRoot
<1>7. NewRoot'
  BY <1>a, <1>b, <1>c, <1>d DEF NewRoot, Others
<1>8. MadeRoot'
  BY <1>a, <1>b, <1>c, <1>d DEF MadeRoot, Placed, Engine, Others, NewRoot, Compared, ComparedAt
<1>9. Compared'
  <2>1. ASSUME NEW q \in Process \ {p} PROVE ComparedAt(q)'
    <3>1. pc'[q] = pc[q] /\ Engine(q)' = Engine(q) /\ Config(q)' = Config(q)
      BY <1>a DEF Others, Engine, Config
    <3> QED
      BY <1>b, <3>1, <1>c, <1>d DEF Compared, ComparedAt
  <2>2. ComparedAt(p)'
    BY <1>a, <1>b, <1>c, <1>d DEF Compared, ComparedAt, Engine, Config, ComparatorName, Has
  <2> QED
    BY <2>1, <2>2 DEF Compared
<1>10. Alone'
  <2>1. ASSUME NEW q \in Process \ {p} PROVE calm'[q] => AloneAt(q)'
    BY <1>a, <1>b, <1>c, <1>d DEF Alone, AloneAt, Asked, Using, Others
  <2>2. calm'[p] => AloneAt(p)'
    BY <1>a, <1>b, <1>c, <1>d DEF Alone, AloneAt, Asked, Using, Others
  <2> QED
    BY <2>1, <2>2 DEF Alone
<1>11. Fitting'
  <2>1. ASSUME NEW q \in Process \ {p} PROVE calm'[q] => FittingAt(q)'
    BY <1>a, <1>b, <1>c, <1>d DEF Fitting, FittingAt, ComparatorFits, MismatchFault, Engine, Config, Alone, AloneAt, Others, Alone, AloneAt
  <2>2. calm'[p] => FittingAt(p)'
    BY <1>a, <1>b, <1>c, <1>d DEF Fitting, FittingAt, ComparatorFits, MismatchFault, Engine, Config, Alone, AloneAt
  <2> QED
    BY <2>1, <2>2 DEF Fitting
<1> QED
  BY <1>1, <1>2, <1>3, <1>4, <1>5, <1>6, <1>7, <1>8, <1>9, <1>10, <1>11

LEMMA RootComparesOkKeeps ==
  ASSUME IInv, NEW p \in Process, RootCompares(p), ComparatorFault(Config(p)) = "none"
  PROVE  IInv'
<1> USE ConstantNames, RootStates DEF IInv
<1>a. /\ ProcessTypes' /\ Others(p)
      /\ pc'[p] = "commit" /\ call'[p] = call[p] /\ calm'[p] = calm[p]
  BY GoesOn DEF RootCompares, Positions
<1>b. pc[p] = "compare" /\ UNCHANGED <<file, owner, lent>>
      /\ ComparatorName(Config(p)) # ""
  BY <1>a DEF RootCompares, ComparatorFault
<1>c. /\ owner = p /\ Engine(p) \in Engines
      /\ file \notin {"none", "torn"} /\ (ByPath(p) <=> ~lent)
      /\ \A q \in Process \ {p} : pc[q] \in {"idle", "open", "create"} /\ ~calm[q]
  BY <1>b, HasPool DEF Placed
<1>e. ComparatorName(Config(p)) \in AnyName
  BY <1>b DEF CallInv, Asked, AnyName, ComparatorName, Has
<1>d. root' \in [state : {"null", "new", "made"}, engine : Engines \cup {"none"},
                 name : AnyName, cmp : Process \cup {Dangling}]
      /\ root.state = "new" /\ root'.state = "new" /\ root'.engine = root.engine /\ root'.name = ComparatorName(Config(p)) /\ root'.cmp = p
  BY <1>b, <1>c, <1>e, ComparatorStored, ZenonT(30) DEF RootCompares, NewRoot
<1>1. TypeInv'
  BY <1>a, <1>b, <1>c, <1>e, <1>d DEF TypeInv, ProcessTypes
<1>2. CallInv'
  BY <1>a, <1>b, <1>c, <1>e DEF CallInv, Asked, Engine, Config, ByPath, Others
<1>3. Holds'
  BY <1>a, <1>b, <1>c, <1>e DEF Holds, Using, ByPath, Config, Others
<1>4. Lends'
  BY <1>a, <1>b, <1>c, <1>e DEF Lends, Using, Others
<1>5. NoPool'
  <2>1. file' \notin {"none", "torn"}
    BY <1>b, <1>c
  <2> QED
    BY <1>a, <1>c, <2>1 DEF NoPool, Others
<1>6. Layouts'
  <2>1. pc[p] = "compare" /\ file' = file /\ root.state = "new" /\ root'.engine = root.engine
    BY <1>b, <1>d
  <2> QED
    BY <1>a, <1>c, <2>1 DEF Layouts, MadeRoot, Lends, Placed, ByPath, Engine, Config, Others
<1>7. NewRoot'
  BY <1>a, <1>b, <1>c, <1>e, <1>d DEF NewRoot, Others
<1>8. MadeRoot'
  <2>1. pc[p] = "compare" /\ root.state = "new" /\ root'.state = "new" /\ root'.engine = root.engine
    BY <1>b, <1>d
  <2> QED
    BY <1>a, <1>c, <2>1 DEF MadeRoot, Placed, Engine, Others
<1>9. Compared'
  <2>1. ASSUME NEW q \in Process \ {p} PROVE ComparedAt(q)'
    <3>1. pc'[q] = pc[q] /\ Engine(q)' = Engine(q) /\ Config(q)' = Config(q)
      BY <1>a DEF Others, Engine, Config
    <3> QED
      BY <1>b, <3>1, <1>c, <1>e, <1>d DEF Compared, ComparedAt
  <2>2. ComparedAt(p)'
    BY <1>a, <1>b, <1>c, <1>e, <1>d, ZenonT(30) DEF Compared, ComparedAt, Engine, Config, ComparatorName, Has
  <2> QED
    BY <2>1, <2>2 DEF Compared
<1>10. Alone'
  <2>1. ASSUME NEW q \in Process \ {p} PROVE calm'[q] => AloneAt(q)'
    BY <1>a, <1>b, <1>c, <1>e DEF Alone, AloneAt, Asked, Using, Others
  <2>2. calm'[p] => AloneAt(p)'
    BY <1>a, <1>b, <1>c, <1>e DEF Alone, AloneAt, Asked, Using, Others
  <2> QED
    BY <2>1, <2>2 DEF Alone
<1>11. Fitting'
  <2>1. ASSUME NEW q \in Process \ {p} PROVE calm'[q] => FittingAt(q)'
    BY <1>a, <1>b, <1>c, <1>e, <1>d DEF Fitting, FittingAt, ComparatorFits, MismatchFault, Engine, Config, Alone, AloneAt, Others, Alone, AloneAt
  <2>2. calm'[p] => FittingAt(p)'
    BY <1>a, <1>b, <1>c, <1>e, <1>d DEF Fitting, FittingAt, ComparatorFits, MismatchFault, Engine, Config, Alone, AloneAt
  <2> QED
    BY <2>1, <2>2 DEF Fitting
<1> QED
  BY <1>1, <1>2, <1>3, <1>4, <1>5, <1>6, <1>7, <1>8, <1>9, <1>10, <1>11

LEMMA RootComparesNotKeeps ==
  ASSUME IInv, NEW p \in Process, RootCompares(p), ComparatorFault(Config(p)) # "none"
  PROVE  IInv'
<1> USE ConstantNames, RootStates DEF IInv
<1>a. /\ ProcessTypes' /\ Others(p)
      /\ pc'[p] = "idle" /\ call'[p] = NoCall /\ ~calm'[p]
  BY Leaves DEF RootCompares, Positions
<1>b. pc[p] = "compare" /\ root' = NullRoot /\ owner' = Released(p) /\ UNCHANGED <<file, lent>>
  BY <1>a DEF RootCompares
<1>c. /\ owner = p /\ Engine(p) \in Engines
      /\ file \notin {"none", "torn"} /\ (ByPath(p) <=> ~lent)
      /\ \A q \in Process \ {p} : pc[q] \in {"idle", "open", "create"} /\ ~calm[q]
  BY <1>b, HasPool DEF Placed
<1>d. root' \in [state : {"null", "new", "made"}, engine : Engines \cup {"none"},
                 name : AnyName, cmp : Process \cup {Dangling}]
      /\ owner' = (IF ByPath(p) THEN NoProcess ELSE p)
  BY <1>b, <1>c DEF RootCompares, TypeInv, CallInv, Released
<1>1. TypeInv'
  BY <1>a, <1>b, <1>c, <1>d DEF TypeInv, ProcessTypes
<1>2. CallInv'
  BY <1>a, <1>b, <1>c, <1>d DEF CallInv, Asked, Engine, Config, ByPath, Others
<1>3. Holds'
  BY <1>a, <1>b, <1>c, <1>d DEF Holds, Using, ByPath, Config, Others
<1>4. Lends'
  BY <1>a, <1>b, <1>c, <1>d DEF Lends, Using, Others
<1>5. NoPool'
  BY <1>a, <1>b, <1>c, <1>d DEF NoPool, Others
<1>6. Layouts'
  BY <1>a, <1>b, <1>c, <1>d DEF Layouts, Placed, ByPath, Engine, Config, Others, MadeRoot, Lends, NewRoot
<1>7. NewRoot'
  BY <1>a, <1>b, <1>c, <1>d DEF NewRoot, Others
<1>8. MadeRoot'
  BY <1>a, <1>b, <1>c, <1>d DEF MadeRoot, Placed, Engine, Others, NewRoot, Compared, ComparedAt
<1>9. Compared'
  <2>1. ASSUME NEW q \in Process \ {p} PROVE ComparedAt(q)'
    <3>1. pc'[q] = pc[q] /\ Engine(q)' = Engine(q) /\ Config(q)' = Config(q)
      BY <1>a DEF Others, Engine, Config
    <3> QED
      BY <1>b, <3>1, <1>c, <1>d DEF Compared, ComparedAt
  <2>2. ComparedAt(p)'
    BY <1>a, <1>b, <1>c, <1>d DEF Compared, ComparedAt, Engine, Config, ComparatorName, Has
  <2> QED
    BY <2>1, <2>2 DEF Compared
<1>10. Alone'
  <2>1. ASSUME NEW q \in Process \ {p} PROVE calm'[q] => AloneAt(q)'
    BY <1>a, <1>b, <1>c, <1>d DEF Alone, AloneAt, Asked, Using, Others
  <2>2. calm'[p] => AloneAt(p)'
    BY <1>a, <1>b, <1>c, <1>d DEF Alone, AloneAt, Asked, Using, Others
  <2> QED
    BY <2>1, <2>2 DEF Alone
<1>11. Fitting'
  <2>1. ASSUME NEW q \in Process \ {p} PROVE calm'[q] => FittingAt(q)'
    BY <1>a, <1>b, <1>c, <1>d DEF Fitting, FittingAt, ComparatorFits, MismatchFault, Engine, Config, Alone, AloneAt, Others, Alone, AloneAt
  <2>2. calm'[p] => FittingAt(p)'
    BY <1>a, <1>b, <1>c, <1>d DEF Fitting, FittingAt, ComparatorFits, MismatchFault, Engine, Config, Alone, AloneAt
  <2> QED
    BY <2>1, <2>2 DEF Fitting
<1> QED
  BY <1>1, <1>2, <1>3, <1>4, <1>5, <1>6, <1>7, <1>8, <1>9, <1>10, <1>11

LEMMA RootFoundFitsKeeps ==
  ASSUME IInv, NEW p \in Process, RootFound(p), (IF Engine(p) \in Compares THEN MismatchFault(Config(p)) ELSE "none") = "none"
  PROVE  IInv'
<1> USE ConstantNames, RootStates DEF IInv
<1>a. /\ ProcessTypes' /\ Others(p)
      /\ pc'[p] = "up" /\ ~calm'[p] /\ Engine(p)' = Engine(p) /\ (ByPath(p)' <=> ByPath(p))
      /\ Engine(p) \in Compares => ComparatorName(Config(p))' = ComparatorName(Config(p))
  BY Succeeds DEF RootFound, Positions, CallInv, Asked
<1>b. pc[p] = "root" /\ root.state = "made" /\ UNCHANGED <<file, owner, lent>>
      /\ (Engine(p) \in Compares => ComparatorName(Config(p)) = root.name)
  BY <1>a DEF RootFound, MismatchFault
<1>c. /\ owner = p /\ Engine(p) \in Engines
      /\ file \notin {"none", "torn"} /\ (ByPath(p) <=> ~lent)
      /\ \A q \in Process \ {p} : pc[q] \in {"idle", "open", "create"} /\ ~calm[q]
  BY <1>b, HasPool DEF Placed
<1>d. root' \in [state : {"null", "new", "made"}, engine : Engines \cup {"none"},
                 name : AnyName, cmp : Process \cup {Dangling}]
      /\ root'.state = "made" /\ root'.engine = root.engine /\ root'.name = root.name /\ (Engine(p) \in Compares => root'.cmp = p)
  BY <1>b, <1>c DEF RootFound, TypeInv, CallInv
<1>1. TypeInv'
  BY <1>a, <1>b, <1>c, <1>d DEF TypeInv, ProcessTypes
<1>2. CallInv'
  BY <1>a, <1>b, <1>c DEF CallInv, Asked, Engine, Config, ByPath, Others
<1>3. Holds'
  BY <1>a, <1>b, <1>c DEF Holds, Using, ByPath, Config, Others
<1>4. Lends'
  BY <1>a, <1>b, <1>c DEF Lends, Using, Others
<1>5. NoPool'
  BY <1>a, <1>b, <1>c, <1>d DEF NoPool, Others
<1>6. Layouts'
  BY <1>a, <1>b, <1>c, <1>d DEF Layouts, Placed, ByPath, Engine, Config, Others, MadeRoot, Lends, NewRoot
<1>7. NewRoot'
  BY <1>a, <1>b, <1>c, <1>d DEF NewRoot, Others
<1>8. MadeRoot'
  BY <1>a, <1>b, <1>c, <1>d, ZenonT(60) DEF MadeRoot, Placed, Engine, Others, NewRoot, Compared, ComparedAt
<1>9. Compared'
  <2>1. ASSUME NEW q \in Process \ {p} PROVE ComparedAt(q)'
    <3>1. pc'[q] = pc[q] /\ Engine(q)' = Engine(q) /\ Config(q)' = Config(q)
      BY <1>a DEF Others, Engine, Config
    <3> QED
      BY <1>b, <3>1, <1>c, <1>d DEF Compared, ComparedAt, MadeRoot, Placed
  <2>2. ComparedAt(p)'
    BY <1>a, <1>b, <1>c, <1>d DEF Compared, ComparedAt, Engine, Config, ComparatorName, Has, MadeRoot, Placed
  <2> QED
    BY <2>1, <2>2 DEF Compared
<1>10. Alone'
  <2>1. ASSUME NEW q \in Process \ {p} PROVE calm'[q] => AloneAt(q)'
    BY <1>a, <1>b, <1>c DEF Alone, AloneAt, Asked, Using, Others
  <2>2. calm'[p] => AloneAt(p)'
    BY <1>a, <1>b, <1>c DEF Alone, AloneAt, Asked, Using, Others
  <2> QED
    BY <2>1, <2>2 DEF Alone
<1>11. Fitting'
  <2>1. ASSUME NEW q \in Process \ {p} PROVE calm'[q] => FittingAt(q)'
    BY <1>a, <1>b, <1>c, <1>d DEF Fitting, FittingAt, ComparatorFits, MismatchFault, Engine, Config, Alone, AloneAt, Others, Alone, AloneAt
  <2>2. calm'[p] => FittingAt(p)'
    BY <1>a, <1>b, <1>c, <1>d DEF Fitting, FittingAt, ComparatorFits, MismatchFault, Engine, Config, Alone, AloneAt
  <2> QED
    BY <2>1, <2>2 DEF Fitting
<1> QED
  BY <1>1, <1>2, <1>3, <1>4, <1>5, <1>6, <1>7, <1>8, <1>9, <1>10, <1>11

LEMMA RootFoundNotKeeps ==
  ASSUME IInv, NEW p \in Process, RootFound(p), (IF Engine(p) \in Compares THEN MismatchFault(Config(p)) ELSE "none") # "none"
  PROVE  IInv'
<1> USE ConstantNames, RootStates DEF IInv
<1>a. /\ ProcessTypes' /\ Others(p)
      /\ pc'[p] = "idle" /\ call'[p] = NoCall /\ ~calm'[p]
  BY Leaves DEF RootFound, Positions
<1>b. pc[p] = "root" /\ root.state = "made" /\ owner' = Released(p) /\ UNCHANGED <<file, root, lent>>
  BY <1>a DEF RootFound
<1>c. /\ owner = p /\ Engine(p) \in Engines
      /\ file \notin {"none", "torn"} /\ (ByPath(p) <=> ~lent)
      /\ \A q \in Process \ {p} : pc[q] \in {"idle", "open", "create"} /\ ~calm[q]
  BY <1>b, HasPool DEF Placed
<1>d. root' \in [state : {"null", "new", "made"}, engine : Engines \cup {"none"},
                 name : AnyName, cmp : Process \cup {Dangling}]
      /\ owner' = (IF ByPath(p) THEN NoProcess ELSE p)
  BY <1>b, <1>c DEF RootFound, TypeInv, CallInv, Released
<1>1. TypeInv'
  BY <1>a, <1>b, <1>c, <1>d DEF TypeInv, ProcessTypes
<1>2. CallInv'
  BY <1>a, <1>b, <1>c, <1>d DEF CallInv, Asked, Engine, Config, ByPath, Others
<1>3. Holds'
  BY <1>a, <1>b, <1>c, <1>d DEF Holds, Using, ByPath, Config, Others
<1>4. Lends'
  BY <1>a, <1>b, <1>c, <1>d DEF Lends, Using, Others
<1>5. NoPool'
  BY <1>a, <1>b, <1>c, <1>d DEF NoPool, Others
<1>6. Layouts'
  BY <1>a, <1>b, <1>c, <1>d DEF Layouts, Placed, ByPath, Engine, Config, Others, MadeRoot, Lends, NewRoot
<1>7. NewRoot'
  BY <1>a, <1>b, <1>c, <1>d DEF NewRoot, Others
<1>8. MadeRoot'
  BY <1>a, <1>b, <1>c, <1>d DEF MadeRoot, Placed, Engine, Others, NewRoot, Compared, ComparedAt
<1>9. Compared'
  <2>1. ASSUME NEW q \in Process \ {p} PROVE ComparedAt(q)'
    <3>1. pc'[q] = pc[q] /\ Engine(q)' = Engine(q) /\ Config(q)' = Config(q)
      BY <1>a DEF Others, Engine, Config
    <3> QED
      BY <1>b, <3>1, <1>c, <1>d DEF Compared, ComparedAt
  <2>2. ComparedAt(p)'
    BY <1>a, <1>b, <1>c, <1>d DEF Compared, ComparedAt, Engine, Config, ComparatorName, Has
  <2> QED
    BY <2>1, <2>2 DEF Compared
<1>10. Alone'
  <2>1. ASSUME NEW q \in Process \ {p} PROVE calm'[q] => AloneAt(q)'
    BY <1>a, <1>b, <1>c, <1>d DEF Alone, AloneAt, Asked, Using, Others
  <2>2. calm'[p] => AloneAt(p)'
    BY <1>a, <1>b, <1>c, <1>d DEF Alone, AloneAt, Asked, Using, Others
  <2> QED
    BY <2>1, <2>2 DEF Alone
<1>11. Fitting'
  <2>1. ASSUME NEW q \in Process \ {p} PROVE calm'[q] => FittingAt(q)'
    BY <1>a, <1>b, <1>c, <1>d DEF Fitting, FittingAt, ComparatorFits, MismatchFault, Engine, Config, Alone, AloneAt, Others, Alone, AloneAt
  <2>2. calm'[p] => FittingAt(p)'
    BY <1>a, <1>b, <1>c, <1>d DEF Fitting, FittingAt, ComparatorFits, MismatchFault, Engine, Config, Alone, AloneAt
  <2> QED
    BY <2>1, <2>2 DEF Fitting
<1> QED
  BY <1>1, <1>2, <1>3, <1>4, <1>5, <1>6, <1>7, <1>8, <1>9, <1>10, <1>11

LEMMA CloseKeeps ==
  ASSUME IInv, NEW p \in Process, Close(p)
  PROVE  IInv'
<1> USE ConstantNames, RootStates DEF IInv
<1>a. /\ ProcessTypes' /\ Others(p)
      /\ pc'[p] = "idle" /\ call'[p] = NoCall /\ ~calm'[p]
  BY Ends DEF Close, Positions
<1>b. pc[p] = "up" /\ root' = Left(p) /\ owner' = Released(p) /\ UNCHANGED <<file, lent>>
  BY <1>a DEF Close
<1>c. /\ owner = p /\ Engine(p) \in Engines
      /\ file \notin {"none", "torn"} /\ (ByPath(p) <=> ~lent)
      /\ \A q \in Process \ {p} : pc[q] \in {"idle", "open", "create"} /\ ~calm[q]
  BY <1>b, HasPool DEF Placed
<1>d. root' \in [state : {"null", "new", "made"}, engine : Engines \cup {"none"},
                 name : AnyName, cmp : Process \cup {Dangling}]
      /\ owner' = (IF ByPath(p) THEN NoProcess ELSE p) /\ root'.state = root.state /\ root'.engine = root.engine /\ root'.name = root.name
  BY <1>b, <1>c DEF Close, TypeInv, CallInv, Released, Left
<1>1. TypeInv'
  BY <1>a, <1>b, <1>c, <1>d DEF TypeInv, ProcessTypes
<1>2. CallInv'
  BY <1>a, <1>b, <1>c, <1>d DEF CallInv, Asked, Engine, Config, ByPath, Others
<1>3. Holds'
  BY <1>a, <1>b, <1>c, <1>d DEF Holds, Using, ByPath, Config, Others
<1>4. Lends'
  BY <1>a, <1>b, <1>c, <1>d DEF Lends, Using, Others
<1>5. NoPool'
  BY <1>a, <1>b, <1>c, <1>d DEF NoPool, Others
<1>6. Layouts'
  BY <1>a, <1>b, <1>c, <1>d DEF Layouts, Placed, ByPath, Engine, Config, Others, MadeRoot, Lends, NewRoot
<1>7. NewRoot'
  BY <1>a, <1>b, <1>c, <1>d DEF NewRoot, Others
<1>8. MadeRoot'
  BY <1>a, <1>b, <1>c, <1>d DEF MadeRoot, Placed, Engine, Others, NewRoot, Compared, ComparedAt
<1>9. Compared'
  <2>1. ASSUME NEW q \in Process \ {p} PROVE ComparedAt(q)'
    <3>1. pc'[q] = pc[q] /\ Engine(q)' = Engine(q) /\ Config(q)' = Config(q)
      BY <1>a DEF Others, Engine, Config
    <3> QED
      BY <1>b, <3>1, <1>c, <1>d DEF Compared, ComparedAt
  <2>2. ComparedAt(p)'
    BY <1>a, <1>b, <1>c, <1>d DEF Compared, ComparedAt, Engine, Config, ComparatorName, Has
  <2> QED
    BY <2>1, <2>2 DEF Compared
<1>10. Alone'
  <2>1. ASSUME NEW q \in Process \ {p} PROVE calm'[q] => AloneAt(q)'
    BY <1>a, <1>b, <1>c, <1>d DEF Alone, AloneAt, Asked, Using, Others
  <2>2. calm'[p] => AloneAt(p)'
    BY <1>a, <1>b, <1>c, <1>d DEF Alone, AloneAt, Asked, Using, Others
  <2> QED
    BY <2>1, <2>2 DEF Alone
<1>11. Fitting'
  <2>1. ASSUME NEW q \in Process \ {p} PROVE calm'[q] => FittingAt(q)'
    BY <1>a, <1>b, <1>c, <1>d DEF Fitting, FittingAt, ComparatorFits, MismatchFault, Engine, Config, Alone, AloneAt, Others, Alone, AloneAt
  <2>2. calm'[p] => FittingAt(p)'
    BY <1>a, <1>b, <1>c, <1>d DEF Fitting, FittingAt, ComparatorFits, MismatchFault, Engine, Config, Alone, AloneAt
  <2> QED
    BY <2>1, <2>2 DEF Fitting
<1> QED
  BY <1>1, <1>2, <1>3, <1>4, <1>5, <1>6, <1>7, <1>8, <1>9, <1>10, <1>11

LEMMA CrashOtherKeeps ==
  ASSUME IInv, NEW p \in Process, Crash(p), owner # p
  PROVE  IInv'
<1> USE ConstantNames, RootStates DEF IInv
<1>a. /\ ProcessTypes' /\ Others(p)
      /\ pc'[p] = "idle" /\ call'[p] = NoCall /\ ~calm'[p]
  BY Ends DEF Crash, Positions
<1>b. owner # p /\ UNCHANGED <<file, root, owner, lent>>
  BY <1>a DEF Crash
<1>1. TypeInv'
  BY <1>a, <1>b DEF TypeInv, ProcessTypes
<1>2. CallInv'
  BY <1>a, <1>b DEF CallInv, Asked, Engine, Config, ByPath, Others
<1>3. Holds'
  BY <1>a, <1>b DEF Holds, Using, ByPath, Config, Others
<1>4. Lends'
  BY <1>a, <1>b DEF Lends, Using, Others, Holds
<1>5. NoPool'
  BY <1>a, <1>b DEF NoPool, Others
<1>6. Layouts'
  BY <1>a, <1>b DEF Layouts, Placed, ByPath, Engine, Config, Others
<1>7. NewRoot'
  BY <1>a, <1>b DEF NewRoot, Others, Holds, Using
<1>8. MadeRoot'
  BY <1>a, <1>b DEF MadeRoot, Placed, Engine, Others
<1>9. Compared'
  <2>1. ASSUME NEW q \in Process \ {p} PROVE ComparedAt(q)'
    <3>1. pc'[q] = pc[q] /\ Engine(q)' = Engine(q) /\ Config(q)' = Config(q)
      BY <1>a DEF Others, Engine, Config
    <3> QED
      BY <1>b, <3>1 DEF Compared, ComparedAt
  <2>2. ComparedAt(p)'
    BY <1>a, <1>b DEF Compared, ComparedAt, Engine, Config, ComparatorName, Has
  <2> QED
    BY <2>1, <2>2 DEF Compared
<1>10. Alone'
  <2>1. ASSUME NEW q \in Process \ {p} PROVE calm'[q] => AloneAt(q)'
    BY <1>a, <1>b DEF Alone, AloneAt, Asked, Others
  <2>2. calm'[p] => AloneAt(p)'
    BY <1>a, <1>b DEF Alone, AloneAt, Asked, Others
  <2> QED
    BY <2>1, <2>2 DEF Alone
<1>11. Fitting'
  <2>1. ASSUME NEW q \in Process \ {p} PROVE calm'[q] => FittingAt(q)'
    BY <1>a, <1>b DEF Fitting, FittingAt, ComparatorFits, MismatchFault, Engine, Config, Others, Alone, AloneAt
  <2>2. calm'[p] => FittingAt(p)'
    BY <1>a, <1>b DEF Fitting, FittingAt, ComparatorFits, MismatchFault, Engine, Config
  <2> QED
    BY <2>1, <2>2 DEF Fitting
<1> QED
  BY <1>1, <1>2, <1>3, <1>4, <1>5, <1>6, <1>7, <1>8, <1>9, <1>10, <1>11

LEMMA CrashOwnerKeeps ==
  ASSUME IInv, NEW p \in Process, Crash(p), owner = p
  PROVE  IInv'
<1> USE ConstantNames, RootStates DEF IInv
<1>a. /\ ProcessTypes' /\ Others(p)
      /\ pc'[p] = "idle" /\ call'[p] = NoCall /\ ~calm'[p]
  BY Ends DEF Crash
<1>b. owner' = NoProcess /\ lent' = FALSE /\ file' = file
  BY DEF Crash
<1>c. \A q \in Process \ {p} : pc[q] \in {"idle", "open", "create"} /\ owner # q
  BY DEF Holds, TypeInv, Positions, Using
<1>d. /\ root' \in [state : {"null", "new", "made"}, engine : Engines \cup {"none"},
                    name : AnyName, cmp : Process \cup {Dangling}]
      /\ root'.state # "new"
      /\ root'.state # "null" => root.state = "made" /\ root'.state = "made" /\ root'.engine = root.engine /\ root'.name = root.name
      /\ root = NullRoot => root' = NullRoot
  BY DEF Crash, Left, TypeInv
<1>1. TypeInv'
  BY <1>a, <1>b, <1>d DEF TypeInv, ProcessTypes
<1>2. CallInv'
  BY <1>a DEF CallInv, Asked, Engine, Config, ByPath, Others
<1>3. Holds'
  BY <1>a, <1>c DEF Holds, Using, Others
<1>4. Lends'
  BY <1>b DEF Lends
<1>5. NoPool'
  BY <1>a, <1>b, <1>c, <1>d DEF NoPool, Others
<1>6. Layouts'
  BY <1>a, <1>b, <1>c, <1>d DEF Layouts, Placed, Others
<1>7. NewRoot'
  BY <1>a, <1>c, <1>d DEF NewRoot, Others
<1>8. MadeRoot'
  BY <1>a, <1>c, <1>d DEF MadeRoot, Placed, Others
<1>9. Compared'
  BY <1>a, <1>c DEF Compared, ComparedAt, Others
<1>10. Alone'
  BY <1>a, <1>b DEF Alone, AloneAt, Asked, Others
<1>11. Fitting'
  <2>1. ASSUME NEW q \in Process \ {p}, calm'[q] PROVE FittingAt(q)'
    <3>1. pc'[q] = pc[q] /\ Engine(q)' = Engine(q) /\ Config(q)' = Config(q) /\ calm[q]
      BY <1>a, <2>1 DEF Others, Engine, Config
    <3>2. FALSE
      BY <3>1 DEF Alone, AloneAt
    <3> QED
      BY <3>2
  <2> QED
    BY <1>a, <2>1 DEF Fitting
<1> QED
  BY <1>1, <1>2, <1>3, <1>4, <1>5, <1>6, <1>7, <1>8, <1>9, <1>10, <1>11

\* Steps that leave every process where it is, and nobody calm.
Undisturbing == ProcessTypes' /\ (\A q \in Process : pc'[q] = pc[q] /\ call'[q] = call[q] /\ ~calm'[q])

LEMMA StaysPut ==
  ASSUME TypeInv, UNCHANGED <<pc, call>>, calm' = [q \in Process |-> FALSE]
  PROVE  Undisturbing
BY DEF TypeInv, Undisturbing, ProcessTypes

LEMMA AppOpenKeeps ==
  ASSUME IInv, NEW p \in Process, AppOpen(p)
  PROVE  IInv'
<1> USE ConstantNames, RootStates DEF IInv
<1>a. Undisturbing
  BY StaysPut DEF AppOpen
<1>b. pc[p] = "idle" /\ owner = NoProcess /\ file \in {"none", "app"} /\ file' = "app" /\ owner' = p /\ lent' = TRUE /\ root' = root
  BY DEF AppOpen
<1>c. \A q \in Process : pc[q] \notin Using
  BY <1>b DEF Holds
<1>1. TypeInv'
  BY <1>a, <1>b DEF TypeInv, ProcessTypes, Undisturbing
<1>2. CallInv'
  BY <1>a DEF CallInv, Asked, Engine, Config, ByPath, Undisturbing
<1>3. Holds'
  BY <1>a, <1>c DEF Holds, Undisturbing, Using
<1>4. Lends'
  BY <1>b DEF Lends
<1>5. NoPool'
  BY <1>a, <1>b, <1>c DEF NoPool, Undisturbing, Using
<1>6. Layouts'
  BY <1>a, <1>b, <1>c DEF Layouts, Placed, Using, Undisturbing
<1>7. NewRoot'
  BY <1>a, <1>b DEF NewRoot, Undisturbing
<1>8. MadeRoot'
  BY <1>a, <1>b, <1>c DEF MadeRoot, Placed, Using, Undisturbing
<1>9. Compared'
  BY <1>a, <1>c DEF Compared, ComparedAt, Using, Undisturbing
<1>10. Alone' /\ Fitting'
  BY <1>a DEF Alone, Fitting, Undisturbing
<1> QED
  BY <1>1, <1>2, <1>3, <1>4, <1>5, <1>6, <1>7, <1>8, <1>9, <1>10

LEMMA AppCloseKeeps ==
  ASSUME IInv, NEW p \in Process, AppClose(p)
  PROVE  IInv'
<1> USE ConstantNames, RootStates DEF IInv
<1>a. Undisturbing
  BY StaysPut DEF AppClose
<1>b. pc[p] = "idle" /\ owner = p /\ owner' = NoProcess /\ lent' = FALSE /\ UNCHANGED <<file, root>>
  BY DEF AppClose
<1>c. \A q \in Process : pc[q] \notin Using
  BY <1>b DEF Holds, Using
<1>1. TypeInv'
  BY <1>a, <1>b DEF TypeInv, ProcessTypes, Undisturbing
<1>2. CallInv'
  BY <1>a DEF CallInv, Asked, Engine, Config, ByPath, Undisturbing
<1>3. Holds'
  BY <1>a, <1>c DEF Holds, Undisturbing, Using
<1>4. Lends'
  BY <1>b DEF Lends
<1>5. NoPool'
  BY <1>a, <1>b DEF NoPool, Undisturbing
<1>6. Layouts'
  BY <1>a, <1>b, <1>c DEF Layouts, Placed, Using, Undisturbing
<1>7. NewRoot'
  BY <1>a, <1>b DEF NewRoot, Undisturbing
<1>8. MadeRoot'
  BY <1>a, <1>b, <1>c DEF MadeRoot, Placed, Using, Undisturbing
<1>9. Compared'
  BY <1>a, <1>c DEF Compared, ComparedAt, Using, Undisturbing
<1>10. Alone' /\ Fitting'
  BY <1>a DEF Alone, Fitting, Undisturbing
<1> QED
  BY <1>1, <1>2, <1>3, <1>4, <1>5, <1>6, <1>7, <1>8, <1>9, <1>10

LEMMA AppDeletesTornKeeps ==
  ASSUME IInv, AppDeletesTorn
  PROVE  IInv'
<1> USE ConstantNames, RootStates DEF IInv
<1>a. Undisturbing
  BY StaysPut DEF AppDeletesTorn
<1>b. file = "torn" /\ owner = NoProcess /\ file' = "none" /\ UNCHANGED <<root, owner, lent>>
  BY DEF AppDeletesTorn
<1>c. \A q \in Process : pc[q] \notin Using
  BY <1>b DEF Holds, Using
<1>1. TypeInv'
  BY <1>a, <1>b DEF TypeInv, ProcessTypes, Undisturbing
<1>2. CallInv'
  BY <1>a DEF CallInv, Asked, Engine, Config, ByPath, Undisturbing
<1>3. Holds'
  BY <1>a, <1>c DEF Holds, Undisturbing, Using
<1>4. Lends'
  BY <1>b DEF Lends
<1>5. NoPool'
  BY <1>a, <1>b, <1>c DEF NoPool, Undisturbing, Using
<1>6. Layouts'
  BY <1>a, <1>b, <1>c DEF Layouts, Placed, Using, Undisturbing
<1>7. NewRoot'
  BY <1>a, <1>b DEF NewRoot, Undisturbing
<1>8. MadeRoot'
  BY <1>a, <1>b, <1>c DEF MadeRoot, Placed, Using, Undisturbing
<1>9. Compared'
  BY <1>a, <1>c DEF Compared, ComparedAt, Using, Undisturbing
<1>10. Alone' /\ Fitting'
  BY <1>a DEF Alone, Fitting, Undisturbing
<1> QED
  BY <1>1, <1>2, <1>3, <1>4, <1>5, <1>6, <1>7, <1>8, <1>9, <1>10

\* A config without a fault gives a pool by its path or by an oid, and not both.
LEMMA PathOrOid ==
  ASSUME NEW e, NEW c, OpenFault(e, c) = "none"
  PROVE  /\ e \in Engines /\ c # NullConfig
         /\ Has(c, "path") <=> ~Has(c, "oid")
BY DEF OpenFault, ConfigFault, Has

LEMMA OpenCallRefusedKeeps ==
  ASSUME IInv, NEW p \in Process, NEW e \in Names, NEW c \in Configs, OpenCall(p, e, c), OpenFault(e, c) # "none"
  PROVE  IInv'
<1>a. Undisturbing
  <2>1. ~Fits(e, c)
    BY DEF Fits
  <2>2. UNCHANGED <<pc, call>>
    BY DEF OpenCall
  <2>3. calm' = [q \in Process |-> FALSE]
    BY <2>1 DEF OpenCall
  <2> QED
    BY <2>2, <2>3, StaysPut DEF IInv
<1>b. UNCHANGED <<file, root, owner, lent, pc, call>>
  BY DEF OpenCall
<1>1. TypeInv'
  BY <1>a, <1>b DEF IInv, TypeInv, Undisturbing, ProcessTypes
<1>2. CallInv' /\ Holds' /\ Lends' /\ NoPool' /\ Layouts' /\ NewRoot' /\ MadeRoot'
  BY <1>b DEF IInv, CallInv, Holds, Lends, NoPool, Layouts, NewRoot, MadeRoot, Engine, Config, ByPath
<1>3. Compared'
  BY <1>b DEF IInv, Compared, ComparedAt, Engine, Config
<1>4. Alone' /\ Fitting'
  BY <1>a DEF Alone, Fitting, Undisturbing
<1> QED
  BY <1>1, <1>2, <1>3, <1>4 DEF IInv

LEMMA OpenCallBeginsKeeps ==
  ASSUME IInv, NEW p \in Process, NEW e \in Names, NEW c \in Configs, OpenCall(p, e, c), OpenFault(e, c) = "none"
  PROVE  IInv'
<1> USE ConstantNames, RootStates DEF IInv
<1>0. e \in Engines /\ c # NullConfig /\ (Has(c, "path") <=> ~Has(c, "oid"))
  BY PathOrOid
<1>1. /\ pc[p] = "idle" /\ pc' = [pc EXCEPT ![p] = FirstStep(c)]
      /\ call' = [call EXCEPT ![p] = [engine |-> e, config |-> c]]
      /\ UNCHANGED <<file, root, owner, lent>>
  BY DEF OpenCall, At
<1>2. calm' = [q \in Process |-> q = p /\ Fits(e, c) /\ \A o \in Process : pc[o] = "idle"]
  BY DEF OpenCall
<1>f. /\ FirstStep(c) \in {"root", "create", "open"}
      /\ FirstStep(c) = "root" <=> Has(c, "oid")
      /\ FirstStep(c) = "create" => MustCreate(c)
      /\ FirstStep(c) = "open" => ~MustCreate(c)
  BY <1>0 DEF FirstStep
<1>3. [engine |-> e, config |-> c] \in CallType
  BY <1>0 DEF CallType
<1>a. /\ ProcessTypes'
      /\ \A q \in Process \ {p} : pc'[q] = pc[q] /\ call'[q] = call[q] /\ ~calm'[q]
      /\ pc'[p] = FirstStep(c) /\ Engine(p)' = e /\ Config(p)' = c
  BY <1>1, <1>2, <1>3, <1>f DEF TypeInv, ProcessTypes, Positions, Engine, Config
<1>b. FirstStep(c) = "root" => lent /\ owner = p /\ (root.state = "made" => root.engine = e)
  BY <1>0, <1>f DEF OpenCall, Vouched
<1>c. calm'[p] => Fits(e, c) /\ \A o \in Process : pc[o] = "idle"
  BY <1>2
<1>4. TypeInv'
  BY <1>a, <1>1 DEF TypeInv, ProcessTypes
<1>5. CallInv'
  BY <1>a, <1>0, <1>f DEF CallInv, Asked, Engine, Config, ByPath
<1>6. Holds'
  BY <1>a, <1>b, <1>0, <1>1, <1>f DEF Holds, Using, ByPath, Engine, Config
<1>7. Lends'
  BY <1>a, <1>1, <1>f DEF Lends, Using
<1>8. NoPool'
  BY <1>a, <1>1, <1>f DEF NoPool
<1>9. Layouts'
  BY <1>a, <1>0, <1>1, <1>f DEF Layouts, Placed, ByPath, Engine, Config
<1>10. NewRoot'
  BY <1>a, <1>1, <1>f DEF NewRoot
<1>11. MadeRoot'
  <2>1. FirstStep(c) = "root" => root.state # "new"
    BY <1>b, <1>1 DEF NewRoot, Holds, Using
  <2>2. FirstStep(c) = "root" /\ root.state # "null" => root.engine = e
    BY <2>1, <1>b DEF TypeInv
  <2> QED
    BY <2>2, <1>a, <1>1, <1>f, ZenonT(60) DEF MadeRoot, Placed, Engine
<1>12. Compared'
  <2>1. ASSUME NEW q \in Process \ {p} PROVE ComparedAt(q)'
    <3>1. pc'[q] = pc[q] /\ Engine(q)' = Engine(q) /\ Config(q)' = Config(q)
      BY <1>a DEF Engine, Config
    <3> QED
      BY <1>1, <3>1, ZenonT(30) DEF Compared, ComparedAt
  <2>2. ComparedAt(p)'
    BY <1>a, <1>f DEF ComparedAt
  <2> QED
    BY <2>1, <2>2 DEF Compared
<1>13. Alone'
  <2>1. calm'[p] => owner \in {NoProcess, p}
    BY <1>0, <1>b, <1>c, <1>f DEF Fits
  <2>2. calm'[p] => AloneAt(p)'
    BY <2>1, <1>a, <1>c, <1>1, <1>f DEF AloneAt, Asked
  <2> QED
    BY <2>2, <1>a DEF Alone
<1>14. Fitting'
  <2> SUFFICES ASSUME calm'[p] PROVE FittingAt(p)'
    BY <1>a DEF Fitting
  <2>1. Fits(e, c)
    BY <1>c
  <2>2. ComparatorFits(p)'
    BY <1>a, <1>1, <2>1 DEF ComparatorFits, Fits, MismatchFault
  <2>3. Has(c, "path") =>
          /\ owner = NoProcess
          /\ \/ file = e /\ ~MustCreate(c)
             \/ file = "none" /\ (MayCreate(c) \/ MustCreate(c)) /\ SizeFits(c)
    BY <1>0, <2>1 DEF Fits, SizeFits
  <2> QED
    BY <1>0, <1>a, <1>f, <1>1, <2>2, <2>3 DEF FittingAt
<1> QED
  BY <1>4, <1>5, <1>6, <1>7, <1>8, <1>9, <1>10, <1>11, <1>12, <1>13, <1>14

-----------------------------------------------------------------------------
(* The steps together.                                                     *)

LEMMA InitInv == PoolInit => IInv
<1> SUFFICES ASSUME PoolInit PROVE IInv
  OBVIOUS
<1> USE ConstantNames, RootStates, NoCallIsCall DEF PoolInit
<1>1. TypeInv
  BY DEF TypeInv, Positions
<1>2. CallInv /\ Holds /\ Lends /\ NoPool /\ Layouts /\ NewRoot /\ MadeRoot
  BY DEF CallInv, Asked, Holds, Using, Lends, NoPool, Layouts, Placed, NewRoot, MadeRoot
<1>3. Compared /\ Alone /\ Fitting
  BY DEF Compared, ComparedAt, Alone, Fitting
<1> QED
  BY <1>1, <1>2, <1>3 DEF IInv

LEMMA OpeningStepInv == ASSUME IInv, NEW p \in Process, OpeningStep(p) PROVE IInv'
<1>1. CASE \E e \in Names, c \in Configs : OpenCall(p, e, c)
  BY <1>1, OpenCallRefusedKeeps, OpenCallBeginsKeeps
<1>2. CASE OpenPool(p) \/ OpenLocked(p) \/ OpenInvalid(p)
  BY <1>2, OpenPoolKeeps, OpenLockedKeeps, OpenInvalidCreatesKeeps, OpenInvalidLeavesKeeps
<1>3. CASE CreateRefused(p) \/ CreateBegins(p) \/ CreateEnds(p) \/ CreateFails(p)
  BY <1>3, CreateRefusedKeeps, CreateBeginsKeeps, CreateEndsKeeps, CreateFailsKeeps
<1>4. CASE RootFound(p)
  <2>1. CASE (IF Engine(p) \in Compares THEN MismatchFault(Config(p)) ELSE "none") = "none"
    BY <1>4, <2>1, RootFoundFitsKeeps
  <2>2. CASE (IF Engine(p) \in Compares THEN MismatchFault(Config(p)) ELSE "none") # "none"
    BY <1>4, <2>2, RootFoundNotKeeps
  <2> QED
    BY <2>1, <2>2
<1>5. CASE RootMade(p) \/ RootCommitted(p) \/ RootFails(p)
  BY <1>5, RootMadeKeeps, RootCommittedKeeps, RootFailsKeeps
<1>6. CASE RootCompares(p)
  BY <1>6, RootComparesOkKeeps, RootComparesNotKeeps
<1>7. CASE AppOpen(p) \/ AppClose(p)
  BY <1>7, AppOpenKeeps, AppCloseKeeps
<1> QED
  BY <1>1, <1>2, <1>3, <1>4, <1>5, <1>6, <1>7 DEF OpeningStep

LEMMA PoolNextInv == IInv /\ PoolNext => IInv'
BY OpeningStepInv, AppDeletesTornKeeps, CloseKeeps, CrashOwnerKeeps, CrashOtherKeeps DEF PoolNext

\* A call that was calm up to its last step ends with OK.
LEMMA CalmEndsWell == ASSUME IInv, PoolNext PROVE FittingOpenSucceeds'
<1> USE DEF FittingOpenSucceeds, Nothing
<1>1. ASSUME NEW p \in Process, NEW e \in Names, NEW c \in Configs, OpenCall(p, e, c) PROVE FittingOpenSucceeds'
  BY <1>1 DEF OpenCall, Report
<1>2. ASSUME NEW p \in Process, OpenLocked(p) PROVE FittingOpenSucceeds'
  <2>1. returned'.calm = calm[p] /\ pc[p] = "open" /\ owner # NoProcess
    BY <1>2, Leaves DEF OpenLocked, IInv
  <2>2. ~calm[p]
    BY <2>1 DEF IInv, Fitting, FittingAt
  <2> QED
    BY <2>1, <2>2
<1>3. ASSUME NEW p \in Process, OpenInvalid(p) PROVE FittingOpenSucceeds'
  <2>1. CASE MayCreate(Config(p))
    BY <1>3, <2>1 DEF OpenInvalid
  <2>2. CASE ~MayCreate(Config(p))
    <3>1. returned'.calm = calm[p] /\ pc[p] = "open" /\ file # Engine(p)
      BY <1>3, <2>2, Leaves DEF OpenInvalid, IInv
    <3>2. ~calm[p]
      BY <2>2, <3>1 DEF IInv, Fitting, FittingAt
    <3> QED
      BY <3>1, <3>2
  <2> QED
    BY <2>1, <2>2
<1>4. ASSUME NEW p \in Process, CreateRefused(p) PROVE FittingOpenSucceeds'
  <2>1. returned'.calm = calm[p] /\ pc[p] = "create"
    BY <1>4, Leaves DEF CreateRefused, IInv
  <2>2. ASSUME calm[p] PROVE FALSE
    <3>1. file = "none" /\ SizeFits(Config(p)) /\ Config(p) \in Configs \ {NullConfig}
      BY <2>1, <2>2 DEF IInv, Fitting, FittingAt, CallInv, Asked
    <3>2. Config(p)["size"].value \in Nat /\ MinPool \in Nat
      BY <3>1, SizesAssumption DEF SizeFits, SizeFault
    <3>3. Config(p)["size"].value < MinPool
      BY <1>4, <3>1 DEF CreateRefused, SizeFits
    <3> QED
      BY <3>1, <3>2, <3>3 DEF SizeFits
  <2> QED
    BY <2>1, <2>2
<1>5. ASSUME NEW p \in Process, RootFound(p) PROVE FittingOpenSucceeds'
  <2> DEFINE fault == IF Engine(p) \in Compares THEN MismatchFault(Config(p)) ELSE "none"
  <2>1. CASE fault = "none"
    BY <1>5, <2>1 DEF RootFound, Succeed, Report
  <2>2. CASE fault # "none"
    <3>1. returned'.calm = calm[p] /\ pc[p] = "root" /\ root.state = "made"
      BY <1>5, <2>2, Leaves DEF RootFound, IInv
    <3>2. ~calm[p]
      BY <2>2, <3>1 DEF IInv, Fitting, FittingAt, ComparatorFits
    <3> QED
      BY <3>1, <3>2
  <2> QED
    BY <2>1, <2>2
<1>6. ASSUME NEW p \in Process, RootCompares(p) PROVE FittingOpenSucceeds'
  <2>1. CASE ComparatorFault(Config(p)) = "none"
    BY <1>6, <2>1 DEF RootCompares
  <2>2. CASE ComparatorFault(Config(p)) # "none"
    <3>1. returned'.calm = calm[p] /\ pc[p] = "compare"
      BY <1>6, <2>2, Leaves DEF RootCompares, IInv
    <3>2. ~calm[p]
      BY <2>2, <3>1 DEF IInv, Fitting, FittingAt
    <3> QED
      BY <3>1, <3>2
  <2> QED
    BY <2>1, <2>2
<1>7. ASSUME NEW p \in Process, RootCommitted(p) PROVE FittingOpenSucceeds'
  BY <1>7 DEF RootCommitted, Succeed, Report
<1>8. ASSUME NEW p \in Process, CreateFails(p) \/ RootFails(p) PROVE FittingOpenSucceeds'
  BY <1>8 DEF CreateFails, RootFails, Leave, Report
<1>9. ASSUME NEW p \in Process, OpenPool(p) \/ CreateBegins(p) \/ CreateEnds(p) \/ RootMade(p) \/ AppOpen(p) \/ AppClose(p)
                                \/ Close(p) \/ Crash(p)
      PROVE  FittingOpenSucceeds'
  BY <1>9 DEF OpenPool, CreateBegins, CreateEnds, RootMade, AppOpen, AppClose, Close, Crash
<1>10. CASE AppDeletesTorn
  BY <1>10 DEF AppDeletesTorn
<1> QED
  BY <1>1, <1>2, <1>3, <1>4, <1>5, <1>6, <1>7, <1>8, <1>9, <1>10 DEF PoolNext, OpeningStep

\* A step of Database opens, closes or loses a pool, or uses the records of an open one.
LEMMA NextIsPoolNext ==
  [Next]_vars => PoolNext \/ (UNCHANGED <<file, root, owner, lent, pc, call, calm>> /\ (returned' = Nothing \/ UNCHANGED returned))
BY DEF Next, Open, Use, CloseDatabase, ProcessEnds, PoolNext, vars, poolVars

LEMMA NextInv == IInv /\ FittingOpenSucceeds /\ [Next]_vars => IInv' /\ FittingOpenSucceeds'
<1> SUFFICES ASSUME IInv, FittingOpenSucceeds, [Next]_vars PROVE IInv' /\ FittingOpenSucceeds'
  OBVIOUS
<1>1. CASE PoolNext
  BY <1>1, PoolNextInv, CalmEndsWell
<1>2. CASE UNCHANGED <<file, root, owner, lent, pc, call, calm>> /\ (returned' = Nothing \/ UNCHANGED returned)
  <2>1. TypeInv' /\ CallInv' /\ Holds' /\ Lends' /\ NoPool' /\ Layouts' /\ NewRoot' /\ MadeRoot'
    BY <1>2 DEF IInv, TypeInv, CallInv, Holds, Lends, NoPool, Layouts, NewRoot, MadeRoot, Engine, Config, ByPath
  <2>2. Compared' /\ Alone'
    BY <1>2 DEF IInv, Compared, ComparedAt, Alone, AloneAt, Engine, Config
  <2>3. Fitting'
    BY <1>2 DEF IInv, Fitting, FittingAt, ComparatorFits, MismatchFault, Engine, Config
  <2>4. FittingOpenSucceeds'
    BY <1>2 DEF FittingOpenSucceeds, Nothing
  <2> QED
    BY <2>1, <2>2, <2>3, <2>4 DEF IInv
<1> QED
  BY <1>1, <1>2, NextIsPoolNext

LEMMA Always == Spec => [](IInv /\ FittingOpenSucceeds)
<1>1. Init => IInv /\ FittingOpenSucceeds
  BY InitInv DEF Init, PoolInit, FittingOpenSucceeds, Nothing
<1> QED
  BY <1>1, NextInv, PTL DEF Spec

\* Whatever processes open, crash and close on a path, and with whatever
\* configs: nobody holds the pool who does not use it, whoever uses it holds
\* it, and a root is unfinished only inside its transaction
\* (pmemobj_engine_base and pmemkv_open).
THEOREM PoolIsAlwaysReleased == Spec => []PoolIsReleased
<1>1. IInv => PoolIsReleased
  BY DEF IInv, PoolIsReleased, Holds, Lends, NewRoot
<1> QED
  BY <1>1, Always, PTL

\* An open database orders its records by the comparator they were stored
\* with, through a pointer to that of the process that has it open
\* (pmemobj_compare), for any set of configs, names and processes.
THEOREM OrderIsAlwaysKept == Spec => []OrderIsKept
<1>1. IInv => OrderIsKept
  <2> SUFFICES ASSUME IInv, NEW p \in Process, pc[p] = "up", Engine(p) \in Compares
               PROVE  /\ root.state = "made" /\ root.name # ""
                      /\ root.name = ComparatorName(Config(p)) /\ root.cmp = p
    BY DEF OrderIsKept
  <2>1. ComparedAt(p)
    BY DEF IInv, Compared
  <2> QED
    BY <2>1 DEF ComparedAt
<1> QED
  BY <1>1, Always, PTL

\* An open that fits what is at the path, with nobody else about, succeeds,
\* whatever happened there before, unless space runs out.
THEOREM FittingOpenAlwaysSucceeds == Spec => []FittingOpenSucceeds
BY Always, PTL

-----------------------------------------------------------------------------
(***************************************************************************)
(* The records of the open database.  At each step of a commit the map is  *)
(* what the operations or ranges replayed so far make of what the undo log *)
(* keeps.                                                                  *)
(***************************************************************************)

\* Every set of naturals has a least number.
WF == INSTANCE WellFoundedInduction

Strings == {v \in Seq(Bytes) : Len(v) <= MaxLen}
Record == Strings \cup {NoValue}
Operation == [key : Keys, value : Values \cup {NoValue}]

Applied(m, ops, n) == Abstract!Applied(m, ops, n)
Patched(v, ranges, n) == Abstract!Patched(v, ranges, n)

Types ==
  /\ map \in [Keys -> Record]
  /\ tx \in [open : BOOLEAN, log : Seq(Operation)]
  /\ it \in [kind : {"none", "read", "write"}, at : Places, log : Seq(RangeType)]
  /\ run \in [kind : {"none", "tx", "iter"}, next : Nat \ {0}, undo : [Keys -> Record]]

\* An iterator on a record is on one that is there.
Standing == it.at \in Keys => Stored[it.at] # NoValue

\* The map is what the operations replayed so far make of what was there.
Replaying ==
  run.kind = "tx" =>
    /\ run.next <= Len(tx.log) + 1
    /\ map = Applied(run.undo, tx.log, run.next - 1)

\* The same for the ranges that are copied.
Copying ==
  run.kind = "iter" =>
    /\ it.at \in Keys /\ it.kind = "write"
    /\ run.next <= Len(it.log) + 1
    /\ map = [run.undo EXCEPT ![it.at] = Patched(@, it.log, run.next - 1)]
    /\ map[it.at] \in Strings

\* What is wanted is what the ranges make of the record.
Wanted == wanted # NoValue => it.at \in Keys /\ wanted = Patched(Stored[it.at], it.log, Len(it.log))

SInv == Types /\ Standing /\ Replaying /\ Copying /\ Wanted

-----------------------------------------------------------------------------
(* The last of several.                                                    *)

Last(S) == CHOOSE i \in S : \A j \in S : j <= i

LEMMA LastIsThere ==
  ASSUME NEW n \in Nat, NEW S \in SUBSET (1 .. n), S # {}
  PROVE  Last(S) \in S /\ \A j \in S : j <= Last(S)
<1> DEFINE T == {n - i : i \in S}
<1>1. T \subseteq Nat /\ T # {}
  <2>1. \A i \in S : i \in 1 .. n /\ n - i \in Nat
    OBVIOUS
  <2> QED
    BY <2>1
<1>2. PICK x \in T : \A y \in T : <<y, x>> \notin WF!OpToRel(<, Nat)
  <2> HIDE DEF T
  <2> QED
    BY <1>1, WF!NatLessThanWellFounded, WF!WFMin, Zenon
<1>3. \A y \in T : ~(y < x)
  <2> SUFFICES ASSUME NEW y \in T, y < x PROVE FALSE
    OBVIOUS
  <2>1. <<y, x>> \in Nat \X Nat /\ <<y, x>>[1] = y /\ <<y, x>>[2] = x
    BY <1>1
  <2>2. <<y, x>> \in WF!OpToRel(<, Nat)
    BY <2>1 DEF WF!OpToRel
  <2> QED
    BY <2>2, <1>2
<1>4. PICK i \in S : x = n - i
  OBVIOUS
<1>5. ASSUME NEW j \in S PROVE j <= i
  <2>1. n - j \in T
    OBVIOUS
  <2>2. i \in Int /\ j \in Int
    OBVIOUS
  <2> QED
    BY <2>1, <2>2, <1>3, <1>4
<1> QED
  BY <1>5 DEF Last

LEMMA LastIsNew ==
  ASSUME NEW n \in Nat, NEW S \in SUBSET (1 .. n + 1), n + 1 \in S
  PROVE  Last(S) = n + 1
<1>1. S # {} /\ n + 1 \in Nat
  OBVIOUS
<1>2. Last(S) \in S /\ \A j \in S : j <= Last(S)
  BY <1>1, LastIsThere
<1>3. Last(S) \in 1 .. n + 1 /\ n + 1 <= Last(S)
  BY <1>2
<1> QED
  BY <1>3

-----------------------------------------------------------------------------
(* Operations and ranges, one after the other.                             *)

LEMMA ValuesAreRecords ==
  /\ Values \subseteq Strings /\ NoValue \notin Strings /\ Strings \subseteq Seq(Bytes)
  /\ \A v \in Strings : DOMAIN v = 1 .. Len(v) /\ Len(v) \in Nat /\ Len(v) <= MaxLen
BY ValuesAssumption, BoundsAssumption DEF Strings

On(ops, n, k) == {i \in 1 .. n : ops[i].key = k}

LEMMA AppliedIs ==
  ASSUME NEW m, NEW ops, NEW n
  PROVE  Applied(m, ops, n) = [k \in Keys |-> IF On(ops, n, k) = {} THEN m[k] ELSE ops[Last(On(ops, n, k))].value]
BY DEF Applied, Abstract!Applied, On, Last

LEMMA AppliedNone ==
  ASSUME NEW m \in [Keys -> Record], NEW ops
  PROVE  Applied(m, ops, 0) = m
<1>1. \A k \in Keys : On(ops, 0, k) = {}
  BY DEF On
<1>2. Applied(m, ops, 0) = [k \in Keys |-> m[k]]
  BY <1>1, AppliedIs
<1> QED
  BY <1>2

LEMMA AppliedOne ==
  ASSUME NEW m \in [Keys -> Record], NEW ops \in Seq(Operation), NEW n \in Nat, n + 1 <= Len(ops)
  PROVE  Applied(m, ops, n + 1) = Replay(Applied(m, ops, n), ops[n + 1])
<1> DEFINE Made(k, l) == IF On(ops, l, k) = {} THEN m[k] ELSE ops[Last(On(ops, l, k))].value
<1>1. \A l : Applied(m, ops, l) = [k \in Keys |-> Made(k, l)]
  BY AppliedIs
<1>2. ASSUME NEW k \in Keys, ops[n + 1].key # k PROVE Made(k, n + 1) = Made(k, n)
  <2>1. On(ops, n + 1, k) = On(ops, n, k)
    BY <1>2 DEF On
  <2> QED
    BY <2>1
<1>3. ASSUME NEW k \in Keys, ops[n + 1].key = k PROVE Made(k, n + 1) = ops[n + 1].value
  <2>1. n + 1 \in On(ops, n + 1, k) /\ On(ops, n + 1, k) \in SUBSET (1 .. n + 1)
    BY <1>3 DEF On
  <2>2. Last(On(ops, n + 1, k)) = n + 1
    BY <2>1, LastIsNew
  <2> QED
    BY <2>1, <2>2
<1> HIDE DEF Made
<1> QED
  BY <1>1, <1>2, <1>3 DEF Replay

Over(ranges, n, c) == {i \in 1 .. n : Covers(ranges[i], c)}

LEMMA PatchedIs ==
  ASSUME NEW v, NEW ranges, NEW n
  PROVE  Patched(v, ranges, n) =
           [c \in DOMAIN v |-> IF Over(ranges, n, c) = {} THEN v[c]
                               ELSE ranges[Last(Over(ranges, n, c))].data[c - ranges[Last(Over(ranges, n, c))].pos]]
BY DEF Patched, Abstract!Patched, Over, Last, Covers

LEMMA PatchedNone ==
  ASSUME NEW v \in Strings, NEW ranges
  PROVE  Patched(v, ranges, 0) = v
<1>1. \A c \in DOMAIN v : Over(ranges, 0, c) = {}
  BY DEF Over
<1>2. Patched(v, ranges, 0) = [c \in DOMAIN v |-> v[c]]
  BY <1>1, PatchedIs
<1> QED
  BY <1>2, ValuesAreRecords

LEMMA PatchedOne ==
  ASSUME NEW v, NEW ranges, NEW n \in Nat
  PROVE  Patched(v, ranges, n + 1) = Overwritten(Patched(v, ranges, n), ranges[n + 1])
<1> DEFINE Made(c, l) == IF Over(ranges, l, c) = {} THEN v[c]
                         ELSE ranges[Last(Over(ranges, l, c))].data[c - ranges[Last(Over(ranges, l, c))].pos]
<1>1. \A l : Patched(v, ranges, l) = [c \in DOMAIN v |-> Made(c, l)]
  BY PatchedIs
<1>2. ASSUME NEW c \in DOMAIN v, ~Covers(ranges[n + 1], c) PROVE Made(c, n + 1) = Made(c, n)
  <2>1. Over(ranges, n + 1, c) = Over(ranges, n, c)
    BY <1>2 DEF Over
  <2> QED
    BY <2>1
<1>3. ASSUME NEW c \in DOMAIN v, Covers(ranges[n + 1], c) PROVE Made(c, n + 1) = ranges[n + 1].data[c - ranges[n + 1].pos]
  <2>1. n + 1 \in Over(ranges, n + 1, c) /\ Over(ranges, n + 1, c) \in SUBSET (1 .. n + 1)
    BY <1>3 DEF Over
  <2>2. Last(Over(ranges, n + 1, c)) = n + 1
    BY <2>1, LastIsNew
  <2> QED
    BY <2>1, <2>2
<1> HIDE DEF Made
<1> QED
  BY <1>1, <1>2, <1>3 DEF Overwritten

\* Only the ranges that are copied matter.
LEMMA PatchedSame ==
  ASSUME NEW v, NEW ranges, NEW others, NEW n \in Nat, \A i \in 1 .. n : ranges[i] = others[i]
  PROVE  Patched(v, ranges, n) = Patched(v, others, n)
<1> DEFINE Byte(r, c) == IF Over(r, n, c) = {} THEN v[c] ELSE r[Last(Over(r, n, c))].data[c - r[Last(Over(r, n, c))].pos]
<1>1. ASSUME NEW c \in DOMAIN v PROVE Byte(ranges, c) = Byte(others, c)
  <2>1. Over(ranges, n, c) = Over(others, n, c) /\ Over(ranges, n, c) \in SUBSET (1 .. n)
    BY DEF Over
  <2>2. Over(ranges, n, c) # {} => Last(Over(ranges, n, c)) \in 1 .. n
    BY <2>1, LastIsThere
  <2> QED
    BY <2>1, <2>2
<1>2. Patched(v, ranges, n) = [c \in DOMAIN v |-> Byte(ranges, c)] /\ Patched(v, others, n) = [c \in DOMAIN v |-> Byte(others, c)]
  BY PatchedIs
<1> HIDE DEF Byte
<1> QED
  BY <1>1, <1>2

LEMMA OverwrittenIsRecord ==
  ASSUME NEW v \in Strings, NEW range \in RangeType
  PROVE  Overwritten(v, range) \in Strings /\ Len(Overwritten(v, range)) = Len(v)
<1>1. v \in [1 .. Len(v) -> Bytes] /\ Len(v) \in Nat /\ DOMAIN v = 1 .. Len(v)
  BY DEF Strings
<1>2. ASSUME NEW c \in 1 .. Len(v), Covers(range, c) PROVE range.data[c - range.pos] \in Bytes
  BY <1>2 DEF Covers, RangeType
<1>3. Overwritten(v, range) \in [1 .. Len(v) -> Bytes]
  BY <1>1, <1>2 DEF Overwritten
<1>4. Overwritten(v, range) \in Seq(Bytes) /\ Len(Overwritten(v, range)) = Len(v)
  BY <1>1, <1>3
<1> QED
  BY <1>4 DEF Strings

-----------------------------------------------------------------------------
(* Places.                                                                 *)

LEMMA LeastIsThere ==
  ASSUME NEW S \in SUBSET Keys
  PROVE  /\ S # {} => Least(S) \in S /\ \A j \in S : Least(S) <= j
         /\ S = {} => Least(S) = End
<1>1. S # {} => \E k \in S : \A j \in S : k <= j
  BY OrderAssumption
<1> QED
  BY <1>1 DEF Least

LEMMA GreatestIsThere ==
  ASSUME NEW S \in SUBSET Keys, S # {}
  PROVE  Greatest(S) \in S
<1>1. \E k \in S : \A j \in S : j <= k
  BY OrderAssumption
<1> QED
  BY <1>1 DEF Greatest

\* A place an iterator may be moved to.
Reachable(place) == place \in Present(map) \cup {End, Nowhere}

LEMMA PresentAreKeys == Present(map) \in SUBSET Keys /\ \A k \in Keys : k \in Present(map) <=> map[k] # NoValue
BY DEF Present

LEMMA BoundsAreReachable ==
  ASSUME NEW k
  PROVE  /\ LowerBound(k) \in Present(map) \cup {End} /\ UpperBound(k) \in Present(map) \cup {End}
         /\ Begin \in Present(map) \cup {End}
<1>1. {j \in Present(map) : j >= k} \in SUBSET Keys /\ {j \in Present(map) : j > k} \in SUBSET Keys
  BY PresentAreKeys
<1> QED
  BY <1>1, PresentAreKeys, LeastIsThere DEF LowerBound, UpperBound, Begin

LEMMA StepsBackAreReachable ==
  ASSUME NEW p \in Present(map) \cup {End}, p # Begin
  PROVE  Before(p) \in Present(map)
<1> DEFINE S == {j \in Present(map) : p = End \/ j < p}
<1>1. S \in SUBSET Keys
  BY PresentAreKeys
<1>2. S # {}
  <2>1. Begin \in Present(map) /\ (p \in Present(map) => Begin <= p)
    <3>1. Present(map) # {}
      BY PresentAreKeys, LeastIsThere DEF Begin
    <3> QED
      BY <3>1, PresentAreKeys, LeastIsThere DEF Begin
  <2>2. p \in Present(map) => Begin < p
    <3> SUFFICES ASSUME p \in Present(map) PROVE Begin < p
      OBVIOUS
    <3>1. Begin \in Int /\ p \in Int /\ Begin <= p
      BY <2>1, PresentAreKeys, KeysAssumption
    <3> HIDE DEF S
    <3> QED
      BY <3>1
  <2> QED
    BY <2>1, <2>2
<1>3. Greatest(S) \in S
  BY <1>1, <1>2, GreatestIsThere
<1> QED
  BY <1>3 DEF Before

LEMMA SeeksAreReachable ==
  ASSUME Standing, Idle, it.at \in Places, NEW how \in Seeks, NEW k \in Keys
  PROVE  Reachable(SeekTarget(how, k))
<1>1. LowerBound(k) \in Present(map) \cup {End} /\ UpperBound(k) \in Present(map) \cup {End} /\ Begin \in Present(map) \cup {End}
  BY BoundsAreReachable
<1>2. Reachable(StepBack(LowerBound(k))) /\ Reachable(StepBack(UpperBound(k)))
  BY <1>1, StepsBackAreReachable DEF StepBack, Reachable
<1>3. Reachable(it.at)
  BY PresentAreKeys DEF Standing, Stored, Reachable, Places
<1>4. Present(map) # {} => Begin # End /\ Before(End) \in Present(map)
  <2>1. Present(map) # {} => Begin \in Present(map)
    BY PresentAreKeys, LeastIsThere DEF Begin
  <2>2. Present(map) # {} => Begin # End
    BY <2>1, PresentAreKeys, KeysAssumption
  <2> QED
    BY <2>2, StepsBackAreReachable
<1>5. how \in {"seek", "lower", "lower_eq", "higher", "higher_eq", "first", "last"}
  BY DEF Seeks
<1> QED
  BY <1>1, <1>2, <1>3, <1>4, <1>5 DEF SeekTarget, Reachable

LEMMA PlacesKept ==
  ASSUME NEW m, NEW at, NEW ops
  PROVE  /\ PlacesAfter(m, at, ops) \subseteq {at, Nowhere}
         /\ at \in Keys /\ at \in PlacesAfter(m, at, ops) => \A i \in DOMAIN ops : ops[i].key = at => ops[i].value # NoValue
         /\ (\A i \in DOMAIN ops : ops[i].key # at) => PlacesAfter(m, at, ops) = {at}
<1>1. at \in Keys => at # Nowhere
  BY KeysAssumption
<1> QED
  BY <1>1 DEF PlacesAfter

-----------------------------------------------------------------------------
(* Every step keeps the invariant.                                         *)

LEMMA MovesKeepIt ==
  ASSUME SInv, Idle, NEW place, Reachable(place), MoveTo(place)
  PROVE  SInv'
<1> USE DEF SInv, MoveTo
<1>1. place \in Places /\ (place \in Keys => map[place] # NoValue)
  BY PresentAreKeys, KeysAssumption DEF Reachable, Places
<1>2. it' = [kind |-> it.kind, at |-> place, log |-> <<>>] /\ it'.at = place /\ it'.log = <<>>
  BY DEF Types
<1>3. Types'
  <2>1. <<>> \in Seq(RangeType) /\ it.kind \in {"none", "read", "write"}
    BY DEF Types
  <2>2. it' \in [kind : {"none", "read", "write"}, at : Places, log : Seq(RangeType)]
    BY <1>1, <1>2, <2>1
  <2> QED
    BY <2>2 DEF Types
<1>4. Stored' = map /\ Idle'
  BY DEF Stored, Idle
<1>5. Standing'
  BY <1>1, <1>2, <1>4 DEF Standing
<1>6. Replaying' /\ Copying'
  BY <1>4 DEF Idle, Replaying, Copying
<1>7. Wanted'
  <2> SUFFICES ASSUME place \in Keys PROVE wanted' = Patched(map[place], <<>>, 0)
    BY <1>2, <1>4 DEF Wanted
  <2>1. map[place] \in Strings
    BY <1>1 DEF Types, Record
  <2> QED
    BY <2>1, PatchedNone
<1> QED
  BY <1>3, <1>5, <1>6, <1>7

\* A put (v is a value) or a remove, outside the transaction.
Unlogged(k, v) ==
  /\ map' = [map EXCEPT ![k] = v]
  /\ \E p \in PlacesAfter(map, it.at, <<[key |-> k, value |-> v]>>) : it' = [it EXCEPT !.at = p]
  /\ wanted' = WantedAfter(<<[key |-> k, value |-> v]>>)
  /\ UNCHANGED <<tx, run>>

LEMMA WritesKeepIt ==
  ASSUME SInv, Idle, NEW k \in Keys, NEW v \in Values \cup {NoValue}, Unlogged(k, v)
  PROVE  SInv'
<1> DEFINE ops == <<[key |-> k, value |-> v]>>
<1> USE DEF SInv, Unlogged
<1>1. DOMAIN ops = {1} /\ ops[1].key = k /\ ops[1].value = v
  OBVIOUS
<1>2. PICK p \in PlacesAfter(map, it.at, ops) : it' = [it EXCEPT !.at = p]
  OBVIOUS
<1> HIDE DEF ops
<1>3. /\ p \in {it.at, Nowhere}
      /\ it.at = k /\ p = it.at => v # NoValue
      /\ it.at # k => p = it.at
  BY <1>1, <1>2, PlacesKept
<1>4. it' = [kind |-> it.kind, at |-> p, log |-> it.log]
  BY <1>2 DEF Types
<1>5. map' \in [Keys -> Record]
  BY ValuesAreRecords DEF Types, Record
<1>6. Types'
  <2>1. it' \in [kind : {"none", "read", "write"}, at : Places, log : Seq(RangeType)]
    BY <1>3, <1>4 DEF Types, Places
  <2> QED
    BY <1>5, <2>1 DEF Types
<1>7. Stored = map /\ Stored' = map' /\ Idle'
  BY DEF Stored, Idle
<1>8. Nowhere \notin Keys
  BY KeysAssumption
<1>9. Standing'
  BY <1>3, <1>4, <1>7, <1>8 DEF Standing, Types
<1>10. Replaying' /\ Copying'
  BY <1>7 DEF Idle, Replaying, Copying
<1>11. Wanted'
  <2>1. CASE it.at = k
    <3>1. wanted' = NoValue
      BY <1>1, <2>1 DEF WantedAfter, ops
    <3> QED
      BY <3>1 DEF Wanted
  <2>2. CASE it.at # k
    <3>1. wanted' = wanted
      BY <1>1, <2>2 DEF WantedAfter, ops
    <3>2. p = it.at /\ it'.at = it.at /\ it'.log = it.log
      BY <1>3, <1>4, <2>2
    <3>3. it.at \in Keys => map'[it.at] = map[it.at]
      BY <2>2 DEF Types
    <3> QED
      BY <1>7, <3>1, <3>2, <3>3 DEF Wanted
  <2> QED
    BY <2>1, <2>2
<1> QED
  BY <1>6, <1>9, <1>10, <1>11

LEMMA LogsKeepIt ==
  ASSUME SInv, Idle, tx' \in [open : BOOLEAN, log : Seq(Operation)], UNCHANGED <<map, it, run, wanted>>
  PROVE  SInv'
<1> USE DEF SInv
<1>1. Types'
  BY DEF Types
<1>2. Stored' = Stored /\ Idle'
  BY DEF Stored, Idle
<1>3. Standing' /\ Wanted'
  BY <1>2 DEF Standing, Wanted
<1>4. Replaying' /\ Copying'
  BY <1>2 DEF Idle, Replaying, Copying
<1> QED
  BY <1>1, <1>3, <1>4

LEMMA TransactionStepsKeepIt ==
  ASSUME SInv, TxBegin \/ TxAbort \/ TxEnd \/ \E k \in Keys : TxRemove(k) \/ \E v \in Values : TxPut(k, v)
  PROVE  SInv'
<1>1. /\ tx.open \in BOOLEAN /\ tx.log \in Seq(Operation) /\ <<>> \in Seq(Operation)
      /\ \A log : [tx EXCEPT !.log = log] = [open |-> tx.open, log |-> log]
  BY DEF SInv, Types
<1>2. CASE TxBegin \/ TxAbort \/ TxEnd
  <2>1. Idle /\ (\E open \in BOOLEAN : tx' = [open |-> open, log |-> <<>>]) /\ UNCHANGED <<map, it, run, wanted>>
    BY <1>1, <1>2 DEF TxBegin, TxAbort, TxEnd, NoTx
  <2>2. tx' \in [open : BOOLEAN, log : Seq(Operation)]
    BY <1>1, <2>1
  <2> QED
    BY <2>1, <2>2, LogsKeepIt
<1>3. ASSUME NEW k \in Keys, NEW v \in Values \cup {NoValue},
             Idle, tx' = [tx EXCEPT !.log = Append(tx.log, [key |-> k, value |-> v])], UNCHANGED <<map, it, run, wanted>>
      PROVE  SInv'
  <2>1. [key |-> k, value |-> v] \in Operation
    BY DEF Operation
  <2>2. tx' \in [open : BOOLEAN, log : Seq(Operation)]
    <3>1. Append(tx.log, [key |-> k, value |-> v]) \in Seq(Operation)
      BY <1>1, <2>1
    <3>2. tx' = [open |-> tx.open, log |-> Append(tx.log, [key |-> k, value |-> v])]
      BY <1>1, <1>3
    <3> QED
      BY <1>1, <3>1, <3>2
  <2> QED
    BY <1>3, <2>2, LogsKeepIt
<1> QED
  BY <1>2, <1>3 DEF TxRemove, TxPut

\* A commit begins: what the undo log keeps is what is stored.
LEMMA CommitsBegin ==
  ASSUME SInv, TxCommit \/ IterCommit
  PROVE  SInv'
<1> USE DEF SInv
<1>1. /\ Idle /\ UNCHANGED <<map, tx, it, wanted>>
      /\ run' \in [kind : {"none", "tx", "iter"}, next : Nat \ {0}, undo : [Keys -> Record]]
      /\ run'.undo = map /\ run'.next = 1 /\ run'.kind # "none"
  BY DEF TxCommit, IterCommit, Types
<1>2. Types'
  BY <1>1 DEF Types
<1>3. Stored' = Stored /\ Stored = map
  BY <1>1 DEF Stored, Idle
<1>4. Standing' /\ Wanted'
  BY <1>1, <1>3 DEF Standing, Wanted
<1>5. Replaying'
  <2>1. map = Applied(map, tx.log, 0)
    BY AppliedNone DEF Types
  <2>2. Len(tx.log) \in Nat
    BY DEF Types
  <2> QED
    BY <1>1, <2>1, <2>2 DEF Replaying
<1>6. Copying'
  <2> SUFFICES ASSUME run'.kind = "iter" PROVE Copying'
    BY DEF Copying
  <2>1. it.at \in Keys /\ it.kind = "write"
    BY DEF TxCommit, IterCommit
  <2>2. map[it.at] \in Strings
    BY <1>1, <2>1 DEF Standing, Stored, Types, Record
  <2>3. map = [map EXCEPT ![it.at] = Patched(@, it.log, 0)]
    <3>1. Patched(map[it.at], it.log, 0) = map[it.at]
      BY <2>2, PatchedNone
    <3> QED
      BY <3>1 DEF Types
  <2>4. Len(it.log) \in Nat
    BY DEF Types
  <2> QED
    BY <1>1, <2>1, <2>2, <2>3, <2>4 DEF Copying
<1> QED
  BY <1>2, <1>4, <1>5, <1>6

LEMMA ReplayKeepsIt ==
  ASSUME SInv, TxReplay
  PROVE  SInv'
<1> USE DEF SInv, TxReplay
<1>1. run.next \in Nat /\ run.next >= 1 /\ Len(tx.log) \in Nat /\ tx.log \in Seq(Operation)
  BY DEF Types
<1>2. tx.log[run.next] \in Operation
  BY <1>1
<1>3. run' = [kind |-> run.kind, next |-> run.next + 1, undo |-> run.undo]
  BY DEF Types
<1>4. map' \in [Keys -> Record]
  BY <1>2, ValuesAreRecords DEF Operation, Replay, Record, Types
<1>5. Types'
  <2>1. run' \in [kind : {"none", "tx", "iter"}, next : Nat \ {0}, undo : [Keys -> Record]]
    BY <1>1, <1>3 DEF Types
  <2> QED
    BY <1>4, <2>1 DEF Types
<1>6. Stored' = Stored
  BY <1>3 DEF Stored, Idle
<1>7. Standing' /\ Wanted'
  BY <1>6 DEF Standing, Wanted
<1>8. Replaying'
  <2>1. map = Applied(run.undo, tx.log, run.next - 1)
    BY DEF Replaying
  <2>2. map' = Applied(run.undo, tx.log, run.next - 1 + 1)
    <3>1. run.next - 1 \in Nat /\ run.next - 1 + 1 = run.next
      BY <1>1
    <3>2. run.undo \in [Keys -> Record]
      BY DEF Types
    <3> QED
      BY <1>1, <2>1, <3>1, <3>2, AppliedOne
  <2>3. run'.next - 1 = run.next - 1 + 1 /\ run'.next <= Len(tx.log) + 1
    BY <1>1, <1>3
  <2> QED
    BY <1>3, <2>2, <2>3 DEF Replaying
<1>9. Copying'
  BY <1>3 DEF Copying
<1> QED
  BY <1>5, <1>7, <1>8, <1>9

LEMMA CommittedKeepsIt ==
  ASSUME SInv, TxCommitted
  PROVE  SInv'
<1> USE DEF SInv, TxCommitted
<1> DEFINE n == Len(tx.log)
<1>1. n \in Nat /\ DOMAIN tx.log = 1 .. n /\ run.next = n + 1 /\ map = Applied(run.undo, tx.log, n)
  <2>1. Len(tx.log) \in Nat /\ run.next \in Nat /\ DOMAIN tx.log = 1 .. Len(tx.log)
    BY DEF Types
  <2>2. run.next = Len(tx.log) + 1
    BY <2>1 DEF Replaying
  <2> QED
    BY <2>1, <2>2 DEF Replaying
<1>2. PICK p \in PlacesAfter(run.undo, it.at, tx.log) : it' = [it EXCEPT !.at = p]
  OBVIOUS
<1>3. /\ p \in {it.at, Nowhere}
      /\ p = it.at /\ p \in Keys => \A i \in DOMAIN tx.log : tx.log[i].key = p => tx.log[i].value # NoValue
      /\ (\A i \in DOMAIN tx.log : tx.log[i].key # it.at) => p = it.at
  BY <1>2, PlacesKept
<1>4. it' = [kind |-> it.kind, at |-> p, log |-> it.log]
  BY <1>2 DEF Types
<1>5. run' = NotRunning /\ run'.kind = "none" /\ Idle' /\ Stored' = map /\ Stored = run.undo
  BY DEF NotRunning, Idle, Stored
<1>6. Types'
  <2>1. it' \in [kind : {"none", "read", "write"}, at : Places, log : Seq(RangeType)]
    BY <1>3, <1>4 DEF Types, Places
  <2>2. tx' \in [open : BOOLEAN, log : Seq(Operation)]
    <3>1. tx' = [open |-> tx.open, log |-> <<>>] /\ tx.open \in BOOLEAN /\ <<>> \in Seq(Operation)
      BY DEF Types
    <3> QED
      BY <3>1
  <2>3. run' \in [kind : {"none", "tx", "iter"}, next : Nat \ {0}, undo : [Keys -> Record]]
    BY <1>5 DEF NotRunning, Record
  <2> QED
    BY <2>1, <2>2, <2>3 DEF Types
<1>7. ASSUME NEW k \in Keys
      PROVE  map[k] = IF On(tx.log, n, k) = {} THEN run.undo[k] ELSE tx.log[Last(On(tx.log, n, k))].value
  BY <1>1, AppliedIs
<1>8. Standing'
  <2> SUFFICES ASSUME p \in Keys PROVE map[p] # NoValue
    BY <1>4, <1>5 DEF Standing
  <2>1. p = it.at
    BY <1>3, KeysAssumption
  <2>2. CASE On(tx.log, n, p) = {}
    BY <1>5, <1>7, <2>1, <2>2 DEF Standing
  <2>3. CASE On(tx.log, n, p) # {}
    <3>1. On(tx.log, n, p) \in SUBSET (1 .. n)
      BY DEF On
    <3>2. Last(On(tx.log, n, p)) \in On(tx.log, n, p)
      BY <1>1, <2>3, <3>1, LastIsThere
    <3>3. Last(On(tx.log, n, p)) \in DOMAIN tx.log /\ tx.log[Last(On(tx.log, n, p))].key = p
      BY <1>1, <3>2 DEF On
    <3> QED
      BY <1>3, <1>7, <2>1, <2>3, <3>3
  <2> QED
    BY <2>2, <2>3
<1>9. Replaying' /\ Copying'
  BY <1>5 DEF Replaying, Copying
<1>10. Wanted'
  <2> SUFFICES ASSUME wanted' # NoValue PROVE Wanted'
    BY DEF Wanted
  <2>1. wanted' = wanted /\ \A i \in DOMAIN tx.log : tx.log[i].key # it.at
    BY DEF WantedAfter
  <2>2. p = it.at /\ it'.at = it.at /\ it'.log = it.log
    BY <1>3, <1>4, <2>1
  <2>3. it.at \in Keys /\ wanted = Patched(run.undo[it.at], it.log, Len(it.log))
    BY <1>5, <2>1 DEF Wanted
  <2>4. map[it.at] = run.undo[it.at]
    <3>1. On(tx.log, n, it.at) = {}
      BY <1>1, <2>1 DEF On
    <3> QED
      BY <1>7, <2>3, <3>1
  <2> QED
    BY <1>5, <2>1, <2>2, <2>3, <2>4 DEF Wanted
<1> QED
  BY <1>6, <1>8, <1>9, <1>10

LEMMA RollbackKeepsIt ==
  ASSUME SInv, Rollback
  PROVE  SInv'
<1> USE DEF SInv, Rollback
<1>1. run' = NotRunning /\ run'.kind = "none" /\ Stored' = Stored
  BY DEF NotRunning, Idle, Stored
<1>2. Types'
  <2>1. run' \in [kind : {"none", "tx", "iter"}, next : Nat \ {0}, undo : [Keys -> Record]]
    BY <1>1 DEF NotRunning, Record
  <2> QED
    BY <2>1 DEF Types
<1> QED
  BY <1>1, <1>2 DEF Standing, Replaying, Copying, Wanted

LEMMA EndKeepsIt ==
  ASSUME SInv, SessionEnd
  PROVE  SInv'
<1> USE DEF SInv, SessionEnd
<1>1. run' = NotRunning /\ run'.kind = "none" /\ it' = NoIterator /\ it'.at = Nowhere /\ Nowhere \notin Keys
  BY KeysAssumption DEF NotRunning, NoIterator
<1>2. Types'
  <2>1. run' \in [kind : {"none", "tx", "iter"}, next : Nat \ {0}, undo : [Keys -> Record]]
    BY <1>1 DEF NotRunning, Record
  <2>2. it' \in [kind : {"none", "read", "write"}, at : Places, log : Seq(RangeType)]
    BY <1>1 DEF NoIterator, Places
  <2>3. tx' \in [open : BOOLEAN, log : Seq(Operation)]
    BY DEF NoTx
  <2>4. map' \in [Keys -> Record]
    BY DEF Types, Stored
  <2> QED
    BY <2>1, <2>2, <2>3, <2>4 DEF Types
<1> QED
  BY <1>1, <1>2 DEF Standing, Replaying, Copying, Wanted

\* What an iterator's steps outside a commit must show.
LEMMA IteratorStepsKeepIt ==
  ASSUME SInv, Idle, UNCHANGED <<map, tx, run>>,
         it' \in [kind : {"none", "read", "write"}, at : Places, log : Seq(RangeType)],
         it'.at \in {it.at, Nowhere},
         wanted' # NoValue => it'.at \in Keys /\ wanted' = Patched(map[it'.at], it'.log, Len(it'.log))
  PROVE  SInv'
<1> USE DEF SInv
<1>1. Types' /\ Idle' /\ Stored' = map /\ Stored = map
  BY DEF Types, Idle, Stored
<1>2. Standing'
  BY <1>1, KeysAssumption DEF Standing
<1>3. Wanted'
  BY <1>1 DEF Wanted
<1> QED
  BY <1>1, <1>2, <1>3 DEF Idle, Replaying, Copying

LEMMA IteratorsComeAndGo ==
  ASSUME SInv, IterDelete \/ \E kind \in {"read", "write"} : IterNew(kind)
  PROVE  SInv'
<1>1. it' \in [kind : {"none", "read", "write"}, at : Places, log : Seq(RangeType)] /\ it'.at = Nowhere
  <2>1. <<>> \in Seq(RangeType) /\ Nowhere \in Places
    BY DEF Places
  <2>2. \E kind \in {"none", "read", "write"} : it' = [kind |-> kind, at |-> Nowhere, log |-> <<>>]
    BY DEF IterDelete, IterNew, NoIterator
  <2> QED
    BY <2>1, <2>2
<1>2. Idle /\ UNCHANGED <<map, tx, run>> /\ wanted' = NoValue
  BY DEF IterDelete, IterNew
<1> QED
  BY <1>1, <1>2, IteratorStepsKeepIt

LEMMA AbortKeepsIt ==
  ASSUME SInv, IterAbort
  PROVE  SInv'
<1>1. it' = [kind |-> it.kind, at |-> it.at, log |-> <<>>] /\ it.kind \in {"none", "read", "write"} /\ it.at \in Places
  BY DEF SInv, Types, IterAbort
<1>2. it' \in [kind : {"none", "read", "write"}, at : Places, log : Seq(RangeType)]
  <2>1. <<>> \in Seq(RangeType)
    OBVIOUS
  <2> QED
    BY <1>1, <2>1
<1>3. it.at \in Keys => map[it.at] \in Strings
  BY DEF SInv, Types, Standing, Stored, Record, IterAbort
<1>4. it.at \in Keys => map[it.at] = Patched(map[it.at], <<>>, 0)
  BY <1>3, PatchedNone
<1>5. Idle /\ UNCHANGED <<map, tx, run>> /\ wanted' = IF it.at \in Keys THEN map[it.at] ELSE NoValue
  BY DEF IterAbort
<1>6. it'.at = it.at /\ it'.log = <<>> /\ Len(<<>>) = 0
  BY <1>1
<1> QED
  BY <1>2, <1>4, <1>5, <1>6, IteratorStepsKeepIt

LEMMA ClampedIs ==
  ASSUME NEW v \in Strings, NEW pos \in Nat, NEW n \in Nat, pos <= Len(v)
  PROVE  /\ Clamped(v, pos, n) \in Seq(Bytes)
         /\ \A i \in DOMAIN Clamped(v, pos, n) : i \in Nat /\ pos + i \in DOMAIN v /\ Clamped(v, pos, n)[i] = v[pos + i]
<1>1. v \in Seq(Bytes) /\ Len(v) \in Nat /\ DOMAIN v = 1 .. Len(v)
  BY DEF Strings
<1>2. PICK to \in Nat : pos <= to /\ to <= Len(v) /\ Clamped(v, pos, n) = SubSeq(v, pos + 1, to)
  BY <1>1 DEF Clamped
<1>3. SubSeq(v, pos + 1, to) = [i \in 1 .. to - pos |-> v[pos + i]]
  BY <1>1, <1>2
<1>4. SubSeq(v, pos + 1, to) \in Seq(Bytes)
  BY <1>1, <1>2
<1> QED
  BY <1>1, <1>2, <1>3, <1>4

LEMMA RangesKeepIt ==
  ASSUME SInv, NEW pos \in 0 .. MaxLen, NEW n \in 1 .. MaxLen, WriteRange(pos, n)
  PROVE  SInv'
<1> DEFINE v == map[it.at]
           range == [pos |-> pos, data |-> Clamped(v, pos, n)]
           l == Len(it.log)
<1>1. /\ Idle /\ it.at \in Keys /\ pos <= Len(v) /\ UNCHANGED <<map, tx, run>>
      /\ it' = [it EXCEPT !.log = Append(it.log, range)]
      /\ wanted' = IF \E i \in DOMAIN it.log : Overlap(it.log[i], range) THEN NoValue ELSE wanted
  BY DEF WriteRange
<1>2. v \in Strings /\ Stored = map
  BY <1>1 DEF SInv, Types, Standing, Stored, Record
<1>3. pos \in Nat /\ n \in Nat
  BY BoundsAssumption
<1>4. /\ Clamped(v, pos, n) \in Seq(Bytes)
      /\ \A i \in DOMAIN Clamped(v, pos, n) : i \in Nat /\ pos + i \in DOMAIN v /\ Clamped(v, pos, n)[i] = v[pos + i]
  BY <1>1, <1>2, <1>3, ClampedIs
<1>5. range \in RangeType /\ range.pos = pos /\ range.data = Clamped(v, pos, n)
  BY <1>3, <1>4 DEF RangeType
<1> HIDE DEF range
<1>6. /\ it.log \in Seq(RangeType) /\ l \in Nat /\ DOMAIN it.log = 1 .. l
      /\ Append(it.log, range) \in Seq(RangeType)
      /\ Len(Append(it.log, range)) = l + 1 /\ Append(it.log, range)[l + 1] = range
      /\ \A i \in 1 .. l : Append(it.log, range)[i] = it.log[i]
  BY <1>5 DEF SInv, Types
<1>7. it' = [kind |-> it.kind, at |-> it.at, log |-> Append(it.log, range)] /\ it.kind \in {"none", "read", "write"} /\ it.at \in Places
  BY <1>1 DEF SInv, Types
<1>8. it' \in [kind : {"none", "read", "write"}, at : Places, log : Seq(RangeType)]
  BY <1>6, <1>7
<1>9. ASSUME wanted' # NoValue PROVE wanted' = Patched(v, Append(it.log, range), l + 1)
  <2>1. wanted' = wanted /\ \A i \in 1 .. l : ~Overlap(it.log[i], range)
    BY <1>1, <1>6, <1>9
  <2>2. wanted = Patched(v, it.log, l)
    BY <1>2, <1>9, <2>1 DEF SInv, Wanted
  <2>3. Patched(v, Append(it.log, range), l) = Patched(v, it.log, l)
    BY <1>6, PatchedSame
  <2>4. Patched(v, Append(it.log, range), l + 1) = Overwritten(wanted, range)
    <3>1. l \in Nat => Patched(v, Append(it.log, range), l + 1) = Overwritten(Patched(v, Append(it.log, range), l), Append(it.log, range)[l + 1])
      BY PatchedOne, Zenon
    <3> QED
      BY <1>6, <2>2, <2>3, <3>1, Zenon
  <2>5. ASSUME NEW c \in DOMAIN v, Covers(range, c) PROVE wanted[c] = range.data[c - range.pos]
    <3>1. c \in 1 .. MaxLen
      BY <1>2, ValuesAreRecords, BoundsAssumption
    <3>2. \A i \in 1 .. l : ~Covers(it.log[i], c)
      BY <2>1, <2>5, <3>1 DEF Overlap
    <3>3. Over(it.log, l, c) = {}
      BY <3>2 DEF Over
    <3>4. wanted[c] = v[c]
      BY <2>2, <3>3, PatchedIs
    <3>5. c - pos \in DOMAIN Clamped(v, pos, n) /\ pos + (c - pos) = c
      BY <1>3, <1>5, <2>5, <3>1 DEF Covers
    <3> QED
      BY <1>4, <1>5, <3>4, <3>5
  <2>6. DOMAIN wanted = DOMAIN v /\ wanted = [c \in DOMAIN v |-> wanted[c]]
    BY <2>2, PatchedIs
  <2>7. Overwritten(wanted, range) = wanted
    BY <2>5, <2>6 DEF Overwritten
  <2> QED
    BY <2>1, <2>4, <2>7
<1>10. it'.at = it.at /\ it'.log = Append(it.log, range) /\ Len(it'.log) = l + 1
  BY <1>6, <1>7
<1> QED
  BY <1>1, <1>8, <1>9, <1>10, IteratorStepsKeepIt

LEMMA ByteChanged ==
  ASSUME NEW r \in RangeType, NEW c \in DOMAIN r.data, NEW b \in Bytes
  PROVE  /\ [r EXCEPT !.data[c] = b] = [pos |-> r.pos, data |-> [r.data EXCEPT ![c] = b]]
         /\ [r.data EXCEPT ![c] = b] \in Seq(Bytes) /\ Len([r.data EXCEPT ![c] = b]) = Len(r.data)
         /\ DOMAIN [r.data EXCEPT ![c] = b] = DOMAIN r.data
<1>1. r = [pos |-> r.pos, data |-> r.data] /\ r.data \in Seq(Bytes)
  BY DEF RangeType
<1>2. r.data \in [1 .. Len(r.data) -> Bytes] /\ Len(r.data) \in Nat /\ DOMAIN r.data = 1 .. Len(r.data)
  BY <1>1
<1>3. [r.data EXCEPT ![c] = b] \in [1 .. Len(r.data) -> Bytes]
  BY <1>2
<1>4. [r.data EXCEPT ![c] = b] \in Seq(Bytes) /\ Len([r.data EXCEPT ![c] = b]) = Len(r.data)
  BY <1>2, <1>3
<1>5. [r EXCEPT !.data[c] = b] = [r EXCEPT !.data = [r.data EXCEPT ![c] = b]]
  OBVIOUS
<1> QED
  BY <1>1, <1>2, <1>4, <1>5, SMTT(30)

\* What a modification makes of the log: only the last range changes, in one byte.
LEMMA ModifiedIs ==
  ASSUME SInv, NEW c \in 1 .. MaxLen, NEW b \in Bytes, Modify(c, b)
  PROVE  LET l == Len(it.log)
             last == it.log[l]
             now == [pos |-> last.pos, data |-> [last.data EXCEPT ![c] = b]]
         IN /\ l \in Nat /\ l >= 1 /\ last \in RangeType /\ now \in RangeType
            /\ DOMAIN now.data = DOMAIN last.data /\ Len(now.data) = Len(last.data)
            /\ c \in DOMAIN last.data
            /\ it' = [kind |-> it.kind, at |-> it.at, log |-> [it.log EXCEPT ![l] = now]]
            /\ [it.log EXCEPT ![l] = now] \in Seq(RangeType)
            /\ Len([it.log EXCEPT ![l] = now]) = l /\ [it.log EXCEPT ![l] = now][l] = now
            /\ \A i \in 1 .. l - 1 : [it.log EXCEPT ![l] = now][i] = it.log[i]
<1> DEFINE l == Len(it.log)
           last == it.log[l]
           now == [pos |-> last.pos, data |-> [last.data EXCEPT ![c] = b]]
           log == [it.log EXCEPT ![l] = now]
<1>1. it.log \in Seq(RangeType) /\ it.log # <<>>
  BY DEF SInv, Types, Modify
<1>2. l \in Nat /\ l >= 1 /\ DOMAIN it.log = 1 .. l
  BY <1>1
<1>3. last \in RangeType
  BY <1>1, <1>2
<1>4. last = [pos |-> last.pos, data |-> last.data] /\ last.pos \in Nat /\ last.data \in Seq(Bytes)
  BY <1>3 DEF RangeType
<1>5. c \in DOMAIN last.data /\ it' = [it EXCEPT !.log[Len(it.log)].data[c] = b]
  BY DEF Modify
<1>6. [last EXCEPT !.data[c] = b] = now
  <2> HIDE DEF last
  <2> QED
    BY <1>3, <1>5, ByteChanged
<1>7. it' = [it EXCEPT !.log = [it.log EXCEPT ![l] = [last EXCEPT !.data[c] = b]]]
  BY <1>5
<1>8. [last.data EXCEPT ![c] = b] \in Seq(Bytes) /\ Len([last.data EXCEPT ![c] = b]) = Len(last.data)
      /\ DOMAIN [last.data EXCEPT ![c] = b] = DOMAIN last.data
  BY <1>3, <1>5, ByteChanged
<1>9. now \in RangeType /\ now.data = [last.data EXCEPT ![c] = b]
  BY <1>4, <1>8 DEF RangeType
<1>10. it' = [kind |-> it.kind, at |-> it.at, log |-> log]
  BY <1>6, <1>7 DEF SInv, Types
<1> HIDE DEF now
<1>11. log \in Seq(RangeType) /\ Len(log) = l /\ log[l] = now /\ \A i \in 1 .. l - 1 : log[i] = it.log[i]
  BY <1>1, <1>2, <1>9
<1> QED
  BY <1>2, <1>3, <1>5, <1>8, <1>9, <1>10, <1>11 DEF now

LEMMA ModificationsKeepIt ==
  ASSUME SInv, NEW c \in 1 .. MaxLen, NEW b \in Bytes, Modify(c, b)
  PROVE  SInv'
<1> DEFINE v == map[it.at]
           l == Len(it.log)
           last == it.log[l]
           now == [pos |-> last.pos, data |-> [last.data EXCEPT ![c] = b]]
           log == [it.log EXCEPT ![l] = now]
<1>1. /\ l \in Nat /\ l >= 1 /\ last \in RangeType /\ now \in RangeType
      /\ DOMAIN now.data = DOMAIN last.data /\ c \in DOMAIN last.data
      /\ it' = [kind |-> it.kind, at |-> it.at, log |-> log]
      /\ log \in Seq(RangeType) /\ Len(log) = l /\ log[l] = now
      /\ \A i \in 1 .. l - 1 : log[i] = it.log[i]
  BY ModifiedIs
<1>2. Idle /\ UNCHANGED <<map, tx, run>> /\ wanted' = IF wanted = NoValue THEN NoValue ELSE [wanted EXCEPT ![last.pos + c] = b]
  BY DEF Modify
<1>3. now.pos = last.pos /\ now.data = [last.data EXCEPT ![c] = b] /\ last.pos \in Nat
  BY <1>1 DEF RangeType
<1> HIDE DEF now, log
<1>4. it' \in [kind : {"none", "read", "write"}, at : Places, log : Seq(RangeType)] /\ it'.at = it.at /\ it'.log = log
  BY <1>1 DEF SInv, Types
<1>5. ASSUME wanted # NoValue PROVE it.at \in Keys /\ wanted' = Patched(v, log, l)
  <2> DEFINE before == Patched(v, it.log, l - 1)
  <2>1. it.at \in Keys /\ wanted = Patched(v, it.log, l)
    BY <1>2, <1>5 DEF SInv, Wanted, Stored
  <2>2. l - 1 \in Nat /\ l - 1 + 1 = l
    BY <1>1
  <2>3. Patched(v, it.log, l) = Overwritten(before, last)
    <3>1. Patched(v, it.log, l - 1 + 1) = Overwritten(Patched(v, it.log, l - 1), it.log[l - 1 + 1])
      BY <2>2, PatchedOne
    <3> QED
      BY <2>2, <3>1
  <2>4. Patched(v, log, l) = Overwritten(before, now)
    <3>1. Patched(v, log, l - 1 + 1) = Overwritten(Patched(v, log, l - 1), log[l - 1 + 1])
      BY <2>2, PatchedOne
    <3>2. Patched(v, log, l - 1) = before
      BY <1>1, <2>2, PatchedSame
    <3> QED
      BY <1>1, <2>2, <3>1, <3>2
  <2> HIDE DEF before
  <2>5. wanted = [d \in DOMAIN before |-> IF Covers(last, d) THEN last.data[d - last.pos] ELSE before[d]]
    BY <2>1, <2>3 DEF Overwritten
  <2>6. Overwritten(before, now) = [d \in DOMAIN before |-> IF Covers(now, d) THEN now.data[d - now.pos] ELSE before[d]]
    BY DEF Overwritten
  <2>7. DOMAIN before \subseteq Int
    <3>1. DOMAIN before = DOMAIN v
      BY PatchedIs DEF before
    <3>2. v \in Strings
      BY <1>2, <2>1 DEF SInv, Types, Standing, Stored, Record
    <3> QED
      BY <3>1, <3>2, ValuesAreRecords
  <2>8. ASSUME NEW d \in DOMAIN before
        PROVE  (IF Covers(now, d) THEN now.data[d - now.pos] ELSE before[d])
                 = IF d = last.pos + c THEN b ELSE IF Covers(last, d) THEN last.data[d - last.pos] ELSE before[d]
    <3>1. Covers(now, d) <=> Covers(last, d)
      BY <1>1, <1>3 DEF Covers
    <3>2. d \in Int
      BY <2>7
    <3>3. d = last.pos + c <=> d - last.pos = c
      BY <1>3, <3>2
    <3>4. CASE d = last.pos + c
      <4>1. Covers(last, d) /\ now.data[d - now.pos] = b
        BY <1>1, <1>3, <3>3, <3>4 DEF Covers
      <4> QED
        BY <3>1, <3>4, <4>1
    <3>5. CASE d # last.pos + c
      <4>1. Covers(last, d) => now.data[d - now.pos] = last.data[d - last.pos]
        BY <1>3, <3>3, <3>5 DEF Covers
      <4> QED
        BY <3>1, <3>5, <4>1
    <3> QED
      BY <3>4, <3>5
  <2>9. wanted' = [wanted EXCEPT ![last.pos + c] = b]
    BY <1>2, <1>5
  <2>10. wanted' = Overwritten(before, now)
    BY <2>5, <2>6, <2>8, <2>9
  <2> QED
    BY <2>1, <2>4, <2>10
<1>6. wanted = NoValue => wanted' = NoValue
  BY <1>2
<1> HIDE DEF v, l
<1>7. wanted' # NoValue => it.at \in Keys /\ wanted' = Patched(v, log, l)
  BY <1>5, <1>6
<1> QED
  BY <1>1, <1>2, <1>4, <1>7, IteratorStepsKeepIt DEF v

LEMMA CopyKeepsIt ==
  ASSUME SInv, IterCopy
  PROVE  SInv'
<1> DEFINE range == it.log[run.next]
<1>1. /\ run.kind = "iter" /\ run.next <= Len(it.log) /\ UNCHANGED <<tx, it, wanted>>
      /\ map' = [map EXCEPT ![it.at] = Overwritten(map[it.at], range)]
      /\ run' = [run EXCEPT !.next = run.next + 1]
  BY DEF IterCopy
<1>2. run.next \in Nat /\ run.next >= 1 /\ Len(it.log) \in Nat /\ it.log \in Seq(RangeType)
  BY DEF SInv, Types
<1>3. range \in RangeType
  BY <1>1, <1>2
<1>4. run' = [kind |-> run.kind, next |-> run.next + 1, undo |-> run.undo]
  BY <1>1 DEF SInv, Types
<1>5. /\ it.at \in Keys /\ it.kind = "write" /\ map[it.at] \in Strings
      /\ map = [run.undo EXCEPT ![it.at] = Patched(run.undo[it.at], it.log, run.next - 1)]
  BY <1>1 DEF SInv, Copying
<1>6. Overwritten(map[it.at], range) \in Strings
  BY <1>3, <1>5, OverwrittenIsRecord
<1>7. map \in [Keys -> Record] /\ run.undo \in [Keys -> Record]
  BY DEF SInv, Types
<1>8. map' \in [Keys -> Record] /\ map'[it.at] \in Strings
  BY <1>1, <1>5, <1>6, <1>7 DEF Record
<1>9. Types'
  <2>1. run' \in [kind : {"none", "tx", "iter"}, next : Nat \ {0}, undo : [Keys -> Record]]
    BY <1>2, <1>4 DEF SInv, Types
  <2> QED
    BY <1>1, <1>8, <2>1 DEF SInv, Types
<1>10. Stored' = Stored
  BY <1>1, <1>4 DEF Stored, Idle
<1>11. Standing' /\ Wanted' /\ Replaying'
  BY <1>1, <1>4, <1>10 DEF SInv, Standing, Wanted, Replaying
<1>12. Copying'
  <2>1. run.next - 1 \in Nat /\ run.next - 1 + 1 = run.next /\ run'.next - 1 = run.next /\ run'.next <= Len(it.log) + 1
    BY <1>1, <1>2, <1>4
  <2>2. Patched(run.undo[it.at], it.log, run.next - 1 + 1) = Overwritten(Patched(run.undo[it.at], it.log, run.next - 1), it.log[run.next - 1 + 1])
    BY <2>1, PatchedOne
  <2>3. Patched(run.undo[it.at], it.log, run.next) = Overwritten(map[it.at], range)
    BY <1>5, <1>7, <2>1, <2>2
  <2>4. map' = [run.undo EXCEPT ![it.at] = Patched(run.undo[it.at], it.log, run.next)]
    BY <1>1, <1>5, <1>7, <2>3
  <2> QED
    BY <1>1, <1>4, <1>5, <1>8, <2>1, <2>4 DEF Copying
<1> QED
  BY <1>9, <1>11, <1>12 DEF SInv

\* At the end of a commit the map is the one it promised.
LEMMA CopiedIs ==
  ASSUME SInv, IterCommitted
  PROVE  /\ run.kind = "iter" /\ it.at \in Keys /\ it.kind = "write" /\ map[it.at] \in Strings /\ UNCHANGED <<map, tx>>
         /\ map = [run.undo EXCEPT ![it.at] = Patched(run.undo[it.at], it.log, Len(it.log))]
         /\ it' = [kind |-> it.kind, at |-> it.at, log |-> <<>>]
         /\ run' = NotRunning /\ wanted' = map[it.at]
<1>1. run.kind = "iter" /\ run.next > Len(it.log) /\ UNCHANGED <<map, tx>> /\ run' = NotRunning /\ wanted' = map'[it.at] /\ it' = [it EXCEPT !.log = <<>>]
  BY DEF IterCommitted
<1>2. run.next = Len(it.log) + 1
  <2>1. run.next \in Nat /\ Len(it.log) \in Nat /\ run.next <= Len(it.log) + 1
    BY <1>1 DEF SInv, Types, Copying
  <2> QED
    BY <1>1, <2>1
<1>3. run.next - 1 = Len(it.log)
  BY <1>2 DEF SInv, Types
<1> QED
  BY <1>1, <1>3 DEF SInv, Types, Copying

LEMMA CopiedKeepsIt ==
  ASSUME SInv, IterCommitted
  PROVE  SInv'
<1>1. /\ run.kind = "iter" /\ it.at \in Keys /\ map[it.at] \in Strings /\ UNCHANGED <<map, tx>>
      /\ it' = [kind |-> it.kind, at |-> it.at, log |-> <<>>]
      /\ run' = NotRunning /\ wanted' = map[it.at]
  BY CopiedIs
<1>2. run'.kind = "none" /\ Idle' /\ Stored' = map /\ it'.at = it.at /\ it'.log = <<>> /\ Len(<<>>) = 0
  BY <1>1 DEF NotRunning, Idle, Stored
<1>3. Types'
  <2>1. run' \in [kind : {"none", "tx", "iter"}, next : Nat \ {0}, undo : [Keys -> Record]]
    BY <1>1 DEF NotRunning, Record
  <2>2. <<>> \in Seq(RangeType) /\ it.kind \in {"none", "read", "write"} /\ it.at \in Places
    BY DEF SInv, Types
  <2>3. it' \in [kind : {"none", "read", "write"}, at : Places, log : Seq(RangeType)]
    BY <1>1, <2>2
  <2> QED
    BY <1>1, <2>1, <2>3 DEF SInv, Types
<1>4. Standing'
  BY <1>1, <1>2, ValuesAreRecords DEF Standing
<1>5. Wanted'
  BY <1>1, <1>2, PatchedNone DEF Wanted
<1> QED
  BY <1>2, <1>3, <1>4, <1>5 DEF SInv, Replaying, Copying

LEMMA InitHasIt == SessionInit => SInv
<1> SUFFICES ASSUME SessionInit PROVE SInv
  OBVIOUS
<1>1. /\ map = Empty /\ tx = [open |-> FALSE, log |-> <<>>] /\ it = [kind |-> "none", at |-> Nowhere, log |-> <<>>]
      /\ run = NotRunning /\ run.kind = "none" /\ wanted = NoValue
  BY DEF SessionInit, NoTx, NoIterator, NotRunning
<1>2. Types
  <2>1. map \in [Keys -> Record] /\ run \in [kind : {"none", "tx", "iter"}, next : Nat \ {0}, undo : [Keys -> Record]]
    BY <1>1 DEF NotRunning, Record, Empty
  <2>2. <<>> \in Seq(Operation) /\ <<>> \in Seq(RangeType) /\ Nowhere \in Places
    BY DEF Places
  <2>3. tx \in [open : BOOLEAN, log : Seq(Operation)] /\ it \in [kind : {"none", "read", "write"}, at : Places, log : Seq(RangeType)]
    BY <1>1, <2>2
  <2> QED
    BY <2>1, <2>3 DEF Types
<1>3. it.at \notin Keys
  BY <1>1, KeysAssumption
<1> QED
  BY <1>1, <1>2, <1>3 DEF SInv, Standing, Replaying, Copying, Wanted

LEMMA SeeksAndStepsKeepIt ==
  ASSUME SInv, IterNext \/ IterPrev \/ \E how \in Seeks, k \in Keys : IterSeek(how, k)
  PROVE  SInv' /\ \E place : MoveTo(place)
<1>1. Idle /\ Standing /\ it.at \in Places
  BY DEF SInv, Types, IterNext, IterPrev, IterSeek
<1>2. it.at \in Present(map) \cup {End, Nowhere}
  BY <1>1, PresentAreKeys DEF Standing, Stored, Places
<1>3. ASSUME NEW how \in Seeks, NEW k \in Keys, IterSeek(how, k) PROVE Reachable(SeekTarget(how, k)) /\ MoveTo(SeekTarget(how, k))
  BY <1>1, <1>3, SeeksAreReachable DEF IterSeek
<1>4. CASE IterNext
  <2> DEFINE place == IF it.at = End THEN End ELSE After(it.at)
  <2>1. MoveTo(place) /\ Reachable(place)
    BY <1>4, BoundsAreReachable DEF IterNext, After, Reachable
  <2> QED
    BY <1>1, <2>1, MovesKeepIt
<1>5. CASE IterPrev
  <2> DEFINE place == IF it.at = Begin THEN it.at ELSE Before(it.at)
  <2>1. it.at \in Present(map) \cup {End}
    BY <1>2, <1>5 DEF IterPrev
  <2>2. MoveTo(place) /\ Reachable(place)
    BY <1>5, <2>1, StepsBackAreReachable DEF IterPrev, Reachable
  <2> QED
    BY <1>1, <2>2, MovesKeepIt
<1> QED
  BY <1>1, <1>3, <1>4, <1>5, MovesKeepIt

LEMMA StepsKeepIt == SInv /\ [SessionNext]_sessionVars => SInv'
<1> SUFFICES ASSUME SInv, [SessionNext]_sessionVars PROVE SInv'
  OBVIOUS
<1>1. CASE UNCHANGED sessionVars
  BY <1>1 DEF sessionVars, SInv, Types, Standing, Replaying, Copying, Wanted, Stored, Idle
<1>2. ASSUME NEW k \in Keys, NEW v \in Values, Put(k, v) PROVE SInv'
  BY <1>2, WritesKeepIt DEF Put, Unlogged
<1>3. ASSUME NEW k \in Keys, RemoveKey(k) PROVE SInv'
  BY <1>3, WritesKeepIt DEF RemoveKey, Unlogged
<1>4. ASSUME NEW pos \in 0 .. MaxLen, NEW n \in 1 .. MaxLen, WriteRange(pos, n) PROVE SInv'
  BY <1>4, RangesKeepIt
<1>5. ASSUME NEW c \in 1 .. MaxLen, NEW b \in Bytes, Modify(c, b) PROVE SInv'
  BY <1>5, ModificationsKeepIt
<1>6. CASE TxBegin \/ TxAbort \/ TxEnd \/ \E k \in Keys : TxRemove(k) \/ \E v \in Values : TxPut(k, v)
  BY <1>6, TransactionStepsKeepIt
<1>7. CASE TxCommit \/ IterCommit
  BY <1>7, CommitsBegin
<1>8. CASE TxReplay \/ TxCommitted \/ Rollback \/ SessionEnd
  BY <1>8, ReplayKeepsIt, CommittedKeepsIt, RollbackKeepsIt, EndKeepsIt
<1>9. CASE IterDelete \/ \E kind \in {"read", "write"} : IterNew(kind)
  BY <1>9, IteratorsComeAndGo
<1>10. CASE IterNext \/ IterPrev \/ \E how \in Seeks, k \in Keys : IterSeek(how, k)
  BY <1>10, SeeksAndStepsKeepIt
<1>11. CASE IterAbort \/ IterCopy \/ IterCommitted
  BY <1>11, AbortKeepsIt, CopyKeepsIt, CopiedKeepsIt
<1> QED
  BY <1>1, <1>2, <1>3, <1>4, <1>5, <1>6, <1>7, <1>8, <1>9, <1>10, <1>11 DEF SessionNext, SessionStep

\* In Database the steps of others leave the records alone.
LEMMA DatabaseSteps == [Next]_vars => [SessionNext]_sessionVars
BY DEF Next, Open, Use, CloseDatabase, ProcessEnds, SessionNext, vars

\* In every state of Database a commit under way has done exactly its part,
\* and the iterator stands on a record that is there.
THEOREM SessionInvariant == Spec => []SInv
<1>1. Init => SInv
  BY InitHasIt DEF Init
<1>2. SInv /\ [Next]_vars => SInv'
  BY StepsKeepIt, DatabaseSteps
<1> QED
  BY <1>1, <1>2, PTL DEF Spec

-----------------------------------------------------------------------------
(* What the invariant is for.                                              *)

\* An iterator's commit changes the record it is on into what the
\* application made of it and nothing else, whatever comes between its
\* ranges and its end (radix_iterator::write_range and commit).
THEOREM EditsAreAlwaysCommitted == Spec => EditsAreCommitted
<1> DEFINE Ended == run.kind = "iter" /\ run'.kind = "none" /\ it'.kind = "write" /\ it'.log = <<>> /\ it.log # <<>> /\ wanted # NoValue
           Exact == Ended => map' = [run.undo EXCEPT ![it.at] = wanted]
<1>1. SInv /\ [Next]_vars => [Exact]_sessionVars
  <2> SUFFICES ASSUME SInv, [SessionNext]_sessionVars, Ended PROVE map' = [run.undo EXCEPT ![it.at] = wanted] \/ UNCHANGED sessionVars
    BY DatabaseSteps
  <2>1. CASE IterCommitted
    <3>1. wanted = Patched(run.undo[it.at], it.log, Len(it.log))
      BY DEF SInv, Wanted, Stored, Idle
    <3> QED
      BY <2>1, <3>1, CopiedIs
  <2>2. ~Idle /\ run'.kind # run.kind /\ it'.log # it.log
    BY DEF Idle
  <2>3. ~SessionEnd
    BY DEF SessionEnd, NoIterator
  <2>4. ~Rollback
    BY <2>2 DEF Rollback
  <2>5. ~TxReplay /\ ~TxCommitted /\ ~IterCopy
    BY <2>2 DEF TxReplay, TxCommitted, IterCopy
  <2> QED
    BY <2>1, <2>2, <2>3, <2>4, <2>5
    DEF SessionNext, SessionStep, Put, TxPut, RemoveKey, TxRemove, TxBegin, TxAbort, TxEnd, TxCommit, IterNew, IterSeek, IterDelete,
        IterNext, IterPrev, WriteRange, Modify, IterAbort, IterCommit
<1> QED
  BY <1>1, SessionInvariant, PTL DEF Spec, EditsAreCommitted

-----------------------------------------------------------------------------
(* Database implements TxMap.                                              *)

\* Where the iterator's draft is, after it lost its place or dropped its ranges.
LEMMA DraftIs ==
  /\ it.at \notin Keys => Draft = Abstract!NoDraft
  /\ it.at \in Keys => Draft = [at |-> it.at, ranges |-> it.log]
  /\ NoKey \notin Keys /\ Nowhere \notin Keys /\ End \notin Keys
BY KeysAssumption DEF Draft, Abstract!NoDraft

LEMMA InitIsInit == SessionInit => Abstract!Init
BY DraftIs DEF SessionInit, NoTx, NoIterator, NotRunning, Abstract!Init, Stored, Idle, Empty

LEMMA WritesAreWrites ==
  ASSUME SInv, Idle, NEW k \in Keys, NEW v \in Values \cup {NoValue}, Unlogged(k, v)
  PROVE  Abstract!Write
<1>1. Stored = map /\ Stored' = map' /\ map' = [map EXCEPT ![k] = v] /\ tx' = tx
  BY DEF Unlogged, Stored, Idle
<1>2. PICK p \in PlacesAfter(map, it.at, <<[key |-> k, value |-> v]>>) : it' = [it EXCEPT !.at = p]
  BY DEF Unlogged
<1>3. p \in {it.at, Nowhere}
  BY <1>2, PlacesKept
<1>4. it' = [kind |-> it.kind, at |-> p, log |-> it.log]
  BY <1>2 DEF SInv, Types
<1>5. Draft' \in {Draft, Abstract!NoDraft}
  BY <1>3, <1>4, DraftIs DEF Draft, Abstract!NoDraft
<1> QED
  BY <1>1, <1>5 DEF Abstract!Write

LEMMA MovesAreMoves ==
  ASSUME SInv, Idle, NEW kind, NEW place, it' = [kind |-> kind, at |-> place, log |-> <<>>], UNCHANGED <<map, tx, run>>
  PROVE  Abstract!Move
<1>1. Stored' = Stored
  BY DEF Stored, Idle
<1>2. it'.at = place /\ it'.log = <<>>
  OBVIOUS
<1>3. Draft' = [at |-> IF place \in Keys THEN place ELSE NoKey, ranges |-> <<>>]
  BY <1>2 DEF Draft
<1> QED
  BY <1>1, <1>3 DEF Abstract!Move

LEMMA RangesAreRanges ==
  ASSUME SInv, NEW pos \in 0 .. MaxLen, NEW n \in 1 .. MaxLen, WriteRange(pos, n)
  PROVE  Abstract!Range
<1> DEFINE range == [pos |-> pos, data |-> Clamped(map[it.at], pos, n)]
<1>1. Idle /\ it.at \in Keys /\ it' = [it EXCEPT !.log = Append(it.log, range)] /\ UNCHANGED <<map, tx, run>>
  BY DEF WriteRange
<1> HIDE DEF range
<1>2. it' = [kind |-> it.kind, at |-> it.at, log |-> Append(it.log, range)] /\ it.log \in Seq(RangeType)
  BY <1>1 DEF SInv, Types
<1>3. Len(Append(it.log, range)) = Len(it.log) + 1 /\ \A i \in DOMAIN it.log : Append(it.log, range)[i] = it.log[i]
  BY <1>2
<1>4. Draft = [at |-> it.at, ranges |-> it.log] /\ Draft' = [at |-> it.at, ranges |-> Append(it.log, range)]
  BY <1>1, <1>2 DEF Draft
<1>5. Stored' = Stored
  BY <1>1 DEF Stored, Idle
<1> QED
  BY <1>1, <1>3, <1>4, <1>5 DEF Abstract!Range

LEMMA ModificationsAreEdits ==
  ASSUME SInv, NEW c \in 1 .. MaxLen, NEW b \in Bytes, Modify(c, b)
  PROVE  Abstract!Edit
<1> DEFINE l == Len(it.log)
           last == it.log[l]
           now == [pos |-> last.pos, data |-> [last.data EXCEPT ![c] = b]]
           log == [it.log EXCEPT ![l] = now]
<1>1. /\ Len(now.data) = Len(last.data) /\ now.pos = last.pos
      /\ it' = [kind |-> it.kind, at |-> it.at, log |-> log]
      /\ DOMAIN log = DOMAIN it.log /\ log[l] = now
      /\ \A i \in DOMAIN it.log : i # l => log[i] = it.log[i]
  <2>1. Len(now.data) = Len(last.data) /\ it' = [kind |-> it.kind, at |-> it.at, log |-> log] /\ log[l] = now
    BY ModifiedIs
  <2> QED
    BY <2>1
<1>2. Idle /\ UNCHANGED <<map, tx, run>>
  BY DEF Modify
<1>3. Stored' = Stored
  BY <1>2 DEF Stored, Idle
<1> HIDE DEF now, log
<1>4. \A i \in DOMAIN it.log : log[i].pos = it.log[i].pos /\ Len(log[i].data) = Len(it.log[i].data)
  BY <1>1
<1>5. CASE it.at \in Keys
  <2>1. Draft = [at |-> it.at, ranges |-> it.log] /\ Draft' = [at |-> it.at, ranges |-> log]
    BY <1>1, <1>5 DEF Draft
  <2> QED
    BY <1>1, <1>2, <1>3, <1>4, <2>1 DEF Abstract!Edit
<1>6. CASE it.at \notin Keys
  <2>1. Draft = [at |-> NoKey, ranges |-> <<>>] /\ Draft' = [at |-> NoKey, ranges |-> <<>>]
    BY <1>1, <1>6 DEF Draft
  <2> QED
    BY <1>2, <1>3, <2>1 DEF Abstract!Edit
<1> QED
  BY <1>5, <1>6

LEMMA CommittedIsCommit ==
  ASSUME SInv, TxCommitted
  PROVE  Abstract!Commit
<1>1. run.kind = "tx" /\ run.next > Len(tx.log) /\ run' = NotRunning /\ map' = map
  BY DEF TxCommitted
<1>2. run.next - 1 = Len(tx.log) /\ map = Applied(run.undo, tx.log, run.next - 1)
  <2>1. run.next \in Nat /\ Len(tx.log) \in Nat /\ run.next <= Len(tx.log) + 1
    BY <1>1 DEF SInv, Types, Replaying
  <2>2. map = Applied(run.undo, tx.log, run.next - 1)
    BY <1>1 DEF SInv, Replaying
  <2> QED
    BY <1>1, <2>1, <2>2
<1>3. Stored = run.undo /\ Stored' = map
  BY <1>1 DEF Stored, Idle, NotRunning
<1>4. PICK p \in PlacesAfter(run.undo, it.at, tx.log) : it' = [it EXCEPT !.at = p]
  BY DEF TxCommitted
<1>5. p \in {it.at, Nowhere}
  BY <1>4, PlacesKept
<1>6. it' = [kind |-> it.kind, at |-> p, log |-> it.log]
  BY <1>4 DEF SInv, Types
<1>7. Draft' \in {Draft, Abstract!NoDraft}
  BY <1>5, <1>6, DraftIs DEF Draft, Abstract!NoDraft
<1>8. tx'.log = <<>>
  BY DEF TxCommitted, SInv, Types
<1>9. Stored' = Abstract!Applied(Stored, tx.log, Len(tx.log))
  BY <1>2, <1>3 DEF Applied
<1> QED
  BY <1>7, <1>8, <1>9 DEF Abstract!Commit

LEMMA CopiedIsCommitDraft ==
  ASSUME SInv, IterCommitted
  PROVE  Abstract!CommitDraft
<1>1. /\ run.kind = "iter" /\ it.at \in Keys /\ UNCHANGED <<map, tx>>
      /\ map = [run.undo EXCEPT ![it.at] = Patched(run.undo[it.at], it.log, Len(it.log))]
      /\ it' = [kind |-> it.kind, at |-> it.at, log |-> <<>>] /\ run' = NotRunning
  BY CopiedIs
<1>2. Stored = run.undo /\ Stored' = map
  BY <1>1 DEF Stored, Idle, NotRunning
<1>3. Draft = [at |-> it.at, ranges |-> it.log] /\ Draft' = [at |-> it.at, ranges |-> <<>>]
  BY <1>1 DEF Draft
<1>4. Stored' = [Stored EXCEPT ![it.at] = Abstract!Patched(Stored[it.at], it.log, Len(it.log))]
  BY <1>1, <1>2 DEF Patched
<1> QED
  BY <1>1, <1>3, <1>4 DEF Abstract!CommitDraft

\* Beginnings, copies and rollbacks of commits change nothing that is stored.
LEMMA OthersStutter ==
  ASSUME SInv, TxCommit \/ IterCommit \/ TxReplay \/ IterCopy \/ Rollback \/ UNCHANGED sessionVars
  PROVE  UNCHANGED <<Stored, tx.log, Draft>>
<1>1. tx' = tx /\ it' = it
  BY DEF TxCommit, IterCommit, TxReplay, IterCopy, Rollback, sessionVars
<1>2. run.kind # "none" => Stored = run.undo
  BY DEF Stored, Idle
<1>3. CASE TxCommit \/ IterCommit
  <2>1. run.kind = "none" /\ run'.kind # "none" /\ run'.undo = map
    BY <1>3 DEF TxCommit, IterCommit, Idle
  <2> QED
    BY <1>1, <2>1 DEF Stored, Idle, Draft
<1>4. CASE TxReplay \/ IterCopy
  <2>1. run'.kind = run.kind /\ run'.undo = run.undo /\ run.kind # "none"
    BY <1>4 DEF TxReplay, IterCopy, SInv, Types
  <2> QED
    BY <1>1, <2>1 DEF Stored, Idle, Draft
<1>5. CASE Rollback \/ UNCHANGED sessionVars
  BY <1>5 DEF Rollback, sessionVars, Stored, Idle, NotRunning, Draft
<1> QED
  BY <1>1, <1>3, <1>4, <1>5 DEF Draft

LEMMA TransactionStepsAreSteps ==
  ASSUME SInv, TxBegin \/ TxAbort \/ TxEnd \/ \E k \in Keys : TxRemove(k) \/ \E v \in Values : TxPut(k, v)
  PROVE  Abstract!Add \/ Abstract!Discard
<1>1. Stored' = Stored /\ Draft' = Draft
  BY DEF TxBegin, TxAbort, TxEnd, TxRemove, TxPut, Stored, Idle, Draft
<1>2. CASE TxBegin \/ TxAbort \/ TxEnd
  <2>1. tx'.log = <<>>
    BY <1>2 DEF TxBegin, TxAbort, TxEnd, NoTx, SInv, Types
  <2> QED
    BY <1>1, <2>1 DEF Abstract!Discard
<1>3. ASSUME NEW k \in Keys, NEW v \in Values \cup {NoValue}, tx' = [tx EXCEPT !.log = Append(tx.log, [key |-> k, value |-> v])]
      PROVE  Abstract!Add
  <2>1. tx'.log = Append(tx.log, [key |-> k, value |-> v])
    BY <1>3 DEF SInv, Types
  <2> QED
    BY <1>1, <2>1 DEF Abstract!Add
<1> QED
  BY <1>2, <1>3 DEF TxRemove, TxPut

LEMMA StepsAreSteps == SInv /\ [SessionNext]_sessionVars => Abstract!Next \/ UNCHANGED <<Stored, tx.log, Draft>>
<1> SUFFICES ASSUME SInv, [SessionNext]_sessionVars PROVE Abstract!Next \/ UNCHANGED <<Stored, tx.log, Draft>>
  OBVIOUS
<1> USE DEF Abstract!Next
<1>1. ASSUME NEW k \in Keys, NEW v \in Values, Put(k, v) PROVE Abstract!Next
  BY <1>1, WritesAreWrites DEF Put, Unlogged
<1>2. ASSUME NEW k \in Keys, RemoveKey(k) PROVE Abstract!Next
  BY <1>2, WritesAreWrites DEF RemoveKey, Unlogged
<1>3. ASSUME NEW pos \in 0 .. MaxLen, NEW n \in 1 .. MaxLen, WriteRange(pos, n) PROVE Abstract!Next
  BY <1>3, RangesAreRanges
<1>4. ASSUME NEW c \in 1 .. MaxLen, NEW b \in Bytes, Modify(c, b) PROVE Abstract!Next
  BY <1>4, ModificationsAreEdits
<1>5. CASE TxBegin \/ TxAbort \/ TxEnd \/ \E k \in Keys : TxRemove(k) \/ \E v \in Values : TxPut(k, v)
  BY <1>5, TransactionStepsAreSteps
<1>6. CASE TxCommitted \/ IterCommitted
  BY <1>6, CommittedIsCommit, CopiedIsCommitDraft
<1>7. CASE TxCommit \/ IterCommit \/ TxReplay \/ IterCopy \/ Rollback \/ UNCHANGED sessionVars
  BY <1>7, OthersStutter
<1>8. CASE IterDelete \/ IterAbort \/ \E kind \in {"read", "write"} : IterNew(kind)
  <2>1. Idle /\ (\E kind, place : it' = [kind |-> kind, at |-> place, log |-> <<>>]) /\ UNCHANGED <<map, tx, run>>
    <3>1. IterAbort => it' = [kind |-> it.kind, at |-> it.at, log |-> <<>>]
      BY DEF IterAbort, SInv, Types
    <3> QED
      BY <1>8, <3>1 DEF IterDelete, IterAbort, IterNew, NoIterator
  <2> QED
    BY <2>1, MovesAreMoves
<1>9. CASE IterNext \/ IterPrev \/ \E how \in Seeks, k \in Keys : IterSeek(how, k)
  <2>1. PICK place : MoveTo(place)
    BY <1>9, SeeksAndStepsKeepIt
  <2>2. it' = [kind |-> it.kind, at |-> place, log |-> <<>>] /\ UNCHANGED <<map, tx, run>>
    BY <2>1 DEF MoveTo, SInv, Types
  <2>3. Idle
    BY <1>9 DEF IterNext, IterPrev, IterSeek
  <2> QED
    BY <2>2, <2>3, MovesAreMoves
<1>10. CASE SessionEnd
  <2>1. Stored' = Stored /\ tx'.log = <<>> /\ it'.at = Nowhere
    BY <1>10 DEF SessionEnd, Stored, Idle, NotRunning, NoTx, NoIterator
  <2>2. Draft' = Abstract!NoDraft
    BY <2>1, DraftIs DEF Draft, Abstract!NoDraft
  <2> QED
    BY <2>1, <2>2 DEF Abstract!Down
<1> QED
  BY <1>1, <1>2, <1>3, <1>4, <1>5, <1>6, <1>7, <1>8, <1>9, <1>10 DEF SessionNext, SessionStep

\* Transactions and iterators keep what libpmemkv_tx(3) and
\* libpmemkv_iterator(3) promise: their commits are one atomic step each,
\* also when memory runs out, the pool is closed or the process ends in the
\* middle of one (radix transaction::commit and radix_iterator::commit).
THEOREM DatabaseImplementsTxMap == Spec => ImplementsTxMap
<1>1. Init => Abstract!Init
  BY InitIsInit DEF Init
<1>2. SInv /\ [Next]_vars => [Abstract!Next]_<<Stored, tx.log, Draft>>
  BY StepsAreSteps, DatabaseSteps
<1>3. SInv /\ [Next]_vars => [Abstract!Next]_(Abstract!mapVars)
  BY <1>2 DEF Abstract!mapVars
<1> QED
  BY <1>1, <1>3, SessionInvariant, PTL DEF Spec, ImplementsTxMap, Abstract!Spec

-----------------------------------------------------------------------------
(* The queries.                                                            *)

LEMMA KeysAreFinite == IsFiniteSet(Keys)
<1>1. CASE Keys = {}
  BY <1>1, FS_EmptySet
<1>2. CASE Keys # {}
  <2>1. PICK a \in Keys : \A j \in Keys : a <= j
    BY <1>2, OrderAssumption
  <2>2. PICK b \in Keys : \A j \in Keys : j <= b
    BY <1>2, OrderAssumption
  <2>3. a \in Int /\ b \in Int /\ Keys \in SUBSET (a .. b)
    BY <2>1, <2>2, KeysAssumption
  <2>4. IsFiniteSet(a .. b)
    BY <2>3, FS_Interval
  <2> QED
    BY <2>3, <2>4, FS_Subset
<1> QED
  BY <1>1, <1>2

LEMMA PartIsOrdered ==
  ASSUME NEW S \in SUBSET Keys
  PROVE  Orders(ByKey, S)
<1>1. IsFiniteSet(S)
  BY KeysAreFinite, FS_Subset
<1>2. \A k \in S : ByKey[k] = k /\ k \in Int
  BY KeysAssumption DEF ByKey
<1> QED
  BY <1>1, <1>2 DEF Orders

\* The records from some bound on.  Every bound of a query is the first record of such a set.
Upward(U) == U \in SUBSET Present(map) /\ \A j \in U, k \in Present(map) : j <= k => k \in U

LEMMA AheadOfUpward ==
  ASSUME NEW U, Upward(U)
  PROVE  Ahead(Least(U)) = U
<1>1. Present(map) \in SUBSET Keys /\ End \notin Present(map) /\ \A k \in Present(map) : k \in Int
  BY KeysAssumption DEF Present
<1>2. CASE U = {}
  BY <1>2 DEF Ahead, Least
<1>3. CASE U # {}
  <2>1. Least(U) \in U /\ \A j \in U : Least(U) <= j
    BY <1>1, <1>3, LeastIsThere DEF Upward
  <2>2. \A k \in Present(map) : k \in U <=> k >= Least(U)
    BY <1>1, <2>1 DEF Upward
  <2> QED
    BY <1>1, <2>1, <2>2 DEF Ahead, Upward
<1> QED
  BY <1>2, <1>3

LEMMA VisitedIs ==
  ASSUME NEW U, NEW V, Upward(U), Upward(V), V \subseteq U
  PROVE  Visited(Least(U), Least(V)) = U \ V
BY AheadOfUpward DEF Visited

\* A query is exact when it walks the records it is to report.
LEMMA AnswersAre ==
  ASSUME NEW S \in SUBSET Keys, NEW get, \A stops \in SUBSET Keys : get[stops] = Walk(S, ByKey, stops)
  PROVE  Answers(Cardinality(S), get, S)
<1>1. Orders(ByKey, S)
  BY PartIsOrdered
<1> QED
  BY <1>1, WalkReports DEF Answers

LEMMA NothingReported ==
  ASSUME NEW get, NEW S, S = {}, \A stops \in SUBSET Keys : get[stops] = [status |-> "OK", seen |-> <<>>]
  PROVE  Answers(0, get, S)
<1>1. Cardinality({}) = 0
  BY FS_EmptySet
<1>2. ASSUME NEW stops \in SUBSET Keys PROVE Reports(get[stops], S, ByKey, stops)
  <2>1. get[stops].status = "OK" /\ get[stops].seen = <<>> /\ Len(<<>>) = 0 /\ DOMAIN <<>> = {}
    BY <1>2
  <2>2. {k \in S : ~\E j \in S \cap stops : ByKey[j] < ByKey[k]} = {} /\ S \cap stops = {}
    OBVIOUS
  <2>3. {get[stops].seen[n] : n \in DOMAIN get[stops].seen} = {}
    BY <2>1
  <2> QED
    BY <1>1, <2>1, <2>2, <2>3 DEF Reports
<1> QED
  BY <1>1, <1>2 DEF Answers

LEMMA BoundsAre ==
  ASSUME NEW k \in Bounds
  PROVE  /\ Upward({j \in Present(map) : j >= k}) /\ LowerBound(k) = Least({j \in Present(map) : j >= k})
         /\ Upward({j \in Present(map) : j > k}) /\ UpperBound(k) = Least({j \in Present(map) : j > k})
         /\ Present(map) \ {j \in Present(map) : j >= k} = {j \in Present(map) : j < k}
         /\ Present(map) \ {j \in Present(map) : j > k} = {j \in Present(map) : j <= k}
<1>1. k \in Int /\ \A j \in Present(map) : j \in Int
  BY BoundsAssumption, KeysAssumption DEF Present
<1>2. Upward({j \in Present(map) : j >= k}) /\ Upward({j \in Present(map) : j > k})
  BY <1>1 DEF Upward
<1>3. /\ Present(map) \ {j \in Present(map) : j >= k} = {j \in Present(map) : j < k}
      /\ Present(map) \ {j \in Present(map) : j > k} = {j \in Present(map) : j <= k}
  BY <1>1
<1> QED
  BY <1>2, <1>3 DEF LowerBound, UpperBound

LEMMA EndsAre ==
  Upward({}) /\ Least({}) = End /\ Upward(Present(map)) /\ Least(Present(map)) = Begin
BY DEF Upward, Least, Begin

LEMMA QueriesOfOneBound ==
  ASSUME NEW k \in Bounds
  PROVE  /\ Answers(CountAbove(k), [stops \in SUBSET Keys |-> GetAbove(k, stops)], {j \in Present(map) : j > k})
         /\ Answers(CountEqualAbove(k), [stops \in SUBSET Keys |-> GetEqualAbove(k, stops)],
                    {j \in Present(map) : j >= k})
         /\ Answers(CountEqualBelow(k), [stops \in SUBSET Keys |-> GetEqualBelow(k, stops)],
                    {j \in Present(map) : j <= k})
         /\ Answers(CountBelow(k), [stops \in SUBSET Keys |-> GetBelow(k, stops)], {j \in Present(map) : j < k})
<1> DEFINE From == {j \in Present(map) : j >= k}
           Above == {j \in Present(map) : j > k}
           Under == {j \in Present(map) : j < k}
           UpTo == {j \in Present(map) : j <= k}
<1>1. /\ Upward(From) /\ LowerBound(k) = Least(From) /\ Present(map) \ From = Under
      /\ Upward(Above) /\ UpperBound(k) = Least(Above) /\ Present(map) \ Above = UpTo
  BY BoundsAre
<1>2. From \in SUBSET Present(map) /\ Above \in SUBSET Present(map) /\ Under \in SUBSET Keys /\ UpTo \in SUBSET Keys
      /\ From \in SUBSET Keys /\ Above \in SUBSET Keys
  BY DEF Present
<1> HIDE DEF From, Above, Under, UpTo
<1>3. /\ Visited(UpperBound(k), End) = Above /\ Visited(LowerBound(k), End) = From
      /\ Visited(Begin, UpperBound(k)) = UpTo /\ Visited(Begin, LowerBound(k)) = Under
  <2>1. Visited(Least(Above), Least({})) = Above \ {} /\ Visited(Least(From), Least({})) = From \ {}
    BY <1>1, EndsAre, VisitedIs
  <2>2. /\ Visited(Least(Present(map)), Least(Above)) = Present(map) \ Above
        /\ Visited(Least(Present(map)), Least(From)) = Present(map) \ From
    BY <1>1, <1>2, EndsAre, VisitedIs
  <2> QED
    BY <1>1, <2>1, <2>2, EndsAre
<1>4. Answers(CountAbove(k), [stops \in SUBSET Keys |-> GetAbove(k, stops)], Above)
  BY <1>2, <1>3, AnswersAre DEF CountAbove, GetAbove, Distance, Iterate
<1>5. Answers(CountEqualAbove(k), [stops \in SUBSET Keys |-> GetEqualAbove(k, stops)], From)
  BY <1>2, <1>3, AnswersAre DEF CountEqualAbove, GetEqualAbove, Distance, Iterate
<1>6. Answers(CountEqualBelow(k), [stops \in SUBSET Keys |-> GetEqualBelow(k, stops)], UpTo)
  BY <1>2, <1>3, AnswersAre DEF CountEqualBelow, GetEqualBelow, Distance, Iterate
<1>7. Answers(CountBelow(k), [stops \in SUBSET Keys |-> GetBelow(k, stops)], Under)
  BY <1>2, <1>3, AnswersAre DEF CountBelow, GetBelow, Distance, Iterate
<1> QED
  BY <1>4, <1>5, <1>6, <1>7 DEF From, Above, Under, UpTo

LEMMA QueriesOfTwoBounds ==
  ASSUME NEW k \in Bounds, NEW h \in Bounds
  PROVE  Answers(CountBetween(k, h), [stops \in SUBSET Keys |-> GetBetween(k, h, stops)],
                 {j \in Present(map) : k < j /\ j < h})
<1> DEFINE U == {j \in Present(map) : j > k}
           V == {j \in Present(map) : j >= h}
           Between == {j \in Present(map) : k < j /\ j < h}
<1>1. Upward(U) /\ UpperBound(k) = Least(U) /\ Upward(V) /\ LowerBound(h) = Least(V)
  BY BoundsAre
<1>2. k \in Int /\ h \in Int /\ \A j \in Present(map) : j \in Int
  BY BoundsAssumption, KeysAssumption DEF Present
<1>3. CASE k < h
  <2>1. V \subseteq U /\ U \ V = Between
    BY <1>2, <1>3
  <2>2. Between \in SUBSET Keys
    BY DEF Present
  <2> HIDE DEF U, V, Between
  <2>3. Visited(UpperBound(k), LowerBound(h)) = Between
    BY <1>1, <2>1, VisitedIs
  <2>4. Answers(CountBetween(k, h), [stops \in SUBSET Keys |-> GetBetween(k, h, stops)], Between)
    BY <1>3, <2>2, <2>3, AnswersAre DEF CountBetween, GetBetween, Distance, Iterate
  <2> QED
    BY <2>4 DEF Between
<1>4. CASE ~(k < h)
  <2>1. Between = {}
    BY <1>2, <1>4
  <2> HIDE DEF Between
  <2>2. CountBetween(k, h) = 0 /\ \A stops \in SUBSET Keys : GetBetween(k, h, stops) = [status |-> "OK", seen |-> <<>>]
    BY <1>4 DEF CountBetween, GetBetween
  <2>3. Answers(CountBetween(k, h), [stops \in SUBSET Keys |-> GetBetween(k, h, stops)], Between)
    BY <2>1, <2>2, NothingReported
  <2> QED
    BY <2>3 DEF Between
<1> QED
  BY <1>3, <1>4

\* Every family of queries of radix counts and reports exactly the committed
\* records on its side of any bound, present or not, in ascending order, up
\* to any callback that stops it.
THEOREM QueriesAreAlwaysExact == Spec => []QueriesAreExact
<1>1. SInv => QueriesAreExact
  <2> SUFFICES ASSUME SInv, Idle PROVE QueriesAreExact
    BY DEF QueriesAreExact
  <2>1. Answers(CountAll, [stops \in SUBSET Keys |-> GetAll(stops)], Present(map))
    <3>1. Visited(Begin, End) = Present(map)
      <4>1. Visited(Least(Present(map)), Least({})) = Present(map) \ {}
        BY EndsAre, VisitedIs
      <4> QED
        BY <4>1, EndsAre
    <3>2. \A stops \in SUBSET Keys : GetAll(stops) = Walk(Present(map), ByKey, stops)
      BY <3>1 DEF GetAll, Iterate
    <3>3. Present(map) \in SUBSET Keys
      BY DEF Present
    <3> QED
      BY <3>2, <3>3, AnswersAre DEF CountAll
  <2>2. ASSUME NEW k \in Bounds
        PROVE  (Exists(k) = "OK" <=> k \in Present(map)) /\ (k \in Keys => Get(k).value = Stored[k])
    <3>1. k \in Present(map) => k \in Keys /\ k # End
      BY KeysAssumption DEF Present
    <3>2. Exists(k) = "OK" <=> k \in Present(map)
      BY <3>1 DEF Exists, Find
    <3>3. ASSUME k \in Keys PROVE Get(k).value = map[k]
      BY <3>1, <3>3 DEF Get, Find, Present
    <3> QED
      BY <3>2, <3>3 DEF Stored
  <2> QED
    BY <2>1, <2>2, QueriesOfOneBound, QueriesOfTwoBounds DEF QueriesAreExact
<1> QED
  BY <1>1, SessionInvariant, PTL
=============================================================================
