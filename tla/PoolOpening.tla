----------------------------- MODULE PoolOpening -----------------------------
(***************************************************************************)
(* pmemkv_open and pmemkv_close of an engine that lives in a pool:         *)
(* src/src/libpmemkv.cc 78-108 and 407-433, src/src/config.h,              *)
(* src/src/engine.cc, src/src/pmemobj_engine.h,                            *)
(* src/src/comparator/pmemobj_comparator.h, Recover of stree.cc, csmap.cc, *)
(* cmap.cc and radix.cc.                                                   *)
(*                                                                         *)
(* Several processes use one path.  A pool is a file with a layout and a   *)
(* root pointer; libpmemobj locks the file while a process has it open.    *)
(* Opening is several steps: check the config, open the pool, or create    *)
(* it, then find or make what the root points to, in one transaction.  A   *)
(* process may end between any two of them.                                *)
(*                                                                         *)
(* A config maps the names of its items to items.  A comparator is known   *)
(* by its name; root.cmp says whose comparator object the pointer stored   *)
(* in the pool leads to, Dangling when that object is gone.                *)
(***************************************************************************)
EXTENDS Integers

CONSTANTS Process, NoProcess,
          Dangling,
          Engines,           \* the registered engines
          Compares,          \* those that keep their records in the order of a comparator
          Names,             \* the engine names applications ask for
          Configs,           \* the configs they pass, NullConfig among them
          NullConfig,
          BinaryComparator,  \* the name of the default comparator
          MinPool            \* PMEMOBJ_MIN_POOL

ASSUME ProcessAssumption == {NoProcess, Dangling} \cap Process = {}
ASSUME EnginesAssumption == Compares \subseteq Engines /\ {"none", "torn", "app"} \cap Engines = {}

VARIABLES
  file,      \* what is at the path: "none", "torn", the layout of an engine, or "app"
  root,      \* what the root pointer of the pool leads to
  owner,     \* the process that has the pool open
  lent,      \* whether it is the application that opened it, to pass an oid
  pc, call,  \* where each process is in pmemkv_open, and its arguments
  calm,      \* nobody has come between since the call, and it fits the file (for a property)
  returned   \* the result of pmemkv_open, in the state after it returns (for a property)

poolVars == <<file, root, owner, lent, pc, call, calm, returned>>

NullRoot == [state |-> "null", engine |-> "none", name |-> "", cmp |-> Dangling]
NoCall == [engine |-> "none", config |-> NullConfig]
Nothing == [status |-> "none", calm |-> FALSE]

-----------------------------------------------------------------------------
(* The items of a config and their types.                                  *)

Has(c, key) == key \in DOMAIN c
IsType(c, key, t) == Has(c, key) => c[key].type = t

\* get_uint64: an int64 that is not negative is converted, anything else is a type error.
IsUint64(c, key) ==
  Has(c, key) => c[key].type = "uint64" \/ (c[key].type = "int64" /\ c[key].value >= 0)
\* A size that is not of another type is a number.
ASSUME SizesAssumption ==
  /\ MinPool \in Nat
  /\ \A c \in Configs \ {NullConfig} : Has(c, "size") /\ IsUint64(c, "size") => c["size"].value \in Nat

Flag(c, key) == Has(c, key) /\ c[key].value # 0

\* force_create counts only when create_or_error_if_exists is not there.
CreateKey(c) == IF Has(c, "create_or_error_if_exists") THEN "create_or_error_if_exists" ELSE "force_create"
MustCreate(c) == Flag(c, CreateKey(c))
MayCreate(c) == Flag(c, "create_if_missing")

ComparatorName(c) == IF Has(c, "comparator") THEN c["comparator"].value ELSE BinaryComparator

-----------------------------------------------------------------------------
(* Exceptions and the status they become.                                  *)

\* What catch_and_return_status tries, in this order; the first class the
\* exception derives from decides.
Clauses == << [class |-> "bad_alloc",               status |-> "OUT_OF_MEMORY"],
              [class |-> "runtime_error",           status |-> "UNKNOWN_ERROR"],
              [class |-> "invalid_argument",        status |-> "INVALID_ARGUMENT"],
              [class |-> "transaction_scope_error", status |-> "TRANSACTION_SCOPE_ERROR"] >>

CatchStatus(classes) ==
  LET hits == {i \in DOMAIN Clauses : Clauses[i].class \in classes} IN
  IF hits = {} THEN "UNKNOWN_ERROR"
  ELSE Clauses[CHOOSE i \in hits : \A j \in hits : i <= j].status

\* Exceptions of libpmemobj-cpp, by the classes they derive from.  Those of
\* pmemkv carry their status with them.
PoolError == {"runtime_error"}
TransactionOutOfMemory == {"runtime_error", "bad_alloc"}

\* What the constructor of pmemobj_engine_base finds wrong with a config, before it does anything.
PathFault(c) ==
  CASE ~IsUint64(c, "create_if_missing") \/ ~IsUint64(c, CreateKey(c)) -> "CONFIG_TYPE_ERROR"
    [] OTHER -> IF MayCreate(c) /\ MustCreate(c) THEN "INVALID_ARGUMENT" ELSE "none"

ConfigFault(c) ==
  IF ~IsType(c, "path", "string") \/ ~IsType(c, "oid", "object") THEN "CONFIG_TYPE_ERROR"
  ELSE IF Has(c, "path") = Has(c, "oid") THEN "INVALID_ARGUMENT"
  ELSE IF Has(c, "path") THEN PathFault(c) ELSE "none"

OpenFault(e, c) ==
  IF e \notin Engines THEN "WRONG_ENGINE_NAME"
  ELSE IF c = NullConfig THEN "INVALID_ARGUMENT" ELSE ConfigFault(c)

SizeFault(c) ==
  IF ~Has(c, "size") THEN "INVALID_ARGUMENT"
  ELSE IF ~IsUint64(c, "size") THEN "CONFIG_TYPE_ERROR" ELSE "none"

\* What extract_comparator and initialize find wrong with a new comparator.
ComparatorFault(c) ==
  IF ~IsType(c, "comparator", "object") THEN "CONFIG_TYPE_ERROR"
  ELSE IF ComparatorName(c) = "" THEN "INVALID_ARGUMENT" ELSE "none"

\* A mutant: the name in the pool is not looked at.
NameNotCompared(c) == IF ~IsType(c, "comparator", "object") THEN "CONFIG_TYPE_ERROR" ELSE "none"

\* The same for runtime_initialize, which compares with the name in the pool.
MismatchFault(c) ==
  IF ~IsType(c, "comparator", "object") THEN "CONFIG_TYPE_ERROR"
  ELSE IF ComparatorName(c) # root.name THEN "COMPARATOR_MISMATCH" ELSE "none"

-----------------------------------------------------------------------------
(* pmemkv_open, step by step.                                              *)

Engine(p) == call[p].engine
Config(p) == call[p].config
ByPath(p) == Has(Config(p), "path")

At(p, place) == pc' = [pc EXCEPT ![p] = place]
Report(p, status, undisturbed) == returned' = [status |-> status, calm |-> undisturbed]

\* The constructor throws, or the transaction is aborted: what it opened by
\* path is closed by the destructor of the base, the config goes with it.
Leave(p, status, undisturbed) ==
  /\ At(p, "idle")
  /\ call' = [call EXCEPT ![p] = NoCall]
  /\ calm' = [calm EXCEPT ![p] = FALSE]
  /\ Report(p, status, undisturbed)

\* What matters of the config once the database is open.
KeptItems(p) == {"path", "oid"} \cup IF Engine(p) \in Compares THEN {"comparator"} ELSE {}
Kept(p) ==
  [engine |-> Engine(p), config |-> [key \in DOMAIN Config(p) \cap KeptItems(p) |-> Config(p)[key]]]

Succeed(p) ==
  /\ At(p, "up")
  /\ call' = [call EXCEPT ![p] = Kept(p)]
  /\ calm' = [calm EXCEPT ![p] = FALSE]
  /\ Report(p, "OK", calm[p])

\* A mutant: the destructor closes a pool it did not open.
ReleasedAlways(p) == IF owner = p THEN NoProcess ELSE owner

Released(p) == IF owner = p /\ ByPath(p) THEN NoProcess ELSE owner

\* Where the pool is looked for first.
FirstStep(c) == CASE Has(c, "oid") -> "root"
                  [] Has(c, "path") -> IF MustCreate(c) THEN "create" ELSE "open"

\* The call fits what is at the path, with nobody else about.
Fits(e, c) ==
  /\ OpenFault(e, c) = "none"
  /\ \/ Has(c, "oid")
     \/ Has(c, "path") /\ owner = NoProcess /\ file = e /\ ~MustCreate(c)
     \/ /\ Has(c, "path") /\ owner = NoProcess /\ file = "none"
        /\ MayCreate(c) \/ MustCreate(c)
        /\ SizeFault(c) = "none" /\ c["size"].value >= MinPool
  /\ e \in Compares => (IF root.state = "made" THEN MismatchFault(c) ELSE ComparatorFault(c)) = "none"

\* With an oid the application vouches for the pool and for what the oid leads to.
Vouched(p, e, c) ==
  c # NullConfig /\ ~Has(c, "path") /\ Has(c, "oid") =>
    /\ lent /\ owner = p
    /\ root.state = "made" => root.engine = e

OpenCall(p, e, c) ==
  /\ pc[p] = "idle" /\ Vouched(p, e, c)
  /\ calm' = [q \in Process |-> q = p /\ Fits(e, c) /\ \A o \in Process : pc[o] = "idle"]
  /\ IF OpenFault(e, c) = "none"
     THEN /\ At(p, FirstStep(c))
          /\ call' = [call EXCEPT ![p] = [engine |-> e, config |-> c]]
          /\ returned' = Nothing
     ELSE /\ Report(p, OpenFault(e, c), FALSE)
          /\ UNCHANGED <<pc, call>>
  /\ UNCHANGED <<file, root, owner, lent>>

OpenPool(p) ==
  /\ pc[p] = "open" /\ owner = NoProcess /\ file = Engine(p)
  /\ owner' = p
  /\ At(p, "root")
  /\ returned' = Nothing
  /\ UNCHANGED <<file, root, lent, call, calm>>

\* Another process, or the application, has the pool: pool_error, which nobody catches on the way.
OpenLocked(p) ==
  /\ pc[p] = "open" /\ owner # NoProcess
  /\ Leave(p, CatchStatus(PoolError), calm[p])
  /\ UNCHANGED <<file, root, owner, lent>>

\* A mutant: create_if_missing is asked about too late.
NeverCreated(p) ==
  /\ pc[p] = "open" /\ owner = NoProcess /\ file # Engine(p)
  /\ Leave(p, "INVALID_ARGUMENT", calm[p])
  /\ UNCHANGED <<file, root, owner, lent>>

\* No pool, or one of another layout: pool_invalid_argument.
OpenInvalid(p) ==
  /\ pc[p] = "open" /\ owner = NoProcess /\ file # Engine(p)
  /\ IF MayCreate(Config(p))
     THEN At(p, "create") /\ returned' = Nothing /\ UNCHANGED <<call, calm>>
     ELSE Leave(p, "INVALID_ARGUMENT", calm[p])
  /\ UNCHANGED <<file, root, owner, lent>>

\* create_or_fail: no size, a size that is no size, too small a pool, or a file that is there.
CreateRefused(p) ==
  /\ pc[p] = "create"
  /\ \/ /\ SizeFault(Config(p)) # "none"
        /\ Leave(p, SizeFault(Config(p)), calm[p])
     \/ /\ SizeFault(Config(p)) = "none"
        /\ Config(p)["size"].value < MinPool \/ file # "none"
        /\ Leave(p, "INVALID_ARGUMENT", calm[p])
  /\ UNCHANGED <<file, root, owner, lent>>

CreateBegins(p) ==
  /\ pc[p] = "create" /\ file = "none"
  /\ SizeFault(Config(p)) = "none" /\ Config(p)["size"].value >= MinPool
  /\ file' = "torn" /\ owner' = p
  /\ At(p, "creating")
  /\ returned' = Nothing
  /\ UNCHANGED <<root, lent, call, calm>>

CreateEnds(p) ==
  /\ pc[p] = "creating"
  /\ file' = Engine(p) /\ root' = NullRoot
  /\ At(p, "root")
  /\ returned' = Nothing
  /\ UNCHANGED <<owner, lent, call, calm>>

\* No space for the pool: libpmemobj removes the file.
CreateFails(p) ==
  /\ pc[p] = "creating"
  /\ file' = "none" /\ owner' = NoProcess
  /\ Leave(p, CatchStatus(PoolError), FALSE)
  /\ UNCHANGED <<root, lent>>

\* Recover finds data: only the comparator must be that of the pool.
RootFound(p) ==
  /\ pc[p] = "root" /\ root.state = "made"
  /\ LET fault == IF Engine(p) \in Compares THEN MismatchFault(Config(p)) ELSE "none" IN
     IF fault = "none"
     THEN /\ root' = IF Engine(p) \in Compares THEN [root EXCEPT !.cmp = p] ELSE root
          /\ Succeed(p)
          /\ UNCHANGED owner
     ELSE /\ owner' = Released(p)
          /\ Leave(p, fault, calm[p])
          /\ UNCHANGED root
  /\ UNCHANGED <<file, lent>>

\* Recover finds none: snapshot of the root pointer, and make_persistent.
RootMade(p) ==
  /\ pc[p] = "root" /\ root.state = "null"
  /\ root' = [NullRoot EXCEPT !.state = "new", !.engine = Engine(p)]
  /\ At(p, IF Engine(p) \in Compares THEN "compare" ELSE "commit")
  /\ returned' = Nothing
  /\ UNCHANGED <<file, owner, lent, call, calm>>

\* pmemobj_compare::initialize in the same transaction; when it throws, the undo log restores the null root.
RootCompares(p) ==
  /\ pc[p] = "compare"
  /\ LET fault == ComparatorFault(Config(p)) IN
     IF fault = "none"
     THEN /\ root' = [root EXCEPT !.name = ComparatorName(Config(p)), !.cmp = p]
          /\ At(p, "commit") /\ returned' = Nothing
          /\ UNCHANGED <<owner, call, calm>>
     ELSE /\ root' = NullRoot
          /\ owner' = Released(p)
          /\ Leave(p, fault, calm[p])
  /\ UNCHANGED <<file, lent>>

RootCommitted(p) ==
  /\ pc[p] = "commit"
  /\ root' = [root EXCEPT !.state = "made"]
  /\ Succeed(p)
  /\ UNCHANGED <<file, owner, lent>>

\* The transaction runs out of memory.
RootFails(p) ==
  /\ pc[p] \in {"compare", "commit"}
  /\ root' = NullRoot
  /\ owner' = Released(p)
  /\ Leave(p, CatchStatus(TransactionOutOfMemory), FALSE)
  /\ UNCHANGED <<file, lent>>

-----------------------------------------------------------------------------
(* Closing, the process's end, and what applications do with the path.     *)

\* The comparator goes with the config, and the pointer in the pool stays.
Left(p) == IF root.cmp = p THEN [root EXCEPT !.cmp = Dangling] ELSE root

Close(p) ==
  /\ pc[p] = "up"
  /\ root' = Left(p)
  /\ owner' = Released(p)
  /\ At(p, "idle")
  /\ call' = [call EXCEPT ![p] = NoCall]
  /\ calm' = [calm EXCEPT ![p] = FALSE]
  /\ returned' = Nothing
  /\ UNCHANGED <<file, lent>>

\* The undo log is applied when the pool is next opened, before anything is read.
Crash(p) ==
  /\ pc[p] # "idle" \/ owner = p
  /\ At(p, "idle")
  /\ call' = [call EXCEPT ![p] = NoCall]
  /\ calm' = [calm EXCEPT ![p] = FALSE]
  /\ returned' = Nothing
  /\ IF owner = p
     THEN /\ owner' = NoProcess /\ lent' = FALSE
          /\ root' = IF root.state = "new" THEN NullRoot ELSE Left(p)
     ELSE UNCHANGED <<owner, lent, root>>
  /\ UNCHANGED file

\* An application opens a pool of its own, made with room for a root pointer, to pass its oid.
AppOpen(p) ==
  /\ pc[p] = "idle" /\ owner = NoProcess /\ file \in {"none", "app"}
  /\ file' = "app" /\ owner' = p /\ lent' = TRUE
  /\ calm' = [q \in Process |-> FALSE]
  /\ returned' = Nothing
  /\ UNCHANGED <<root, pc, call>>

AppClose(p) ==
  /\ pc[p] = "idle" /\ owner = p
  /\ owner' = NoProcess /\ lent' = FALSE
  /\ calm' = [q \in Process |-> FALSE]
  /\ returned' = Nothing
  /\ UNCHANGED <<file, root, pc, call>>

\* What a crash in pmemobj_create leaves is no pool, and only deleting the file helps.
AppDeletesTorn ==
  /\ file = "torn" /\ owner = NoProcess
  /\ file' = "none"
  /\ calm' = [q \in Process |-> FALSE]
  /\ returned' = Nothing
  /\ UNCHANGED <<root, owner, lent, pc, call>>

PoolInit ==
  /\ file = "none" /\ root = NullRoot
  /\ owner = NoProcess /\ lent = FALSE
  /\ pc = [p \in Process |-> "idle"]
  /\ call = [p \in Process |-> NoCall]
  /\ calm = [p \in Process |-> FALSE]
  /\ returned = Nothing

\* The steps that leave an open database as it is.
OpeningStep(p) ==
  \/ \E e \in Names, c \in Configs : OpenCall(p, e, c)
  \/ OpenPool(p) \/ OpenLocked(p) \/ OpenInvalid(p)
  \/ CreateRefused(p) \/ CreateBegins(p) \/ CreateEnds(p) \/ CreateFails(p)
  \/ RootFound(p) \/ RootMade(p) \/ RootCompares(p) \/ RootCommitted(p) \/ RootFails(p)
  \/ AppOpen(p) \/ AppClose(p)

PoolNext == AppDeletesTorn \/ \E p \in Process : OpeningStep(p) \/ Close(p) \/ Crash(p)

PoolSpec == PoolInit /\ [][PoolNext]_poolVars

-----------------------------------------------------------------------------
(* Properties.                                                             *)

RootType == [state : {"null", "new", "made"}, engine : Engines \cup {"none"},
             name : STRING, cmp : Process \cup {Dangling}]

PoolTypeOK ==
  /\ file \in {"none", "torn", "app"} \cup Engines
  /\ root \in RootType
  /\ owner \in Process \cup {NoProcess} /\ lent \in BOOLEAN
  /\ pc \in [Process -> {"idle", "open", "create", "creating", "root", "compare", "commit", "up"}]
  /\ calm \in [Process -> BOOLEAN]

\* Nobody holds the pool who is not using it, and whoever uses it holds it:
\* no path out of pmemkv_open or pmemkv_close leaves the pool locked or an
\* unfinished root behind, and none closes a pool the application lent.
Using == {"creating", "root", "compare", "commit", "up"}
PoolIsReleased ==
  /\ \A p \in Process : pc[p] \in Using => owner = p
  /\ \A p \in Process : owner = p /\ pc[p] \notin Using => lent
  /\ lent => owner # NoProcess
  /\ root.state = "new" <=> \E p \in Process : pc[p] \in {"compare", "commit"}

\* A database that is open orders its records as when they were stored: by
\* the comparator named in the pool, called through a pointer to the
\* comparator of this process (pmemobj_compare::initialize and
\* runtime_initialize).
OrderIsKept ==
  \A p \in Process : pc[p] = "up" /\ Engine(p) \in Compares =>
    /\ root.state = "made" /\ root.name # ""
    /\ root.name = ComparatorName(Config(p))
    /\ root.cmp = p

\* A call that fits what is at the path succeeds when no other process comes
\* in between, whatever crashes and failures there were before, unless space
\* runs out.
FittingOpenSucceeds == returned.calm => returned.status = "OK"
=============================================================================
