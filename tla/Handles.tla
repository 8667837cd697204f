------------------------------ MODULE Handles ------------------------------
(***************************************************************************)
(* Who frees what an application hands to a config: src/src/config.h, the  *)
(* config, open and close calls of libpmemkv.cc, their C++ wrappers in     *)
(* libpmemkv.hpp, libpmemkv_json_config.cc, and the members of the engines *)
(* that keep the config and what it holds.                                 *)
(*                                                                         *)
(* An object is anything put into a config with a deleter: a comparator,   *)
(* an object of the application, a sub-config of a JSON text, and the      *)
(* allocator vcmap puts there itself.  Other items are just Plain.  There  *)
(* is one config handle and one database handle.  A call is one step, but  *)
(* for the members of an engine, which are destroyed one after the other.  *)
(***************************************************************************)
EXTENDS Integers, Sequences, FiniteSets

CONSTANTS
  Comparators, Others,  \* objects: comparators, and those of the application
  Heaps,                \* objects: the allocators of vcmap
  ItemKeys,             \* names of items
  NoItem, Plain,        \* no item, and one that is not an object
  Bad,                  \* a member of a JSON text that is not supported
  NullConfig, NoEngine

Objects == Comparators \cup Others \cup Heaps
Configs == [ItemKeys -> Objects \cup {NoItem, Plain}]
ASSUME HandlesAssumption ==
  /\ {"comparator", "allocator"} \subseteq ItemKeys
  /\ {NoItem, Plain, Bad} \cap Objects = {} /\ NoItem # Plain /\ Bad # NoItem
  /\ NullConfig \notin Configs

VARIABLES
  config,    \* the pmemkv_config of the handle: its items
  db,        \* the engine of the database handle
  closing,   \* an engine that is being destroyed
  alive,     \* objects that exist and are not forgotten
  given,     \* objects whose ownership went to a config
  returned   \* what the last call of this module answered

handleVars == <<config, db, closing, alive, given, returned>>

-----------------------------------------------------------------------------
(* Configs.                                                                *)

NoItems == [k \in ItemKeys |-> NoItem]
ObjectsIn(c) == IF c = NullConfig THEN {} ELSE {c[k] : k \in ItemKeys} \cap Objects

\* The destructor of a config calls the deleter of each object.
Freed(objects) == alive' = alive \ objects /\ given' = given \ objects

\* config::init, which the C++ put calls begin with, put_comparator excepted.
Initialized(c) == IF c = NullConfig THEN NoItems ELSE c

Ready == closing = NoEngine

\* pmemkv_config_new, and a config made from what it returns.
ConfigNew ==
  /\ Ready /\ config = NullConfig
  /\ config' = NoItems /\ returned' = "OK"
  /\ UNCHANGED <<db, closing, alive, given>>

\* pmemkv_config_delete, which the destructor and the assignment of a config call.
ConfigDelete ==
  /\ Ready /\ config # NullConfig
  /\ config' = NullConfig /\ returned' = "OK"
  /\ Freed(ObjectsIn(config))
  /\ UNCHANGED <<db, closing>>

PutPlain(k) ==
  /\ Ready
  /\ LET c == Initialized(config) IN
     /\ config' = IF c[k] = NoItem THEN [c EXCEPT ![k] = Plain] ELSE c
     /\ returned' = IF c[k] = NoItem THEN "OK" ELSE "UNKNOWN_ERROR"
  /\ UNCHANGED <<db, closing, alive, given>>

\* config::put on c: the object is in the config, or its key is taken.  For a
\* taken key emplace may build the new item first, and destroying that item
\* calls the deleter; if not, the object is left.
Emplace(c, k, o, left) ==
  IF c[k] = NoItem
  THEN /\ config' = [c EXCEPT ![k] = o]
       /\ alive' = alive \cup {o} /\ given' = given \cup {o}
       /\ returned' = "OK"
  ELSE /\ config' = c
       /\ alive' = alive \cup left /\ UNCHANGED given
       /\ returned' = "UNKNOWN_ERROR"

\* put_object with a deleter: an object that is left stays the caller's.
PutObject(k, o) ==
  /\ Ready /\ o \notin alive
  /\ \E left \in SUBSET {o} : Emplace(Initialized(config), k, o, left)
  /\ UNCHANGED <<db, closing>>

\* put_object with a unique_ptr: its wrapper is released before it is put,
\* and forgotten, with the object, when it is left.
PutUnique(k, o) ==
  /\ Ready /\ o \notin alive
  /\ Emplace(Initialized(config), k, o, {})
  /\ UNCHANGED <<db, closing>>

\* put_comparator makes an entry and puts it into the config as it is; an
\* entry that is not taken is forgotten too.
PutComparator(o) ==
  /\ Ready /\ o \notin alive
  /\ IF config = NullConfig
     THEN returned' = "INVALID_ARGUMENT" /\ UNCHANGED <<config, alive, given>>
     ELSE Emplace(config, "comparator", o, {})
  /\ UNCHANGED <<db, closing>>

\* The application frees an object it still has after a failed put_object.
DeleteOwn(o) ==
  /\ Ready /\ o \in alive \ given
  /\ alive' = alive \ {o} /\ returned' = "OK"
  /\ UNCHANGED <<config, db, closing, given>>

\* A member of a JSON text is put like a call of its own, a sub-config as an
\* object, and the first one that fails ends the call; what was put stays.
FromJson(members) ==
  LET fails(i) == \/ members[i].item = Bad \/ config[members[i].key] # NoItem
                  \/ \E j \in 1 .. i - 1 : members[j].key = members[i].key
  IN
  /\ Ready /\ config # NullConfig
  /\ \A i \in DOMAIN members : members[i].item \notin alive
  /\ \E n \in 0 .. Len(members) :
       LET put == {members[i] : i \in 1 .. n}
           new == {m.item : m \in put} \cap Objects
       IN
       /\ \A i \in 1 .. n : ~fails(i)
       /\ n < Len(members) => fails(n + 1)
       /\ config' = [k \in ItemKeys |-> IF \E m \in put : m.key = k THEN (CHOOSE m \in put : m.key = k).item ELSE config[k]]
       /\ alive' = alive \cup new /\ given' = given \cup new
       /\ returned' = IF n = Len(members) THEN "OK" ELSE "CONFIG_PARSING_ERROR"
  /\ UNCHANGED <<db, closing>>

-----------------------------------------------------------------------------
(* Engines.                                                                *)

\* vsmap, vcmap, the engines that keep their config (radix, stree, csmap),
\* and those that drop it at the end of their constructor (cmap, robinhood,
\* tree3, blackhole).
Kinds == {"vsmap", "vcmap", "keeps", "drops"}

\* A mutant: the config of vcmap would be its last member.
ConfigLast(kind) == IF kind \in {"vsmap", "vcmap"} THEN <<"allocator", "map", "config">> ELSE <<"pool", "config">>

\* The members of an engine in the order they are made.
Members(kind) ==
  CASE kind = "vsmap" -> <<"allocator", "map", "config">>
    [] kind = "vcmap" -> <<"config", "allocator", "map">>
    [] kind = "keeps" -> <<"pool", "config">>
    [] kind = "drops" -> <<"pool">>

Compares(kind) == kind \in {"vsmap", "keeps"}

Engine(kind, c) ==
  [kind |-> kind, items |-> IF kind = "drops" THEN NullConfig ELSE c,
   cmp |-> IF Compares(kind) THEN c["comparator"] ELSE NoItem,
   heap |-> IF kind = "vcmap" THEN c["allocator"] ELSE NoItem,
   parts |-> Members(kind)]

PartNames == {"allocator", "config", "map", "pool"}
EngineRecords ==
  [kind : Kinds, items : Configs \cup {NullConfig}, cmp : Objects \cup {NoItem}, heap : Objects \cup {NoItem},
   parts : Seq(PartNames)]
ASSUME EngineAssumption == NoEngine \notin EngineRecords

\* The config a factory makes its engine from: vcmap adds its allocator.
Equipped(kind, c, h) == IF kind = "vcmap" THEN [c EXCEPT !["allocator"] = h] ELSE c

\* get_object of an item of another type throws, and so does a second "allocator".
Refuses(kind, c) ==
  \/ c = NullConfig
  \/ Compares(kind) /\ c["comparator"] = Plain
  \/ kind = "vcmap" /\ c["allocator"] # NoItem

\* A mutant: the handle would keep its pointer to the config.
Kept(c) == c

\* config::release: the handle has no config any more, whatever open does with it.
Released(c) == NullConfig

\* A mutant: the old database is closed whether or not the new one opens.
ClosesFirst(kind) ==
  /\ Ready
  /\ config' = Released(config)
  /\ Freed(ObjectsIn(config))
  /\ returned' = "UNKNOWN_ERROR"
  /\ closing' = db /\ db' = NoEngine

\* open fails, for one of these reasons or one of the pool's: the config goes.
OpenFails(kind) ==
  /\ Ready
  /\ config' = Released(config)
  /\ Freed(ObjectsIn(config))
  /\ returned' = IF config = NullConfig THEN "INVALID_ARGUMENT" ELSE "UNKNOWN_ERROR"
  /\ UNCHANGED <<db, closing>>

\* open makes the engine, and only then the handle gives up the one it had.
OpenSucceeds(kind, h) ==
  /\ Ready /\ ~Refuses(kind, config) /\ (kind = "vcmap" => h \notin alive)
  /\ LET c == Equipped(kind, config, h) IN
     /\ db' = Engine(kind, c)
     /\ closing' = db
     /\ alive' = IF kind = "drops" THEN alive \ ObjectsIn(c) ELSE alive \cup ObjectsIn(c)
     /\ given' = IF kind = "drops" THEN given \ ObjectsIn(c) ELSE given \cup ObjectsIn(c)
  /\ config' = Released(config)
  /\ returned' = "OK"

Close ==
  /\ Ready /\ db # NoEngine
  /\ db' = NoEngine /\ closing' = db /\ returned' = "OK"
  /\ UNCHANGED <<config, alive, given>>

\* The members are destroyed in the reverse order.
DestroyMember ==
  /\ closing # NoEngine
  /\ LET n == Len(closing.parts) IN
     /\ closing' = IF n = 1 THEN NoEngine ELSE [closing EXCEPT !.parts = SubSeq(@, 1, n - 1)]
     /\ IF closing.parts[n] = "config" THEN Freed(ObjectsIn(closing.items)) ELSE UNCHANGED <<alive, given>>
  /\ UNCHANGED <<config, db, returned>>

HandlesInit ==
  /\ config = NullConfig /\ db = NoEngine /\ closing = NoEngine
  /\ alive = {} /\ given = {} /\ returned = "OK"

ConfigStep ==
  \/ ConfigNew \/ ConfigDelete
  \/ \E k \in ItemKeys : PutPlain(k)
  \/ \E k \in ItemKeys \ {"comparator"}, o \in Others : PutObject(k, o) \/ PutUnique(k, o)
  \/ \E o \in Comparators : PutComparator(o)
  \/ \E o \in Others : DeleteOwn(o)

-----------------------------------------------------------------------------
(* Properties.                                                             *)

Has(e, part) == e # NoEngine /\ \E i \in DOMAIN e.parts : e.parts[i] = part
HeldBy(e) == IF Has(e, "config") THEN ObjectsIn(e.items) ELSE {}

\* Which of the config, the open engine and the closing one have o.
Holders(o) == {i \in 1 .. 3 : o \in <<ObjectsIn(config), HeldBy(db), HeldBy(closing)>>[i]}

\* However configs are filled, opened, replaced and deleted, and whichever
\* call fails: an object handed over is held by exactly one of the config,
\* the open database and the one being closed, so its deleter runs once and
\* not before they are done with it; none is held that was freed.
OwnedOnce ==
  /\ \A o \in Objects : Cardinality(Holders(o)) = IF o \in given THEN 1 ELSE 0
  /\ given \subseteq alive

\* An engine can use the comparator of its config in every call, and its map
\* the allocator until the map is destroyed, in whatever order the config,
\* the allocator and the map of an engine were declared.
UsedIsAlive ==
  /\ db # NoEngine /\ db.cmp # NoItem => db.cmp \in alive
  /\ \A e \in {db, closing} \ {NoEngine} :
       Has(e, "map") => /\ Has(e, "allocator")
                        /\ e.heap # NoItem => e.heap \in alive

\* An open database goes only by close, or by an open that succeeded, and
\* then after the new one exists and as the one to be destroyed: a failed
\* open, which has consumed the config all the same, leaves it as it was.
DatabaseSurvivesFailedOpen ==
  [][ db' # db /\ db # NoEngine
      => closing' = db /\ IF db' = NoEngine THEN config' = config ELSE returned' = "OK" ]_handleVars
=============================================================================
