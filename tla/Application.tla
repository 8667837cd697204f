---------------------------- MODULE Application ----------------------------
(***************************************************************************)
(* An application that fills a config (Handles), opens a database with it, *)
(* works on the records of one of the vsmap engine (Vsmap) through         *)
(* iterators it gets as results (Results), and closes or replaces it.      *)
(* The order of the records is that of the comparator the engine holds.    *)
(* Threads call a database of any engine (Calls), also without one.        *)
(***************************************************************************)
EXTENDS Vsmap, Handles, Results, Calls

CONSTANTS Rank,      \* the order of each comparator, and of no comparator
          JsonTexts  \* JSON texts: sequences of members, each a key and an item
ASSUME JsonTextsAssumption == JsonTexts \subseteq Seq([key : ItemKeys, item : Objects \cup {Plain, Bad}])
ASSUME IteratorsAssumption == RawIterators = Iterators
ASSUME RankAssumption == Rank \in [Comparators \cup {NoItem} -> [Keys -> Int]]

vars == <<handleVars, vsmapVars, resultVars, callVars>>

\* The application deletes its iterators before it closes or replaces their database.
NoIterators == made = {} /\ \A r \in Slots : ~slot[r].born

UsesVsmap == Ready /\ db # NoEngine /\ db.kind = "vsmap"

\* Bounds: iterators are used only while there is no config, and no config
\* is filled while there are iterators: neither touches the other.
ConfigOnly == NoIterators /\ NobodyCalled
RecordsOnly == UsesVsmap /\ config = NullConfig /\ NobodyCalled

\* A bound: threads call a database made from a config without objects, and
\* once they have, the application only closes it.  What the config calls and
\* open say of their failures is left out.
CallsOnly == NoIterators /\ Ready /\ config = NullConfig /\ records = NoRecords /\ alive \subseteq Heaps

Nothing == records = NoRecords /\ order = Rank[NoItem] /\ at = [i \in Iterators |-> Nowhere]

\* The engines whose members hold a config in the way of this kind.
EnginesOf(kind) ==
  CASE kind = "vsmap" -> {"vsmap"}
    [] kind = "vcmap" -> {"vcmap"}
    [] kind = "keeps" -> {"radix", "cached_radix", "stree", "csmap"}
    [] kind = "drops" -> {"cmap", "robinhood", "tree3", "blackhole"}

Init == HandlesInit /\ ResultsInit /\ CallsInit /\ Nothing

FillConfig(members) == ConfigOnly /\ FromJson(members) /\ UNCHANGED <<vsmapVars, resultVars, callVars>>

UseConfig == ConfigOnly /\ ConfigStep /\ UNCHANGED <<vsmapVars, resultVars, callVars>>

OpenDatabase ==
  /\ NobodyCalled
  /\ \/ /\ NoIterators
        /\ \E kind \in Kinds, h \in Heaps : OpenSucceeds(kind, h) /\ \E engine \in EnginesOf(kind) : BaseIs(engine)
        /\ records' = NoRecords
        /\ order' = IF db'.kind = "vsmap" THEN Rank[db'.cmp] ELSE Rank[NoItem]
     \/ /\ \E kind \in Kinds : OpenFails(kind)
        /\ UNCHANGED <<records, order, callVars>>
  /\ UNCHANGED <<at, resultVars>>

CloseDatabase ==
  /\ NoIterators /\ NoObjects
  /\ Close /\ BaseIs(None)
  /\ records' = NoRecords /\ order' = Rank[NoItem]
  /\ UNCHANGED <<at, resultVars>>

DestroyDatabase == DestroyMember /\ UNCHANGED <<vsmapVars, resultVars, callVars>>

UseRecords ==
  /\ UsesVsmap /\ NobodyCalled
  /\ \/ \E k \in Keys : RemoveKey(k) \/ \E v \in Values : Put(k, v)
     \/ \E i \in made : SeekCall(i) \/ StepCall(i)
  /\ UNCHANGED <<handleVars, resultVars, callVars>>

UseResults ==
  /\ RecordsOnly
  /\ ResultsStep \/ \E r \in Slots, i \in Iterators : NewIterator(r, i)
  /\ at' = [i \in Iterators |-> IF i \in made' THEN at[i] ELSE Nowhere]
  /\ UNCHANGED <<handleVars, records, order, callVars>>

UseDatabase == CallsOnly /\ CallsStep /\ UNCHANGED <<handleVars, vsmapVars, resultVars>>

Next ==
  \/ \E members \in JsonTexts : FillConfig(members)
  \/ UseConfig \/ OpenDatabase \/ CloseDatabase \/ DestroyDatabase \/ UseRecords \/ UseResults \/ UseDatabase

Spec == Init /\ [][Next]_vars
=============================================================================
