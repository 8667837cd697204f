------------------------------- MODULE Vsmap -------------------------------
(***************************************************************************)
(* The vsmap engine, src/src/engines/vsmap.cc: a std::map ordered by the   *)
(* comparator of the config, its queries and its iterators, as the C and   *)
(* the C++ API offer them.                                                 *)
(*                                                                         *)
(* The order is a function that ranks the keys: keys of one rank are       *)
(* equivalent, one record stands for all of them, and it keeps the key it  *)
(* was first put with.  The map itself is external.  The engine is not     *)
(* concurrent.  Ranges of a value are those of RadixSession and left out;  *)
(* an iterator that has not been moved to a record yet, or whose record    *)
(* was erased, is nowhere, and the application does not step from there.   *)
(***************************************************************************)
EXTENDS Walks

CONSTANTS Keys, Values, NoValue, End, Nowhere,
          Iterators    \* the iterators the application may have

ASSUME VsmapAssumption == NoValue \notin Values /\ {End, Nowhere} \cap Keys = {} /\ End # Nowhere

VARIABLES
  records,   \* pmem_kv_container, by the key a record was first put with
  order,     \* the rank of each key under its comparator
  at         \* the place of each iterator

vsmapVars == <<records, order, at>>

NoRecords == [k \in Keys |-> NoValue]
Present == {k \in Keys : records[k] # NoValue}

-----------------------------------------------------------------------------
(* Places.                                                                 *)

\* A mutant: the map compares bytes, not through the comparator.
BytesLess(j, k) == j < k

Less(j, k) == order[j] < order[k]

Least(S) == IF S = {} THEN End ELSE CHOOSE k \in S : \A j \in S : ~Less(j, k)
Greatest(S) == CHOOSE k \in S : \A j \in S : ~Less(k, j)

Begin == Least(Present)
LowerBound(k) == Least({j \in Present : ~Less(j, k)})
UpperBound(k) == Least({j \in Present : Less(k, j)})
Find(k) == Least({j \in Present : order[j] = order[k]})
After(p) == UpperBound(p)
Before(p) == Greatest({j \in Present : p = End \/ Less(j, p)})

Ahead(p) == IF p = End THEN {} ELSE {k \in Present : ~Less(k, p)}

\* A last place behind the first is never met: then the walk ends with the map.
Visited(first, last) == IF Ahead(last) \subseteq Ahead(first) THEN Ahead(first) \ Ahead(last) ELSE Ahead(first)

-----------------------------------------------------------------------------
(* Queries.  They only read: each is what it returns.                      *)

Distance(first, last) == Cardinality(Visited(first, last))

\* Records in order, up to the first one whose callback answers non-zero.
Iterate(first, last, stops) == Walk(Visited(first, last), order, stops)

CountAll == Cardinality(Present)
CountAbove(k) == Distance(UpperBound(k), End)
CountEqualAbove(k) == Distance(LowerBound(k), End)
CountEqualBelow(k) == Distance(Begin, UpperBound(k))
CountBelow(k) == Distance(Begin, LowerBound(k))
CountBetween(k1, k2) == IF Less(k1, k2) THEN Distance(UpperBound(k1), LowerBound(k2)) ELSE 0

GetAll(stops) == Iterate(Begin, End, stops)
GetAbove(k, stops) == Iterate(UpperBound(k), End, stops)
GetEqualAbove(k, stops) == Iterate(LowerBound(k), End, stops)
GetEqualBelow(k, stops) == Iterate(Begin, UpperBound(k), stops)
GetBelow(k, stops) == Iterate(Begin, LowerBound(k), stops)
GetBetween(k1, k2, stops) ==
  IF Less(k1, k2) THEN Iterate(UpperBound(k1), LowerBound(k2), stops) ELSE [status |-> "OK", seen |-> <<>>]

Exists(k) == IF Find(k) # End THEN "OK" ELSE "NOT_FOUND"
Get(k) == IF Find(k) # End THEN [status |-> "OK", value |-> records[Find(k)]] ELSE [status |-> "NOT_FOUND", value |-> NoValue]

-----------------------------------------------------------------------------
(* Calls that change records.                                              *)

\* emplace finds an equivalent record or makes one.
Put(k, v) ==
  /\ records' = [records EXCEPT ![IF Find(k) # End THEN Find(k) ELSE k] = v]
  /\ UNCHANGED <<order, at>>

RemoveKey(k) ==
  /\ IF Find(k) = End THEN UNCHANGED <<records, at>>
     ELSE /\ records' = [records EXCEPT ![Find(k)] = NoValue]
          /\ at' = [i \in Iterators |-> IF at[i] = Find(k) THEN Nowhere ELSE at[i]]
  /\ UNCHANGED order

-----------------------------------------------------------------------------
(* Iterators: where each call leaves one, and what it answers.             *)

Found(p) == IF p = End THEN "NOT_FOUND" ELSE "OK"
Moved(p) == [place |-> p, status |-> Found(p)]
Stays(p) == [place |-> p, status |-> "NOT_FOUND"]

\* A mutant: lower_bound where seek_lower_eq needs upper_bound.
StepsBackEarly(k) == IF LowerBound(k) = Begin THEN Moved(End) ELSE Moved(Before(LowerBound(k)))

Seek(k) == Moved(Find(k))
SeekLower(k) == IF LowerBound(k) = Begin THEN Moved(End) ELSE Moved(Before(LowerBound(k)))
SeekLowerEq(k) == IF UpperBound(k) = Begin THEN Moved(End) ELSE Moved(Before(UpperBound(k)))
SeekHigher(k) == Moved(UpperBound(k))
SeekHigherEq(k) == Moved(LowerBound(k))
SeekToFirst(i) == IF Present = {} THEN Stays(at[i]) ELSE Moved(Begin)
SeekToLast(i) == IF Present = {} THEN Stays(at[i]) ELSE Moved(Before(End))
IsNext(i) == IF at[i] = End THEN "NOT_FOUND" ELSE Found(After(at[i]))
StepNext(i) == IF at[i] = End THEN Stays(End) ELSE Moved(After(at[i]))
StepPrev(i) == IF at[i] = Begin THEN Stays(at[i]) ELSE Moved(Before(at[i]))

MoveTo(i, result) == at' = [at EXCEPT ![i] = result.place] /\ UNCHANGED <<records, order>>

SeekCall(i) ==
  \/ \E k \in Keys : \E r \in {Seek(k), SeekLower(k), SeekLowerEq(k), SeekHigher(k), SeekHigherEq(k)} : MoveTo(i, r)
  \/ \E r \in {SeekToFirst(i), SeekToLast(i)} : MoveTo(i, r)

StepCall(i) ==
  /\ at[i] # Nowhere
  /\ \E r \in {StepNext(i), StepPrev(i)} : MoveTo(i, r)

-----------------------------------------------------------------------------
(* Properties.                                                             *)

\* What a query that sees the records of S, in order, must return.
Answers(count, get, S) ==
  /\ count = Cardinality(S)
  /\ \A stops \in SUBSET Keys : Reports(get[stops], S, order, stops)

\* Whatever comparator the database was opened with, one that calls several
\* keys equal too: every record is there once, each family of queries counts
\* and reports exactly the records on its side of any bound, in the order of
\* the comparator, and a key is found when an equivalent one was put
\* (vsmap.cc 38-194).
QueriesAreExact ==
  /\ \A j, k \in Present : order[j] = order[k] => j = k
  /\ Answers(CountAll, [stops \in SUBSET Keys |-> GetAll(stops)], Present)
  /\ \A k \in Keys :
       /\ Answers(CountAbove(k), [stops \in SUBSET Keys |-> GetAbove(k, stops)], {j \in Present : order[j] > order[k]})
       /\ Answers(CountEqualAbove(k), [stops \in SUBSET Keys |-> GetEqualAbove(k, stops)], {j \in Present : order[j] >= order[k]})
       /\ Answers(CountEqualBelow(k), [stops \in SUBSET Keys |-> GetEqualBelow(k, stops)], {j \in Present : order[j] <= order[k]})
       /\ Answers(CountBelow(k), [stops \in SUBSET Keys |-> GetBelow(k, stops)], {j \in Present : order[j] < order[k]})
       /\ \A h \in Keys :
            Answers(CountBetween(k, h), [stops \in SUBSET Keys |-> GetBetween(k, h, stops)],
                    {j \in Present : order[k] < order[j] /\ order[j] < order[h]})
       /\ Exists(k) = "OK" <=> \E j \in Present : order[j] = order[k]
       /\ Get(k).status = Exists(k)

\* The greatest, or least, record of S in the order, and NOT_FOUND if there is none.
IsGreatest(r, S) == IF S = {} THEN r.status = "NOT_FOUND" ELSE r.status = "OK" /\ r.place \in S /\ \A j \in S : order[j] <= order[r.place]
IsLeast(r, S) == IF S = {} THEN r.status = "NOT_FOUND" ELSE r.status = "OK" /\ r.place \in S /\ \A j \in S : order[r.place] <= order[j]

\* "If true is returned, it is guaranteed that pmemkv_iterator_next(it) will
\* return PMEMKV_STATUS_OK, otherwise iterator is already on the last element"
\* (libpmemkv_iterator(3)): is_next agrees with next after any calls in
\* between, every seek finds the record the manual names, next and prev the
\* neighbours, and an iterator is never left on an erased record.
SeeksAreExact ==
  /\ \A k \in Keys :
       /\ IsGreatest(SeekLower(k), {j \in Present : order[j] < order[k]})
       /\ IsGreatest(SeekLowerEq(k), {j \in Present : order[j] <= order[k]})
       /\ IsLeast(SeekHigher(k), {j \in Present : order[j] > order[k]})
       /\ IsLeast(SeekHigherEq(k), {j \in Present : order[j] >= order[k]})
       /\ IsLeast(Seek(k), {j \in Present : order[j] = order[k]})
  /\ \A i \in Iterators :
       /\ IsLeast(SeekToFirst(i), Present) /\ IsGreatest(SeekToLast(i), Present)
       /\ at[i] # Nowhere => IsNext(i) = StepNext(i).status
       /\ at[i] \in Keys => /\ at[i] \in Present
                            /\ IsLeast(StepNext(i), {j \in Present : order[j] > order[at[i]]})
                            /\ IsGreatest(StepPrev(i), {j \in Present : order[j] < order[at[i]]})
=============================================================================
