-------------------------------- MODULE KVMap --------------------------------
(***************************************************************************)
(* What a persistent engine promises to a single-threaded application      *)
(* (libpmemkv.7: "persistent engines retain their content and are power    *)
(* fail/crash safe"): a map from keys to values, on which one operation is *)
(* under way at a time.  Values are the numbers of the writes that wrote   *)
(* them, 0 for an absent key.                                              *)
(*                                                                         *)
(* The promise covers every key but the one being written: its contents    *)
(* are settled when the write returns, and a crash in the middle may leave *)
(* it with any value it was ever given.                                    *)
(***************************************************************************)
EXTENDS Integers

CONSTANTS Keys, NoKey

VARIABLES
    contents,   \* key -> number of the write that gave its value, 0 if absent
    version,    \* how many writes were recorded
    up,         \* the database is open
    op, key,    \* the operation under way and its key
    answer      \* what a get found; -1 before it did

mapVars == <<contents, version, up, op, key, answer>>

Init ==
    /\ contents = [k \in Keys |-> 0]
    /\ version = 0
    /\ up = TRUE
    /\ op = "none" /\ key = NoKey
    /\ answer = -1

Begin(o, k) ==
    /\ up /\ op = "none"
    /\ op' = o /\ key' = k
    /\ UNCHANGED <<contents, version, up, answer>>

Writing == op \in {"put", "remove"}

\* A write in progress: only the contents of its own key are open, and it takes at most one number.
Progress ==
    /\ Writing
    /\ version' \in {version, version + 1}
    /\ \E v \in 0..version' : contents' = [contents EXCEPT ![key] = v]
    /\ UNCHANGED <<up, op, key, answer>>

\* The write returns: its key has the new value, or is gone.
Finish ==
    /\ up /\ Writing
    /\ contents[key] = IF op = "put" THEN version ELSE 0
    /\ op' = "none" /\ key' = NoKey
    /\ UNCHANGED <<contents, version, up, answer>>

\* A get finds what the map holds at that moment, and returns it.
Answer ==
    /\ up /\ op = "get" /\ answer = -1
    /\ answer' = contents[key]
    /\ UNCHANGED <<contents, version, up, op, key>>

Return ==
    /\ up /\ op = "get" /\ answer # -1
    /\ op' = "none" /\ key' = NoKey /\ answer' = -1
    /\ UNCHANGED <<contents, version, up>>

\* The process ends, by a crash or a close.  No key but the one being written changes.
Down ==
    /\ up
    /\ up' = FALSE
    /\ answer' = -1
    /\ IF Writing
       THEN /\ \E v \in 0..version : contents' = [contents EXCEPT ![key] = v]
            /\ UNCHANGED <<op, key>>
       ELSE /\ op' = "none" /\ key' = NoKey
            /\ UNCHANGED contents
    /\ UNCHANGED version

\* The database is opened again; whatever the interrupted write left is its key's value.
Up ==
    /\ ~up
    /\ up' = TRUE
    /\ op' = "none" /\ key' = NoKey
    /\ UNCHANGED <<contents, version, answer>>

Next ==
    \/ \E k \in Keys, o \in {"put", "remove", "get"} : Begin(o, k)
    \/ Progress \/ Finish \/ Answer \/ Return \/ Down \/ Up

Spec == Init /\ [][Next]_mapVars
=============================================================================
