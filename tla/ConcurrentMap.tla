--------------------------- MODULE ConcurrentMap ---------------------------
(***************************************************************************)
(* What a concurrent persistent engine promises (libpmemkv.7 and           *)
(* ENGINES-experimental.md: "All methods of csmap are thread safe"): each  *)
(* put, remove and get takes effect at one moment between its call and its *)
(* return, a get answers what is stored at that moment, and a crash leaves *)
(* exactly the effects that have happened.                                 *)
(***************************************************************************)
EXTENDS Integers

CONSTANTS Threads, Keys, Values, NoValue

VARIABLES
  store,   \* key -> value, NoValue if absent
  phase,   \* thread -> idle, called, done or cursor
  request, \* thread -> its call
  answer   \* thread -> what its call found, for a get

mapVars == <<store, phase, request, answer>>

Requests == [op : {"put", "remove", "get"}, key : Keys, value : Values \cup {NoValue}]
NoRequest == [op |-> "none"]

Init ==
  /\ store = [k \in Keys |-> NoValue]
  /\ phase = [t \in Threads |-> "idle"]
  /\ request = [t \in Threads |-> NoRequest]
  /\ answer = [t \in Threads |-> NoValue]

Call(t, r) ==
  /\ phase[t] = "idle"
  /\ phase' = [phase EXCEPT ![t] = "called"]
  /\ request' = [request EXCEPT ![t] = r]
  /\ UNCHANGED <<store, answer>>

\* The one moment at which the call of t takes effect.
Effect(t) ==
  /\ phase[t] = "called"
  /\ phase' = [phase EXCEPT ![t] = "done"]
  /\ CASE request[t].op = "put" ->
            store' = [store EXCEPT ![request[t].key] = request[t].value] /\ UNCHANGED answer
       [] request[t].op = "remove" ->
            store' = [store EXCEPT ![request[t].key] = NoValue] /\ UNCHANGED answer
       [] request[t].op = "get" ->
            answer' = [answer EXCEPT ![t] = store[request[t].key]] /\ UNCHANGED store
  /\ UNCHANGED request

\* A put that fails has no effect at all.
Failure(t) ==
  /\ phase[t] = "called" /\ request[t].op = "put"
  /\ phase' = [phase EXCEPT ![t] = "done"]
  /\ UNCHANGED <<store, request, answer>>

Return(t) ==
  /\ phase[t] = "done"
  /\ phase' = [phase EXCEPT ![t] = "idle"]
  /\ request' = [request EXCEPT ![t] = NoRequest]
  /\ answer' = [answer EXCEPT ![t] = NoValue]
  /\ UNCHANGED store

\* A cursor is opened, replaces the value of a record that exists, and is closed.
Open(t) ==
  /\ phase[t] = "idle"
  /\ phase' = [phase EXCEPT ![t] = "cursor"]
  /\ UNCHANGED <<store, request, answer>>
Update(t) ==
  /\ phase[t] = "cursor"
  /\ \E k \in Keys, v \in Values :
       store[k] # NoValue /\ store' = [store EXCEPT ![k] = v]
  /\ UNCHANGED <<phase, request, answer>>
Close(t) ==
  /\ phase[t] = "cursor"
  /\ phase' = [phase EXCEPT ![t] = "idle"]
  /\ UNCHANGED <<store, request, answer>>

Crash ==
  /\ phase' = [t \in Threads |-> "idle"]
  /\ request' = [t \in Threads |-> NoRequest]
  /\ answer' = [t \in Threads |-> NoValue]
  /\ UNCHANGED store

Next ==
  \/ \E t \in Threads : \/ \E r \in Requests : Call(t, r)
                        \/ Effect(t) \/ Failure(t) \/ Return(t)
                        \/ Open(t) \/ Update(t) \/ Close(t)
  \/ Crash

Spec == Init /\ [][Next]_mapVars
=============================================================================
