------------------------- MODULE ConcurrentHashMap -------------------------
(***************************************************************************)
(* What the two concurrent hash maps promise.  The persistent one, cmap,   *)
(* is a ConcurrentMap.  The volatile one, vcmap, has no crashes and makes  *)
(* two exceptions, both of its put, which inserts an empty value and       *)
(* assigns it afterwards: a remove may overtake it in between, and a put   *)
(* that fails there leaves the empty value.                                *)
(***************************************************************************)
EXTENDS ConcurrentMap

CONSTANT Empty

VARIABLE volatile

concurrentVars == <<mapVars, volatile>>

\* A put and the remove that overtakes it take effect together, the put first.
Overtaken(t, u) ==
  /\ phase[t] = "called" /\ request[t].op = "put"
  /\ phase[u] = "called" /\ request[u].op = "remove" /\ request[u].key = request[t].key
  /\ store' = [store EXCEPT ![request[t].key] = NoValue]
  /\ phase' = [phase EXCEPT ![t] = "done", ![u] = "done"]
  /\ UNCHANGED <<request, answer>>

FailureLeavesEmpty(t) ==
  /\ phase[t] = "called" /\ request[t].op = "put" /\ store[request[t].key] = NoValue
  /\ store' = [store EXCEPT ![request[t].key] = Empty]
  /\ phase' = [phase EXCEPT ![t] = "done"]
  /\ UNCHANGED <<request, answer>>

CallStep(t) ==
  \/ \E r \in Requests : Call(t, r)
  \/ Effect(t) \/ Failure(t) \/ Return(t) \/ Open(t) \/ Update(t) \/ Close(t)

HashMapInit == Init /\ volatile \in BOOLEAN

HashMapNext ==
  /\ \/ \E t \in Threads : CallStep(t)
     \/ ~volatile /\ Crash
     \/ volatile /\ \E t \in Threads : FailureLeavesEmpty(t) \/ \E u \in Threads : Overtaken(t, u)
  /\ UNCHANGED volatile

\* Most steps of a map change nothing here; said first, TLC need not look at the rest.
HashMapSpec == HashMapInit /\ [][UNCHANGED concurrentVars \/ HashMapNext]_concurrentVars
=============================================================================
