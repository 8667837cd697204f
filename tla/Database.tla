------------------------------ MODULE Database ------------------------------
(***************************************************************************)
(* A database of the radix engine from the outside: the pool it lives in,  *)
(* opened, closed and lost by several processes (PoolOpening), and what    *)
(* the process that has it open does with it (RadixSession).  Another      *)
(* engine, with a comparator, competes for the same path; its records are  *)
(* not modelled here.                                                      *)
(***************************************************************************)
EXTENDS PoolOpening, RadixSession

ASSUME RadixAssumption == "radix" \in Engines \ Compares

vars == <<poolVars, sessionVars>>

Init == PoolInit /\ SessionInit

\* The process that has the records before it.
User(p) == pc[p] = "up" /\ Engine(p) = "radix"

Open ==
  /\ AppDeletesTorn \/ \E p \in Process : OpeningStep(p)
  /\ UNCHANGED sessionVars

Use ==
  /\ \E p \in Process : User(p)
  /\ SessionStep
  /\ returned' = Nothing
  /\ UNCHANGED <<file, root, owner, lent, pc, call, calm>>

\* pmemkv_close comes between calls; transactions and iterators do not outlive it.
CloseDatabase(p) ==
  /\ Close(p)
  /\ IF User(p) THEN Idle /\ SessionEnd ELSE UNCHANGED sessionVars

ProcessEnds(p) ==
  /\ Crash(p)
  /\ IF User(p) THEN SessionEnd ELSE UNCHANGED sessionVars

Next == Open \/ Use \/ \E p \in Process : CloseDatabase(p) \/ ProcessEnds(p)

Spec == Init /\ [][Next]_vars

\* The types of both parts.  There are records only in a pool whose root a
\* radix engine has made.
TypeOK ==
  /\ PoolTypeOK /\ SessionTypeOK
  /\ Present(map) # {} => root.state = "made" /\ root.engine = "radix"
=============================================================================
