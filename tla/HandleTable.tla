----------------------------- MODULE HandleTable ----------------------------
(***************************************************************************)
(* What a generation-checked container promises its users: a handle names  *)
(* one object, from the Add that returned it to its Remove, and never      *)
(* another one afterwards.  Slots, their reuse and their generations are   *)
(* invisible here.                                                         *)
(***************************************************************************)
CONSTANTS Handle, Value

VARIABLES
  table,   \* the object of every live handle
  issued   \* the handles Add has ever returned

vars == <<table, issued>>

Init == table = [h \in {} |-> h] /\ issued = {}

Add(h, v) ==
  /\ h \notin issued
  /\ table' = [k \in DOMAIN table \cup {h} |-> IF k = h THEN v ELSE table[k]]
  /\ issued' = issued \cup {h}

Write(h, v) ==
  /\ h \in DOMAIN table
  /\ table' = [table EXCEPT ![h] = v]
  /\ UNCHANGED issued

Remove(h) ==
  /\ h \in DOMAIN table
  /\ table' = [k \in DOMAIN table \ {h} |-> table[k]]
  /\ UNCHANGED issued

Next ==
  \E h \in Handle :
    \/ \E v \in Value : Add(h, v) \/ Write(h, v)
    \/ Remove(h)

Spec == Init /\ [][Next]_vars

=============================================================================
