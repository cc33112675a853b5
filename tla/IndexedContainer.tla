-------------------------- MODULE IndexedContainer --------------------------
(***************************************************************************)
(* core::IndexedContainer (core/include/container/indexed_container.h):    *)
(* the vector of (value, generation) slots in which PhysicsWorld keeps its *)
(* bodies and colliders.  A slot whose value is invalid is free; Add takes *)
(* the first free slot, Remove frees a slot and bumps its generation, and  *)
(* an Index (slot, generation) is refused once the generations differ.     *)
(*                                                                         *)
(* Users hold any Index they were ever given and may pass a stale one; the *)
(* values they put in are valid ones, as Body(mass) with mass >= 0 and a   *)
(* Collider with its collider_idx are.                                     *)
(***************************************************************************)
EXTENDS Integers

CONSTANTS
  Value,          \* the values of T that are not IsInvalid()
  Invalid,        \* T::GenerateInvalidValue()
  MaxSlots,       \* bound: the longest vector
  MaxGeneration   \* bound: the largest generation, far from overflow

ASSUME ContainerAssumption ==
  /\ Invalid \notin Value
  /\ MaxSlots \in Nat
  /\ MaxGeneration \in Nat

VARIABLES
  length,      \* values_.size()
  value,       \* values_[i].first
  generation,  \* values_[i].second
  issued       \* every Index that Add returned so far (a history variable)

vars == <<length, value, generation, issued>>

Slot == 0 .. length - 1

\* Index<T>: a slot number and the generation it was handed out with.
Index == [index : 0 .. MaxSlots - 1, generationIndex : 0 .. MaxGeneration]

IndexOf(i, g) == [index |-> i, generationIndex |-> g]

Init ==
  /\ length = 0
  /\ value = [i \in {} |-> Invalid]
  /\ generation = [i \in {} |-> 0]
  /\ issued = {}

-----------------------------------------------------------------------------
IsInvalid(i) == value[i] = Invalid

Free == {i \in Slot : IsInvalid(i)}

\* At() and Remove() throw on an index whose generation differs.
Accepts(idx) ==
  /\ idx.index \in Slot
  /\ generation[idx.index] = idx.generationIndex

\* Faulty Grow: takes the size for the Index after push_back.
GrowBeforeIndex(v) ==
  /\ Free = {}
  /\ length < MaxSlots
  /\ length' = length + 1
  /\ value' = [i \in 0 .. length |-> IF i = length THEN v ELSE value[i]]
  /\ generation' = [i \in 0 .. length |-> IF i = length THEN 0 ELSE generation[i]]
  /\ issued' = issued \cup {IndexOf(length + 1, 0)}

\* Add, no slot is free: push_back of generation 0.
Grow(v) ==
  /\ Free = {}
  /\ length < MaxSlots
  /\ length' = length + 1
  /\ value' = [i \in 0 .. length |-> IF i = length THEN v ELSE value[i]]
  /\ generation' = [i \in 0 .. length |-> IF i = length THEN 0 ELSE generation[i]]
  /\ issued' = issued \cup {IndexOf(length, 0)}

\* Faulty Reuse: assigns {new_value, 0}.
ReuseRestarting(v) ==
  \E i \in Free :
    /\ \A j \in Free : i <= j
    /\ value' = [value EXCEPT ![i] = v]
    /\ generation' = [generation EXCEPT ![i] = 0]
    /\ issued' = issued \cup {IndexOf(i, 0)}
    /\ UNCHANGED length

\* Add, into the first free slot, whose generation stays.
Reuse(v) ==
  \E i \in Free :
    /\ \A j \in Free : i <= j
    /\ value' = [value EXCEPT ![i] = v]
    /\ issued' = issued \cup {IndexOf(i, generation[i])}
    /\ UNCHANGED <<length, generation>>

Add(v) == Grow(v) \/ Reuse(v)

\* Assignment through the reference At() returns.
Write(idx, v) ==
  /\ Accepts(idx)
  /\ value' = [value EXCEPT ![idx.index] = v]
  /\ UNCHANGED <<length, generation, issued>>

\* Faulty Remove, without ++pair.second.
RemoveKeepingGeneration(idx) ==
  /\ Accepts(idx)
  /\ value' = [value EXCEPT ![idx.index] = Invalid]
  /\ UNCHANGED <<length, generation, issued>>

\* Frees the slot; every Index to it goes stale.
Remove(idx) ==
  /\ Accepts(idx)
  /\ generation[idx.index] < MaxGeneration
  /\ value' = [value EXCEPT ![idx.index] = Invalid]
  /\ generation' = [generation EXCEPT ![idx.index] = @ + 1]
  /\ UNCHANGED <<length, issued>>

Next ==
  \/ \E v \in Value : Add(v)
  \/ \E idx \in issued : Remove(idx) \/ \E v \in Value : Write(idx, v)

Spec == Init /\ [][Next]_vars

-----------------------------------------------------------------------------
(* Properties. *)

\* Every variable has its type.
TypeOK ==
  /\ length \in 0 .. MaxSlots
  /\ value \in [Slot -> Value \cup {Invalid}]
  /\ generation \in [Slot -> 0 .. MaxGeneration]
  /\ issued \subseteq Index

\* Generations tell the past from the present: an Index once issued is either
\* of an earlier generation of its slot or names a value in use, and a value
\* in use has been issued its Index.  So no Index a user may still hold ever
\* reads a free slot.
IssuedAreUsedOrStale ==
  /\ \A idx \in issued :
       /\ idx.index \in Slot
       /\ idx.generationIndex <= generation[idx.index]
       /\ idx.generationIndex = generation[idx.index] => ~IsInvalid(idx.index)
  /\ \A i \in Slot \ Free : IndexOf(i, generation[i]) \in issued

\* The indices At() accepts for the slots in use.
Live == {IndexOf(i, generation[i]) : i \in Slot \ Free}

Table == [idx \in Live |-> value[idx.index]]

HT == INSTANCE HandleTable WITH Handle <- Index, table <- Table

\* An Index names one object from Add to Remove and none afterwards, however
\* slots are reused in between.
ImplementsHandleTable == HT!Spec

=============================================================================
