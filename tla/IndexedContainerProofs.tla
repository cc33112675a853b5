------------------------ MODULE IndexedContainerProofs ----------------------
(***************************************************************************)
(* Proofs about IndexedContainer, for every set of values and every bound  *)
(* on slots and generations: it is well typed, no issued Index reads a     *)
(* free slot, and it implements HandleTable.                               *)
(***************************************************************************)
EXTENDS IndexedContainer, TLAPS

\* Every call keeps the container well typed.
LEMMA TypeStep ==
  ASSUME TypeOK, [Next]_vars
  PROVE  TypeOK'
<1>1. ASSUME NEW v \in Value, Grow(v) PROVE TypeOK'
  <2>1. length' \in 0 .. MaxSlots /\ Slot' = 0 .. length /\ length \in 0 .. MaxSlots - 1
    BY <1>1, ContainerAssumption DEF Grow, TypeOK, Slot
  <2>2. value' \in [Slot' -> Value \cup {Invalid}]
    BY <1>1, <2>1 DEF Grow, TypeOK, Slot
  <2>3. generation' \in [Slot' -> 0 .. MaxGeneration]
    BY <1>1, <2>1, ContainerAssumption DEF Grow, TypeOK, Slot
  <2>4. issued' \subseteq Index
    BY <1>1, <2>1, ContainerAssumption DEF Grow, TypeOK, Index, IndexOf
  <2> QED BY <2>1, <2>2, <2>3, <2>4 DEF TypeOK
<1>2. ASSUME NEW v \in Value, Reuse(v) PROVE TypeOK'
  <2>1. PICK i \in Free : /\ value' = [value EXCEPT ![i] = v]
                          /\ issued' = issued \cup {IndexOf(i, generation[i])}
    BY <1>2 DEF Reuse
  <2>2. UNCHANGED <<length, generation, Slot>>
    BY <1>2 DEF Reuse, Slot
  <2>3. IndexOf(i, generation[i]) \in Index
    BY <2>1, ContainerAssumption DEF Free, Slot, TypeOK, Index, IndexOf
  <2> QED BY <2>1, <2>2, <2>3 DEF TypeOK, Free
<1>3. ASSUME NEW idx \in issued, Remove(idx) PROVE TypeOK'
  <2>1. UNCHANGED <<length, issued, Slot>> /\ idx.index \in Slot
    BY <1>3 DEF Remove, Accepts, Slot
  <2>2. generation' \in [Slot -> 0 .. MaxGeneration]
    BY <1>3, <2>1, ContainerAssumption DEF Remove, TypeOK
  <2> QED BY <1>3, <2>1, <2>2 DEF Remove, TypeOK
<1>4. ASSUME NEW idx \in issued, NEW v \in Value, Write(idx, v) PROVE TypeOK'
  BY <1>4 DEF Write, TypeOK, Slot
<1>5. CASE UNCHANGED vars
  BY <1>5 DEF vars, TypeOK, Slot
<1> QED BY <1>1, <1>2, <1>3, <1>4, <1>5 DEF Next, Add

\* The container is well typed after every sequence of calls.
THEOREM TypeCorrect == Spec => []TypeOK
<1>1. Init => TypeOK
  BY ContainerAssumption DEF Init, TypeOK, Slot
<1> QED BY <1>1, TypeStep, PTL DEF Spec

-----------------------------------------------------------------------------
\* Add fills a slot i that was free or new, hands out its Index, and that
\* Index was never issued before.
LEMMA AddFillsOneSlot ==
  ASSUME TypeOK, IssuedAreUsedOrStale, NEW v \in Value, Add(v)
  PROVE  \E i \in Slot' :
           /\ i \in Free \/ i \notin Slot
           /\ Slot' = Slot \cup {i}
           /\ \A j \in Slot' : value'[j] = IF j = i THEN v ELSE value[j]
           /\ \A j \in Slot : generation'[j] = generation[j]
           /\ issued' = issued \cup {IndexOf(i, generation'[i])}
           /\ IndexOf(i, generation'[i]) \notin issued
<1>1. CASE Grow(v)
  <2>1. length \in Nat /\ length \notin Slot
    BY ContainerAssumption DEF TypeOK, Slot
  <2>2. Slot' = Slot \cup {length} /\ Slot' = 0 .. length /\ length \in Slot'
    BY <1>1, <2>1 DEF Grow, Slot
  <2>3. \A j \in Slot' : value'[j] = IF j = length THEN v ELSE value[j]
    BY <1>1, <2>2 DEF Grow
  <2>4. (\A j \in Slot : generation'[j] = generation[j]) /\ generation'[length] = 0
    BY <1>1, <2>1, <2>2 DEF Grow
  <2>5. IndexOf(length, 0) \notin issued
    BY <2>1 DEF IssuedAreUsedOrStale, IndexOf
  <2>6. issued' = issued \cup {IndexOf(length, 0)}
    BY <1>1 DEF Grow
  <2> QED BY <2>1, <2>2, <2>3, <2>4, <2>5, <2>6
<1>2. CASE Reuse(v)
  <2>1. PICK i \in Free : /\ value' = [value EXCEPT ![i] = v]
                          /\ issued' = issued \cup {IndexOf(i, generation[i])}
    BY <1>2 DEF Reuse
  <2>2. Slot' = Slot /\ generation' = generation /\ i \in Slot
    BY <1>2, <2>1 DEF Reuse, Slot, Free
  <2>3. IndexOf(i, generation[i]) \notin issued
    BY DEF IssuedAreUsedOrStale, IndexOf, Free
  <2>4. \A j \in Slot : value'[j] = IF j = i THEN v ELSE value[j]
    BY <2>1 DEF TypeOK
  <2> QED BY <2>1, <2>2, <2>3, <2>4
<1> QED BY <1>1, <1>2 DEF Add

\* After every sequence of calls, an Index ever issued is stale or in use.
THEOREM IssuedCorrect == Spec => []IssuedAreUsedOrStale
<1>1. Init => IssuedAreUsedOrStale
  BY DEF Init, IssuedAreUsedOrStale, Slot, Free
<1>2. TypeOK /\ IssuedAreUsedOrStale /\ [Next]_vars => IssuedAreUsedOrStale'
  <2> SUFFICES ASSUME TypeOK, IssuedAreUsedOrStale, [Next]_vars
               PROVE  IssuedAreUsedOrStale'
    OBVIOUS
  <2>1. ASSUME NEW v \in Value, Add(v) PROVE IssuedAreUsedOrStale'
    <3>1. PICK i \in Slot' :
             /\ i \in Free \/ i \notin Slot
             /\ Slot' = Slot \cup {i}
             /\ \A j \in Slot' : value'[j] = IF j = i THEN v ELSE value[j]
             /\ \A j \in Slot : generation'[j] = generation[j]
             /\ issued' = issued \cup {IndexOf(i, generation'[i])}
      BY <2>1, AddFillsOneSlot
    <3>2. v # Invalid
      BY ContainerAssumption
    <3>3. generation'[i] \in Int
      <4>1. TypeOK'
        BY <2>1, TypeStep DEF Next
      <4> QED BY <4>1, ContainerAssumption DEF TypeOK
    <3>4. \A idx \in issued :
            /\ idx.index \in Slot'
            /\ idx.generationIndex <= generation'[idx.index]
            /\ idx.generationIndex = generation'[idx.index] => value'[idx.index] # Invalid
      BY <3>1, <3>2 DEF IssuedAreUsedOrStale, IsInvalid
    <3>5. \A j \in Slot' : value'[j] # Invalid => IndexOf(j, generation'[j]) \in issued'
      BY <3>1 DEF IssuedAreUsedOrStale, IsInvalid, Free
    <3> QED BY <3>1, <3>2, <3>3, <3>4, <3>5 DEF IssuedAreUsedOrStale, IsInvalid, Free, IndexOf
  <2>2. ASSUME NEW idx \in issued, Remove(idx) PROVE IssuedAreUsedOrStale'
    <3> DEFINE i == idx.index
    <3>1. /\ i \in Slot /\ idx.generationIndex = generation[i]
          /\ Slot' = Slot /\ issued' = issued
          /\ value' = [value EXCEPT ![i] = Invalid]
          /\ generation' = [generation EXCEPT ![i] = @ + 1]
      BY <2>2 DEF Remove, Accepts, Slot
    <3>2. \A j \in Slot : /\ generation[j] \in Int
                          /\ generation'[j] = IF j = i THEN generation[j] + 1 ELSE generation[j]
                          /\ value'[j] = IF j = i THEN Invalid ELSE value[j]
      BY <3>1, ContainerAssumption DEF TypeOK
    <3>3. \A k \in issued : k.generationIndex \in Int
      BY ContainerAssumption DEF TypeOK, Index
    <3> HIDE DEF i
    <3> QED BY <3>1, <3>2, <3>3 DEF IssuedAreUsedOrStale, IsInvalid, Free
  <2>3. ASSUME NEW idx \in issued, NEW v \in Value, Write(idx, v) PROVE IssuedAreUsedOrStale'
    <3>1. /\ Slot' = Slot /\ issued' = issued /\ generation' = generation
          /\ idx.index \in Slot /\ ~IsInvalid(idx.index)
      BY <2>3 DEF Write, Accepts, Slot, IssuedAreUsedOrStale
    <3>2. \A j \in Slot : value'[j] = Invalid <=> value[j] = Invalid
      BY <2>3, <3>1, ContainerAssumption DEF Write, TypeOK, IsInvalid
    <3> QED BY <3>1, <3>2 DEF IssuedAreUsedOrStale, IsInvalid, Free
  <2>4. CASE UNCHANGED vars
    BY <2>4 DEF vars, IssuedAreUsedOrStale, Slot, Free, IsInvalid
  <2> QED BY <2>1, <2>2, <2>3, <2>4 DEF Next
<1> QED BY <1>1, <1>2, TypeCorrect, PTL DEF Spec

-----------------------------------------------------------------------------
\* An Add of the container is an Add of the table, under the new Index.
LEMMA AddRefines ==
  ASSUME TypeOK, IssuedAreUsedOrStale, NEW v \in Value, Add(v)
  PROVE  \E h \in Index : HT!Add(h, v)
<1>1. PICK i \in Slot' :
         /\ i \in Free \/ i \notin Slot
         /\ Slot' = Slot \cup {i}
         /\ \A j \in Slot' : value'[j] = IF j = i THEN v ELSE value[j]
         /\ \A j \in Slot : generation'[j] = generation[j]
         /\ issued' = issued \cup {IndexOf(i, generation'[i])}
         /\ IndexOf(i, generation'[i]) \notin issued
  BY AddFillsOneSlot
<1> DEFINE h == IndexOf(i, generation'[i])
<1>2. h \in Index
  <2>1. TypeOK'
    BY TypeStep DEF Next
  <2> QED BY <1>1, <2>1 DEF TypeOK
<1>3. Slot' \ Free' = (Slot \ Free) \cup {i} /\ i \notin Slot \ Free
  BY <1>1, ContainerAssumption DEF Free, IsInvalid
<1>4. Live' = Live \cup {h} /\ h.index = i
  BY <1>1, <1>3 DEF Live, IndexOf
<1>5. \A k \in Live : k # h /\ value'[k.index] = value[k.index]
  BY <1>1, <1>3 DEF Live, IndexOf
<1>6. value'[h.index] = v
  BY <1>1, <1>4
<1>7. \A k \in Live : Table[k] = value[k.index]
  BY DEF Table
<1>8. DOMAIN Table = Live
  BY DEF Table
<1>9. Table' = [k \in Live \cup {h} |-> IF k = h THEN v ELSE Table[k]]
  <2>1. Table' = [k \in Live' |-> value'[k.index]]
    BY DEF Table
  <2> HIDE DEF h
  <2>2. \A k \in Live' : value'[k.index] = IF k = h THEN v ELSE Table[k]
    BY <1>4, <1>5, <1>6, <1>7
  <2> QED BY <1>4, <2>1, <2>2
<1> QED BY <1>1, <1>2, <1>8, <1>9 DEF HT!Add

\* A Remove of an issued Index is a Remove of the table.
LEMMA RemoveRefines ==
  ASSUME TypeOK, IssuedAreUsedOrStale, NEW idx \in issued, Remove(idx)
  PROVE  idx \in Index /\ HT!Remove(idx)
<1> DEFINE i == idx.index
<1>1. /\ i \in Slot /\ idx.generationIndex = generation[i] /\ ~IsInvalid(i)
      /\ Slot' = Slot /\ issued' = issued
  BY DEF Remove, Accepts, Slot, IssuedAreUsedOrStale
<1>2. \A j \in Slot \ {i} : generation'[j] = generation[j] /\ value'[j] = value[j]
  BY DEF Remove, TypeOK
<1>3. value'[i] = Invalid
  BY <1>1 DEF Remove, TypeOK
<1>4. idx \in Index /\ idx = IndexOf(i, generation[i])
  BY <1>1 DEF TypeOK, Index, IndexOf
<1>5. Slot' \ Free' = (Slot \ Free) \ {i}
  BY <1>1, <1>2, <1>3 DEF Free, IsInvalid
<1>6. Live' = Live \ {idx} /\ idx \in Live
  BY <1>1, <1>2, <1>4, <1>5 DEF Live, IndexOf, Free
<1>7. \A k \in Live' : value'[k.index] = value[k.index]
  BY <1>1, <1>2, <1>5 DEF Live, IndexOf
<1>8. Table' = [k \in Live' |-> value'[k.index]] /\ DOMAIN Table = Live
  BY DEF Table
<1>9. \A k \in Live : Table[k] = value[k.index]
  BY DEF Table
<1>10. Table' = [k \in DOMAIN Table \ {idx} |-> Table[k]]
  BY <1>6, <1>7, <1>8, <1>9
<1> QED BY <1>1, <1>4, <1>6, <1>8, <1>10 DEF HT!Remove

\* A Write through an issued Index is a Write of the table.
LEMMA WriteRefines ==
  ASSUME TypeOK, IssuedAreUsedOrStale, NEW idx \in issued, NEW v \in Value, Write(idx, v)
  PROVE  idx \in Index /\ HT!Write(idx, v)
<1> DEFINE i == idx.index
<1>1. /\ i \in Slot /\ idx.generationIndex = generation[i] /\ ~IsInvalid(i)
      /\ Slot' = Slot /\ issued' = issued /\ generation' = generation
  BY DEF Write, Accepts, Slot, IssuedAreUsedOrStale
<1>2. \A j \in Slot : value'[j] = IF j = i THEN v ELSE value[j]
  BY DEF Write, TypeOK
<1>3. idx \in Index /\ idx = IndexOf(i, generation[i])
  BY <1>1 DEF TypeOK, Index, IndexOf
<1>4. Slot' \ Free' = Slot \ Free
  BY <1>1, <1>2, ContainerAssumption DEF Free, IsInvalid
<1>5. Live' = Live /\ idx \in Live
  BY <1>1, <1>3, <1>4 DEF Live, Free
<1>6. \A k \in Live : k.index \in Slot /\ (k.index = i => k = idx)
  BY <1>3 DEF Live, IndexOf
<1>7. Table' = [k \in Live' |-> value'[k.index]] /\ DOMAIN Table = Live
  BY DEF Table
<1>8. \A k \in Live : Table[k] = value[k.index]
  BY DEF Table
<1>9. \A k \in Live : value'[k.index] = IF k = idx THEN v ELSE Table[k]
  BY <1>2, <1>6, <1>8
<1>10. Table' = [Table EXCEPT ![idx] = v]
  <2>1. Table = [k \in Live |-> value[k.index]]
    BY DEF Table
  <2>2. [Table EXCEPT ![idx] = v] = [k \in Live |-> IF k = idx THEN v ELSE Table[k]]
    BY <2>1
  <2> QED BY <1>5, <1>7, <1>9, <2>2
<1> QED BY <1>1, <1>3, <1>5, <1>7, <1>10 DEF HT!Write

\* The container implements HandleTable: every step maps to a step or a
\* stutter, so a handle names one object between its Add and its Remove.
THEOREM Refinement == Spec => ImplementsHandleTable
<1>1. Init => HT!Init
  <2> SUFFICES ASSUME Init PROVE HT!Init
    OBVIOUS
  <2>1. Live = {} /\ issued = {}
    BY DEF Init, Live, Slot
  <2>2. Table = [k \in {} |-> k]
    BY <2>1 DEF Table
  <2> QED BY <2>1, <2>2 DEF HT!Init
<1>2. TypeOK /\ IssuedAreUsedOrStale /\ [Next]_vars => [HT!Next]_(HT!vars)
  <2> SUFFICES ASSUME TypeOK, IssuedAreUsedOrStale, [Next]_vars
               PROVE  HT!Next \/ UNCHANGED HT!vars
    OBVIOUS
  <2>1. ASSUME NEW v \in Value, Add(v) PROVE HT!Next
    BY <2>1, AddRefines DEF HT!Next
  <2>2. ASSUME NEW idx \in issued, Remove(idx) PROVE HT!Next
    BY <2>2, RemoveRefines DEF HT!Next
  <2>3. ASSUME NEW idx \in issued, NEW v \in Value, Write(idx, v) PROVE HT!Next
    BY <2>3, WriteRefines DEF HT!Next
  <2>4. CASE UNCHANGED vars
    BY <2>4 DEF vars, HT!vars, Table, Live, Slot, Free, IsInvalid
  <2> QED BY <2>1, <2>2, <2>3, <2>4 DEF Next
<1> QED BY <1>1, <1>2, TypeCorrect, IssuedCorrect, PTL DEF Spec, HT!Spec, ImplementsHandleTable

=============================================================================
