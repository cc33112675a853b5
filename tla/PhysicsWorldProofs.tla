------------------------- MODULE PhysicsWorldProofs -------------------------
(***************************************************************************)
(* Proofs about PhysicsWorld, for all places, any number of bodies and     *)
(* colliders, and any use of the world: it is well typed, and its overlaps *)
(* are always between colliders in use.                                    *)
(***************************************************************************)
EXTENDS PhysicsWorld, TLAPS, FiniteSetTheorems

\* The bounds are natural numbers.
LEMMA BoundsAreNat ==
  /\ BodySlots \in Nat /\ ColliderSlots \in Nat
  /\ MaxBodyGeneration \in Nat /\ MaxColliderGeneration \in Nat
  /\ MaxReferences \in Nat
BY WorldAssumption

-----------------------------------------------------------------------------
(* bodies_ *)

\* Every operation keeps the bodies well typed.
LEMMA BodiesStep ==
  ASSUME Bodies!TypeOK, [Bodies!Next]_(Bodies!vars)
  PROVE  Bodies!TypeOK'
<1>1. ASSUME NEW v \in Place, Bodies!Grow(v) PROVE Bodies!TypeOK'
  <2>1. /\ body_length' \in 0 .. BodySlots /\ body_length \in 0 .. BodySlots - 1
        /\ Bodies!Slot' = 0 .. body_length
    BY <1>1, BoundsAreNat DEF Bodies!Grow, Bodies!TypeOK, Bodies!Slot
  <2>2. body' \in [Bodies!Slot' -> Place \cup {Invalid}]
    BY <1>1, <2>1 DEF Bodies!Grow, Bodies!TypeOK, Bodies!Slot
  <2>3. body_generation' \in [Bodies!Slot' -> 0 .. MaxBodyGeneration]
    BY <1>1, <2>1, BoundsAreNat DEF Bodies!Grow, Bodies!TypeOK, Bodies!Slot
  <2>4. body_issued' \subseteq Bodies!Index
    BY <1>1, <2>1, BoundsAreNat DEF Bodies!Grow, Bodies!TypeOK, Bodies!Index, Bodies!IndexOf
  <2> QED BY <2>1, <2>2, <2>3, <2>4 DEF Bodies!TypeOK
<1>2. ASSUME NEW v \in Place, Bodies!Reuse(v) PROVE Bodies!TypeOK'
  <2>1. PICK i \in Bodies!Free :
           /\ body' = [body EXCEPT ![i] = v]
           /\ body_issued' = body_issued \cup {Bodies!IndexOf(i, body_generation[i])}
    BY <1>2 DEF Bodies!Reuse
  <2>2. UNCHANGED <<body_length, body_generation, Bodies!Slot>>
    BY <1>2 DEF Bodies!Reuse, Bodies!Slot
  <2>3. Bodies!IndexOf(i, body_generation[i]) \in Bodies!Index
    BY <2>1, BoundsAreNat
       DEF Bodies!Free, Bodies!Slot, Bodies!TypeOK, Bodies!Index, Bodies!IndexOf
  <2> QED BY <2>1, <2>2, <2>3 DEF Bodies!TypeOK, Bodies!Free
<1>3. ASSUME NEW idx \in body_issued, Bodies!Remove(idx) PROVE Bodies!TypeOK'
  <2>1. UNCHANGED <<body_length, body_issued, Bodies!Slot>> /\ idx.index \in Bodies!Slot
    BY <1>3 DEF Bodies!Remove, Bodies!Accepts, Bodies!Slot
  <2>2. body_generation' \in [Bodies!Slot -> 0 .. MaxBodyGeneration]
    BY <1>3, <2>1, BoundsAreNat DEF Bodies!Remove, Bodies!TypeOK
  <2> QED BY <1>3, <2>1, <2>2 DEF Bodies!Remove, Bodies!TypeOK
<1>4. ASSUME NEW idx \in body_issued, NEW v \in Place, Bodies!Write(idx, v) PROVE Bodies!TypeOK'
  BY <1>4 DEF Bodies!Write, Bodies!TypeOK, Bodies!Slot
<1>5. CASE UNCHANGED Bodies!vars
  BY <1>5 DEF Bodies!vars, Bodies!TypeOK, Bodies!Slot
<1> QED BY <1>1, <1>2, <1>3, <1>4, <1>5 DEF Bodies!Next, Bodies!Add

\* At() on a known Index returns a body in use, or throws because it was removed.
BodyKnown(idx) ==
  /\ idx.index \in Bodies!Slot
  /\ idx.generationIndex <= body_generation[idx.index]
  /\ Bodies!Accepts(idx) => ~Bodies!IsInvalid(idx.index)

\* An Index names a body in use exactly when At() accepts it and the slot is not
\* free.
LEMMA BodiesLive ==
  Bodies!TypeOK =>
    /\ Bodies!Live \subseteq Bodies!Index
    /\ \A c \in Bodies!Index :
         c \in Bodies!Live <=> Bodies!Accepts(c) /\ ~Bodies!IsInvalid(c.index)
    /\ \A c \in Bodies!Live :
         /\ BodyKnown(c) /\ Bodies!Accepts(c) /\ ~Bodies!IsInvalid(c.index)
         /\ body[c.index] \in Place
<1> HAVE Bodies!TypeOK
<1>1. Bodies!Live \subseteq Bodies!Index
  BY BoundsAreNat DEF Bodies!TypeOK, Bodies!Live, Bodies!Index, Bodies!IndexOf, Bodies!Slot
<1>2. \A c \in Bodies!Index : c = Bodies!IndexOf(c.index, c.generationIndex)
  BY DEF Bodies!Index, Bodies!IndexOf
<1>3. \A c \in Bodies!Index : c \in Bodies!Live <=> Bodies!Accepts(c) /\ ~Bodies!IsInvalid(c.index)
  BY <1>2 DEF Bodies!Live, Bodies!IndexOf, Bodies!Accepts, Bodies!Free
<1>4. \A c \in Bodies!Live : BodyKnown(c) /\ body[c.index] \in Place
  BY <1>1, <1>3, BoundsAreNat
     DEF BodyKnown, Bodies!Accepts, Bodies!TypeOK, Bodies!Index, Bodies!IsInvalid
<1> QED BY <1>1, <1>3, <1>4

\* The same in the next state.
LEMMA BodiesLiveNext ==
  Bodies!TypeOK' =>
    (/\ Bodies!Live \subseteq Bodies!Index
     /\ \A c \in Bodies!Index :
          c \in Bodies!Live <=> Bodies!Accepts(c) /\ ~Bodies!IsInvalid(c.index)
     /\ \A c \in Bodies!Live :
          /\ BodyKnown(c) /\ Bodies!Accepts(c) /\ ~Bodies!IsInvalid(c.index)
          /\ body[c.index] \in Place)'
BY BodiesLive, PTL

\* Add returns an Index that never was one of a body, and changes no body in use.
LEMMA BodiesAdd ==
  ASSUME Bodies!TypeOK, NEW v \in Place, Bodies!Add(v)
  PROVE  \E h \in Bodies!Index :
           /\ ~BodyKnown(h) /\ h \notin Bodies!Live
           /\ Bodies!Live' = Bodies!Live \cup {h}
           /\ body_issued' = body_issued \cup {h}
           /\ body'[h.index] = v
           /\ \A c \in Bodies!Live : body'[c.index] = body[c.index]
           /\ \A c \in Bodies!Index : BodyKnown(c) => BodyKnown(c)'
           /\ Bodies!TypeOK'
<1>1. v # Invalid
  BY WorldAssumption
<1>2. \E i \in Bodies!Slot' :
        /\ i \in Bodies!Free \/ i \notin Bodies!Slot
        /\ Bodies!Slot' = Bodies!Slot \cup {i}
        /\ \A j \in Bodies!Slot' : body'[j] = IF j = i THEN v ELSE body[j]
        /\ \A j \in Bodies!Slot : body_generation'[j] = body_generation[j]
        /\ body_issued' = body_issued \cup {Bodies!IndexOf(i, body_generation'[i])}
  <2>1. CASE Bodies!Grow(v)
    <3>1. body_length \in Nat /\ body_length \notin Bodies!Slot
      BY BoundsAreNat DEF Bodies!TypeOK, Bodies!Slot
    <3>2. /\ Bodies!Slot' = Bodies!Slot \cup {body_length} /\ Bodies!Slot' = 0 .. body_length
          /\ body_length \in Bodies!Slot'
      BY <2>1, <3>1 DEF Bodies!Grow, Bodies!Slot
    <3>3. \A j \in Bodies!Slot' : body'[j] = IF j = body_length THEN v ELSE body[j]
      BY <2>1, <3>2 DEF Bodies!Grow
    <3>4. /\ \A j \in Bodies!Slot : body_generation'[j] = body_generation[j]
          /\ body_generation'[body_length] = 0
      BY <2>1, <3>1, <3>2 DEF Bodies!Grow
    <3>5. body_issued' = body_issued \cup {Bodies!IndexOf(body_length, 0)}
      BY <2>1 DEF Bodies!Grow
    <3> QED BY <3>1, <3>2, <3>3, <3>4, <3>5
  <2>2. CASE Bodies!Reuse(v)
    <3>1. PICK i \in Bodies!Free :
             /\ body' = [body EXCEPT ![i] = v]
             /\ body_issued' = body_issued \cup {Bodies!IndexOf(i, body_generation[i])}
      BY <2>2 DEF Bodies!Reuse
    <3>2. /\ Bodies!Slot' = Bodies!Slot /\ body_generation' = body_generation
          /\ i \in Bodies!Slot
      BY <2>2, <3>1 DEF Bodies!Reuse, Bodies!Slot, Bodies!Free
    <3>3. \A j \in Bodies!Slot : body'[j] = IF j = i THEN v ELSE body[j]
      BY <3>1 DEF Bodies!TypeOK
    <3> QED BY <3>1, <3>2, <3>3
  <2> QED BY <2>1, <2>2 DEF Bodies!Add
<1>3. PICK i \in Bodies!Slot' :
        /\ i \in Bodies!Free \/ i \notin Bodies!Slot
        /\ Bodies!Slot' = Bodies!Slot \cup {i}
        /\ \A j \in Bodies!Slot' : body'[j] = IF j = i THEN v ELSE body[j]
        /\ \A j \in Bodies!Slot : body_generation'[j] = body_generation[j]
        /\ body_issued' = body_issued \cup {Bodies!IndexOf(i, body_generation'[i])}
  BY <1>2
<1>4. Bodies!TypeOK'
  BY BodiesStep DEF Bodies!Next
<1> DEFINE h == Bodies!IndexOf(i, body_generation'[i])
<1>5. h \in Bodies!Index /\ h.index = i /\ h.generationIndex = body_generation'[i]
  <2>1. i \in 0 .. BodySlots - 1 /\ body_generation'[i] \in 0 .. MaxBodyGeneration
    <3>1. Bodies!Slot' = 0 .. body_length' - 1 /\ body_length' \in 0 .. BodySlots
      BY <1>4 DEF Bodies!TypeOK, Bodies!Slot
    <3>2. body_generation' \in [Bodies!Slot' -> 0 .. MaxBodyGeneration]
      BY <1>4 DEF Bodies!TypeOK
    <3> HIDE DEF h
    <3> QED BY <1>3, <3>1, <3>2, BoundsAreNat
  <2> QED BY <2>1 DEF Bodies!Index, Bodies!IndexOf
<1>6. ~BodyKnown(h)
  BY <1>3, <1>5 DEF BodyKnown, Bodies!Accepts, Bodies!Free
<1>7. \A c \in Bodies!Index :
        c \in Bodies!Live' <=>
          /\ c.index \in Bodies!Slot'
          /\ body_generation'[c.index] = c.generationIndex
          /\ body'[c.index] # Invalid
  BY <1>4, BodiesLiveNext DEF Bodies!Accepts, Bodies!IsInvalid
<1>8. \A c \in Bodies!Index :
        c \in Bodies!Live <=>
          /\ c.index \in Bodies!Slot
          /\ body_generation[c.index] = c.generationIndex
          /\ body[c.index] # Invalid
  BY BodiesLive DEF Bodies!Accepts, Bodies!IsInvalid
<1>9. \A c \in Bodies!Index : c = h <=> c.index = i /\ c.generationIndex = body_generation'[i]
  BY <1>5 DEF Bodies!Index, Bodies!IndexOf
<1> HIDE DEF h
<1>10. \A j \in Bodies!Slot : j = i => body[j] = Invalid
  BY <1>3 DEF Bodies!Free, Bodies!IsInvalid
<1>11. \A c \in Bodies!Index : c \in Bodies!Live' <=> c \in Bodies!Live \/ c = h
  BY <1>1, <1>3, <1>5, <1>7, <1>8, <1>9, <1>10
<1>12. Bodies!Live' \subseteq Bodies!Index /\ Bodies!Live \subseteq Bodies!Index
  BY <1>4, BodiesLive, BodiesLiveNext
<1>13. \A c \in Bodies!Live : body'[c.index] = body[c.index]
  BY <1>3, <1>8, <1>10, <1>12
<1>14. \A c \in Bodies!Index : BodyKnown(c) => BodyKnown(c)'
  BY <1>1, <1>3, <1>10 DEF BodyKnown, Bodies!Accepts, Bodies!IsInvalid
<1>15. Bodies!Live' = Bodies!Live \cup {h} /\ h \notin Bodies!Live
  <2>1. h \notin Bodies!Live
    BY <1>6, BodiesLive
  <2>2. h \in Bodies!Index
    BY <1>5
  <2> QED BY <2>1, <2>2, <1>11, <1>12
<1>16. body_issued' = body_issued \cup {h}
  BY <1>3 DEF h
<1>17. body'[h.index] = v
  BY <1>3, <1>5
<1> QED BY <1>4, <1>5, <1>6, <1>13, <1>14, <1>15, <1>16, <1>17

\* Remove frees the one slot of its Index.
LEMMA BodiesRemove ==
  ASSUME Bodies!TypeOK, NEW idx \in body_issued, Bodies!Remove(idx)
  PROVE  /\ Bodies!Live' = Bodies!Live \ {idx}
         /\ body_issued' = body_issued
         /\ ~Bodies!Accepts(idx)'
         /\ \A c \in Bodies!Live' : body'[c.index] = body[c.index]
         /\ \A c \in Bodies!Index : BodyKnown(c) => BodyKnown(c)'
         /\ Bodies!TypeOK'
<1> PICK i : i = idx.index
  OBVIOUS
<1>1. /\ i \in Bodies!Slot /\ idx.generationIndex = body_generation[i]
      /\ Bodies!Slot' = Bodies!Slot /\ body_issued' = body_issued
      /\ body' = [body EXCEPT ![i] = Invalid]
      /\ body_generation' = [body_generation EXCEPT ![i] = @ + 1]
  BY DEF Bodies!Remove, Bodies!Accepts, Bodies!Slot
<1>2. \A j \in Bodies!Slot :
        /\ body_generation[j] \in Int
        /\ body_generation'[j] = IF j = i THEN body_generation[j] + 1 ELSE body_generation[j]
        /\ body'[j] = IF j = i THEN Invalid ELSE body[j]
  BY <1>1, BoundsAreNat DEF Bodies!TypeOK
<1>3. Bodies!TypeOK'
  BY BodiesStep DEF Bodies!Next
<1>4. idx \in Bodies!Index
  BY DEF Bodies!TypeOK
<1>5. \A c \in Bodies!Index :
        /\ c.generationIndex \in Int
        /\ c = idx <=> c.index = i /\ c.generationIndex = body_generation[i]
  BY <1>1, <1>4, BoundsAreNat DEF Bodies!Index
<1>6. \A c \in Bodies!Index :
        c \in Bodies!Live' <=>
          /\ c.index \in Bodies!Slot'
          /\ body_generation'[c.index] = c.generationIndex
          /\ body'[c.index] # Invalid
  BY <1>3, BodiesLiveNext DEF Bodies!Accepts, Bodies!IsInvalid
<1>7. \A c \in Bodies!Index :
        c \in Bodies!Live <=>
          /\ c.index \in Bodies!Slot
          /\ body_generation[c.index] = c.generationIndex
          /\ body[c.index] # Invalid
  BY BodiesLive DEF Bodies!Accepts, Bodies!IsInvalid
<1>8. \A c \in Bodies!Index : c \in Bodies!Live' <=> c \in Bodies!Live /\ c # idx
  BY <1>1, <1>2, <1>5, <1>6, <1>7
<1>9. Bodies!Live' \subseteq Bodies!Index /\ Bodies!Live \subseteq Bodies!Index
  BY <1>3, BodiesLive, BodiesLiveNext
<1>10. \A c \in Bodies!Live' : body'[c.index] = body[c.index]
  BY <1>1, <1>2, <1>6, <1>9
<1>11. \A c \in Bodies!Index : BodyKnown(c) => BodyKnown(c)'
  <2> SUFFICES ASSUME NEW c \in Bodies!Index, BodyKnown(c) PROVE BodyKnown(c)'
    OBVIOUS
  <2>1. /\ c.index \in Bodies!Slot' /\ c.generationIndex \in Int
        /\ c.generationIndex <= body_generation[c.index]
    BY <1>1, <1>5 DEF BodyKnown
  <2>2. CASE c.index = i
    BY <1>1, <1>2, <2>1, <2>2 DEF BodyKnown, Bodies!Accepts
  <2>3. CASE c.index # i
    BY <1>1, <1>2, <2>1, <2>3 DEF BodyKnown, Bodies!Accepts, Bodies!IsInvalid
  <2> QED BY <2>2, <2>3
<1>12. ~Bodies!Accepts(idx)'
  BY <1>1, <1>2 DEF Bodies!Accepts
<1> QED BY <1>1, <1>3, <1>8, <1>9, <1>10, <1>11, <1>12

\* New values in the slots in use leave every Index what it is.
LEMMA BodiesWrite ==
  ASSUME Bodies!TypeOK,
         UNCHANGED <<body_length, body_generation, body_issued>>,
         body' \in [Bodies!Slot -> Place \cup {Invalid}],
         \A i \in Bodies!Slot : body'[i] = Invalid <=> body[i] = Invalid
  PROVE  /\ Bodies!Live' = Bodies!Live
         /\ \A c : BodyKnown(c)' <=> BodyKnown(c)
         /\ \A c : Bodies!Accepts(c)' <=> Bodies!Accepts(c)
         /\ Bodies!TypeOK'
<1>1. Bodies!Slot' = Bodies!Slot
  BY DEF Bodies!Slot
<1>2. Bodies!Free' = Bodies!Free
  BY <1>1 DEF Bodies!Free, Bodies!IsInvalid
<1>3. Bodies!TypeOK'
  BY <1>1 DEF Bodies!TypeOK
<1>4. Bodies!Live' = Bodies!Live
  BY <1>1, <1>2 DEF Bodies!Live, Bodies!IndexOf
<1>5. \A c : BodyKnown(c)' <=> BodyKnown(c)
  BY <1>1 DEF BodyKnown, Bodies!Accepts, Bodies!IsInvalid
<1>6. \A c : Bodies!Accepts(c)' <=> Bodies!Accepts(c)
  BY <1>1 DEF Bodies!Accepts
<1> QED BY <1>3, <1>4, <1>5, <1>6

-----------------------------------------------------------------------------
(* colliders_ *)

\* Every operation keeps the colliders well typed.
LEMMA CollidersStep ==
  ASSUME Colliders!TypeOK, [Colliders!Next]_(Colliders!vars)
  PROVE  Colliders!TypeOK'
<1>1. ASSUME NEW v \in Collider, Colliders!Grow(v) PROVE Colliders!TypeOK'
  <2>1. /\ collider_length' \in 0 .. ColliderSlots /\ collider_length \in 0 .. ColliderSlots - 1
        /\ Colliders!Slot' = 0 .. collider_length
    BY <1>1, BoundsAreNat DEF Colliders!Grow, Colliders!TypeOK, Colliders!Slot
  <2>2. collider' \in [Colliders!Slot' -> Collider \cup {Invalid}]
    BY <1>1, <2>1 DEF Colliders!Grow, Colliders!TypeOK, Colliders!Slot
  <2>3. collider_generation' \in [Colliders!Slot' -> 0 .. MaxColliderGeneration]
    BY <1>1, <2>1, BoundsAreNat DEF Colliders!Grow, Colliders!TypeOK, Colliders!Slot
  <2>4. collider_issued' \subseteq Colliders!Index
    BY <1>1, <2>1, BoundsAreNat DEF Colliders!Grow, Colliders!TypeOK, Colliders!Index, Colliders!IndexOf
  <2> QED BY <2>1, <2>2, <2>3, <2>4 DEF Colliders!TypeOK
<1>2. ASSUME NEW v \in Collider, Colliders!Reuse(v) PROVE Colliders!TypeOK'
  <2>1. PICK i \in Colliders!Free :
           /\ collider' = [collider EXCEPT ![i] = v]
           /\ collider_issued' = collider_issued \cup {Colliders!IndexOf(i, collider_generation[i])}
    BY <1>2 DEF Colliders!Reuse
  <2>2. UNCHANGED <<collider_length, collider_generation, Colliders!Slot>>
    BY <1>2 DEF Colliders!Reuse, Colliders!Slot
  <2>3. Colliders!IndexOf(i, collider_generation[i]) \in Colliders!Index
    BY <2>1, BoundsAreNat
       DEF Colliders!Free, Colliders!Slot, Colliders!TypeOK, Colliders!Index, Colliders!IndexOf
  <2> QED BY <2>1, <2>2, <2>3 DEF Colliders!TypeOK, Colliders!Free
<1>3. ASSUME NEW idx \in collider_issued, Colliders!Remove(idx) PROVE Colliders!TypeOK'
  <2>1. UNCHANGED <<collider_length, collider_issued, Colliders!Slot>> /\ idx.index \in Colliders!Slot
    BY <1>3 DEF Colliders!Remove, Colliders!Accepts, Colliders!Slot
  <2>2. collider_generation' \in [Colliders!Slot -> 0 .. MaxColliderGeneration]
    BY <1>3, <2>1, BoundsAreNat DEF Colliders!Remove, Colliders!TypeOK
  <2> QED BY <1>3, <2>1, <2>2 DEF Colliders!Remove, Colliders!TypeOK
<1>4. ASSUME NEW idx \in collider_issued, NEW v \in Collider, Colliders!Write(idx, v) PROVE Colliders!TypeOK'
  BY <1>4 DEF Colliders!Write, Colliders!TypeOK, Colliders!Slot
<1>5. CASE UNCHANGED Colliders!vars
  BY <1>5 DEF Colliders!vars, Colliders!TypeOK, Colliders!Slot
<1> QED BY <1>1, <1>2, <1>3, <1>4, <1>5 DEF Colliders!Next, Colliders!Add

\* At() on a known Index returns a collider in use, or throws because it was removed.
ColliderKnown(idx) ==
  /\ idx.index \in Colliders!Slot
  /\ idx.generationIndex <= collider_generation[idx.index]
  /\ Colliders!Accepts(idx) => ~Colliders!IsInvalid(idx.index)

\* An Index names a collider in use exactly when At() accepts it and the slot is not
\* free.
LEMMA CollidersLive ==
  Colliders!TypeOK =>
    /\ Colliders!Live \subseteq Colliders!Index
    /\ \A c \in Colliders!Index :
         c \in Colliders!Live <=> Colliders!Accepts(c) /\ ~Colliders!IsInvalid(c.index)
    /\ \A c \in Colliders!Live :
         /\ ColliderKnown(c) /\ Colliders!Accepts(c) /\ ~Colliders!IsInvalid(c.index)
         /\ collider[c.index] \in Collider
<1> HAVE Colliders!TypeOK
<1>1. Colliders!Live \subseteq Colliders!Index
  BY BoundsAreNat DEF Colliders!TypeOK, Colliders!Live, Colliders!Index, Colliders!IndexOf, Colliders!Slot
<1>2. \A c \in Colliders!Index : c = Colliders!IndexOf(c.index, c.generationIndex)
  BY DEF Colliders!Index, Colliders!IndexOf
<1>3. \A c \in Colliders!Index : c \in Colliders!Live <=> Colliders!Accepts(c) /\ ~Colliders!IsInvalid(c.index)
  BY <1>2 DEF Colliders!Live, Colliders!IndexOf, Colliders!Accepts, Colliders!Free
<1>4. \A c \in Colliders!Live : ColliderKnown(c) /\ collider[c.index] \in Collider
  BY <1>1, <1>3, BoundsAreNat
     DEF ColliderKnown, Colliders!Accepts, Colliders!TypeOK, Colliders!Index, Colliders!IsInvalid
<1> QED BY <1>1, <1>3, <1>4

\* The same in the next state.
LEMMA CollidersLiveNext ==
  Colliders!TypeOK' =>
    (/\ Colliders!Live \subseteq Colliders!Index
     /\ \A c \in Colliders!Index :
          c \in Colliders!Live <=> Colliders!Accepts(c) /\ ~Colliders!IsInvalid(c.index)
     /\ \A c \in Colliders!Live :
          /\ ColliderKnown(c) /\ Colliders!Accepts(c) /\ ~Colliders!IsInvalid(c.index)
          /\ collider[c.index] \in Collider)'
BY CollidersLive, PTL

\* Add returns an Index that never was one of a collider, and changes no collider in use.
LEMMA CollidersAdd ==
  ASSUME Colliders!TypeOK, NEW v \in Collider, Colliders!Add(v)
  PROVE  \E h \in Colliders!Index :
           /\ ~ColliderKnown(h) /\ h \notin Colliders!Live
           /\ Colliders!Live' = Colliders!Live \cup {h}
           /\ collider_issued' = collider_issued \cup {h}
           /\ collider'[h.index] = v
           /\ \A c \in Colliders!Live : collider'[c.index] = collider[c.index]
           /\ \A c \in Colliders!Index : ColliderKnown(c) => ColliderKnown(c)'
           /\ Colliders!TypeOK'
<1>1. v # Invalid
  BY WorldAssumption
<1>2. \E i \in Colliders!Slot' :
        /\ i \in Colliders!Free \/ i \notin Colliders!Slot
        /\ Colliders!Slot' = Colliders!Slot \cup {i}
        /\ \A j \in Colliders!Slot' : collider'[j] = IF j = i THEN v ELSE collider[j]
        /\ \A j \in Colliders!Slot : collider_generation'[j] = collider_generation[j]
        /\ collider_issued' = collider_issued \cup {Colliders!IndexOf(i, collider_generation'[i])}
  <2>1. CASE Colliders!Grow(v)
    <3>1. collider_length \in Nat /\ collider_length \notin Colliders!Slot
      BY BoundsAreNat DEF Colliders!TypeOK, Colliders!Slot
    <3>2. /\ Colliders!Slot' = Colliders!Slot \cup {collider_length} /\ Colliders!Slot' = 0 .. collider_length
          /\ collider_length \in Colliders!Slot'
      BY <2>1, <3>1 DEF Colliders!Grow, Colliders!Slot
    <3>3. \A j \in Colliders!Slot' : collider'[j] = IF j = collider_length THEN v ELSE collider[j]
      BY <2>1, <3>2 DEF Colliders!Grow
    <3>4. /\ \A j \in Colliders!Slot : collider_generation'[j] = collider_generation[j]
          /\ collider_generation'[collider_length] = 0
      BY <2>1, <3>1, <3>2 DEF Colliders!Grow
    <3>5. collider_issued' = collider_issued \cup {Colliders!IndexOf(collider_length, 0)}
      BY <2>1 DEF Colliders!Grow
    <3> QED BY <3>1, <3>2, <3>3, <3>4, <3>5
  <2>2. CASE Colliders!Reuse(v)
    <3>1. PICK i \in Colliders!Free :
             /\ collider' = [collider EXCEPT ![i] = v]
             /\ collider_issued' = collider_issued \cup {Colliders!IndexOf(i, collider_generation[i])}
      BY <2>2 DEF Colliders!Reuse
    <3>2. /\ Colliders!Slot' = Colliders!Slot /\ collider_generation' = collider_generation
          /\ i \in Colliders!Slot
      BY <2>2, <3>1 DEF Colliders!Reuse, Colliders!Slot, Colliders!Free
    <3>3. \A j \in Colliders!Slot : collider'[j] = IF j = i THEN v ELSE collider[j]
      BY <3>1 DEF Colliders!TypeOK
    <3> QED BY <3>1, <3>2, <3>3
  <2> QED BY <2>1, <2>2 DEF Colliders!Add
<1>3. PICK i \in Colliders!Slot' :
        /\ i \in Colliders!Free \/ i \notin Colliders!Slot
        /\ Colliders!Slot' = Colliders!Slot \cup {i}
        /\ \A j \in Colliders!Slot' : collider'[j] = IF j = i THEN v ELSE collider[j]
        /\ \A j \in Colliders!Slot : collider_generation'[j] = collider_generation[j]
        /\ collider_issued' = collider_issued \cup {Colliders!IndexOf(i, collider_generation'[i])}
  BY <1>2
<1>4. Colliders!TypeOK'
  BY CollidersStep DEF Colliders!Next
<1> DEFINE h == Colliders!IndexOf(i, collider_generation'[i])
<1>5. h \in Colliders!Index /\ h.index = i /\ h.generationIndex = collider_generation'[i]
  <2>1. i \in 0 .. ColliderSlots - 1 /\ collider_generation'[i] \in 0 .. MaxColliderGeneration
    <3>1. Colliders!Slot' = 0 .. collider_length' - 1 /\ collider_length' \in 0 .. ColliderSlots
      BY <1>4 DEF Colliders!TypeOK, Colliders!Slot
    <3>2. collider_generation' \in [Colliders!Slot' -> 0 .. MaxColliderGeneration]
      BY <1>4 DEF Colliders!TypeOK
    <3> HIDE DEF h
    <3> QED BY <1>3, <3>1, <3>2, BoundsAreNat
  <2> QED BY <2>1 DEF Colliders!Index, Colliders!IndexOf
<1>6. ~ColliderKnown(h)
  BY <1>3, <1>5 DEF ColliderKnown, Colliders!Accepts, Colliders!Free
<1>7. \A c \in Colliders!Index :
        c \in Colliders!Live' <=>
          /\ c.index \in Colliders!Slot'
          /\ collider_generation'[c.index] = c.generationIndex
          /\ collider'[c.index] # Invalid
  BY <1>4, CollidersLiveNext DEF Colliders!Accepts, Colliders!IsInvalid
<1>8. \A c \in Colliders!Index :
        c \in Colliders!Live <=>
          /\ c.index \in Colliders!Slot
          /\ collider_generation[c.index] = c.generationIndex
          /\ collider[c.index] # Invalid
  BY CollidersLive DEF Colliders!Accepts, Colliders!IsInvalid
<1>9. \A c \in Colliders!Index : c = h <=> c.index = i /\ c.generationIndex = collider_generation'[i]
  BY <1>5 DEF Colliders!Index, Colliders!IndexOf
<1> HIDE DEF h
<1>10. \A j \in Colliders!Slot : j = i => collider[j] = Invalid
  BY <1>3 DEF Colliders!Free, Colliders!IsInvalid
<1>11. \A c \in Colliders!Index : c \in Colliders!Live' <=> c \in Colliders!Live \/ c = h
  BY <1>1, <1>3, <1>5, <1>7, <1>8, <1>9, <1>10
<1>12. Colliders!Live' \subseteq Colliders!Index /\ Colliders!Live \subseteq Colliders!Index
  BY <1>4, CollidersLive, CollidersLiveNext
<1>13. \A c \in Colliders!Live : collider'[c.index] = collider[c.index]
  BY <1>3, <1>8, <1>10, <1>12
<1>14. \A c \in Colliders!Index : ColliderKnown(c) => ColliderKnown(c)'
  BY <1>1, <1>3, <1>10 DEF ColliderKnown, Colliders!Accepts, Colliders!IsInvalid
<1>15. Colliders!Live' = Colliders!Live \cup {h} /\ h \notin Colliders!Live
  <2>1. h \notin Colliders!Live
    BY <1>6, CollidersLive
  <2>2. h \in Colliders!Index
    BY <1>5
  <2> QED BY <2>1, <2>2, <1>11, <1>12
<1>16. collider_issued' = collider_issued \cup {h}
  BY <1>3 DEF h
<1>17. collider'[h.index] = v
  BY <1>3, <1>5
<1> QED BY <1>4, <1>5, <1>6, <1>13, <1>14, <1>15, <1>16, <1>17

\* Remove frees the one slot of its Index.
LEMMA CollidersRemove ==
  ASSUME Colliders!TypeOK, NEW idx \in collider_issued, Colliders!Remove(idx)
  PROVE  /\ Colliders!Live' = Colliders!Live \ {idx}
         /\ collider_issued' = collider_issued
         /\ ~Colliders!Accepts(idx)'
         /\ \A c \in Colliders!Live' : collider'[c.index] = collider[c.index]
         /\ \A c \in Colliders!Index : ColliderKnown(c) => ColliderKnown(c)'
         /\ Colliders!TypeOK'
<1> PICK i : i = idx.index
  OBVIOUS
<1>1. /\ i \in Colliders!Slot /\ idx.generationIndex = collider_generation[i]
      /\ Colliders!Slot' = Colliders!Slot /\ collider_issued' = collider_issued
      /\ collider' = [collider EXCEPT ![i] = Invalid]
      /\ collider_generation' = [collider_generation EXCEPT ![i] = @ + 1]
  BY DEF Colliders!Remove, Colliders!Accepts, Colliders!Slot
<1>2. \A j \in Colliders!Slot :
        /\ collider_generation[j] \in Int
        /\ collider_generation'[j] = IF j = i THEN collider_generation[j] + 1 ELSE collider_generation[j]
        /\ collider'[j] = IF j = i THEN Invalid ELSE collider[j]
  BY <1>1, BoundsAreNat DEF Colliders!TypeOK
<1>3. Colliders!TypeOK'
  BY CollidersStep DEF Colliders!Next
<1>4. idx \in Colliders!Index
  BY DEF Colliders!TypeOK
<1>5. \A c \in Colliders!Index :
        /\ c.generationIndex \in Int
        /\ c = idx <=> c.index = i /\ c.generationIndex = collider_generation[i]
  BY <1>1, <1>4, BoundsAreNat DEF Colliders!Index
<1>6. \A c \in Colliders!Index :
        c \in Colliders!Live' <=>
          /\ c.index \in Colliders!Slot'
          /\ collider_generation'[c.index] = c.generationIndex
          /\ collider'[c.index] # Invalid
  BY <1>3, CollidersLiveNext DEF Colliders!Accepts, Colliders!IsInvalid
<1>7. \A c \in Colliders!Index :
        c \in Colliders!Live <=>
          /\ c.index \in Colliders!Slot
          /\ collider_generation[c.index] = c.generationIndex
          /\ collider[c.index] # Invalid
  BY CollidersLive DEF Colliders!Accepts, Colliders!IsInvalid
<1>8. \A c \in Colliders!Index : c \in Colliders!Live' <=> c \in Colliders!Live /\ c # idx
  BY <1>1, <1>2, <1>5, <1>6, <1>7
<1>9. Colliders!Live' \subseteq Colliders!Index /\ Colliders!Live \subseteq Colliders!Index
  BY <1>3, CollidersLive, CollidersLiveNext
<1>10. \A c \in Colliders!Live' : collider'[c.index] = collider[c.index]
  BY <1>1, <1>2, <1>6, <1>9
<1>11. \A c \in Colliders!Index : ColliderKnown(c) => ColliderKnown(c)'
  <2> SUFFICES ASSUME NEW c \in Colliders!Index, ColliderKnown(c) PROVE ColliderKnown(c)'
    OBVIOUS
  <2>1. /\ c.index \in Colliders!Slot' /\ c.generationIndex \in Int
        /\ c.generationIndex <= collider_generation[c.index]
    BY <1>1, <1>5 DEF ColliderKnown
  <2>2. CASE c.index = i
    BY <1>1, <1>2, <2>1, <2>2 DEF ColliderKnown, Colliders!Accepts
  <2>3. CASE c.index # i
    BY <1>1, <1>2, <2>1, <2>3 DEF ColliderKnown, Colliders!Accepts, Colliders!IsInvalid
  <2> QED BY <2>2, <2>3
<1>12. ~Colliders!Accepts(idx)'
  BY <1>1, <1>2 DEF Colliders!Accepts
<1> QED BY <1>1, <1>3, <1>8, <1>9, <1>10, <1>11, <1>12

\* New values in the slots in use leave every Index what it is.
LEMMA CollidersWrite ==
  ASSUME Colliders!TypeOK,
         UNCHANGED <<collider_length, collider_generation, collider_issued>>,
         collider' \in [Colliders!Slot -> Collider \cup {Invalid}],
         \A i \in Colliders!Slot : collider'[i] = Invalid <=> collider[i] = Invalid
  PROVE  /\ Colliders!Live' = Colliders!Live
         /\ \A c : ColliderKnown(c)' <=> ColliderKnown(c)
         /\ \A c : Colliders!Accepts(c)' <=> Colliders!Accepts(c)
         /\ Colliders!TypeOK'
<1>1. Colliders!Slot' = Colliders!Slot
  BY DEF Colliders!Slot
<1>2. Colliders!Free' = Colliders!Free
  BY <1>1 DEF Colliders!Free, Colliders!IsInvalid
<1>3. Colliders!TypeOK'
  BY <1>1 DEF Colliders!TypeOK
<1>4. Colliders!Live' = Colliders!Live
  BY <1>1, <1>2 DEF Colliders!Live, Colliders!IndexOf
<1>5. \A c : ColliderKnown(c)' <=> ColliderKnown(c)
  BY <1>1 DEF ColliderKnown, Colliders!Accepts, Colliders!IsInvalid
<1>6. \A c : Colliders!Accepts(c)' <=> Colliders!Accepts(c)
  BY <1>1 DEF Colliders!Accepts
<1> QED BY <1>3, <1>4, <1>5, <1>6

-----------------------------------------------------------------------------
(* The inductive invariant. *)

\* What every world was when another one copied it.
StateOK(s) ==
  LET bodySlot     == 0 .. s.bodies[1] - 1
      colliderSlot == 0 .. s.colliders[1] - 1
  IN  /\ s.bodies[1] \in 0 .. BodySlots
      /\ s.bodies[2] \in [bodySlot -> Place \cup {Invalid}]
      /\ s.bodies[3] \in [bodySlot -> 0 .. MaxBodyGeneration]
      /\ s.colliders[1] \in 0 .. ColliderSlots
      /\ s.colliders[2] \in [colliderSlot -> Collider \cup {Invalid}]
      /\ s.colliders[3] \in [colliderSlot -> 0 .. MaxColliderGeneration]
      /\ s.overlapped \subseteq Pair
      /\ s.previous \subseteq Pair
      /\ s.quadtree \in BOOLEAN
      /\ \A p \in s.overlapped \cup s.previous : \A c \in p :
           /\ c.index \in colliderSlot
           /\ s.colliders[3][c.index] = c.generationIndex
           /\ s.colliders[2][c.index] # Invalid

ReferencesOK == IsFiniteSet(references) /\ \A ref \in references : StateOK(ref)

\* The candidates were in use when they were collected; a callback may have
\* removed them since.
CandidatesKnown ==
  \A p \in candidates : stage = "enter" /\ \A c \in p : ColliderKnown(c)

\* A Tick in progress knows which world to go back to.
Resumes == stage # "idle" => resume # "none"

WorldInv == TypeOK /\ ReferencesOK /\ OverlapsLive /\ CandidatesKnown /\ Resumes

\* A pair is of two known slots, and a member of a pair is an Index.
LEMMA PairType ==
  /\ \A p \in Pair : p \subseteq Colliders!Index
  /\ \A c, d \in Colliders!Index : c.index # d.index => {c, d} \in Pair
<1>1. ASSUME NEW p \in Pair PROVE p \subseteq Colliders!Index
  BY DEF Pair
<1>2. ASSUME NEW c \in Colliders!Index, NEW d \in Colliders!Index, c.index # d.index
      PROVE  {c, d} \in Pair
  <2> DEFINE e == <<c, d>>
  <2>1. e \in Colliders!Index \X Colliders!Index /\ e[1] = c /\ e[2] = d
    OBVIOUS
  <2> QED BY <1>2, <2>1 DEF Pair
<1> QED BY <1>1, <1>2

\* The colliders in use are the live ones of the container.
LEMMA InUseIsLive == InUse = Colliders!Live
BY DEF InUse, Colliders!Live

\* The same in the next state.
LEMMA InUseIsLiveNext == (InUse = Colliders!Live)'
BY InUseIsLive, PTL

\* The quadtree returns pairs of colliders in use.
LEMMA CandidatesType ==
  Colliders!TypeOK => /\ Candidates \subseteq Pair
                      /\ \A p \in Candidates : p \subseteq InUse
<1> SUFFICES ASSUME Colliders!TypeOK, NEW p \in Candidates
             PROVE  p \in Pair /\ p \subseteq InUse
  OBVIOUS
<1>1. PICK c \in InUse, d \in InUse : p = {c, d} /\ c # d
  BY DEF Candidates
<1>2. c \in Colliders!Index /\ d \in Colliders!Index /\ Colliders!Accepts(c) /\ Colliders!Accepts(d)
  BY InUseIsLive, CollidersLive
<1>3. c.index # d.index
  BY <1>1, <1>2 DEF Colliders!Index, Colliders!Accepts
<1> QED BY <1>1, <1>2, <1>3, PairType

\* The same in the next state.
LEMMA CandidatesTypeNext ==
  Colliders!TypeOK' => (/\ Candidates \subseteq Pair
                        /\ \A p \in Candidates : p \subseteq InUse)'
BY CandidatesType, PTL

\* Bodies that do not change keep their type.
LEMMA BodiesKept ==
  ASSUME UNCHANGED bodyVars, Bodies!TypeOK
  PROVE  Bodies!TypeOK'
BY BodiesStep DEF bodyVars, Bodies!vars

\* Colliders that do not change keep their type and their use.
LEMMA CollidersKept ==
  ASSUME UNCHANGED colliderVars, Colliders!TypeOK
  PROVE  /\ Colliders!TypeOK'
         /\ InUse' = InUse
         /\ \A c : ColliderKnown(c)' <=> ColliderKnown(c)
<1>1. UNCHANGED <<collider_length, collider, collider_generation, collider_issued>>
  BY DEF colliderVars
<1>2. \A i \in Colliders!Slot : collider'[i] = Invalid <=> collider[i] = Invalid
  BY <1>1
<1> QED BY <1>1, <1>2, CollidersWrite, InUseIsLive, InUseIsLiveNext DEF Colliders!TypeOK

\* The other worlds are left alone.
LEMMA ReferencesKept ==
  ASSUME UNCHANGED references, ReferencesOK
  PROVE  ReferencesOK'
BY DEF ReferencesOK, StateOK

\* Overlaps are gone only with a collider.
LEMMA OverlapsKept ==
  ASSUME OverlapsLive, InUse \subseteq InUse',
         overlapped' \cup previous' \subseteq overlapped \cup previous
  PROVE  OverlapsLive'
BY DEF OverlapsLive

-----------------------------------------------------------------------------
(* Every step keeps the invariant. *)

\* AddBody, MoveBody and RemoveBody.
LEMMA BodyStep ==
  ASSUME WorldInv, Bodies!Next,
         UNCHANGED <<colliderVars, overlapVars, quadtree, listener, tickVars, worldVars, references>>
  PROVE  WorldInv'
<1>1. /\ UNCHANGED <<colliderVars, overlapped, previous, quadtree, listener>>
      /\ UNCHANGED <<stage, candidates, leaving, callback, active, resume, references>>
      /\ UNCHANGED <<inside, confused>>
  BY DEF overlapVars, tickVars, worldVars, heardVars
<1>2. Bodies!TypeOK'
  BY BodiesStep DEF WorldInv, TypeOK
<1>3. Colliders!TypeOK' /\ InUse' = InUse /\ \A c : ColliderKnown(c)' <=> ColliderKnown(c)
  BY <1>1, CollidersKept DEF WorldInv, TypeOK
<1>4. TypeOK'
  BY <1>1, <1>2, <1>3 DEF WorldInv, TypeOK
<1>5. ReferencesOK'
  BY <1>1, ReferencesKept DEF WorldInv
<1>6. OverlapsLive'
  BY <1>1, <1>3, OverlapsKept DEF WorldInv
<1>7. CandidatesKnown' /\ Resumes'
  BY <1>1, <1>3 DEF WorldInv, CandidatesKnown, Resumes
<1> QED BY <1>4, <1>5, <1>6, <1>7 DEF WorldInv

\* AddCollider and SetTrigger.
LEMMA ColliderStep ==
  ASSUME WorldInv, Colliders!TypeOK', InUse \subseteq InUse',
         \A c \in Colliders!Index : ColliderKnown(c) => ColliderKnown(c)',
         UNCHANGED <<bodyVars, overlapVars, quadtree, listener, tickVars, worldVars, references>>
  PROVE  WorldInv'
<1>1. /\ UNCHANGED <<bodyVars, overlapped, previous, quadtree, listener>>
      /\ UNCHANGED <<stage, candidates, leaving, callback, active, resume, references>>
      /\ UNCHANGED <<inside, confused>>
  BY DEF overlapVars, tickVars, worldVars, heardVars
<1>2. TypeOK'
  BY <1>1, BodiesKept DEF WorldInv, TypeOK
<1>3. ReferencesOK'
  BY <1>1, ReferencesKept DEF WorldInv
<1>4. OverlapsLive'
  BY <1>1, OverlapsKept DEF WorldInv
<1>5. CandidatesKnown' /\ Resumes'
  BY <1>1, PairType DEF WorldInv, TypeOK, CandidatesKnown, Resumes
<1> QED BY <1>2, <1>3, <1>4, <1>5 DEF WorldInv

\* AddCollider takes the Index of any body there ever was.
LEMMA AddColliderStep ==
  ASSUME WorldInv, NEW body_idx \in body_issued, NEW is_trigger \in Trigger,
         AddCollider(body_idx, is_trigger)
  PROVE  WorldInv'
<1> DEFINE v == [body |-> body_idx, is_trigger |-> is_trigger]
<1>1. v \in Collider
  BY DEF WorldInv, TypeOK, Bodies!TypeOK, Collider
<1>2. Colliders!Add(v)
  BY DEF AddCollider
<1> HIDE DEF v
<1>3. /\ Colliders!TypeOK' /\ InUse \subseteq InUse'
      /\ \A c \in Colliders!Index : ColliderKnown(c) => ColliderKnown(c)'
  BY <1>1, <1>2, CollidersAdd, InUseIsLive, InUseIsLiveNext DEF WorldInv, TypeOK
<1> QED BY <1>3, ColliderStep DEF AddCollider

\* SetTrigger is an assignment to a collider in use.
LEMMA SetTriggerStep ==
  ASSUME WorldInv, NEW idx \in collider_issued, NEW is_trigger \in Trigger,
         SetTrigger(idx, is_trigger)
  PROVE  WorldInv'
<1> DEFINE v == [collider[idx.index] EXCEPT !.is_trigger = is_trigger]
<1>1. /\ Colliders!TypeOK /\ Colliders!Accepts(idx) /\ ~Colliders!IsInvalid(idx.index)
      /\ Colliders!Write(idx, v)
  BY DEF SetTrigger, WorldInv, TypeOK
<1>2. idx.index \in Colliders!Slot /\ collider[idx.index] \in Collider
  BY <1>1 DEF Colliders!Accepts, Colliders!IsInvalid, Colliders!TypeOK
<1>3. v \in Collider /\ v # Invalid
  BY <1>2, WorldAssumption DEF Collider
<1> HIDE DEF v
<1>4. /\ UNCHANGED <<collider_length, collider_generation, collider_issued>>
      /\ collider' = [collider EXCEPT ![idx.index] = v]
  BY <1>1 DEF Colliders!Write
<1>5. /\ collider' \in [Colliders!Slot -> Collider \cup {Invalid}]
      /\ \A i \in Colliders!Slot : collider'[i] = Invalid <=> collider[i] = Invalid
  BY <1>1, <1>2, <1>3, <1>4 DEF Colliders!TypeOK, Colliders!IsInvalid
<1>6. /\ Colliders!TypeOK' /\ InUse' = InUse
      /\ \A c : ColliderKnown(c)' <=> ColliderKnown(c)
  BY <1>1, <1>4, <1>5, CollidersWrite, InUseIsLive, InUseIsLiveNext
<1> QED BY <1>6, ColliderStep DEF SetTrigger

\* Both sets forget the collider that is removed.
LEMMA RemoveColliderStep ==
  ASSUME WorldInv, NEW idx \in collider_issued, RemoveCollider(idx)
  PROVE  WorldInv'
<1>1. /\ UNCHANGED <<bodyVars, quadtree, listener>>
      /\ UNCHANGED <<stage, candidates, leaving, callback, active, resume, references>>
      /\ overlapped' = overlapped \ {p \in overlapped : idx \in p}
      /\ previous' = {p \in previous : idx \notin p}
      /\ Colliders!Remove(idx)
      /\ TellExit(IF listener THEN {p \in overlapped : idx \in p} ELSE {})
  BY DEF RemoveCollider, tickVars, worldVars
<1>2. /\ Colliders!TypeOK' /\ InUse' = InUse \ {idx}
      /\ \A c \in Colliders!Index : ColliderKnown(c) => ColliderKnown(c)'
  BY <1>1, CollidersRemove, InUseIsLive, InUseIsLiveNext DEF WorldInv, TypeOK
<1>3. inside' \subseteq Pair /\ confused' \in BOOLEAN
  BY <1>1 DEF TellExit, WorldInv, TypeOK
<1>4. TypeOK'
  BY <1>1, <1>2, <1>3, BodiesKept DEF WorldInv, TypeOK
<1>5. ReferencesOK'
  BY <1>1, ReferencesKept DEF WorldInv
<1>6. OverlapsLive'
  BY <1>1, <1>2 DEF WorldInv, OverlapsLive
<1>7. CandidatesKnown' /\ Resumes'
  BY <1>1, <1>2, PairType DEF WorldInv, TypeOK, CandidatesKnown, Resumes
<1> QED BY <1>4, <1>5, <1>6, <1>7 DEF WorldInv

\* Every valid body goes to some place.
LEMMA DisplaceType ==
  ASSUME NEW slots, Bodies!TypeOK, Displace(slots)
  PROVE  /\ Bodies!TypeOK'
         /\ UNCHANGED <<body_length, body_generation, body_issued>>
         /\ body' \in [Bodies!Slot -> Place \cup {Invalid}]
         /\ \A i \in Bodies!Slot : body'[i] = Invalid <=> body[i] = Invalid
<1> DEFINE S == slots \ Bodies!Free
<1>1. PICK places \in [S -> Place] :
         body' = [i \in Bodies!Slot |-> IF i \in S THEN places[i] ELSE body[i]]
  BY DEF Displace
<1>2. UNCHANGED <<body_length, body_generation, body_issued>>
  BY DEF Displace
<1>3. body' \in [Bodies!Slot -> Place \cup {Invalid}]
  BY <1>1 DEF Bodies!TypeOK
<1>4. \A i \in Bodies!Slot : body'[i] = Invalid <=> body[i] = Invalid
  BY <1>1, WorldAssumption DEF Bodies!Free, Bodies!IsInvalid
<1>5. Bodies!TypeOK'
  BY <1>2, <1>3, <1>4, BodiesWrite
<1> QED BY <1>2, <1>3, <1>4, <1>5

\* The start of a Tick, whichever it is.
LEMMA TickStartStep ==
  ASSUME WorldInv, TickUnobserved \/ TickObserved \/ TickThrows
  PROVE  WorldInv'
<1>1. /\ Integrate /\ resume' \in {resume, active}
      /\ UNCHANGED <<leaving, callback, inside, confused>>
  BY DEF TickUnobserved, TickObserved, TickThrows, overlapVars, heardVars, tickVars
<1>2. /\ stage = "idle" /\ active' = "own"
      /\ UNCHANGED <<colliderVars, quadtree, listener, references>>
      /\ Bodies!TypeOK'
  BY <1>1, DisplaceType DEF Integrate, WorldInv, TypeOK
<1>3. /\ Colliders!TypeOK' /\ InUse' = InUse
      /\ \A c : ColliderKnown(c)' <=> ColliderKnown(c)
  BY <1>2, CollidersKept DEF WorldInv, TypeOK
<1>4. ReferencesOK'
  BY <1>2, ReferencesKept DEF WorldInv
<1>5. overlapped' \cup previous' \subseteq overlapped \cup previous
  BY DEF TickUnobserved, TickObserved, TickThrows, overlapVars
<1>6. OverlapsLive'
  BY <1>3, <1>5, OverlapsKept DEF WorldInv
<1>7. candidates = {}
  BY <1>2 DEF WorldInv, CandidatesKnown
<1>8. /\ stage' \in {"idle", "enter", "resolve"}
      /\ candidates' \subseteq Pair
      /\ \A p \in candidates' : stage' = "enter" /\ p \subseteq InUse'
  <2>1. CASE TickUnobserved \/ TickThrows
    BY <1>2, <1>7, <2>1 DEF TickUnobserved, TickThrows, tickVars
  <2>2. CASE TickObserved
    BY <1>3, <2>2, CandidatesTypeNext DEF TickObserved
  <2> QED BY <2>1, <2>2
<1>9. CandidatesKnown'
  <2>1. \A c \in InUse : ColliderKnown(c)
    BY InUseIsLive, CollidersLive DEF WorldInv, TypeOK
  <2> QED BY <1>3, <1>8, <2>1 DEF CandidatesKnown
<1>10. TypeOK'
  BY <1>1, <1>2, <1>3, <1>5, <1>8 DEF WorldInv, TypeOK
<1>11. Resumes'
  BY <1>2 DEF TickUnobserved, TickObserved, TickThrows, tickVars, WorldInv, TypeOK, Resumes
<1> QED BY <1>4, <1>6, <1>9, <1>10, <1>11 DEF WorldInv

\* Steps of CheckForOverlap: what they leave alone keeps its part of the
\* invariant.
LEMMA CheckForOverlapStep ==
  ASSUME WorldInv, CheckForOverlapFrame,
         overlapped' \subseteq Pair, previous' = previous,
         \A p \in overlapped' : p \subseteq InUse,
         stage' \in {"idle", "enter", "exit", "resolve"},
         candidates' \subseteq candidates, stage' # "enter" => candidates' = {},
         leaving' \subseteq Pair, callback' \in BOOLEAN, stage # "idle",
         resume' = IF stage' = "idle" THEN "none" ELSE resume,
         inside' \subseteq Pair, confused' \in BOOLEAN
  PROVE  WorldInv'
<1>1. UNCHANGED <<bodyVars, colliderVars, quadtree, listener, active, references>>
  BY DEF CheckForOverlapFrame
<1>2. Bodies!TypeOK'
  BY <1>1, BodiesKept DEF WorldInv, TypeOK
<1>3. /\ Colliders!TypeOK' /\ InUse' = InUse
      /\ \A c : ColliderKnown(c)' <=> ColliderKnown(c)
  BY <1>1, CollidersKept DEF WorldInv, TypeOK
<1>4. TypeOK'
  BY <1>1, <1>2, <1>3 DEF WorldInv, TypeOK
<1>5. ReferencesOK'
  BY <1>1, ReferencesKept DEF WorldInv
<1>6. OverlapsLive'
  BY <1>3 DEF WorldInv, OverlapsLive
<1>7. CandidatesKnown' /\ Resumes'
  BY <1>3 DEF WorldInv, CandidatesKnown, Resumes
<1> QED BY <1>4, <1>5, <1>6, <1>7 DEF WorldInv

\* A candidate that both At() calls accept is still in use.
LEMMA TestCandidateStep ==
  ASSUME WorldInv, NEW pair \in candidates, TestCandidate(pair)
  PROVE  WorldInv'
<1>1. /\ stage = "enter" /\ CheckForOverlapFrame /\ pair \in Pair
      /\ \A p \in overlapped : p \subseteq InUse
  BY DEF TestCandidate, WorldInv, TypeOK, OverlapsLive
<1>2. CASE \E c \in pair : ~Placed(c)
  <2>1. Throw /\ UNCHANGED overlapVars
    BY <1>2 DEF TestCandidate
  <2> QED BY <1>1, <2>1, CheckForOverlapStep
          DEF Throw, overlapVars, heardVars, WorldInv, TypeOK
<1>3. CASE \A c \in pair : Placed(c)
  <2>1. PICK enter \in BOOLEAN :
           /\ overlapped' \in {overlapped, overlapped \cup {pair}}
           /\ TellEnter(IF enter THEN {pair} ELSE {})
           /\ callback' = enter
           /\ candidates' = candidates \ {pair}
           /\ UNCHANGED <<previous, stage, leaving, resume>>
    BY <1>3 DEF TestCandidate
  <2>2. pair \subseteq InUse
    BY <1>1, <1>3, PairType, CollidersLive, InUseIsLive
       DEF WorldInv, TypeOK, CandidatesKnown, ColliderKnown, Placed
  <2>3. overlapped' \subseteq Pair /\ \A p \in overlapped' : p \subseteq InUse
    BY <1>1, <2>1, <2>2 DEF WorldInv, TypeOK
  <2>4. inside' \subseteq Pair /\ confused' \in BOOLEAN
    BY <1>1, <2>1 DEF TellEnter, WorldInv, TypeOK
  <2> QED BY <1>1, <2>1, <2>3, <2>4, CheckForOverlapStep DEF WorldInv, TypeOK
<1> QED BY <1>2, <1>3

\* A pair of sorted_prev leaves, stays, or throws: the overlaps stay.
LEMMA TestPreviousStep ==
  ASSUME WorldInv, NEW pair \in leaving, TestPrevious(pair)
  PROVE  WorldInv'
<1>1. /\ stage = "exit" /\ CheckForOverlapFrame /\ pair \in Pair
      /\ UNCHANGED <<overlapped, previous>>
      /\ \A p \in overlapped : p \subseteq InUse
  BY DEF TestPrevious, WorldInv, TypeOK, OverlapsLive
<1>2. \/ Throw /\ UNCHANGED heardVars
      \/ \E left \in BOOLEAN :
           /\ TellExit(IF left THEN {pair} ELSE {})
           /\ callback' = left
           /\ leaving' = leaving \ {pair}
           /\ UNCHANGED <<stage, candidates, resume>>
  BY DEF TestPrevious
<1>3. inside' \subseteq Pair /\ confused' \in BOOLEAN
  BY <1>2 DEF TellExit, heardVars, WorldInv, TypeOK
<1>4. candidates = {}
  BY <1>1 DEF WorldInv, CandidatesKnown
<1> QED BY <1>1, <1>2, <1>3, <1>4, CheckForOverlapStep DEF Throw, WorldInv, TypeOK

\* The ends of the two loops of CheckForOverlap.
LEMMA LoopDoneStep ==
  ASSUME WorldInv, CandidatesTested \/ PreviousTested
  PROVE  WorldInv'
<1>1. /\ CheckForOverlapFrame /\ UNCHANGED <<overlapped, previous, inside, confused>>
      /\ stage' \in {"exit", "resolve"} /\ callback' = FALSE
      /\ UNCHANGED <<candidates, resume>> /\ leaving' \in {leaving, previous}
  BY DEF CandidatesTested, PreviousTested, overlapVars, heardVars
<1>2. candidates = {} /\ stage # "idle"
  BY DEF CandidatesTested, PreviousTested, WorldInv, CandidatesKnown
<1>3. \A p \in overlapped : p \subseteq InUse
  BY DEF WorldInv, OverlapsLive
<1> QED BY <1>1, <1>2, <1>3, CheckForOverlapStep DEF WorldInv, TypeOK

\* ResolveCollisions moves bodies, and the Tick is over.
LEMMA ResolveCollisionsStep ==
  ASSUME WorldInv, ResolveCollisions
  PROVE  WorldInv'
<1>1. /\ UNCHANGED <<colliderVars, overlapped, previous, quadtree, listener>>
      /\ UNCHANGED <<candidates, leaving, callback, references, inside, confused>>
      /\ stage = "resolve" /\ stage' = "idle" /\ resume' = "none"
      /\ active' \in {active, resume}
  BY DEF ResolveCollisions, overlapVars, heardVars
<1>2. Bodies!TypeOK'
  BY DisplaceType DEF ResolveCollisions, WorldInv, TypeOK
<1>3. Colliders!TypeOK' /\ InUse' = InUse
  BY <1>1, CollidersKept DEF WorldInv, TypeOK
<1>4. TypeOK'
  BY <1>1, <1>2, <1>3 DEF WorldInv, TypeOK, Resumes
<1>5. ReferencesOK' /\ OverlapsLive'
  BY <1>1, <1>3, ReferencesKept, OverlapsKept DEF WorldInv
<1>6. CandidatesKnown' /\ Resumes'
  BY <1>1 DEF WorldInv, CandidatesKnown, Resumes
<1> QED BY <1>4, <1>5, <1>6 DEF WorldInv

-----------------------------------------------------------------------------
(* The other operations, which are called between Ticks. *)

\* set_bounds, set_contact_listener: the overlaps stay.
LEMMA SettingStep ==
  ASSUME WorldInv, set_bounds \/ \E set \in BOOLEAN : set_contact_listener(set)
  PROVE  WorldInv'
<1>1. /\ UNCHANGED <<bodyVars, colliderVars, overlapped, previous, references>>
      /\ UNCHANGED <<stage, candidates, leaving, callback, active, resume>>
      /\ quadtree' \in BOOLEAN /\ listener' \in BOOLEAN
      /\ inside' \subseteq Pair /\ confused' \in BOOLEAN
  BY DEF set_bounds, set_contact_listener, overlapVars, heardVars, tickVars, worldVars,
         WorldInv, TypeOK
<1>2. /\ Bodies!TypeOK' /\ Colliders!TypeOK' /\ InUse' = InUse
      /\ \A c : ColliderKnown(c)' <=> ColliderKnown(c)
  BY <1>1, BodiesKept, CollidersKept DEF WorldInv, TypeOK
<1>3. TypeOK'
  BY <1>1, <1>2 DEF WorldInv, TypeOK
<1>4. ReferencesOK' /\ OverlapsLive'
  BY <1>1, <1>2, ReferencesKept, OverlapsKept DEF WorldInv
<1>5. CandidatesKnown' /\ Resumes'
  BY <1>1, <1>2 DEF WorldInv, CandidatesKnown, Resumes
<1> QED BY <1>3, <1>4, <1>5 DEF WorldInv

\* A collider is in use when its slot has its generation and a valid value.
LEMMA InUseFields ==
  Colliders!TypeOK =>
    \A c \in Colliders!Index :
      c \in InUse <=> /\ c.index \in Colliders!Slot
                      /\ collider_generation[c.index] = c.generationIndex
                      /\ collider[c.index] # Invalid
BY InUseIsLive, CollidersLive DEF Colliders!Accepts, Colliders!IsInvalid

\* The same in the next state.
LEMMA InUseFieldsNext ==
  Colliders!TypeOK' =>
    (\A c \in Colliders!Index :
      c \in InUse <=> /\ c.index \in Colliders!Slot
                      /\ collider_generation[c.index] = c.generationIndex
                      /\ collider[c.index] # Invalid)'
BY InUseFields, PTL

\* A copy of the world is one to roll back from.
LEMMA StateIsOK ==
  ASSUME WorldInv
  PROVE  StateOK(State)
<1>1. /\ State.bodies[1] = body_length /\ State.bodies[2] = body
      /\ State.bodies[3] = body_generation
      /\ State.colliders[1] = collider_length /\ State.colliders[2] = collider
      /\ State.colliders[3] = collider_generation
      /\ State.overlapped = overlapped /\ State.previous = previous
      /\ State.quadtree = quadtree
  BY DEF State
<1>2. \A p \in overlapped \cup previous : \A c \in p : c \in InUse /\ c \in Colliders!Index
  BY PairType DEF WorldInv, TypeOK, OverlapsLive
<1>3. \A p \in overlapped \cup previous : \A c \in p :
        /\ c.index \in Colliders!Slot
        /\ collider_generation[c.index] = c.generationIndex
        /\ collider[c.index] # Invalid
  BY <1>2, InUseFields DEF WorldInv, TypeOK
<1> QED BY <1>1, <1>3
        DEF StateOK, WorldInv, TypeOK, Bodies!TypeOK, Bodies!Slot, Colliders!TypeOK, Colliders!Slot

\* Another world copies this one: it copies overlaps of colliders in use.
LEMMA CopyStep ==
  ASSUME WorldInv, CopyToReference
  PROVE  WorldInv'
<1>1. /\ UNCHANGED <<bodyVars, colliderVars, overlapped, previous, quadtree, listener>>
      /\ UNCHANGED <<stage, candidates, leaving, callback, active, resume, inside, confused>>
      /\ references' = references \cup {State}
      /\ Cardinality(references) < MaxReferences
  BY DEF CopyToReference, overlapVars, heardVars, tickVars, worldVars
<1>2. /\ Bodies!TypeOK' /\ Colliders!TypeOK' /\ InUse' = InUse
      /\ \A c : ColliderKnown(c)' <=> ColliderKnown(c)
  BY <1>1, BodiesKept, CollidersKept DEF WorldInv, TypeOK
<1>3. /\ IsFiniteSet(references')
      /\ Cardinality(references') \in {Cardinality(references), Cardinality(references) + 1}
      /\ Cardinality(references) \in Nat
  BY <1>1, FS_AddElement, FS_CardinalityType DEF WorldInv, ReferencesOK
<1>4. TypeOK'
  BY <1>1, <1>2, <1>3, BoundsAreNat DEF WorldInv, TypeOK
<1>5. \A ref \in references' : StateOK(ref)
  BY <1>1, StateIsOK DEF WorldInv, ReferencesOK
<1>6. ReferencesOK'
  BY <1>3, <1>5 DEF ReferencesOK, StateOK
<1>7. OverlapsLive'
  BY <1>1, <1>2, OverlapsKept DEF WorldInv
<1>8. CandidatesKnown' /\ Resumes'
  BY <1>1, <1>2 DEF WorldInv, CandidatesKnown, Resumes
<1> QED BY <1>4, <1>6, <1>7, <1>8 DEF WorldInv

\* The overlaps come with the colliders they are of.
LEMMA RollBackStep ==
  ASSUME WorldInv, NEW ref \in references, RollBackFrom(ref)
  PROVE  WorldInv'
<1>1. /\ body_length' = ref.bodies[1] /\ body' = ref.bodies[2]
      /\ body_generation' = ref.bodies[3]
      /\ collider_length' = ref.colliders[1] /\ collider' = ref.colliders[2]
      /\ collider_generation' = ref.colliders[3]
      /\ overlapped' = ref.overlapped /\ previous' = ref.previous /\ quadtree' = ref.quadtree
      /\ UNCHANGED <<body_issued, collider_issued, inside, confused, listener, references>>
      /\ UNCHANGED <<stage, candidates, leaving, callback, active, resume>>
      /\ stage = "idle"
  BY DEF RollBackFrom, heardVars, tickVars, worldVars
<1>2. StateOK(ref)
  BY DEF WorldInv, ReferencesOK
<1>3. Bodies!TypeOK'
  BY <1>1, <1>2 DEF StateOK, WorldInv, TypeOK, Bodies!TypeOK, Bodies!Slot
<1>4. Colliders!TypeOK' /\ Colliders!Slot' = 0 .. ref.colliders[1] - 1
  BY <1>1, <1>2 DEF StateOK, WorldInv, TypeOK, Colliders!TypeOK, Colliders!Slot
<1>5. overlapped' \subseteq Pair /\ previous' \subseteq Pair /\ quadtree' \in BOOLEAN
  BY <1>1, <1>2 DEF StateOK
<1>6. TypeOK'
  BY <1>1, <1>3, <1>4, <1>5 DEF WorldInv, TypeOK
<1>7. ReferencesOK'
  BY <1>1, ReferencesKept DEF WorldInv
<1>8. OverlapsLive'
  <2>1. \A p \in overlapped' \cup previous' : \A c \in p :
          /\ c \in Colliders!Index /\ c.index \in Colliders!Slot'
          /\ collider_generation'[c.index] = c.generationIndex
          /\ collider'[c.index] # Invalid
    BY <1>1, <1>2, <1>4, <1>5, PairType DEF StateOK
  <2>2. \A p \in overlapped' \cup previous' : p \subseteq InUse'
    BY <1>4, <2>1, InUseFieldsNext
  <2> QED BY <2>2 DEF OverlapsLive
<1>9. CandidatesKnown' /\ Resumes'
  BY <1>1 DEF WorldInv, CandidatesKnown, Resumes
<1> QED BY <1>6, <1>7, <1>8, <1>9 DEF WorldInv

\* An empty world has no overlaps left.
LEMMA ResetStep ==
  ASSUME WorldInv, ResetWorld
  PROVE  WorldInv'
<1>1. /\ body_length' = 0 /\ body' = <<>> /\ body_generation' = <<>>
      /\ collider_length' = 0 /\ collider' = <<>> /\ collider_generation' = <<>>
      /\ overlapped' = {} /\ previous' = {} /\ quadtree' = FALSE /\ listener' = FALSE
      /\ UNCHANGED <<body_issued, collider_issued, references>>
      /\ inside' = {} /\ confused' = FALSE
      /\ UNCHANGED <<stage, candidates, leaving, callback, active, resume>>
      /\ stage = "idle"
  BY DEF ResetWorld, tickVars, worldVars
<1>2. Bodies!Slot' = {} /\ Colliders!Slot' = {}
  BY <1>1 DEF Bodies!Slot, Colliders!Slot
<1>3. \A S : <<>> \in [{} -> S]
  OBVIOUS
<1>4. Bodies!TypeOK' /\ Colliders!TypeOK'
  BY <1>1, <1>2, <1>3, BoundsAreNat
     DEF WorldInv, TypeOK, Bodies!TypeOK, Colliders!TypeOK
<1>5. TypeOK'
  BY <1>1, <1>4 DEF WorldInv, TypeOK
<1>6. ReferencesOK'
  BY <1>1, ReferencesKept DEF WorldInv
<1>7. OverlapsLive' /\ CandidatesKnown' /\ Resumes'
  BY <1>1 DEF WorldInv, OverlapsLive, CandidatesKnown, Resumes
<1> QED BY <1>5, <1>6, <1>7 DEF WorldInv

-----------------------------------------------------------------------------
(* The theorems. *)

\* A new world satisfies the invariant.
LEMMA WorldInit == Init => WorldInv
<1> SUFFICES ASSUME Init PROVE WorldInv
  OBVIOUS
<1>1. Bodies!Slot = {} /\ Colliders!Slot = {}
  BY DEF Init, Bodies!Init, Colliders!Init, Bodies!Slot, Colliders!Slot
<1>2. Bodies!TypeOK /\ Colliders!TypeOK
  BY <1>1, BoundsAreNat
     DEF Init, Bodies!Init, Colliders!Init, Bodies!TypeOK, Colliders!TypeOK
<1>3. IsFiniteSet(references) /\ Cardinality(references) = 0
  BY FS_EmptySet DEF Init
<1>4. TypeOK
  <2>1. Cardinality(references) <= MaxReferences
    BY <1>3, BoundsAreNat
  <2> QED BY <1>2, <2>1 DEF Init, TypeOK
<1>5. ReferencesOK /\ OverlapsLive /\ CandidatesKnown /\ Resumes
  BY <1>3 DEF Init, ReferencesOK, OverlapsLive, CandidatesKnown, Resumes
<1> QED BY <1>4, <1>5 DEF WorldInv

\* Every step of a Tick, with or without callbacks in between.
LEMMA TickStepInv ==
  ASSUME WorldInv, TickStep \/ TickThrows
  PROVE  WorldInv'
BY TickStartStep, TestCandidateStep, LoopDoneStep, TestPreviousStep, ResolveCollisionsStep
   DEF TickStep

\* Every operation that adds, changes or removes a body or a collider.
LEMMA OperationInv ==
  ASSUME WorldInv, Build \/ Take
  PROVE  WorldInv'
<1>1. ASSUME NEW place \in Place, AddBody(place) PROVE WorldInv'
  BY <1>1, BodyStep DEF AddBody, Bodies!Next
<1>2. ASSUME NEW place \in Place, NEW idx \in body_issued, MoveBody(idx, place) PROVE WorldInv'
  BY <1>2, BodyStep DEF MoveBody, Bodies!Next
<1>3. ASSUME NEW idx \in body_issued, RemoveBody(idx) PROVE WorldInv'
  BY <1>3, BodyStep DEF RemoveBody, Bodies!Next
<1> QED BY <1>1, <1>2, <1>3, AddColliderStep, SetTriggerStep, RemoveColliderStep DEF Build, Take

\* Nothing happens to the world.
LEMMA WorldStutters ==
  ASSUME WorldInv, UNCHANGED vars
  PROVE  WorldInv'
<1>1. UNCHANGED <<bodyVars, colliderVars, overlapVars, quadtree, listener, tickVars, worldVars,
                  references>>
  BY DEF vars
<1>2. Colliders!TypeOK' /\ InUse' = InUse /\ \A c : ColliderKnown(c)' <=> ColliderKnown(c)
  BY <1>1, CollidersKept DEF WorldInv, TypeOK
<1> QED BY <1>1, <1>2, ColliderStep

\* The inductive invariant holds whatever is done to the world.
THEOREM WorldInvariant == Spec => []WorldInv
<1>1. WorldInv /\ [Next]_vars => WorldInv'
  <2> SUFFICES ASSUME WorldInv, [Next]_vars PROVE WorldInv'
    OBVIOUS
  <2> QED BY WorldStutters, TickStepInv, OperationInv, SettingStep, CopyStep, RollBackStep,
             ResetStep DEF Next
<1> QED BY <1>1, WorldInit, PTL DEF Spec

\* The world is well typed after any use of it, also in the middle of a Tick.
THEOREM WorldTypeCorrect == Spec => []TypeOK
<1>1. WorldInv => TypeOK
  BY DEF WorldInv
<1> QED BY <1>1, WorldInvariant, PTL

\* Whatever callbacks, rollbacks, resets and exceptions there were, the world
\* never keeps an overlap of a collider that is gone.
THEOREM OverlapsCorrect == Spec => []OverlapsLive
<1>1. WorldInv => OverlapsLive
  BY DEF WorldInv
<1> QED BY <1>1, WorldInvariant, PTL

=============================================================================
