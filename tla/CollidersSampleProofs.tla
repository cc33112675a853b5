------------------------ MODULE CollidersSampleProofs -----------------------
(***************************************************************************)
(* Proofs about CollidersSample, for any number of objects and walls, all  *)
(* places and all bounds: it is well typed, its Ticks leave the world as   *)
(* active as it was, the listener hears of every overlap once, and the     *)
(* counts of the objects never exceed their overlaps.                      *)
(*                                                                         *)
(* The invariant comes in three layers, each proved with the ones before.  *)
(***************************************************************************)
EXTENDS CollidersSample, PhysicsWorldProofs, SequenceTheorems

sampleAll == <<vars, sampleVars>>

-----------------------------------------------------------------------------
(* Layer 1: what the sample owns. *)

RenderedColliders == {rendered[k].collider_idx : k \in DOMAIN rendered}
WallColliders == {wall_objects[k] : k \in DOMAIN wall_objects}

\* The colliders in use are those of the objects and walls, each of one.
OwnColliders ==
  /\ InUse = RenderedColliders \cup WallColliders
  /\ RenderedColliders \cap WallColliders = {}
  /\ \A k, l \in DOMAIN rendered :
       rendered[k].collider_idx = rendered[l].collider_idx => k = l
  /\ \A k, l \in DOMAIN wall_objects : wall_objects[k] = wall_objects[l] => k = l

\* Each has a body of its own, which is there unless its removal is pending.
OwnBodies ==
  /\ \A c \in InUse : /\ BodyOf(c) \in body_issued
                      /\ BodyOf(c) # pending => BodyOf(c) \in Bodies!Live
  /\ \A c, d \in InUse : BodyOf(c) = BodyOf(d) => c = d

\* No Index ever issued reads a slot that was emptied.
IssuedKnown ==
  /\ \A b \in body_issued : BodyKnown(b)
  /\ \A c \in collider_issued : ColliderKnown(c)
  /\ InUse \subseteq collider_issued

\* The pending body is one whose collider is still to come,
Coming == pending \in Bodies!Live /\ \A c \in InUse : BodyOf(c) # pending

\* or one whose collider is still to go, which one the mode tells.
NextToGo(c) ==
  \/ /\ mode = "resize" /\ objects_count < Len(rendered)
     /\ c = rendered[Len(rendered)].collider_idx
  \/ mode = "end" /\ rendered # <<>> /\ c = rendered[1].collider_idx
  \/ mode = "end" /\ rendered = <<>> /\ wall_objects # <<>> /\ c = wall_objects[1]

Going == \E c \in InUse : NextToGo(c) /\ pending = BodyOf(c)

Adding ==
  \/ mode = "begin" /\ (Len(rendered) < InitialObjects \/ Len(wall_objects) < Walls)
  \/ mode = "resize" /\ objects_count > Len(rendered)

PendingOK ==
  pending # NoBody => pending \in body_issued /\ ((Adding /\ Coming) \/ Going)

\* What the sample is doing, and the state the world is in then.
ModeOK ==
  /\ mode # "on" => stage = "idle"
  /\ mode \in {"on", "resize"} <=> listener
  /\ mode \notin {"off", "end"} => quadtree
  /\ mode = "off" => rendered = <<>> /\ wall_objects = <<>>
  /\ mode = "begin" => /\ overlapped = {}
                       /\ Len(rendered) <= InitialObjects /\ Len(wall_objects) <= Walls
  
OwnInv ==
  /\ WorldInv
  /\ SampleTypeOK
  /\ OwnColliders
  /\ OwnBodies
  /\ IssuedKnown
  /\ PendingOK
  /\ ModeOK

-----------------------------------------------------------------------------
(* Layer 2: what the listener has been told. *)

\* A Tick goes over pairs in use, and nothing throws out of it.
TickOK ==
  /\ active = IF stage = "idle" THEN "other" ELSE "own"
  /\ stage # "idle" => resume = "other"
  /\ \A p \in candidates : p \subseteq InUse
  /\ stage = "exit" => leaving \subseteq previous

EventsInv == TickOK /\ EventsMatchOverlaps

-----------------------------------------------------------------------------
(* Layer 3: what the sample counts. *)

Triggers(pairs, c) == {p \in pairs : c \in p /\ IsTrigger(p)}
Solids(pairs, c) == {p \in pairs : c \in p /\ ~IsTrigger(p)}

\* A count is never above what it counts, and equal to it until a switch.
Counted(count, n) == count <= n /\ (~toggled => count = n)

\* Each count by itself stays within the overlaps of its kind: it is not
\* enough that their sum does, for an exit lowers one count only.
CountOK(r) ==
  /\ Counted(r.trigger_count, Cardinality(Triggers(Believed, r.collider_idx)))
  /\ Counted(r.collision_count, Cardinality(Solids(Believed, r.collider_idx)))

CountsInv ==
  mode \in {"begin", "on", "resize"} => \A k \in DOMAIN rendered : CountOK(rendered[k])

SampleInv == OwnInv /\ EventsInv /\ CountsInv

-----------------------------------------------------------------------------
(* Lemmas about pairs, sequences and counts. *)

\* An Index is bounded.
LEMMA IndexFinite == IsFiniteSet(Colliders!Index)
<1> DEFINE I == 0 .. ColliderSlots - 1
           G == 0 .. MaxColliderGeneration
           f == [c \in Colliders!Index |-> <<c.index, c.generationIndex>>]
<1>1. IsFiniteSet(I) /\ IsFiniteSet(G)
  BY FS_Interval, BoundsAreNat
<1>2. f \in Injection(Colliders!Index, I \X G)
  BY DEF Injection, IsInjective, Colliders!Index
<1> HIDE DEF f, I, G
<1>3. IsFiniteSet(I \X G)
  BY <1>1, FS_Product
<1> QED BY <1>2, <1>3, FS_Injection

\* There are finitely many pairs, so overlaps can be counted.
LEMMA PairsFinite ==
  ASSUME NEW P \in SUBSET Pair
  PROVE  IsFiniteSet(P) /\ Cardinality(P) \in Nat
<1>1. IsFiniteSet(SUBSET Colliders!Index)
  BY IndexFinite, FS_SUBSET
<1>2. P \in SUBSET SUBSET Colliders!Index
  BY PairType
<1>3. IsFiniteSet(P)
  BY <1>1, <1>2, FS_Subset
<1>4. Cardinality(P) \in Nat
  BY <1>3, FS_CardinalityType
<1> QED BY <1>3, <1>4

\* A sequence is a function on the numbers up to its length.
LEMMA SeqIsFunction ==
  ASSUME NEW S, NEW n \in Nat, NEW f \in [1 .. n -> S]
  PROVE  f \in Seq(S) /\ Len(f) = n /\ DOMAIN f = 1 .. n
<1>1. f \in Seq(S)
  BY SeqDef
<1>2. DOMAIN f = 1 .. n /\ DOMAIN f = 1 .. Len(f) /\ Len(f) \in Nat
  BY <1>1, LenProperties
<1> QED BY <1>1, <1>2

\* An object keeps its collider when pairs exit, and its counts stay natural
\* numbers.
LEMMA AfterExitsType ==
  ASSUME NEW r \in Rendered, NEW pairs \in SUBSET Pair
  PROVE  /\ AfterExits(r, pairs) \in Rendered
         /\ AfterExits(r, pairs).collider_idx = r.collider_idx
<1> DEFINE T == {p \in {q \in pairs : InPair(r, q)} : IsTrigger(p)}
           S == {p \in {q \in pairs : InPair(r, q)} : ~IsTrigger(p)}
<1>1. Cardinality(T) \in Nat /\ Cardinality(S) \in Nat
  <2>1. T \in SUBSET Pair /\ S \in SUBSET Pair
    OBVIOUS
  <2> HIDE DEF T, S
  <2> QED BY <2>1, PairsFinite
<1>2. /\ Less(r.trigger_count, Cardinality(T)) \in Nat
      /\ Less(r.collision_count, Cardinality(S)) \in Nat
  <2> HIDE DEF T, S
  <2> QED BY <1>1 DEF Rendered, Less
<1>3. AfterExits(r, pairs) = [r EXCEPT !.trigger_count   = Less(r.trigger_count, Cardinality(T)),
                                       !.collision_count = Less(r.collision_count, Cardinality(S))]
  BY DEF AfterExits
<1>4. PICK a \in Nat, b \in Nat :
         AfterExits(r, pairs) = [r EXCEPT !.trigger_count = a, !.collision_count = b]
  <2> HIDE DEF T, S
  <2> QED BY <1>2, <1>3
<1> QED BY <1>4 DEF Rendered

\* The first n objects keep their colliders.
KeptObjects(n) ==
  /\ rendered' \in Seq(Rendered)
  /\ Len(rendered') = n
  /\ \A k \in 1 .. n : rendered'[k].collider_idx = rendered[k].collider_idx

\* The counts change in place when pairs enter and exit.
LEMMA ObjectsKept ==
  ASSUME rendered \in Seq(Rendered), NEW n \in 0 .. Len(rendered),
         rendered' \in [1 .. n -> Rendered],
         \A k \in 1 .. n : rendered'[k].collider_idx = rendered[k].collider_idx
  PROVE  KeptObjects(n)
BY SeqIsFunction, LenProperties DEF KeptObjects

\* OnExit keeps the objects.
LEMMA ExitKeepsObjects ==
  ASSUME rendered \in Seq(Rendered), NEW n \in 0 .. Len(rendered), NEW pairs \in SUBSET Pair,
         rendered' = [k \in 1 .. n |-> AfterExits(rendered[k], pairs)]
  PROVE  KeptObjects(n)
<1>1. \A k \in 1 .. n : rendered[k] \in Rendered
  BY LenProperties
<1> QED BY <1>1, AfterExitsType, ObjectsKept

\* OnEnter keeps the objects.
LEMMA EnterKeepsObjects ==
  ASSUME rendered \in Seq(Rendered), NEW pair, OnEnter(pair)
  PROVE  KeptObjects(Len(rendered))
<1>1. \A k \in 1 .. Len(rendered) : rendered[k] \in Rendered
  BY LenProperties
<1>2. DOMAIN rendered = 1 .. Len(rendered) /\ Len(rendered) \in 0 .. Len(rendered)
  BY LenProperties
<1>3. \A r \in Rendered : /\ [r EXCEPT !.trigger_count = @ + 1] \in Rendered
                          /\ [r EXCEPT !.collision_count = @ + 1] \in Rendered
  BY DEF Rendered
<1>4. \A r \in Rendered :
        /\ [r EXCEPT !.trigger_count = @ + 1].collider_idx = r.collider_idx
        /\ [r EXCEPT !.collision_count = @ + 1].collider_idx = r.collider_idx
  BY DEF Rendered
<1>5. /\ rendered' \in [1 .. Len(rendered) -> Rendered]
      /\ \A k \in 1 .. Len(rendered) : rendered'[k].collider_idx = rendered[k].collider_idx
  BY <1>1, <1>2, <1>3, <1>4 DEF OnEnter
<1> QED BY <1>2, <1>5, ObjectsKept

-----------------------------------------------------------------------------
(* Layer 1: every step of the sample keeps OwnInv. *)

\* What the sample can rely on.
LEMMA OwnFacts ==
  ASSUME OwnInv
  PROVE  /\ rendered \in Seq(Rendered) /\ wall_objects \in Seq(Colliders!Index)
         /\ Len(rendered) \in Nat /\ DOMAIN rendered = 1 .. Len(rendered)
         /\ Len(wall_objects) \in Nat /\ DOMAIN wall_objects = 1 .. Len(wall_objects)
         /\ \A k \in DOMAIN rendered : /\ rendered[k] \in Rendered
                                       /\ rendered[k].collider_idx \in InUse
         /\ \A k \in DOMAIN wall_objects : wall_objects[k] \in InUse
         /\ body_issued \subseteq Bodies!Index /\ NoBody \notin Bodies!Index
         /\ collider_issued \subseteq Colliders!Index
         /\ \A c \in InUse : BodyOf(c) # NoBody /\ collider[c.index] \in Collider
<1>1. rendered \in Seq(Rendered) /\ wall_objects \in Seq(Colliders!Index)
  BY DEF OwnInv, SampleTypeOK
<1>2. /\ Len(rendered) \in Nat /\ DOMAIN rendered = 1 .. Len(rendered)
      /\ Len(wall_objects) \in Nat /\ DOMAIN wall_objects = 1 .. Len(wall_objects)
      /\ \A k \in DOMAIN rendered : rendered[k] \in Rendered
  BY <1>1, LenProperties
<1>3. /\ \A k \in DOMAIN rendered : rendered[k].collider_idx \in InUse
      /\ \A k \in DOMAIN wall_objects : wall_objects[k] \in InUse
  BY DEF OwnInv, OwnColliders, RenderedColliders, WallColliders
<1>4. body_issued \subseteq Bodies!Index /\ collider_issued \subseteq Colliders!Index
  BY DEF OwnInv, SampleTypeOK, TypeOK, Bodies!TypeOK, Colliders!TypeOK
<1>5. NoBody \notin Bodies!Index
  BY BoundsAreNat DEF NoBody, Bodies!Index
<1>6. \A c \in InUse : BodyOf(c) \in body_issued /\ collider[c.index] \in Collider
  BY InUseIsLive, CollidersLive DEF OwnInv, OwnBodies, WorldInv, TypeOK
<1> QED BY <1>1, <1>2, <1>3, <1>4, <1>5, <1>6

\* Add returns the one Index that was not there before.
LEMMA ReturnedIsNew ==
  ASSUME NEW S, NEW h, h \notin S
  PROVE  Returned(S, S \cup {h}) = h
BY DEF Returned

\* Colliders that do not change keep their bodies.
LEMMA BodyOfKept ==
  ASSUME OwnInv, UNCHANGED colliderVars
  PROVE  /\ InUse' = InUse
         /\ \A c : BodyOf(c)' = BodyOf(c)
         /\ \A c : ColliderKnown(c)' <=> ColliderKnown(c)
         /\ collider_issued' = collider_issued
BY CollidersKept DEF OwnInv, WorldInv, TypeOK, BodyOf, colliderVars

\* Bodies that do not change, or only move, keep their use.
LEMMA BodiesInPlace ==
  ASSUME OwnInv, UNCHANGED bodyVars
  PROVE  /\ Bodies!Live' = Bodies!Live
         /\ \A b : BodyKnown(b)' <=> BodyKnown(b)
         /\ body_issued' = body_issued
<1>1. \A i \in Bodies!Slot : body'[i] = Invalid <=> body[i] = Invalid
  BY DEF bodyVars
<1> QED BY <1>1, BodiesWrite DEF OwnInv, WorldInv, TypeOK, Bodies!TypeOK, bodyVars

\* Nothing is added and nothing removed.
LEMMA OwnKept ==
  ASSUME OwnColliders, OwnBodies, IssuedKnown,
         InUse' = InUse, \A c \in InUse : BodyOf(c)' = BodyOf(c),
         Bodies!Live' = Bodies!Live,
         \A b : BodyKnown(b)' <=> BodyKnown(b),
         \A c : ColliderKnown(c)' <=> ColliderKnown(c),
         UNCHANGED <<body_issued, collider_issued, wall_objects, pending>>,
         DOMAIN rendered' = DOMAIN rendered,
         \A k \in DOMAIN rendered : rendered'[k].collider_idx = rendered[k].collider_idx
  PROVE  OwnColliders' /\ OwnBodies' /\ IssuedKnown'
<1>1. RenderedColliders' = RenderedColliders /\ WallColliders' = WallColliders
  BY DEF RenderedColliders, WallColliders
<1>2. OwnColliders'
  BY <1>1 DEF OwnColliders
<1>3. OwnBodies'
  BY DEF OwnBodies
<1>4. IssuedKnown'
  BY DEF IssuedKnown
<1> QED BY <1>2, <1>3, <1>4

\* An object or a wall gets its body first.
LEMMA StartObjectStep ==
  ASSUME OwnInv, NEW place \in Place, StartObject(place), Adding
  PROVE  OwnInv'
<1>1. WorldInv'
  BY OperationInv DEF OwnInv, StartObject, Build
<1>2. /\ UNCHANGED <<colliderVars, overlapped, stage, listener, quadtree>>
      /\ UNCHANGED <<rendered, wall_objects, objects_count, trigger_mode, mode, toggled>>
      /\ pending = NoBody /\ Bodies!Add(place)
      /\ pending' = Returned(body_issued, body_issued')
  BY DEF StartObject, AddBody, overlapVars, tickVars
<1>3. PICK h \in Bodies!Index :
        /\ ~BodyKnown(h) /\ h \notin Bodies!Live
        /\ Bodies!Live' = Bodies!Live \cup {h}
        /\ body_issued' = body_issued \cup {h}
        /\ \A b \in Bodies!Index : BodyKnown(b) => BodyKnown(b)'
        /\ Bodies!TypeOK'
  BY <1>2, BodiesAdd DEF OwnInv, WorldInv, TypeOK
<1>4. h \notin body_issued /\ pending' = h
  <2>1. h \notin body_issued
    BY <1>3 DEF OwnInv, IssuedKnown
  <2> QED BY <1>2, <1>3, <2>1, ReturnedIsNew
<1>5. /\ InUse' = InUse /\ \A c : BodyOf(c)' = BodyOf(c)
      /\ \A c : ColliderKnown(c)' <=> ColliderKnown(c)
      /\ collider_issued' = collider_issued
  BY <1>2, BodyOfKept
<1>6. OwnColliders'
  BY <1>2, <1>5 DEF OwnInv, OwnColliders, RenderedColliders, WallColliders
<1>7. \A c \in InUse : BodyOf(c) \in body_issued /\ BodyOf(c) \in Bodies!Live
  BY <1>2, OwnFacts DEF OwnInv, OwnBodies
<1>8. OwnBodies'
  BY <1>3, <1>5, <1>7 DEF OwnInv, OwnBodies
<1>9. IssuedKnown'
  <2>1. BodyKnown(h)'
    BY <1>3, BodiesLiveNext
  <2> QED BY <1>3, <1>5, <2>1, OwnFacts DEF OwnInv, IssuedKnown
<1>10. PendingOK'
  <2>1. Adding'
    BY <1>2 DEF Adding
  <2>2. Coming'
    BY <1>3, <1>4, <1>5, <1>7 DEF Coming
  <2> QED BY <1>3, <1>4, <2>1, <2>2 DEF PendingOK
<1>11. SampleTypeOK'
  BY <1>1, <1>2, <1>3, <1>4 DEF OwnInv, WorldInv, SampleTypeOK
<1>12. ModeOK'
  BY <1>2 DEF OwnInv, ModeOK
<1> QED BY <1>1, <1>6, <1>8, <1>9, <1>10, <1>11, <1>12 DEF OwnInv

\* What a collider for the pending body changes.
LEMMA PendingCollider ==
  ASSUME OwnInv, pending # NoBody, Adding, NEW is_trigger \in Trigger,
         AddCollider(pending, is_trigger)
  PROVE  /\ WorldInv'
         /\ UNCHANGED <<bodyVars, overlapped, stage, listener, quadtree>>
         /\ \E h \in Colliders!Index :
              /\ h \notin InUse /\ InUse' = InUse \cup {h}
              /\ collider_issued' = collider_issued \cup {h}
              /\ Returned(collider_issued, collider_issued') = h
              /\ collider'[h.index] = [body |-> pending, is_trigger |-> is_trigger]
              /\ BodyOf(h)' = pending
              /\ \A c \in InUse : /\ collider'[c.index] = collider[c.index]
                                  /\ BodyOf(c)' = BodyOf(c)
         /\ OwnBodies' /\ IssuedKnown'
<1>1. pending \in body_issued /\ Coming
  <2>1. Len(rendered) \in Nat /\ objects_count \in Int
    BY OwnFacts, SampleAssumption DEF OwnInv, SampleTypeOK
  <2> QED BY <2>1 DEF OwnInv, PendingOK, Adding, Going, NextToGo
<1>2. WorldInv'
  BY <1>1, AddColliderStep DEF OwnInv
<1> DEFINE v == [body |-> pending, is_trigger |-> is_trigger]
<1>3. /\ Colliders!Add(v) /\ v \in Collider /\ v.body = pending
      /\ UNCHANGED <<bodyVars, overlapped, stage, listener, quadtree>>
  BY <1>1, OwnFacts DEF AddCollider, Collider, overlapVars, tickVars
<1> HIDE DEF v
<1>4. PICK h \in Colliders!Index :
        /\ ~ColliderKnown(h) /\ h \notin Colliders!Live
        /\ Colliders!Live' = Colliders!Live \cup {h}
        /\ collider_issued' = collider_issued \cup {h}
        /\ collider'[h.index] = v
        /\ \A c \in Colliders!Live : collider'[c.index] = collider[c.index]
        /\ \A c \in Colliders!Index : ColliderKnown(c) => ColliderKnown(c)'
        /\ Colliders!TypeOK'
  BY <1>3, CollidersAdd DEF OwnInv, WorldInv, TypeOK
<1>5. h \notin InUse /\ InUse' = InUse \cup {h}
  BY <1>4, InUseIsLive, InUseIsLiveNext
<1>6. Returned(collider_issued, collider_issued') = h
  <2>1. h \notin collider_issued
    BY <1>4 DEF OwnInv, IssuedKnown
  <2> QED BY <1>4, <2>1, ReturnedIsNew
<1>7. /\ BodyOf(h)' = pending
      /\ \A c \in InUse : /\ collider'[c.index] = collider[c.index]
                          /\ BodyOf(c)' = BodyOf(c)
  BY <1>3, <1>4, InUseIsLive DEF BodyOf
<1>8. /\ Bodies!Live' = Bodies!Live /\ \A b : BodyKnown(b)' <=> BodyKnown(b)
      /\ body_issued' = body_issued
  BY <1>3, BodiesInPlace
<1>9. OwnBodies'
  <2>1. \A c \in InUse' : BodyOf(c)' \in body_issued' /\ BodyOf(c)' \in Bodies!Live'
    BY <1>1, <1>5, <1>7, <1>8 DEF OwnInv, OwnBodies, Coming
  <2>2. \A c, d \in InUse' : BodyOf(c)' = BodyOf(d)' => c = d
    BY <1>1, <1>5, <1>7 DEF OwnInv, OwnBodies, Coming
  <2> QED BY <2>1, <2>2 DEF OwnBodies
<1>10. IssuedKnown'
  <2>1. ColliderKnown(h)'
    BY <1>4, CollidersLiveNext
  <2> QED BY <1>4, <1>5, <1>8, <2>1, OwnFacts DEF OwnInv, IssuedKnown
<1> QED BY <1>2, <1>3, <1>4, <1>5, <1>6, <1>7, <1>9, <1>10 DEF v

\* A new object has no overlaps yet.
LEMMA FinishObjectStep ==
  ASSUME OwnInv, pending # NoBody, FinishObject,
         \/ mode = "begin" /\ Len(rendered) < InitialObjects
         \/ mode = "resize" /\ objects_count > Len(rendered)
  PROVE  OwnInv'
<1>1. Adding /\ trigger_mode \in Trigger /\ objects_count \in 0 .. ObjectsCapacity
  BY DEF Adding, OwnInv, SampleTypeOK
<1>2. /\ AddCollider(pending, trigger_mode)
      /\ UNCHANGED <<wall_objects, objects_count, trigger_mode, mode, toggled>>
      /\ pending' = NoBody
  BY DEF FinishObject
<1>3. PICK h \in Colliders!Index :
        /\ h \notin InUse /\ InUse' = InUse \cup {h}
        /\ Returned(collider_issued, collider_issued') = h
  BY <1>1, <1>2, PendingCollider
<1>4. /\ WorldInv' /\ OwnBodies' /\ IssuedKnown'
      /\ UNCHANGED <<overlapped, stage, listener, quadtree>>
  BY <1>1, <1>2, PendingCollider
<1> DEFINE r == [collider_idx |-> h, collision_count |-> 0, trigger_count |-> 0]
<1>5. r \in Rendered /\ r.collider_idx = h /\ rendered' = Append(rendered, r)
  BY <1>3 DEF FinishObject, Rendered
<1> HIDE DEF r
<1>6. /\ rendered' \in Seq(Rendered) /\ Len(rendered') = Len(rendered) + 1
      /\ \A k \in 1 .. Len(rendered) : rendered'[k] = rendered[k]
      /\ rendered'[Len(rendered) + 1] = r
  BY <1>5, OwnFacts, AppendProperties
<1>7. /\ Len(rendered) \in Nat /\ DOMAIN rendered = 1 .. Len(rendered)
      /\ DOMAIN rendered' = (1 .. Len(rendered)) \cup {Len(rendered) + 1}
  BY <1>6, OwnFacts, LenProperties
<1>8. \A k \in DOMAIN rendered' :
        \/ k \in DOMAIN rendered /\ rendered'[k] = rendered[k]
        \/ k = Len(rendered) + 1 /\ rendered'[k].collider_idx = h
  BY <1>5, <1>6, <1>7
<1>9. RenderedColliders' = RenderedColliders \cup {h} /\ WallColliders' = WallColliders
  BY <1>2, <1>5, <1>6, <1>7, <1>8 DEF RenderedColliders, WallColliders
<1>10. OwnColliders'
  <2>1. InUse' = RenderedColliders' \cup WallColliders'
    BY <1>3, <1>9 DEF OwnInv, OwnColliders
  <2>2. RenderedColliders' \cap WallColliders' = {}
    BY <1>3, <1>9 DEF OwnInv, OwnColliders
  <2>3. \A k \in DOMAIN rendered : rendered[k].collider_idx # h
    BY <1>3, OwnFacts
  <2>4. \A k, l \in DOMAIN rendered' :
          rendered'[k].collider_idx = rendered'[l].collider_idx => k = l
    BY <1>8, <2>3 DEF OwnInv, OwnColliders
  <2> QED BY <1>2, <2>1, <2>2, <2>4 DEF OwnInv, OwnColliders
<1>11. PendingOK'
  BY <1>2 DEF PendingOK
<1>12. Len(rendered') <= ObjectsCapacity
  BY <1>1, <1>6, <1>7, SampleAssumption
<1>13. SampleTypeOK'
  BY <1>2, <1>4, <1>6, <1>12 DEF OwnInv, WorldInv, SampleTypeOK
<1>14. ModeOK'
  <2>1. mode = "begin" => Len(rendered') <= InitialObjects
    BY <1>6, <1>7, SampleAssumption
  <2> QED BY <1>2, <1>4, <2>1 DEF OwnInv, ModeOK
<1> QED BY <1>4, <1>10, <1>11, <1>13, <1>14 DEF OwnInv

\* A wall is a collider that is no object.
LEMMA FinishWallStep ==
  ASSUME OwnInv, pending # NoBody, FinishWall, mode = "begin", Len(wall_objects) < Walls
  PROVE  OwnInv'
<1>1. Adding /\ FALSE \in Trigger
  BY SampleAssumption DEF Adding
<1>2. /\ AddCollider(pending, FALSE)
      /\ UNCHANGED <<rendered, objects_count, trigger_mode, mode, toggled>>
      /\ pending' = NoBody
  BY DEF FinishWall
<1>3. PICK h \in Colliders!Index :
        /\ h \notin InUse /\ InUse' = InUse \cup {h}
        /\ Returned(collider_issued, collider_issued') = h
  BY <1>1, <1>2, PendingCollider
<1>4. /\ WorldInv' /\ OwnBodies' /\ IssuedKnown'
      /\ UNCHANGED <<overlapped, stage, listener, quadtree>>
  BY <1>1, <1>2, PendingCollider
<1>5. wall_objects' = Append(wall_objects, h)
  BY <1>3 DEF FinishWall
<1>6. /\ wall_objects' \in Seq(Colliders!Index) /\ Len(wall_objects') = Len(wall_objects) + 1
      /\ \A k \in 1 .. Len(wall_objects) : wall_objects'[k] = wall_objects[k]
      /\ wall_objects'[Len(wall_objects) + 1] = h
  BY <1>3, <1>5, OwnFacts, AppendProperties
<1>7. /\ Len(wall_objects) \in Nat /\ DOMAIN wall_objects = 1 .. Len(wall_objects)
      /\ DOMAIN wall_objects' = (1 .. Len(wall_objects)) \cup {Len(wall_objects) + 1}
  BY <1>6, OwnFacts, LenProperties
<1>8. \A k \in DOMAIN wall_objects' :
        \/ k \in DOMAIN wall_objects /\ wall_objects'[k] = wall_objects[k]
        \/ k = Len(wall_objects) + 1 /\ wall_objects'[k] = h
  BY <1>6, <1>7
<1>9. WallColliders' = WallColliders \cup {h} /\ RenderedColliders' = RenderedColliders
  BY <1>2, <1>6, <1>7, <1>8 DEF RenderedColliders, WallColliders
<1>10. OwnColliders'
  <2>1. InUse' = RenderedColliders' \cup WallColliders'
    BY <1>3, <1>9 DEF OwnInv, OwnColliders
  <2>2. RenderedColliders' \cap WallColliders' = {}
    BY <1>3, <1>9 DEF OwnInv, OwnColliders
  <2>3. \A k \in DOMAIN wall_objects : wall_objects[k] # h
    BY <1>3, OwnFacts
  <2>4. \A k, l \in DOMAIN wall_objects' : wall_objects'[k] = wall_objects'[l] => k = l
    BY <1>8, <2>3 DEF OwnInv, OwnColliders
  <2> QED BY <1>2, <2>1, <2>2, <2>4 DEF OwnInv, OwnColliders
<1>11. PendingOK'
  BY <1>2 DEF PendingOK
<1>12. SampleTypeOK'
  BY <1>2, <1>4, <1>6 DEF OwnInv, WorldInv, SampleTypeOK
<1>13. ModeOK'
  <2>1. Len(wall_objects') <= Walls
    BY <1>6, <1>7, SampleAssumption
  <2> QED BY <1>2, <1>4, <2>1 DEF OwnInv, ModeOK
<1> QED BY <1>4, <1>10, <1>11, <1>12, <1>13 DEF OwnInv

\* The body of the next collider to go goes first.
LEMMA RemoveBodyOfStep ==
  ASSUME OwnInv, NEW c \in InUse, NextToGo(c), RemoveBodyOf(c)
  PROVE  OwnInv'
<1>1. BodyOf(c) \in body_issued
  BY DEF OwnInv, OwnBodies
<1>2. WorldInv'
  BY <1>1, OperationInv DEF OwnInv, RemoveBodyOf, Take
<1>3. /\ UNCHANGED <<colliderVars, overlapped, stage, listener, quadtree>>
      /\ UNCHANGED <<rendered, wall_objects, objects_count, trigger_mode, mode, toggled>>
      /\ pending = NoBody /\ Bodies!Remove(BodyOf(c)) /\ pending' = BodyOf(c)
  BY DEF RemoveBodyOf, RemoveBody, overlapVars, tickVars
<1>4. /\ Bodies!Live' = Bodies!Live \ {BodyOf(c)} /\ body_issued' = body_issued
      /\ \A b \in Bodies!Index : BodyKnown(b) => BodyKnown(b)'
  BY <1>1, <1>3, BodiesRemove DEF OwnInv, WorldInv, TypeOK
<1>5. /\ InUse' = InUse /\ \A d : BodyOf(d)' = BodyOf(d)
      /\ \A d : ColliderKnown(d)' <=> ColliderKnown(d)
      /\ collider_issued' = collider_issued
  BY <1>3, BodyOfKept
<1>6. OwnColliders'
  BY <1>3, <1>5 DEF OwnInv, OwnColliders, RenderedColliders, WallColliders
<1>7. OwnBodies'
  BY <1>3, <1>4, <1>5, OwnFacts DEF OwnInv, OwnBodies
<1>8. IssuedKnown'
  BY <1>4, <1>5, OwnFacts DEF OwnInv, IssuedKnown
<1>9. PendingOK'
  <2>1. NextToGo(c)'
    BY <1>3 DEF NextToGo
  <2>2. Going'
    BY <1>3, <1>5, <2>1 DEF Going
  <2> QED BY <1>1, <1>3, <1>4, <2>2 DEF PendingOK
<1>10. SampleTypeOK'
  BY <1>1, <1>2, <1>3, OwnFacts DEF OwnInv, WorldInv, SampleTypeOK
<1>11. ModeOK'
  BY <1>3 DEF OwnInv, ModeOK
<1> QED BY <1>2, <1>6, <1>7, <1>8, <1>9, <1>10, <1>11 DEF OwnInv

\* What the removal of a collider changes, once its body is gone.
LEMMA PendingRemoval ==
  ASSUME OwnInv, pending # NoBody, NEW c \in InUse, NextToGo(c), RemoveCollider(c)
  PROVE  /\ WorldInv' /\ OwnBodies' /\ IssuedKnown'
         /\ UNCHANGED <<bodyVars, stage, listener, quadtree>>
         /\ overlapped' \subseteq overlapped
         /\ InUse' = InUse \ {c}
         /\ \A d \in InUse' : collider'[d.index] = collider[d.index]
<1>1. c \in collider_issued
  BY DEF OwnInv, IssuedKnown
<1>2. WorldInv'
  BY <1>1, RemoveColliderStep DEF OwnInv
<1>3. /\ UNCHANGED <<bodyVars, stage, listener, quadtree>>
      /\ Colliders!Remove(c) /\ overlapped' \subseteq overlapped
  BY DEF RemoveCollider, tickVars
<1>4. /\ Colliders!Live' = Colliders!Live \ {c} /\ collider_issued' = collider_issued
      /\ \A d \in Colliders!Live' : collider'[d.index] = collider[d.index]
      /\ \A d \in Colliders!Index : ColliderKnown(d) => ColliderKnown(d)'
  BY <1>1, <1>3, CollidersRemove DEF OwnInv, WorldInv, TypeOK
<1>5. /\ InUse' = InUse \ {c}
      /\ \A d \in InUse' : collider'[d.index] = collider[d.index] /\ BodyOf(d)' = BodyOf(d)
  BY <1>4, InUseIsLive, InUseIsLiveNext DEF BodyOf
<1>6. pending = BodyOf(c)
  <2>1. Len(rendered) \in Nat /\ objects_count \in Int
    BY OwnFacts, SampleAssumption DEF OwnInv, SampleTypeOK
  <2>2. ~Adding
    BY <2>1 DEF Adding, NextToGo
  <2>3. \A d \in InUse : NextToGo(d) => d = c
    BY DEF NextToGo
  <2> QED BY <2>2, <2>3 DEF OwnInv, PendingOK, Going
<1>7. /\ Bodies!Live' = Bodies!Live /\ \A b : BodyKnown(b)' <=> BodyKnown(b)
      /\ body_issued' = body_issued
  BY <1>3, BodiesInPlace
<1>8. OwnBodies'
  <2>1. \A d \in InUse' : /\ d \in InUse /\ BodyOf(d)' = BodyOf(d)
                          /\ BodyOf(d) # BodyOf(c)
    BY <1>5 DEF OwnInv, OwnBodies
  <2> QED BY <1>6, <1>7, <2>1 DEF OwnInv, OwnBodies
<1>9. IssuedKnown'
  BY <1>4, <1>5, <1>7, OwnFacts DEF OwnInv, IssuedKnown
<1> QED BY <1>2, <1>3, <1>5, <1>8, <1>9

\* The last object goes, and the others hear of the exits.
LEMMA RemoveBackStep ==
  ASSUME OwnInv, pending # NoBody, mode = "resize", objects_count < Len(rendered), RemoveBack
  PROVE  OwnInv'
<1> DEFINE last == Len(rendered)
           c    == rendered[last].collider_idx
<1>1. last \in Nat \ {0} /\ DOMAIN rendered = 1 .. last /\ objects_count \in Nat
  BY OwnFacts, SampleAssumption DEF OwnInv, SampleTypeOK
<1>2. c \in InUse /\ NextToGo(c)
  BY <1>1, OwnFacts DEF NextToGo
<1>3. /\ RemoveCollider(c)
      /\ rendered' = [k \in 1 .. last - 1 |->
                        AfterExits(rendered[k], {p \in overlapped : c \in p})]
      /\ pending' = NoBody
      /\ UNCHANGED <<wall_objects, objects_count, trigger_mode, mode, toggled>>
  BY DEF RemoveBack
<1>4. KeptObjects(last - 1)
  <2> DEFINE P == {p \in overlapped : c \in p}
  <2>1. P \in SUBSET Pair
    BY DEF OwnInv, WorldInv, TypeOK
  <2>2. last - 1 \in 0 .. Len(rendered) /\ rendered \in Seq(Rendered)
    BY <1>1, OwnFacts
  <2>3. rendered' = [k \in 1 .. last - 1 |-> AfterExits(rendered[k], P)]
    BY <1>3
  <2> HIDE DEF P, c, last
  <2> QED BY <2>1, <2>2, <2>3, ExitKeepsObjects
<1>5. /\ WorldInv' /\ OwnBodies' /\ IssuedKnown'
      /\ UNCHANGED <<stage, listener, quadtree>>
      /\ InUse' = InUse \ {c}
  BY <1>2, <1>3, PendingRemoval
<1>6. /\ DOMAIN rendered' = 1 .. last - 1
      /\ DOMAIN rendered = DOMAIN rendered' \cup {last} /\ last \notin DOMAIN rendered'
      /\ \A k \in DOMAIN rendered' : rendered'[k].collider_idx = rendered[k].collider_idx
  BY <1>1, <1>4, LenProperties DEF KeptObjects
<1>7. \A k \in DOMAIN rendered' : rendered'[k].collider_idx # c
  BY <1>6 DEF OwnInv, OwnColliders
<1>8. RenderedColliders' = RenderedColliders \ {c} /\ WallColliders' = WallColliders
  <2>1. ASSUME NEW d \in RenderedColliders' PROVE d \in RenderedColliders \ {c}
    BY <1>6, <1>7, <2>1 DEF RenderedColliders
  <2>2. ASSUME NEW d \in RenderedColliders, d # c PROVE d \in RenderedColliders'
    BY <1>6, <2>2 DEF RenderedColliders
  <2> QED BY <1>3, <2>1, <2>2 DEF WallColliders
<1>9. OwnColliders'
  <2>1. c \in RenderedColliders
    BY <1>6 DEF RenderedColliders
  <2>2. InUse' = RenderedColliders' \cup WallColliders'
    BY <1>5, <1>8, <2>1 DEF OwnInv, OwnColliders
  <2>3. RenderedColliders' \cap WallColliders' = {}
    BY <1>8 DEF OwnInv, OwnColliders
  <2>4. \A k, l \in DOMAIN rendered' :
          rendered'[k].collider_idx = rendered'[l].collider_idx => k = l
    BY <1>6 DEF OwnInv, OwnColliders
  <2> QED BY <1>3, <2>2, <2>3, <2>4 DEF OwnInv, OwnColliders
<1>10. PendingOK'
  BY <1>3 DEF PendingOK
<1>11. SampleTypeOK'
  <2>1. rendered' \in Seq(Rendered) /\ Len(rendered') <= ObjectsCapacity
    BY <1>1, <1>4, SampleAssumption DEF KeptObjects, OwnInv, SampleTypeOK
  <2> QED BY <1>3, <1>5, <2>1 DEF OwnInv, WorldInv, SampleTypeOK
<1>12. ModeOK'
  BY <1>3, <1>5 DEF OwnInv, ModeOK
<1> QED BY <1>5, <1>9, <1>10, <1>11, <1>12 DEF OwnInv

\* End removes the objects from the first to the last.
LEMMA EndObjectStep ==
  ASSUME OwnInv, pending # NoBody, mode = "end", rendered # <<>>,
         RemoveCollider(rendered[1].collider_idx),
         rendered' = Tail(rendered), pending' = NoBody,
         UNCHANGED <<wall_objects, objects_count, trigger_mode, mode, toggled>>
  PROVE  OwnInv'
<1> DEFINE c == rendered[1].collider_idx
<1>1. /\ rendered \in Seq(Rendered) /\ Len(rendered) \in Nat \ {0}
      /\ DOMAIN rendered = 1 .. Len(rendered)
  BY OwnFacts, EmptySeq
<1>2. c \in InUse /\ NextToGo(c)
  BY <1>1, OwnFacts DEF NextToGo
<1>3. /\ WorldInv' /\ OwnBodies' /\ IssuedKnown'
      /\ UNCHANGED <<stage, listener, quadtree>>
      /\ InUse' = InUse \ {c}
  BY <1>2, PendingRemoval
<1>4. /\ rendered' \in Seq(Rendered) /\ Len(rendered') = Len(rendered) - 1
      /\ \A k \in 1 .. Len(rendered) - 1 : rendered'[k] = rendered[k + 1]
  BY <1>1, HeadTailProperties
<1>5. /\ DOMAIN rendered' = 1 .. Len(rendered) - 1
      /\ \A k \in DOMAIN rendered' : /\ k + 1 \in DOMAIN rendered /\ k \in Int
                                     /\ k + 1 # 1 /\ rendered'[k] = rendered[k + 1]
  BY <1>1, <1>4, LenProperties
<1>6. \A k \in DOMAIN rendered :
        k # 1 => k - 1 \in DOMAIN rendered' /\ rendered'[k - 1] = rendered[k]
  <2> SUFFICES ASSUME NEW k \in DOMAIN rendered, k # 1
               PROVE  k - 1 \in DOMAIN rendered' /\ rendered'[k - 1] = rendered[k]
    OBVIOUS
  <2>1. k - 1 \in 1 .. Len(rendered) - 1 /\ (k - 1) + 1 = k
    BY <1>1
  <2> QED BY <1>4, <1>5, <2>1
<1>7. \A k \in DOMAIN rendered' : rendered'[k].collider_idx # c
  BY <1>1, <1>5 DEF OwnInv, OwnColliders
<1>8. RenderedColliders' = RenderedColliders \ {c} /\ WallColliders' = WallColliders
  <2>1. ASSUME NEW d \in RenderedColliders' PROVE d \in RenderedColliders \ {c}
    BY <1>5, <1>7, <2>1 DEF RenderedColliders
  <2>2. ASSUME NEW d \in RenderedColliders, d # c PROVE d \in RenderedColliders'
    BY <1>6, <2>2 DEF RenderedColliders
  <2> QED BY <2>1, <2>2 DEF WallColliders
<1>9. OwnColliders'
  <2>1. c \in RenderedColliders
    BY <1>1 DEF RenderedColliders
  <2>2. InUse' = RenderedColliders' \cup WallColliders'
    BY <1>3, <1>8, <2>1 DEF OwnInv, OwnColliders
  <2>3. RenderedColliders' \cap WallColliders' = {}
    BY <1>8 DEF OwnInv, OwnColliders
  <2>4. \A k, l \in DOMAIN rendered' :
          rendered'[k].collider_idx = rendered'[l].collider_idx => k = l
    BY <1>5 DEF OwnInv, OwnColliders
  <2> QED BY <2>2, <2>3, <2>4 DEF OwnInv, OwnColliders
<1>10. PendingOK'
  BY DEF PendingOK
<1>11. SampleTypeOK'
  <2>1. Len(rendered') <= ObjectsCapacity
    BY <1>1, <1>4, SampleAssumption DEF OwnInv, SampleTypeOK
  <2> QED BY <1>3, <1>4, <2>1 DEF OwnInv, WorldInv, SampleTypeOK
<1>12. ModeOK'
  BY <1>3 DEF OwnInv, ModeOK
<1> QED BY <1>3, <1>9, <1>10, <1>11, <1>12 DEF OwnInv

\* Then End removes the walls.
LEMMA EndWallStep ==
  ASSUME OwnInv, pending # NoBody, mode = "end", rendered = <<>>, wall_objects # <<>>,
         RemoveCollider(wall_objects[1]),
         wall_objects' = Tail(wall_objects), pending' = NoBody,
         UNCHANGED <<rendered, objects_count, trigger_mode, mode, toggled>>
  PROVE  OwnInv'
<1> DEFINE c == wall_objects[1]
<1>1. /\ wall_objects \in Seq(Colliders!Index) /\ Len(wall_objects) \in Nat \ {0}
      /\ DOMAIN wall_objects = 1 .. Len(wall_objects)
  BY OwnFacts, EmptySeq
<1>2. c \in InUse /\ NextToGo(c)
  BY <1>1, OwnFacts DEF NextToGo
<1>3. /\ WorldInv' /\ OwnBodies' /\ IssuedKnown'
      /\ UNCHANGED <<stage, listener, quadtree>>
      /\ InUse' = InUse \ {c}
  BY <1>2, PendingRemoval
<1>4. /\ wall_objects' \in Seq(Colliders!Index)
      /\ Len(wall_objects') = Len(wall_objects) - 1
      /\ \A k \in 1 .. Len(wall_objects) - 1 : wall_objects'[k] = wall_objects[k + 1]
  BY <1>1, HeadTailProperties
<1>5. /\ DOMAIN wall_objects' = 1 .. Len(wall_objects) - 1
      /\ \A k \in DOMAIN wall_objects' : /\ k + 1 \in DOMAIN wall_objects /\ k \in Int
                                         /\ k + 1 # 1 /\ wall_objects'[k] = wall_objects[k + 1]
  BY <1>1, <1>4, LenProperties
<1>6. \A k \in DOMAIN wall_objects :
        k # 1 => k - 1 \in DOMAIN wall_objects' /\ wall_objects'[k - 1] = wall_objects[k]
  <2> SUFFICES ASSUME NEW k \in DOMAIN wall_objects, k # 1
               PROVE  k - 1 \in DOMAIN wall_objects' /\ wall_objects'[k - 1] = wall_objects[k]
    OBVIOUS
  <2>1. k - 1 \in 1 .. Len(wall_objects) - 1 /\ (k - 1) + 1 = k
    BY <1>1
  <2> QED BY <1>4, <1>5, <2>1
<1>7. \A k \in DOMAIN wall_objects' : wall_objects'[k] # c
  BY <1>1, <1>5 DEF OwnInv, OwnColliders
<1>8. WallColliders' = WallColliders \ {c} /\ RenderedColliders' = RenderedColliders
  <2>1. ASSUME NEW d \in WallColliders' PROVE d \in WallColliders \ {c}
    BY <1>5, <1>7, <2>1 DEF WallColliders
  <2>2. ASSUME NEW d \in WallColliders, d # c PROVE d \in WallColliders'
    BY <1>6, <2>2 DEF WallColliders
  <2> QED BY <2>1, <2>2 DEF RenderedColliders
<1>9. OwnColliders'
  <2>1. c \in WallColliders
    BY <1>1 DEF WallColliders
  <2>2. InUse' = RenderedColliders' \cup WallColliders'
    BY <1>3, <1>8, <2>1 DEF OwnInv, OwnColliders
  <2>3. RenderedColliders' \cap WallColliders' = {}
    BY <1>8 DEF OwnInv, OwnColliders
  <2>4. \A k, l \in DOMAIN wall_objects' : wall_objects'[k] = wall_objects'[l] => k = l
    BY <1>5 DEF OwnInv, OwnColliders
  <2> QED BY <2>2, <2>3, <2>4 DEF OwnInv, OwnColliders
<1>10. PendingOK'
  BY DEF PendingOK
<1>11. SampleTypeOK'
  BY <1>3, <1>4 DEF OwnInv, WorldInv, SampleTypeOK
<1>12. ModeOK'
  BY <1>3 DEF OwnInv, ModeOK
<1> QED BY <1>3, <1>9, <1>10, <1>11, <1>12 DEF OwnInv

\* Nothing is pending unless the mode says what it is for.
LEMMA NothingPending ==
  ASSUME OwnInv, ~Adding, \A c \in InUse : ~NextToGo(c)
  PROVE  pending = NoBody
BY DEF OwnInv, PendingOK, Going

\* The sample goes from one mode to the next and owns what it owned.
LEMMA ModeStep ==
  ASSUME OwnInv, WorldInv', UNCHANGED <<bodyVars, colliderVars, rendered, wall_objects, pending>>,
         pending = NoBody, ModeOK',
         objects_count' \in 0 .. ObjectsCapacity, trigger_mode' \in Trigger,
         mode' \in {"off", "begin", "on", "resize", "end"}, toggled' \in BOOLEAN
  PROVE  OwnInv'
<1>1. OwnColliders' /\ OwnBodies' /\ IssuedKnown'
  BY BodyOfKept, BodiesInPlace, OwnKept DEF OwnInv
<1>2. PendingOK'
  BY DEF PendingOK
<1>3. SampleTypeOK'
  BY DEF OwnInv, WorldInv, SampleTypeOK
<1> QED BY <1>1, <1>2, <1>3 DEF OwnInv

\* Without colliders there are no overlaps.
LEMMA NoOverlapsWhenOff ==
  ASSUME OwnInv, mode = "off"
  PROVE  InUse = {} /\ overlapped = {}
<1>1. rendered = <<>> /\ wall_objects = <<>>
  BY DEF OwnInv, ModeOK
<1>2. InUse = {}
  BY <1>1 DEF OwnInv, OwnColliders, RenderedColliders, WallColliders
<1>3. \A p \in Pair : p # {}
  BY DEF Pair
<1>4. overlapped \subseteq Pair /\ UNION overlapped \subseteq InUse
  BY DEF OwnInv, WorldInv, TypeOK, OverlapsLive
<1> QED BY <1>2, <1>3, <1>4

\* SetWorldBounds, Begin, and the ends of the loops in Begin and End.
LEMMA BeginEndStep ==
  ASSUME OwnInv, SetWorldBounds \/ Begin \/ BeginDone \/ End \/ EndDone
  PROVE  OwnInv'
<1> /\ InitialObjects \in Nat /\ ObjectsCapacity \in Nat /\ Walls \in Nat
    /\ InitialObjects <= ObjectsCapacity /\ FALSE \in Trigger
  BY SampleAssumption
<1>1. /\ Len(rendered) \in Nat /\ Len(wall_objects) \in Nat
      /\ objects_count \in 0 .. ObjectsCapacity /\ trigger_mode \in Trigger
      /\ toggled \in BOOLEAN
  BY OwnFacts DEF OwnInv, SampleTypeOK
<1>2. pending = NoBody
  <2>1. \/ mode \in {"off", "on", "end"}
        \/ mode = "begin" /\ Len(rendered) = InitialObjects /\ Len(wall_objects) = Walls
    BY DEF SetWorldBounds, Begin, BeginDone, End, EndDone
  <2>2. ~Adding
    BY <1>1, <2>1 DEF Adding
  <2>3. \A c \in InUse : ~NextToGo(c)
    BY DEF SetWorldBounds, Begin, BeginDone, End, EndDone, NextToGo
  <2> QED BY <2>2, <2>3, NothingPending
<1>3. UNCHANGED <<bodyVars, colliderVars, stage, rendered, wall_objects, pending>>
  BY DEF SetWorldBounds, Begin, BeginDone, End, EndDone, GoOn, set_bounds,
         set_contact_listener, vars, sampleVars, tickVars
<1>4. WorldInv'
  BY SettingStep, WorldStutters
     DEF OwnInv, SetWorldBounds, Begin, BeginDone, End, EndDone
<1>5. ModeOK'
  <2>1. CASE SetWorldBounds
    <3>1. UNCHANGED <<mode, listener, overlapped>> /\ mode = "off"
      BY <2>1 DEF SetWorldBounds, set_bounds, overlapVars, sampleVars
    <3> QED BY <1>3, <3>1 DEF OwnInv, ModeOK
  <2>2. CASE Begin
    <3>1. UNCHANGED <<listener, overlapped, quadtree>> /\ mode' = "begin" /\ mode = "off" /\ quadtree
      BY <2>2 DEF Begin, GoOn, overlapVars, vars
    <3>2. rendered = <<>> /\ wall_objects = <<>> /\ overlapped = {}
      BY <3>1, NoOverlapsWhenOff DEF OwnInv, ModeOK
    <3>3. Len(rendered) = 0 /\ Len(wall_objects) = 0
      BY <3>2, EmptySeq
    <3> QED BY <1>3, <3>1, <3>2, <3>3 DEF OwnInv, ModeOK
  <2>3. CASE BeginDone
    <3>1. UNCHANGED quadtree /\ mode = "begin" /\ mode' = "on" /\ listener'
      BY <2>3 DEF BeginDone, GoOn, set_contact_listener
    <3> QED BY <1>3, <3>1 DEF OwnInv, ModeOK
  <2>4. CASE End
    <3>1. UNCHANGED quadtree /\ mode' = "end" /\ stage = "idle" /\ ~listener'
      BY <2>4 DEF End, GoOn, set_contact_listener
    <3> QED BY <1>3, <3>1 DEF OwnInv, ModeOK
  <2>5. CASE EndDone
    <3>1. UNCHANGED listener /\ mode = "end" /\ mode' = "off" /\ rendered = <<>> /\ wall_objects = <<>>
      BY <2>5 DEF EndDone, GoOn, vars
    <3> QED BY <1>3, <3>1 DEF OwnInv, ModeOK
  <2> QED BY <2>1, <2>2, <2>3, <2>4, <2>5
<1>6. /\ objects_count' \in 0 .. ObjectsCapacity /\ trigger_mode' \in Trigger
      /\ mode' \in {"off", "begin", "on", "resize", "end"} /\ toggled' \in BOOLEAN
  <2>1. /\ objects_count' \in {objects_count, InitialObjects, 0}
        /\ trigger_mode' \in {trigger_mode, FALSE} /\ toggled' \in {toggled, FALSE}
        /\ mode' \in {mode, "begin", "on", "end", "off"}
    BY DEF SetWorldBounds, Begin, BeginDone, End, EndDone, GoOn, sampleVars
  <2>2. mode \in {"off", "begin", "on", "resize", "end"}
    BY DEF OwnInv, SampleTypeOK
  <2>3. 0 \in 0 .. ObjectsCapacity /\ InitialObjects \in 0 .. ObjectsCapacity
    OBVIOUS
  <2>4. trigger_mode' \in Trigger /\ toggled' \in BOOLEAN
    BY <1>1, <2>1, Zenon
  <2> QED BY <1>1, <2>1, <2>2, <2>3, <2>4
<1> QED BY <1>2, <1>3, <1>4, <1>5, <1>6, ModeStep

\* The slider is moved, or the objects are as many as it says.
LEMMA ResizeStep ==
  ASSUME OwnInv, (\E n \in 0 .. ObjectsCapacity : SetObjectsCount(n)) \/ ResizeDone
  PROVE  OwnInv'
<1>1. Len(rendered) \in Nat
  BY OwnFacts
<1>2. pending = NoBody
  <2>1. ~Adding
    BY <1>1 DEF SetObjectsCount, ResizeDone, Adding
  <2>2. \A c \in InUse : ~NextToGo(c)
    BY <1>1 DEF SetObjectsCount, ResizeDone, NextToGo
  <2> QED BY <2>1, <2>2, NothingPending
<1>3. /\ UNCHANGED <<bodyVars, colliderVars, overlapped, stage, listener, quadtree>>
      /\ UNCHANGED <<rendered, wall_objects, pending, trigger_mode, toggled>>
      /\ UNCHANGED vars /\ mode \in {"on", "resize"} /\ mode' \in {"on", "resize"}
      /\ objects_count' \in {objects_count} \cup (0 .. ObjectsCapacity)
      /\ mode' # "on" => stage = "idle"
  BY DEF SetObjectsCount, ResizeDone, GoOn, vars, overlapVars, tickVars
<1>4. ModeOK'
  BY <1>3 DEF OwnInv, ModeOK
<1>5. WorldInv'
  BY <1>3, WorldStutters DEF OwnInv
<1> QED BY <1>2, <1>3, <1>4, <1>5, ModeStep DEF OwnInv, SampleTypeOK

\* The mode of the objects is switched in place.
LEMMA SetTriggerModeStep ==
  ASSUME OwnInv, NEW is_trigger \in Trigger, SetTriggerMode(is_trigger)
  PROVE  OwnInv' /\ KeptObjects(Len(rendered)) /\ InUse' = InUse
         /\ \A c \in InUse : BodyOf(c)' = BodyOf(c)
<1> DEFINE mine == {rendered[k].collider_idx.index : k \in DOMAIN rendered}
<1>1. /\ mode = "on" /\ trigger_mode' = is_trigger /\ toggled' = TRUE
      /\ collider' = [i \in DOMAIN collider |->
           IF i \in mine THEN [collider[i] EXCEPT !.is_trigger = is_trigger] ELSE collider[i]]
      /\ rendered' = [k \in DOMAIN rendered |->
           [rendered[k] EXCEPT !.collision_count = 0, !.trigger_count = 0]]
      /\ UNCHANGED <<bodyVars, collider_length, collider_generation, collider_issued>>
      /\ UNCHANGED <<overlapVars, quadtree, listener, tickVars, worldVars, references>>
      /\ UNCHANGED <<wall_objects, objects_count, mode, pending>>
  BY DEF SetTriggerMode
<1>2. Colliders!TypeOK
  BY DEF OwnInv, WorldInv, TypeOK
<1>3. mine \subseteq Colliders!Slot /\ \A i \in mine : collider[i] \in Collider
  <2>1. \A k \in DOMAIN rendered : /\ rendered[k].collider_idx.index \in Colliders!Slot
                                   /\ collider[rendered[k].collider_idx.index] \in Collider
    BY <1>2, OwnFacts, InUseIsLive, CollidersLive DEF Colliders!Accepts
  <2> QED BY <2>1
<1>4. \A i \in mine : /\ [collider[i] EXCEPT !.is_trigger = is_trigger] \in Collider
                      /\ [collider[i] EXCEPT !.is_trigger = is_trigger].body = collider[i].body
  BY <1>3 DEF Collider
<1>5. DOMAIN collider = Colliders!Slot
  BY <1>2 DEF Colliders!TypeOK
<1>6. /\ collider' \in [Colliders!Slot -> Collider \cup {Invalid}]
      /\ \A i \in Colliders!Slot : collider'[i] = Invalid <=> collider[i] = Invalid
      /\ \A i \in Colliders!Slot : collider'[i].body = collider[i].body
  <2> HIDE DEF mine
  <2> QED BY <1>1, <1>2, <1>3, <1>4, <1>5, WorldAssumption DEF Colliders!TypeOK
<1>7. /\ Colliders!TypeOK' /\ InUse' = InUse
      /\ \A c : ColliderKnown(c)' <=> ColliderKnown(c)
  BY <1>1, <1>2, <1>6, CollidersWrite, InUseIsLive, InUseIsLiveNext
<1>8. \A c \in InUse : BodyOf(c)' = BodyOf(c)
  BY <1>2, <1>6, InUseIsLive, CollidersLive DEF BodyOf, Colliders!Accepts
<1>9. WorldInv'
  BY <1>1, <1>7, ColliderStep DEF OwnInv
<1>10. KeptObjects(Len(rendered))
  <2>1. \A r \in Rendered :
          /\ [r EXCEPT !.collision_count = 0, !.trigger_count = 0] \in Rendered
          /\ [r EXCEPT !.collision_count = 0, !.trigger_count = 0].collider_idx = r.collider_idx
    BY DEF Rendered
  <2>2. /\ rendered' \in [1 .. Len(rendered) -> Rendered]
        /\ \A k \in 1 .. Len(rendered) : rendered'[k].collider_idx = rendered[k].collider_idx
    BY <1>1, <2>1, OwnFacts
  <2>3. Len(rendered) \in 0 .. Len(rendered) /\ rendered \in Seq(Rendered)
    BY OwnFacts
  <2> QED BY <2>2, <2>3, ObjectsKept
<1>11. /\ DOMAIN rendered' = DOMAIN rendered
       /\ \A k \in DOMAIN rendered : rendered'[k].collider_idx = rendered[k].collider_idx
  BY <1>10, OwnFacts, LenProperties DEF KeptObjects
<1>12. OwnColliders' /\ OwnBodies' /\ IssuedKnown'
  BY <1>1, <1>7, <1>8, <1>11, OwnKept, BodiesInPlace DEF OwnInv
<1>13. PendingOK'
  <2>1. pending = NoBody
    BY <1>1, NothingPending DEF Adding, NextToGo
  <2> QED BY <1>1, <2>1 DEF PendingOK
<1>14. SampleTypeOK'
  BY <1>1, <1>9, <1>10 DEF OwnInv, WorldInv, SampleTypeOK, KeptObjects
<1>15. ModeOK'
  BY <1>1 DEF OwnInv, ModeOK, overlapVars, tickVars
<1> QED BY <1>7, <1>8, <1>9, <1>10, <1>12, <1>13, <1>14, <1>15 DEF OwnInv

\* A Tick adds and removes nothing.
LEMMA TickKeepsUse ==
  ASSUME OwnInv, TickStep \/ TickThrows
  PROVE  /\ UNCHANGED <<colliderVars, quadtree, listener>>
         /\ Bodies!Live' = Bodies!Live /\ body_issued' = body_issued
         /\ \A b : BodyKnown(b)' <=> BodyKnown(b)
<1>1. CASE \E slots : Displace(slots)
  BY <1>1, DisplaceType, BodiesWrite
     DEF OwnInv, WorldInv, TypeOK, TickStep, TickThrows, TickUnobserved, TickObserved,
         TestCandidate, TestPrevious, CandidatesTested, PreviousTested, CheckForOverlapFrame,
         ResolveCollisions, Integrate
<1>2. CASE UNCHANGED bodyVars
  BY <1>2, BodiesInPlace
     DEF TickStep, TickThrows, TickUnobserved, TickObserved,
         TestCandidate, TestPrevious, CandidatesTested, PreviousTested, CheckForOverlapFrame,
         ResolveCollisions, Integrate
<1>3. (\E slots : Displace(slots)) \/ UNCHANGED bodyVars
  BY DEF TickStep, TickThrows, TickUnobserved, TickObserved,
         TestCandidate, TestPrevious, CandidatesTested, PreviousTested, CheckForOverlapFrame,
         ResolveCollisions, Integrate
<1> QED BY <1>1, <1>2, <1>3

\* A Tick of the sample is one of the world, and the objects stay.
LEMMA SampleTickFrame ==
  ASSUME OwnInv, SampleTick
  PROVE  /\ TickStep \/ TickThrows
         /\ KeptObjects(Len(rendered))
<1>1. TickStep \/ TickThrows
  BY DEF SampleTick, TickStep
<1>2. /\ rendered \in Seq(Rendered) /\ Len(rendered) \in 0 .. Len(rendered)
      /\ DOMAIN rendered = 1 .. Len(rendered)
  BY OwnFacts
<1>3. CASE UNCHANGED rendered
  BY <1>1, <1>2, <1>3 DEF KeptObjects
<1>4. CASE \E pair \in candidates : OnEnter(pair)
  BY <1>1, <1>2, <1>4, EnterKeepsObjects
<1>5. CASE \E pair \in leaving : OnExit({pair})
  <2>1. PICK pair \in leaving : OnExit({pair})
    BY <1>5
  <2>2. {pair} \in SUBSET Pair
    BY DEF OwnInv, WorldInv, TypeOK
  <2>3. rendered' = [k \in 1 .. Len(rendered) |-> AfterExits(rendered[k], {pair})]
    BY <1>2, <2>1 DEF OnExit
  <2> QED BY <1>1, <1>2, <2>2, <2>3, ExitKeepsObjects
<1>6. \/ UNCHANGED rendered
      \/ \E pair \in candidates : OnEnter(pair)
      \/ \E pair \in leaving : OnExit({pair})
  BY DEF SampleTick
<1> QED BY <1>1, <1>3, <1>4, <1>5, <1>6

\* Nothing changes hands in a Tick.
LEMMA SampleTickStep ==
  ASSUME OwnInv, SampleTick
  PROVE  OwnInv'
<1>1. /\ mode = "on"
      /\ UNCHANGED <<wall_objects, objects_count, trigger_mode, mode, pending, toggled>>
  BY DEF SampleTick
<1>2. /\ TickStep \/ TickThrows
      /\ KeptObjects(Len(rendered))
  BY SampleTickFrame
<1>3. WorldInv'
  BY <1>2, TickStepInv DEF OwnInv
<1>4. /\ UNCHANGED <<colliderVars, quadtree, listener>>
      /\ Bodies!Live' = Bodies!Live /\ body_issued' = body_issued
      /\ \A b : BodyKnown(b)' <=> BodyKnown(b)
  BY <1>2, TickKeepsUse
<1>5. /\ DOMAIN rendered' = DOMAIN rendered
      /\ \A k \in DOMAIN rendered : rendered'[k].collider_idx = rendered[k].collider_idx
  BY <1>2, OwnFacts, LenProperties DEF KeptObjects
<1>6. OwnColliders' /\ OwnBodies' /\ IssuedKnown'
  BY <1>1, <1>4, <1>5, OwnKept, BodyOfKept DEF OwnInv
<1>7. PendingOK'
  <2>1. pending = NoBody
    BY <1>1, NothingPending DEF Adding, NextToGo
  <2> QED BY <1>1, <2>1 DEF PendingOK
<1>8. SampleTypeOK'
  BY <1>1, <1>2, <1>3 DEF OwnInv, WorldInv, SampleTypeOK, KeptObjects
<1>9. ModeOK'
  BY <1>1, <1>4 DEF OwnInv, ModeOK
<1> QED BY <1>3, <1>6, <1>7, <1>8, <1>9 DEF OwnInv

\* Nothing happens at all.
LEMMA SampleStutters ==
  ASSUME OwnInv, UNCHANGED sampleAll
  PROVE  OwnInv'
<1>1. /\ UNCHANGED <<bodyVars, colliderVars, overlapped, stage, listener, quadtree>>
      /\ UNCHANGED <<rendered, wall_objects, objects_count, trigger_mode, mode, pending, toggled>>
      /\ UNCHANGED vars
  BY DEF sampleAll, sampleVars, vars, overlapVars, tickVars
<1>2. WorldInv'
  BY <1>1, WorldStutters DEF OwnInv
<1>3. /\ InUse' = InUse /\ \A c : BodyOf(c)' = BodyOf(c)
      /\ Bodies!Live' = Bodies!Live /\ body_issued' = body_issued
  BY <1>1, BodyOfKept, BodiesInPlace
<1>4. OwnColliders' /\ OwnBodies' /\ IssuedKnown'
  BY <1>1, OwnKept, BodyOfKept, BodiesInPlace DEF OwnInv
<1>5. PendingOK'
  <2>1. Adding' = Adding /\ \A c : NextToGo(c)' = NextToGo(c)
    BY <1>1 DEF Adding, NextToGo
  <2>2. (Coming => Coming') /\ (Going => Going')
    BY <1>1, <1>3, <2>1 DEF Coming, Going
  <2> QED BY <1>1, <1>3, <2>1, <2>2 DEF OwnInv, PendingOK
<1>6. SampleTypeOK'
  BY <1>1, <1>2 DEF OwnInv, WorldInv, SampleTypeOK
<1>7. ModeOK'
  BY <1>1 DEF OwnInv, ModeOK
<1> QED BY <1>2, <1>4, <1>5, <1>6, <1>7 DEF OwnInv

\* Every step of the sample keeps what it owns.
LEMMA OwnStep ==
  ASSUME OwnInv, [SampleNext]_sampleAll
  PROVE  OwnInv'
<1>1. /\ Len(rendered) \in Nat /\ DOMAIN rendered = 1 .. Len(rendered)
      /\ Len(wall_objects) \in Nat /\ DOMAIN wall_objects = 1 .. Len(wall_objects)
      /\ \A k \in DOMAIN rendered : rendered[k].collider_idx \in InUse
      /\ \A k \in DOMAIN wall_objects : wall_objects[k] \in InUse
      /\ rendered # <<>> => Len(rendered) > 0
      /\ wall_objects # <<>> => Len(wall_objects) > 0
      /\ objects_count \in 0 .. ObjectsCapacity /\ ObjectsCapacity \in Nat
  BY OwnFacts, EmptySeq, SampleAssumption DEF OwnInv, SampleTypeOK
<1>2. CASE BeginObjects
  BY <1>2, StartObjectStep, FinishObjectStep DEF BeginObjects, Adding
<1>3. CASE BeginWalls
  BY <1>3, StartObjectStep, FinishWallStep DEF BeginWalls, Adding
<1>4. CASE AddObjects
  BY <1>4, StartObjectStep, FinishObjectStep DEF AddObjects, Adding
<1>5. CASE RemoveObjects
  <2>1. mode = "resize" /\ objects_count < Len(rendered)
    BY <1>5 DEF RemoveObjects
  <2>2. /\ rendered[Len(rendered)].collider_idx \in InUse
        /\ NextToGo(rendered[Len(rendered)].collider_idx)
    BY <1>1, <2>1 DEF NextToGo
  <2> QED BY <1>5, <2>1, <2>2, RemoveBodyOfStep, RemoveBackStep DEF RemoveObjects
<1>6. CASE EndObjects
  <2>1. mode = "end" /\ rendered # <<>>
    BY <1>6 DEF EndObjects
  <2>2. rendered[1].collider_idx \in InUse /\ NextToGo(rendered[1].collider_idx)
    BY <1>1, <2>1 DEF NextToGo
  <2> QED BY <1>6, <2>1, <2>2, RemoveBodyOfStep, EndObjectStep DEF EndObjects
<1>7. CASE EndWalls
  <2>1. mode = "end" /\ rendered = <<>> /\ wall_objects # <<>>
    BY <1>7 DEF EndWalls
  <2>2. wall_objects[1] \in InUse /\ NextToGo(wall_objects[1])
    BY <1>1, <2>1 DEF NextToGo
  <2> QED BY <1>7, <2>1, <2>2, RemoveBodyOfStep, EndWallStep DEF EndWalls
<1> QED BY <1>2, <1>3, <1>4, <1>5, <1>6, <1>7, BeginEndStep, ResizeStep, SetTriggerModeStep,
           SampleTickStep, SampleStutters
        DEF SampleNext

\* The sample starts with nothing.
LEMMA OwnInit == SampleInit => OwnInv
<1> SUFFICES ASSUME SampleInit PROVE OwnInv
  OBVIOUS
<1>1. /\ Init /\ rendered = <<>> /\ wall_objects = <<>> /\ objects_count = 0
      /\ trigger_mode = FALSE /\ mode = "off" /\ pending = NoBody /\ toggled = FALSE
  BY DEF SampleInit
<1>2. WorldInv
  BY <1>1, WorldInit
<1>3. InUse = {} /\ body_issued = {} /\ collider_issued = {}
  BY <1>1 DEF Init, Bodies!Init, Colliders!Init, InUse, Colliders!Slot
<1>4. DOMAIN rendered = {} /\ DOMAIN wall_objects = {} /\ Len(rendered) = 0
  BY <1>1, EmptySeq
<1>5. OwnColliders /\ OwnBodies /\ IssuedKnown
  BY <1>3, <1>4
     DEF OwnColliders, OwnBodies, IssuedKnown, RenderedColliders, WallColliders
<1>6. PendingOK /\ ModeOK
  BY <1>1 DEF PendingOK, ModeOK, Init
<1>7. SampleTypeOK
  <2>1. rendered \in Seq(Rendered) /\ wall_objects \in Seq(Colliders!Index)
    BY <1>1, EmptySeq
  <2>2. objects_count \in 0 .. ObjectsCapacity /\ Len(rendered) <= ObjectsCapacity
    BY <1>1, <1>4, SampleAssumption
  <2> QED BY <1>1, <1>2, <2>1, <2>2, SampleAssumption DEF WorldInv, SampleTypeOK
<1> QED BY <1>2, <1>5, <1>6, <1>7 DEF OwnInv

\* The sample owns every collider of the world, each with a body of its own.
THEOREM OwnInvariant == SampleSpec => []OwnInv
BY OwnInit, OwnStep, PTL DEF SampleSpec, sampleAll

\* Every variable of the world and the sample has its type.
THEOREM SampleTypeCorrect == SampleSpec => []SampleTypeOK
<1>1. OwnInv => SampleTypeOK
  BY DEF OwnInv
<1> QED BY <1>1, OwnInvariant, PTL

\* However the sample removes its objects, no overlap is left with a collider
\* that is gone.
THEOREM SampleOverlapsCorrect == SampleSpec => []OverlapsLive
<1>1. OwnInv => OverlapsLive
  BY DEF OwnInv, WorldInv
<1> QED BY <1>1, OwnInvariant, PTL

-----------------------------------------------------------------------------
(* Layer 2: every step of the sample keeps EventsInv. *)

\* No At() in a Tick throws: every collider and its body are there.
LEMMA AllPlaced ==
  ASSUME OwnInv, mode = "on"
  PROVE  \A c \in InUse : Placed(c)
<1>1. pending = NoBody
  BY NothingPending DEF Adding, NextToGo
<1>2. \A c \in InUse : Colliders!Accepts(c)
  BY InUseIsLive, CollidersLive DEF OwnInv, WorldInv, TypeOK
<1>3. \A c \in InUse : Bodies!Accepts(BodyOf(c))
  <2>1. \A c \in InUse : BodyOf(c) \in Bodies!Live
    BY <1>1, OwnFacts DEF OwnInv, OwnBodies
  <2> QED BY <2>1, BodiesLive DEF OwnInv, WorldInv, TypeOK
<1> QED BY <1>2, <1>3 DEF Placed

\* Sets compare pairs by their slots: among colliders in use that is equality.
LEMMA ContainsInUse ==
  ASSUME Colliders!TypeOK, NEW pair, pair \subseteq InUse,
         NEW pairs, \A q \in pairs : q \subseteq InUse
  PROVE  Contains(pairs, pair) <=> pair \in pairs
<1>1. \A c, d \in InUse : c.index = d.index => c = d
  BY DEF InUse, Colliders!IndexOf
<1>2. ASSUME NEW q \in pairs, Slots(q) = Slots(pair) PROVE q = pair
  <2>1. q \subseteq InUse
    BY <1>2
  <2>2. ASSUME NEW c \in q PROVE c \in pair
    <3>1. PICK d \in pair : d.index = c.index
      BY <1>2 DEF Slots
    <3> QED BY <1>1, <2>1, <2>2, <3>1
  <2>3. ASSUME NEW c \in pair PROVE c \in q
    <3>1. PICK d \in q : d.index = c.index
      BY <1>2 DEF Slots
    <3> QED BY <1>1, <2>1, <2>3, <3>1
  <2> QED BY <2>2, <2>3
<1>3. pair \in pairs => Contains(pairs, pair)
  BY DEF Contains
<1> QED BY <1>2, <1>3 DEF Contains

\* Outside of Ticks, operations that add tell nothing.
LEMMA EventsKept ==
  ASSUME EventsInv, InUse \subseteq InUse',
         UNCHANGED <<active, resume, stage, candidates, leaving, overlapped, previous, listener>>,
         UNCHANGED <<inside, confused>>
  PROVE  EventsInv'
BY DEF EventsInv, TickOK, EventsMatchOverlaps, Believed

\* A removal between Ticks tells of each overlap of the collider.
LEMMA RemovalEvents ==
  ASSUME OwnInv, EventsInv, stage = "idle", NEW c, RemoveCollider(c)
  PROVE  EventsInv'
<1>1. /\ UNCHANGED <<active, resume, stage, candidates, leaving, listener>>
      /\ overlapped' = overlapped \ {p \in overlapped : c \in p}
      /\ TellExit(IF listener THEN {p \in overlapped : c \in p} ELSE {})
  BY DEF RemoveCollider, tickVars, worldVars
<1>2. candidates' = {}
  BY <1>1 DEF OwnInv, WorldInv, CandidatesKnown
<1>3. TickOK'
  BY <1>1, <1>2 DEF EventsInv, TickOK
<1>4. ASSUME listener PROVE ~confused' /\ inside' = Believed'
  <2>1. ~confused /\ inside = overlapped /\ Believed' = overlapped'
    BY <1>1, <1>4 DEF EventsInv, EventsMatchOverlaps, Believed
  <2> QED BY <1>1, <1>4, <2>1 DEF TellExit
<1> QED BY <1>1, <1>3, <1>4 DEF EventsInv, EventsMatchOverlaps

\* A new listener has been told nothing, and there is nothing to tell.
LEMMA ListenerEvents ==
  ASSUME OwnInv, EventsInv, NEW set \in BOOLEAN, set_contact_listener(set),
         set => overlapped = {}
  PROVE  EventsInv'
<1>1. /\ UNCHANGED <<colliderVars, active, resume, stage, candidates, leaving, overlapped>>
      /\ listener' = set /\ inside' = {} /\ confused' = FALSE /\ stage = "idle"
  BY DEF set_contact_listener, tickVars, worldVars
<1>2. InUse' = InUse
  BY <1>1, BodyOfKept
<1>3. TickOK'
  BY <1>1, <1>2 DEF EventsInv, TickOK
<1>4. EventsMatchOverlaps'
  BY <1>1 DEF EventsMatchOverlaps, Believed
<1> QED BY <1>3, <1>4 DEF EventsInv

\* A Tick begins: the overlaps are set aside, and the listener still believes
\* in them.
LEMMA TickObservedEvents ==
  ASSUME OwnInv, OwnInv', EventsInv, TickObserved
  PROVE  EventsInv'
<1>1. /\ stage = "idle" /\ stage' = "enter" /\ active' = "own" /\ resume' = active
      /\ previous' = overlapped /\ overlapped' = {} /\ candidates' = Candidates'
      /\ UNCHANGED <<leaving, inside, confused, listener>>
  BY DEF TickObserved, Integrate, heardVars
<1>2. \A p \in candidates' : p \subseteq InUse'
  BY <1>1, CandidatesTypeNext DEF OwnInv, WorldInv, TypeOK
<1>3. TickOK'
  BY <1>1, <1>2 DEF EventsInv, TickOK
<1>4. EventsMatchOverlaps'
  BY <1>1 DEF EventsInv, EventsMatchOverlaps, Believed
<1> QED BY <1>3, <1>4 DEF EventsInv

\* A candidate that overlaps enters unless it did so before, and then it is
\* the same pair.
LEMMA TestCandidateEvents ==
  ASSUME OwnInv, EventsInv, mode = "on", NEW pair \in candidates, TestCandidate(pair)
  PROVE  /\ EventsInv'
         /\ UNCHANGED <<colliderVars, listener, stage, previous>>
         /\ Believed' = IF callback' THEN Believed \cup {pair} ELSE Believed
         /\ callback' => pair \notin Believed
<1>1. /\ stage = "enter" /\ UNCHANGED <<colliderVars, listener, active>>
      /\ pair \subseteq InUse /\ listener
  BY DEF TestCandidate, CheckForOverlapFrame, EventsInv, TickOK, OwnInv, ModeOK
<1>2. \A c \in pair : Placed(c)
  BY <1>1, AllPlaced
<1> DEFINE new   == Overlapping(pair) /\ ~Contains(overlapped, pair)
           enter == new /\ ~Contains(previous, pair)
<1>3. /\ overlapped' = IF new THEN overlapped \cup {pair} ELSE overlapped
      /\ TellEnter(IF enter THEN {pair} ELSE {})
      /\ callback' = enter
      /\ candidates' = candidates \ {pair}
      /\ UNCHANGED <<previous, stage, leaving, resume>>
  BY <1>2 DEF TestCandidate
<1>4. /\ Contains(overlapped, pair) <=> pair \in overlapped
      /\ Contains(previous, pair) <=> pair \in previous
  BY <1>1, ContainsInUse DEF OwnInv, WorldInv, TypeOK, OverlapsLive
<1>5. /\ enter <=> new /\ pair \notin previous
      /\ new => pair \notin overlapped
  BY <1>4
<1> HIDE DEF new, enter
<1>6. Believed = overlapped \cup previous /\ Believed' = overlapped' \cup previous'
  BY <1>1, <1>3 DEF Believed
<1>7. /\ Believed' = IF callback' THEN Believed \cup {pair} ELSE Believed
      /\ callback' => pair \notin Believed
  BY <1>3, <1>5, <1>6
<1>8. InUse' = InUse
  BY <1>1, BodyOfKept
<1>9. TickOK'
  BY <1>1, <1>3, <1>8 DEF EventsInv, TickOK
<1>10. ~confused' /\ inside' = Believed'
  BY <1>1, <1>3, <1>7 DEF EventsInv, EventsMatchOverlaps, TellEnter
<1> QED BY <1>1, <1>3, <1>7, <1>9, <1>10 DEF EventsInv, EventsMatchOverlaps

\* A pair of sorted_prev exits unless it is still there, and then it is the
\* same pair.
LEMMA TestPreviousEvents ==
  ASSUME OwnInv, EventsInv, mode = "on", NEW pair \in leaving, TestPrevious(pair)
  PROVE  /\ EventsInv'
         /\ UNCHANGED <<colliderVars, listener, stage, overlapped>>
         /\ Believed' = IF callback' THEN Believed \ {pair} ELSE Believed
         /\ callback' => pair \in Believed
<1>1. /\ stage = "exit" /\ UNCHANGED <<colliderVars, listener, active, overlapped, previous>>
      /\ listener
  BY DEF TestPrevious, CheckForOverlapFrame, OwnInv, ModeOK
<1>2. pair \subseteq InUse /\ leaving \subseteq previous
  BY <1>1 DEF EventsInv, TickOK, OwnInv, WorldInv, OverlapsLive
<1>3. \A c \in pair : Colliders!Accepts(c)
  BY <1>2, AllPlaced DEF Placed
<1> DEFINE left == ~Contains(overlapped, pair)
<1>4. /\ TellExit(IF left THEN {pair} ELSE {})
      /\ callback' = left
      /\ leaving' = leaving \ {pair}
      /\ UNCHANGED <<stage, candidates, resume>>
  BY <1>3 DEF TestPrevious
<1>5. left <=> pair \notin overlapped
  BY <1>2, ContainsInUse DEF OwnInv, WorldInv, TypeOK, OverlapsLive
<1> HIDE DEF left
<1>6. Believed = overlapped \cup leaving /\ Believed' = overlapped' \cup leaving'
  BY <1>1, <1>4 DEF Believed
<1>7. /\ Believed' = IF callback' THEN Believed \ {pair} ELSE Believed
      /\ callback' => pair \in Believed
  BY <1>1, <1>4, <1>5, <1>6
<1>8. InUse' = InUse
  BY <1>1, BodyOfKept
<1>9. TickOK'
  BY <1>1, <1>2, <1>4, <1>8 DEF EventsInv, TickOK
<1>10. ~confused' /\ inside' = Believed'
  BY <1>1, <1>4, <1>7 DEF EventsInv, EventsMatchOverlaps, TellExit
<1> QED BY <1>1, <1>4, <1>7, <1>9, <1>10 DEF EventsInv, EventsMatchOverlaps

\* The loops of CheckForOverlap end and ResolveCollisions goes through: the
\* listener believes what it did, and active_world_ is restored at the end.
LEMMA TickEndEvents ==
  ASSUME OwnInv, EventsInv, mode = "on", CandidatesTested \/ PreviousTested \/ ResolveCollisions
  PROVE  /\ EventsInv'
         /\ UNCHANGED <<colliderVars, listener>>
         /\ Believed' = Believed
<1>1. /\ UNCHANGED <<colliderVars, listener, overlapped, previous, inside, confused, candidates>>
      /\ InUse' = InUse
  BY BodyOfKept DEF CandidatesTested, PreviousTested, ResolveCollisions, CheckForOverlapFrame,
         overlapVars, heardVars
<1>2. Believed' = Believed
  <2>1. CASE CandidatesTested
    BY <1>1, <2>1 DEF CandidatesTested, Believed
  <2>2. CASE PreviousTested
    BY <1>1, <2>2 DEF PreviousTested, Believed
  <2>3. CASE ResolveCollisions
    BY <1>1, <2>3 DEF ResolveCollisions, Believed
  <2> QED BY <2>1, <2>2, <2>3
<1>3. TickOK'
  <2>1. CASE CandidatesTested
    BY <1>1, <2>1 DEF CandidatesTested, CheckForOverlapFrame, EventsInv, TickOK
  <2>2. CASE PreviousTested
    BY <1>1, <2>2 DEF PreviousTested, CheckForOverlapFrame, EventsInv, TickOK
  <2>3. CASE ResolveCollisions
    <3>1. \A c \in UNION overlapped : Placed(c) /\ Colliders!Accepts(c)
      BY AllPlaced DEF OwnInv, WorldInv, OverlapsLive, Placed
    <3>2. stage = "resolve" /\ stage' = "idle" /\ active' = resume
      BY <2>3, <3>1 DEF ResolveCollisions
    <3> QED BY <1>1, <3>2 DEF EventsInv, TickOK
  <2> QED BY <2>1, <2>2, <2>3
<1>4. EventsMatchOverlaps'
  BY <1>1, <1>2 DEF EventsInv, EventsMatchOverlaps
<1> QED BY <1>1, <1>2, <1>3, <1>4 DEF EventsInv

\* The sample has set the bounds and the listener, and no body is missing: a
\* Tick of it is neither unobserved nor does it throw at the start.
LEMMA SampleTickKind ==
  ASSUME OwnInv, SampleTick
  PROVE  \/ TickObserved /\ UNCHANGED rendered
         \/ \E pair \in candidates :
              /\ TestCandidate(pair)
              /\ IF callback' THEN OnEnter(pair) ELSE UNCHANGED rendered
         \/ \E pair \in leaving :
              /\ TestPrevious(pair)
              /\ IF callback' THEN OnExit({pair}) ELSE UNCHANGED rendered
         \/ (CandidatesTested \/ PreviousTested \/ ResolveCollisions) /\ UNCHANGED rendered
<1>1. mode = "on" /\ listener /\ quadtree
  BY DEF SampleTick, OwnInv, ModeOK
<1>2. Orphans = {}
  BY <1>1, AllPlaced DEF Orphans
<1> QED BY <1>1, <1>2 DEF SampleTick, TickUnobserved, TickThrows

\* The world is told of an operation that has nothing to do with overlaps.
LEMMA QuietStep ==
  ASSUME OwnInv, EventsInv,
         \/ \E place \in Place : AddBody(place)
         \/ \E idx : RemoveBody(idx)
         \/ set_bounds
         \/ UNCHANGED vars
  PROVE  EventsInv' /\ InUse' = InUse /\ UNCHANGED <<colliderVars, listener>>
         /\ Believed' = Believed
<1>1. /\ UNCHANGED <<colliderVars, active, resume, stage, candidates, leaving, overlapped,
                     previous, listener, inside, confused>>
  BY DEF AddBody, RemoveBody, set_bounds, vars, overlapVars, heardVars, tickVars, worldVars
<1>2. InUse' = InUse
  BY <1>1, BodyOfKept
<1> QED BY <1>1, <1>2, EventsKept DEF Believed

\* The same for a collider that is added.
LEMMA QuietCollider ==
  ASSUME OwnInv, EventsInv, pending # NoBody, Adding, NEW is_trigger \in Trigger,
         AddCollider(pending, is_trigger)
  PROVE  EventsInv' /\ listener' = listener /\ Believed' = Believed
<1>1. /\ UNCHANGED <<active, resume, stage, candidates, leaving, overlapped, previous,
                     listener, inside, confused>>
  BY DEF AddCollider, overlapVars, heardVars, tickVars, worldVars
<1>2. InUse \subseteq InUse'
  BY PendingCollider
<1> QED BY <1>1, <1>2, EventsKept DEF Believed

\* Every step of the sample keeps the listener up to date.
LEMMA EventsStep ==
  ASSUME OwnInv, OwnInv', EventsInv, [SampleNext]_sampleAll
  PROVE  EventsInv'
<1>1. mode # "on" => stage = "idle"
  BY DEF OwnInv, ModeOK
<1>2. FALSE \in Trigger /\ trigger_mode \in Trigger
  BY SampleAssumption DEF OwnInv, SampleTypeOK
<1>3. CASE BeginObjects
  BY <1>2, <1>3, QuietStep, QuietCollider DEF BeginObjects, StartObject, FinishObject, Adding
<1>4. CASE BeginWalls
  BY <1>2, <1>4, QuietStep, QuietCollider DEF BeginWalls, StartObject, FinishWall, Adding
<1>5. CASE AddObjects
  BY <1>2, <1>5, QuietStep, QuietCollider DEF AddObjects, StartObject, FinishObject, Adding
<1>6. CASE RemoveObjects
  BY <1>1, <1>6, QuietStep, RemovalEvents DEF RemoveObjects, RemoveBodyOf, RemoveBack
<1>7. CASE EndObjects
  BY <1>1, <1>7, QuietStep, RemovalEvents DEF EndObjects, RemoveBodyOf
<1>8. CASE EndWalls
  BY <1>1, <1>8, QuietStep, RemovalEvents DEF EndWalls, RemoveBodyOf
<1>9. CASE SetWorldBounds \/ Begin \/ ResizeDone \/ EndDone \/ UNCHANGED sampleAll
           \/ \E n \in 0 .. ObjectsCapacity : SetObjectsCount(n)
  BY <1>9, QuietStep DEF SetWorldBounds, Begin, ResizeDone, EndDone, SetObjectsCount, sampleAll
<1>10. CASE BeginDone
  <2>1. overlapped = {}
    BY <1>10 DEF BeginDone, OwnInv, ModeOK
  <2> QED BY <1>10, <2>1, ListenerEvents DEF BeginDone
<1>11. CASE End
  BY <1>11, ListenerEvents DEF End
<1>12. CASE \E is_trigger \in Trigger : SetTriggerMode(is_trigger)
  <2>1. /\ UNCHANGED <<active, resume, stage, candidates, leaving, overlapped, previous,
                       listener, inside, confused>>
    BY <1>12 DEF SetTriggerMode, overlapVars, heardVars, tickVars, worldVars
  <2>2. InUse' = InUse
    BY <1>12, SetTriggerModeStep
  <2> QED BY <2>1, <2>2, EventsKept
<1>13. CASE SampleTick
  <2>1. mode = "on"
    BY <1>13 DEF SampleTick
  <2> QED BY <1>13, <2>1, SampleTickKind, TickObservedEvents, TestCandidateEvents,
             TestPreviousEvents, TickEndEvents
<1> QED BY <1>3, <1>4, <1>5, <1>6, <1>7, <1>8, <1>9, <1>10, <1>11, <1>12, <1>13 DEF SampleNext

\* The listener is right about every overlap, and no Tick of the sample
\* leaves active_world_ elsewhere.
THEOREM EventsInvariant == SampleSpec => []EventsInv
<1>1. SampleInit => EventsInv
  BY DEF SampleInit, Init, EventsInv, TickOK, EventsMatchOverlaps
<1> QED BY <1>1, EventsStep, OwnInvariant, PTL DEF SampleSpec, sampleAll

\* The sample hears every Enter and every Exit exactly once and in turn:
\* through Ticks, removals and switches, what it was told adds up to the
\* overlaps of the world.
THEOREM EventsCorrect == SampleSpec => []EventsMatchOverlaps
<1>1. EventsInv => EventsMatchOverlaps
  BY DEF EventsInv
<1> QED BY <1>1, EventsInvariant, PTL

\* Between the Ticks of the sample's world, active_world_ is the global one.
THEOREM ActiveCorrect == SampleSpec => []ActiveWorldRestored
<1>1. EventsInv => ActiveWorldRestored
  BY DEF EventsInv, TickOK, ActiveWorldRestored
<1> QED BY <1>1, EventsInvariant, PTL

-----------------------------------------------------------------------------
(* Layer 3: every step of the sample keeps CountsInv. *)

\* The listener believes in pairs of colliders in use.
LEMMA BelievedInUse ==
  ASSUME OwnInv, EventsInv
  PROVE  /\ Believed \in SUBSET Pair
         /\ \A p \in Believed : p \subseteq InUse
<1>1. /\ overlapped \subseteq Pair /\ previous \subseteq Pair /\ leaving \subseteq Pair
      /\ \A p \in overlapped \cup previous : p \subseteq InUse
      /\ stage = "exit" => leaving \subseteq previous
  BY DEF OwnInv, WorldInv, TypeOK, OverlapsLive, EventsInv, TickOK
<1> QED BY <1>1 DEF Believed

\* The overlaps of a collider are finitely many.
LEMMA KindsFinite ==
  ASSUME NEW P \in SUBSET Pair, NEW c
  PROVE  /\ IsFiniteSet(Triggers(P, c)) /\ Cardinality(Triggers(P, c)) \in Nat
         /\ IsFiniteSet(Solids(P, c)) /\ Cardinality(Solids(P, c)) \in Nat
<1>1. Triggers(P, c) \in SUBSET Pair /\ Solids(P, c) \in SUBSET Pair
  BY DEF Triggers, Solids
<1> QED BY <1>1, PairsFinite

\* One more pair counts once, for its own kind.
LEMMA OneMore ==
  ASSUME NEW P \in SUBSET Pair, NEW pair, pair \notin P, NEW Q, Q = P \cup {pair}, NEW c
  PROVE  /\ Cardinality(Triggers(Q, c)) =
              IF c \in pair /\ IsTrigger(pair) THEN Cardinality(Triggers(P, c)) + 1
                                               ELSE Cardinality(Triggers(P, c))
         /\ Cardinality(Solids(Q, c)) =
              IF c \in pair /\ ~IsTrigger(pair) THEN Cardinality(Solids(P, c)) + 1
                                                ELSE Cardinality(Solids(P, c))
<1>1. /\ IsFiniteSet(Triggers(P, c)) /\ IsFiniteSet(Solids(P, c))
      /\ pair \notin Triggers(P, c) /\ pair \notin Solids(P, c)
  BY KindsFinite DEF Triggers, Solids
<1>2. Triggers(Q, c) = IF c \in pair /\ IsTrigger(pair) THEN Triggers(P, c) \cup {pair}
                                                        ELSE Triggers(P, c)
  BY DEF Triggers
<1>3. Solids(Q, c) = IF c \in pair /\ ~IsTrigger(pair) THEN Solids(P, c) \cup {pair}
                                                       ELSE Solids(P, c)
  BY DEF Solids
<1>4. /\ Cardinality(Triggers(P, c) \cup {pair}) = Cardinality(Triggers(P, c)) + 1
      /\ Cardinality(Solids(P, c) \cup {pair}) = Cardinality(Solids(P, c)) + 1
  BY <1>1, FS_AddElement
<1> QED BY <1>2, <1>3, <1>4

\* Pairs that go are no longer counted.
LEMMA SomeLess ==
  ASSUME NEW P \in SUBSET Pair, NEW gone \in SUBSET P, NEW c
  PROVE  /\ Cardinality(Triggers(P \ gone, c)) =
              Cardinality(Triggers(P, c)) - Cardinality(Triggers(gone, c))
         /\ Cardinality(Solids(P \ gone, c)) =
              Cardinality(Solids(P, c)) - Cardinality(Solids(gone, c))
<1>1. IsFiniteSet(Triggers(P, c)) /\ IsFiniteSet(Solids(P, c))
  BY KindsFinite
<1>2. /\ Triggers(P \ gone, c) = Triggers(P, c) \ Triggers(gone, c)
      /\ Triggers(P, c) \cap Triggers(gone, c) = Triggers(gone, c)
      /\ Solids(P \ gone, c) = Solids(P, c) \ Solids(gone, c)
      /\ Solids(P, c) \cap Solids(gone, c) = Solids(gone, c)
  BY DEF Triggers, Solids
<1>3. Cardinality(Triggers(P, c) \ Triggers(gone, c)) =
        Cardinality(Triggers(P, c)) - Cardinality(Triggers(P, c) \cap Triggers(gone, c))
  BY <1>1, FS_Difference
<1>4. Cardinality(Solids(P, c) \ Solids(gone, c)) =
        Cardinality(Solids(P, c)) - Cardinality(Solids(P, c) \cap Solids(gone, c))
  BY <1>1, FS_Difference
<1> QED BY <1>2, <1>3, <1>4

\* A count that is lowered by what is gone still counts the rest.
LEMMA LessCounted ==
  ASSUME NEW count \in Nat, NEW n \in Nat, NEW m \in Nat, n - m \in Nat, Counted(count, n)
  PROVE  Counted(Less(count, m), n - m)
BY DEF Counted, Less

\* An object is in a pair when its collider is: no two share a body.
LEMMA InPairIsMember ==
  ASSUME OwnInv, NEW r, r.collider_idx \in InUse, NEW p, p \subseteq InUse
  PROVE  InPair(r, p) <=> r.collider_idx \in p
BY DEF InPair, OwnInv, OwnBodies

\* What an exit leaves of the counts of an object.
LEMMA CountsAfterExits ==
  ASSUME OwnInv, NEW r \in Rendered, r.collider_idx \in InUse,
         NEW pairs, \A p \in pairs : p \subseteq InUse
  PROVE  /\ AfterExits(r, pairs).trigger_count =
              Less(r.trigger_count, Cardinality(Triggers(pairs, r.collider_idx)))
         /\ AfterExits(r, pairs).collision_count =
              Less(r.collision_count, Cardinality(Solids(pairs, r.collider_idx)))
<1> DEFINE mine == {p \in pairs : InPair(r, p)}
<1>1. /\ {p \in mine : IsTrigger(p)} = Triggers(pairs, r.collider_idx)
      /\ {p \in mine : ~IsTrigger(p)} = Solids(pairs, r.collider_idx)
  BY InPairIsMember DEF Triggers, Solids
<1>2. AfterExits(r, pairs) =
        [r EXCEPT !.trigger_count   = Less(@, Cardinality({p \in mine : IsTrigger(p)})),
                  !.collision_count = Less(@, Cardinality({p \in mine : ~IsTrigger(p)}))]
  BY DEF AfterExits
<1> QED BY <1>1, <1>2 DEF Rendered

\* A pair keeps its kind as long as its colliders stay what they are.
LEMMA KindsKept ==
  ASSUME \A p \in Believed' : \A c \in p : collider'[c.index] = collider[c.index]
  PROVE  \A c : /\ Triggers(Believed, c)' = Triggers(Believed', c)
                /\ Solids(Believed, c)' = Solids(Believed', c)
<1>1. \A p \in Believed' : IsTrigger(p)' <=> IsTrigger(p)
  BY DEF IsTrigger
<1> QED BY <1>1 DEF Triggers, Solids

\* An object of which the listener hears nothing keeps its counts.
LEMMA CountKept ==
  ASSUME OwnInv, EventsInv, Believed' = Believed, toggled' = toggled,
         \A c \in InUse : collider'[c.index] = collider[c.index],
         NEW k \in DOMAIN rendered, rendered'[k] = rendered[k], CountOK(rendered[k])
  PROVE  CountOK(rendered[k])'
<1>1. \A p \in Believed' : \A c \in p : collider'[c.index] = collider[c.index]
  BY BelievedInUse
<1>2. \A c : /\ Triggers(Believed, c)' = Triggers(Believed, c)
             /\ Solids(Believed, c)' = Solids(Believed, c)
  BY <1>1, KindsKept
<1> QED BY <1>2 DEF CountOK, Counted

\* Nothing changes that the objects count.
LEMMA CountsKept ==
  ASSUME OwnInv, EventsInv, CountsInv, Believed' = Believed, toggled' = toggled,
         \A c \in InUse : collider'[c.index] = collider[c.index],
         UNCHANGED rendered, mode \in {"begin", "on", "resize"} \/ mode' = mode
  PROVE  CountsInv'
BY CountKept DEF CountsInv

\* A pair that enters is one more for each of its objects.
LEMMA EnterCounts ==
  ASSUME OwnInv, EventsInv, CountsInv, mode = "on", NEW pair \in Pair, pair \subseteq InUse,
         pair \notin Believed, Believed' = Believed \cup {pair}, UNCHANGED colliderVars,
         OnEnter(pair), UNCHANGED <<toggled, mode>>
  PROVE  CountsInv'
<1> SUFFICES ASSUME NEW k \in DOMAIN rendered' PROVE CountOK(rendered[k])'
  BY DEF CountsInv
<1> PICK r : r = rendered[k]
  OBVIOUS
<1> PICK c : c = r.collider_idx
  OBVIOUS
<1>1. k \in DOMAIN rendered /\ r \in Rendered /\ c \in InUse /\ CountOK(r)
  BY OwnFacts DEF OnEnter, CountsInv
<1>2. /\ c \in pair /\ IsTrigger(pair) => rendered'[k] = [r EXCEPT !.trigger_count = @ + 1]
      /\ c \in pair /\ ~IsTrigger(pair) => rendered'[k] = [r EXCEPT !.collision_count = @ + 1]
      /\ c \notin pair => rendered'[k] = r
  BY <1>1, InPairIsMember DEF OnEnter
<1>3. /\ Triggers(Believed, c)' = Triggers(Believed', c)
      /\ Solids(Believed, c)' = Solids(Believed', c)
  <2>1. \A p \in Believed' : \A d \in p : collider'[d.index] = collider[d.index]
    BY DEF colliderVars
  <2> QED BY <2>1, KindsKept
<1>4. Believed \in SUBSET Pair
  BY BelievedInUse
<1> DEFINE t == Cardinality(Triggers(Believed, c))
           s == Cardinality(Solids(Believed, c))
<1>5. t \in Nat /\ s \in Nat
  BY <1>4, KindsFinite
<1>6. /\ Cardinality(Triggers(Believed', c)) = IF c \in pair /\ IsTrigger(pair) THEN t + 1 ELSE t
      /\ Cardinality(Solids(Believed', c)) = IF c \in pair /\ ~IsTrigger(pair) THEN s + 1 ELSE s
  BY <1>4, OneMore
<1>7. /\ rendered'[k].collider_idx = c
      /\ rendered'[k].trigger_count =
           IF c \in pair /\ IsTrigger(pair) THEN r.trigger_count + 1 ELSE r.trigger_count
      /\ rendered'[k].collision_count =
           IF c \in pair /\ ~IsTrigger(pair) THEN r.collision_count + 1 ELSE r.collision_count
  BY <1>1, <1>2 DEF Rendered
<1>8. r.trigger_count \in Nat /\ r.collision_count \in Nat
  BY <1>1 DEF Rendered
<1>9. Counted(r.trigger_count, t) /\ Counted(r.collision_count, s)
  BY <1>1 DEF CountOK
<1> QED BY <1>3, <1>5, <1>6, <1>7, <1>8, <1>9 DEF CountOK, Counted

\* Pairs that exit are less for each of their objects.
LEMMA ExitCounts ==
  ASSUME OwnInv, EventsInv, CountsInv, mode \in {"on", "resize"},
         NEW gone \in SUBSET Believed, Believed' = Believed \ gone,
         \A p \in Believed' : \A c \in p : collider'[c.index] = collider[c.index],
         NEW n \in 0 .. Len(rendered),
         rendered' = [k \in 1 .. n |-> AfterExits(rendered[k], gone)],
         UNCHANGED toggled
  PROVE  CountsInv'
<1> SUFFICES ASSUME NEW k \in DOMAIN rendered' PROVE CountOK(rendered[k])'
  BY DEF CountsInv
<1> PICK r : r = rendered[k]
  OBVIOUS
<1> PICK c : c = r.collider_idx
  OBVIOUS
<1>1. /\ k \in DOMAIN rendered /\ r \in Rendered /\ c \in InUse /\ CountOK(r)
      /\ rendered'[k] = AfterExits(r, gone)
  BY OwnFacts DEF CountsInv
<1>2. /\ Believed \in SUBSET Pair /\ gone \in SUBSET Pair
      /\ \A p \in gone : p \subseteq InUse
  BY BelievedInUse
<1>3. /\ rendered'[k].collider_idx = c
      /\ rendered'[k].trigger_count = Less(r.trigger_count, Cardinality(Triggers(gone, c)))
      /\ rendered'[k].collision_count = Less(r.collision_count, Cardinality(Solids(gone, c)))
  BY <1>1, <1>2, AfterExitsType, CountsAfterExits
<1>4. /\ Triggers(Believed, c)' = Triggers(Believed', c)
      /\ Solids(Believed, c)' = Solids(Believed', c)
  BY KindsKept
<1> DEFINE t  == Cardinality(Triggers(Believed, c))
           s  == Cardinality(Solids(Believed, c))
           tg == Cardinality(Triggers(gone, c))
           sg == Cardinality(Solids(gone, c))
<1>5. /\ t \in Nat /\ s \in Nat /\ tg \in Nat /\ sg \in Nat
      /\ Cardinality(Triggers(Believed', c)) \in Nat /\ Cardinality(Solids(Believed', c)) \in Nat
  <2>1. Believed' \in SUBSET Pair
    BY <1>2
  <2> QED BY <1>2, <2>1, KindsFinite
<1>6. Cardinality(Triggers(Believed', c)) = t - tg /\ Cardinality(Solids(Believed', c)) = s - sg
  BY <1>2, SomeLess
<1>7. r.trigger_count \in Nat /\ r.collision_count \in Nat
  BY <1>1 DEF Rendered
<1>8. Counted(r.trigger_count, t) /\ Counted(r.collision_count, s)
  BY <1>1 DEF CountOK
<1> HIDE DEF t, s, tg, sg
<1>9. /\ Counted(Less(r.trigger_count, tg), t - tg)
      /\ Counted(Less(r.collision_count, sg), s - sg)
  BY <1>5, <1>6, <1>7, <1>8, LessCounted
<1> QED BY <1>3, <1>4, <1>6, <1>9 DEF CountOK, Counted, tg, sg

\* A new object is in no overlap.
LEMMA FinishObjectCounts ==
  ASSUME OwnInv, OwnInv', EventsInv, CountsInv, mode \in {"begin", "resize"},
         pending # NoBody, Adding, FinishObject
  PROVE  CountsInv'
<1>1. /\ AddCollider(pending, trigger_mode) /\ trigger_mode \in Trigger
      /\ UNCHANGED <<mode, toggled>>
  BY DEF FinishObject, OwnInv, SampleTypeOK
<1>2. PICK h \in Colliders!Index :
        /\ h \notin InUse
        /\ Returned(collider_issued, collider_issued') = h
        /\ \A c \in InUse : collider'[c.index] = collider[c.index]
  BY <1>1, PendingCollider
<1>3. Believed' = Believed
  BY <1>1, QuietCollider
<1> DEFINE r == [collider_idx |-> h, collision_count |-> 0, trigger_count |-> 0]
<1>4. /\ r \in Rendered /\ r.collider_idx = h /\ r.trigger_count = 0 /\ r.collision_count = 0
      /\ rendered' = Append(rendered, r)
  BY <1>2 DEF FinishObject, Rendered
<1> HIDE DEF r
<1>5. /\ Len(rendered) \in Nat /\ Len(rendered') = Len(rendered) + 1
      /\ DOMAIN rendered = 1 .. Len(rendered) /\ DOMAIN rendered' = 1 .. Len(rendered')
      /\ \A k \in 1 .. Len(rendered) : rendered'[k] = rendered[k]
      /\ rendered'[Len(rendered) + 1] = r
  <2>1. rendered' \in Seq(Rendered)
    BY <1>4, OwnFacts, AppendProperties
  <2> QED BY <1>4, <2>1, OwnFacts, AppendProperties, LenProperties
<1>6. \A k \in DOMAIN rendered' : \/ k \in DOMAIN rendered /\ rendered'[k] = rendered[k]
                                  \/ rendered'[k] = r
  BY <1>5
<1>7. ASSUME NEW k \in DOMAIN rendered', k \in DOMAIN rendered, rendered'[k] = rendered[k]
      PROVE  CountOK(rendered[k])'
  BY <1>1, <1>2, <1>3, <1>7, CountKept DEF CountsInv
<1>8. ASSUME NEW k \in DOMAIN rendered', rendered'[k] = r PROVE CountOK(rendered[k])'
  <2>1. \A p \in Believed' : \A c \in p : collider'[c.index] = collider[c.index]
    BY <1>2, <1>3, BelievedInUse
  <2>2. Triggers(Believed', h) = {} /\ Solids(Believed', h) = {}
    BY <1>2, <1>3, BelievedInUse DEF Triggers, Solids
  <2>3. Triggers(Believed, h)' = {} /\ Solids(Believed, h)' = {}
    BY <2>1, <2>2, KindsKept
  <2>4. Cardinality(Triggers(Believed, h))' = 0 /\ Cardinality(Solids(Believed, h))' = 0
    BY <2>3, FS_EmptySet
  <2>5. /\ rendered'[k].collider_idx = h
        /\ rendered'[k].trigger_count = 0 /\ rendered'[k].collision_count = 0
    BY <1>4, <1>8
  <2> QED BY <2>4, <2>5 DEF CountOK, Counted
<1> QED BY <1>6, <1>7, <1>8 DEF CountsInv

\* What an object may count is always a number.
LEMMA BelievedCountable ==
  OwnInv /\ EventsInv => \A c : /\ Cardinality(Triggers(Believed, c)) \in Nat
                                /\ Cardinality(Solids(Believed, c)) \in Nat
BY BelievedInUse, KindsFinite

\* The same in the next state.
LEMMA BelievedCountableNext ==
  OwnInv' /\ EventsInv' => (\A c : /\ Cardinality(Triggers(Believed, c)) \in Nat
                                   /\ Cardinality(Solids(Believed, c)) \in Nat)'
BY BelievedCountable, PTL

\* A switch sets all counts to 0, and from then on they may be too low.
LEMMA SetTriggerModeCounts ==
  ASSUME OwnInv, OwnInv', EventsInv', NEW is_trigger \in Trigger, SetTriggerMode(is_trigger)
  PROVE  CountsInv'
<1> SUFFICES ASSUME NEW k \in DOMAIN rendered' PROVE CountOK(rendered[k])'
  BY DEF CountsInv
<1>1. toggled' = TRUE /\ k \in DOMAIN rendered /\ rendered[k] \in Rendered
  BY OwnFacts DEF SetTriggerMode
<1>2. rendered'[k] = [rendered[k] EXCEPT !.collision_count = 0, !.trigger_count = 0]
  BY <1>1 DEF SetTriggerMode
<1>3. rendered'[k].trigger_count = 0 /\ rendered'[k].collision_count = 0
  BY <1>1, <1>2 DEF Rendered
<1>4. \A c : /\ Cardinality(Triggers(Believed, c))' \in Nat
             /\ Cardinality(Solids(Believed, c))' \in Nat
  BY BelievedCountableNext
<1> QED BY <1>1, <1>3, <1>4 DEF CountOK, Counted

\* A step of the world that leaves the colliders alone tells no object.
LEMMA QuietCounts ==
  ASSUME OwnInv, EventsInv, CountsInv,
         \/ \E place \in Place : AddBody(place)
         \/ \E idx : RemoveBody(idx)
         \/ set_bounds
         \/ UNCHANGED vars,
         UNCHANGED <<rendered, toggled>>, mode \in {"begin", "on", "resize"} \/ mode' = mode
  PROVE  CountsInv'
<1>1. Believed' = Believed /\ UNCHANGED colliderVars
  BY QuietStep
<1> QED BY <1>1, CountsKept DEF colliderVars

\* A wall is a collider like any other.
LEMMA FinishWallCounts ==
  ASSUME OwnInv, EventsInv, CountsInv, pending # NoBody, Adding, FinishWall
  PROVE  CountsInv'
<1>1. /\ AddCollider(pending, FALSE) /\ FALSE \in Trigger
      /\ UNCHANGED <<rendered, mode, toggled>>
  BY SampleAssumption DEF FinishWall
<1>2. \A c \in InUse : collider'[c.index] = collider[c.index]
  BY <1>1, PendingCollider
<1>3. Believed' = Believed
  BY <1>1, QuietCollider
<1> QED BY <1>1, <1>2, <1>3, CountsKept

\* The last object takes its overlaps with it.
LEMMA RemoveBackCounts ==
  ASSUME OwnInv, EventsInv, CountsInv, pending # NoBody, mode = "resize",
         objects_count < Len(rendered), RemoveBack
  PROVE  CountsInv'
<1> PICK last : last = Len(rendered)
  OBVIOUS
<1> PICK c : c = rendered[last].collider_idx
  OBVIOUS
<1>1. last \in Nat \ {0} /\ DOMAIN rendered = 1 .. last /\ objects_count \in Nat
  BY OwnFacts, SampleAssumption DEF OwnInv, SampleTypeOK
<1>2. c \in InUse /\ NextToGo(c) /\ stage = "idle"
  BY <1>1, OwnFacts DEF NextToGo, OwnInv, ModeOK
<1> PICK gone : gone = {p \in overlapped : c \in p}
  OBVIOUS
<1>3. /\ RemoveCollider(c)
      /\ rendered' = [k \in 1 .. last - 1 |-> AfterExits(rendered[k], gone)]
      /\ UNCHANGED <<mode, toggled>>
  BY DEF RemoveBack
<1>4. /\ InUse' = InUse \ {c}
      /\ \A d \in InUse' : collider'[d.index] = collider[d.index]
  BY <1>2, <1>3, PendingRemoval
<1>5. overlapped' = overlapped \ gone /\ stage' = stage
  BY <1>3 DEF RemoveCollider, tickVars
<1>6. Believed = overlapped /\ Believed' = overlapped'
  BY <1>2, <1>5 DEF Believed
<1>7. \A p \in Believed' : \A d \in p : collider'[d.index] = collider[d.index]
  BY <1>4, <1>5, <1>6, BelievedInUse
<1>8. last - 1 \in 0 .. Len(rendered) /\ gone \in SUBSET Believed
  BY <1>1, <1>6
<1> QED BY <1>3, <1>5, <1>6, <1>7, <1>8, ExitCounts

\* A Tick tells the objects of one pair at a time.
LEMMA SampleTickCounts ==
  ASSUME OwnInv, EventsInv, CountsInv, SampleTick
  PROVE  CountsInv'
<1>1. mode = "on" /\ mode' = "on" /\ UNCHANGED toggled
  BY DEF SampleTick
<1>2. ASSUME UNCHANGED <<colliderVars, rendered>>, Believed' = Believed PROVE CountsInv'
  BY <1>1, <1>2, CountsKept DEF colliderVars
<1>3. CASE TickObserved /\ UNCHANGED rendered
  <2>1. /\ UNCHANGED colliderVars /\ stage = "idle" /\ stage' = "enter"
        /\ overlapped' = {} /\ previous' = overlapped
    BY <1>3 DEF TickObserved, Integrate
  <2>2. Believed' = Believed
    BY <2>1 DEF Believed
  <2> QED BY <1>2, <1>3, <2>1, <2>2
<1>4. ASSUME NEW pair \in candidates, TestCandidate(pair),
             IF callback' THEN OnEnter(pair) ELSE UNCHANGED rendered
      PROVE  CountsInv'
  <2>1. /\ UNCHANGED colliderVars
        /\ Believed' = IF callback' THEN Believed \cup {pair} ELSE Believed
        /\ callback' => pair \notin Believed
    BY <1>1, <1>4, TestCandidateEvents
  <2>2. pair \in Pair /\ pair \subseteq InUse
    BY DEF OwnInv, WorldInv, TypeOK, EventsInv, TickOK
  <2>3. CASE callback'
    BY <1>1, <1>4, <2>1, <2>2, <2>3, EnterCounts
  <2>4. CASE ~callback'
    BY <1>2, <1>4, <2>1, <2>4
  <2> QED BY <2>3, <2>4
<1>5. ASSUME NEW pair \in leaving, TestPrevious(pair),
             IF callback' THEN OnExit({pair}) ELSE UNCHANGED rendered
      PROVE  CountsInv'
  <2>1. /\ UNCHANGED colliderVars
        /\ Believed' = IF callback' THEN Believed \ {pair} ELSE Believed
        /\ callback' => pair \in Believed
    BY <1>1, <1>5, TestPreviousEvents
  <2>2. CASE callback'
    <3>1. /\ Len(rendered) \in 0 .. Len(rendered) /\ {pair} \in SUBSET Believed
          /\ rendered' = [k \in 1 .. Len(rendered) |-> AfterExits(rendered[k], {pair})]
      <4>1. Len(rendered) \in Nat /\ DOMAIN rendered = 1 .. Len(rendered)
        BY OwnFacts
      <4>2. rendered' = [k \in DOMAIN rendered |-> AfterExits(rendered[k], {pair})]
        BY <1>5, <2>2 DEF OnExit
      <4>3. {pair} \in SUBSET Believed
        BY <2>1, <2>2
      <4> QED BY <4>1, <4>2, <4>3
    <3>2. \A p \in Believed' : \A c \in p : collider'[c.index] = collider[c.index]
      BY <2>1 DEF colliderVars
    <3> QED BY <1>1, <2>1, <2>2, <3>1, <3>2, ExitCounts
  <2>3. CASE ~callback'
    BY <1>2, <1>5, <2>1, <2>3
  <2> QED BY <2>2, <2>3
<1>6. CASE (CandidatesTested \/ PreviousTested \/ ResolveCollisions) /\ UNCHANGED rendered
  BY <1>1, <1>2, <1>6, TickEndEvents
<1> QED BY <1>3, <1>4, <1>5, <1>6, SampleTickKind

\* Every step of the sample keeps the counts right.
LEMMA CountsStep ==
  ASSUME OwnInv, OwnInv', EventsInv, EventsInv', CountsInv, [SampleNext]_sampleAll
  PROVE  CountsInv'
<1>1. CASE mode' \notin {"begin", "on", "resize"}
  BY <1>1 DEF CountsInv
<1>2. CASE Begin
  <2>1. rendered' = <<>>
    BY <1>2 DEF Begin, GoOn, OwnInv, ModeOK
  <2> QED BY <2>1 DEF CountsInv
<1>3. CASE BeginObjects \/ AddObjects
  BY <1>3, QuietCounts, FinishObjectCounts
     DEF BeginObjects, AddObjects, StartObject, Adding
<1>4. CASE BeginWalls
  BY <1>4, QuietCounts, FinishWallCounts DEF BeginWalls, StartObject, Adding
<1>5. CASE RemoveObjects
  BY <1>5, QuietCounts, RemoveBackCounts DEF RemoveObjects, RemoveBodyOf
<1>6. CASE BeginDone
  <2>1. /\ UNCHANGED <<rendered, toggled, colliderVars, overlapped, stage>>
        /\ mode = "begin" /\ stage = "idle"
    BY <1>6 DEF BeginDone, GoOn, set_contact_listener, tickVars
  <2>2. Believed' = Believed
    BY <2>1 DEF Believed
  <2> QED BY <2>1, <2>2, CountsKept DEF colliderVars
<1>7. CASE ResizeDone \/ \E n \in 0 .. ObjectsCapacity : SetObjectsCount(n)
  BY <1>7, QuietCounts DEF ResizeDone, SetObjectsCount, GoOn
<1>8. CASE UNCHANGED sampleAll
  BY <1>8, QuietCounts DEF sampleAll, sampleVars
<1>9. CASE SetWorldBounds \/ End \/ EndObjects \/ EndWalls \/ EndDone
  BY <1>1, <1>9 DEF SetWorldBounds, End, EndObjects, EndWalls, EndDone, RemoveBodyOf, GoOn,
                    sampleVars
<1> QED BY <1>2, <1>3, <1>4, <1>5, <1>6, <1>7, <1>8, <1>9, SetTriggerModeCounts, SampleTickCounts
        DEF SampleNext

\* The invariant of the sample and its world.
THEOREM SampleInvariant == SampleSpec => []SampleInv
<1>1. SampleInit => CountsInv
  BY DEF SampleInit, CountsInv
<1>2. SampleSpec => []CountsInv
  BY <1>1, CountsStep, OwnInvariant, EventsInvariant, PTL DEF SampleSpec, sampleAll
<1> QED BY <1>2, OwnInvariant, EventsInvariant, PTL DEF SampleInv

\* The counts of an object never exceed the overlaps the world told it of,
\* and are those overlaps as long as the trigger mode was not switched.
THEOREM CountsCorrect == SampleSpec => []CountsMatchOverlaps
<1>1. SampleInv => CountsMatchOverlaps
  <2> SUFFICES ASSUME OwnInv, EventsInv, CountsInv, mode \in {"on", "resize"},
                      NEW k \in DOMAIN rendered
               PROVE  LET told == Cardinality(OverlapsOf(rendered[k]))
                      IN  /\ Shown(rendered[k]) <= told
                          /\ ~toggled => Shown(rendered[k]) = told
    BY DEF SampleInv, CountsMatchOverlaps
  <2> PICK r : r = rendered[k]
    OBVIOUS
  <2> DEFINE T == Triggers(Believed, r.collider_idx)
             S == Solids(Believed, r.collider_idx)
  <2>1. OverlapsOf(r) = T \cup S /\ T \cap S = {}
    BY DEF OverlapsOf, Triggers, Solids
  <2>2. IsFiniteSet(T) /\ IsFiniteSet(S) /\ Cardinality(T) \in Nat /\ Cardinality(S) \in Nat
    BY BelievedInUse, KindsFinite
  <2>3. r \in Rendered /\ Counted(r.trigger_count, Cardinality(T))
        /\ Counted(r.collision_count, Cardinality(S))
    BY OwnFacts DEF CountsInv, CountOK
  <2> HIDE DEF T, S
  <2>4. Cardinality(OverlapsOf(r)) = Cardinality(T) + Cardinality(S)
    BY <2>1, <2>2, FS_Union, FS_EmptySet
  <2> QED BY <2>2, <2>3, <2>4 DEF Counted, Shown, Rendered
<1> QED BY <1>1, SampleInvariant, PTL

=============================================================================
