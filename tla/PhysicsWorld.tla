---------------------------- MODULE PhysicsWorld ----------------------------
(***************************************************************************)
(* physics::PhysicsWorld (physics/include/world.h, physics/src/world.cc):  *)
(* bodies and colliders in two IndexedContainers, the overlapping pairs of *)
(* colliders of the current and of the previous Tick, and the listener     *)
(* that is told when a pair enters and exits.                              *)
(*                                                                         *)
(* The listener is called in the middle of CheckForOverlap and may call    *)
(* the world back.  So a Tick is a sequence of steps, one per candidate    *)
(* pair and one per pair that may have left, and operations on the world   *)
(* are possible between Ticks and in a callback.                           *)
(*                                                                         *)
(* Geometry is abstract: a place is a point on a line, two colliders       *)
(* overlap when their bodies are at one place, and their boxes intersect   *)
(* up to a distance of 1.  Forces, velocities and static bodies are left   *)
(* out: in every Tick every body goes to any place.                        *)
(***************************************************************************)
EXTENDS Integers, FiniteSets

CONSTANTS
  Place,                  \* Body::position
  Trigger,                \* the values of is_trigger in use
  Invalid,                \* GenerateInvalidValue() of both containers
  BodySlots,              \* bound: the number of bodies_
  ColliderSlots,          \* bound: the number of colliders_
  MaxBodyGeneration,      \* bound: removals of one body slot
  MaxColliderGeneration,  \* bound: removals of one collider slot
  MaxReferences           \* bound: worlds to roll back from

VARIABLES
  body_length, body, body_generation, body_issued,   \* bodies_
  collider_length, collider, collider_generation, collider_issued,  \* colliders_
  overlapped,   \* overlapped_colliders_
  previous,     \* previously_overlapped_colliders_
  quadtree,     \* quadtree_ is not null: set_bounds has been called
  listener,     \* listener_ is not null
  stage,        \* where the Tick in progress is
  candidates,   \* the candidate pairs still to be tested
  leaving,      \* the pairs of sorted_prev still to be looked at
  callback,     \* the listener is being called
  active,       \* active_world_: this world ("own") or the global one ("other")
  resume,       \* prev of the Tick in progress: what it restores active_world_ to
  references,   \* the states of other worlds, copied from this one
  inside,       \* the pairs the listener saw enter and not exit (history)
  confused      \* it saw an Enter or an Exit that made no sense (history)

bodyVars == <<body_length, body, body_generation, body_issued>>
colliderVars == <<collider_length, collider, collider_generation, collider_issued>>
heardVars == <<inside, confused>>
overlapVars == <<overlapped, previous, heardVars>>
tickVars == <<stage, candidates, leaving, callback>>
worldVars == <<active, resume>>
vars == <<bodyVars, colliderVars, overlapVars, quadtree, listener, tickVars, worldVars, references>>

Bodies == INSTANCE IndexedContainer WITH
  Value <- Place, MaxSlots <- BodySlots, MaxGeneration <- MaxBodyGeneration,
  length <- body_length, value <- body,
  generation <- body_generation, issued <- body_issued

\* Collider: the body it follows, and is_trigger.
Collider == [body : Bodies!Index, is_trigger : Trigger]

Colliders == INSTANCE IndexedContainer WITH
  Value <- Collider, MaxSlots <- ColliderSlots, MaxGeneration <- MaxColliderGeneration,
  length <- collider_length, value <- collider,
  generation <- collider_generation, issued <- collider_issued

ASSUME WorldAssumption ==
  /\ Place \subseteq Int
  /\ 0 \in Place
  /\ Trigger \subseteq BOOLEAN
  /\ Invalid \notin Place
  /\ Invalid \notin Collider
  /\ {BodySlots, ColliderSlots, MaxBodyGeneration, MaxColliderGeneration,
      MaxReferences} \subseteq Nat

-----------------------------------------------------------------------------
(* Pairs of colliders. *)

\* CollidersPair, whose order does not matter.  Equality, hash and order use
\* the slots only.
Pair == {{e[1], e[2]} : e \in {f \in Colliders!Index \X Colliders!Index : f[1].index # f[2].index}}

Slots(pair) == {c.index : c \in pair}

Contains(pairs, pair) == \E q \in pairs : Slots(q) = Slots(pair)

Least(slots) == CHOOSE i \in slots : \A j \in slots : i <= j

\* operator<: lexicographic on the smaller and the larger slot.
Precedes(p, q) ==
  LET a == Least(Slots(p))
      b == Least(Slots(q))
  IN  a < b \/ (a = b /\ Least(Slots(p) \ {a}) < Least(Slots(q) \ {b}))

First(pairs, p) == p \in pairs /\ \A q \in pairs : ~Precedes(q, p)

-----------------------------------------------------------------------------
(* Reading the world. *)

BodyOf(c) == collider[c.index].body

\* Both At() calls on the way from a collider to its body succeed.
Placed(c) == Colliders!Accepts(c) /\ Bodies!Accepts(BodyOf(c))

\* An invalid body, which At() may reach after a rollback, lies at {0, 0}.
PlaceOf(c) ==
  LET i == BodyOf(c).index
  IN  IF Bodies!IsInvalid(i) THEN 0 ELSE body[i]

\* collider_idx of every collider in use.
InUse == {Colliders!IndexOf(i, collider_generation[i]) : i \in Colliders!Slot \ Colliders!Free}

Orphans == {c \in InUse : ~Placed(c)}

\* The narrow test of CheckForOverlap.
Overlapping(pair) == \A c, d \in pair : PlaceOf(c) = PlaceOf(d)

\* Mutant: a collider is a candidate with itself.
FaultyCandidates == {p \in {{c, d} : c, d \in InUse} :
                       \A c, d \in p : PlaceOf(c) - PlaceOf(d) \in -1 .. 1}

\* What the quadtree returns: the pairs whose boxes intersect.
Candidates ==
  {p \in {{c, d} : c, d \in InUse} :
     /\ \E c, d \in p : c # d
     /\ \A c, d \in p : PlaceOf(c) - PlaceOf(d) \in -1 .. 1}

IsTrigger(pair) == \E c \in pair : collider[c.index].is_trigger

-----------------------------------------------------------------------------
Init ==
  /\ Bodies!Init
  /\ Colliders!Init
  /\ overlapped = {}
  /\ previous = {}
  /\ quadtree = FALSE
  /\ listener = FALSE
  /\ stage = "idle"
  /\ candidates = {}
  /\ leaving = {}
  /\ callback = FALSE
  /\ active = "other"
  /\ resume = "none"
  /\ references = {}
  /\ inside = {}
  /\ confused = FALSE

\* Operations on the world are called between Ticks or by the listener.
MayCall == stage = "idle" \/ callback

-----------------------------------------------------------------------------
(* Tick. *)

\* The listener hears that pairs enter or exit.
TellEnter(pairs) ==
  /\ confused' = (confused \/ pairs \cap inside # {})
  /\ inside' = IF confused' THEN {} ELSE inside \cup pairs

TellExit(pairs) ==
  /\ confused' = (confused \/ ~(pairs \subseteq inside))
  /\ inside' = IF confused' THEN {} ELSE inside \ pairs

\* The valid bodies of the given slots go anywhere.
Displace(slots) ==
  /\ \E places \in [slots \ Bodies!Free -> Place] :
       body' = [i \in Bodies!Slot |-> IF i \in slots \ Bodies!Free THEN places[i] ELSE body[i]]
  /\ UNCHANGED <<body_length, body_generation, body_issued>>

\* Tick integrates every valid body, then enters CheckForOverlap.
Integrate ==
  /\ stage = "idle"
  /\ active' = "own"
  /\ Displace(Bodies!Slot)
  /\ UNCHANGED <<colliderVars, quadtree, listener, references>>

\* Without a listener or a quadtree CheckForOverlap returns at once.
TickUnobserved ==
  /\ ~(listener /\ quadtree)
  /\ Integrate
  /\ resume' = active
  /\ stage' = "resolve"
  /\ UNCHANGED <<overlapVars, candidates, leaving, callback>>

\* The overlaps of the last Tick are set aside and candidates collected.
TickObserved ==
  /\ listener /\ quadtree
  /\ Orphans = {}
  /\ Integrate
  /\ resume' = active
  /\ previous' = overlapped
  /\ overlapped' = {}
  /\ candidates' = Candidates'
  /\ stage' = "enter"
  /\ UNCHANGED <<leaving, callback, heardVars>>

\* ColliderToAABB throws for a collider whose body is gone: the Tick ends
\* there, active_world_ stays.
TickThrows ==
  /\ listener /\ quadtree
  /\ Orphans # {}
  /\ Integrate
  /\ previous' = overlapped
  /\ overlapped' = {}
  /\ UNCHANGED <<resume, tickVars, heardVars>>

\* An exception leaves the Tick in progress; active_world_ stays.
Throw ==
  /\ stage' = "idle"
  /\ resume' = "none"
  /\ candidates' = {}
  /\ leaving' = {}
  /\ callback' = FALSE

\* Steps of CheckForOverlap leave everything else alone.
CheckForOverlapFrame ==
  UNCHANGED <<bodyVars, colliderVars, quadtree, listener, active, references>>

\* Mutant: every overlap enters, without a look at the previous overlaps.
FaultyTestCandidate(pair) ==
  /\ stage = "enter"
  /\ pair \in candidates
  /\ CheckForOverlapFrame
  /\ LET new == Overlapping(pair) /\ ~Contains(overlapped, pair)
     IN  /\ overlapped' = IF new THEN overlapped \cup {pair} ELSE overlapped
         /\ TellEnter(IF new THEN {pair} ELSE {})
         /\ callback' = new
  /\ candidates' = candidates \ {pair}
  /\ UNCHANGED <<previous, stage, leaving, resume>>

\* One candidate: is it a new overlap?
TestCandidate(pair) ==
  /\ stage = "enter"
  /\ pair \in candidates
  /\ CheckForOverlapFrame
  /\ \/ /\ \A c \in pair : Placed(c)
        /\ LET new   == Overlapping(pair) /\ ~Contains(overlapped, pair)
               enter == new /\ ~Contains(previous, pair)
           IN  /\ overlapped' = IF new THEN overlapped \cup {pair} ELSE overlapped
               /\ TellEnter(IF enter THEN {pair} ELSE {})
               /\ callback' = enter
        /\ candidates' = candidates \ {pair}
        /\ UNCHANGED <<previous, stage, leaving, resume>>
     \/ /\ \E c \in pair : ~Placed(c)
        /\ Throw
        /\ UNCHANGED overlapVars

\* All candidates are tested: sorted_prev is a copy of the previous overlaps.
CandidatesTested ==
  /\ stage = "enter"
  /\ candidates = {}
  /\ stage' = "exit"
  /\ leaving' = previous
  /\ callback' = FALSE
  /\ CheckForOverlapFrame
  /\ UNCHANGED <<overlapVars, candidates, resume>>

\* The next pair of sorted_prev: has it left?
TestPrevious(pair) ==
  /\ stage = "exit"
  /\ First(leaving, pair)
  /\ CheckForOverlapFrame
  /\ UNCHANGED <<overlapped, previous>>
  /\ LET left == ~Contains(overlapped, pair)
     IN  \/ /\ left => \A c \in pair : Colliders!Accepts(c)
            /\ TellExit(IF left THEN {pair} ELSE {})
            /\ callback' = left
            /\ leaving' = leaving \ {pair}
            /\ UNCHANGED <<stage, candidates, resume>>
         \/ /\ left /\ \E c \in pair : ~Colliders!Accepts(c)
            /\ Throw
            /\ UNCHANGED heardVars

PreviousTested ==
  /\ stage = "exit"
  /\ leaving = {}
  /\ stage' = "resolve"
  /\ callback' = FALSE
  /\ CheckForOverlapFrame
  /\ UNCHANGED <<overlapVars, candidates, leaving, resume>>

\* Mutant: Tick does not restore active_world_.
FaultyResolveCollisions ==
  /\ stage = "resolve"
  /\ Displace(Bodies!Slot)
  /\ resume' = "none"
  /\ stage' = "idle"
  /\ UNCHANGED <<colliderVars, overlapVars, quadtree, listener, candidates, leaving,
                 callback, active, references>>

\* ResolveCollisions corrects the positions of overlapping solid colliders,
\* whether the overlaps are fresh or not; it throws on a stale Index.
ResolveCollisions ==
  LET solid    == {p \in overlapped : ~IsTrigger(p)}
      resolved == {BodyOf(c).index : c \in {d \in UNION solid : Placed(d)}}
      throws   == \/ \E c \in UNION overlapped : ~Colliders!Accepts(c)
                  \/ \E c \in UNION solid : ~Placed(c)
  IN  /\ stage = "resolve"
      /\ Displace(resolved)
      /\ active' = IF throws THEN active ELSE resume
      /\ resume' = "none"
      /\ stage' = "idle"
      /\ UNCHANGED <<colliderVars, overlapVars, quadtree, listener, candidates, leaving,
                     callback, references>>

TickStep ==
  \/ TickUnobserved
  \/ TickObserved
  \/ \E pair \in candidates : TestCandidate(pair)
  \/ CandidatesTested
  \/ \E pair \in leaving : TestPrevious(pair)
  \/ PreviousTested
  \/ ResolveCollisions

-----------------------------------------------------------------------------
(* Operations on the world. *)

\* AddBody, AddStaticBody.
AddBody(place) ==
  /\ MayCall
  /\ Bodies!Add(place)
  /\ UNCHANGED <<colliderVars, overlapVars, quadtree, listener, tickVars, worldVars, references>>

\* Assignment to body_at(idx).position.  Nobody moves an invalid body.
MoveBody(idx, place) ==
  /\ MayCall
  /\ Bodies!Accepts(idx) /\ ~Bodies!IsInvalid(idx.index)
  /\ Bodies!Write(idx, place)
  /\ UNCHANGED <<colliderVars, overlapVars, quadtree, listener, tickVars, worldVars, references>>

\* Leaves the colliders of the body behind.
RemoveBody(idx) ==
  /\ MayCall
  /\ Bodies!Remove(idx)
  /\ UNCHANGED <<colliderVars, overlapVars, quadtree, listener, tickVars, worldVars, references>>

\* Takes any body Index, checked or not.
AddCollider(body_idx, is_trigger) ==
  /\ MayCall
  /\ Colliders!Add([body |-> body_idx, is_trigger |-> is_trigger])
  /\ UNCHANGED <<bodyVars, overlapVars, quadtree, listener, tickVars, worldVars, references>>

\* Assignment to collider_at(idx).is_trigger.  On an invalid collider it has
\* no effect.
SetTrigger(idx, is_trigger) ==
  /\ MayCall
  /\ Colliders!Accepts(idx) /\ ~Colliders!IsInvalid(idx.index)
  /\ Colliders!Write(idx, [collider[idx.index] EXCEPT !.is_trigger = is_trigger])
  /\ UNCHANGED <<bodyVars, overlapVars, quadtree, listener, tickVars, worldVars, references>>

\* Mutant: the previous overlaps keep the collider.
FaultyRemoveCollider(idx) ==
  LET with == {p \in overlapped : idx \in p}
  IN  /\ MayCall
      /\ Colliders!Remove(idx)
      /\ TellExit(IF listener THEN with ELSE {})
      /\ overlapped' = overlapped \ with
      /\ UNCHANGED <<bodyVars, previous, quadtree, listener, tickVars, worldVars, references>>

\* The listener sees the exits first (it does not call back from them), then
\* both sets forget the collider.
RemoveCollider(idx) ==
  LET with == {p \in overlapped : idx \in p}
  IN  /\ MayCall
      /\ Colliders!Remove(idx)
      /\ TellExit(IF listener THEN with ELSE {})
      /\ overlapped' = overlapped \ with
      /\ previous' = {p \in previous : idx \notin p}
      /\ UNCHANGED <<bodyVars, quadtree, listener, tickVars, worldVars, references>>

set_bounds ==
  /\ stage = "idle"
  /\ quadtree' = TRUE
  /\ UNCHANGED <<bodyVars, colliderVars, overlapVars, listener, tickVars, worldVars, references>>

\* A listener that is set has been told nothing yet.
set_contact_listener(set) ==
  /\ stage = "idle"
  /\ listener' = set
  /\ inside' = {}
  /\ confused' = FALSE
  /\ UNCHANGED <<bodyVars, colliderVars, overlapped, previous, quadtree, tickVars,
                 worldVars, references>>

State ==
  [bodies |-> <<body_length, body, body_generation>>,
   colliders |-> <<collider_length, collider, collider_generation>>,
   overlapped |-> overlapped, previous |-> previous, quadtree |-> quadtree]

\* Another world rolls back from this one.
CopyToReference ==
  /\ stage = "idle"
  /\ Cardinality(references) < MaxReferences
  /\ references' = references \cup {State}
  /\ UNCHANGED <<bodyVars, colliderVars, overlapVars, quadtree, listener, tickVars, worldVars>>

\* This world rolls back from the other one: everything but the listener.
\* Users keep the indices they hold.
RollBackFrom(ref) ==
  /\ stage = "idle"
  /\ body_length' = ref.bodies[1] /\ body' = ref.bodies[2] /\ body_generation' = ref.bodies[3]
  /\ collider_length' = ref.colliders[1] /\ collider' = ref.colliders[2]
  /\ collider_generation' = ref.colliders[3]
  /\ overlapped' = ref.overlapped
  /\ previous' = ref.previous
  /\ quadtree' = ref.quadtree
  /\ UNCHANGED <<body_issued, collider_issued, heardVars, listener, tickVars, worldVars, references>>

\* The world is replaced by an empty one.
ResetWorld ==
  /\ stage = "idle"
  /\ body_length' = 0 /\ body' = <<>> /\ body_generation' = <<>>
  /\ collider_length' = 0 /\ collider' = <<>> /\ collider_generation' = <<>>
  /\ overlapped' = {}
  /\ previous' = {}
  /\ quadtree' = FALSE
  /\ listener' = FALSE
  /\ inside' = {}
  /\ confused' = FALSE
  /\ UNCHANGED <<body_issued, collider_issued, tickVars, worldVars, references>>

-----------------------------------------------------------------------------
Build ==
  \/ \E place \in Place :
       AddBody(place) \/ \E idx \in body_issued : MoveBody(idx, place)
  \/ \E is_trigger \in Trigger :
       \/ \E body_idx \in body_issued : AddCollider(body_idx, is_trigger)
       \/ \E idx \in collider_issued : SetTrigger(idx, is_trigger)

Take ==
  \/ \E idx \in body_issued : RemoveBody(idx)
  \/ \E idx \in collider_issued : RemoveCollider(idx)

Next ==
  \/ TickStep
  \/ TickThrows
  \/ Build
  \/ Take
  \/ set_bounds
  \/ \E set \in BOOLEAN : set_contact_listener(set)
  \/ CopyToReference
  \/ \E ref \in references : RollBackFrom(ref)
  \/ ResetWorld

\* Any use of the world.
Spec == Init /\ [][Next]_vars

-----------------------------------------------------------------------------
(* Properties. *)

\* Every variable has its type.
TypeOK ==
  /\ Bodies!TypeOK
  /\ Colliders!TypeOK
  /\ overlapped \subseteq Pair
  /\ previous \subseteq Pair
  /\ quadtree \in BOOLEAN
  /\ listener \in BOOLEAN
  /\ stage \in {"idle", "enter", "exit", "resolve"}
  /\ candidates \subseteq Pair
  /\ leaving \subseteq Pair
  /\ callback \in BOOLEAN
  /\ active \in {"own", "other"}
  /\ resume \in {"own", "other", "none"}
  /\ Cardinality(references) <= MaxReferences
  /\ inside \subseteq Pair
  /\ confused \in BOOLEAN

\* Whatever is done to the world, its overlaps are between colliders in use:
\* sets that compare pairs by slot never hold a pair of an earlier occupant,
\* so no At() on them throws.
OverlapsLive == UNION (overlapped \cup previous) \subseteq InUse

\* The pairs the listener should consider overlapping: between Ticks those of
\* the last Tick, during a Tick also those not looked at yet.
Believed ==
  CASE stage = "enter" -> overlapped \cup previous
    [] stage = "exit"  -> overlapped \cup leaving
    [] OTHER           -> overlapped

\* Every Enter is followed by one Exit before the next Enter of the pair, and
\* what the listener was told adds up to the overlaps of the world.
EventsMatchOverlaps == listener => ~confused /\ inside = Believed

\* Between the Ticks of a world, Collider::body() and collider_at() reach the
\* global world again (here "other": this world is not the global one).
ActiveWorldRestored == stage = "idle" => active = "other"

=============================================================================
