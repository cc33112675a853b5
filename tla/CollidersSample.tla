--------------------------- MODULE CollidersSample --------------------------
(***************************************************************************)
(* colliders::CollidersSample (physics/samples/src/colliders_sample.cc),   *)
(* a client of the world: it creates and removes bodies and colliders,     *)
(* ticks the world, and as its listener counts for every object the        *)
(* overlaps it is in, which decide the object's colour.                    *)
(*                                                                         *)
(* A call of the sample makes several calls of the world.  They are steps  *)
(* of the world, and mode and pending say where the sample is.  Nothing    *)
(* comes in between: there is one thread, and the listener only reads.     *)
(***************************************************************************)
EXTENDS PhysicsWorld, Sequences

CONSTANTS
  InitialObjects,    \* initial_objects_count_
  ObjectsCapacity,   \* objects_capacity_
  Walls              \* the number of walls, 4 in the code

ASSUME SampleAssumption ==
  /\ {InitialObjects, ObjectsCapacity, Walls} \subseteq Nat
  /\ InitialObjects <= ObjectsCapacity
  /\ FALSE \in Trigger

VARIABLES
  rendered,        \* rendered_objects_
  wall_objects,    \* wall_objects_: their collider_idx
  objects_count,   \* current_objects_count_, as the slider last set it
  trigger_mode,
  mode,            \* what the sample is doing: "off", "begin", "on", "resize", "end"
  pending,         \* the body of the object being added or removed, or NoBody
  toggled          \* trigger_mode was switched since Begin (history)

sampleVars == <<rendered, wall_objects, objects_count, trigger_mode, mode, pending, toggled>>

NoBody == [index |-> -1, generationIndex |-> 0]

\* RenderedObject.
Rendered == [collider_idx : Colliders!Index, collision_count : Nat, trigger_count : Nat]

SampleInit ==
  /\ Init
  /\ rendered = <<>>
  /\ wall_objects = <<>>
  /\ objects_count = 0
  /\ trigger_mode = FALSE
  /\ mode = "off"
  /\ pending = NoBody
  /\ toggled = FALSE

-----------------------------------------------------------------------------
(* The listener. *)

\* The objects of a pair.
InPair(r, pair) == \E c \in pair : BodyOf(r.collider_idx) = BodyOf(c)

\* OnColliderEnter, OnTriggerEnter.
OnEnter(pair) ==
  rendered' = [k \in DOMAIN rendered |->
    IF ~InPair(rendered[k], pair) THEN rendered[k]
    ELSE IF IsTrigger(pair) THEN [rendered[k] EXCEPT !.trigger_count = @ + 1]
                            ELSE [rendered[k] EXCEPT !.collision_count = @ + 1]]

\* A count that went down by n, but not below 0.
Less(count, n) == IF count > n THEN count - n ELSE 0

\* Counts after OnColliderExit, OnTriggerExit of each of the pairs.
AfterExits(r, pairs) ==
  LET mine == {p \in pairs : InPair(r, p)}
  IN  [r EXCEPT
        !.trigger_count   = Less(@, Cardinality({p \in mine : IsTrigger(p)})),
        !.collision_count = Less(@, Cardinality({p \in mine : ~IsTrigger(p)}))]

\* Faulty OnExit: counts an exit for the first object of the pair only.
FaultyOnExit(pairs) ==
  rendered' = [k \in DOMAIN rendered |->
    IF \E j \in 1 .. k - 1 : \E p \in pairs : InPair(rendered[j], p)
    THEN rendered[k] ELSE AfterExits(rendered[k], pairs)]

OnExit(pairs) ==
  rendered' = [k \in DOMAIN rendered |-> AfterExits(rendered[k], pairs)]

-----------------------------------------------------------------------------
(* Objects. *)

\* The Index that Add just returned.
Returned(before, after) == CHOOSE idx \in after : idx \notin before

\* AddCircle, AddAABB and the walls begin with a body somewhere.
StartObject(place) ==
  /\ pending = NoBody
  /\ AddBody(place)
  /\ pending' = Returned(body_issued, body_issued')
  /\ UNCHANGED <<rendered, wall_objects, objects_count, trigger_mode, mode, toggled>>

FinishObject ==
  /\ AddCollider(pending, trigger_mode)
  /\ rendered' = Append(rendered,
       [collider_idx |-> Returned(collider_issued, collider_issued'),
        collision_count |-> 0, trigger_count |-> 0])
  /\ pending' = NoBody
  /\ UNCHANGED <<wall_objects, objects_count, trigger_mode, mode, toggled>>

FinishWall ==
  /\ AddCollider(pending, FALSE)
  /\ wall_objects' = Append(wall_objects, Returned(collider_issued, collider_issued'))
  /\ pending' = NoBody
  /\ UNCHANGED <<rendered, objects_count, trigger_mode, mode, toggled>>

\* The body goes first.
RemoveBodyOf(c) ==
  /\ pending = NoBody
  /\ pending' = BodyOf(c)
  /\ RemoveBody(BodyOf(c))
  /\ UNCHANGED <<rendered, wall_objects, objects_count, trigger_mode, mode, toggled>>

\* RemoveObject(rendered_objects_.back()): the world tells the exits, then
\* the object is erased.
RemoveBack ==
  LET last == Len(rendered)
      c    == rendered[last].collider_idx
  IN  /\ RemoveCollider(c)
      /\ rendered' = [k \in 1 .. last - 1 |->
                        AfterExits(rendered[k], {p \in overlapped : c \in p})]
      /\ pending' = NoBody
      /\ UNCHANGED <<wall_objects, objects_count, trigger_mode, mode, toggled>>

-----------------------------------------------------------------------------
(* The sample's calls. *)

GoOn(next) ==
  /\ mode' = next
  /\ UNCHANGED <<rendered, wall_objects, pending, toggled>>

\* main sets the bounds first.
SetWorldBounds ==
  /\ mode = "off" /\ ~quadtree
  /\ set_bounds
  /\ UNCHANGED sampleVars

Begin ==
  /\ mode = "off" /\ quadtree
  /\ GoOn("begin")
  /\ trigger_mode' = FALSE
  /\ objects_count' = InitialObjects
  /\ UNCHANGED vars

BeginObjects ==
  /\ mode = "begin"
  /\ Len(rendered) < InitialObjects
  /\ (\E place \in Place : StartObject(place)) \/ (pending # NoBody /\ FinishObject)

BeginWalls ==
  /\ mode = "begin"
  /\ Len(rendered) = InitialObjects /\ Len(wall_objects) < Walls
  /\ (\E place \in Place : StartObject(place)) \/ (pending # NoBody /\ FinishWall)

BeginDone ==
  /\ mode = "begin"
  /\ Len(rendered) = InitialObjects /\ Len(wall_objects) = Walls
  /\ set_contact_listener(TRUE)
  /\ GoOn("on")
  /\ UNCHANGED <<objects_count, trigger_mode>>

\* The slider of OnGui, which ends in UpdateObjectsCount.
SetObjectsCount(n) ==
  /\ mode = "on" /\ stage = "idle"
  /\ objects_count' = n
  /\ GoOn("resize")
  /\ UNCHANGED <<vars, trigger_mode>>

RemoveObjects ==
  /\ mode = "resize"
  /\ objects_count < Len(rendered)
  /\ \/ RemoveBodyOf(rendered[Len(rendered)].collider_idx)
     \/ pending # NoBody /\ RemoveBack

AddObjects ==
  /\ mode = "resize"
  /\ objects_count > Len(rendered)
  /\ (\E place \in Place : StartObject(place)) \/ (pending # NoBody /\ FinishObject)

ResizeDone ==
  /\ mode = "resize"
  /\ objects_count = Len(rendered)
  /\ GoOn("on")
  /\ UNCHANGED <<vars, objects_count, trigger_mode>>

\* The radio buttons of OnGui: every object becomes a trigger or solid, and
\* its counts start over.
SetTriggerMode(is_trigger) ==
  LET mine == {rendered[k].collider_idx.index : k \in DOMAIN rendered}
  IN  /\ mode = "on" /\ stage = "idle"
      /\ trigger_mode' = is_trigger
      /\ collider' = [i \in DOMAIN collider |->
           IF i \in mine THEN [collider[i] EXCEPT !.is_trigger = is_trigger] ELSE collider[i]]
      /\ rendered' = [k \in DOMAIN rendered |->
           [rendered[k] EXCEPT !.collision_count = 0, !.trigger_count = 0]]
      /\ toggled' = TRUE
      /\ UNCHANGED <<bodyVars, collider_length, collider_generation, collider_issued,
                     overlapVars, quadtree, listener, tickVars, worldVars, references,
                     wall_objects, objects_count, mode, pending>>

End ==
  /\ mode = "on" /\ stage = "idle"
  /\ set_contact_listener(FALSE)
  /\ mode' = "end"
  /\ objects_count' = 0
  /\ toggled' = FALSE
  /\ UNCHANGED <<rendered, wall_objects, trigger_mode, pending>>

\* Every object from the first to the last, then the walls.
EndObjects ==
  /\ mode = "end"
  /\ rendered # <<>>
  /\ LET c == rendered[1].collider_idx
     IN  \/ RemoveBodyOf(c)
         \/ /\ pending # NoBody
            /\ RemoveCollider(c)
            /\ rendered' = Tail(rendered)
            /\ pending' = NoBody
            /\ UNCHANGED <<wall_objects, objects_count, trigger_mode, mode, toggled>>

EndWalls ==
  /\ mode = "end"
  /\ rendered = <<>> /\ wall_objects # <<>>
  /\ \/ RemoveBodyOf(wall_objects[1])
     \/ /\ pending # NoBody
        /\ RemoveCollider(wall_objects[1])
        /\ wall_objects' = Tail(wall_objects)
        /\ pending' = NoBody
        /\ UNCHANGED <<rendered, objects_count, trigger_mode, mode, toggled>>

EndDone ==
  /\ mode = "end"
  /\ rendered = <<>> /\ wall_objects = <<>>
  /\ GoOn("off")
  /\ UNCHANGED <<vars, objects_count, trigger_mode>>

-----------------------------------------------------------------------------
(* FixedUpdate ticks the world, which calls the listener. *)

SampleTick ==
  /\ mode = "on"
  /\ UNCHANGED <<wall_objects, objects_count, trigger_mode, mode, pending, toggled>>
  /\ \/ (TickUnobserved \/ TickObserved \/ TickThrows) /\ UNCHANGED rendered
     \/ \E pair \in candidates :
          /\ TestCandidate(pair)
          /\ IF callback' THEN OnEnter(pair) ELSE UNCHANGED rendered
     \/ \E pair \in leaving :
          /\ TestPrevious(pair)
          /\ IF callback' THEN OnExit({pair}) ELSE UNCHANGED rendered
     \/ (CandidatesTested \/ PreviousTested \/ ResolveCollisions) /\ UNCHANGED rendered

SampleNext ==
  \/ SetWorldBounds
  \/ Begin \/ BeginObjects \/ BeginWalls \/ BeginDone
  \/ \E n \in 0 .. ObjectsCapacity : SetObjectsCount(n)
  \/ RemoveObjects \/ AddObjects \/ ResizeDone
  \/ \E is_trigger \in Trigger : SetTriggerMode(is_trigger)
  \/ SampleTick
  \/ End \/ EndObjects \/ EndWalls \/ EndDone

SampleSpec == SampleInit /\ [][SampleNext]_<<vars, sampleVars>>

-----------------------------------------------------------------------------
(* Properties. *)

\* Every variable has its type.
SampleTypeOK ==
  /\ TypeOK
  /\ rendered \in Seq(Rendered)
  /\ Len(rendered) <= ObjectsCapacity
  /\ wall_objects \in Seq(Colliders!Index)
  /\ objects_count \in 0 .. ObjectsCapacity
  /\ trigger_mode \in Trigger
  /\ mode \in {"off", "begin", "on", "resize", "end"}
  /\ pending \in Bodies!Index \cup {NoBody}
  /\ toggled \in BOOLEAN

\* What the counts of an object add up to, and what they count.
Shown(r) == r.collision_count + r.trigger_count
OverlapsOf(r) == {p \in Believed : r.collider_idx \in p}

\* An object is coloured as overlapping only when it overlaps: through
\* ticks, removals of other objects and switches of the trigger mode, its
\* counts never exceed the overlaps the world has told, and until a switch
\* they are equal to them.
CountsMatchOverlaps ==
  mode \in {"on", "resize"} =>
    \A k \in DOMAIN rendered :
      LET told == Cardinality(OverlapsOf(rendered[k]))
      IN  /\ Shown(rendered[k]) <= told
          /\ ~toggled => Shown(rendered[k]) = told

=============================================================================
