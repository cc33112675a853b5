------------------------------ MODULE QuadTree ------------------------------
(***************************************************************************)
(* physics::QuadTree (physics/src/quadtree.cc), which gives the world the  *)
(* pairs of colliders whose boxes intersect.                               *)
(*                                                                         *)
(* A node is named by its path, the indices of the children that lead to   *)
(* it.  insert() is recursive, and a node that is emptied into its         *)
(* children calls it from the loop over its own objects: calls is the      *)
(* stack of the calls and loops in progress, and a step is one turn of the *)
(* one on top.                                                             *)
(***************************************************************************)
EXTENDS Integers, Sequences, FiniteSets

CONSTANTS
  Box,           \* boxes that may be inserted
  WorldBounds,   \* bounds_ of the root
  MAX_OBJECTS,
  MAX_LEVELS,
  MaxEntries     \* bound: entries in the tree

Boxes == [x1 : Int, y1 : Int, x2 : Int, y2 : Int]

ASSUME QuadTreeAssumption ==
  /\ Box \subseteq Boxes
  /\ WorldBounds \in Boxes
  /\ MAX_OBJECTS \in Nat
  /\ MAX_LEVELS \in Nat
  /\ MaxEntries \in Nat

VARIABLES
  tree,    \* the nodes, by path
  calls,   \* the stack of insert() and of its loops, the innermost first
  used     \* the number of entries so far

vars == <<tree, calls, used>>

Seqs == INSTANCE SequencesExt

Child == 0 .. 3

Root == <<>>

\* AABB::intersects and contains
Intersects(a, b) ==
  /\ a.x2 >= b.x1 /\ a.x1 <= b.x2
  /\ a.y2 >= b.y1 /\ a.y1 <= b.y2

Contains(a, b) ==
  /\ b.x1 >= a.x1 /\ b.x2 <= a.x2
  /\ b.y1 >= a.y1 /\ b.y2 <= a.y2

MidX(b) == (b.x1 + b.x2) \div 2
MidY(b) == (b.y1 + b.y2) \div 2

\* Mutant: a box that touches a middle line is inside of a child.
FaultyGetChildIndex(bounds, box) ==
  CASE box.y2 <= MidY(bounds) /\ box.x1 >= MidX(bounds) -> 0
    [] box.y2 <= MidY(bounds) /\ box.x2 <= MidX(bounds) -> 1
    [] box.y1 >= MidY(bounds) /\ box.x2 <= MidX(bounds) -> 2
    [] box.y1 >= MidY(bounds) /\ box.x1 >= MidX(bounds) -> 3
    [] OTHER -> -1

\* getChildIndex: the child that a box is strictly inside of, or -1.
getChildIndex(bounds, box) ==
  CASE box.y2 < MidY(bounds) /\ box.x1 > MidX(bounds) -> 0
    [] box.y2 < MidY(bounds) /\ box.x2 < MidX(bounds) -> 1
    [] box.y1 > MidY(bounds) /\ box.x2 < MidX(bounds) -> 2
    [] box.y1 > MidY(bounds) /\ box.x1 > MidX(bounds) -> 3
    [] OTHER -> -1

\* The quarter of b that a child has.
Quarter(b, child) ==
  [x1 |-> IF child \in {0, 3} THEN MidX(b) ELSE b.x1,
   x2 |-> IF child \in {0, 3} THEN b.x2 ELSE MidX(b),
   y1 |-> IF child \in {2, 3} THEN MidY(b) ELSE b.y1,
   y2 |-> IF child \in {2, 3} THEN b.y2 ELSE MidY(b)]

\* Where an entry belongs below the node at path.
Index(path, entry) == getChildIndex(tree[path].bounds, entry.box)

Entry == [idx : 1 .. MaxEntries, box : Box]

\* A call of insert() on a node, and a loop over its objects at the next one.
Call(path, entry) == [op |-> "insert", path |-> path, entry |-> entry]
Loop(path, next) == [op |-> "loop", path |-> path, next |-> next]

\* Mutant: the object is inserted again into the node that is emptied.
FaultyChildCall(path, entry) == Call(path, entry)

\* nodes_[index]->insert(entry)
ChildCall(path, entry) == Call(Append(path, Index(path, entry)), entry)

Subdivided(path) == Append(path, 0) \in DOMAIN tree

QuadInit ==
  /\ tree = [p \in {Root} |-> [bounds |-> WorldBounds, objects |-> <<>>]]
  /\ calls = <<>>
  /\ used = 0

-----------------------------------------------------------------------------
(* insert *)

\* The world inserts a box; its index is its number.
insert(box) ==
  /\ calls = <<>>
  /\ used < MaxEntries
  /\ used' = used + 1
  /\ calls' = <<Call(Root, [idx |-> used + 1, box |-> box])>>
  /\ UNCHANGED tree

Inserting == calls # <<>> /\ Head(calls).op = "insert"

Looping == calls # <<>> /\ Head(calls).op = "loop"

\* The call on top is for a node with children, one of which takes the entry.
Fits(c) == Subdivided(c.path) /\ Index(c.path, c.entry) # -1

PassDown ==
  /\ Inserting
  /\ LET c == Head(calls)
     IN  /\ Fits(c)
         /\ calls' = <<ChildCall(c.path, c.entry)>> \o Tail(calls)
  /\ UNCHANGED <<tree, used>>

\* objects_.push_back
Pushed(c) == Append(tree[c.path].objects, c.entry)

\* Mutant: a node of the last level is subdivided.
FaultyIsFull(c) == Len(Pushed(c)) > MAX_OBJECTS /\ Len(c.path) <= MAX_LEVELS

IsFull(c) == Len(Pushed(c)) > MAX_OBJECTS /\ Len(c.path) < MAX_LEVELS

Store ==
  /\ Inserting
  /\ LET c == Head(calls)
     IN  /\ ~Fits(c)
         /\ ~IsFull(c)
         /\ tree' = [tree EXCEPT ![c.path].objects = Pushed(c)]
  /\ calls' = Tail(calls)
  /\ UNCHANGED used

\* The children that subdivide() makes.
NewChildren(path) ==
  IF Subdivided(path) THEN {} ELSE {Append(path, i) : i \in Child}

\* A node that becomes too full is subdivided, and the loop begins.
Split ==
  /\ Inserting
  /\ LET c == Head(calls)
     IN  /\ ~Fits(c)
         /\ IsFull(c)
         /\ tree' = [p \in DOMAIN tree \cup NewChildren(c.path) |->
                       IF p = c.path THEN [tree[p] EXCEPT !.objects = Pushed(c)]
                       ELSE IF p \in DOMAIN tree THEN tree[p]
                       ELSE [bounds |-> Quarter(tree[c.path].bounds, p[Len(p)]),
                             objects |-> <<>>]]
         /\ calls' = <<Loop(c.path, 1)>> \o Tail(calls)
  /\ UNCHANGED used

\* Mutant: the last object is erased.
FaultyErased(c) == Seqs!Front(tree[c.path].objects)

\* objects_.erase: the one after the erased object is the next one.
Erased(c) == Seqs!RemoveAt(tree[c.path].objects, c.next)

\* One turn of the loop: the object moves to a child, or stays.  (The child is
\* called first, which does not look at this node.)
Turn ==
  /\ Looping
  /\ LET c == Head(calls)
         e == tree[c.path].objects[c.next]
     IN  /\ c.next <= Len(tree[c.path].objects)
         /\ \/ /\ Index(c.path, e) # -1
               /\ tree' = [tree EXCEPT ![c.path].objects = Erased(c)]
               /\ calls' = <<ChildCall(c.path, e)>> \o calls
            \/ /\ Index(c.path, e) = -1
               /\ calls' = <<Loop(c.path, c.next + 1)>> \o Tail(calls)
               /\ UNCHANGED tree
  /\ UNCHANGED used

Return ==
  /\ Looping
  /\ Head(calls).next > Len(tree[Head(calls).path].objects)
  /\ calls' = Tail(calls)
  /\ UNCHANGED <<tree, used>>

\* CheckForOverlap clears the tree before it fills it again.
clear ==
  /\ calls = <<>>
  /\ tree' = [p \in {Root} |-> [bounds |-> WorldBounds, objects |-> <<>>]]
  /\ used' = 0
  /\ UNCHANGED calls

QuadNext ==
  \/ \E box \in Box : insert(box)
  \/ PassDown
  \/ Store
  \/ Split
  \/ Turn
  \/ Return
  \/ clear

QuadSpec == QuadInit /\ [][QuadNext]_vars

-----------------------------------------------------------------------------
(* query *)

\* The places of the tree: a node and an index of its objects_.
Places == UNION {{p} \X DOMAIN tree[p].objects : p \in DOMAIN tree}

ObjectAt(q) == tree[q[1]].objects[q[2]]

\* The entries with the paths of their nodes.
Placed == {[path |-> q[1], entry |-> ObjectAt(q)] : q \in Places}

\* The node of path at depth n.
Ancestor(path, n) == SubSeq(path, 1, n)

Below(path, other) == Len(path) < Len(other) /\ Ancestor(other, Len(path)) = path

\* Mutant: a node is visited if it has all of the box.
FaultyVisits(path, other, box) ==
  \A n \in Len(path) + 2 .. Len(other) : Contains(tree[Ancestor(other, n)].bounds, box)

\* objectQuery of a box at path comes to the node other: the nodes on the way,
\* from the second on, have bounds that intersect the box.
Visits(path, other, box) ==
  \A n \in Len(path) + 2 .. Len(other) : Intersects(tree[Ancestor(other, n)].bounds, box)

\* Entries that query() compares: in one node, in a node and below it, and in
\* two siblings, where checkSiblingCollision goes down on both sides at once as
\* long as both are subdivided.
InOneNode(a, b) == a.path = b.path
FromAbove(a, b) == Below(a.path, b.path) /\ Visits(a.path, b.path, a.entry.box)
AcrossSiblings(a, b) ==
  /\ a.path # b.path /\ ~Below(a.path, b.path) /\ ~Below(b.path, a.path)
  /\ Len(a.path) < Len(b.path) => ~Subdivided(a.path)
  /\ Len(b.path) < Len(a.path) => ~Subdivided(b.path)

IsCandidate(a, b) ==
  /\ Intersects(a.entry.box, b.entry.box)
  /\ InOneNode(a, b) \/ FromAbove(a, b) \/ FromAbove(b, a) \/ AcrossSiblings(a, b)

-----------------------------------------------------------------------------
(* Properties. *)

\* Every variable has its type, and no node is deeper than MAX_LEVELS.
QuadTypeOK ==
  /\ \A p \in DOMAIN tree : p \in Seq(Child) /\ Len(p) <= MAX_LEVELS
  /\ tree \in [DOMAIN tree -> [bounds : Boxes, objects : Seq(Entry)]]
  /\ calls \in Seq([op : {"insert"}, path : DOMAIN tree, entry : Entry]
                   \cup [op : {"loop"}, path : DOMAIN tree, next : Nat \ {0}])
  /\ used \in 0 .. MaxEntries

\* The loops in progress stay valid: what a loop calls works below the node of
\* the loop, never on the objects that it goes over.
LoopsUndisturbed ==
  \A i \in DOMAIN calls, j \in DOMAIN calls :
    (i < j /\ calls[j].op = "loop") => Below(calls[j].path, calls[i].path)

\* Splitting nodes, which moves entries from under the loop that goes over
\* them, loses none and stores none twice.
StoredOnce ==
  calls = <<>> =>
    \A i \in 1 .. used : Cardinality({q \in Places : ObjectAt(q).idx = i}) = 1

\* Every two boxes that intersect are candidates, as long as both are inside
\* the world's bounds: nothing is missed on a middle line, across siblings of
\* different depths, or by the nodes that objectQuery skips.
AllPairsFound ==
  calls = <<>> =>
    \A a, b \in Placed :
      (/\ Intersects(a.entry.box, b.entry.box)
       /\ Contains(WorldBounds, a.entry.box)
       /\ Contains(WorldBounds, b.entry.box)) => IsCandidate(a, b)

\* No pair is a candidate twice: what two siblings hold never intersects, even
\* outside of the bounds, so that the comparison of siblings finds nothing.
SiblingsApart ==
  \A a, b \in Placed :
    AcrossSiblings(a, b) => ~Intersects(a.entry.box, b.entry.box)

=============================================================================
