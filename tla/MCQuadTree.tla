----------------------------- MODULE MCQuadTree -----------------------------
(***************************************************************************)
(* QuadTree for TLC: boxes in the quarters of a world of 8 by 8, on its    *)
(* middle lines, on those of a quarter, and across its border.             *)
(***************************************************************************)
EXTENDS QuadTree

MCBounds == [x1 |-> 0, y1 |-> 0, x2 |-> 8, y2 |-> 8]

AABB(x1, y1, x2, y2) == [x1 |-> x1, y1 |-> y1, x2 |-> x2, y2 |-> y2]

MCBox ==
  {AABB(0, 0, 1, 1), AABB(1, 1, 3, 3), AABB(3, 3, 3, 3), AABB(1, 0, 4, 1), AABB(4, 0, 5, 1),
   AABB(3, 3, 9, 9), AABB(2, 2, 8, 8), AABB(9, 1, 11, 5)}

=============================================================================
