--------------------------- MODULE MCPhysicsWorld ---------------------------
(***************************************************************************)
(* PhysicsWorld for TLC.                                                   *)
(***************************************************************************)
EXTENDS PhysicsWorld

Line1 == {0}

Line2 == 0 .. 1

Line3 == 0 .. 2

=============================================================================
