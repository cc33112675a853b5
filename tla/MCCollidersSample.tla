-------------------------- MODULE MCCollidersSample -------------------------
(***************************************************************************)
(* CollidersSample for TLC.                                                *)
(***************************************************************************)
EXTENDS CollidersSample

Line2 == 0 .. 1

=============================================================================
