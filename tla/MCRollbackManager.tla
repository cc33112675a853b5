-------------------------- MODULE MCRollbackManager -------------------------
(***************************************************************************)
(* RollbackManager for TLC: the local player and one remote player.        *)
(***************************************************************************)
EXTENDS RollbackManager

=============================================================================
