--------------------------- MODULE MCInputManager ---------------------------
(***************************************************************************)
(* InputManager for TLC: two players, two input values.                    *)
(***************************************************************************)
EXTENDS InputManager, TLC

\* The players are interchangeable.
Symmetry == Permutations(Player)

=============================================================================
