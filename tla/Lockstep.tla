------------------------------ MODULE Lockstep ------------------------------
(***************************************************************************)
(* What rollback netcode promises: as far as confirmed frames go, the game *)
(* is a lockstep simulation.  A frame is simulated once every player's     *)
(* input for it has arrived, in frame order, with exactly those inputs.    *)
(* Prediction, rollback and the sliding window are invisible here.         *)
(*                                                                         *)
(* A deterministic model's state is determined by the inputs it ticked     *)
(* with, so the simulation is represented by the log of those inputs.      *)
(***************************************************************************)
EXTENDS Integers, Sequences

CONSTANTS Player, Input, MaxFrame

VARIABLES
  truth,    \* what every player enters at every frame
  arrived,  \* the last frame whose input arrived, per player
  log       \* the inputs the simulation ticked with, one vector per frame

vars == <<truth, arrived, log>>

Init ==
  /\ truth \in [Player -> [0 .. MaxFrame -> Input]]
  /\ arrived = [p \in Player |-> -1]
  /\ log = <<>>

Arrive(p) ==
  /\ arrived[p] < MaxFrame
  /\ arrived' = [arrived EXCEPT ![p] = @ + 1]
  /\ UNCHANGED <<truth, log>>

Simulate ==
  /\ \A p \in Player : arrived[p] >= Len(log)
  /\ log' = Append(log, [p \in Player |-> truth[p][Len(log)]])
  /\ UNCHANGED <<truth, arrived>>

Next == Simulate \/ \E p \in Player : Arrive(p)

Spec == Init /\ [][Next]_vars

=============================================================================
