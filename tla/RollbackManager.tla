--------------------------- MODULE RollbackManager --------------------------
(***************************************************************************)
(* common::RollbackManager (common/include/rollback/rollback_manager.h)    *)
(* and the game that drives it: a confirmed model that ticks only with     *)
(* received inputs, a speculative model that ticks ahead of them, and the  *)
(* InputManager both read.                                                 *)
(*                                                                         *)
(* The repository has no game loop for rollback besides the tests; the     *)
(* driving order here is the one of common/test/test_rollback.cc: store    *)
(* the local input of a frame, tick the speculative model with it, hand    *)
(* packets to set_inputs_from_network, roll back and CleanDirty when       *)
(* is_dirty, ConfirmLastFrame when everyone's input is in.  These steps    *)
(* interleave freely, except that a call is not interrupted.               *)
(*                                                                         *)
(* A model's state is the sequence of input vectors it ticked with: two    *)
(* equal sequences give equal states, whatever the deterministic Tick.     *)
(***************************************************************************)
EXTENDS InputManager, Sequences

CONSTANT
  Local           \* the player whose inputs are entered on this machine

ASSUME LocalAssumption == Local \in Player

VARIABLES
  confirm_model,  \* confirm_game_model_: the inputs it ticked with
  current_model,  \* the speculative model of the game
  current_frame,  \* the last frame the speculative model ticked
  truth           \* what every player really enters at every frame

modelVars == <<confirm_model, current_model, current_frame, truth>>
gameVars == <<vars, modelVars>>

GameInit ==
  /\ Init
  /\ confirm_model = <<>>
  /\ current_model = <<>>
  /\ current_frame = -1
  /\ truth \in [Player -> [Frames -> Input]]

-----------------------------------------------------------------------------
(* The manager. *)

\* inputs(Frame): the input vector of a stored frame; the slot is not checked.
InputsOf(f) == inputs[Index(f)]

\* Faulty ConfirmLastFrame: reads the frame after ConfirmFrame.
ConfirmLastFrameSlidFirst ==
  /\ size > 1
  /\ confirm_model' = Append(confirm_model, InputsOf(last_confirm + 2))
  /\ ConfirmFrame
  /\ UNCHANGED <<current_model, current_frame, truth>>

\* Ticks the confirmed model with the first stored frame and drops the frame.
ConfirmLastFrame ==
  /\ confirm_model' = Append(confirm_model, InputsOf(last_confirm + 1))
  /\ ConfirmFrame
  /\ UNCHANGED <<current_model, current_frame, truth>>

\* The stored frames that follow the confirmed ones, up to current_frame.
Resimulated ==
  [i \in 1 .. current_frame - last_confirm |-> InputsOf(last_confirm + i)]

RollbackAndResimulate ==
  /\ current_model' = confirm_model \o Resimulated
  /\ UNCHANGED <<confirm_model, current_frame, truth>>

-----------------------------------------------------------------------------
(* The game. *)

\* The local player's next input.  A game that is MaxInputHistory frames
\* ahead of the confirmed one waits, since set_input would throw.
SetLocalInput ==
  LET f == current_frame + 1
  IN  /\ f <= MaxFrame
      /\ last_received[Local] = current_frame
      /\ current_frame - last_confirm < MaxInputHistory
      /\ set_input(Local, truth[Local][f], f)
      /\ UNCHANGED modelVars

SpeculativeTick ==
  /\ Idle
  /\ last_received[Local] = current_frame + 1
  /\ current_model' = Append(current_model, InputsOf(current_frame + 1))
  /\ current_frame' = current_frame + 1
  /\ UNCHANGED <<vars, confirm_model, truth>>

\* A packet with the true inputs of first .. last of a remote player, which
\* leaves no gap after what was received and holds no confirmed frame.
ReceivePacket(p, first, last) ==
  /\ p # Local
  /\ last_confirm < first
  /\ first <= last_received[p] + 1
  /\ set_inputs_from_network(p, first, last, truth[p])
  /\ UNCHANGED modelVars

StorePacketInput ==
  /\ ApplyNetworkInput
  /\ UNCHANGED modelVars

\* Faulty FitsHistory, off by one.
FitsHistoryAndOne(last) == last <= last_confirm + MaxInputHistory + 1

\* Packets past the capacity of the window are held back.
FitsHistory(last) == last <= last_confirm + MaxInputHistory

\* Faulty Confirm: a player's input for the frame may be missing.
ConfirmEarly ==
  /\ last_confirm < current_frame
  /\ \A p \in Player : last_received[p] >= last_confirm
  /\ ConfirmLastFrame

\* Faulty Confirm: the frame may not be simulated yet.
ConfirmUnsimulated ==
  /\ \A p \in Player : last_received[p] > last_confirm
  /\ ConfirmLastFrame

\* Faulty Confirm: waits for the inputs of one frame more.
ConfirmLate ==
  /\ last_confirm < current_frame
  /\ \A p \in Player : last_received[p] > last_confirm + 1
  /\ ConfirmLastFrame

\* A simulated frame is confirmed once every player's input for it is in.
Confirm ==
  /\ last_confirm < current_frame
  /\ \A p \in Player : last_received[p] > last_confirm
  /\ ConfirmLastFrame

\* Faulty Rollback: cleans without resimulating.
RollbackCleaningOnly ==
  /\ is_dirty
  /\ CleanDirty
  /\ UNCHANGED modelVars

Rollback ==
  /\ is_dirty
  /\ RollbackAndResimulate
  /\ CleanDirty

GameStep == SetLocalInput \/ SpeculativeTick \/ StorePacketInput \/ Confirm \/ Rollback

GameNext ==
  \/ GameStep
  \/ \E p \in Player, first, last \in Frames :
       FitsHistory(last) /\ ReceivePacket(p, first, last)

GameSpec == GameInit /\ [][GameNext]_gameVars

\* The game never confirms the only frame left in the window.
KeepsOneFrame == last_confirm' # last_confirm => size > 1

\* A game that hands every packet to the manager and lives with the throw.
UncheckedNext ==
  \/ GameStep
  \/ \E p \in Player, first, last \in Frames : ReceivePacket(p, first, last)

UncheckedSpec == GameInit /\ [][UncheckedNext /\ KeepsOneFrame]_gameVars

\* A packet with inputs of p that have not been received yet.
NewPacket(p) ==
  \E first, last \in Frames :
    last > last_received[p] /\ FitsHistory(last) /\ ReceivePacket(p, first, last)

\* The engine's loop comes back to each step of the game in every iteration
\* (strong fairness: a step is possible only between two calls), and a call
\* in progress goes on.  The network delivers: what a player entered keeps
\* being sent until it arrives.
Fairness ==
  /\ WF_gameVars(StorePacketInput)
  /\ SF_gameVars(SetLocalInput) /\ SF_gameVars(SpeculativeTick)
  /\ SF_gameVars(Confirm) /\ SF_gameVars(Rollback)
  /\ \A p \in Player : SF_gameVars(NewPacket(p))

FairSpec == GameSpec /\ Fairness

-----------------------------------------------------------------------------
(* Properties. *)

\* Every variable has its type.
GameTypeOK ==
  /\ TypeOK
  /\ confirm_model \in Seq(InputVector)
  /\ current_model \in Seq(InputVector)
  /\ current_frame \in Frames \cup {-1}
  /\ truth \in [Player -> [Frames -> Input]]

\* The inputs the manager holds for frame f: those it ticked the confirmed
\* model with, then those of the window.
HeldInputs(f) ==
  IF f <= last_confirm THEN confirm_model[f + 1] ELSE InputsOf(f)

\* No stale speculation: when is_dirty is false, the speculative model ticked
\* every frame with the inputs the manager now holds for it, so skipping the
\* rollback is right.  Each correction, slide and resize must keep it so.
CleanMeansInSync ==
  /\ Len(current_model) = current_frame + 1
  /\ ~is_dirty => \A f \in 0 .. current_frame : current_model[f + 1] = HeldInputs(f)

\* Confirmed is final: the confirmed model ticked frame f exactly once, in
\* order, with what every player really entered at f.
ConfirmedInputsReal ==
  /\ Len(confirm_model) = last_confirm + 1
  /\ \A f \in 0 .. last_confirm : \A p \in Player :
       confirm_model[f + 1][p] = truth[p][f]

\* ConfirmLastFrame and RollbackAndResimulate, which do not check the slots
\* they read, only ever read slots inside the vector.
ReadsInBounds ==
  /\ last_confirm <= current_frame
  /\ current_frame - last_confirm <= size
  /\ last_received[Local] - last_confirm <= size

\* Frame f of player p has been received: the window holds what p entered.
\* With the two invariants that follow, it makes the three above inductive.
WindowGenuine ==
  \A p \in Player :
    /\ last_received[p] - last_confirm <= size
    /\ \A f \in Frames : last_confirm < f /\ f <= last_received[p]
         => InputsOf(f)[p] = truth[p][f]

\* The packet being stored is a genuine one of a remote player, fits the
\* window and leaves no gap.
CallGenuine ==
  ~Idle => /\ call.player # Local
           /\ last_confirm < call.frame
           /\ call.frame <= last_received[call.player] + 1
           /\ call.last <= last_confirm + MaxInputHistory
           /\ \A f \in Frames : call.frame <= f /\ f <= call.last
                => call.values[f] = truth[call.player][f]

\* The local player is at most one frame ahead of the simulation.
LocalLeads ==
  /\ last_received[Local] \in {current_frame, current_frame + 1}
  /\ current_frame - last_confirm <= MaxInputHistory

\* The inductive invariant.
SafetyInvariant ==
  /\ GameTypeOK
  /\ SpeculationUniform
  /\ WindowGenuine
  /\ CallGenuine
  /\ LocalLeads
  /\ ReadsInBounds
  /\ ConfirmedInputsReal
  /\ CleanMeansInSync

\* input_manager.h:87-89 says of set_input that it "propagates the input
\* forward as speculative input for all subsequent stored frames": a stored
\* frame that player p has not sent yet repeats the last input p sent.
PredictionIsLatestInput ==
  \A p \in Player : \A i \in 0 .. size - 1 :
    FrameAt(i) > last_received[p]
      => inputs[i][p] = IF last_received[p] = -1 THEN DefaultInput
                                                 ELSE truth[p][last_received[p]]

LS == INSTANCE Lockstep WITH arrived <- last_received, log <- confirm_model

\* The confirmed model is a lockstep simulation of the players' inputs.
ImplementsLockstep == LS!Spec

\* The game neither stalls on a full window nor waits for a player forever:
\* every frame is confirmed in the end.
EveryFrameConfirmed == <>(last_confirm = MaxFrame)

\* What the player sees is right in the end: with the inputs all in, the
\* speculative model settles on the simulation of the true inputs, even if
\* every prediction on the way was wrong.
SpeculationConverges ==
  <>[](/\ current_frame = MaxFrame
       /\ \A f \in Frames : current_model[f + 1] = [p \in Player |-> truth[p][f]])

=============================================================================
