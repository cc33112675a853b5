---------------------------- MODULE InputManager ----------------------------
(***************************************************************************)
(* common::InputManager (common/include/rollback/input_manager.h): the     *)
(* sliding window of per-frame, per-player inputs that rollback netcode    *)
(* speculates on.                                                          *)
(*                                                                         *)
(* The module is open: any caller may call any operation at any frame up   *)
(* to MaxFrame, in any order.  What a disciplined caller does with it is   *)
(* module RollbackManager.                                                 *)
(*                                                                         *)
(* set_inputs_from_network is a loop that calls set_input once per frame   *)
(* of the packet and may leave by an exception between two frames, so a    *)
(* call in progress is kept in `call' and each iteration is a step; every  *)
(* other operation waits for the call to return (the class is used from    *)
(* one thread).                                                            *)
(***************************************************************************)
EXTENDS Integers

CONSTANTS
  Player,           \* player numbers, 0 .. kMaxPlayerCount - 1 in the code
  Input,            \* InputT
  DefaultInput,     \* InputT{}
  MaxInputHistory,  \* kMaxInputHistory
  MaxFrame,         \* bound: the largest frame number a caller uses
  SizeMod,          \* 2^64, the modulus of size_t, scaled down
  NoCall            \* no set_inputs_from_network call is in progress

Frames == 0 .. MaxFrame

InputVector == [Player -> Input]

\* A call in progress: the frames frame .. last are still to be stored.
Call == [player : Player, frame : Frames, last : Frames, values : [Frames -> Input]]

ASSUME InputAssumption ==
  /\ Player # {}
  /\ DefaultInput \in Input
  /\ MaxInputHistory \in Nat \ {0}
  /\ MaxFrame \in Nat
  /\ SizeMod \in Nat
  /\ SizeMod > MaxInputHistory + MaxFrame + 1
  /\ NoCall \notin Call

VARIABLES
  inputs,         \* inputs_: the stored frames, a vector indexed from 0
  size,           \* inputs_.size()
  last_received,  \* input_metadata_[p].last_received_frame
  is_valid,       \* input_metadata_[p].is_valid
  last_confirm,   \* last_confirm_frame_
  is_dirty,       \* is_dirty_
  call            \* the set_inputs_from_network call in progress

vars == <<inputs, size, last_received, is_valid, last_confirm, is_dirty, call>>

-----------------------------------------------------------------------------
(* Reading the history. *)

\* static_cast<size_t> of a signed frame number or difference.
AsSize(n) == IF n < 0 THEN n + SizeMod ELSE n

\* index(): the slot of a frame.  A confirmed frame wraps to a huge slot.
Index(f) == AsSize(f - (last_confirm + 1))

\* inputs_.back().  On an empty vector the read is undefined: it yields
\* whatever lies in memory, which the caller of this operator chooses (junk).
Back(junk) == IF size = 0 THEN junk ELSE inputs[size - 1]

\* input(): the stored input, or the last stored one beyond the history.
InputAt(p, f, junk) ==
  IF Index(f) >= size THEN Back(junk)[p] ELSE inputs[Index(f)][p]

\* last_received_frame(): the fold starts from Frame(-1), whose index() is
\* the largest size_t, and compares as size_t.
LastReceivedFrame ==
  LET smaller == {p \in Player : is_valid[p] /\ AsSize(-1) > AsSize(last_received[p])}
  IN  IF smaller = {} THEN -1
      ELSE last_received[CHOOSE p \in smaller :
                           \A q \in smaller : last_received[p] <= last_received[q]]

-----------------------------------------------------------------------------
Idle == call = NoCall

Init ==
  /\ size = MaxInputHistory
  /\ inputs = [i \in 0 .. MaxInputHistory - 1 |-> [p \in Player |-> DefaultInput]]
  /\ last_received = [p \in Player |-> -1]
  /\ is_valid = [p \in Player |-> FALSE]
  /\ last_confirm = -1
  /\ is_dirty = FALSE
  /\ call = NoCall

-----------------------------------------------------------------------------
(* Operations. *)

\* A frame newer than every frame received from p.
IsLatest(p, f) == last_received[p] < f

\* set_input throws "Over-capacity of the input history".
OverCapacity(f) == Index(f) >= MaxInputHistory

\* Faulty NoteReceived, on a copy of the metadata instead of a reference.
NoteReceivedOnCopy(p, f) == UNCHANGED last_received

\* The first half of set_input: the frame counts as received, even if the
\* call goes on to throw.
NoteReceived(p, f) ==
  last_received' = [last_received EXCEPT ![p] = IF IsLatest(p, f) THEN f ELSE @]

\* Faulty RoomFor: grows by the capacity instead of to it.
RoomForGrowingBy(f) == IF Index(f) >= size THEN size + MaxInputHistory ELSE size

\* The size of the vector after set_input made room for frame f.
RoomFor(f) == IF Index(f) >= size THEN MaxInputHistory ELSE size

\* The second half: make room, write the slot, speculate on a newer input.
Store(p, v, f, junk) ==
  /\ size' = RoomFor(f)
  /\ inputs' = [i \in 0 .. RoomFor(f) - 1 |->
                 [q \in Player |->
                   IF q = p /\ (i = Index(f) \/ (IsLatest(p, f) /\ i > Index(f)))
                     THEN v
                     ELSE IF i < size THEN inputs[i][q] ELSE Back(junk)[q]]]

\* The body of set_input, up to its return or its throw.
ReceiveInput(p, v, f, junk) ==
  /\ NoteReceived(p, f)
  /\ \/ OverCapacity(f) /\ UNCHANGED <<inputs, size>>
     \/ ~OverCapacity(f) /\ Store(p, v, f, junk)

set_input(p, v, f) ==
  /\ Idle
  /\ \E junk \in InputVector : ReceiveInput(p, v, f, junk)
  /\ UNCHANGED <<is_valid, last_confirm, is_dirty, call>>

\* set_inputs_from_network is called with the inputs of first .. last.
set_inputs_from_network(p, first, last, values) ==
  /\ Idle
  /\ first <= last
  /\ call' = [player |-> p, frame |-> first, last |-> last,
              values |-> [f \in Frames |->
                            IF f \in first .. last THEN values[f] ELSE DefaultInput]]
  /\ UNCHANGED <<inputs, size, last_received, is_valid, last_confirm, is_dirty>>

\* Faulty ApplyNetworkInput: compares with what set_input has just stored.
ApplyNetworkInputComparingLate ==
  \E p \in Player, f \in Frames, junk \in InputVector :
    LET v == call.values[f]
    IN  /\ ~Idle
        /\ p = call.player /\ f = call.frame
        /\ ReceiveInput(p, v, f, junk)
        /\ call' = IF OverCapacity(f) \/ f = call.last
                     THEN NoCall
                     ELSE [call EXCEPT !.frame = f + 1]
        /\ UNCHANGED <<is_valid, last_confirm>>
        /\ is_dirty' = (is_dirty \/ (~OverCapacity(f) /\ inputs'[Index(f)][p] # v))

\* One iteration of its loop.  The call ends after its last frame or when
\* set_input throws; the block after the loop never runs, since by then
\* last_received is at least the last frame of the packet.
ApplyNetworkInput ==
  LET p == call.player
      f == call.frame
      v == call.values[f]
  IN  /\ ~Idle
      /\ \E junk \in InputVector :
           /\ is_dirty' = (is_dirty \/ InputAt(p, f, junk) # v)
           /\ ReceiveInput(p, v, f, junk)
      /\ call' = IF OverCapacity(f) \/ f = call.last
                   THEN NoCall
                   ELSE [call EXCEPT !.frame = f + 1]
      /\ UNCHANGED <<is_valid, last_confirm>>

\* Faulty ConfirmFrame, with pop_back.
ConfirmFramePoppingBack ==
  /\ Idle
  /\ size > 0
  /\ size' = size - 1
  /\ inputs' = [i \in 0 .. size - 2 |-> inputs[i]]
  /\ last_confirm' = last_confirm + 1
  /\ UNCHANGED <<last_received, is_valid, is_dirty, call>>

\* ConfirmFrame erases the first stored frame (undefined on an empty vector).
ConfirmFrame ==
  /\ Idle
  /\ size > 0
  /\ size' = size - 1
  /\ inputs' = [i \in 0 .. size - 2 |-> inputs[i + 1]]
  /\ last_confirm' = last_confirm + 1
  /\ UNCHANGED <<last_received, is_valid, is_dirty, call>>

CleanDirty ==
  /\ Idle
  /\ is_dirty' = FALSE
  /\ UNCHANGED <<inputs, size, last_received, is_valid, last_confirm, call>>

set_valid(p, valid) ==
  /\ Idle
  /\ is_valid' = [is_valid EXCEPT ![p] = valid]
  /\ UNCHANGED <<inputs, size, last_received, last_confirm, is_dirty, call>>

-----------------------------------------------------------------------------
Next ==
  \/ \E p \in Player, v \in Input, f \in Frames : set_input(p, v, f)
  \/ \E p \in Player, first, last \in Frames :
       \E values \in [first .. last -> Input] :
         set_inputs_from_network(p, first, last, values)
  \/ ApplyNetworkInput
  \/ last_confirm < MaxFrame /\ ConfirmFrame
  \/ CleanDirty
  \/ \E p \in Player, valid \in BOOLEAN : set_valid(p, valid)

Spec == Init /\ [][Next]_vars

-----------------------------------------------------------------------------
(* Properties. *)

\* Every variable has its type; the vector never outgrows its capacity, so
\* resize() never reallocates (the comment at input_manager.h:107).
TypeOK ==
  /\ size \in 0 .. MaxInputHistory
  /\ inputs \in [0 .. size - 1 -> InputVector]
  /\ last_received \in [Player -> Frames \cup {-1}]
  /\ is_valid \in [Player -> BOOLEAN]
  /\ last_confirm \in Frames \cup {-1}
  /\ is_dirty \in BOOLEAN
  /\ call \in Call \cup {NoCall}
  /\ ~Idle => call.frame <= call.last

\* The frame stored in a slot.
FrameAt(i) == last_confirm + 1 + i

\* What a player is predicted to do is one input: all stored frames newer
\* than the last one received hold the same value, whatever the order of
\* late, early, repeated and refused inputs, confirmations and resizes.
\* Detecting a misprediction by comparing one frame only, as
\* set_inputs_from_network does, is sound because of it.
SpeculationUniform ==
  \A p \in Player : \A i, j \in 0 .. size - 1 :
    FrameAt(i) > last_received[p] /\ FrameAt(j) > last_received[p]
      => inputs[i][p] = inputs[j][p]

\* What input() returns on a history that is not empty.
Read(p, f) == InputAt(p, f, [q \in Player |-> DefaultInput])

\* An input from the network that changes what any unconfirmed frame reads
\* as, of any player, in the window or beyond it, leaves the manager dirty:
\* no misprediction goes unnoticed.
DirtyDetectsChange ==
  [][ ApplyNetworkInput /\ size > 0
        /\ (\E p \in Player, f \in Frames : f > last_confirm /\ Read(p, f)' # Read(p, f))
      => is_dirty' ]_vars

\* The current step stores an input of player p at frame f.
StoresAt(p, f) ==
  \/ \E v \in Input : set_input(p, v, f)
  \/ ApplyNetworkInput /\ call.player = p /\ call.frame = f

\* The past stays put: what an unconfirmed frame reads as changes only when
\* an input of that very player is stored at that frame or an earlier one.
\* Sliding the window (ConfirmFrame) and refilling it (resize) change none.
InputsChangeForward ==
  [][ \A p \in Player, f \in Frames :
        f > last_confirm' /\ size > 0 /\ size' > 0 /\ Read(p, f)' # Read(p, f)
          => \E g \in Frames : g <= f /\ StoresAt(p, g) ]_vars

\* input_manager.h:87-89 says of set_input: "If this is the latest received
\* frame for that player, propagates the input forward as speculative input
\* for all subsequent stored frames."
SpeculationFollowsLatest ==
  \A p \in Player : \A i, j \in 0 .. size - 1 :
    FrameAt(i) = last_received[p] /\ i <= j => inputs[j][p] = inputs[i][p]

=============================================================================
