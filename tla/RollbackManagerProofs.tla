------------------------ MODULE RollbackManagerProofs -----------------------
(***************************************************************************)
(* Proofs about RollbackManager, for every number of players, every window *)
(* and every frame bound: the safety invariant is inductive, and the       *)
(* confirmed model is a lockstep simulation.                               *)
(***************************************************************************)
EXTENDS RollbackManager, InputManagerProofs

\* A stored frame has a slot in the window.
LEMMA StoredFrame ==
  ASSUME TypeOK, NEW f \in Frames, f > last_confirm, f - last_confirm <= size
  PROVE  /\ Index(f) = f - last_confirm - 1
         /\ Index(f) \in 0 .. size - 1
         /\ InputsOf(f) = inputs[Index(f)]
         /\ InputsOf(f) \in InputVector
<1>1. Index(f) = f - last_confirm - 1
  BY IndexRange
<1>2. Index(f) \in 0 .. size - 1
  BY <1>1, InputAssumption DEF TypeOK, Frames
<1> QED BY <1>1, <1>2 DEF InputsOf, TypeOK

\* The same in the state after the step.
LEMMA StoredFramePrimed ==
  ASSUME TypeOK', UNCHANGED last_confirm,
         TypeOK, NEW f \in Frames, f > last_confirm, f - last_confirm <= size, size <= size'
  PROVE  InputsOf(f)' \in InputVector
<1>1. Index(f)' = Index(f) /\ Index(f) \in 0 .. size' - 1
  BY StoredFrame, InputAssumption DEF Index, TypeOK
<1> QED BY <1>1 DEF InputsOf, TypeOK

\* Every step of the game is a step of the manager, or leaves it alone.
LEMMA ManagerStep ==
  ASSUME GameTypeOK, GameNext
  PROVE  [Next]_vars
<1> USE DEF GameTypeOK
<1>1. ASSUME SetLocalInput PROVE Next
  <2> DEFINE f == current_frame + 1
  <2>1. f \in Frames /\ truth[Local][f] \in Input /\ set_input(Local, truth[Local][f], f)
    BY <1>1, InputAssumption, LocalAssumption DEF SetLocalInput, Frames
  <2> QED BY <2>1, LocalAssumption DEF Next
<1>2. ASSUME NEW p \in Player, NEW first \in Frames, NEW last \in Frames,
             ReceivePacket(p, first, last)
      PROVE  Next
  <2> DEFINE values == [f \in first .. last |-> truth[p][f]]
  <2>1. first .. last \subseteq Frames
    BY InputAssumption DEF Frames
  <2>2. values \in [first .. last -> Input]
    BY <2>1
  <2>3. \A f \in Frames : f \in first .. last => values[f] = truth[p][f]
    OBVIOUS
  <2> HIDE DEF values
  <2>4. set_inputs_from_network(p, first, last, values)
    BY <1>2, <2>3 DEF ReceivePacket, set_inputs_from_network
  <2> QED BY <2>2, <2>4 DEF Next
<1>3. ASSUME Confirm PROVE Next
  BY <1>3, InputAssumption DEF Confirm, ConfirmLastFrame, Next, TypeOK, Frames
<1> QED BY <1>1, <1>2, <1>3
        DEF GameNext, GameStep, StorePacketInput, SpeculativeTick, Rollback, Next

\* A step fills the slot of frame f for player p with v, and leaves alone the
\* other players' slots and those of the other frames received already.
FillsSlot(p, v, f) ==
  /\ size' \in Int /\ size <= size' /\ f - last_confirm <= size'
  /\ last_received' = [last_received EXCEPT ![p] = IF last_received[p] < f THEN f ELSE @]
  /\ InputsOf(f)'[p] = v
  /\ \A q \in Player, g \in Frames :
       /\ last_confirm < g /\ g - last_confirm <= size
       /\ q # p \/ g < f \/ (g # f /\ g <= last_received[p])
       => InputsOf(g)'[q] = InputsOf(g)[q]

\* Storing an input that leaves no gap does.
LEMMA StoreFillsSlot ==
  ASSUME TypeOK, NEW p \in Player, NEW v \in Input, NEW f \in Frames,
         NEW junk \in InputVector, ReceiveInput(p, v, f, junk),
         last_confirm' = last_confirm, last_confirm < f,
         f - last_confirm <= MaxInputHistory,
         f <= last_received[p] + 1, last_received[p] - last_confirm <= size
  PROVE  FillsSlot(p, v, f)
<1>1. /\ f \in Int /\ last_confirm \in Int /\ size \in Int /\ MaxInputHistory \in Int
      /\ last_received[p] \in Int
  BY InputAssumption DEF TypeOK, Frames
<1>2. Index(f) = f - last_confirm - 1
  BY IndexRange
<1>3. ~OverCapacity(f)
  BY <1>1, <1>2 DEF OverCapacity
<1>4. Store(p, v, f, junk) /\ NoteReceived(p, f)
  BY <1>3 DEF ReceiveInput
<1>5. size' = RoomFor(f) /\ size' \in Int /\ size <= size' /\ f - last_confirm <= size'
  BY <1>1, <1>2, <1>4 DEF Store, RoomFor, TypeOK
<1>6. last_received' = [last_received EXCEPT ![p] = IF last_received[p] < f THEN f ELSE @]
  BY <1>4 DEF NoteReceived, IsLatest
<1>7. \A g \in Frames : InputsOf(g)' = inputs'[Index(g)]
  BY DEF InputsOf, Index
<1>8. \A k \in 0 .. size' - 1, q \in Player :
        inputs'[k][q] = IF q = p /\ (k = Index(f) \/ (IsLatest(p, f) /\ k > Index(f)))
                          THEN v ELSE IF k < size THEN inputs[k][q] ELSE Back(junk)[q]
  BY <1>4, <1>5 DEF Store
<1>9. InputsOf(f)'[p] = v
  BY <1>1, <1>2, <1>5, <1>7, <1>8
<1>10. ASSUME NEW q \in Player, NEW g \in Frames, last_confirm < g, g - last_confirm <= size,
              q # p \/ g < f \/ (g # f /\ g <= last_received[p])
       PROVE  InputsOf(g)'[q] = InputsOf(g)[q]
  <2>1. Index(g) = g - last_confirm - 1 /\ Index(g) \in 0 .. size - 1 /\ g \in Int
    BY <1>10, StoredFrame, InputAssumption DEF Frames
  <2>2. Index(g) \in 0 .. size' - 1 /\ Index(g) < size
    BY <1>1, <1>5, <2>1
  <2>3. ~(q = p /\ (Index(g) = Index(f) \/ (IsLatest(p, f) /\ Index(g) > Index(f))))
    BY <1>1, <1>2, <1>10, <2>1 DEF IsLatest
  <2> QED BY <1>7, <1>8, <2>2, <2>3 DEF InputsOf
<1> QED BY <1>5, <1>6, <1>9, <1>10 DEF FillsSlot

\* The manager's own invariants survive every step of the game.
LEMMA ManagerInvariant ==
  ASSUME GameTypeOK, SpeculationUniform, GameNext
  PROVE  TypeOK' /\ SpeculationUniform'
BY ManagerStep, TypeStep, UniformStep DEF GameTypeOK

-----------------------------------------------------------------------------
(* The safety invariant, action by action. *)

\* The numbers the invariant speaks of are integers.
LEMMA FrameNumbers ==
  ASSUME GameTypeOK
  PROVE  /\ last_confirm \in Int /\ last_confirm >= -1 /\ last_confirm <= MaxFrame
         /\ current_frame \in Int /\ current_frame >= -1 /\ current_frame <= MaxFrame
         /\ size \in Int /\ size >= 0 /\ size <= MaxInputHistory
         /\ MaxFrame \in Int /\ MaxInputHistory \in Int /\ MaxInputHistory > 0
         /\ \A p \in Player : last_received[p] \in Int
         /\ \A f : f \in Frames <=> f \in Int /\ 0 <= f /\ f <= MaxFrame
BY InputAssumption DEF GameTypeOK, TypeOK, Frames

\* A new game satisfies the safety invariant.
LEMMA InitSafe ==
  ASSUME GameInit
  PROVE  SafetyInvariant
<1>1. TypeOK
  BY InitType DEF GameInit
<1>2. /\ confirm_model = <<>> /\ current_model = <<>> /\ current_frame = -1
      /\ last_confirm = -1 /\ last_received = [p \in Player |-> -1]
      /\ size = MaxInputHistory /\ is_dirty = FALSE /\ Idle
      /\ truth \in [Player -> [Frames -> Input]]
  BY DEF GameInit, Init, Idle
<1>3. SpeculationUniform
  BY InputAssumption DEF GameInit, Init, SpeculationUniform
<1>4. GameTypeOK
  BY <1>1, <1>2, InputAssumption DEF GameTypeOK
<1>5. WindowGenuine
  <2>1. \A p \in Player : last_received[p] = -1
    BY <1>2
  <2>2. -1 - last_confirm <= size /\ \A f \in Frames : ~(f <= -1)
    BY <1>2, <1>4, FrameNumbers
  <2> QED BY <2>1, <2>2 DEF WindowGenuine
<1>6. CallGenuine
  BY <1>2 DEF CallGenuine
<1>7. LocalLeads /\ ReadsInBounds
  BY <1>2, InputAssumption, LocalAssumption DEF LocalLeads, ReadsInBounds
<1>8. ConfirmedInputsReal /\ CleanMeansInSync
  BY <1>2 DEF ConfirmedInputsReal, CleanMeansInSync
<1> QED BY <1>3, <1>4, <1>5, <1>6, <1>7, <1>8 DEF SafetyInvariant

\* The inputs held for a frame stay when its slot and the confirmed model do.
LEMMA HeldInputsKept ==
  ASSUME TypeOK, TypeOK', last_confirm' = last_confirm, confirm_model' = confirm_model,
         size <= size', NEW g \in Frames,
         g > last_confirm => /\ g - last_confirm <= size
                             /\ \A q \in Player : InputsOf(g)'[q] = InputsOf(g)[q]
  PROVE  HeldInputs(g)' = HeldInputs(g)
<1>1. CASE g <= last_confirm
  BY <1>1 DEF HeldInputs
<1>2. CASE ~(g <= last_confirm)
  <2>1. g > last_confirm
    BY <1>2, InputAssumption DEF TypeOK, Frames
  <2>2. InputsOf(g) \in InputVector
    BY <2>1, StoredFrame
  <2>3. InputsOf(g)' \in InputVector
    BY <2>1, StoredFramePrimed
  <2> QED BY <1>2, <2>1, <2>2, <2>3 DEF HeldInputs, InputVector
<1> QED BY <1>1, <1>2

\* Entering the local input of the next frame stores it in its slot, which
\* the speculative model has not read yet.
LEMMA SetLocalInputSafe ==
  ASSUME SafetyInvariant, SetLocalInput, TypeOK', SpeculationUniform'
  PROVE  SafetyInvariant'
<1> USE DEF SafetyInvariant
<1>1. /\ current_frame + 1 <= MaxFrame /\ last_received[Local] = current_frame
      /\ current_frame - last_confirm < MaxInputHistory
      /\ set_input(Local, truth[Local][current_frame + 1], current_frame + 1)
      /\ UNCHANGED modelVars
  BY DEF SetLocalInput
<1>2. /\ UNCHANGED last_confirm /\ UNCHANGED <<is_dirty, call>>
      /\ UNCHANGED <<confirm_model, current_model, current_frame, truth>>
  BY <1>1 DEF set_input, modelVars
<1>3. PICK f \in Frames : f = current_frame + 1
  BY <1>1, FrameNumbers
<1>4. PICK v \in Input : v = truth[Local][f]
  BY LocalAssumption DEF GameTypeOK
<1>5. /\ f \in Int /\ last_confirm < f /\ f - last_confirm <= MaxInputHistory
      /\ f <= last_received[Local] + 1
      /\ Local \in Player /\ last_received[Local] - last_confirm <= size
  BY <1>1, <1>3, FrameNumbers, LocalAssumption DEF ReadsInBounds, WindowGenuine
<1>6. FillsSlot(Local, v, f)
  <2>1. PICK junk \in InputVector : ReceiveInput(Local, v, f, junk)
    BY <1>1, <1>3, <1>4 DEF set_input
  <2>2. TypeOK
    BY DEF GameTypeOK
  <2> HIDE DEF SafetyInvariant
  <2> QED BY <1>2, <1>5, <2>1, <2>2, StoreFillsSlot
<1>7. last_received' = [last_received EXCEPT ![Local] = f]
  <2>1. last_received[Local] < f
    BY <1>1, <1>3, FrameNumbers
  <2> QED BY <1>6, <2>1 DEF FillsSlot
<1>8. GameTypeOK'
  BY <1>2 DEF GameTypeOK
<1>9. WindowGenuine'
  <2> SUFFICES ASSUME NEW p \in Player
               PROVE  /\ last_received'[p] - last_confirm <= size'
                      /\ \A g \in Frames : last_confirm < g /\ g <= last_received'[p]
                           => InputsOf(g)'[p] = truth[p][g]
    BY <1>2 DEF WindowGenuine
  <2>1. CASE p # Local
    <3>1. last_received'[p] = last_received[p]
      BY <1>7, <2>1 DEF GameTypeOK, TypeOK
    <3> QED BY <1>6, <2>1, <3>1, FrameNumbers DEF WindowGenuine, FillsSlot
  <2>2. CASE p = Local
    <3>1. last_received'[p] = f
      BY <1>5, <1>7, <2>2 DEF GameTypeOK, TypeOK
    <3>2. last_received[p] - last_confirm <= size /\ last_received[p] = f - 1
      BY <1>1, <1>3, <1>5, <2>2, FrameNumbers
    <3>3. ASSUME NEW g \in Frames, last_confirm < g, g < f
          PROVE  InputsOf(g)'[p] = truth[p][g]
      BY <1>5, <1>6, <2>2, <3>2, <3>3, FrameNumbers DEF WindowGenuine, FillsSlot
    <3>4. InputsOf(f)'[p] = truth[p][f]
      BY <1>4, <1>6, <2>2 DEF FillsSlot
    <3>5. last_received'[p] - last_confirm <= size'
      BY <1>6, <3>1 DEF FillsSlot
    <3>6. ASSUME NEW g \in Frames, last_confirm < g, g <= last_received'[p]
          PROVE  InputsOf(g)'[p] = truth[p][g]
      <4>1. g < f \/ g = f
        BY <1>5, <3>1, <3>6, FrameNumbers
      <4> QED BY <3>3, <3>4, <3>6, <4>1
    <3> QED BY <3>5, <3>6
  <2> QED BY <2>1, <2>2
<1>10. CallGenuine'
  <2>1. Idle
    BY <1>1 DEF set_input
  <2> QED BY <1>2, <2>1 DEF CallGenuine, Idle
<1>11. LocalLeads' /\ ReadsInBounds'
  <2>1. last_received'[Local] = f
    BY <1>5, <1>7 DEF GameTypeOK, TypeOK
  <2> QED BY <1>1, <1>2, <1>3, <1>6, <2>1, FrameNumbers DEF LocalLeads, ReadsInBounds, FillsSlot
<1>12. ConfirmedInputsReal'
  BY <1>2 DEF ConfirmedInputsReal
<1>13. CleanMeansInSync'
  <2>1. ASSUME NEW g \in 0 .. current_frame PROVE HeldInputs(g)' = HeldInputs(g)
    <3>1. g \in Frames
      BY FrameNumbers
    <3>2. ASSUME g > last_confirm
          PROVE  g - last_confirm <= size /\ \A q \in Player : InputsOf(g)'[q] = InputsOf(g)[q]
      <4>1. g - last_confirm <= size /\ g < f
        BY <1>1, <1>3, <3>2, FrameNumbers DEF ReadsInBounds
      <4> QED BY <1>6, <3>1, <3>2, <4>1 DEF FillsSlot
    <3> QED BY <1>2, <1>6, <3>1, <3>2, HeldInputsKept DEF GameTypeOK, FillsSlot
  <2> QED BY <1>2, <2>1 DEF CleanMeansInSync
<1> QED BY <1>8, <1>9, <1>10, <1>11, <1>12, <1>13

\* Ticking the speculative model reads a stored frame, the one after the last.
LEMMA SpeculativeTickSafe ==
  ASSUME SafetyInvariant, SpeculativeTick, TypeOK', SpeculationUniform'
  PROVE  SafetyInvariant'
<1> USE DEF SafetyInvariant
<1>1. /\ last_received[Local] = current_frame + 1
      /\ current_model' = Append(current_model, InputsOf(current_frame + 1))
      /\ current_frame' = current_frame + 1
      /\ UNCHANGED <<vars, confirm_model, truth>>
  BY DEF SpeculativeTick
<1>2. UNCHANGED <<inputs, size, last_received, is_valid, last_confirm, is_dirty, call>>
  BY <1>1 DEF vars
<1>3. PICK f \in Frames : f = current_frame + 1
  BY <1>1, FrameNumbers, LocalAssumption DEF GameTypeOK, TypeOK
<1>4. f > last_confirm /\ f - last_confirm <= size
  BY <1>1, <1>3, FrameNumbers, LocalAssumption DEF ReadsInBounds, WindowGenuine
<1>5. InputsOf(f) \in InputVector
  BY <1>4, StoredFrame DEF GameTypeOK
<1>6. GameTypeOK'
  BY <1>1, <1>3, <1>5 DEF GameTypeOK
<1>7. \A g \in Frames : InputsOf(g)' = InputsOf(g)
  BY <1>2 DEF InputsOf, Index
<1>8. WindowGenuine'
  BY <1>1, <1>2, <1>7 DEF WindowGenuine
<1>9. CallGenuine'
  BY <1>1, <1>2 DEF CallGenuine, Idle
<1>10. LocalLeads' /\ ReadsInBounds'
  BY <1>1, <1>2, <1>3, <1>4, FrameNumbers DEF LocalLeads, ReadsInBounds
<1>11. ConfirmedInputsReal'
  BY <1>1, <1>2 DEF ConfirmedInputsReal
<1>12. CleanMeansInSync'
  <2>1. current_model \in Seq(InputVector) /\ Len(current_model) = f
    BY <1>3 DEF GameTypeOK, CleanMeansInSync
  <2>2. current_model' = Append(current_model, InputsOf(f))
    BY <1>1, <1>3
  <2>3. Len(current_model') = f + 1 /\ current_model'[f + 1] = InputsOf(f)
    BY <1>5, <2>1, <2>2
  <2>4. \A g \in 0 .. current_frame : current_model'[g + 1] = current_model[g + 1]
    BY <1>3, <1>5, <2>1, <2>2, FrameNumbers
  <2>5. \A g \in Frames : HeldInputs(g)' = HeldInputs(g)
    BY <1>1, <1>2, <1>7 DEF HeldInputs
  <2>6. HeldInputs(f) = InputsOf(f)
    BY <1>3, <1>4, FrameNumbers DEF HeldInputs
  <2>7. ASSUME ~is_dirty', NEW g \in 0 .. current_frame'
        PROVE  current_model'[g + 1] = HeldInputs(g)'
    <3>1. g \in Frames /\ (g = f \/ g \in 0 .. current_frame)
      BY <1>1, <1>3, FrameNumbers
    <3>2. CASE g = f
      BY <2>3, <2>5, <2>6, <3>2
    <3>3. CASE g \in 0 .. current_frame
      BY <1>2, <2>4, <2>5, <2>7, <3>1, <3>3 DEF CleanMeansInSync
    <3> QED BY <3>1, <3>2, <3>3
  <2> QED BY <1>1, <1>3, <2>3, <2>7 DEF CleanMeansInSync
<1> QED BY <1>6, <1>8, <1>9, <1>10, <1>11, <1>12

\* Receiving a packet only starts a call, on genuine inputs.
LEMMA ReceivePacketSafe ==
  ASSUME SafetyInvariant, TypeOK', SpeculationUniform',
         NEW p \in Player, NEW first \in Frames, NEW last \in Frames,
         FitsHistory(last), ReceivePacket(p, first, last)
  PROVE  SafetyInvariant'
<1> USE DEF SafetyInvariant
<1>1. /\ UNCHANGED <<inputs, size, last_received, is_valid, last_confirm, is_dirty>>
      /\ UNCHANGED <<confirm_model, current_model, current_frame, truth>>
  BY DEF ReceivePacket, set_inputs_from_network, modelVars
<1>2. \A g \in Frames : InputsOf(g)' = InputsOf(g)
  BY <1>1 DEF InputsOf, Index
<1>3. GameTypeOK'
  BY <1>1 DEF GameTypeOK
<1>4. WindowGenuine'
  BY <1>1, <1>2 DEF WindowGenuine
<1>5. CallGenuine'
  <2>1. /\ call'.player = p /\ call'.frame = first /\ call'.last = last
        /\ \A f \in Frames : f \in first .. last => call'.values[f] = truth[p][f]
    BY DEF ReceivePacket, set_inputs_from_network
  <2>2. \A f \in Frames : first <= f /\ f <= last => f \in first .. last
    BY FrameNumbers
  <2> QED BY <1>1, <2>1, <2>2 DEF CallGenuine, ReceivePacket, FitsHistory
<1>6. LocalLeads' /\ ReadsInBounds' /\ ConfirmedInputsReal'
  BY <1>1 DEF LocalLeads, ReadsInBounds, ConfirmedInputsReal
<1>7. CleanMeansInSync'
  <2>1. \A g \in 0 .. current_frame : HeldInputs(g)' = HeldInputs(g)
    BY <1>1, <1>2, FrameNumbers DEF HeldInputs
  <2> QED BY <1>1, <2>1 DEF CleanMeansInSync
<1> QED BY <1>3, <1>4, <1>5, <1>6, <1>7

\* Storing an input of the packet: it fits, it fills its slot with what its
\* player entered, and if it changes what the speculative model has read, the
\* manager is dirty afterwards.
LEMMA StorePacketInputSafe ==
  ASSUME SafetyInvariant, StorePacketInput, TypeOK', SpeculationUniform'
  PROVE  SafetyInvariant'
<1> USE DEF SafetyInvariant
<1>1. ApplyNetworkInput /\ ~Idle /\ UNCHANGED <<confirm_model, current_model, current_frame, truth>>
  BY DEF StorePacketInput, ApplyNetworkInput, modelVars
<1>2. UNCHANGED last_confirm
  BY <1>1 DEF ApplyNetworkInput
<1>3. /\ call \in Call /\ call.frame <= call.last
  BY <1>1 DEF GameTypeOK, TypeOK, Idle
<1>4. PICK p \in Player, f \in Frames, v \in Input :
        p = call.player /\ f = call.frame /\ v = call.values[call.frame]
  BY <1>3 DEF Call
<1>5. /\ p # Local /\ last_confirm < f /\ f <= last_received[p] + 1
      /\ call.last <= last_confirm + MaxInputHistory /\ call.last \in Frames /\ f <= call.last
  BY <1>1, <1>3, <1>4 DEF CallGenuine, Call
<1>6. v = truth[p][f]
  BY <1>1, <1>4, <1>5, FrameNumbers DEF CallGenuine
<1>7. f \in Int /\ f - last_confirm <= MaxInputHistory /\ last_received[p] - last_confirm <= size
  BY <1>5, FrameNumbers DEF WindowGenuine
<1>8. PICK junk \in InputVector :
        /\ is_dirty' = (is_dirty \/ InputAt(p, f, junk) # v)
        /\ ReceiveInput(p, v, f, junk)
  BY <1>1, <1>4 DEF ApplyNetworkInput
<1>9. FillsSlot(p, v, f)
  <2>1. TypeOK
    BY DEF GameTypeOK
  <2> HIDE DEF SafetyInvariant
  <2> QED BY <1>2, <1>5, <1>7, <1>8, <2>1, StoreFillsSlot
<1>10. \A q \in Player : last_received'[q] = IF q = p /\ last_received[p] < f THEN f ELSE last_received[q]
  BY <1>9 DEF FillsSlot, GameTypeOK, TypeOK
<1>11. GameTypeOK'
  BY <1>1 DEF GameTypeOK
<1>12. WindowGenuine'
  <2> SUFFICES ASSUME NEW q \in Player
               PROVE  /\ last_received'[q] - last_confirm <= size'
                      /\ \A g \in Frames : last_confirm < g /\ g <= last_received'[q]
                           => InputsOf(g)'[q] = truth[q][g]
    BY <1>1, <1>2 DEF WindowGenuine
  <2>1. size <= size' /\ size' \in Int /\ f - last_confirm <= size'
    BY <1>9 DEF FillsSlot
  <2>2. last_received[q] - last_confirm <= size
    BY DEF WindowGenuine
  <2>3. last_received'[q] - last_confirm <= size'
    <3>1. last_received[q] - last_confirm <= size'
      BY <2>1, <2>2, FrameNumbers
    <3> QED BY <1>10, <2>1, <3>1
  <2>4. ASSUME NEW g \in Frames, last_confirm < g, g <= last_received'[q]
        PROVE  InputsOf(g)'[q] = truth[q][g]
    <3>1. CASE q = p /\ g = f
      BY <1>6, <1>9, <3>1 DEF FillsSlot
    <3>2. CASE ~(q = p /\ g = f)
      <4>1. g <= last_received[q] /\ g - last_confirm <= size /\ (q # p \/ g < f \/ (g # f /\ g <= last_received[p]))
        BY <1>5, <1>7, <1>10, <2>2, <2>4, <3>2, FrameNumbers
      <4>2. InputsOf(g)'[q] = InputsOf(g)[q]
        BY <1>9, <2>4, <4>1 DEF FillsSlot
      <4> QED BY <2>4, <4>1, <4>2 DEF WindowGenuine
    <3> QED BY <3>1, <3>2
  <2> QED BY <2>3, <2>4
<1>13. CallGenuine'
  <2>1. call' = IF OverCapacity(f) \/ f = call.last THEN NoCall ELSE [call EXCEPT !.frame = f + 1]
    BY <1>1, <1>4 DEF ApplyNetworkInput
  <2>2. CASE OverCapacity(f) \/ f = call.last
    BY <2>1, <2>2 DEF CallGenuine, Idle
  <2>3. CASE ~(OverCapacity(f) \/ f = call.last)
    <3>1. /\ call'.player = p /\ call'.frame = f + 1 /\ call'.last = call.last
          /\ call'.values = call.values
      BY <1>3, <1>4, <2>1, <2>3 DEF Call
    <3>2. f <= last_received'[p]
      BY <1>7, <1>10, FrameNumbers
    <3>3. \A g \in Frames : f + 1 <= g /\ g <= call.last => call.values[g] = truth[p][g]
      BY <1>1, <1>4, <1>7, FrameNumbers DEF CallGenuine
    <3>4. last_received'[p] \in Int
      BY <1>7, <1>10, FrameNumbers
    <3>5. f + 1 <= last_received'[p] + 1 /\ last_confirm < f + 1
      BY <1>5, <1>7, <3>2, <3>4, FrameNumbers
    <3> QED BY <1>1, <1>2, <1>5, <3>1, <3>3, <3>5 DEF CallGenuine
  <2> QED BY <2>2, <2>3
<1>14. LocalLeads' /\ ReadsInBounds'
  <2>1. last_received'[Local] = last_received[Local]
    BY <1>5, <1>10, LocalAssumption
  <2>2. size <= size' /\ size' \in Int
    BY <1>9 DEF FillsSlot
  <2> QED BY <1>1, <1>2, <2>1, <2>2, FrameNumbers, LocalAssumption DEF LocalLeads, ReadsInBounds
<1>15. ConfirmedInputsReal'
  BY <1>1, <1>2 DEF ConfirmedInputsReal
<1>16. CleanMeansInSync'
  <2> SUFFICES ASSUME ~is_dirty', NEW g \in 0 .. current_frame
               PROVE  HeldInputs(g)' = HeldInputs(g)
    BY <1>1, <1>8 DEF CleanMeansInSync
  <2>1. g \in Frames /\ size <= size'
    BY <1>9, FrameNumbers DEF FillsSlot
  <2>2. ASSUME g > last_confirm
        PROVE  g - last_confirm <= size /\ \A q \in Player : InputsOf(g)'[q] = InputsOf(g)[q]
    <3>1. g - last_confirm <= size /\ size > 0
      BY <2>2, FrameNumbers DEF ReadsInBounds
    <3>2. \A q \in Player : Read(q, g)' = Read(q, g)
      BY <1>1, <2>1, <2>2, <3>1, CleanChangesNothing DEF GameTypeOK
    <3>3. Index(g) \in 0 .. size - 1 /\ Index(g) \in 0 .. size' - 1
      BY <1>9, <2>1, <2>2, <3>1, StoredFrame, FrameNumbers DEF GameTypeOK, FillsSlot
    <3>4. \A q \in Player : Read(q, g) = InputsOf(g)[q]
      BY <3>3, FrameNumbers DEF Read, InputAt, InputsOf
    <3>5. \A q \in Player : Read(q, g)' = InputsOf(g)'[q]
      <4>1. Index(g)' = Index(g) /\ ~(Index(g) >= size')
        BY <1>2, <1>9, <3>3 DEF Index, FillsSlot
      <4> QED BY <4>1 DEF Read, InputAt, InputsOf
    <3> QED BY <3>1, <3>2, <3>4, <3>5
  <2> QED BY <1>1, <1>2, <2>1, <2>2, HeldInputsKept DEF GameTypeOK
<1> QED BY <1>11, <1>12, <1>13, <1>14, <1>15, <1>16

\* Confirming reads the first stored frame, whose inputs are all genuine, and
\* slides the window by one.
LEMMA ConfirmSafe ==
  ASSUME SafetyInvariant, Confirm, TypeOK', SpeculationUniform'
  PROVE  SafetyInvariant'
<1> USE DEF SafetyInvariant
<1>1. /\ confirm_model' = Append(confirm_model, InputsOf(last_confirm + 1))
      /\ size' = size - 1 /\ last_confirm' = last_confirm + 1 /\ Idle
      /\ inputs' = [i \in 0 .. size - 2 |-> inputs[i + 1]]
      /\ UNCHANGED <<last_received, is_valid, is_dirty, call>>
      /\ UNCHANGED <<current_model, current_frame, truth>>
  BY DEF Confirm, ConfirmLastFrame, ConfirmFrame
<1>2. PICK c \in Frames : c = last_confirm + 1
  BY FrameNumbers DEF Confirm
<1>3. c <= current_frame /\ c - last_confirm <= size /\ c > last_confirm /\ c \in Int
      /\ \A p \in Player : c <= last_received[p]
  BY <1>2, FrameNumbers DEF Confirm, ReadsInBounds
<1>4. InputsOf(c) \in InputVector /\ \A p \in Player : InputsOf(c)[p] = truth[p][c]
  BY <1>3, StoredFrame DEF WindowGenuine, GameTypeOK
<1>5. /\ confirm_model \in Seq(InputVector) /\ Len(confirm_model) = c
      /\ confirm_model' = Append(confirm_model, InputsOf(c))
  BY <1>1, <1>2 DEF GameTypeOK, ConfirmedInputsReal
<1>6. /\ confirm_model' \in Seq(InputVector) /\ Len(confirm_model') = c + 1
      /\ confirm_model'[c + 1] = InputsOf(c)
      /\ \A g \in 0 .. c - 1 : confirm_model'[g + 1] = confirm_model[g + 1]
  BY <1>3, <1>4, <1>5
<1>7. GameTypeOK'
  BY <1>1, <1>6 DEF GameTypeOK
<1>8. ASSUME NEW g \in Frames, g > c, g - last_confirm <= size
      PROVE  InputsOf(g)' = InputsOf(g)
  <2>1. Index(g) = g - last_confirm - 1 /\ Index(g) \in 0 .. size - 1
    BY <1>3, <1>8, StoredFrame, FrameNumbers DEF GameTypeOK
  <2>2. Index(g)' = g - last_confirm - 2
    <3>1. Index(g)' = AsSize(g - ((last_confirm + 1) + 1))
      BY <1>1 DEF Index
    <3>2. AsSize(g - ((last_confirm + 1) + 1)) = g - last_confirm - 2
      BY <1>2, <1>8, FrameNumbers DEF AsSize
    <3> QED BY <3>1, <3>2
  <2>3. g - last_confirm - 2 \in 0 .. size - 2 /\ (g - last_confirm - 2) + 1 = g - last_confirm - 1
    BY <1>2, <1>8, FrameNumbers
  <2>4. inputs'[g - last_confirm - 2] = inputs[g - last_confirm - 1]
    BY <1>1, <2>3
  <2> QED BY <2>1, <2>2, <2>4 DEF InputsOf
<1>9. WindowGenuine'
  <2> SUFFICES ASSUME NEW p \in Player
               PROVE  /\ last_received[p] - (last_confirm + 1) <= size - 1
                      /\ \A g \in Frames : last_confirm + 1 < g /\ g <= last_received[p]
                           => InputsOf(g)'[p] = truth[p][g]
    BY <1>1 DEF WindowGenuine
  <2>1. last_received[p] - (last_confirm + 1) <= size - 1
    BY FrameNumbers DEF WindowGenuine
  <2>2. ASSUME NEW g \in Frames, last_confirm + 1 < g, g <= last_received[p]
        PROVE  InputsOf(g)'[p] = truth[p][g]
    <3>1. g > c /\ g > last_confirm /\ g - last_confirm <= size
      BY <1>2, <2>2, FrameNumbers DEF WindowGenuine
    <3> QED BY <1>8, <2>2, <3>1 DEF WindowGenuine
  <2> QED BY <2>1, <2>2
<1>10. CallGenuine'
  BY <1>1 DEF CallGenuine, Idle
<1>11. LocalLeads' /\ ReadsInBounds'
  <2>1. /\ current_frame - (last_confirm + 1) <= MaxInputHistory
        /\ last_confirm + 1 <= current_frame
        /\ current_frame - (last_confirm + 1) <= size - 1
        /\ last_received[Local] - (last_confirm + 1) <= size - 1
    BY <1>2, <1>3, FrameNumbers, LocalAssumption DEF LocalLeads, ReadsInBounds
  <2> QED BY <1>1, <2>1 DEF LocalLeads, ReadsInBounds
<1>12. ConfirmedInputsReal'
  <2>1. \A g \in 0 .. c : \A p \in Player : confirm_model'[g + 1][p] = truth[p][g]
    <3> SUFFICES ASSUME NEW g \in 0 .. c, NEW p \in Player
                 PROVE  confirm_model'[g + 1][p] = truth[p][g]
      OBVIOUS
    <3>1. CASE g = c
      BY <1>4, <1>6, <3>1
    <3>2. CASE g # c
      <4>1. g \in 0 .. c - 1 /\ g \in 0 .. last_confirm
        BY <1>2, <1>3, <3>2, FrameNumbers
      <4> QED BY <1>6, <4>1 DEF ConfirmedInputsReal
    <3> QED BY <3>1, <3>2
  <2> QED BY <1>1, <1>2, <1>6, <2>1 DEF ConfirmedInputsReal
<1>13. CleanMeansInSync'
  <2>1. ASSUME NEW g \in 0 .. current_frame PROVE HeldInputs(g)' = HeldInputs(g)
    <3>1. g \in Frames /\ g \in Int
      BY FrameNumbers
    <3>2. HeldInputs(g)' = IF g <= c THEN confirm_model'[g + 1] ELSE InputsOf(g)'
      BY <1>1, <1>2 DEF HeldInputs
    <3>3. CASE g < c
      <4>1. g <= last_confirm
        BY <1>2, <3>1, <3>3, FrameNumbers
      <4> QED BY <1>3, <1>6, <3>1, <3>2, <3>3, <4>1, FrameNumbers DEF HeldInputs
    <3>4. CASE g = c
      BY <1>3, <1>6, <3>2, <3>4, FrameNumbers DEF HeldInputs
    <3>5. CASE g > c
      <4>1. g - last_confirm <= size /\ ~(g <= c) /\ ~(g <= last_confirm)
        BY <1>3, <3>1, <3>5, FrameNumbers DEF ReadsInBounds
      <4> QED BY <1>8, <3>1, <3>2, <3>5, <4>1 DEF HeldInputs
    <3> QED BY <1>3, <3>1, <3>3, <3>4, <3>5
  <2> QED BY <1>1, <2>1 DEF CleanMeansInSync
<1> QED BY <1>7, <1>9, <1>10, <1>11, <1>12, <1>13

\* Rolling back reads stored frames only, and puts the speculative model in
\* step with them.
LEMMA RollbackSafe ==
  ASSUME SafetyInvariant, Rollback, TypeOK', SpeculationUniform'
  PROVE  SafetyInvariant'
<1> USE DEF SafetyInvariant
<1>1. /\ current_model' = confirm_model \o Resimulated
      /\ UNCHANGED <<inputs, size, last_received, is_valid, last_confirm, call>>
      /\ UNCHANGED <<confirm_model, current_frame, truth>>
  BY DEF Rollback, RollbackAndResimulate, CleanDirty
<1>2. PICK n \in Nat : n = current_frame - last_confirm
  BY FrameNumbers DEF ReadsInBounds
<1>3. \A i \in 1 .. n : /\ last_confirm + i \in Frames /\ last_confirm + i > last_confirm
                        /\ (last_confirm + i) - last_confirm <= size
  BY <1>2, FrameNumbers DEF ReadsInBounds
<1>4. Resimulated = [i \in 1 .. n |-> InputsOf(last_confirm + i)]
  BY <1>2 DEF Resimulated
<1>5. \A i \in 1 .. n : InputsOf(last_confirm + i) \in InputVector
  BY <1>3, StoredFrame DEF GameTypeOK
<1>6. Resimulated \in Seq(InputVector) /\ Len(Resimulated) = n
  BY <1>4, <1>5
<1>7. confirm_model \in Seq(InputVector) /\ Len(confirm_model) = last_confirm + 1
  BY DEF GameTypeOK, ConfirmedInputsReal
<1>8. current_model' \in Seq(InputVector) /\ Len(current_model') = current_frame + 1
  <2>1. /\ confirm_model \o Resimulated \in Seq(InputVector)
        /\ Len(confirm_model \o Resimulated) = (last_confirm + 1) + n
    BY <1>6, <1>7
  <2>2. (last_confirm + 1) + n = current_frame + 1
    BY <1>2, FrameNumbers
  <2> QED BY <1>1, <2>1, <2>2
<1>9. GameTypeOK'
  BY <1>1, <1>8 DEF GameTypeOK
<1>10. \A g \in Frames : InputsOf(g)' = InputsOf(g)
  BY <1>1 DEF InputsOf, Index
<1>11. WindowGenuine'
  BY <1>1, <1>10 DEF WindowGenuine
<1>12. CallGenuine' /\ LocalLeads' /\ ReadsInBounds' /\ ConfirmedInputsReal'
  BY <1>1 DEF CallGenuine, Idle, LocalLeads, ReadsInBounds, ConfirmedInputsReal
<1>13. ASSUME NEW g \in 0 .. current_frame PROVE current_model'[g + 1] = HeldInputs(g)'
  <2>1. HeldInputs(g)' = HeldInputs(g)
    BY <1>1, <1>10, FrameNumbers DEF HeldInputs
  <2>2. CASE g <= last_confirm
    <3>1. current_model'[g + 1] = confirm_model[g + 1]
      BY <1>1, <1>6, <1>7, <2>2, FrameNumbers
    <3> QED BY <2>1, <2>2, <3>1 DEF HeldInputs
  <2>3. CASE g > last_confirm
    <3>1. g - last_confirm \in 1 .. n /\ last_confirm + (g - last_confirm) = g
      BY <1>2, <2>3, FrameNumbers
    <3>2. Resimulated[g - last_confirm] = InputsOf(g)
      BY <1>4, <3>1
    <3>3. current_model'[g + 1] = Resimulated[g - last_confirm]
      BY <1>1, <1>6, <1>7, <2>3, <3>1, FrameNumbers
    <3> QED BY <2>1, <2>3, <3>2, <3>3, FrameNumbers DEF HeldInputs
  <2> QED BY <2>2, <2>3, FrameNumbers
<1>14. CleanMeansInSync'
  BY <1>1, <1>8, <1>13 DEF CleanMeansInSync
<1> QED BY <1>9, <1>11, <1>12, <1>14

\* The safety invariant is inductive.
LEMMA StepSafe ==
  ASSUME SafetyInvariant, [GameNext]_gameVars
  PROVE  SafetyInvariant'
<1>1. CASE GameNext
  <2>1. TypeOK' /\ SpeculationUniform'
    BY <1>1, ManagerInvariant DEF SafetyInvariant
  <2> QED BY <1>1, <2>1, SetLocalInputSafe, SpeculativeTickSafe, StorePacketInputSafe,
             ConfirmSafe, RollbackSafe, ReceivePacketSafe DEF GameNext, GameStep
<1>2. CASE UNCHANGED gameVars
  <2>1. UNCHANGED <<vars, confirm_model, current_model, current_frame, truth>>
    BY <1>2 DEF gameVars, modelVars
  <2>2. UNCHANGED <<inputs, size, last_received, is_valid, last_confirm, is_dirty, call>>
    BY <2>1 DEF vars
  <2>3. \A g : InputsOf(g)' = InputsOf(g) /\ HeldInputs(g)' = HeldInputs(g)
    BY <2>1, <2>2 DEF InputsOf, Index, HeldInputs
  <2> QED BY <2>1, <2>2, <2>3
          DEF SafetyInvariant, GameTypeOK, TypeOK, SpeculationUniform, FrameAt, WindowGenuine,
              CallGenuine, Idle, LocalLeads, ReadsInBounds, ConfirmedInputsReal, CleanMeansInSync
<1> QED BY <1>1, <1>2

-----------------------------------------------------------------------------
\* In every reachable state of the game the safety invariant holds.
THEOREM SafetyCorrect == GameSpec => []SafetyInvariant
<1> QED BY InitSafe, StepSafe, PTL DEF GameSpec

\* The game and its manager keep their types.
THEOREM GameTypeCorrect == GameSpec => []GameTypeOK
<1>1. SafetyInvariant => GameTypeOK
  BY DEF SafetyInvariant
<1> QED BY <1>1, SafetyCorrect, PTL

\* The confirmed model ticks each frame once, in order, with the real inputs.
THEOREM ConfirmedCorrect == GameSpec => []ConfirmedInputsReal
<1>1. SafetyInvariant => ConfirmedInputsReal
  BY DEF SafetyInvariant
<1> QED BY <1>1, SafetyCorrect, PTL

\* When is_dirty is false the speculative model is in step with the inputs.
THEOREM CleanCorrect == GameSpec => []CleanMeansInSync
<1>1. SafetyInvariant => CleanMeansInSync
  BY DEF SafetyInvariant
<1> QED BY <1>1, SafetyCorrect, PTL

\* The unchecked reads of inputs(Frame) stay inside the window.
THEOREM BoundsCorrect == GameSpec => []ReadsInBounds
<1>1. SafetyInvariant => ReadsInBounds
  BY DEF SafetyInvariant
<1> QED BY <1>1, SafetyCorrect, PTL

-----------------------------------------------------------------------------
\* Storing an input is an arrival of the next frame, or of none.
LEMMA StoreRefines ==
  ASSUME GameTypeOK, NEW p \in Player, NEW f \in Frames, NEW v \in Input,
         NEW junk \in InputVector, f <= last_received[p] + 1,
         ReceiveInput(p, v, f, junk), UNCHANGED <<confirm_model, truth>>
  PROVE  LS!Arrive(p) \/ UNCHANGED LS!vars
<1>1. last_received' = [last_received EXCEPT ![p] = IF last_received[p] < f THEN f ELSE @]
  BY DEF ReceiveInput, NoteReceived, IsLatest
<1>2. CASE last_received[p] < f
  <2>1. f = last_received[p] + 1 /\ last_received[p] < MaxFrame
    BY <1>2, FrameNumbers
  <2>2. last_received' = [last_received EXCEPT ![p] = last_received[p] + 1]
    BY <1>1, <1>2, <2>1
  <2> QED BY <2>1, <2>2 DEF LS!Arrive
<1>3. CASE ~(last_received[p] < f)
  <2>1. last_received' = last_received
    BY <1>1, <1>3 DEF GameTypeOK, TypeOK
  <2> QED BY <2>1 DEF LS!vars
<1> QED BY <1>2, <1>3

\* The confirmed model is a lockstep simulation of the players' inputs: every
\* step of the game is an arrival, a simulated frame, or invisible.
THEOREM LockstepRefinement == GameSpec => ImplementsLockstep
<1>1. GameInit => LS!Init
  BY DEF GameInit, Init, LS!Init, Frames
<1>2. SafetyInvariant /\ [GameNext]_gameVars => [LS!Next]_(LS!vars)
  <2> SUFFICES ASSUME SafetyInvariant, [GameNext]_gameVars
               PROVE  LS!Next \/ UNCHANGED LS!vars
    OBVIOUS
  <2>1. GameTypeOK
    BY DEF SafetyInvariant
  <2>2. ASSUME SetLocalInput PROVE LS!Next \/ UNCHANGED LS!vars
    <3>1. PICK f \in Frames : f = current_frame + 1
      BY <2>1, <2>2, FrameNumbers DEF SetLocalInput
    <3>2. PICK v \in Input : v = truth[Local][f]
      BY <2>1, LocalAssumption DEF GameTypeOK
    <3>3. PICK junk \in InputVector : ReceiveInput(Local, v, f, junk)
      BY <2>2, <3>1, <3>2 DEF SetLocalInput, set_input
    <3>4. f <= last_received[Local] + 1
      BY <2>1, <2>2, <3>1, FrameNumbers DEF SetLocalInput
    <3>5. UNCHANGED <<confirm_model, truth>>
      BY <2>2 DEF SetLocalInput, modelVars
    <3> QED BY <2>1, <3>3, <3>4, <3>5, LocalAssumption, StoreRefines DEF LS!Next
  <2>3. ASSUME StorePacketInput PROVE LS!Next \/ UNCHANGED LS!vars
    <3>1. ApplyNetworkInput /\ ~Idle /\ UNCHANGED <<confirm_model, truth>>
      BY <2>3 DEF StorePacketInput, ApplyNetworkInput, modelVars
    <3>2. PICK p \in Player, f \in Frames, v \in Input :
            p = call.player /\ f = call.frame /\ v = call.values[call.frame]
      BY <2>1, <3>1 DEF GameTypeOK, TypeOK, Idle, Call
    <3>3. PICK junk \in InputVector : ReceiveInput(p, v, f, junk)
      BY <3>1, <3>2 DEF ApplyNetworkInput
    <3>4. f <= last_received[p] + 1
      BY <3>1, <3>2 DEF SafetyInvariant, CallGenuine
    <3> QED BY <2>1, <3>1, <3>3, <3>4, StoreRefines DEF LS!Next
  <2>4. ASSUME Confirm PROVE LS!Simulate
    <3>1. PICK c \in Frames : c = last_confirm + 1
      BY <2>1, <2>4, FrameNumbers DEF Confirm
    <3>2. c > last_confirm /\ c - last_confirm <= size /\ \A p \in Player : c <= last_received[p]
      BY <2>1, <2>4, <3>1, FrameNumbers DEF Confirm, SafetyInvariant, ReadsInBounds
    <3>3. InputsOf(c) \in InputVector /\ \A p \in Player : InputsOf(c)[p] = truth[p][c]
      BY <2>1, <3>2, StoredFrame DEF SafetyInvariant, WindowGenuine, GameTypeOK
    <3>4. InputsOf(c) = [p \in Player |-> truth[p][c]]
      BY <3>3 DEF InputVector
    <3>5. Len(confirm_model) = c
      BY <3>1 DEF SafetyInvariant, ConfirmedInputsReal
    <3>6. confirm_model' = Append(confirm_model, InputsOf(c)) /\ UNCHANGED <<truth, last_received>>
      BY <2>4, <3>1 DEF Confirm, ConfirmLastFrame, ConfirmFrame
    <3>7. \A p \in Player : last_received[p] >= c
      BY <2>1, <3>1, <3>2, FrameNumbers
    <3> QED BY <3>4, <3>5, <3>6, <3>7 DEF LS!Simulate
  <2>5. CASE UNCHANGED <<last_received, confirm_model, truth>>
    BY <2>5 DEF LS!vars
  <2>6. ASSUME SpeculativeTick \/ Rollback
                 \/ (\E p \in Player, first, last \in Frames : ReceivePacket(p, first, last))
                 \/ UNCHANGED gameVars
        PROVE  UNCHANGED <<last_received, confirm_model, truth>>
    BY <2>6 DEF SpeculativeTick, Rollback, RollbackAndResimulate, CleanDirty, ReceivePacket,
                set_inputs_from_network, gameVars, modelVars, vars
  <2> QED BY <2>2, <2>3, <2>4, <2>5, <2>6 DEF GameNext, GameStep, LS!Next
<1> QED BY <1>1, <1>2, SafetyCorrect, PTL DEF GameSpec, LS!Spec, ImplementsLockstep

=============================================================================
