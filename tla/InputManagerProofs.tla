-------------------------- MODULE InputManagerProofs ------------------------
(***************************************************************************)
(* Proofs about InputManager, for every number of players, every history   *)
(* length and every frame bound.                                           *)
(***************************************************************************)
EXTENDS InputManager, TLAPS

\* index() returns the slot of an unconfirmed frame, and for a confirmed one
\* a number beyond every slot.
LEMMA IndexRange ==
  ASSUME TypeOK, NEW f \in Frames
  PROVE  /\ Index(f) \in Nat
         /\ f > last_confirm => Index(f) = f - last_confirm - 1
         /\ f <= last_confirm => Index(f) > MaxInputHistory
BY InputAssumption DEF TypeOK, Frames, Index, AsSize

\* The last stored input vector, or the junk, is a vector of inputs.
LEMMA BackType ==
  ASSUME TypeOK, NEW junk \in InputVector
  PROVE  Back(junk) \in InputVector
BY InputAssumption DEF TypeOK, Back

\* Receiving an input keeps the history, its size and the received frames
\* well typed.
LEMMA ReceiveInputType ==
  ASSUME TypeOK, NEW p \in Player, NEW v \in Input, NEW f \in Frames,
         NEW junk \in InputVector, ReceiveInput(p, v, f, junk)
  PROVE  /\ size' \in 0 .. MaxInputHistory
         /\ inputs' \in [0 .. size' - 1 -> InputVector]
         /\ last_received' \in [Player -> Frames \cup {-1}]
<1>1. last_received' \in [Player -> Frames \cup {-1}]
  BY DEF ReceiveInput, NoteReceived, TypeOK
<1>2. CASE OverCapacity(f)
  BY <1>1, <1>2 DEF ReceiveInput, TypeOK
<1>3. CASE ~OverCapacity(f)
  <2>1. Store(p, v, f, junk)
    BY <1>3 DEF ReceiveInput
  <2>2. size' \in 0 .. MaxInputHistory
    BY <2>1, InputAssumption DEF Store, RoomFor, TypeOK
  <2>3. \A i \in 0 .. size' - 1, q \in Player :
          i < size => inputs[i][q] \in Input
    BY <2>2, InputAssumption DEF TypeOK, InputVector
  <2>4. \A q \in Player : Back(junk)[q] \in Input
    BY BackType DEF InputVector
  <2>5. inputs' \in [0 .. size' - 1 -> InputVector]
    BY <2>1, <2>2, <2>3, <2>4 DEF Store, InputVector
  <2> QED BY <1>1, <2>2, <2>5
<1> QED BY <1>2, <1>3

\* A new manager is well typed.
LEMMA InitType ==
  ASSUME Init
  PROVE  TypeOK
<1>1. size \in 0 .. MaxInputHistory /\ last_confirm \in Frames \cup {-1}
  BY InputAssumption DEF Init
<1>2. [p \in Player |-> DefaultInput] \in InputVector
  BY InputAssumption DEF InputVector
<1>3. inputs \in [0 .. size - 1 -> InputVector]
  BY <1>2 DEF Init
<1> QED BY <1>1, <1>3 DEF Init, TypeOK, Idle

\* Every step of every call keeps it so.
LEMMA TypeStep ==
  ASSUME TypeOK, [Next]_vars
  PROVE  TypeOK'
<1>1. ASSUME NEW p \in Player, NEW v \in Input, NEW f \in Frames, set_input(p, v, f)
      PROVE  TypeOK'
  <2>1. PICK junk \in InputVector : ReceiveInput(p, v, f, junk)
    BY <1>1 DEF set_input
  <2> QED BY <1>1, <2>1, ReceiveInputType DEF set_input, TypeOK, Idle
<1>2. ASSUME NEW p \in Player, NEW first \in Frames, NEW last \in Frames,
             NEW values \in [first .. last -> Input],
             set_inputs_from_network(p, first, last, values)
      PROVE  TypeOK'
  <2>1. call' \in Call
    BY <1>2, InputAssumption DEF set_inputs_from_network, Call
  <2>2. call'.frame <= call'.last
    BY <1>2 DEF set_inputs_from_network
  <2> QED BY <1>2, <2>1, <2>2 DEF set_inputs_from_network, TypeOK, Idle
<1>3. ASSUME ApplyNetworkInput PROVE TypeOK'
  <2>1. call \in Call /\ call.frame <= call.last
    BY <1>3 DEF ApplyNetworkInput, TypeOK, Idle
  <2>2. call.player \in Player /\ call.frame \in Frames /\ call.values[call.frame] \in Input
    BY <2>1 DEF Call
  <2>3. PICK junk \in InputVector :
          ReceiveInput(call.player, call.values[call.frame], call.frame, junk)
    BY <1>3 DEF ApplyNetworkInput
  <2>4. is_dirty' \in BOOLEAN
    BY <1>3 DEF ApplyNetworkInput, TypeOK
  <2>5. /\ call' \in Call \cup {NoCall}
        /\ call' # NoCall => call'.frame <= call'.last
    <3>1. CASE call' = NoCall
      BY <3>1
    <3>2. CASE call' # NoCall
      <4>1. call' = [call EXCEPT !.frame = call.frame + 1] /\ call.frame # call.last
        BY <1>3, <3>2 DEF ApplyNetworkInput
      <4>2. call.frame + 1 \in Frames /\ call.frame + 1 <= call.last
        BY <2>1, <4>1, InputAssumption DEF Call, Frames
      <4> QED BY <2>1, <4>1, <4>2 DEF Call
    <3> QED BY <3>1, <3>2
  <2> QED BY <1>3, <2>2, <2>3, <2>4, <2>5, ReceiveInputType
          DEF ApplyNetworkInput, TypeOK, Idle
<1>4. ASSUME last_confirm < MaxFrame, ConfirmFrame PROVE TypeOK'
  BY <1>4, InputAssumption DEF ConfirmFrame, TypeOK, Frames, Idle
<1>5. ASSUME CleanDirty PROVE TypeOK'
  BY <1>5 DEF CleanDirty, TypeOK, Idle
<1>6. ASSUME NEW p \in Player, NEW valid \in BOOLEAN, set_valid(p, valid) PROVE TypeOK'
  BY <1>6 DEF set_valid, TypeOK, Idle
<1>7. CASE UNCHANGED vars
  BY <1>7 DEF vars, TypeOK, Idle
<1> QED BY <1>1, <1>2, <1>3, <1>4, <1>5, <1>6, <1>7 DEF Next

\* Every call sequence keeps the manager well typed.
THEOREM TypeCorrect == Spec => []TypeOK
<1> QED BY InitType, TypeStep, PTL DEF Spec

-----------------------------------------------------------------------------
\* Storing an input keeps the speculated inputs of every player uniform:
\* a newer input overwrites all of them, an older one none of them.
LEMMA ReceiveKeepsUniform ==
  ASSUME TypeOK, SpeculationUniform,
         NEW p \in Player, NEW v \in Input, NEW f \in Frames, NEW junk \in InputVector,
         ReceiveInput(p, v, f, junk), UNCHANGED last_confirm
  PROVE  SpeculationUniform'
<1> SUFFICES ASSUME NEW q \in Player, NEW i \in 0 .. size' - 1, NEW j \in 0 .. size' - 1,
                    FrameAt(i)' > last_received'[q], FrameAt(j)' > last_received'[q]
             PROVE  inputs'[i][q] = inputs'[j][q]
  BY DEF SpeculationUniform
<1>1. size' \in 0 .. MaxInputHistory
  BY ReceiveInputType
<1>2. last_received[q] \in Int /\ last_received'[q] \in Int
  BY ReceiveInputType, InputAssumption DEF TypeOK, Frames
<1>3. last_received'[q] >= last_received[q]
  BY <1>2, InputAssumption DEF ReceiveInput, NoteReceived, TypeOK, IsLatest, Frames
<1>4. FrameAt(i) > last_received[q] /\ FrameAt(j) > last_received[q]
  BY <1>1, <1>2, <1>3, InputAssumption DEF FrameAt, TypeOK, Frames
<1>5. \A k, l \in 0 .. size - 1 :
        FrameAt(k) > last_received[q] /\ FrameAt(l) > last_received[q]
          => inputs[k][q] = inputs[l][q]
  BY DEF SpeculationUniform
<1>6. CASE OverCapacity(f)
  BY <1>4, <1>5, <1>6 DEF ReceiveInput
<1>7. CASE ~OverCapacity(f)
  <2>1. Store(p, v, f, junk)
    BY <1>7 DEF ReceiveInput
  <2>2. f > last_confirm /\ Index(f) = f - last_confirm - 1
    BY <1>7, IndexRange, InputAssumption DEF OverCapacity, TypeOK, Frames
  <2> DEFINE Old(k) == IF k < size THEN inputs[k][q] ELSE Back(junk)[q]
  <2>3. Old(i) = Old(j)
    BY <1>1, <1>3, <1>4, <1>5, InputAssumption DEF FrameAt, Back, TypeOK, Frames
  <2>4. \A k \in 0 .. size' - 1 :
          inputs'[k][q] = IF q = p /\ (k = Index(f) \/ (IsLatest(p, f) /\ k > Index(f)))
                            THEN v ELSE Old(k)
    BY <2>1 DEF Store
  <2>5. CASE q # p
    BY <2>3, <2>4, <2>5
  <2>6. CASE q = p /\ IsLatest(p, f)
    <3>1. last_received'[q] = f
      BY <2>6 DEF ReceiveInput, NoteReceived, TypeOK
    <3>2. i > Index(f) /\ j > Index(f)
      BY <2>2, <3>1, InputAssumption DEF FrameAt, TypeOK, Frames
    <3> QED BY <2>4, <2>6, <3>2
  <2>7. CASE q = p /\ ~IsLatest(p, f)
    <3>1. i # Index(f) /\ j # Index(f)
      BY <1>4, <2>2, <2>7, InputAssumption DEF FrameAt, IsLatest, TypeOK, Frames
    <3> QED BY <2>3, <2>4, <2>7, <3>1
  <2> QED BY <2>5, <2>6, <2>7
<1> QED BY <1>6, <1>7

\* Every step of every call keeps the speculated inputs uniform.
LEMMA UniformStep ==
  ASSUME TypeOK, SpeculationUniform, [Next]_vars
  PROVE  SpeculationUniform'
<1>1. ASSUME NEW p \in Player, NEW v \in Input, NEW f \in Frames, set_input(p, v, f)
      PROVE  SpeculationUniform'
  <2>1. PICK junk \in InputVector : ReceiveInput(p, v, f, junk)
    BY <1>1 DEF set_input
  <2> QED BY <1>1, <2>1, ReceiveKeepsUniform DEF set_input
<1>2. ASSUME ApplyNetworkInput PROVE SpeculationUniform'
  <2>1. call.player \in Player /\ call.frame \in Frames /\ call.values[call.frame] \in Input
    BY <1>2 DEF ApplyNetworkInput, TypeOK, Idle, Call
  <2>2. PICK junk \in InputVector :
          ReceiveInput(call.player, call.values[call.frame], call.frame, junk)
    BY <1>2 DEF ApplyNetworkInput
  <2> QED BY <1>2, <2>1, <2>2, ReceiveKeepsUniform DEF ApplyNetworkInput
<1>3. ASSUME ConfirmFrame PROVE SpeculationUniform'
  <2> SUFFICES ASSUME NEW q \in Player, NEW i \in 0 .. size' - 1, NEW j \in 0 .. size' - 1,
                      FrameAt(i)' > last_received'[q], FrameAt(j)' > last_received'[q]
               PROVE  inputs'[i][q] = inputs'[j][q]
    BY DEF SpeculationUniform
  <2>1. /\ i + 1 \in 0 .. size - 1 /\ j + 1 \in 0 .. size - 1
        /\ FrameAt(i + 1) > last_received[q] /\ FrameAt(j + 1) > last_received[q]
    BY <1>3, InputAssumption DEF ConfirmFrame, FrameAt, TypeOK, Frames
  <2>2. inputs'[i] = inputs[i + 1] /\ inputs'[j] = inputs[j + 1]
    BY <1>3, InputAssumption DEF ConfirmFrame, TypeOK
  <2> QED BY <2>1, <2>2 DEF SpeculationUniform
<1>4. CASE UNCHANGED <<inputs, size, last_received, last_confirm>>
  BY <1>4 DEF SpeculationUniform, FrameAt
<1> QED BY <1>1, <1>2, <1>3, <1>4
        DEF Next, vars, set_inputs_from_network, CleanDirty, set_valid

\* Speculation is uniform after every call sequence.
THEOREM UniformCorrect == Spec => []SpeculationUniform
<1>1. Init => SpeculationUniform
  BY InputAssumption DEF Init, SpeculationUniform
<1> QED BY <1>1, UniformStep, TypeCorrect, PTL DEF Spec

-----------------------------------------------------------------------------
\* The slot read for the frame d frames after last_confirm, if n are stored.
Slot(d, n) == IF d > n THEN n - 1 ELSE d - 1

\* Slots are in the vector, keep their order, and survive its growth.
LEMMA SlotFacts ==
  ASSUME NEW d \in Int, d > 0, NEW n \in Int, n > 0, NEW m \in Int, m >= n
  PROVE  /\ Slot(d, n) \in 0 .. n - 1
         /\ Slot(d, m) < n => Slot(d, m) = Slot(d, n)
         /\ Slot(d, m) >= n => Slot(d, n) = n - 1
         /\ \A e \in Int : d < e /\ e <= m => Slot(d, m) < e - 1
BY DEF Slot

\* On a history that is not empty, an unconfirmed frame reads as its slot,
\* or as the last slot when it lies beyond the window.
LEMMA ReadOfSlot ==
  ASSUME TypeOK, size > 0, NEW p \in Player, NEW f \in Frames, f > last_confirm
  PROVE  Read(p, f) = inputs[Slot(f - last_confirm, size)][p]
BY IndexRange, InputAssumption DEF Read, InputAt, Back, TypeOK, Frames, Slot

\* The slot of a frame d after the confirmed one, from index()'s arithmetic.
LEMMA SlotArithmetic ==
  \A f, c, n \in Int : f > c =>
    /\ ~(f - (c + 1) < 0)
    /\ f - (c + 1) >= n => Slot(f - c, n) = n - 1
    /\ ~(f - (c + 1) >= n) => Slot(f - c, n) = f - (c + 1)
BY DEF Slot

\* The same in the state after the step.
LEMMA ReadOfSlotPrimed ==
  ASSUME TypeOK', size' > 0, NEW p \in Player, NEW f \in Frames, f > last_confirm'
  PROVE  Read(p, f)' = inputs'[Slot(f - last_confirm', size')][p]
<1>1. f \in Int /\ last_confirm' \in Int /\ size' \in Int /\ f > last_confirm'
  BY InputAssumption DEF TypeOK, Frames
<1> DEFINE m == f - (last_confirm' + 1)
<1>2. m \in Int
  BY <1>1
<1>3. ~(m < 0)
  BY <1>1, SlotArithmetic
<1>4. Index(f)' = m
  BY <1>3, Zenon DEF Index, AsSize
<1>5. /\ m >= size' => Slot(f - last_confirm', size') = size' - 1
      /\ ~(m >= size') => Slot(f - last_confirm', size') = m
  BY <1>1, SlotArithmetic, Zenon
<1>6. Read(p, f)' = IF Index(f)' >= size' THEN inputs'[size' - 1][p] ELSE inputs'[Index(f)'][p]
  BY DEF Read, InputAt, Back
<1> HIDE DEF m
<1> QED BY <1>4, <1>5, <1>6

\* Storing an input of p at frame f leaves alone what earlier frames and
\* other players' frames read as.
LEMMA StoreChangesForward ==
  ASSUME TypeOK, TypeOK', size > 0, UNCHANGED last_confirm,
         NEW p \in Player, NEW v \in Input, NEW f \in Frames, NEW junk \in InputVector,
         ReceiveInput(p, v, f, junk),
         NEW q \in Player, NEW g \in Frames, g > last_confirm,
         q # p \/ g < f
  PROVE  Read(q, g)' = Read(q, g)
<1>1. CASE OverCapacity(f)
  <2>1. UNCHANGED <<inputs, size>>
    BY <1>1 DEF ReceiveInput
  <2> QED BY <2>1 DEF Read, InputAt, Index, Back
<1>2. CASE ~OverCapacity(f)
  <2>1. Store(p, v, f, junk)
    BY <1>2 DEF ReceiveInput
  <2>2. f > last_confirm /\ Index(f) = f - last_confirm - 1 /\ Index(f) < MaxInputHistory
    BY <1>2, IndexRange, InputAssumption DEF OverCapacity, TypeOK, Frames
  <2>3. size' \in Nat /\ size \in Nat /\ size' >= size /\ size' > Index(f) /\ size' > 0
    BY <2>1, <2>2, InputAssumption DEF Store, RoomFor, TypeOK, Frames
  <2>4. /\ f \in Int /\ g \in Int /\ last_confirm \in Int
        /\ last_confirm' = last_confirm /\ g > last_confirm
    BY InputAssumption DEF TypeOK, Frames
  <2> DEFINE New == Slot(g - last_confirm, size')
             Old == Slot(g - last_confirm, size)
  <2>5. Read(q, g)' = inputs'[New][q] /\ Read(q, g) = inputs[Old][q]
    BY <2>3, <2>4, ReadOfSlot, ReadOfSlotPrimed
  <2>6. /\ New \in 0 .. size' - 1
        /\ New < size => New = Old
        /\ New >= size => Old = size - 1
    BY <2>3, <2>4, SlotFacts
  <2>7. ~(q = p /\ New >= Index(f))
    <3>1. ASSUME g < f PROVE New < f - last_confirm - 1
      <4>1. /\ g - last_confirm \in Int /\ g - last_confirm > 0
            /\ g - last_confirm < f - last_confirm /\ f - last_confirm <= size'
        BY <2>2, <2>3, <2>4, <3>1
      <4>2. ~(g - last_confirm > size')
        BY <2>3, <2>4, <4>1
      <4>3. New = g - last_confirm - 1
        BY <4>2 DEF Slot
      <4> QED BY <2>4, <4>1, <4>3
    <3> QED BY <2>2, <2>3, <2>4, <2>6, <3>1
  <2> HIDE DEF New, Old
  <2>8. \A k \in 0 .. size' - 1 :
          inputs'[k][q] = IF q = p /\ (k = Index(f) \/ (IsLatest(p, f) /\ k > Index(f)))
                            THEN v ELSE IF k < size THEN inputs[k][q] ELSE Back(junk)[q]
    BY <2>1 DEF Store
  <2>9. inputs'[New][q] = IF New < size THEN inputs[New][q] ELSE Back(junk)[q]
    <3>1. ~(q = p /\ (New = Index(f) \/ (IsLatest(p, f) /\ New > Index(f))))
      BY <2>2, <2>3, <2>4, <2>6, <2>7
    <3> QED BY <2>6, <2>8, <3>1
  <2>10. Back(junk) = inputs[size - 1]
    BY DEF Back
  <2> QED BY <2>3, <2>5, <2>6, <2>9, <2>10
<1> QED BY <1>1, <1>2

\* After every step of every call sequence, what an unconfirmed frame reads
\* as has changed only if its player's input was stored at or before it.
THEOREM ChangeForward == Spec => InputsChangeForward
<1> DEFINE Forward == \A p \in Player, f \in Frames :
             f > last_confirm' /\ size > 0 /\ size' > 0 /\ Read(p, f)' # Read(p, f)
               => \E g \in Frames : g <= f /\ StoresAt(p, g)
<1>1. TypeOK /\ TypeOK' /\ [Next]_vars => [Forward]_vars
  <2> SUFFICES ASSUME TypeOK, TypeOK', Next,
                      NEW p \in Player, NEW f \in Frames, f > last_confirm',
                      size > 0, size' > 0,
                      \A g \in Frames : g <= f => ~StoresAt(p, g)
               PROVE  Read(p, f)' = Read(p, f)
    OBVIOUS
  <2>1. ASSUME NEW q \in Player, NEW v \in Input, NEW g \in Frames, set_input(q, v, g)
        PROVE  Read(p, f)' = Read(p, f)
    <3>1. q # p \/ f < g
      BY <2>1, InputAssumption DEF StoresAt, Frames
    <3>2. PICK junk \in InputVector : ReceiveInput(q, v, g, junk)
      BY <2>1 DEF set_input
    <3>3. UNCHANGED last_confirm
      BY <2>1 DEF set_input
    <3> QED BY <3>1, <3>2, <3>3, StoreChangesForward
  <2>2. ASSUME ApplyNetworkInput PROVE Read(p, f)' = Read(p, f)
    <3>1. call.player \in Player /\ call.frame \in Frames /\ call.values[call.frame] \in Input
      BY <2>2 DEF ApplyNetworkInput, TypeOK, Idle, Call
    <3>2. call.player # p \/ f < call.frame
      BY <2>2, <3>1, InputAssumption DEF StoresAt, Frames
    <3>3. PICK junk \in InputVector :
            ReceiveInput(call.player, call.values[call.frame], call.frame, junk)
      BY <2>2 DEF ApplyNetworkInput
    <3>4. UNCHANGED last_confirm
      BY <2>2 DEF ApplyNetworkInput
    <3> QED BY <3>1, <3>2, <3>3, <3>4, StoreChangesForward
  <2>3. ASSUME ConfirmFrame PROVE Read(p, f)' = Read(p, f)
    <3> DEFINE New == Slot(f - last_confirm', size')
               Old == Slot(f - last_confirm, size)
    <3>0. /\ f \in Int /\ last_confirm \in Int /\ size \in Int
          /\ last_confirm' = last_confirm + 1 /\ size' = size - 1
      BY <2>3, InputAssumption DEF ConfirmFrame, TypeOK, Frames
    <3>1. New \in 0 .. size - 2 /\ Old = New + 1 /\ f > last_confirm
      BY <3>0 DEF Slot
    <3>2. inputs'[New] = inputs[New + 1]
      BY <2>3, <3>1 DEF ConfirmFrame
    <3>3. Read(p, f)' = inputs'[New][p] /\ Read(p, f) = inputs[Old][p]
      BY <3>1, ReadOfSlot, ReadOfSlotPrimed
    <3> QED BY <3>1, <3>2, <3>3
  <2>4. CASE UNCHANGED <<inputs, size, last_confirm>>
    BY <2>4 DEF Read, InputAt, Index, Back
  <2> QED BY <2>1, <2>2, <2>3, <2>4 DEF Next, set_inputs_from_network, CleanDirty, set_valid
<1> QED BY <1>1, TypeCorrect, PTL DEF Spec, InputsChangeForward

-----------------------------------------------------------------------------
\* Storing at frame f the input f reads as anyway changes what no unconfirmed
\* frame of that player from f on reads as, since the frames newer than the
\* last one received all read alike.
LEMMA StoreOfRead ==
  ASSUME TypeOK, TypeOK', SpeculationUniform, size > 0, UNCHANGED last_confirm,
         NEW p \in Player, NEW v \in Input, NEW f \in Frames, NEW junk \in InputVector,
         ReceiveInput(p, v, f, junk), Read(p, f) = v,
         NEW g \in Frames, g > last_confirm, f <= g
  PROVE  Read(p, g)' = Read(p, g)
<1>1. CASE OverCapacity(f)
  <2>1. UNCHANGED <<inputs, size>>
    BY <1>1 DEF ReceiveInput
  <2> QED BY <2>1 DEF Read, InputAt, Index, Back
<1>2. CASE ~OverCapacity(f)
  <2>1. Store(p, v, f, junk)
    BY <1>2 DEF ReceiveInput
  <2>2. f > last_confirm /\ Index(f) = f - last_confirm - 1
    BY <1>2, IndexRange, InputAssumption DEF OverCapacity, TypeOK, Frames
  <2>3. size' \in Nat /\ size \in Nat /\ size' >= size /\ size' > 0
    BY <2>1, <2>2, InputAssumption DEF Store, RoomFor, TypeOK, Frames
  <2>4. /\ f \in Int /\ g \in Int /\ last_confirm \in Int
        /\ last_confirm' = last_confirm /\ g > last_confirm /\ f <= g
    BY InputAssumption DEF TypeOK, Frames
  <2> DEFINE New == Slot(g - last_confirm, size')
             Old == Slot(g - last_confirm, size)
             At  == Slot(f - last_confirm, size)
  <2>5. /\ Read(p, g)' = inputs'[New][p]
        /\ Read(p, g) = inputs[Old][p]
        /\ v = inputs[At][p]
    BY <2>2, <2>3, <2>4, ReadOfSlot, ReadOfSlotPrimed
  <2>6. /\ New \in 0 .. size' - 1 /\ Old \in 0 .. size - 1 /\ At \in 0 .. size - 1
        /\ New < size => New = Old
        /\ New >= size => Old = size - 1
    BY <2>2, <2>3, <2>4, SlotFacts
  <2>7. /\ Index(f) < size => At = Index(f)
        /\ Index(f) >= size => At = size - 1
    BY <2>2, <2>3, <2>4 DEF Slot
  <2> HIDE DEF New, Old, At
  <2>8. inputs'[New][p] = IF New = Index(f) \/ (IsLatest(p, f) /\ New > Index(f))
                            THEN v ELSE IF New < size THEN inputs[New][p] ELSE Back(junk)[p]
    BY <2>1, <2>6 DEF Store
  <2>9. Back(junk) = inputs[size - 1]
    BY DEF Back
  <2>10. CASE ~(New = Index(f) \/ (IsLatest(p, f) /\ New > Index(f)))
    BY <2>3, <2>5, <2>6, <2>8, <2>9, <2>10
  <2>11. CASE New = Index(f)
    <3>1. Old = At
      BY <2>3, <2>6, <2>7, <2>11
    <3> QED BY <2>5, <2>8, <2>11, <3>1
  <2>12. CASE IsLatest(p, f) /\ New > Index(f)
    <3>1. Index(f) \in Int
      BY <2>2, <2>4
    <3>2. CASE Index(f) >= size
      <4>1. Old = At
        BY <2>3, <2>6, <2>7, <2>12, <3>1, <3>2
      <4> QED BY <2>5, <2>8, <2>12, <4>1
    <3>3. CASE Index(f) < size
      <4>1. At = Index(f) /\ At <= Old
        BY <2>3, <2>6, <2>7, <2>12, <3>1, <3>3
      <4>2. last_received[p] \in Int /\ f > last_received[p]
        BY <2>4, <2>12, InputAssumption DEF IsLatest, TypeOK, Frames
      <4>3. FrameAt(At) > last_received[p] /\ FrameAt(Old) > last_received[p]
        BY <2>2, <2>3, <2>4, <2>6, <4>1, <4>2 DEF FrameAt
      <4>4. inputs[Old][p] = inputs[At][p]
        BY <2>6, <4>3 DEF SpeculationUniform
      <4> QED BY <2>5, <2>8, <2>12, <4>4
    <3> QED BY <2>3, <3>1, <3>2, <3>3
  <2> QED BY <2>10, <2>11, <2>12
<1> QED BY <1>1, <1>2

\* An input from the network that leaves the manager clean changes what no
\* unconfirmed frame reads as.
LEMMA CleanChangesNothing ==
  ASSUME TypeOK, TypeOK', SpeculationUniform, ApplyNetworkInput, size > 0,
         ~is_dirty', NEW p \in Player, NEW f \in Frames, f > last_confirm
  PROVE  Read(p, f)' = Read(p, f)
<1> DEFINE q == call.player
           g == call.frame
           v == call.values[g]
<1>1. q \in Player /\ g \in Frames /\ v \in Input
  BY DEF ApplyNetworkInput, TypeOK, Idle, Call
<1>2. PICK junk \in InputVector :
        (is_dirty' = (is_dirty \/ InputAt(q, g, junk) # v)) /\ ReceiveInput(q, v, g, junk)
  BY DEF ApplyNetworkInput
<1>3. Read(q, g) = v
  <2>1. InputAt(q, g, junk) = v
    BY <1>2
  <2> QED BY <2>1 DEF Read, InputAt, Back
<1>4. UNCHANGED last_confirm
  BY DEF ApplyNetworkInput
<1> HIDE DEF q, g, v
<1>5. CASE p # q \/ f < g
  BY <1>1, <1>2, <1>4, <1>5, StoreChangesForward
<1>6. CASE p = q /\ g <= f
  BY <1>1, <1>2, <1>3, <1>4, <1>6, StoreOfRead
<1> QED BY <1>1, <1>5, <1>6, InputAssumption DEF Frames

\* No input from the network that changes what an unconfirmed frame reads as
\* leaves is_dirty false.
THEOREM DirtyCorrect == Spec => DirtyDetectsChange
<1> DEFINE Changed == \E p \in Player, f \in Frames :
                        f > last_confirm /\ Read(p, f)' # Read(p, f)
<1>1. TypeOK /\ TypeOK' /\ SpeculationUniform /\ [Next]_vars
        => [ApplyNetworkInput /\ size > 0 /\ Changed => is_dirty']_vars
  BY CleanChangesNothing
<1> QED BY <1>1, TypeCorrect, UniformCorrect, PTL DEF Spec, DirtyDetectsChange

=============================================================================
