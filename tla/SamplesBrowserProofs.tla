------------------------ MODULE SamplesBrowserProofs ------------------------
(***************************************************************************)
(* Proofs about SamplesBrowser, for every set of observers, either kind of *)
(* renderer, and frames and fixed steps of every length: however samples   *)
(* are switched and wherever the window is closed, systems and samples are *)
(* called between their Begin and End, no free slot is dereferenced and    *)
(* one sample is in the world.                                             *)
(***************************************************************************)
EXTENDS SamplesBrowser, TLAPS, SequenceTheorems, FiniteSetTheorems, WellFoundedInduction

-----------------------------------------------------------------------------
(* The inductive invariant. *)

Slots == Seq(Observer \cup {Null})

\* o is in one of the slots.
Holds(slots, o) == \E i \in 1 .. Len(slots) : slots[i] = o

\* Nobody is in two slots.
Once(slots) ==
  \A i, j \in 1 .. Len(slots) : slots[i] = slots[j] /\ slots[i] # Null => i = j

\* The slots of the subjects the program uses: systems register once, the
\* browser with the GUI too, and to draw there is the current sample between
\* Begin and End of the browser and a free slot afterwards.
SubjectsOK ==
  /\ Once(observers["system"])
  /\ \A o \in Observer \ System : ~Holds(observers["system"], o)
  /\ observers["event"] = <<>>
  /\ observers["gui"] = IF Holds(observers["system"], Browser) THEN <<Browser>> ELSE <<>>
  /\ Browser \in begun => observers["draw"] = <<current>>
  /\ Browser \notin begun => observers["draw"] \in {<<>>, <<Null>>}

Between == {"off", "threw"}
InFrame == {"poll", "event", "gui", "update", "steps", "fixed", "predraw", "draw", "postdraw"}

\* The systems that have begun: those before the cursor while they begin,
\* those from the cursor on while they end, and all of them in a frame.
BegunOK ==
  LET slots == observers["system"]
  IN  /\ pass \in Between => begun = {}
      /\ pass = "begin" => \A s \in System : s \in begun <=> \E i \in 1 .. cursor - 1 : slots[i] = s
      /\ pass = "end" => \A s \in System : s \in begun <=> \E i \in cursor .. span : slots[i] = s
      /\ pass \in InFrame => \A s \in System : s \in begun <=> Holds(slots, s)
      /\ pass \notin Between => Holds(slots, Browser)

\* Less than a step is left until the frame's time is added, and after its
\* fixed steps unless the window was closed in one of them.
TimeOK ==
  /\ pass \in {"begin", "poll", "event", "gui", "update"} => dt_fix < FixedDt
  /\ pass = "fixed" => dt_fix >= FixedDt
  /\ pass \in {"predraw", "draw", "postdraw"} /\ is_open => dt_fix < FixedDt

\* The current sample, and no other, is in the world while the browser runs.
WorldOK ==
  /\ objects = [s \in Sample |-> IF Browser \in begun /\ s = current THEN 1 ELSE 0]
  /\ listener = IF Browser \in begun /\ current # Solar THEN current ELSE Null

BrowserInv ==
  /\ BrowserTypeOK
  /\ NoNullCalls
  /\ SubjectsOK
  /\ BegunOK
  /\ TimeOK
  /\ WorldOK

-----------------------------------------------------------------------------
(* Who is who. *)

\* One more element: the set has one more, unless it had it already.
LEMMA OneMore ==
  ASSUME NEW S, IsFiniteSet(S), NEW x
  PROVE  /\ IsFiniteSet(S \cup {x})
         /\ Cardinality(S) \in Nat
         /\ \/ Cardinality(S \cup {x}) = Cardinality(S)
            \/ Cardinality(S \cup {x}) = Cardinality(S) + 1 /\ x \notin S
<1>1. Cardinality(S) \in Nat
  BY FS_CardinalityType
<1>2. /\ IsFiniteSet(S \cup {x})
      /\ Cardinality(S \cup {x}) = IF x \in S THEN Cardinality(S) ELSE Cardinality(S) + 1
  BY FS_AddElement
<1> QED BY <1>1, <1>2

\* The five observers of the program are different ones, and none is nullptr.
LEMMA Distinct ==
  /\ Browser # Closer /\ {Browser, Closer} \cap {Solar, Colliders, Bounce} = {}
  /\ Null \notin System /\ Null \notin Sample
  /\ Solar \in Sample /\ Browser \in System
  /\ System \subseteq Observer /\ Sample \subseteq Observer
<1> PICK A : A = {Browser}
  OBVIOUS
<1> PICK B : B = A \cup {Closer}
  OBVIOUS
<1> PICK C : C = B \cup {Solar}
  OBVIOUS
<1> PICK D : D = C \cup {Colliders}
  OBVIOUS
<1> PICK E : E = D \cup {Bounce}
  OBVIOUS
<1>1. IsFiniteSet(A) /\ Cardinality(A) = 1
  BY FS_Singleton
<1>2. /\ IsFiniteSet(B)
      /\ Cardinality(B) = 1 \/ (Cardinality(B) = 2 /\ Closer \notin A)
  BY <1>1, OneMore
<1>3. /\ IsFiniteSet(C) /\ Cardinality(B) \in Nat
      /\ Cardinality(C) = Cardinality(B) \/ (Cardinality(C) = Cardinality(B) + 1 /\ Solar \notin B)
  BY <1>2, OneMore
<1>4. /\ IsFiniteSet(D) /\ Cardinality(C) \in Nat
      /\ Cardinality(D) = Cardinality(C) \/ (Cardinality(D) = Cardinality(C) + 1 /\ Colliders \notin C)
  BY <1>3, OneMore
<1>5. /\ Cardinality(D) \in Nat
      /\ Cardinality(E) = Cardinality(D) \/ (Cardinality(E) = Cardinality(D) + 1 /\ Bounce \notin D)
  BY <1>4, OneMore
<1>6. E = System \cup Sample
  BY DEF System, Sample
<1>7. Cardinality(E) = 5 /\ System \cup Sample \subseteq Observer
  BY <1>6, BrowserAssumption
<1>8. Closer \notin A /\ Solar \notin B /\ Colliders \notin C /\ Bounce \notin D
  BY <1>2, <1>3, <1>4, <1>5, <1>7
<1> QED BY <1>7, <1>8, EngineAssumption DEF System, Sample

-----------------------------------------------------------------------------
(* ObserverSubject. *)

\* Some slots have a first one.
LEMMA FirstExists ==
  ASSUME NEW n \in Nat, NEW S \in SUBSET (1 .. n), S # {}
  PROVE  \E i \in S : \A j \in S : i <= j
<1> DEFINE R == StrictSubsetOrdering(1 .. n)
           T == {1 .. i : i \in S}
<1>1. IsWellFoundedOn(R, SUBSET (1 .. n))
  <2>1. IsFiniteSet(1 .. n)
    BY FS_Interval
  <2>2. FiniteSubsetsOf(1 .. n) = SUBSET (1 .. n)
    BY <2>1, FS_FiniteSubsetsOfFinite
  <2>3. IsWellFoundedOn(R, FiniteSubsetsOf(1 .. n))
    BY FS_StrictSubsetOrderingWellFounded
  <2> QED BY <2>2, <2>3
<1>2. \A i \in S, j \in S : j < i => <<1 .. j, 1 .. i>> \in R
  <2> TAKE i \in S, j \in S
  <2>1. HAVE j < i
  <2>2. 1 .. j \in SUBSET (1 .. n) /\ 1 .. i \in SUBSET (1 .. n)
    OBVIOUS
  <2>3. 1 .. j \subseteq 1 .. i /\ i \in 1 .. i /\ i \notin 1 .. j
    BY <2>1
  <2> QED BY <2>2, <2>3 DEF StrictSubsetOrdering
<1> HIDE DEF R
<1>3. PICK k : k \in S
  OBVIOUS
<1>4. 1 .. k \in T
  BY <1>3
<1>5. T \subseteq SUBSET (1 .. n)
  <2>1. \A i \in S : 1 .. i \in SUBSET (1 .. n)
    OBVIOUS
  <2> QED BY <2>1
<1>6. PICK x \in T : \A y \in T : ~ (<<y, x>> \in R)
  BY <1>1, <1>4, <1>5, WFMin
<1>7. PICK i \in S : x = 1 .. i
  OBVIOUS
<1>8. ASSUME NEW j \in S PROVE i <= j
  <2>1. 1 .. j \in T
    OBVIOUS
  <2>2. ~ (<<1 .. j, 1 .. i>> \in R)
    BY <1>6, <1>7, <2>1
  <2> QED BY <1>2, <2>2
<1> QED BY <1>8

\* AddObserver fills a free slot, or has a new one when none is free.
LEMMA AddedSlots ==
  ASSUME NEW slots \in Slots, NEW o \in Observer
  PROVE  /\ Added(slots, o) \in Slots
         /\ \E k \in 1 .. Len(slots) + 1 :
              /\ Len(Added(slots, o)) = IF k = Len(slots) + 1 THEN k ELSE Len(slots)
              /\ Added(slots, o)[k] = o
              /\ \A i \in 1 .. Len(slots) : i # k => Added(slots, o)[i] = slots[i]
              /\ k = Len(slots) + 1 <=> ~Holds(slots, Null)
              /\ k # Len(slots) + 1 => slots[k] = Null
<1> PICK free : free = {i \in DOMAIN slots : slots[i] = Null}
  OBVIOUS
<1>1. Len(slots) \in Nat /\ DOMAIN slots = 1 .. Len(slots)
  BY LenProperties DEF Slots
<1>2. CASE free = {}
  <2>1. Added(slots, o) = Append(slots, o)
    BY <1>2 DEF Added
  <2>2. /\ Append(slots, o) \in Slots /\ Len(Append(slots, o)) = Len(slots) + 1
        /\ Append(slots, o)[Len(slots) + 1] = o
        /\ \A i \in 1 .. Len(slots) : Append(slots, o)[i] = slots[i]
    BY AppendProperties DEF Slots
  <2>3. ~Holds(slots, Null) /\ Len(slots) + 1 \in 1 .. Len(slots) + 1
    BY <1>1, <1>2 DEF Holds
  <2> QED BY <1>1, <2>1, <2>2, <2>3
<1>3. CASE free # {}
  <2> DEFINE k == CHOOSE i \in free : \A j \in free : i <= j
  <2>1. k \in free
    BY <1>1, <1>3, FirstExists
  <2>2. Added(slots, o) = [slots EXCEPT ![k] = o]
    BY <1>3 DEF Added
  <2> HIDE DEF k
  <2>3. k \in 1 .. Len(slots) /\ slots[k] = Null
    BY <1>1, <2>1
  <2>4. [slots EXCEPT ![k] = o] \in Slots /\ Len([slots EXCEPT ![k] = o]) = Len(slots)
    BY <2>3, ExceptSeq DEF Slots
  <2>5. Holds(slots, Null) /\ k # Len(slots) + 1 /\ k \in 1 .. Len(slots) + 1
    BY <1>1, <2>3 DEF Holds
  <2>6. /\ [slots EXCEPT ![k] = o][k] = o
        /\ \A i \in 1 .. Len(slots) : i # k => [slots EXCEPT ![k] = o][i] = slots[i]
    BY <1>1, <2>3
  <2> QED BY <2>2, <2>3, <2>4, <2>5, <2>6
<1> QED BY <1>2, <1>3

\* RemoveObserver frees a slot of the observer.
LEMMA RemovedSlots ==
  ASSUME NEW slots \in Slots, NEW o, Holds(slots, o)
  PROVE  /\ Removed(slots, o) \in Slots
         /\ Len(Removed(slots, o)) = Len(slots)
         /\ \E k \in 1 .. Len(slots) :
              /\ slots[k] = o
              /\ Removed(slots, o)[k] = Null
              /\ \A i \in 1 .. Len(slots) : i # k => Removed(slots, o)[i] = slots[i]
<1> PICK mine : mine = {i \in DOMAIN slots : slots[i] = o}
  OBVIOUS
<1>1. Len(slots) \in Nat /\ DOMAIN slots = 1 .. Len(slots)
  BY LenProperties DEF Slots
<1>2. mine # {}
  BY <1>1 DEF Holds
<1> DEFINE k == CHOOSE i \in mine : \A j \in mine : i <= j
<1>3. k \in mine
  BY <1>1, <1>2, FirstExists
<1>4. Removed(slots, o) = [slots EXCEPT ![k] = Null]
  BY DEF Removed
<1> HIDE DEF k
<1>5. k \in 1 .. Len(slots) /\ slots[k] = o
  BY <1>1, <1>3
<1>6. [slots EXCEPT ![k] = Null] \in Slots /\ Len([slots EXCEPT ![k] = Null]) = Len(slots)
  BY <1>5, ExceptSeq DEF Slots
<1>7. /\ [slots EXCEPT ![k] = Null][k] = Null
      /\ \A i \in 1 .. Len(slots) : i # k => [slots EXCEPT ![k] = Null][i] = slots[i]
  BY <1>1, <1>5
<1> QED BY <1>4, <1>5, <1>6, <1>7

\* An observer of an empty subject, or of one with a free slot, is its only
\* one, and removing the only one leaves a free slot.
LEMMA OneSlot ==
  ASSUME NEW o \in Observer
  PROVE  /\ Added(<<>>, o) = <<o>>
         /\ Added(<<Null>>, o) = <<o>>
         /\ Removed(<<o>>, o) = <<Null>>
<1>1. <<>> \in Slots /\ <<Null>> \in Slots /\ <<o>> \in Slots
  BY DEF Slots
<1>2. Len(<<>>) = 0 /\ Len(<<Null>>) = 1 /\ Len(<<o>>) = 1
  OBVIOUS
<1>3. ASSUME NEW s \in Slots, Len(s) = 1, NEW x, s[1] = x PROVE s = <<x>>
  <2>1. s \in Seq(Observer \cup {Null}) /\ DOMAIN s = 1 .. 1
    BY <1>3, LenProperties DEF Slots
  <2> QED BY <1>3, <2>1
<1>4. Added(<<>>, o) = <<o>>
  <2>1. Added(<<>>, o) \in Slots
    BY <1>1, AddedSlots
  <2>2. PICK k \in 1 .. Len(<<>>) + 1 :
          /\ Len(Added(<<>>, o)) = IF k = Len(<<>>) + 1 THEN k ELSE Len(<<>>)
          /\ Added(<<>>, o)[k] = o
    BY <1>1, AddedSlots
  <2>3. k = 1
    BY <1>2, <2>2
  <2> QED BY <1>2, <1>3, <2>1, <2>2, <2>3
<1>5. Added(<<Null>>, o) = <<o>>
  <2>1. Holds(<<Null>>, Null)
    BY DEF Holds
  <2>2. Added(<<Null>>, o) \in Slots
    BY <1>1, AddedSlots
  <2>3. PICK k \in 1 .. Len(<<Null>>) + 1 :
          /\ Len(Added(<<Null>>, o)) = IF k = Len(<<Null>>) + 1 THEN k ELSE Len(<<Null>>)
          /\ Added(<<Null>>, o)[k] = o
          /\ k = Len(<<Null>>) + 1 <=> ~Holds(<<Null>>, Null)
    BY <1>1, AddedSlots
  <2>4. k = 1
    BY <1>2, <2>1, <2>3
  <2> QED BY <1>2, <1>3, <2>2, <2>3, <2>4
<1>6. Removed(<<o>>, o) = <<Null>>
  <2>1. Holds(<<o>>, o)
    BY DEF Holds
  <2>2. /\ Removed(<<o>>, o) \in Slots /\ Len(Removed(<<o>>, o)) = 1
        /\ \E k \in 1 .. 1 : Removed(<<o>>, o)[k] = Null
    BY <1>1, <1>2, <2>1, RemovedSlots
  <2> QED BY <2>2, <1>3
<1> QED BY <1>4, <1>5, <1>6

-----------------------------------------------------------------------------
(* RunEngine. *)

\* The passes, and the subjects they go over.
LEMMA Subjects ==
  /\ DOMAIN SubjectOf = {"begin", "event", "gui", "update", "fixed", "predraw", "draw",
                         "postdraw", "end"}
  /\ \A p \in {"begin", "update", "fixed", "end"} : SubjectOf[p] = "system"
  /\ \A p \in {"predraw", "draw", "postdraw"} : SubjectOf[p] = "draw"
  /\ SubjectOf["event"] = "event" /\ SubjectOf["gui"] = "gui"
  /\ \A p \in DOMAIN SubjectOf : p \in Pass /\ SubjectOf[p] \in Subject
BY DEF SubjectOf, Subject, Pass

\* Every subject has its slots.
LEMMA SubjectSlots ==
  ASSUME EngineTypeOK, NEW s \in Subject
  PROVE  observers[s] \in Slots /\ Len(observers[s]) \in Nat
<1>1. observers[s] \in Slots
  BY DEF EngineTypeOK, Slots
<1> QED BY <1>1, LenProperties DEF Slots

\* The length of a span is a number.
LEMMA SpanType ==
  ASSUME EngineTypeOK, pass \in DOMAIN SubjectOf
  PROVE  span = Len(Observers) /\ span \in Nat
<1>1. SubjectOf[pass] \in Subject
  BY Subjects
<1> QED BY <1>1, SubjectSlots DEF EngineTypeOK, Observers

\* A pass begins at the first slot of its span.
LEMMA EnterType ==
  ASSUME EngineTypeOK, NEW p \in Pass, Enter(p), UNCHANGED observers,
         is_open' \in BOOLEAN, dt_fix' \in 0 .. FixedDt + MaxDt - 1
  PROVE  EngineTypeOK' /\ cursor' = 1
<1>1. CASE p \in DOMAIN SubjectOf
  <2>1. SubjectOf[p] \in Subject
    BY <1>1, Subjects
  <2>2. Len(observers[SubjectOf[p]]) \in Nat
    BY <2>1, SubjectSlots
  <2>3. pass' = p /\ cursor' = 1 /\ span' = Len(observers[SubjectOf[p]])
    BY <1>1 DEF Enter
  <2> QED BY <2>2, <2>3 DEF EngineTypeOK, Observers
<1>2. CASE p \notin DOMAIN SubjectOf
  BY <1>2 DEF EngineTypeOK, Enter
<1> QED BY <1>1, <1>2

\* The places that control goes to from each place, with the time that is
\* left.  A pass is left at the end of its span.
Moves(p) ==
  /\ \/ pass = "off" /\ p \in {"begin", "threw"}
     \/ pass = "begin" /\ cursor > span /\ p \in {"poll", "end"}
     \/ pass \in InFrame /\ p \in InFrame \cup {"end"}
     \/ pass = "end" /\ cursor > span /\ p = "off"
  /\ Enter(p)

\* A step of RunEngine moves, or skips a free slot: with no observers of
\* events, and the current sample to draw in every frame, none is
\* dereferenced.
LEMMA LoopMoves ==
  ASSUME BrowserInv, RunEngine
  PROVE  /\ UNCHANGED observers
         /\ \/ \E p \in Pass \ {"crashed"} : Moves(p)
            \/ /\ pass \in DOMAIN SubjectOf /\ cursor <= span /\ Observers[cursor] = Null
               /\ cursor' = cursor + 1
               /\ UNCHANGED <<pass, span, is_open, dt_fix>>
<1> USE DEF Moves
<1>0. InFrame \cup {"begin", "end", "off", "threw"} \subseteq Pass \ {"crashed"}
  BY Subjects DEF InFrame, Pass
<1>1. CASE FreeSlot
  <2>1. /\ pass \in DOMAIN SubjectOf /\ cursor \in 1 .. span /\ Observers[cursor] = Null
        /\ span = Len(Observers) /\ cursor <= span
    BY <1>1 DEF FreeSlot, BrowserInv, BrowserTypeOK, EngineTypeOK
  <2>2. ~Dereferences(pass)
    <3>1. pass # "event"
      BY <2>1, Subjects DEF Observers, BrowserInv, SubjectsOK
    <3>2. ASSUME SubjectOf[pass] = "draw" PROVE FALSE
      <4>1. pass \in {"predraw", "draw", "postdraw"}
        BY <2>1, <3>2, Subjects
      <4>2. Browser \in begun
        BY <4>1, Distinct DEF BrowserInv, BegunOK, Between, InFrame
      <4>3. observers["draw"] = <<current>> /\ current \in Sample
        BY <4>2 DEF BrowserInv, SubjectsOK, BrowserTypeOK
      <4>4. current = Null
        BY <2>1, <3>2, <4>3 DEF Observers
      <4> QED BY <4>3, <4>4, Distinct
    <3> QED BY <3>1, <3>2 DEF Dereferences
  <2> QED BY <1>1, <2>1, <2>2 DEF FreeSlot
<1>2. CASE Start \/ StartFails
  BY <1>0, <1>2 DEF Start, StartFails
<1>3. CASE Finish("begin", FrameOrEnd) \/ Finish("postdraw", FrameOrEnd) \/ Finish("end", "off")
  BY <1>0, <1>3 DEF Finish, FrameOrEnd, InFrame
<1>4. CASE \/ Finish("event", "poll") \/ Finish("gui", "update") \/ Finish("predraw", "draw")
           \/ Finish("draw", "postdraw")
  BY <1>0, <1>4 DEF Finish, InFrame
<1>5. CASE \/ \E quit \in BOOLEAN : EventPolled(quit)
           \/ QueueEmpty
           \/ \E dt \in 0 .. MaxDt : AddTime(dt)
           \/ StepOrDraw
           \/ StepDone
  BY <1>0, <1>5 DEF EventPolled, QueueEmpty, AddTime, StepOrDraw, StepDone, InFrame
<1> QED BY <1>1, <1>2, <1>3, <1>4, <1>5 DEF RunEngine

\* RunEngine keeps track of the time, and of the window.
LEMMA LoopTime ==
  ASSUME BrowserInv, RunEngine
  PROVE  TimeOK' /\ is_open' \in BOOLEAN /\ dt_fix' \in 0 .. FixedDt + MaxDt - 1
<1> USE DEF TimeOK, Enter
<1>1. /\ is_open \in BOOLEAN /\ dt_fix \in 0 .. FixedDt + MaxDt - 1
      /\ FixedDt \in Nat \ {0} /\ MaxDt \in Nat /\ TimeOK
  BY EngineAssumption DEF BrowserInv, BrowserTypeOK, EngineTypeOK
<1>2. CASE FreeSlot
  <2>1. (pass' = pass \/ pass' = "crashed") /\ UNCHANGED <<is_open, dt_fix>>
    BY <1>2 DEF FreeSlot
  <2> QED BY <1>1, <2>1
<1>3. CASE Start \/ StartFails
  <2>1. CASE Start
    BY <1>1, <2>1 DEF Start
  <2>2. CASE StartFails
    <3>1. pass' = "threw" /\ is_open' \in BOOLEAN /\ dt_fix' = dt_fix
      BY <1>1, <2>2 DEF StartFails
    <3> QED BY <1>1, <3>1
  <2> QED BY <1>3, <2>1, <2>2
<1>4. CASE Finish("begin", FrameOrEnd) \/ Finish("postdraw", FrameOrEnd) \/ Finish("end", "off")
  BY <1>1, <1>4 DEF Finish, FrameOrEnd
<1>5. CASE \/ Finish("event", "poll") \/ Finish("gui", "update") \/ Finish("predraw", "draw")
           \/ Finish("draw", "postdraw")
  BY <1>1, <1>5 DEF Finish
<1>6. CASE (\E quit \in BOOLEAN : EventPolled(quit)) \/ QueueEmpty
  BY <1>1, <1>6 DEF EventPolled, QueueEmpty
<1>7. CASE \E dt \in 0 .. MaxDt : AddTime(dt)
  BY <1>1, <1>7 DEF AddTime
<1>8. CASE StepOrDraw
  BY <1>1, <1>8 DEF StepOrDraw
<1>9. CASE StepDone
  BY <1>1, <1>9 DEF StepDone
<1> QED BY <1>2, <1>3, <1>4, <1>5, <1>6, <1>7, <1>8, <1>9 DEF RunEngine

\* Whoever is in a slot of the systems is a system or nullptr.
LEMMA SystemSlots ==
  ASSUME BrowserInv
  PROVE  /\ observers["system"] \in Slots /\ Len(observers["system"]) \in Nat
         /\ \A i \in 1 .. Len(observers["system"]) : observers["system"][i] \in System \cup {Null}
         /\ Once(observers["system"])
         /\ begun \subseteq System
<1>1. observers["system"] \in Slots /\ Len(observers["system"]) \in Nat
  BY SubjectSlots DEF BrowserInv, BrowserTypeOK, Subject
<1>2. \A i \in 1 .. Len(observers["system"]) : observers["system"][i] \in Observer \cup {Null}
  BY <1>1, ElementOfSeq DEF Slots
<1> QED BY <1>1, <1>2 DEF BrowserInv, BrowserTypeOK, SubjectsOK, Holds

\* RunEngine moves on when everybody has begun, and when everybody has ended.
LEMMA LoopBegun ==
  ASSUME BrowserInv, RunEngine, UNCHANGED begun,
         pass = "off" => Holds(observers["system"], Browser)
  PROVE  BegunOK'
<1> PICK s : s = observers["system"]
  OBVIOUS
<1>1. /\ Len(s) \in Nat /\ \A i \in 1 .. Len(s) : s[i] \in System \cup {Null}
      /\ begun \subseteq System /\ Null \notin System /\ Browser \in System
  BY SystemSlots, Distinct
<1>2. observers' = observers /\ begun' = begun
  BY LoopMoves
<1>3. /\ pass \in {"begin", "end"} => span = Len(s) /\ cursor \in 1 .. span + 1
      /\ cursor \in Int
  BY Subjects DEF BrowserInv, BrowserTypeOK, EngineTypeOK, Observers
<1>4. BegunOK
  BY DEF BrowserInv
<1>5. ASSUME pass' \in Between => begun = {},
             pass' = "begin" => \A d \in System : d \in begun <=> \E i \in 1 .. cursor' - 1 : s[i] = d,
             pass' = "end" => \A d \in System : d \in begun <=> \E i \in cursor' .. span' : s[i] = d,
             pass' \in InFrame => \A d \in System : d \in begun <=> Holds(s, d),
             pass' \notin Between => Holds(s, Browser)
      PROVE  BegunOK'
  BY <1>2, <1>5 DEF BegunOK, Holds
<1>6. \A d : Holds(s, d) <=> \E i \in 1 .. Len(s) : s[i] = d
  BY DEF Holds
<1>7. ASSUME NEW p \in Pass \ {"crashed"}, Moves(p) PROVE BegunOK'
  <2>1. /\ pass' = p /\ cursor' = 1
        /\ p = "end" => span' = Len(s)
    BY <1>7, Subjects DEF Moves, Enter
  <2>2. CASE pass = "off" /\ p \in {"begin", "threw"}
    <3>1. begun = {} /\ Holds(s, Browser)
      BY <1>4, <2>2 DEF BegunOK, Between
    <3> QED BY <1>5, <2>1, <2>2, <3>1 DEF Between, InFrame
  <2>3. CASE pass = "begin" /\ cursor > span /\ p \in {"poll", "end"}
    <3>1. 1 .. cursor - 1 = 1 .. Len(s)
      BY <1>1, <1>3, <2>3
    <3>2. (\A d \in System : d \in begun <=> Holds(s, d)) /\ Holds(s, Browser)
      BY <1>4, <1>6, <2>3, <3>1 DEF BegunOK, Between
    <3> QED BY <1>5, <1>6, <2>1, <2>3, <3>2 DEF Between, InFrame
  <2>4. CASE pass \in InFrame /\ p \in InFrame \cup {"end"}
    <3>1. (\A d \in System : d \in begun <=> Holds(s, d)) /\ Holds(s, Browser)
      BY <1>4, <2>4 DEF BegunOK, Between, InFrame
    <3> QED BY <1>5, <1>6, <2>1, <2>4, <3>1 DEF Between, InFrame
  <2>5. CASE pass = "end" /\ cursor > span /\ p = "off"
    <3>1. cursor .. span = {}
      BY <1>3, <2>5
    <3>2. \A d \in System : d \notin begun
      BY <1>4, <2>5, <3>1 DEF BegunOK
    <3>3. begun = {}
      BY <1>1, <3>2
    <3> QED BY <1>5, <2>1, <2>5, <3>3 DEF Between, InFrame
  <2> QED BY <1>7, <2>2, <2>3, <2>4, <2>5 DEF Moves
<1>8. ASSUME pass \in DOMAIN SubjectOf, cursor <= span, Observers[cursor] = Null,
             cursor' = cursor + 1, UNCHANGED <<pass, span>>
      PROVE  BegunOK'
  <2>1. pass \in {"begin", "end"} => s[cursor] = Null
    BY <1>8, Subjects DEF Observers
  <2>2. CASE pass = "begin"
    <3>1. \A i \in 1 .. cursor' - 1 : i \in 1 .. cursor - 1 \/ i = cursor
      BY <1>3, <1>8, <2>2
    <3>2. 1 .. cursor - 1 \subseteq 1 .. cursor' - 1
      BY <1>3, <1>8, <2>2
    <3>3. \A d \in System : d \in begun <=> \E i \in 1 .. cursor' - 1 : s[i] = d
      BY <1>1, <1>4, <2>1, <2>2, <3>1, <3>2 DEF BegunOK
    <3>4. Holds(s, Browser)
      BY <1>4, <2>2 DEF BegunOK, Between
    <3> QED BY <1>8, <1>5, <2>2, <3>3, <3>4 DEF Between, InFrame
  <2>3. CASE pass = "end"
    <3>1. \A i \in cursor .. span : i \in cursor' .. span \/ i = cursor
      BY <1>3, <1>8, <2>3
    <3>2. cursor' .. span \subseteq cursor .. span
      BY <1>3, <1>8, <2>3
    <3>3. \A d \in System : d \in begun <=> \E i \in cursor' .. span' : s[i] = d
      BY <1>1, <1>4, <1>8, <2>1, <2>3, <3>1, <3>2 DEF BegunOK
    <3>4. Holds(s, Browser)
      BY <1>4, <2>3 DEF BegunOK, Between
    <3> QED BY <1>8, <1>5, <2>3, <3>3, <3>4 DEF Between, InFrame
  <2>4. CASE pass \notin {"begin", "end"}
    BY <1>4, <1>8, <1>5, <2>4 DEF BegunOK
  <2> QED BY <2>2, <2>3, <2>4
<1> QED BY <1>7, <1>8, LoopMoves

\* The engine by itself keeps the invariant.
LEMMA LoopStep ==
  ASSUME BrowserInv, Run
  PROVE  BrowserInv'
<1>1. RunEngine /\ UNCHANGED browserVars
  BY DEF Run, Keep
<1>2. UNCHANGED <<observers, current, objects, listener, begun>>
  BY <1>1, LoopMoves DEF browserVars
<1>3. pass = "off" => Holds(observers["system"], Browser)
  <2>1. SUFFICES ASSUME Browser \in Registered("system")
                 PROVE  Holds(observers["system"], Browser)
    BY DEF Run
  <2>2. DOMAIN observers["system"] = 1 .. Len(observers["system"])
    BY SystemSlots, LenProperties DEF Slots
  <2> QED BY <2>1, <2>2 DEF Registered, Holds
<1>4. TimeOK' /\ BegunOK'
  BY <1>1, <1>2, <1>3, LoopTime, LoopBegun
<1>5. EngineTypeOK' /\ NoNullCalls'
  <2>1. EngineTypeOK
    BY DEF BrowserInv, BrowserTypeOK
  <2>2. ASSUME NEW p \in Pass \ {"crashed"}, Moves(p) PROVE EngineTypeOK' /\ NoNullCalls'
    <3>1. pass' = p
      BY <2>2 DEF Moves, Enter
    <3> QED BY <1>1, <1>2, <2>1, <2>2, <3>1, EnterType, LoopTime DEF Moves, NoNullCalls
  <2>3. ASSUME pass \in DOMAIN SubjectOf, cursor <= span, cursor' = cursor + 1,
               UNCHANGED <<pass, span, is_open, dt_fix>>
        PROVE  EngineTypeOK' /\ NoNullCalls'
    <3>1. NoNullCalls'
      BY <2>3 DEF BrowserInv, NoNullCalls
    <3>2. cursor' \in 1 .. span' + 1
      <4>1. cursor \in 1 .. span + 1 /\ span \in Int
        BY <2>1, <2>3, SpanType DEF EngineTypeOK
      <4> QED BY <2>3, <4>1
    <3> QED BY <1>2, <2>1, <2>3, <3>1, <3>2 DEF EngineTypeOK, Observers
  <2> QED BY <1>1, <2>2, <2>3, LoopMoves
<1> QED BY <1>2, <1>4, <1>5 DEF BrowserInv, BrowserTypeOK, SubjectsOK, WorldOK

-----------------------------------------------------------------------------
(* Calls. *)

\* A call that leaves the slots of its pass alone keeps the types.
LEMMA CallType ==
  ASSUME EngineTypeOK, pass \in DOMAIN SubjectOf, cursor <= span, Advance,
         is_open' \in BOOLEAN,
         observers' \in [Subject -> Slots], Observers' = Observers
  PROVE  EngineTypeOK'
<1>1. cursor' = cursor + 1 /\ UNCHANGED <<dt_fix, pass, span>>
  BY DEF Advance
<1>2. cursor \in 1 .. span + 1 /\ span \in Nat
  BY SpanType DEF EngineTypeOK
<1>3. cursor' \in 1 .. span' + 1
  BY <1>1, <1>2
<1> QED BY <1>1, <1>3 DEF EngineTypeOK, Slots

\* Whoever is called is in the slot at the cursor.
LEMMA CallSlot ==
  ASSUME BrowserInv, NEW p \in DOMAIN SubjectOf, NEW o, Calling(p, o)
  PROVE  /\ pass = p /\ cursor \in 1 .. span /\ span = Len(observers[SubjectOf[p]])
         /\ observers[SubjectOf[p]][cursor] = o
         /\ SubjectOf[p] = "system" => Holds(observers["system"], o)
<1>1. pass = p /\ cursor <= span /\ Observers[cursor] = o
  BY DEF Calling
<1>2. cursor \in 1 .. span + 1 /\ span \in Nat /\ span = Len(Observers)
  BY <1>1, SpanType DEF BrowserInv, BrowserTypeOK, EngineTypeOK
<1>3. cursor \in 1 .. span
  BY <1>1, <1>2
<1> QED BY <1>1, <1>2, <1>3 DEF Observers, Holds

\* All systems have begun in a frame.
LEMMA BegunInFrame ==
  ASSUME BrowserInv, pass \in InFrame
  PROVE  /\ Browser \in begun
         /\ \A s \in System : Holds(observers["system"], s) => s \in begun
BY Distinct DEF BrowserInv, BegunOK, Between, InFrame

\* A call of the program within a frame that returns, or closes the window.
LEMMA KeptCall ==
  ASSUME BrowserInv, NEW p \in DOMAIN SubjectOf \ {"begin", "end"}, NEW o,
         Calling(p, o), Advance, UNCHANGED observers, UNCHANGED browserVars,
         is_open' = is_open \/ (is_open' = FALSE /\ p \in {"update", "fixed"})
  PROVE  BrowserInv'
<1>1. /\ pass = p /\ cursor' = cursor + 1 /\ UNCHANGED <<dt_fix, pass, span>>
      /\ UNCHANGED <<current, objects, listener, begun>>
  BY DEF Calling, Advance, browserVars
<1>2. is_open' \in BOOLEAN
  BY DEF BrowserInv, BrowserTypeOK, EngineTypeOK
<1>3. EngineTypeOK'
  BY <1>1, <1>2, CallType DEF BrowserInv, BrowserTypeOK, EngineTypeOK, Slots, Observers, Calling
<1>4. TimeOK'
  BY <1>1 DEF BrowserInv, TimeOK
<1>5. BegunOK'
  BY <1>1 DEF BrowserInv, BegunOK, Holds
<1>6. NoNullCalls' /\ SubjectsOK' /\ WorldOK'
  BY <1>1 DEF BrowserInv, NoNullCalls, SubjectsOK, WorldOK
<1>7. BrowserTypeOK'
  BY <1>1, <1>3 DEF BrowserInv, BrowserTypeOK
<1> QED BY <1>4, <1>5, <1>6, <1>7 DEF BrowserInv

\* A system begins once.
LEMMA BeginCall ==
  ASSUME BrowserInv, NEW o \in System, Calling("begin", o)
  PROVE  /\ o \notin begun
         /\ Advance /\ begun' = begun \cup {o} /\ observers'["system"] = observers["system"]
              => BegunOK'
<1> PICK s : s = observers["system"]
  OBVIOUS
<1>1. /\ pass = "begin" /\ cursor \in 1 .. Len(s) /\ s[cursor] = o
      /\ Len(s) \in Nat /\ Once(s) /\ o # Null
  BY CallSlot, SystemSlots, Subjects, Distinct
<1>2. \A d \in System : d \in begun <=> \E i \in 1 .. cursor - 1 : s[i] = d
  BY <1>1 DEF BrowserInv, BegunOK
<1>3. o \notin begun
  <2>1. \A i \in 1 .. cursor - 1 : i \in 1 .. Len(s) /\ i # cursor
    BY <1>1
  <2>2. ASSUME NEW i \in 1 .. cursor - 1, s[i] = o PROVE FALSE
    BY <1>1, <2>1, <2>2 DEF Once
  <2> QED BY <1>2, <2>2
<1>4. ASSUME Advance, begun' = begun \cup {o}, observers'["system"] = s PROVE BegunOK'
  <2>1. pass' = "begin" /\ cursor' = cursor + 1
    BY <1>1, <1>4 DEF Advance
  <2>2. \A i : i \in 1 .. cursor' - 1 <=> i \in 1 .. cursor - 1 \/ i = cursor
    BY <1>1, <2>1
  <2>3. \A d \in System : d \in begun' <=> \E i \in 1 .. cursor' - 1 : s[i] = d
    BY <1>1, <1>2, <1>4, <2>2
  <2>4. Holds(s, Browser)
    BY <1>1 DEF BrowserInv, BegunOK, Between
  <2> QED BY <1>4, <2>1, <2>3, <2>4 DEF BegunOK, Between, InFrame, Holds
<1> QED BY <1>3, <1>4

\* A system ends once.
LEMMA EndCall ==
  ASSUME BrowserInv, NEW o \in System, Calling("end", o)
  PROVE  /\ o \in begun
         /\ Advance /\ begun' = begun \ {o} /\ observers'["system"] = observers["system"]
              => BegunOK'
<1> PICK s : s = observers["system"]
  OBVIOUS
<1>1. /\ pass = "end" /\ cursor \in 1 .. Len(s) /\ s[cursor] = o
      /\ Len(s) \in Nat /\ Once(s) /\ o # Null /\ span = Len(s)
  BY CallSlot, SystemSlots, Subjects, Distinct
<1>2. \A d \in System : d \in begun <=> \E i \in cursor .. span : s[i] = d
  BY <1>1 DEF BrowserInv, BegunOK
<1>3. o \in begun
  <2>1. cursor \in cursor .. span
    BY <1>1
  <2> QED BY <1>1, <1>2, <2>1
<1>4. ASSUME Advance, begun' = begun \ {o}, observers'["system"] = s PROVE BegunOK'
  <2>1. pass' = "end" /\ cursor' = cursor + 1 /\ span' = span
    BY <1>1, <1>4 DEF Advance
  <2>2. \A i : i \in cursor' .. span' <=> i \in cursor .. span /\ i # cursor
    BY <1>1, <2>1
  <2>3. \A i \in cursor' .. span' : s[i] # o
    BY <1>1, <2>1, <2>2 DEF Once
  <2>4. \A d \in System : d \in begun' <=> \E i \in cursor' .. span' : s[i] = d
    BY <1>1, <1>2, <1>4, <2>2, <2>3
  <2>5. Holds(s, Browser)
    BY <1>1 DEF BrowserInv, BegunOK, Between
  <2> QED BY <1>4, <2>1, <2>4, <2>5 DEF BegunOK, Between, InFrame, Holds
<1> QED BY <1>3, <1>4

\* A call that changes only the slots of what is drawn.
LEMMA DrawnSlots ==
  ASSUME BrowserInv, NEW p \in DOMAIN SubjectOf, NEW o, Calling(p, o),
         SubjectOf[p] # "draw", Advance, UNCHANGED is_open,
         NEW slots \in Slots, observers' = [observers EXCEPT !["draw"] = slots]
  PROVE  /\ EngineTypeOK' /\ NoNullCalls' /\ TimeOK'
         /\ \A s \in Subject \ {"draw"} : observers'[s] = observers[s]
         /\ observers'["draw"] = slots
<1>1. /\ pass = p /\ cursor <= span /\ cursor' = cursor + 1 /\ UNCHANGED <<dt_fix, pass, span>>
  BY DEF Calling, Advance
<1>2. observers \in [Subject -> Slots] /\ is_open \in BOOLEAN
  BY DEF BrowserInv, BrowserTypeOK, EngineTypeOK, Slots
<1>3. /\ \A s \in Subject \ {"draw"} : observers'[s] = observers[s]
      /\ observers'["draw"] = slots /\ observers' \in [Subject -> Slots]
  BY <1>2 DEF Subject
<1>4. Observers' = Observers
  BY <1>1, <1>3, Subjects DEF Observers
<1>5. EngineTypeOK'
  BY <1>1, <1>2, <1>3, <1>4, CallType DEF BrowserInv, BrowserTypeOK
<1>6. NoNullCalls' /\ TimeOK'
  BY <1>1 DEF BrowserInv, NoNullCalls, TimeOK
<1> QED BY <1>3, <1>5, <1>6

\* What the invariant says of the samples.
LEMMA SampleFacts ==
  ASSUME BrowserInv
  PROVE  /\ current \in Sample /\ current \in Observer /\ current # Null
         /\ begun \subseteq System
         /\ objects = [s \in Sample |-> IF Browser \in begun /\ s = current THEN 1 ELSE 0]
         /\ listener = IF Browser \in begun /\ current # Solar THEN current ELSE Null
         /\ Browser \in begun => observers["draw"] = <<current>>
         /\ Browser \notin begun => observers["draw"] \in {<<>>, <<Null>>}
BY Distinct DEF BrowserInv, BrowserTypeOK, SubjectsOK, WorldOK

\* The browser begins the current sample.
LEMMA BrowserBeginStep ==
  ASSUME BrowserInv, BrowserBegin
  PROVE  BrowserInv'
<1>1. /\ Calling("begin", Browser) /\ Advance /\ begun' = begun \cup {Browser}
      /\ UNCHANGED <<is_open, current>>
      /\ objects' = [objects EXCEPT ![current] = @ + 1]
      /\ listener' = Heard(current, listener)
      /\ observers' = [observers EXCEPT !["draw"] = Added(@, current)]
  BY DEF BrowserBegin, SampleBegin, AddObserver
<1>2. Browser \notin begun
  BY <1>1, BeginCall, Distinct
<1>3. Added(observers["draw"], current) = <<current>>
  BY <1>2, SampleFacts, OneSlot
<1>4. observers' = [observers EXCEPT !["draw"] = <<current>>]
  <2>1. "draw" \in DOMAIN observers
    BY DEF BrowserInv, BrowserTypeOK, EngineTypeOK, Subject
  <2> QED BY <1>1, <1>3, <2>1
<1>5. <<current>> \in Slots
  BY SampleFacts DEF Slots
<1>6. /\ EngineTypeOK' /\ NoNullCalls' /\ TimeOK'
      /\ \A s \in Subject \ {"draw"} : observers'[s] = observers[s]
      /\ observers'["draw"] = <<current>>
  BY <1>1, <1>4, <1>5, DrawnSlots, Subjects
<1>7. BegunOK'
  BY <1>1, <1>6, BeginCall, Distinct DEF Subject
<1>8. SubjectsOK'
  BY <1>1, <1>6 DEF BrowserInv, SubjectsOK, Subject
<1>9. WorldOK'
  <2>1. objects' = [s \in Sample |-> IF s = current THEN 1 ELSE 0]
    <3>1. objects = [s \in Sample |-> 0] /\ current \in Sample
      BY <1>2, SampleFacts
    <3>2. objects[current] + 1 = 1
      BY <3>1
    <3>3. objects' = [objects EXCEPT ![current] = 1]
      BY <1>1, <3>1, <3>2
    <3> QED BY <3>1, <3>3
  <2>2. listener' = IF current # Solar THEN current ELSE Null
    BY <1>1, <1>2, SampleFacts DEF Heard
  <2> QED BY <1>1, <2>1, <2>2 DEF WorldOK
<1>10. BrowserTypeOK'
  <2>1. begun' \subseteq System /\ current' \in Sample
    BY <1>1, SampleFacts, Distinct
  <2> QED BY <1>6, <1>9, <2>1 DEF BrowserTypeOK, WorldOK
<1> QED BY <1>6, <1>7, <1>8, <1>9, <1>10 DEF BrowserInv

\* The browser ends the current sample.
LEMMA BrowserEndStep ==
  ASSUME BrowserInv, BrowserEnd
  PROVE  BrowserInv'
<1>1. /\ Calling("end", Browser) /\ Advance /\ begun' = begun \ {Browser}
      /\ UNCHANGED <<is_open, current>>
      /\ objects' = [objects EXCEPT ![current] = 0]
      /\ listener' = Null
      /\ observers' = [observers EXCEPT !["draw"] = Removed(@, current)]
  BY DEF BrowserEnd, SampleEnd, RemoveObserver
<1>2. Browser \in begun
  BY <1>1, EndCall, Distinct
<1>3. Removed(observers["draw"], current) = <<Null>>
  BY <1>2, SampleFacts, OneSlot
<1>4. observers' = [observers EXCEPT !["draw"] = <<Null>>]
  <2>1. "draw" \in DOMAIN observers
    BY DEF BrowserInv, BrowserTypeOK, EngineTypeOK, Subject
  <2> QED BY <1>1, <1>3, <2>1
<1>5. <<Null>> \in Slots
  BY DEF Slots
<1>6. /\ EngineTypeOK' /\ NoNullCalls' /\ TimeOK'
      /\ \A s \in Subject \ {"draw"} : observers'[s] = observers[s]
      /\ observers'["draw"] = <<Null>>
  BY <1>1, <1>4, <1>5, DrawnSlots, Subjects
<1>7. BegunOK'
  BY <1>1, <1>6, EndCall, Distinct DEF Subject
<1>8. SubjectsOK'
  BY <1>1, <1>6 DEF BrowserInv, SubjectsOK, Subject
<1>9. WorldOK'
  <2>1. objects' = [s \in Sample |-> 0]
    BY <1>1, SampleFacts
  <2> QED BY <1>1, <2>1 DEF WorldOK
<1>10. BrowserTypeOK'
  <2>1. begun' \subseteq System /\ current' \in Sample
    BY <1>1, SampleFacts, Distinct
  <2> QED BY <1>6, <1>9, <2>1 DEF BrowserTypeOK, WorldOK
<1> QED BY <1>6, <1>7, <1>8, <1>9, <1>10 DEF BrowserInv

\* The GUI leaves the sample, or goes to another in the slot of the last.
LEMMA BrowserGuiStep ==
  ASSUME BrowserInv, BrowserGui
  PROVE  BrowserInv'
<1>1. Calling("gui", Browser)
  BY DEF BrowserGui
<1>2. CASE Return /\ Keep
  BY <1>1, <1>2, KeptCall, Subjects DEF Return, Keep
<1>3. ASSUME NEW s \in Sample, Advance, Switch(s), UNCHANGED <<is_open, begun>>
      PROVE  BrowserInv'
  <2>1. pass = "gui" /\ pass' = "gui" /\ s \in Observer
    BY <1>1, <1>3, Distinct DEF Calling, Advance
  <2>2. Browser \in begun
    BY <2>1, BegunInFrame DEF InFrame
  <2>3. Added(Removed(observers["draw"], current), s) = <<s>>
    BY <2>1, <2>2, SampleFacts, OneSlot
  <2>4. observers' = [observers EXCEPT !["draw"] = <<s>>]
    <3>1. "draw" \in DOMAIN observers
      BY DEF BrowserInv, BrowserTypeOK, EngineTypeOK, Subject
    <3> QED BY <1>3, <2>3, <3>1 DEF Switch
  <2>5. <<s>> \in Slots
    BY <2>1 DEF Slots
  <2>6. /\ EngineTypeOK' /\ NoNullCalls' /\ TimeOK'
        /\ \A x \in Subject \ {"draw"} : observers'[x] = observers[x]
        /\ observers'["draw"] = <<s>>
    BY <1>1, <1>3, <2>4, <2>5, DrawnSlots, Subjects
  <2>7. BegunOK'
    <3>1. observers'["system"] = observers["system"] /\ begun' = begun /\ pass' = pass
      BY <1>3, <2>1, <2>6 DEF Subject
    <3> QED BY <2>1, <3>1 DEF BrowserInv, BegunOK, Between, InFrame, Holds
  <2>8. current' = s /\ begun' = begun
    BY <1>3 DEF Switch
  <2>9. SubjectsOK'
    BY <2>2, <2>6, <2>8 DEF BrowserInv, SubjectsOK, Subject
  <2>10. WorldOK'
    <3>1. objects' = [x \in Sample |-> IF x = s THEN 1 ELSE 0]
      <4>1. objects = [x \in Sample |-> IF x = current THEN 1 ELSE 0] /\ current \in Sample
        BY <2>2, SampleFacts
      <4>2. CASE s = current
        <5>1. objects' = [[objects EXCEPT ![s] = 0] EXCEPT ![s] = 1]
          BY <1>3, <4>2 DEF Switch
        <5> QED BY <4>1, <4>2, <5>1
      <4>3. CASE s # current
        <5>1. objects[s] + 1 = 1
          BY <4>1, <4>3
        <5>2. objects' = [[objects EXCEPT ![current] = 0] EXCEPT ![s] = 1]
          BY <1>3, <4>1, <4>3, <5>1 DEF Switch
        <5> QED BY <4>1, <4>3, <5>2
      <4> QED BY <4>2, <4>3
    <3>2. listener' = IF s # Solar THEN s ELSE Null
      BY <1>3 DEF Switch, Heard
    <3> QED BY <2>2, <2>8, <3>1, <3>2 DEF WorldOK
  <2>11. BrowserTypeOK'
    BY <1>3, <2>6, <2>8, <2>10, SampleFacts DEF BrowserTypeOK, WorldOK
  <2> QED BY <2>6, <2>7, <2>9, <2>10, <2>11 DEF BrowserInv
<1> QED BY <1>2, <1>3 DEF BrowserGui

\* The system that closes the window begins, closes it or not, and ends.
LEMMA CloserStep ==
  ASSUME BrowserInv, CloserCalled
  PROVE  BrowserInv'
<1>1. CASE (Calling("update", Closer) \/ Calling("fixed", Closer)) /\ (Return \/ Close) /\ Keep
  <2>1. Advance /\ UNCHANGED observers /\ UNCHANGED browserVars
        /\ (is_open' = is_open \/ is_open' = FALSE)
    BY <1>1 DEF Return, Close, Keep
  <2> QED BY <1>1, <2>1, KeptCall, Subjects
<1>2. ASSUME NEW p \in {"begin", "end"}, Calling(p, Closer), Return, BegunOK',
             begun' \subseteq System, Browser \in begun' <=> Browser \in begun,
             UNCHANGED <<current, objects, listener>>
      PROVE  BrowserInv'
  <2>1. /\ Advance /\ UNCHANGED <<observers, is_open>>
        /\ pass \in DOMAIN SubjectOf /\ cursor <= span /\ UNCHANGED <<pass, dt_fix>>
    BY <1>2, Subjects DEF Return, Advance, Calling
  <2>2. EngineTypeOK'
    BY <2>1, CallType DEF BrowserInv, BrowserTypeOK, EngineTypeOK, Slots, Observers
  <2>3. NoNullCalls' /\ TimeOK' /\ SubjectsOK' /\ WorldOK'
    BY <1>2, <2>1 DEF BrowserInv, NoNullCalls, TimeOK, SubjectsOK, WorldOK
  <2>4. BrowserTypeOK'
    BY <1>2, <2>2 DEF BrowserInv, BrowserTypeOK
  <2> QED BY <1>2, <2>3, <2>4 DEF BrowserInv
<1>3. Closer \in System /\ Browser # Closer /\ begun \subseteq System
  BY Distinct, SystemSlots DEF System
<1>4. CASE Calling("begin", Closer) /\ Return /\ begun' = begun \cup {Closer}
             /\ UNCHANGED <<current, objects, listener>>
  <2>1. BegunOK'
    BY <1>3, <1>4, BeginCall DEF Return
  <2> QED BY <1>2, <1>3, <1>4, <2>1
<1>5. CASE Calling("end", Closer) /\ Return /\ begun' = begun \ {Closer}
             /\ UNCHANGED <<current, objects, listener>>
  <2>1. BegunOK'
    BY <1>3, <1>5, EndCall DEF Return
  <2> QED BY <1>2, <1>3, <1>5, <2>1
<1> QED BY <1>1, <1>4, <1>5 DEF CloserCalled

\* Whatever is called keeps the invariant.
LEMMA CalledStep ==
  ASSUME BrowserInv, Called
  PROVE  BrowserInv'
<1>1. CASE BrowserUpdate \/ BrowserFixedUpdate \/ SampleDraw
  <2>1. PICK p \in {"update", "fixed", "predraw", "draw", "postdraw"}, o \in Observer :
          Calling(p, o) /\ Return /\ Keep
    BY <1>1, Distinct DEF BrowserUpdate, BrowserFixedUpdate, SampleDraw
  <2> QED BY <2>1, KeptCall, Subjects DEF Return, Keep
<1> QED BY <1>1, BrowserBeginStep, BrowserEndStep, BrowserGuiStep, CloserStep DEF Called

-----------------------------------------------------------------------------
(* The program around RunEngine. *)

\* Slots for systems, each registered at most once.
SystemsOnly(slots) ==
  /\ slots \in Slots
  /\ Once(slots)
  /\ \A o \in Observer \ System : ~Holds(slots, o)

\* A system that is not registered gets a slot of its own.
LEMMA SystemAdded ==
  ASSUME NEW slots, SystemsOnly(slots), NEW d \in System, ~Holds(slots, d)
  PROVE  /\ SystemsOnly(Added(slots, d))
         /\ \A o \in System : Holds(Added(slots, d), o) <=> Holds(slots, o) \/ o = d
<1> PICK new : new = Added(slots, d)
  OBVIOUS
<1>1. d \in Observer /\ d # Null /\ System \subseteq Observer /\ Null \notin System
      /\ slots \in Slots
  BY Distinct DEF SystemsOnly
<1>2. Len(slots) \in Nat /\ new \in Slots
  BY <1>1, LenProperties, AddedSlots DEF Slots
<1>3. PICK k \in 1 .. Len(slots) + 1 :
        /\ Len(new) = IF k = Len(slots) + 1 THEN k ELSE Len(slots)
        /\ new[k] = d
        /\ \A i \in 1 .. Len(slots) : i # k => new[i] = slots[i]
        /\ k # Len(slots) + 1 => slots[k] = Null
  BY <1>1, AddedSlots
<1>4. /\ k \in 1 .. Len(new) /\ 1 .. Len(slots) \subseteq 1 .. Len(new)
      /\ \A i \in 1 .. Len(new) : i # k => i \in 1 .. Len(slots) /\ new[i] = slots[i]
  BY <1>2, <1>3
<1>5. Once(new)
  <2> SUFFICES ASSUME NEW i \in 1 .. Len(new), NEW j \in 1 .. Len(new),
                      new[i] = new[j], new[i] # Null
               PROVE  i = j
    BY DEF Once
  <2>1. \A n \in 1 .. Len(slots) : slots[n] # d
    BY DEF Holds
  <2>2. CASE i # k /\ j # k
    BY <1>4, <2>2 DEF SystemsOnly, Once
  <2>3. CASE i = k \/ j = k
    BY <1>3, <1>4, <2>1, <2>3
  <2> QED BY <2>2, <2>3
<1>6. ASSUME NEW o, Holds(new, o) PROVE Holds(slots, o) \/ o = d
  BY <1>3, <1>4, <1>6 DEF Holds
<1>7. ASSUME NEW o \in System, Holds(slots, o) PROVE Holds(new, o)
  <2>1. PICK i \in 1 .. Len(slots) : slots[i] = o
    BY <1>7 DEF Holds
  <2>2. i # k
    BY <1>1, <1>2, <1>3, <1>7, <2>1
  <2> QED BY <1>3, <1>4, <2>1, <2>2 DEF Holds
<1>8. Holds(new, d)
  BY <1>3, <1>4 DEF Holds
<1> QED BY <1>1, <1>2, <1>5, <1>6, <1>7, <1>8 DEF SystemsOnly

\* A system that is removed leaves its slot free, and the others theirs.
LEMMA SystemRemoved ==
  ASSUME NEW slots, SystemsOnly(slots), NEW d \in System, Holds(slots, d)
  PROVE  /\ SystemsOnly(Removed(slots, d))
         /\ \A o \in System \ {d} : Holds(Removed(slots, d), o) <=> Holds(slots, o)
<1> PICK new : new = Removed(slots, d)
  OBVIOUS
<1>1. System \subseteq Observer /\ Null \notin Observer /\ slots \in Slots
  BY Distinct, EngineAssumption DEF SystemsOnly
<1>2. new \in Slots /\ Len(new) = Len(slots)
  BY <1>1, RemovedSlots
<1>3. PICK k \in 1 .. Len(slots) :
        /\ slots[k] = d
        /\ new[k] = Null
        /\ \A i \in 1 .. Len(slots) : i # k => new[i] = slots[i]
  BY <1>1, RemovedSlots
<1>4. Once(new)
  BY <1>2, <1>3 DEF SystemsOnly, Once
<1>5. \A o \in Observer : Holds(new, o) => Holds(slots, o)
  BY <1>1, <1>2, <1>3 DEF Holds
<1>6. \A o \in System \ {d} : Holds(slots, o) => Holds(new, o)
  BY <1>2, <1>3 DEF Holds
<1> QED BY <1>1, <1>2, <1>4, <1>5, <1>6 DEF SystemsOnly

\* What is registered is what the slots hold.
LEMMA RegisteredHolds ==
  ASSUME BrowserInv, NEW s \in Subject, NEW o \in Observer
  PROVE  o \in Registered(s) <=> Holds(observers[s], o)
<1>1. DOMAIN observers[s] = 1 .. Len(observers[s])
  BY SubjectSlots, LenProperties DEF Slots, BrowserInv, BrowserTypeOK
<1> QED BY <1>1, EngineAssumption DEF Registered, Holds

\* Registering systems, between two runs of the engine, keeps the invariant.
LEMMA ProgramStep ==
  ASSUME BrowserInv, Program
  PROVE  BrowserInv'
<1> PICK s : s = observers["system"]
  OBVIOUS
<1>1. /\ pass = "off" /\ UNCHANGED <<is_open, dt_fix, pass, cursor, span>>
      /\ UNCHANGED <<current, objects, listener, begun>>
  BY DEF Program, loopVars, Keep, browserVars
<1>2. /\ observers \in [Subject -> Slots] /\ SystemsOnly(s) /\ begun = {}
      /\ observers["gui"] = IF Holds(s, Browser) THEN <<Browser>> ELSE <<>>
      /\ Browser \in System /\ Closer \in System /\ Browser # Closer
  BY <1>1, SystemSlots, Distinct
     DEF BrowserInv, BrowserTypeOK, EngineTypeOK, Slots, SubjectsOK, SystemsOnly, BegunOK,
         Between, System
<1>3. ASSUME NEW new, SystemsOnly(new), observers' \in [Subject -> Slots],
             observers'["system"] = new,
             observers'["event"] = observers["event"], observers'["draw"] = observers["draw"],
             observers'["gui"] = IF Holds(new, Browser) THEN <<Browser>> ELSE <<>>
      PROVE  BrowserInv'
  <2>1. EngineTypeOK'
    <3>1. "off" \notin DOMAIN SubjectOf
      BY Subjects
    <3> QED BY <1>1, <1>3, <3>1 DEF BrowserInv, BrowserTypeOK, EngineTypeOK, Slots
  <2>2. SubjectsOK'
    BY <1>1, <1>2, <1>3 DEF BrowserInv, SubjectsOK, SystemsOnly
  <2>3. BegunOK'
    BY <1>1, <1>2 DEF BegunOK, Between, InFrame
  <2>4. NoNullCalls' /\ TimeOK' /\ WorldOK'
    BY <1>1 DEF BrowserInv, NoNullCalls, TimeOK, WorldOK
  <2>5. BrowserTypeOK'
    BY <1>1, <2>1 DEF BrowserInv, BrowserTypeOK
  <2> QED BY <2>2, <2>3, <2>4, <2>5 DEF BrowserInv
<1>4. CASE /\ Browser \notin Registered("gui") /\ Browser \notin Registered("system")
           /\ observers' = [observers EXCEPT !["system"] = Added(@, Browser),
                                             !["gui"] = Added(@, Browser)]
  <2>1. ~Holds(s, Browser)
    BY <1>2, <1>4, RegisteredHolds, Distinct DEF Subject
  <2>2. SystemsOnly(Added(s, Browser)) /\ Holds(Added(s, Browser), Browser)
    BY <1>2, <2>1, SystemAdded
  <2>3. Added(observers["gui"], Browser) = <<Browser>> /\ <<Browser>> \in Slots
    <3>1. observers["gui"] = <<>> /\ Browser \in Observer
      BY <1>2, <2>1, Distinct
    <3>2. Added(<<>>, Browser) = <<Browser>>
      BY <3>1, OneSlot
    <3>3. <<Browser>> \in Slots
      BY <3>1 DEF Slots
    <3> QED BY <3>1, <3>2, <3>3
  <2>4. observers' = [observers EXCEPT !["system"] = Added(s, Browser), !["gui"] = <<Browser>>]
    BY <1>2, <1>4, <2>3 DEF Subject
  <2> QED BY <1>2, <1>3, <2>2, <2>3, <2>4 DEF Subject, SystemsOnly
<1>5. CASE Closer \notin Registered("system") /\ AddObserver("system", Closer)
  <2>1. ~Holds(s, Closer)
    BY <1>2, <1>5, RegisteredHolds, Distinct DEF Subject
  <2>2. /\ SystemsOnly(Added(s, Closer))
        /\ Holds(Added(s, Closer), Browser) <=> Holds(s, Browser)
    BY <1>2, <2>1, SystemAdded
  <2>3. observers' = [observers EXCEPT !["system"] = Added(s, Closer)]
    BY <1>2, <1>5 DEF AddObserver, Subject
  <2> QED BY <1>2, <1>3, <2>2, <2>3 DEF Subject, SystemsOnly
<1>6. CASE RemoveObserver("system", Closer)
  <2>1. Holds(s, Closer)
    <3>1. DOMAIN s = 1 .. Len(s)
      BY <1>2, LenProperties DEF SystemsOnly, Slots
    <3> QED BY <1>6, <3>1 DEF RemoveObserver, Holds
  <2>2. /\ SystemsOnly(Removed(s, Closer))
        /\ Holds(Removed(s, Closer), Browser) <=> Holds(s, Browser)
    BY <1>2, <2>1, SystemRemoved
  <2>3. observers' = [observers EXCEPT !["system"] = Removed(s, Closer)]
    BY <1>2, <1>6 DEF RemoveObserver, Subject
  <2> QED BY <1>2, <1>3, <2>2, <2>3 DEF Subject, SystemsOnly
<1> QED BY <1>4, <1>5, <1>6 DEF Program

-----------------------------------------------------------------------------
(* The theorems. *)

\* Nothing is registered and nothing runs.
LEMMA InitialInv == BrowserInit => BrowserInv
<1> SUFFICES ASSUME BrowserInit PROVE BrowserInv
  OBVIOUS
<1>1. /\ observers = [s \in Subject |-> <<>>] /\ is_open = FALSE /\ dt_fix = 0
      /\ pass = "off" /\ cursor = 1 /\ span = 0
      /\ current = Solar /\ objects = [s \in Sample |-> 0] /\ listener = Null /\ begun = {}
  BY DEF BrowserInit, EngineInit
<1>2. EngineTypeOK
  <2>1. "off" \notin DOMAIN SubjectOf /\ "off" \in Pass
    BY Subjects DEF Pass
  <2>2. observers \in [Subject -> Seq(Observer \cup {Null})]
    BY <1>1
  <2>3. dt_fix \in 0 .. FixedDt + MaxDt - 1
    BY <1>1, EngineAssumption
  <2>4. cursor \in 1 .. span + 1 /\ is_open \in BOOLEAN
    <3>1. cursor = 1 /\ span = 0
      BY <1>1
    <3>2. cursor \in 1 .. span + 1
      BY <3>1
    <3>3. is_open \in BOOLEAN
      BY <1>1, Zenon
    <3> QED BY <3>2, <3>3
  <2>5. pass \in Pass /\ pass \notin DOMAIN SubjectOf
    BY <1>1, <2>1
  <2> QED BY <2>2, <2>3, <2>4, <2>5 DEF EngineTypeOK
<1>3. WorldOK
  BY <1>1 DEF WorldOK
<1>4. BrowserTypeOK
  BY <1>1, <1>2, <1>3, Distinct DEF BrowserTypeOK
<1>5. SubjectsOK
  BY <1>1 DEF SubjectsOK, Once, Holds, Subject
<1>6. BegunOK /\ TimeOK /\ NoNullCalls
  BY <1>1 DEF BegunOK, TimeOK, NoNullCalls, Between, InFrame
<1> QED BY <1>3, <1>4, <1>5, <1>6 DEF BrowserInv

\* The inductive invariant holds through any number of runs of the engine.
THEOREM BrowserInvariant == BrowserSpec => []BrowserInv
<1>1. BrowserInv /\ [BrowserNext]_allVars => BrowserInv'
  <2> SUFFICES ASSUME BrowserInv, [BrowserNext]_allVars PROVE BrowserInv'
    OBVIOUS
  <2>1. CASE Exited \/ UNCHANGED allVars
    <3>1. UNCHANGED <<observers, is_open, dt_fix, pass, cursor, span, current, objects, listener,
                      begun>>
      BY <2>1 DEF Exited, allVars, engineVars, loopVars, browserVars
    <3>2. BrowserTypeOK'
      BY <3>1 DEF BrowserInv, BrowserTypeOK, EngineTypeOK, Observers
    <3>3. BegunOK' /\ SubjectsOK'
      BY <3>1 DEF BrowserInv, BegunOK, SubjectsOK, Holds, Once
    <3>4. NoNullCalls' /\ TimeOK' /\ WorldOK'
      BY <3>1 DEF BrowserInv, NoNullCalls, TimeOK, WorldOK
    <3> QED BY <3>2, <3>3, <3>4 DEF BrowserInv
  <2> QED BY <2>1, ProgramStep, LoopStep, CalledStep DEF BrowserNext
<1> QED BY <1>1, InitialInv, PTL DEF BrowserSpec

\* Every variable keeps its type, and push_back never leaves the span of a
\* running pass dangling.
THEOREM BrowserTypeCorrect == BrowserSpec => []BrowserTypeOK
<1>1. BrowserInv => BrowserTypeOK
  BY DEF BrowserInv
<1> QED BY <1>1, BrowserInvariant, PTL

\* No pass calls through nullptr, with either kind of renderer.
THEOREM NoNullCallsCorrect == BrowserSpec => []NoNullCalls
<1>1. BrowserInv => NoNullCalls
  BY DEF BrowserInv
<1> QED BY <1>1, BrowserInvariant, PTL

\* Systems and samples are called between their Begin and their End.
THEOREM CallsCorrect == BrowserSpec => []CallsInOrder
<1>1. BrowserInv => CallsInOrder
  <2> SUFFICES ASSUME BrowserInv PROVE CallsInOrder
    OBVIOUS
  <2>1. ASSUME NEW s \in System, Calling("begin", s) PROVE s \notin begun
    BY <2>1, BeginCall
  <2>2. ASSUME NEW s \in System, NEW p \in {"gui", "update", "fixed", "end"}, Calling(p, s)
        PROVE  s \in begun
    <3>1. CASE p \in {"update", "fixed"}
      BY <2>2, <3>1, CallSlot, BegunInFrame, Subjects DEF InFrame
    <3>2. CASE p = "gui"
      <4>1. /\ observers["gui"] \in {<<>>, <<Browser>>}
            /\ cursor \in 1 .. Len(observers["gui"]) /\ observers["gui"][cursor] = s
        BY <2>2, <3>2, CallSlot, Subjects DEF BrowserInv, SubjectsOK
      <4>2. s = Browser /\ pass \in InFrame
        BY <2>2, <3>2, <4>1 DEF Calling, InFrame
      <4> QED BY <4>2, BegunInFrame
    <3>3. CASE p = "end"
      BY <2>2, <3>3, EndCall
    <3> QED BY <3>1, <3>2, <3>3
  <2>3. ASSUME Calling("gui", Browser) \/ Calling("fixed", Browser) PROVE objects[current] = 1
    <3>1. Browser \in begun
      BY <2>2, <2>3, Distinct
    <3> QED BY <3>1, SampleFacts
  <2>4. ASSUME NEW s \in Sample, Calling("draw", s) PROVE objects[s] = 1
    <3>1. Browser \in begun
      BY <2>4, BegunInFrame DEF Calling, InFrame
    <3>2. cursor \in 1 .. Len(observers["draw"]) /\ observers["draw"][cursor] = s
      BY <2>4, CallSlot, Subjects
    <3>3. s = current
      BY <3>1, <3>2, SampleFacts
    <3> QED BY <3>1, <3>3, SampleFacts
  <2> QED BY <2>1, <2>2, <2>3, <2>4 DEF CallsInOrder
<1> QED BY <1>1, BrowserInvariant, PTL

\* The world, its listener and what is drawn are those of one sample, the
\* current one, and of none before Begin and after End.
THEOREM OneSampleCorrect == BrowserSpec => []OneSampleInWorld
<1>1. BrowserInv => OneSampleInWorld
  <2> SUFFICES ASSUME BrowserInv PROVE OneSampleInWorld
    OBVIOUS
  <2> PICK mine : mine = IF Browser \in begun THEN {current} ELSE {}
    OBVIOUS
  <2>1. {s \in Sample : objects[s] > 0} = mine
    BY SampleFacts
  <2>2. Registered("draw") = mine
    BY SampleFacts DEF Registered
  <2>3. listener = IF mine = {} \/ current = Solar THEN Null ELSE current
    BY SampleFacts
  <2> QED BY <2>1, <2>2, <2>3 DEF OneSampleInWorld
<1> QED BY <1>1, BrowserInvariant, PTL

=============================================================================
