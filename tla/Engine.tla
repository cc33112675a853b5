------------------------------- MODULE Engine -------------------------------
(***************************************************************************)
(* common::RunEngine (common/src/engine/engine.cc) with the window, the    *)
(* renderer and the GUI it drives, and the ObserverSubjects whose          *)
(* observers it calls (common/include/utils/observer.h).                   *)
(*                                                                         *)
(* A frame is a sequence of passes.  A pass iterates over a span of the    *)
(* slots of one subject, taken when the pass begins, and calls one         *)
(* observer per step.  What an observer does is up to the modules that     *)
(* extend this one: they conjoin Calling, the effect and Advance.          *)
(***************************************************************************)
EXTENDS Integers, Sequences, FiniteSets

CONSTANTS
  Observer,        \* everything that registers itself with a subject
  Null,            \* nullptr
  SkipsNullDraw,   \* the renderer is OPENGL or OPENGLES
  FixedDt,         \* GetFixedDT()
  MaxDt            \* bound: the longest frame

ASSUME EngineAssumption ==
  /\ Null \notin Observer
  /\ SkipsNullDraw \in BOOLEAN
  /\ FixedDt \in Nat \ {0}
  /\ MaxDt \in Nat

VARIABLES
  observers,   \* observers_ of each ObserverSubject
  is_open,     \* of the window
  dt_fix,      \* dt_fix_
  pass,        \* where RunEngine is
  cursor,      \* the slot the pass is at
  span         \* the number of slots of its span

loopVars == <<pass, cursor, span>>
engineVars == <<observers, is_open, dt_fix, loopVars>>

\* The subject each pass iterates over.
SubjectOf ==
  [begin |-> "system", event |-> "event", gui |-> "gui", update |-> "system",
   fixed |-> "system", predraw |-> "draw", draw |-> "draw", postdraw |-> "draw",
   end |-> "system"]

Subject == {"system", "event", "gui", "draw"}

\* RunEngine is not running before and after; "poll" is the loop of
\* UpdateWindow and "steps" the fixed-step loop.
Pass == DOMAIN SubjectOf \cup {"off", "poll", "steps", "threw", "crashed"}

Observers == observers[SubjectOf[pass]]

EngineInit ==
  /\ observers = [s \in Subject |-> <<>>]
  /\ is_open = FALSE
  /\ dt_fix = 0
  /\ pass = "off"
  /\ cursor = 1
  /\ span = 0

-----------------------------------------------------------------------------
(* ObserverSubject. *)

\* Mutant: always appends.
FaultyAdded(slots, o) == Append(slots, o)

\* AddObserver: the first free slot, or a new one.
Added(slots, o) ==
  LET free == {i \in DOMAIN slots : slots[i] = Null}
  IN  IF free = {} THEN Append(slots, o)
      ELSE [slots EXCEPT ![CHOOSE i \in free : \A j \in free : i <= j] = o]

\* RemoveObserver: the first slot of o is cleared.  It throws when there is
\* none.
Removed(slots, o) ==
  LET mine == {i \in DOMAIN slots : slots[i] = o}
  IN  [slots EXCEPT ![CHOOSE i \in mine : \A j \in mine : i <= j] = Null]

AddObserver(subject, o) == observers' = [observers EXCEPT ![subject] = Added(@, o)]

RemoveObserver(subject, o) ==
  /\ o \in {observers[subject][i] : i \in DOMAIN observers[subject]}
  /\ observers' = [observers EXCEPT ![subject] = Removed(@, o)]

-----------------------------------------------------------------------------
(* Passes. *)

\* Control goes to the start of p.
Enter(p) ==
  /\ pass' = p
  /\ cursor' = 1
  /\ span' = IF p \in DOMAIN SubjectOf THEN Len(observers[SubjectOf[p]]) ELSE 0

\* The pass p calls o.
Calling(p, o) ==
  /\ pass = p
  /\ cursor <= span
  /\ Observers[cursor] = o
  /\ p = "fixed" => is_open

Advance ==
  /\ cursor' = cursor + 1
  /\ UNCHANGED <<dt_fix, pass, span>>

\* o lets the call return and does nothing else.
Return == Advance /\ UNCHANGED <<observers, is_open>>

\* CloseWindow.
Close == Advance /\ is_open' = FALSE /\ UNCHANGED observers

Dereferences(p) == p = "event" \/ (SubjectOf[p] = "draw" /\ ~SkipsNullDraw)

\* A free slot: skipped, or dereferenced.
FreeSlot ==
  /\ pass \in DOMAIN SubjectOf
  /\ cursor <= span
  /\ Observers[cursor] = Null
  /\ pass = "fixed" => is_open
  /\ UNCHANGED <<observers, is_open, dt_fix>>
  /\ IF Dereferences(pass) THEN Enter("crashed")
     ELSE cursor' = cursor + 1 /\ UNCHANGED <<pass, span>>

\* The pass p is over and the next one, or another place, is entered.
Finish(p, next) ==
  /\ pass = p
  /\ cursor > span
  /\ Enter(next)
  /\ UNCHANGED <<observers, is_open, dt_fix>>

-----------------------------------------------------------------------------
(* RunEngine. *)

\* BeginEngine: SDL, the window and the renderer come first.
Start ==
  /\ pass = "off"
  /\ is_open' = TRUE
  /\ dt_fix' = 0
  /\ Enter("begin")
  /\ UNCHANGED observers

\* Without SDL, a window or a renderer BeginEngine throws.
StartFails ==
  /\ pass = "off"
  /\ is_open' \in {is_open, TRUE}
  /\ Enter("threw")
  /\ UNCHANGED <<observers, dt_fix>>

\* while (IsWindowOpen())
FrameOrEnd == IF is_open THEN "poll" ELSE "end"

EventPolled(quit) ==
  /\ pass = "poll"
  /\ is_open' = (is_open /\ ~quit)
  /\ Enter("event")
  /\ UNCHANGED <<observers, dt_fix>>

QueueEmpty ==
  /\ pass = "poll"
  /\ Enter("gui")
  /\ UNCHANGED <<observers, is_open, dt_fix>>

\* Update is done: the time of the frame is added.
AddTime(dt) ==
  /\ pass = "update"
  /\ cursor > span
  /\ dt_fix' = dt_fix + dt
  /\ Enter("steps")
  /\ UNCHANGED <<observers, is_open>>

StepOrDraw ==
  /\ pass = "steps"
  /\ Enter(IF dt_fix >= FixedDt THEN "fixed" ELSE "predraw")
  /\ UNCHANGED <<observers, is_open, dt_fix>>

\* Mutant: one step per frame, whatever time has passed.
FaultySingleStep ==
  /\ pass = "fixed"
  /\ ~is_open \/ cursor > span
  /\ UNCHANGED <<observers, is_open>>
  /\ dt_fix' = IF is_open THEN dt_fix - FixedDt ELSE dt_fix
  /\ Enter("predraw")

\* Mutant: closing the window does not end the fixed steps of the frame.
FaultyStepDone ==
  /\ pass = "fixed"
  /\ ~is_open \/ cursor > span
  /\ UNCHANGED <<observers, is_open>>
  /\ dt_fix' = IF is_open THEN dt_fix - FixedDt ELSE dt_fix
  /\ Enter("steps")

\* A step ends early when the window was closed, and so do the steps.
StepDone ==
  /\ pass = "fixed"
  /\ ~is_open \/ cursor > span
  /\ UNCHANGED <<observers, is_open>>
  /\ IF is_open THEN dt_fix' = dt_fix - FixedDt /\ Enter("steps")
                ELSE UNCHANGED dt_fix /\ Enter("predraw")

RunEngine ==
  \/ Start
  \/ StartFails
  \/ FreeSlot
  \/ Finish("begin", FrameOrEnd)
  \/ \E quit \in BOOLEAN : EventPolled(quit)
  \/ Finish("event", "poll")
  \/ QueueEmpty
  \/ Finish("gui", "update")
  \/ \E dt \in 0 .. MaxDt : AddTime(dt)
  \/ StepOrDraw
  \/ StepDone
  \/ Finish("predraw", "draw")
  \/ Finish("draw", "postdraw")
  \/ Finish("postdraw", FrameOrEnd)
  \/ Finish("end", "off")

Stopped == pass \in {"off", "threw", "crashed"}

-----------------------------------------------------------------------------
(* Properties. *)

\* Every variable has its type, the span of a pass is still the whole of its
\* subject's slots (push_back under the span would leave it dangling), and
\* the time not simulated yet is less than a step when a frame begins.
EngineTypeOK ==
  /\ observers \in [Subject -> Seq(Observer \cup {Null})]
  /\ is_open \in BOOLEAN
  /\ dt_fix \in 0 .. FixedDt + MaxDt - 1
  /\ pass \in Pass
  /\ cursor \in 1 .. span + 1
  /\ pass \in DOMAIN SubjectOf => span = Len(Observers)

\* No pass calls through the nullptr that RemoveObserver leaves in a slot,
\* although those of the SDL renderer and of UpdateWindow do not check.
NoNullCalls == pass # "crashed"

=============================================================================
