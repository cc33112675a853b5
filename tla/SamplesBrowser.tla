--------------------------- MODULE SamplesBrowser ---------------------------
(***************************************************************************)
(* The samples program (physics/samples): the browser, a system and a GUI  *)
(* of the engine, hands every call to the current sample, and the GUI      *)
(* switches samples in mid-frame.  A sample fills the one physics world,   *)
(* listens to its contacts and draws itself; all of that is shared.        *)
(*                                                                         *)
(* The engine may run several times in a process, with and without a       *)
(* second system that closes the window (common/test/test_engine.cc).      *)
(***************************************************************************)
EXTENDS Engine

CONSTANTS Browser, Closer, Solar, Colliders, Bounce

Sample == {Solar, Colliders, Bounce}
System == {Browser, Closer}

ASSUME BrowserAssumption ==
  /\ System \cup Sample \subseteq Observer
  /\ Cardinality(System \cup Sample) = 5

VARIABLES
  current,    \* samples[current_sample_index]
  objects,    \* how often the objects of each sample are in the world
  listener,   \* the contact listener of the world
  begun       \* the systems between Begin and End

browserVars == <<current, objects, listener, begun>>
allVars == <<engineVars, browserVars>>

BrowserInit ==
  /\ EngineInit
  /\ current = Solar
  /\ objects = [s \in Sample |-> 0]
  /\ listener = Null
  /\ begun = {}

-----------------------------------------------------------------------------
(* Samples: Begin and End of each, as functions of the state they change.  *)

\* Only the samples with colliders listen.
Heard(s, before) == IF s = Solar THEN before ELSE s

SampleBegin(s) ==
  /\ objects' = [objects EXCEPT ![s] = @ + 1]
  /\ listener' = Heard(s, listener)
  /\ AddObserver("draw", s)

SampleEnd(s) ==
  /\ objects' = [objects EXCEPT ![s] = 0]
  /\ listener' = Null
  /\ RemoveObserver("draw", s)

\* Mutant: switching does not end the sample that was current.
FaultySwitch(s) ==
  /\ current' = s
  /\ SampleBegin(s)

\* Mutant: the index is assigned after Begin.
FaultyLateSwitch(s) ==
  /\ current' = s
  /\ UNCHANGED objects
  /\ listener' = Heard(current, Null)
  /\ observers' = [observers EXCEPT !["draw"] = Added(Removed(@, current), current)]

\* OnGui: the current sample ends and the selected one, maybe the same one,
\* begins.
Switch(s) ==
  /\ current' = s
  /\ objects' = [objects EXCEPT ![current] = 0, ![s] = IF s = current THEN 1 ELSE @ + 1]
  /\ listener' = Heard(s, Null)
  /\ observers' = [observers EXCEPT !["draw"] = Added(Removed(@, current), s)]

-----------------------------------------------------------------------------
(* What the engine calls. *)

Keep == UNCHANGED browserVars

BrowserBegin ==
  /\ Calling("begin", Browser)
  /\ Advance
  /\ SampleBegin(current)
  /\ begun' = begun \cup {Browser}
  /\ UNCHANGED <<is_open, current>>

BrowserGui ==
  /\ Calling("gui", Browser)
  /\ \/ Return /\ Keep
     \/ \E s \in Sample : Advance /\ Switch(s) /\ UNCHANGED <<is_open, begun>>

\* Update is not forwarded to the sample.
BrowserUpdate == Calling("update", Browser) /\ Return /\ Keep

\* FixedUpdate of the sample ticks the world.
BrowserFixedUpdate == Calling("fixed", Browser) /\ Return /\ Keep

BrowserEnd ==
  /\ Calling("end", Browser)
  /\ Advance
  /\ SampleEnd(current)
  /\ begun' = begun \ {Browser}
  /\ UNCHANGED <<is_open, current>>

\* Draw of a sample; PreDraw and PostDraw do nothing.
SampleDraw ==
  \E s \in Sample, p \in {"predraw", "draw", "postdraw"} : Calling(p, s) /\ Return /\ Keep

\* ClosingSystem: closes the window after some calls.
CloserCalled ==
  \/ Calling("begin", Closer) /\ Return /\ begun' = begun \cup {Closer}
       /\ UNCHANGED <<current, objects, listener>>
  \/ Calling("end", Closer) /\ Return /\ begun' = begun \ {Closer}
       /\ UNCHANGED <<current, objects, listener>>
  \/ (Calling("update", Closer) \/ Calling("fixed", Closer)) /\ (Return \/ Close) /\ Keep

Called ==
  \/ BrowserBegin \/ BrowserGui \/ BrowserUpdate \/ BrowserFixedUpdate \/ BrowserEnd
  \/ SampleDraw
  \/ CloserCalled

-----------------------------------------------------------------------------
(* The program around RunEngine registers and unregisters systems. *)

Registered(subject) == {observers[subject][i] : i \in DOMAIN observers[subject]} \ {Null}

Program ==
  /\ pass = "off"
  /\ UNCHANGED <<is_open, dt_fix, loopVars>>
  /\ Keep
  /\ \/ /\ Browser \notin Registered("gui")
        /\ Browser \notin Registered("system")
        /\ observers' = [observers EXCEPT !["system"] = Added(@, Browser), !["gui"] = Added(@, Browser)]
     \/ Closer \notin Registered("system") /\ AddObserver("system", Closer)
     \/ RemoveObserver("system", Closer)

Run ==
  /\ pass = "off" => Browser \in Registered("system")
  /\ RunEngine
  /\ Keep

\* An exception ends the process.
Exited == pass = "threw" /\ UNCHANGED allVars

BrowserNext == Program \/ Run \/ Called \/ Exited

\* The engine and its observers go on, once started, and the queue of events
\* does not stay filled forever.
BrowserSpec ==
  /\ BrowserInit
  /\ [][BrowserNext]_allVars
  /\ WF_allVars(~Stopped /\ BrowserNext)
  /\ SF_allVars(QueueEmpty /\ Keep)

-----------------------------------------------------------------------------
(* Properties. *)

\* Every variable has its type.
BrowserTypeOK ==
  /\ EngineTypeOK
  /\ current \in Sample
  /\ objects \in [Sample -> 0 .. 1]
  /\ listener \in Sample \cup {Null}
  /\ begun \subseteq System

\* Nothing is called before its Begin or after its End, whichever sample is
\* current and whenever the window is closed: BounceSample::FixedUpdate reads
\* rendered_objects_[0], and drawing a removed body throws.
CallsInOrder ==
  /\ \A s \in System :
       /\ Calling("begin", s) => s \notin begun
       /\ \A p \in {"gui", "update", "fixed", "end"} : Calling(p, s) => s \in begun
  /\ Calling("gui", Browser) \/ Calling("fixed", Browser) => objects[current] = 1
  /\ \A s \in Sample : Calling("draw", s) => objects[s] = 1

\* Samples share the world, its listener and the list of what is drawn: only
\* the current sample is in them, and none when the engine has stopped.
OneSampleInWorld ==
  LET mine == IF Browser \in begun THEN {current} ELSE {}
  IN  /\ {s \in Sample : objects[s] > 0} = mine
      /\ Registered("draw") = mine
      /\ listener = IF mine = {} \/ current = Solar THEN Null ELSE current

\* Once the window is closed, from wherever, the engine stops and everything
\* has been ended.
ClosedStops == ~is_open ~> (pass \in {"off", "threw"} /\ begun = {})

=============================================================================
