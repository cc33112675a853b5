# TLA+ models of GPR924-Engine

GPR924-Engine is a C++23 game engine made of three libraries: `core` (maths,
containers, allocators), `common` (window, renderer, engine loop, networking,
rollback netcode) and `physics` (bodies, colliders, a quadtree, contacts), with
samples on top and the sources of the Photon client it connects with.
This directory models the parts of it that keep state over many calls and that
unit tests exercise one call sequence at a time. TLC checks the models on small
instances; TLAPS proves the main properties for every value of the constants.

    tlc -config MCRollbackManager.cfg MCRollbackManager.tla
    tlapm RollbackManagerProofs.tla

## 1. Inventory

Paths are relative to `src/`.

| Component | State | Operations | What makes it correct |
|---|---|---|---|
| InputManager `common/include/rollback/input_manager.h` | a vector of per-frame input arrays, the last frame received per player, the last confirmed frame, a dirty flag | `set_input`, `set_inputs_from_network`, `ConfirmFrame`, `CleanDirty`, `set_valid`, readers | frames not received hold one prediction per player; any change of what is read sets dirty; the past does not change |
| RollbackManager `common/include/rollback/rollback_manager.h` | the confirmed model and an InputManager; the game keeps the speculative model | `ConfirmLastFrame`, `RollbackAndResimulate` | confirmed frames are a lockstep simulation; not dirty means in sync; unchecked reads stay in bounds |
| Checksum, Adler32 `checksum.h`, `network/adler32.h` | two 16-bit sums | `Add`, `Reset`, `value` | equal sequences give equal sums; no 32-bit wrap breaks the modulus |
| IndexedContainer `core/include/container/indexed_container.h` | a vector of (value, generation) | `Add`, `At`, `Remove` | an Index names one object until it is removed, and nothing afterwards |
| SmallVector, LinearAllocator, Resource `core/include/...` | an array and a size; a bump pointer; an owned value | the usual ones | equivalence with a sequence; blocks disjoint and inside; each value destroyed once |
| PhysicsWorld `physics/src/world.cc` | two IndexedContainers, current and previous overlap sets, a quadtree, a listener, the global `active_world_` | add/remove bodies and colliders, `Tick`, `RollBackFrom` | enter and exit events alternate per pair; overlaps name live colliders; a rolled back world replays the same events |
| QuadTree `physics/src/quadtree.cc` | a tree of entries | `insert`, `query`, `clear` | every overlapping pair is a candidate, once |
| Collision, bodies, shapes `physics/src/collision.cc`, `body.cc` | floats | contacts, impulses, integration | numeric |
| ObserverSubject, engine loop, window, GUI `common/include/utils/observer.h`, `common/src/engine/` | the observer slots, the open flag, the fixed-step accumulator | register, unregister, Begin / Update / FixedUpdate / End, close | nothing is called before Begin or after the window closed, nor through a freed slot; iteration survives registration; closing stops the engine |
| Samples `physics/samples/` | the current sample, its objects in the one world, its counts of overlaps | switch, Begin / End, resize, toggle triggers, the listener's callbacks | one sample in the world, its listener and the draw list; counts follow overlaps |
| NetworkManager, ClientInterface `common/src/network/` | the Photon client | connect, service, disconnect | lifecycle |
| Photon LoadBalancing client `externals/PhotonLib/LoadBalancing-cpp/src/Client.cpp` | the connection state, the room, what is being joined, cached errors | connect, disconnect, rejoin, lobby and room operations; statuses and responses | state agrees with the peer's; each request is answered once; nothing stale is answered with |
| Renderer | OpenGL / SDL objects | drawing | output only |

How they interact: the game enters inputs into the InputManager, the network
hands it packets, `RollbackManager` reads it when it confirms or resimulates;
the models it ticks may hold a PhysicsWorld, whose `RollBackFrom` is the
world's part of a rollback. PhysicsWorld keeps its bodies and colliders in
IndexedContainers and calls a listener synchronously in mid-`Tick`. The engine
loop calls every registered system, on one thread; the samples browser is such a
system and switches samples, which share the world, from the GUI pass. A
NetworkManager services the Photon client in FixedUpdate, which calls the
listener back from there. There are no threads: what
interleaves is the order in which packets, ticks, confirmations and callbacks
arrive, and the exceptions that cut a call short.

`PROJECT.json` lists the hazards, each at its line.

## 2. Modules

| Module | Models | 
|---|---|
| `InputManager` | the InputManager, open: any caller, any order, any frame up to a bound |
| `RollbackManager` | extends it with the RollbackManager and the game loop that drives it |
| `Lockstep` | abstract: what rollback promises, a lockstep simulation |
| `IndexedContainer` | the container, with users that keep and reuse every Index they got |
| `HandleTable` | abstract: a table whose handles are never reused |
| `PhysicsWorld` | the world: two `IndexedContainer` instances, overlap sets, Ticks with callbacks, rollback |
| `CollidersSample` | extends it with the colliders sample, its client and listener |
| `QuadTree` | the physics quadtree: recursive insertion on an explicit stack, and what the query compares |
| `Engine` | the engine loop, the window and the observer subjects |
| `SamplesBrowser` | extends it with the samples program: the browser, three samples, a closing system |
| `LoadBalancingClient` | the Photon client between its application and its peer |
| `ClientSession` | abstract: what the application of that client is promised |
| `MC...` | the instances TLC checks |
| `...Proofs` | the theorems and their proofs; `SamplesBrowserProofs` is also about `Engine` |

### InputManager

`inputs` and `size` are `inputs_` and its length (the vector is reindexed from 0
by every `erase`, as in C++); `last_received` and `is_valid` are
`input_metadata_`; `last_confirm` is `last_confirm_frame_`; `is_dirty` is
`is_dirty_`. Frame numbers are `int` and become `size_t` in `index()`: `AsSize`
wraps negative numbers modulo `SizeMod`, the scaled-down 2^64, so that an
already confirmed frame is "beyond the history" exactly as in the code.

`set_inputs_from_network` calls `set_input` once per frame and is left by an
exception in the middle of a packet. So a packet is a record in `call` and each
iteration is a step (`ApplyNetworkInput`); every other operation requires
`Idle`, since the class is used from one thread. The block after the loop
(`input_manager.h:175`) can never run: by then `last_received` is at least the
packet's last frame. It is not modelled, and the comment at `ApplyNetworkInput`
says why.

`ReceiveInput` is the body of `set_input` in its order: the frame is recorded as
received first, then the capacity is checked (a throw keeps the record), then
the vector is resized from `back()`, written, and speculated on. Reading
`back()` of an empty vector is undefined behaviour: `Back(junk)` is an arbitrary
input vector, chosen with `\E junk`.

### RollbackManager

The repository has no game that uses rollback apart from
`common/test/test_rollback.cc`. The driver is taken from there: enter the local
input of the next frame (`SetLocalInput`), tick the speculative model with it
(`SpeculativeTick`), receive packets (`ReceivePacket`, then one
`StorePacketInput` per frame), roll back and clean when dirty (`Rollback`),
confirm when everyone's input is in (`Confirm`). These steps interleave freely.
`truth` is what each player enters at each frame, chosen at the start.

A model's state is represented by the sequence of input vectors it ticked with.
`Tick` is deterministic (the class has checksums to detect that it is not), so
equal sequences give equal states; this is the only abstraction of the game.

What the driver promises the manager, and the code does not enforce:

- packets carry true inputs, start after the confirmed frame and leave no gap
  (`ReceivePacket`), and end inside the window (`FitsHistory`);
- the local player is at most `MaxInputHistory` frames ahead (`SetLocalInput`);
- a frame is confirmed when it was simulated and all its inputs are in (`Confirm`).

Two of these were found necessary by dropping them: section 3 has the runs.
`ConfirmFrame` on an empty vector, a network packet of length zero
(`inputs.back()`) and players outside the array are undefined in the code and
not called.

### IndexedContainer

`value` and `generation` are the two halves of the pairs in `values_`. `issued`
is a history variable: every Index `Add` ever returned, all of which a user may
still hold and pass. `At` for writing, and `Remove`, have the code's check as
their guard (a refusal throws and changes nothing). `Add` has three overloads
with one behaviour. Values are valid ones: nothing in the repository makes
one invalid through the reference `At` returns (`Body::SetAsInvalid` has no caller).

### PhysicsWorld

`Bodies` and `Colliders` are two instances of `IndexedContainer`, so an Index is
checked, reused and outlived exactly as in the container. `overlapped` and
`previous` are the two overlap sets; pairs are compared by slot (`Contains`), as
`operator==` and the hash do, while `RemoveCollider` compares whole indices.

`Tick` calls the listener in the middle of `CheckForOverlap`. It is a sequence of
steps: `TickObserved` (integrate, set the overlaps aside, collect candidates),
`TestCandidate` per candidate, `CandidatesTested`, `TestPrevious` per pair of the
sorted copy `leaving`, `PreviousTested`, `ResolveCollisions`. After a step that
told the listener something, `callback` holds until the next step, and the
operations on the world that are allowed between Ticks (`MayCall`) are allowed
there too. `At` throwing in mid-Tick ends it (`Throw`, `TickThrows`) with
`active_world_` as it is. The order of candidates depends on the quadtree and is
left open; the order of `leaving` is the code's.

Abstract: a place is a point on a line and a Tick takes every body anywhere;
boxes intersect up to a distance of 1, so that there are candidates which do not
overlap. The quadtree is taken to return every pair whose boxes intersect, which
is what the module `QuadTree` is about. Static bodies, forces and
contacts only choose places. Shapes and offsets belong to the places.

`inside` and `confused` are history variables: what a listener that keeps a set
of pairs would hold, and whether it was ever told something impossible.

Left out: a listener that calls back from the exits `RemoveCollider` sends, that
ticks the world or that replaces itself in a callback (the code would call
through a null pointer). `references` holds the states another world may have
been given; the model is of a world that is not the global one.

`Spec` is any use; `CollidersSample` is the use the repository makes of it.

### CollidersSample

One call of the sample makes many calls of the world, so `mode` and `pending`
say where in `Begin`, `UpdateObjectsCount` or `End` the sample is, and the steps
are the world's own actions (`AddBody`, `AddCollider`, `RemoveBody`,
`RemoveCollider`) conjoined with what the sample does. Removing an object takes
its body first, then its collider, whose exits reach the listener while the
object is still in `rendered_objects_`. `OnEnter` and `OnExit` are the four
listener functions; which pair of counts changes is decided by `is_trigger` as it
is now. `AfterExits` applies several exits at once, which is what `RemoveCollider`
sends. The sample reads only, so `MayCall` in a callback is not used. The slider
and the radio buttons act between Ticks. Colours are what the counts decide and
are left out.

### QuadTree

A node is its path from the root. `insert` is recursive, and a node that
overflows calls it for its children from a loop over its own objects, erasing as
it goes; `calls` is that stack, and one step is one call or one turn of a loop.
`Turn` erases and calls in one step although the code calls first: the callee
does not look at the loop's node, which is what `LoopsUndisturbed` says.

`query` changes nothing and is modelled by the set of pairs it compares:
`InOneNode`, `FromAbove` (objectQuery, which skips children whose bounds do not
meet the box, but not the first level below the object's node) and
`AcrossSiblings` (checkSiblingCollision, which goes down on both sides together).
Coordinates are integers, and a midline is a division that rounds down. What
matters is that the same midline is used for a child's index and for its bounds,
as in the code; halves of floats bring nothing new unless they round.

### Engine and SamplesBrowser

`RunEngine` is a sequence of passes over the slots of a subject. A pass takes its
span when it begins, as the range-for does, and calls one observer per step;
`cursor` and `span` are the iterators. The order is the code's: events until the
queue is empty, GUI, update, fixed steps, the three draw passes. `is_open` is read
where the code reads it. A pass that dereferences a freed slot goes to
`"crashed"`: `UpdateWindow` and, without OpenGL, `DrawRenderer` do not check. Only the
draw slots are emptied while the engine runs: nothing in the repository registers for
events, and no system registers another from within its own pass, though the loops
of `Engine` allow both.

The browser hands each call to `samples[current_sample_index]`. The samples are
reduced to what they share: how often each one's objects are in the world, the
listener of the world, the draw slots. `Switch` is the GUI selection, one step, as
nothing runs in between. `Closer` is the system of `test_engine.cc` that closes
the window from Update or FixedUpdate. `Program` registers and unregisters
systems between runs, and the engine may run again.

### LoadBalancingClient and ClientSession

The client is used as NetworkManager constructs it: UDP, starting at the name
server, authenticating once, taking the first region. `mState` and the other
variables named with an `m` are the members; `peer` and `request` are the state of
the binary peer and the operation in flight, modelled from how `Client.cpp` uses
them: `CONNECT` follows a connect, `DISCONNECT` a disconnect, a response an
operation; after `disconnect()` the peer dispatches nothing but a status. A peer
refuses to connect unless it is disconnected, and to send unless it is connected.
Any response may be an error, which JOIN_LOBBY, LEAVE_LOBBY and LEAVE do not look at,
and the connection may break at any time (`StatusError`), with the peer already
disconnected or not. Any response, those of operations that are not modelled
included (`LimitOnOther`), may be OPERATION_LIMIT_REACHED: the client calls
`disconnect()` and executes the response afterwards, in the state that left
(`ResponseLimitReached`, one `LimitOn...` for each kind of response). Connecting at a
handover may fail (`PeerConnect`); the code ignores the result, and so does the
model. Addresses are the room they were given for.

The application asks for one thing at a time (`asked`), `connect` and
`reconnectAndRejoin` included. It calls the operations of the master server when
`getState()` says that the client is in the lobby or authenticated, whatever the
connection: a refused operation is a step. It calls `reconnectAndRejoin` in any
state of the connection, `disconnect`, `opFindFriends` and `setAutoJoinLobby` also
while it waits, and does not call back from a callback. `told` is the last
callback, and `quit` who called `disconnect()` since a connection was asked for:
the application, or the client at the limit. These are assumptions on the
application; `PROJECT.json` lists as hazards what happens without them.

`ClientSession` is what the documentation promises: the application is offline,
on the master server or in a room, asks, and is answered by the callback of that
operation, or learns that the connection is gone. `place` is the mapping. Three
things are in it because the code does not keep that promise at the operation limit or
after a refused rejoin: a lobby operation, or a
connect, may succeed on a closing connection (`Succeed`), a room left or not entered
may be answered by `connectReturn` (`Misreport`), and an application that waits for
nothing may be offline without being told (`Forfeit`).

## 3. Runs

| Run | Question | Bounds |
|---|---|---|
| `input_manager` | `TypeOK`, `SpeculationUniform`, `DirtyDetectsChange`, `InputsChangeForward` under every call sequence | 2 players, 2 inputs, history 2, frames 0..3 |
| `rollback` | safety of the game, that it implements `Lockstep`, that every frame is confirmed and speculation settles on the truth | the same, one player local, frames 0..2 (25,992 states) |
| `indexed_container` | `IssuedAreUsedOrStale`, and that it implements `HandleTable` | 3 slots, generations 0..2, 2 values |
| `world_any_use` | `OverlapsLive` under any use: callbacks that remove, Ticks that throw, rollbacks to any earlier state | 1 body, 2 colliders, one reuse of each slot, 1 reference, no triggers |
| `colliders_sample` | `EventsMatchOverlaps`, the listener knows exactly the overlaps; `CountsMatchOverlaps`, and so do the objects; `ActiveWorldRestored`, in effect that no Tick of the sample throws | up to 2 objects and a wall, each slot reused once, 2 places, triggers or not (52,093 states) |
| `samples_browser` | `CallsInOrder`, `OneSampleInWorld`, `NoNullCalls`, and `ClosedStops` | 3 samples, 2 systems, up to two fixed steps a frame, SDL renderer (2,149 states) |
| `quadtree` | `StoredOnce`, `AllPairsFound`, `SiblingsApart`, `LoopsUndisturbed` | 5 of 8 boxes in any order, nodes of 1 object, 3 levels (222,500 states) |
| `photon_client` | `StateMatchesPeer`, `RoomIsThere`, `FriendsAreAwaited`, `StrandedByIgnoredFailures`, `RequestsAreAnswered`, and that it implements `ClientSession` | 2 rooms and the empty name (579,032 states) |
| `speculation_follows_latest` (violation) | the latest frame's input is what later frames hold | as `input_manager` |
| `emptied_window` (violation) | predictions, when the only frame left may be confirmed | as `rollback`, frames 0..3 |
| `refused_packet` (violation) | confirmed inputs are real, when packets may exceed the window | as `rollback`, frames 0..3 |
| `ignored_disconnect` (violation) | a client told to disconnect reaches no further server | as `photon_client` |

A history of 2 is the smallest where a slot is both behind another and
speculated on; frames 0..3 slide the window all the way past its first position
and once more, and frames 0..2 past it once, so resizing after confirmation, wrapping of confirmed frames,
refusals for lack of room and redundant packets all happen. Players and inputs
are symmetric in the code (no comparison but equality), two of each show every
disagreement between a prediction and an input; the theorems of section 4
cover the rest. `MCInputManager` uses player symmetry (no temporal formula but
`[][A]_v` is checked there). Deadlock is not checked in the game's runs: the
frames are bounded by `MaxFrame` and the game ends there; nor in
`colliders_sample`, whose slots run out of generations, nor in the world's run for
the same reason. The other runs of this list check it.

Two objects and a wall make three pairs, so one removal concerns two of them; a
slot reused once is enough for a pair of an earlier occupant to be mistaken for a
later one. With one body all colliders overlap, which is the
worst case for `OverlapsLive`. One reference is one snapshot, taken anywhere and
rolled back to any number of times. `is_trigger` only decides whether an overlap
is resolved (`Trigger`), so solid colliders are the harder case for the world;
the sample toggles it, and has both.

Boxes of `quadtree` lie in the quarters of the world, on its midlines, on those of
a quarter, and across its border; five of them in nodes of one object split the
root and a child of it, in every order. A frame of `samples_browser` runs none,
one or two fixed steps. `MaxDt` bounds a frame's time; a longer one has more steps
of the same kind. Two rooms tell the name an operation was sent with from that
of an earlier one; the theorems cover any number.

What the violations say of the code:

- A second, different input for the latest received frame is stored but not
  propagated. `SpeculationUniform` still holds, so dirtiness is still detected;
  the speculated frames are only staler than the comment says.
- Confirming the only stored frame empties the vector and the next `set_input`
  resizes from `back()` of an empty vector. Predictions of the other players are
  then arbitrary until their inputs arrive. Nothing confirmed is affected (the
  run `rollback` allows it, and its properties hold).
- `set_input` records a frame as received before it throws for lack of room. A
  game that hands over every packet and confirms by `last_received_frame(p)`
  then confirms a predicted input: a desync. Holding back packets that do not
  fit (`FitsHistory`) is enough. Only this run lets the throw of line 102 cut a
  packet of the game: `rollback` and the theorems have `FitsHistory`.
- `disconnect()` compares `mState`, a value of `PeerStates`, with constants of
  `PeerState`. 4 is `DISCONNECTING` there and `DisconnectingFromNameserver` here: a
  client told to disconnect while it leaves the name server logs "Disconnection
  already in progress" and connects to the master server. The guards of
  `connect()` and of the first test of `disconnect()` mix the two in the same way,
  without effect.

Seen while modelling, and left to the reader: `last_received_frame()` folds from
`Frame(-1)` as `size_t`, so a valid player who sent nothing is ignored instead of
dominating the minimum that `test_input_manager.cc:144` speaks of; the model's
`Confirm` asks each player. `RemoveBody` leaves the body's colliders behind, and
every later Tick throws from `ColliderToAABB` with `active_world_` left on the world
that ticked (`Throw`); the samples remove a collider with its body, and
`ActiveWorldRestored` holds for them.

`StrandedByIgnoredFailures` is as strong as the code allows. The application is
left without any further callback in four cases: a connect that fails at a
handover or a rejoin, a failed GET_REGIONS, `reconnectAndRejoin` with no room name
left, and `reconnectAndRejoin` while connected. `StateMatchesPeer` names its two
exceptions in the same way. What these exceptions say of the code:

- `reconnectAndRejoin()` assigns `mState` before it asks the peer
  (`Client.cpp:1489`). Called while the client is connected, where line 1475 says
  that it fails, it returns false and leaves `ConnectingToGameserver`: no callback
  comes any more, and `getState()` is wrong until the application disconnects
  (`RefusedRejoin`; `Forfeit` in `ClientSession`).
- At the operation limit, where "a client-side disconnect" is due
  (`DisconnectCause.h:35`), the response to LEAVE overwrites the state that
  `disconnect()` has just set, and the client hands over to the master server once more
  (1875). Those to JOIN_LOBBY and LEAVE_LOBBY overwrite it too, until the connection is
  closed (`ClosingInLobby`).
- At the limit the state that JOIN_LOBBY remembers is `Disconnecting`, so a client
  back from a room reports `connectReturn` without an error instead of
  `leaveRoomReturn`, or of the error it met in the room (1857; `Misreport`).

`RequestsAreAnswered` says that whoever is not stranded so is answered in the end.

Two things the runs show by what they need. `EventsMatchOverlaps` is checked
for listeners that remove nothing: a removal in mid-Tick drops the pairs of
`previous` without an exit, and makes `At` throw for candidates that named the
collider. It also needs a listener set before there are overlaps, as the sample's is: a
later one gets exits of pairs it never saw enter. `CountsMatchOverlaps` is an
equality until the trigger mode is switched and an inequality after it: a switch
starts the counts over while overlaps go on, and is never undone by them. `OverlapsLive` needs neither.

### Fairness

Weak fairness of `StorePacketInput` says that a call in progress goes on. Strong
fairness of the game's other steps stands for the frame loop, which comes back
to each of them in every iteration; weak fairness would not do, because each is
disabled while a call runs. Strong fairness of `NewPacket(p)` stands for a
transport that resends until delivered; the repository leaves that to Photon's
reliable channel, which is not modelled. Without the last one a remote player
may stay silent for good, the window fills, and the game stops, by design.

`BrowserSpec` has weak fairness of the engine and its observers, which run on one
thread and return, and strong fairness of `QueueEmpty`: events do not arrive faster
than they are handled for ever. Nothing makes a user close the window.

`FairClientSpec` has weak fairness of what the network dispatches: a connection is
made, or closed when asked, and a request is answered, with success or not. It is
justified by `FixedUpdate`, which calls `service()` in every step, and by the peer's
own timeouts, which turn silence into a status. Nothing makes the application act.

## 4. Proofs

Every safety invariant and action property of a passing run, and each of the
three refinements, is proved for every value of the constants.

Assumptions on the constants are in `InputAssumption`, `LocalAssumption`,
`ContainerAssumption`, `WorldAssumption`, `SampleAssumption`, `QuadTreeAssumption`,
`EngineAssumption`, `BrowserAssumption` and `ClientAssumption`. Players and inputs
are not empty, the history is at least one frame, and `size_t` is wider than the
frames in use (`SizeMod > MaxInputHistory + MaxFrame + 1`). Bounds are natural
numbers, one of the places is 0, boxes are integer boxes of any shape. The invalid
value is no value and no place, nullptr is no observer, the empty name and the
null object are no rooms. A fixed step takes time. The three samples, the browser
and the closing system are five. A sample begins with as many objects as it has
room for, and in solid mode.

`InputManagerProofs`: `TypeOK` and `SpeculationUniform` are inductive together.
`InputsChangeForward` and `DirtyDetectsChange` follow from them per step: a
frame's read value (`Read`, in the window or beyond it) is rewritten as a read of
slot `min(slot, size - 1)`, and the lemma `StoreChangesForward` says which slots
a store may change. The second needs uniformity: if the received frame read the
same before, then so did every later unreceived frame, and nothing changes.

`RollbackManagerProofs`: the four invariants of the run are not inductive.
`SafetyInvariant` adds what the window holds (`WindowGenuine`: every received
frame holds the truth), what a call in progress may contain (`CallGenuine`) and
how far the local player leads (`LocalLeads`). There is one lemma per action.
The refinement of `Lockstep` maps `last_received` to the arrivals and the
confirmed model's inputs to the log: `Confirm` is `Simulate` by `WindowGenuine`,
storing a new frame is `Arrive`, the rest stutters.

`IndexedContainerProofs`: `IssuedAreUsedOrStale` is inductive with `TypeOK`, and
is what the refinement needs: the Index `Add` returns was never issued.

`PhysicsWorldProofs`: `OverlapsLive` is not inductive. A Tick adds a candidate to
`overlapped` some callbacks after it collected it, and a callback may have removed
one of its colliders; a rollback brings back the sets of a reference. `WorldInv`
adds that a candidate names colliders that are in use or stale
(`CandidatesKnown`: `At` throws for the stale ones, so none is added), that every
reference is a state a world can be in (`ReferencesOK`, with `OverlapsLive` in it), and
that a Tick knows which world to go back to (`Resumes`). That an Index is never
right by accident is the containers' affair: a live Index and a stale one of the
same slot differ in generation. `RemoveCollider` compares whole indices where the
sets compare slots; as long as the sets are live that is the same.

`CollidersSampleProofs` builds its invariant over `WorldInv` in three layers, each
proved with the ones before. `OwnInv` is what the sample owns: every collider in use
is that of one object or wall, each has a body of its own, and `pending` is a body
whose collider is about to come or to go. From it no `At` in a Tick throws, which
`EventsInv` needs: without it a Tick is cut short, and what the listener was told
stays behind the world. `EventsInv` says that all candidates are in use, that
`leaving` comes from `previous`, and that `inside` is what is believed. `CountsInv` counts
trigger and solid overlaps separately: `CountsMatchOverlaps` bounds their sum, and
is not inductive, as an exit lowers only one of the counts, and at zero lowers
none. Counting rests on the overlaps being finite (`PairsFinite`).

`QuadTreeProofs`: `QuadInv` is types, `Grown` (the nodes form a tree of quarters of
`WorldBounds`, each with its siblings), `AllBelong` (every entry, stored or on its
way down the stack, belongs to each node on its path: `getChildIndex` chose every
step), `LoopsSplit` and `LoopsUndisturbed`. There is one lemma per action.
`SiblingsApart` follows because two paths that part chose two quarters, and boxes
of different quarters are on different sides of a midline. `AllPairsFound` is then a
matter of cases: same node, one below the other, or parted. The middle case needs
the assumption that both boxes are inside `WorldBounds`: a quarter has all of the
box that was sent to it only if the parent had (`QuarterContains`), so that every
node on the way meets whatever meets the box. Outside of the bounds the query may
miss pairs; `SiblingsApart` needs no such assumption. `StoredOnce` holds between
insertions; `OncePlaced` says what holds inside of one: every entry is the argument
of the call on top of the stack, or at one index of one node, never both, and
only loops are below the top. A turn that moves an entry erases one index and
shifts the others (`Without`), and the places stay one per entry.

`SamplesBrowserProofs`: `BrowserInv` covers `Engine` as the samples program uses it.
`NoNullCalls` is inductive only with what the slots hold (`SubjectsOK`: nobody twice,
and in the draw list the current sample exactly while the browser runs), and that
with what was begun (`BegunOK`: those before the cursor while the systems begin,
those from it on while they end, all of them in between). `TimeOK` carries the
accumulator from pass to pass, and `WorldOK` is `OneSampleInWorld` with the counts of all samples. The
lemmas about subjects (`AddedSlots`, `RemovedSlots`, `OneSlot`) say what adding
or removing an observer does to any slots: it takes the first free slot, or one at
the end, and gives up the first that is its own. That there is a first one is
the well-foundedness of strict inclusion on the subsets of a finite set (`FirstExists`).

`LoadBalancingClientProofs`: `ClientInv` is `ClientTypeOK` with what each state
implies about the peer (`PeerInv`, with the exceptions `RefusedRejoin` and
`ClosingInLobby`), the operation in flight (`RequestInv`), the room
(`RoomInv`), the friends' request (`FriendsInv`) and what the application waits for
(`AskedInv`). No part is inductive without the first three: that a response is
handled in the right state is a fact about the request. One lemma per part, each
with one step per action; `IdleClient`, that a client whose application waits for
nothing has nothing in flight, is what a rejoin at any moment rests on. The refinement of `ClientSession` follows from
`AskedInv`: across the handovers of one operation `asked`, and so `place`, stand still.

Three things the proofs changed. `CallsInOrder` had an existential over an
implication where every pass was meant, and held of anything; the proof of it
was too easy, and it now says what its comment says. `StoredOnce` counted the entries of
a set of records, where an entry twice in one node is one element; it now counts
places. `ContainerAssumption` asked for a value that no proof needed, and
`SampleAssumption` did not say that solid is a trigger mode, which `Begin` sets.

Only model-checked, because fairness and `ENABLED` are beyond the prover: the
liveness properties `EveryFrameConfirmed`, `SpeculationConverges`, `ClosedStops` and
`RequestsAreAnswered`. The violations are TLC's too: a counterexample needs no
proof.

## 5. Not modelled, and plan

Not modelled, and why:

- A rollback session. The repository has the manager and a test, but nothing that
  sends inputs, so there is no code to translate: what a packet repeats and when it
  is sent again is undecided. `ReceivePacket` is the receiving side under any sender
  that leaves no gap.
- `SmallVector`, `LinearAllocator`, `Resource`: sequential, one object each; their
  states are what unit tests already visit. (`LinearAllocator` has no check of its
  capacity, `linear_allocator.h:40`; `Resource` is moved by swapping,
  `resource.h:41`.)
- `Adler32`, `Checksum`, `Fixed`: pure arithmetic without state.
- The quadtree in `core`: a template nothing in the repository uses but its tests. It
  compares the objects of a node with each other only, never with those of its
  children (`core/include/physics/quadtree.h:107`).
- Contacts, impulses, vectors, matrices: floating point.
- Of the Photon client: region selection and pinging, custom authentication in
  steps, room and player lists, properties, events, punching, web RPC, lobby
  statistics. Of the vendored libraries: containers, serialization, the peer.
- Callbacks that call back: a listener of the world during `RemoveCollider`'s own
  exits, an application of the client inside a callback.

Plan, in order:

1. Callbacks from `RemoveCollider`'s own exits, and two worlds that roll back from
   each other. `WorldInv` already allows a callback any removal after `TestCandidate`;
   a removal inside a removal needs the copy `RemoveCollider` iterates over.
2. The overlap that is resolved without a listener (`world.cc:130`), which needs a
   property about `ResolveCollisions`.
3. The client's second request before the first is answered, with its run, and
   what of `ClientInv` is left of it.

Out of reach: rendering, SDL, ImGui and the binary peer (external, no decisions of
this code), and the floating-point maths of vectors, matrices and contacts.
