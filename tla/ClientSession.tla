---------------------------- MODULE ClientSession ----------------------------
(***************************************************************************)
(* What an application that drives a Photon LoadBalancing client through   *)
(* its Listener is promised (the doc comments of Client.cpp and            *)
(* common/include/network/client_interface.h): it asks for one thing at a  *)
(* time, and is told of that very thing, or that the connection is gone.   *)
(*                                                                         *)
(* A callback is named after the operation it answers: [call |->           *)
(* "createRoom", ok |-> FALSE] is createRoomReturn with an error code.     *)
(***************************************************************************)

JoinTypes == {"createRoom", "joinOrCreateRoom", "joinRandomOrCreateRoom",
              "joinRoom", "joinRandomRoom"}

LobbyOps == {"joinLobby", "leaveLobby"}

Requests == {"connect", "disconnect", "leaveRoom"} \cup JoinTypes \cup LobbyOps

\* Told of a broken connection.
ConnectionError == [call |-> "connection", ok |-> FALSE]

VARIABLES
  asked,   \* what the application waits for, or "nothing"
  told,    \* the last callback
  place    \* where the application is: "offline", "master" or "room"

session == <<asked, told, place>>

SessionInit ==
  /\ asked = "nothing"
  /\ told = [call |-> "nothing", ok |-> TRUE]
  /\ place = "offline"

Connect ==
  /\ place = "offline"
  /\ asked \in {"nothing", "disconnect"}
  /\ asked' = "connect"
  /\ UNCHANGED <<told, place>>

\* reconnectAndRejoin skips the master server.
Rejoin ==
  /\ place = "offline"
  /\ asked \in {"nothing", "disconnect"}
  /\ asked' = "joinRoom"
  /\ place' = "master"
  /\ UNCHANGED told

Ask(request) ==
  /\ asked = "nothing"
  /\ place = IF request = "leaveRoom" THEN "room" ELSE "master"
  /\ asked' = request
  /\ UNCHANGED <<told, place>>

\* The server may be closing the connection as it answers a connect or a lobby
\* operation, which are reported as done all the same.
Succeed ==
  /\ asked \notin {"nothing", "disconnect"}
  /\ told' = [call |-> asked, ok |-> TRUE]
  /\ \/ place' = IF asked \in JoinTypes THEN "room" ELSE "master"
     \/ asked \in LobbyOps \cup {"connect"} /\ place' = "offline"
  /\ asked' = "nothing"

\* Back on a master server that closes the connection, the client has
\* forgotten where it came from (Client.cpp:1595, 1857).
Misreport ==
  /\ asked \in JoinTypes \cup {"leaveRoom"}
  /\ told' = [call |-> "connect", ok |-> TRUE]
  /\ place' = "offline"
  /\ asked' = "nothing"

\* A room that cannot be entered; the server may also be closing the
\* connection.
Refuse ==
  /\ asked \in JoinTypes
  /\ told' = [call |-> asked, ok |-> FALSE]
  /\ place' \in {"master", "offline"}
  /\ asked' = "nothing"

\* connectionErrorReturn, or connectReturn with an error.
Lose ==
  /\ told' \in {ConnectionError, [call |-> "connect", ok |-> FALSE]}
  /\ place' = "offline"
  /\ asked' = "nothing"

\* An application that waits for nothing is not told at once: not at all when it
\* called reconnectAndRejoin() where it could not, by disconnectReturn() when
\* the server does not let it go on.
Forfeit ==
  /\ asked = "nothing"
  /\ place' = "offline"
  /\ UNCHANGED <<asked, told>>

Disconnect ==
  /\ asked' = "disconnect"
  /\ place' = "offline"
  /\ UNCHANGED told

Closed ==
  /\ told' = [call |-> "disconnect", ok |-> TRUE]
  /\ place' = "offline"
  /\ asked' = "nothing"

SessionNext ==
  \/ Connect
  \/ Rejoin
  \/ \E request \in JoinTypes \cup LobbyOps \cup {"leaveRoom"} : Ask(request)
  \/ Succeed
  \/ Misreport
  \/ Refuse
  \/ Lose
  \/ Forfeit
  \/ Disconnect
  \/ Closed

Session == SessionInit /\ [][SessionNext]_session

=============================================================================
