------------------------ MODULE LoadBalancingClient ------------------------
(***************************************************************************)
(* ExitGames::LoadBalancing::Client (PhotonLib/LoadBalancing-cpp/src/      *)
(* Client.cpp): the state machine that takes an application from the name  *)
(* server to a master server, from there to a game server for every room   *)
(* it enters, and back.  The application is common::NetworkManager with    *)
(* its default options: UDP, the name server, authentication once, the     *)
(* first region.                                                           *)
(*                                                                         *)
(* mpPeer is a binary library: its state, the operation it has in flight   *)
(* and what it dispatches are modelled from how the client uses it.  It    *)
(* dispatches nothing but a status once it disconnects.  Callbacks only    *)
(* record what they tell the application, which then asks for one thing at *)
(* a time.                                                                 *)
(***************************************************************************)
EXTENDS Naturals

CONSTANTS
  Room,     \* names of rooms
  NoName,   \* the empty name
  Null      \* no room object, no address

ASSUME ClientAssumption ==
  /\ NoName \notin Room
  /\ Null \notin Room \cup {NoName}

VARIABLES
  mState,                  \* PeerStates
  mRoomName,
  mpCurrentlyJoinedRoom,   \* the name of the room object, or Null
  mGameserver,             \* the room its address was given for, or Null
  mLastJoinType,
  mLastLobbyJoinType,
  mCachedError,            \* mCachedErrorCodeFromGameServer # OK
  mAutoJoinLobby,
  mIsFetchingFriendList,
  secret,                  \* mAuthenticationValues has a secret
  peer,                    \* PeerState
  request,                 \* the operation in flight
  friends,                 \* FIND_FRIENDS is in flight as well
  asked,                   \* what the application waits for
  told,                    \* the last callback
  quit                     \* who called disconnect() since a connection was asked for

roomVars == <<mRoomName, mpCurrentlyJoinedRoom, mGameserver, mLastJoinType>>
lobbyVars == <<mLastLobbyJoinType, mAutoJoinLobby>>
peerVars == <<peer, request, friends>>
appVars == <<asked, told>>
vars == <<mState, roomVars, lobbyVars, mCachedError, mIsFetchingFriendList,
          secret, peerVars, appVars, quit>>

\* The states on a server, by the server.
OnNameserver == {"ConnectedToNameserver"}
OnMasterserver == {"Connected", "Authenticated", "JoinedLobby",
                   "ConnectedComingFromGameserver", "AuthenticatedComingFromGameserver"}
OnGameserver == {"ConnectedToGameserver", "Joining", "Joined", "Leaving"}

ConnectingStates == {"ConnectingToNameserver", "Connecting", "ConnectingToGameserver",
                     "ConnectingToMasterserver"}
HandoverStates == {"DisconnectingFromNameserver", "DisconnectingFromMasterserver",
                   "DisconnectingFromGameserver"}

PeerStates == {"Uninitialized", "PeerCreated", "Disconnecting"} \cup ConnectingStates
                \cup HandoverStates \cup OnNameserver \cup OnMasterserver \cup OnGameserver

\* Where the application may call the operations of the master server.
InLobby == {"Authenticated", "AuthenticatedComingFromGameserver", "JoinedLobby"}

\* mState >= ConnectingToGameserver && mState < ConnectingToMasterserver
getIsOnGameServer ==
  mState \in OnGameserver \cup {"ConnectingToGameserver", "DisconnectingFromGameserver"}

JoinTypes == {"createRoom", "joinOrCreateRoom", "joinRandomOrCreateRoom",
              "joinRoom", "joinRandomRoom"}

RandomTypes == {"joinRandomOrCreateRoom", "joinRandomRoom"}

Operations == {"connect", "disconnect", "leaveRoom", "joinLobby", "leaveLobby"} \cup JoinTypes

Callbacks == [call : Operations \cup {"nothing", "connection"}, ok : BOOLEAN]

NoRequest == [op |-> "none", room |-> NoName]

Requests == [op : {"none", "encryption", "getRegions", "authenticate", "create", "join",
                   "random", "joinLobby", "leaveLobby", "leave"},
             room : Room \cup {NoName}]

ClientInit ==
  /\ mState = "Uninitialized"
  /\ mRoomName = NoName
  /\ mpCurrentlyJoinedRoom = Null
  /\ mGameserver = Null
  /\ mLastJoinType = "none"
  /\ mLastLobbyJoinType = "none"
  /\ mCachedError = FALSE
  /\ mAutoJoinLobby = TRUE
  /\ mIsFetchingFriendList = FALSE
  /\ secret = FALSE
  /\ peer = "DISCONNECTED"
  /\ request = NoRequest
  /\ friends = FALSE
  /\ asked = "nothing"
  /\ told = [call |-> "nothing", ok |-> TRUE]
  /\ quit = "nobody"

-----------------------------------------------------------------------------
(* The peer and the application. *)

Send(op) == request' = [NoRequest EXCEPT !.op = op]

\* mpPeer->disconnect(): what is in flight is not dispatched any more.
PeerDisconnect ==
  /\ peer' = IF peer = "DISCONNECTED" THEN peer ELSE "DISCONNECTING"
  /\ request' = NoRequest
  /\ friends' = FALSE

\* callPeerConnect(): whether it worked is ignored.
PeerConnect ==
  /\ peer' \in {"CONNECTING", "DISCONNECTED"}
  /\ UNCHANGED <<request, friends>>

Tell(call, ok) ==
  /\ told' = [call |-> call, ok |-> ok]
  /\ asked' = "nothing"

\* The application waits for nothing that could still be answered.
Idle == asked \in {"nothing", "disconnect"}

-----------------------------------------------------------------------------
(* Operations of the application. *)

\* connect(): its own check of the state can never fail; the peer's does.
connect ==
  /\ Idle
  /\ peer = "DISCONNECTED"
  /\ peer' = "CONNECTING"
  /\ mState' = "ConnectingToNameserver"
  /\ secret' = FALSE
  /\ asked' = "connect"
  /\ quit' = "nobody"
  /\ UNCHANGED <<roomVars, lobbyVars, mCachedError, mIsFetchingFriendList, request,
                 friends, told>>

\* disconnect(): a client that is not connected, or whose mState is the value
\* of PeerState::DISCONNECTING (4, in PeerStates DisconnectingFromNameserver),
\* ignores it.
disconnect ==
  /\ quit' = "application"
  /\ UNCHANGED <<roomVars, lobbyVars, mCachedError, mIsFetchingFriendList, secret, told>>
  /\ IF mState \in {"Uninitialized", "PeerCreated", "DisconnectingFromNameserver"}
     THEN UNCHANGED <<mState, peerVars, asked>>
     ELSE /\ mState' = "Disconnecting"
          /\ PeerDisconnect
          /\ asked' = "disconnect"

\* reconnectAndRejoin(): mState is assigned before the peer is asked, which may
\* fail to connect, and refuses to unless it is disconnected.
reconnectAndRejoin ==
  /\ Idle
  /\ mGameserver # Null
  /\ mState' = "ConnectingToGameserver"
  /\ \/ /\ peer = "DISCONNECTED"
        /\ peer' = "CONNECTING"
        /\ mLastJoinType' = "joinRoom"
        /\ asked' = "joinRoom"
        /\ quit' = "nobody"
     \/ UNCHANGED <<peer, mLastJoinType, asked, quit>>
  /\ UNCHANGED <<mRoomName, mpCurrentlyJoinedRoom, mGameserver, lobbyVars, mCachedError,
                 mIsFetchingFriendList, secret, request, friends, told>>

setAutoJoinLobby ==
  /\ mAutoJoinLobby' = ~mAutoJoinLobby
  /\ UNCHANGED <<mState, roomVars, mLastLobbyJoinType, mCachedError, mIsFetchingFriendList,
                 secret, peerVars, appVars, quit>>

\* An operation is sent and its answer waited for.  A peer that is not connected
\* refuses it, and nothing changes.
AskFor(what, op) ==
  /\ asked = "nothing"
  /\ peer = "CONNECTED"
  /\ Send(op)
  /\ asked' = what
  /\ UNCHANGED <<mCachedError, mIsFetchingFriendList, secret, peer, friends, told, quit>>

opJoinLobby ==
  /\ mState \in InLobby \ {"JoinedLobby"}
  /\ mLastLobbyJoinType' = "explicit"
  /\ UNCHANGED <<mState, roomVars, mAutoJoinLobby>>
  /\ \/ AskFor("joinLobby", "joinLobby")
     \/ /\ peer # "CONNECTED"
        /\ UNCHANGED <<mCachedError, mIsFetchingFriendList, secret, peerVars, appVars, quit>>

opLeaveLobby ==
  /\ mState = "JoinedLobby"
  /\ AskFor("leaveLobby", "leaveLobby")
  /\ UNCHANGED <<mState, roomVars, lobbyVars>>

\* Mutant: the room object is only made when there is none.
FaultySendRoomOp(op, name) ==
  /\ mRoomName' = name
  /\ IF peer # "CONNECTED" \/ (op = "join" /\ name = NoName)
     THEN request' = NoRequest /\ UNCHANGED mpCurrentlyJoinedRoom
     ELSE /\ request' = [op |-> op, room |-> name]
          /\ mpCurrentlyJoinedRoom' = IF mpCurrentlyJoinedRoom = Null THEN name
                                                                    ELSE mpCurrentlyJoinedRoom

\* What opCreateRoom, opJoinOrCreateRoom, opJoinRandomOrCreateRoom and
\* opJoinRoom do on either server: the name is stored before it is known
\* whether the operation can be sent, the room object is replaced after it
\* was.  A room cannot be joined without a name, only created.
SendRoomOp(op, name) ==
  /\ mRoomName' = name
  /\ IF peer # "CONNECTED" \/ (op = "join" /\ name = NoName)
     THEN request' = NoRequest /\ UNCHANGED mpCurrentlyJoinedRoom
     ELSE request' = [op |-> op, room |-> name] /\ mpCurrentlyJoinedRoom' = name

OpOfType(type) ==
  CASE type = "createRoom" -> "create"
    [] type \in RandomTypes -> "random"
    [] OTHER -> "join"

opRoom(type, name) ==
  /\ mState \in InLobby
  /\ asked = "nothing"
  /\ SendRoomOp(OpOfType(type), name)
  /\ IF request' = NoRequest THEN UNCHANGED <<mLastJoinType, asked>>
                             ELSE mLastJoinType' = type /\ asked' = type
  /\ UNCHANGED <<mState, mGameserver, lobbyVars, mCachedError, mIsFetchingFriendList,
                 secret, peer, friends, told, quit>>

\* No name is known before the server answers.
opJoinRandomRoom ==
  /\ mState \in InLobby
  /\ AskFor("joinRandomRoom", "random")
  /\ mpCurrentlyJoinedRoom' = NoName
  /\ mLastJoinType' = "joinRandomRoom"
  /\ UNCHANGED <<mState, mRoomName, mGameserver, lobbyVars>>

opLeaveRoom(willComeBack) ==
  /\ mState = "Joined"
  /\ AskFor("leaveRoom", "leave")
  /\ mState' = "Leaving"
  /\ mGameserver' = IF willComeBack THEN mGameserver ELSE Null
  /\ UNCHANGED <<mRoomName, mpCurrentlyJoinedRoom, mLastJoinType, lobbyVars>>

\* opFindFriends(), also while another answer is awaited; a peer that is not
\* connected refuses it, and the flag stays down.
opFindFriends ==
  /\ mState \in InLobby
  /\ peer = "CONNECTED"
  /\ ~mIsFetchingFriendList
  /\ mIsFetchingFriendList' = TRUE
  /\ friends' = TRUE
  /\ UNCHANGED <<mState, roomVars, lobbyVars, mCachedError, secret, peer, request, appVars,
                 quit>>

-----------------------------------------------------------------------------
(* onStatusChanged. *)

\* CONNECT.  A server that is given the secret authenticates the client by
\* itself.
StatusConnect ==
  /\ peer = "CONNECTING"
  /\ peer' = "CONNECTED"
  /\ mState' = CASE mState = "ConnectingToNameserver" -> "ConnectedToNameserver"
                 [] mState = "ConnectingToGameserver" -> "ConnectedToGameserver"
                 [] mState = "Connecting" -> "Connected"
                 [] OTHER -> "ConnectedComingFromGameserver"
  /\ Send(CASE ~secret -> "encryption"
            [] secret /\ mState' = "ConnectedToNameserver" -> "getRegions"
            [] OTHER -> "authenticate")
  /\ UNCHANGED <<roomVars, lobbyVars, mCachedError, mIsFetchingFriendList, secret, friends,
                 appVars, quit>>

Handover ==
  /\ PeerConnect
  /\ mState' = CASE mState = "DisconnectingFromNameserver" -> "Connecting"
                 [] mState = "DisconnectingFromMasterserver" -> "ConnectingToGameserver"
                 [] OTHER -> "ConnectingToMasterserver"
  /\ UNCHANGED appVars

\* Mutant: Disconnected is the end, as its name says.
FaultyClosed ==
  /\ peer' = "DISCONNECTED"
  /\ mState' = "Disconnected"
  /\ Tell("disconnect", TRUE)
  /\ UNCHANGED <<request, friends>>

Closed ==
  /\ peer' = "DISCONNECTED"
  /\ mState' = "PeerCreated"
  /\ Tell("disconnect", TRUE)
  /\ UNCHANGED <<request, friends>>

\* Mutant: a request that is lost with the connection is still awaited.
FaultyStatusDisconnect ==
  /\ peer = "DISCONNECTING"
  /\ UNCHANGED <<roomVars, lobbyVars, mCachedError, mIsFetchingFriendList, secret, quit>>
  /\ IF mState \in HandoverStates THEN Handover ELSE Closed

\* The server handovers go on when the old server is gone.
StatusDisconnect ==
  /\ peer = "DISCONNECTING"
  /\ mIsFetchingFriendList' = FALSE
  /\ UNCHANGED <<roomVars, lobbyVars, mCachedError, secret, quit>>
  /\ IF mState \in HandoverStates THEN Handover ELSE Closed

StatusEncryptionEstablished ==
  /\ request.op = "encryption"
  /\ Send(IF mState = "ConnectedToNameserver" THEN "getRegions" ELSE "authenticate")
  /\ UNCHANGED <<mState, roomVars, lobbyVars, mCachedError, mIsFetchingFriendList, secret,
                 peer, friends, appVars, quit>>

\* Mutant: the game server is not left.
FaultyHandleConnectionFlowError ==
  /\ IF mState \in {"ConnectedToGameserver", "Joining"}
     THEN /\ mState' = "DisconnectingFromGameserver"
          /\ mCachedError' = TRUE
          /\ request' = NoRequest
          /\ UNCHANGED <<peer, friends, appVars>>
     ELSE /\ mState' = "Disconnecting"
          /\ PeerDisconnect
          /\ Tell("connect", FALSE)
          /\ UNCHANGED mCachedError
  /\ UNCHANGED <<roomVars, lobbyVars, mIsFetchingFriendList, secret, quit>>

\* handleConnectionFlowError(): an error on the game server is told when the
\* client is back on the master server.
handleConnectionFlowError ==
  /\ PeerDisconnect
  /\ IF mState \in {"ConnectedToGameserver", "Joining"}
     THEN /\ mState' = "DisconnectingFromGameserver"
          /\ mCachedError' = TRUE
          /\ UNCHANGED appVars
     ELSE /\ mState' = "Disconnecting"
          /\ Tell("connect", FALSE)
          /\ UNCHANGED mCachedError
  /\ UNCHANGED <<roomVars, lobbyVars, mIsFetchingFriendList, secret, quit>>

StatusEncryptionFailed ==
  /\ request.op = "encryption"
  /\ handleConnectionFlowError

\* EXCEPTION, TIMEOUT_DISCONNECT, DISCONNECT_BY_SERVER...: the peer may be
\* disconnected already.
StatusError ==
  /\ peer # "DISCONNECTED"
  /\ told' = [call |-> "connection", ok |-> FALSE]
  /\ UNCHANGED <<roomVars, lobbyVars, mCachedError, mIsFetchingFriendList, secret, quit>>
  /\ request' = NoRequest
  /\ friends' = FALSE
  /\ asked' = "nothing"
  /\ \/ /\ peer # "DISCONNECTING"
        /\ peer' = "DISCONNECTING"
        /\ mState' = "Disconnecting"
     \/ /\ peer' = IF peer = "DISCONNECTING" THEN peer ELSE "DISCONNECTED"
        /\ mState' = "PeerCreated"

-----------------------------------------------------------------------------
(* onOperationResponse. *)

ResponseGetRegions ==
  /\ request.op = "getRegions"
  /\ Send("authenticate")
  /\ UNCHANGED <<mState, roomVars, lobbyVars, mCachedError, mIsFetchingFriendList, secret,
                 peer, friends, appVars, quit>>

\* A failed GET_REGIONS is only logged.
ResponseGetRegionsFailed ==
  /\ request.op = "getRegions"
  /\ request' = NoRequest
  /\ UNCHANGED <<mState, roomVars, lobbyVars, mCachedError, mIsFetchingFriendList, secret,
                 peer, friends, appVars, quit>>

\* onConnectToMasterFinished(): the callback that was due.
onConnectToMasterFinished(comingFromGameserver) ==
  \/ /\ comingFromGameserver
     /\ mCachedError
     /\ Tell(mLastJoinType, FALSE)
     /\ mCachedError' = FALSE
  \/ /\ comingFromGameserver => ~mCachedError
     /\ Tell(IF comingFromGameserver THEN "leaveRoom" ELSE "connect", TRUE)
     /\ UNCHANGED mCachedError

\* onArrivalAndAuthentication() on the master server.
ArriveOnMaster ==
  /\ mState \in {"Connected", "ConnectedComingFromGameserver"}
  /\ mState' = IF mState = "Connected" THEN "Authenticated" ELSE "AuthenticatedComingFromGameserver"
  /\ IF mAutoJoinLobby
     THEN /\ Send("joinLobby")
          /\ mLastLobbyJoinType' = "auto"
          /\ UNCHANGED <<mCachedError, appVars>>
     ELSE /\ request' = NoRequest
          /\ onConnectToMasterFinished(mState = "ConnectedComingFromGameserver")
          /\ UNCHANGED mLastLobbyJoinType
  /\ UNCHANGED <<roomVars, mAutoJoinLobby>>

\* Mutant: an error told, or never told, of an earlier room is kept.
FaultyArriveOnGame ==
  /\ mState = "ConnectedToGameserver"
  /\ mState' = "Joining"
  /\ SendRoomOp(IF mLastJoinType = "createRoom" THEN "create" ELSE "join", mRoomName)
  /\ UNCHANGED <<mGameserver, mLastJoinType, lobbyVars, mCachedError, appVars>>

\* onArrivalAndAuthentication() on the game server: the operation is sent
\* again, to the server that has the room.
ArriveOnGame ==
  /\ mState = "ConnectedToGameserver"
  /\ mState' = "Joining"
  /\ mCachedError' = FALSE
  /\ SendRoomOp(IF mLastJoinType = "createRoom" THEN "create" ELSE "join", mRoomName)
  /\ UNCHANGED <<mGameserver, mLastJoinType, lobbyVars, appVars>>

ResponseAuthenticate ==
  /\ request.op = "authenticate"
  /\ secret' \in {secret, TRUE}
  /\ UNCHANGED <<mIsFetchingFriendList, quit>>
  /\ IF mState = "ConnectedToNameserver"
     THEN /\ mState' = "DisconnectingFromNameserver"
          /\ PeerDisconnect
          /\ UNCHANGED <<roomVars, lobbyVars, mCachedError, appVars>>
     ELSE /\ ArriveOnMaster \/ ArriveOnGame
          /\ UNCHANGED <<peer, friends>>

ResponseAuthenticateFailed ==
  /\ request.op = "authenticate"
  /\ handleConnectionFlowError

\* The master server knows a game server for the room.
MoveToGameserver(name) ==
  /\ mRoomName' = name
  /\ mGameserver' = name
  /\ mState' = "DisconnectingFromMasterserver"
  /\ PeerDisconnect
  /\ UNCHANGED <<mpCurrentlyJoinedRoom, mLastJoinType, lobbyVars, mCachedError,
                 mIsFetchingFriendList, secret, appVars, quit>>

\* The game server let the client in.
EnterRoom ==
  /\ mState' = "Joined"
  /\ request' = NoRequest
  /\ Tell(mLastJoinType, TRUE)
  /\ UNCHANGED <<roomVars, lobbyVars, mCachedError, mIsFetchingFriendList, secret, peer,
                 friends, quit>>

\* A room created without a name gets one from the server.
NameGiven(name) == request.room = NoName \/ request.room = name

ResponseRoom ==
  /\ request.op \in {"create", "join"}
  /\ IF getIsOnGameServer THEN EnterRoom
     ELSE \E name \in Room : NameGiven(name) /\ MoveToGameserver(name)

\* The server picks the room.
ResponseRandom ==
  /\ request.op = "random"
  /\ \E name \in Room : MoveToGameserver(name)

\* Mutant: the newer kind of random join is forgotten.
FaultyToldOf(op) ==
  CASE op = "create" -> {"createRoom"}
    [] op = "join" -> {"joinRoom", "joinOrCreateRoom"}
    [] OTHER -> {"joinRandomRoom"}

\* The join operations that each kind of response is told of.
ToldOf(op) ==
  CASE op = "create" -> {"createRoom"}
    [] op = "join" -> {"joinRoom", "joinOrCreateRoom"}
    [] OTHER -> RandomTypes

TellRefused ==
  IF mLastJoinType \in ToldOf(request.op) THEN Tell(mLastJoinType, FALSE) ELSE UNCHANGED appVars

\* CREATE_ROOM, JOIN_ROOM and JOIN_RANDOM_ROOM with an error code.
ResponseRefused ==
  /\ request.op \in {"create", "join", "random"}
  /\ IF getIsOnGameServer THEN handleConnectionFlowError
     ELSE /\ TellRefused
          /\ request' = NoRequest
          /\ UNCHANGED <<mState, roomVars, lobbyVars, mCachedError, mIsFetchingFriendList,
                         secret, peer, friends, quit>>

\* JOIN_LOBBY, LEAVE_LOBBY and LEAVE are taken for granted whatever their code.
ResponseJoinLobby ==
  /\ request.op = "joinLobby"
  /\ request' = NoRequest
  /\ mState' = "JoinedLobby"
  /\ IF mLastLobbyJoinType = "auto"
     THEN onConnectToMasterFinished(mState = "AuthenticatedComingFromGameserver")
     ELSE Tell("joinLobby", TRUE) /\ UNCHANGED mCachedError
  /\ UNCHANGED <<roomVars, lobbyVars, mIsFetchingFriendList, secret, peer, friends, quit>>

ResponseLeaveLobby ==
  /\ request.op = "leaveLobby"
  /\ request' = NoRequest
  /\ mState' = "Authenticated"
  /\ Tell("leaveLobby", TRUE)
  /\ UNCHANGED <<roomVars, lobbyVars, mCachedError, mIsFetchingFriendList, secret, peer,
                 friends, quit>>

\* Mutant: the client waits for the game server to close the connection.
FaultyResponseLeave ==
  /\ request.op = "leave"
  /\ request' = NoRequest
  /\ mIsFetchingFriendList' = FALSE
  /\ mState' = "DisconnectingFromGameserver"
  /\ UNCHANGED <<roomVars, lobbyVars, mCachedError, secret, peer, friends, appVars, quit>>

ResponseLeave ==
  /\ request.op = "leave"
  /\ mIsFetchingFriendList' = FALSE
  /\ mState' = "DisconnectingFromGameserver"
  /\ PeerDisconnect
  /\ UNCHANGED <<roomVars, lobbyVars, mCachedError, secret, appVars, quit>>

\* With an error or not.
ResponseFindFriends ==
  /\ friends
  /\ friends' = FALSE
  /\ mIsFetchingFriendList' = FALSE
  /\ UNCHANGED <<mState, roomVars, lobbyVars, mCachedError, secret, peer, request, appVars,
                 quit>>

-----------------------------------------------------------------------------
(* The same with OPERATION_LIMIT_REACHED, in the response to any operation: *)
(* the client disconnects first and then executes the response, in a state  *)
(* that is Disconnecting.                                                   *)

LimitOnAuthenticate ==
  /\ request.op = "authenticate"
  /\ mState' = "Disconnecting"
  /\ Tell("connect", FALSE)
  /\ UNCHANGED mIsFetchingFriendList

\* It is on no game server any more.
LimitOnRoom ==
  /\ request.op \in {"create", "join", "random"}
  /\ mState' = "Disconnecting"
  /\ TellRefused
  /\ UNCHANGED mIsFetchingFriendList

\* It did not come from a game server as far as it can tell.
LimitOnJoinLobby ==
  /\ request.op = "joinLobby"
  /\ mState' = "JoinedLobby"
  /\ Tell(IF mLastLobbyJoinType = "auto" THEN "connect" ELSE "joinLobby", TRUE)
  /\ UNCHANGED mIsFetchingFriendList

LimitOnLeaveLobby ==
  /\ request.op = "leaveLobby"
  /\ mState' = "Authenticated"
  /\ Tell("leaveLobby", TRUE)
  /\ UNCHANGED mIsFetchingFriendList

LimitOnLeave ==
  /\ request.op = "leave"
  /\ mState' = "DisconnectingFromGameserver"
  /\ mIsFetchingFriendList' = FALSE
  /\ UNCHANGED appVars

\* Responses that do no more than FIND_FRIENDS does: GET_REGIONS, and operations
\* that are not modelled, SET_PROPERTIES and LOBBY_STATS among them.
LimitOnOther ==
  /\ mState' = "Disconnecting"
  /\ UNCHANGED appVars
  /\ \/ friends /\ mIsFetchingFriendList' = FALSE
     \/ /\ \/ request.op = "getRegions"
           \/ /\ peer = "CONNECTED"
              /\ mState \in InLobby \cup {"Joined", "Leaving", "ConnectingToGameserver"}
        /\ UNCHANGED mIsFetchingFriendList

ResponseLimitReached ==
  /\ \/ LimitOnAuthenticate
     \/ LimitOnRoom
     \/ LimitOnJoinLobby
     \/ LimitOnLeaveLobby
     \/ LimitOnLeave
     \/ LimitOnOther
  /\ PeerDisconnect
  /\ quit' = "limit"
  /\ UNCHANGED <<roomVars, lobbyVars, mCachedError, secret>>

-----------------------------------------------------------------------------

Operation ==
  \/ connect
  \/ disconnect
  \/ reconnectAndRejoin
  \/ setAutoJoinLobby
  \/ opJoinLobby
  \/ opLeaveLobby
  \/ \E type \in JoinTypes \ {"joinRandomRoom"}, name \in Room \cup {NoName} : opRoom(type, name)
  \/ opJoinRandomRoom
  \/ \E willComeBack \in BOOLEAN : opLeaveRoom(willComeBack)
  \/ opFindFriends

onStatusChanged ==
  \/ StatusConnect
  \/ StatusDisconnect
  \/ StatusEncryptionEstablished
  \/ StatusEncryptionFailed
  \/ StatusError

onOperationResponse ==
  \/ ResponseGetRegions
  \/ ResponseGetRegionsFailed
  \/ ResponseAuthenticate
  \/ ResponseAuthenticateFailed
  \/ ResponseRoom
  \/ ResponseRandom
  \/ ResponseRefused
  \/ ResponseJoinLobby
  \/ ResponseLeaveLobby
  \/ ResponseLeave
  \/ ResponseFindFriends
  \/ ResponseLimitReached

ClientNext == Operation \/ onStatusChanged \/ onOperationResponse

\* The answer to the operation in flight.
Answered ==
  /\ onOperationResponse \/ StatusEncryptionEstablished \/ StatusEncryptionFailed
  /\ request' # request

ClientSpec == ClientInit /\ [][ClientNext]_vars

\* FixedUpdate calls service(), which dispatches what the network brings: a
\* connection is made or refused, closed when asked, and requests answered.
Dispatch == WF_vars(StatusConnect) /\ WF_vars(StatusDisconnect) /\ WF_vars(Answered)

FairClientSpec == ClientSpec /\ Dispatch

-----------------------------------------------------------------------------
(* Properties. *)

\* Every variable has its type.
ClientTypeOK ==
  /\ mState \in PeerStates
  /\ mRoomName \in Room \cup {NoName}
  /\ mpCurrentlyJoinedRoom \in Room \cup {NoName, Null}
  /\ mGameserver \in Room \cup {Null}
  /\ mLastJoinType \in JoinTypes \cup {"none"}
  /\ mLastLobbyJoinType \in {"none", "auto", "explicit"}
  /\ mCachedError \in BOOLEAN /\ mAutoJoinLobby \in BOOLEAN /\ mIsFetchingFriendList \in BOOLEAN
  /\ secret \in BOOLEAN /\ friends \in BOOLEAN
  /\ quit \in {"nobody", "application", "limit"}
  /\ peer \in {"DISCONNECTED", "CONNECTING", "CONNECTED", "DISCONNECTING"}
  /\ request \in Requests
  /\ asked \in Operations \cup {"nothing"}
  /\ told \in Callbacks

\* What reconnectAndRejoin() makes of a client whose peer refuses to connect:
\* it waits for nothing, and nothing that it waits for is in flight.
RefusedRejoin ==
  /\ mState = "ConnectingToGameserver"
  /\ peer \in {"CONNECTED", "DISCONNECTING"}
  /\ request = NoRequest
  /\ Idle

\* What a lobby operation makes of a client that disconnects at the limit.
ClosingInLobby ==
  /\ mState \in {"JoinedLobby", "Authenticated"}
  /\ peer = "DISCONNECTING"
  /\ request = NoRequest
  /\ quit = "limit"

\* The client's state, which decides what every status and response means, is
\* one that the peer's state allows, through all handovers and errors: a
\* client that thinks it is on a server is connected, one that thinks it is
\* moving is not.  There are two exceptions: after reconnectAndRejoin() of a
\* client that is connected (Client.cpp:1489), when only FIND_FRIENDS can be in
\* flight, and until the connection is closed after a lobby operation that
\* reached the limit (1855, 1863), when nothing can.
StateMatchesPeer ==
  /\ mState \in OnNameserver \cup OnMasterserver \cup OnGameserver =>
       peer = "CONNECTED" \/ ClosingInLobby
  /\ mState \in HandoverStates => peer = "DISCONNECTING"
  /\ mState \in ConnectingStates => peer \in {"CONNECTING", "DISCONNECTED"} \/ RefusedRejoin
  /\ mState \in {"PeerCreated", "Disconnecting"} => peer \in {"DISCONNECTING", "DISCONNECTED"}
  /\ mState = "Uninitialized" => peer = "DISCONNECTED"

\* The room object that the handlers dereference without a check is there
\* whenever they may run, and in a room it is the object of the room whose
\* name the operation was sent with, random rooms included.
RoomIsThere ==
  /\ mState \in OnGameserver \cup {"ConnectingToGameserver"} => mpCurrentlyJoinedRoom # Null
  /\ mState \in {"Joined", "Leaving"} =>
       mpCurrentlyJoinedRoom = mRoomName /\ mRoomName \in Room

\* mIsFetchingFriendList makes opFindFriends fail until the answer comes: in
\* the lobby, and connected, it is never left set with no answer to come,
\* whatever became of the connection the request was sent over.
FriendsAreAwaited ==
  mState \in InLobby /\ peer = "CONNECTED" /\ mIsFetchingFriendList => friends

\* Nothing will be called any more, and the application was not told so.
Stranded ==
  /\ peer \notin {"CONNECTING", "DISCONNECTING"}
  /\ request = NoRequest
  /\ mState \notin InLobby \cup {"Uninitialized", "PeerCreated", "Joined"}

\* That happens only where the code ignores a failure: of connect() at a
\* handover or a rejoin, of GET_REGIONS, of joining a room without a name, and
\* of reconnectAndRejoin() while connected, which fails after it left the state
\* that the connection is in.
StrandedByIgnoredFailures ==
  Stranded => \/ peer = "DISCONNECTED" /\ mState \in ConnectingStates \cup {"Disconnecting"}
              \/ mState = "ConnectedToNameserver"
              \/ mState = "Joining" /\ mRoomName = NoName
              \/ RefusedRejoin

\* Otherwise the application is always answered in the end.
RequestsAreAnswered == asked # "nothing" ~> (asked = "nothing" \/ Stranded)

\* A client whose application called disconnect() is on no master or game
\* server before it connects again (Client.cpp:680 on disconnect(): "If the
\* disconnection is completed successfully, then ... disconnectReturn()").
DisconnectStops == quit = "application" => mState \notin OnMasterserver \cup OnGameserver

\* The session the application sees.
place ==
  CASE asked = "leaveRoom" \/ mState = "Joined" -> "room"
    [] asked \in JoinTypes \cup {"joinLobby", "leaveLobby"} -> "master"
    [] asked = "nothing" /\ mState \in InLobby /\ peer = "CONNECTED" -> "master"
    [] OTHER -> "offline"

Session == INSTANCE ClientSession

\* Each operation is answered once, by its own callback or by the loss of the
\* connection, across the handovers that one operation takes, or, at the
\* operation limit on the way back from a game server, by connectReturn: the
\* client implements ClientSession.
ImplementsSession == Session!Session

=============================================================================
