--------------------- MODULE LoadBalancingClientProofs ---------------------
(***************************************************************************)
(* Proofs about LoadBalancingClient, for every set of rooms: the invariants*)
(* of its states, and that it implements ClientSession.                    *)
(***************************************************************************)
EXTENDS LoadBalancingClient, TLAPS

-----------------------------------------------------------------------------
(* The inductive invariant. *)

\* The states that each state of the peer allows.
PeerInv ==
  /\ peer = "CONNECTED" =>
       mState \in OnNameserver \cup OnMasterserver \cup OnGameserver \/ RefusedRejoin
  /\ peer = "CONNECTING" => mState \in ConnectingStates
  /\ peer = "DISCONNECTING" =>
       \/ mState \in HandoverStates \cup {"Disconnecting", "PeerCreated"}
       \/ RefusedRejoin
       \/ ClosingInLobby
  /\ peer = "DISCONNECTED" =>
       mState \in ConnectingStates \cup {"Disconnecting", "PeerCreated", "Uninitialized"}

\* Just connected to a server.
Fresh == {"ConnectedToNameserver", "ConnectedToGameserver", "Connected",
          "ConnectedComingFromGameserver"}

\* Where the client is when it has each operation in flight.
RequestInv ==
  /\ request.op # "none" => peer = "CONNECTED"
  /\ request.op = "none" => request = NoRequest
  /\ request.op \in {"encryption", "authenticate"} => mState \in Fresh
  /\ request.op = "getRegions" => mState = "ConnectedToNameserver"
  /\ request.op \in {"create", "join"} => mState \in InLobby \cup {"Joining"}
  /\ request.op = "random" => mState \in InLobby
  /\ request.op = "joinLobby" => mState \in InLobby \ {"JoinedLobby"}
  /\ request.op = "leaveLobby" => mState = "JoinedLobby"
  /\ request.op = "leave" => mState = "Leaving"
  /\ mState = "Leaving" => request.op = "leave"
  /\ mState \in Fresh \ {"ConnectedToNameserver"} => request.op \in {"encryption", "authenticate"}
  /\ mState = "Joining" /\ request.op = "none" => mRoomName = NoName

\* On the way to a game server, with a connection or one to come.
ToGameserver ==
  \/ mState \in {"DisconnectingFromMasterserver", "ConnectedToGameserver"}
  \/ mState = "ConnectingToGameserver" /\ peer = "CONNECTING"

\* The room that the client is about to enter, or in.
RoomInv ==
  /\ \/ mState \in OnGameserver \cup {"ConnectingToGameserver", "DisconnectingFromMasterserver"}
     \/ request.op \in {"create", "join", "random"}
     \/ mGameserver # Null
     => mpCurrentlyJoinedRoom # Null
  /\ ToGameserver => mRoomName \in Room \/ mLastJoinType = "joinRoom"
  /\ \/ mState = "Joining" /\ request.op # "none"
     \/ mState \in {"Joined", "Leaving"}
     => mRoomName \in Room /\ mpCurrentlyJoinedRoom = mRoomName

\* A flag without a request is cleared before the next lobby.
FriendsInv ==
  mIsFetchingFriendList /\ ~friends =>
    \/ mState \notin OnMasterserver \cup {"Connecting", "ConnectingToMasterserver"}
    \/ peer = "DISCONNECTING"

\* Back from a game server the client owes either the error that it met there
\* or the answer to leaveRoom.
OwesReturn ==
  IF mCachedError THEN asked = mLastJoinType /\ asked \in JoinTypes ELSE asked = "leaveRoom"

AutoJoining == request.op = "joinLobby" /\ mLastLobbyJoinType = "auto"

\* What the application waits for.
AskedInv ==
  /\ mState \in {"ConnectingToNameserver", "ConnectedToNameserver",
                 "DisconnectingFromNameserver", "Connecting", "Connected"} => asked = "connect"
  /\ mState = "Authenticated" /\ AutoJoining => asked = "connect"
  /\ ToGameserver \/ mState = "Joining" => asked = mLastJoinType /\ asked \in JoinTypes
  /\ mState \in {"DisconnectingFromGameserver", "ConnectingToMasterserver",
                 "ConnectedComingFromGameserver"} => OwesReturn
  /\ mState = "AuthenticatedComingFromGameserver" /\ AutoJoining => OwesReturn
  /\ request.op = "joinLobby" => mLastLobbyJoinType # "none"
  /\ request.op = "joinLobby" /\ mLastLobbyJoinType = "explicit" => asked = "joinLobby"
  /\ request.op = "leaveLobby" => asked = "leaveLobby"
  /\ mState \in InLobby /\ request.op \in {"create", "join", "random"} =>
       asked = mLastJoinType /\ asked \in ToldOf(request.op)
  /\ mState \in InLobby /\ request.op = "none" => asked = "nothing"
  /\ mState \in {"Joined", "Uninitialized", "PeerCreated"} => asked = "nothing"
  /\ mState = "Leaving" => asked = "leaveRoom"
  /\ mState \in {"Joining", "Joined", "Leaving"} => ~mCachedError

ClientInv == ClientTypeOK /\ PeerInv /\ RequestInv /\ RoomInv /\ FriendsInv /\ AskedInv

-----------------------------------------------------------------------------
(* A step of the client, as the cases that the proofs go through. *)

\* The errors on the way that handleConnectionFlowError() handles.
FlowError == request.op # "none" /\ handleConnectionFlowError

\* A room operation that the master server refuses.
RefusedOnMaster ==
  /\ request.op \in {"create", "join", "random"}
  /\ ~getIsOnGameServer
  /\ TellRefused
  /\ request' = NoRequest
  /\ UNCHANGED <<mState, roomVars, lobbyVars, mCachedError, mIsFetchingFriendList,
                 secret, peer, friends, quit>>

Steps ==
  \/ connect
  \/ disconnect
  \/ reconnectAndRejoin
  \/ setAutoJoinLobby
  \/ opJoinLobby
  \/ opLeaveLobby
  \/ \E type \in JoinTypes \ {"joinRandomRoom"}, name \in Room \cup {NoName} : opRoom(type, name)
  \/ opJoinRandomRoom
  \/ \E willComeBack \in BOOLEAN : opLeaveRoom(willComeBack)
  \/ opFindFriends
  \/ StatusConnect
  \/ StatusDisconnect
  \/ StatusEncryptionEstablished
  \/ FlowError
  \/ StatusError
  \/ ResponseGetRegions
  \/ ResponseGetRegionsFailed
  \/ ResponseAuthenticate
  \/ ResponseRoom
  \/ ResponseRandom
  \/ RefusedOnMaster
  \/ ResponseLimitReached
  \/ ResponseJoinLobby
  \/ ResponseLeaveLobby
  \/ ResponseLeave
  \/ ResponseFindFriends

\* Every step of the client is one of these, or changes nothing.
LEMMA StepsAreAll == [ClientNext]_vars => Steps \/ UNCHANGED vars
  BY DEF ClientNext, Operation, onStatusChanged, onOperationResponse, Steps, FlowError,
         RefusedOnMaster, StatusEncryptionFailed, ResponseAuthenticateFailed, ResponseRefused

USE DEF PeerStates, ConnectingStates, HandoverStates, OnNameserver, OnMasterserver,
        OnGameserver, InLobby, JoinTypes, RandomTypes, Operations, NoRequest, Fresh,
        roomVars, lobbyVars, peerVars, appVars, ToldOf, OpOfType

\* What the client sends is of the requests' type.
LEMMA RequestType ==
  \A op \in {"none", "encryption", "getRegions", "authenticate", "create", "join", "random",
             "joinLobby", "leaveLobby", "leave"}, room \in Room \cup {NoName} :
    [op |-> op, room |-> room] \in Requests
  BY DEF Requests

\* What the client tells is of the callbacks' type.
LEMMA CallbackType ==
  \A call \in Operations \cup {"nothing", "connection"}, ok \in BOOLEAN :
    [call |-> call, ok |-> ok] \in Callbacks
  BY DEF Callbacks

\* The two halves of ClientTypeOK, which need different provers.
FlagsOK ==
  /\ mCachedError \in BOOLEAN /\ mAutoJoinLobby \in BOOLEAN /\ mIsFetchingFriendList \in BOOLEAN
  /\ secret \in BOOLEAN /\ friends \in BOOLEAN

ValuesOK ==
  /\ mState \in PeerStates
  /\ mRoomName \in Room \cup {NoName}
  /\ mpCurrentlyJoinedRoom \in Room \cup {NoName, Null}
  /\ mGameserver \in Room \cup {Null}
  /\ mLastJoinType \in JoinTypes \cup {"none"}
  /\ mLastLobbyJoinType \in {"none", "auto", "explicit"}
  /\ peer \in {"DISCONNECTED", "CONNECTING", "CONNECTED", "DISCONNECTING"}
  /\ request \in Requests
  /\ asked \in Operations \cup {"nothing"}
  /\ told \in Callbacks
  /\ quit \in {"nobody", "application", "limit"}

\* A callback is of the callbacks' type, and answers.
LEMMA TellType ==
  ASSUME NEW call, NEW ok \in BOOLEAN, call \in Operations \cup {"connection"}, Tell(call, ok)
  PROVE  told' \in Callbacks /\ asked' = "nothing"
  BY CallbackType DEF Tell

\* A client that waits for nothing has nothing in flight, and no connection
\* to come.
LEMMA IdleClient == ClientInv /\ Idle => request = NoRequest /\ peer # "CONNECTING"
<1> SUFFICES ASSUME ClientInv, Idle PROVE request = NoRequest /\ peer # "CONNECTING"
  OBVIOUS
<1> USE DEF ClientInv, Idle
<1>1. asked \notin {"connect", "leaveRoom", "joinLobby", "leaveLobby"} \cup JoinTypes
  OBVIOUS
<1>2. ~OwesReturn
  BY <1>1 DEF OwesReturn
<1>3. peer # "CONNECTING"
  BY <1>1, <1>2 DEF PeerInv, AskedInv, ToGameserver
<1>4. mState \notin Fresh
  BY <1>1, <1>2 DEF AskedInv, ToGameserver
<1>5. request.op \in {"none", "encryption", "getRegions", "authenticate", "create", "join",
                      "random", "joinLobby", "leaveLobby", "leave"}
  BY DEF ClientTypeOK, Requests
<1>6. request.op \notin {"encryption", "getRegions", "authenticate"}
  BY <1>4 DEF RequestInv
<1>7. request.op \notin {"create", "join", "random"}
  BY <1>1 DEF RequestInv, AskedInv
<1>8. request.op \notin {"joinLobby", "leaveLobby", "leave"}
  <2>1. CASE mLastLobbyJoinType = "auto" /\ request.op = "joinLobby"
    BY <2>1, <1>1, <1>2 DEF RequestInv, AskedInv, AutoJoining
  <2>2. CASE mLastLobbyJoinType = "explicit" /\ request.op = "joinLobby"
    BY <2>2, <1>1 DEF AskedInv
  <2>3. CASE request.op \in {"leaveLobby", "leave"}
    BY <2>3, <1>1 DEF RequestInv, AskedInv
  <2> QED BY <2>1, <2>2, <2>3 DEF AskedInv, ClientTypeOK
<1> QED BY <1>3, <1>5, <1>6, <1>7, <1>8 DEF RequestInv

\* Every step preserves FlagsOK.
LEMMA FlagsStep == ClientInv /\ Steps => FlagsOK'
<1> SUFFICES ASSUME ClientInv, Steps PROVE FlagsOK'
  OBVIOUS
<1> USE ClientAssumption DEF ClientInv, ClientTypeOK, FlagsOK
<1>1. CASE connect
  BY <1>1, Zenon DEF connect, Idle
<1>2. CASE disconnect
  BY <1>2, Zenon DEF disconnect, PeerDisconnect
<1>3. CASE reconnectAndRejoin
  BY <1>3, Zenon DEF reconnectAndRejoin, Idle
<1>4. CASE setAutoJoinLobby
  BY <1>4, Zenon DEF setAutoJoinLobby
<1>5. CASE opJoinLobby
  BY <1>5, Zenon DEF opJoinLobby, AskFor, Send
<1>6. CASE opLeaveLobby
  BY <1>6, Zenon DEF opLeaveLobby, AskFor, Send
<1>7. CASE \E type \in JoinTypes \ {"joinRandomRoom"}, name \in Room \cup {NoName} : opRoom(type, name)
  BY <1>7, Zenon DEF opRoom, SendRoomOp
<1>8. CASE opJoinRandomRoom
  BY <1>8, Zenon DEF opJoinRandomRoom, AskFor, Send
<1>9. CASE \E willComeBack \in BOOLEAN : opLeaveRoom(willComeBack)
  BY <1>9, Zenon DEF opLeaveRoom, AskFor, Send
<1>10. CASE opFindFriends
  BY <1>10, Zenon DEF opFindFriends
<1>11. CASE StatusConnect
  BY <1>11, Zenon DEF StatusConnect, Send
<1>12. CASE StatusDisconnect
  BY <1>12, Zenon DEF StatusDisconnect, Handover, Closed, PeerConnect, Tell
<1>13. CASE StatusEncryptionEstablished
  BY <1>13, Zenon DEF StatusEncryptionEstablished, Send
<1>14. CASE FlowError
  BY <1>14, Zenon DEF FlowError, handleConnectionFlowError, PeerDisconnect, Tell
<1>15. CASE StatusError
  BY <1>15, Zenon DEF StatusError
<1>16. CASE ResponseGetRegions
  BY <1>16, Zenon DEF ResponseGetRegions, Send
<1>17. CASE ResponseGetRegionsFailed
  BY <1>17, Zenon DEF ResponseGetRegionsFailed
<1>18. CASE ResponseAuthenticate
  BY <1>18, Zenon DEF ResponseAuthenticate, ArriveOnMaster, ArriveOnGame, SendRoomOp, Send,
           onConnectToMasterFinished, Tell, PeerDisconnect
<1>19. CASE ResponseRoom
  BY <1>19, Zenon DEF ResponseRoom, EnterRoom, MoveToGameserver, PeerDisconnect, Tell,
       getIsOnGameServer
<1>20. CASE ResponseRandom
  BY <1>20, Zenon DEF ResponseRandom, MoveToGameserver, PeerDisconnect
<1>21. CASE RefusedOnMaster
  BY <1>21, Zenon DEF RefusedOnMaster, TellRefused, getIsOnGameServer, Tell
<1>22. CASE ResponseLimitReached
  BY <1>22, Zenon DEF ResponseLimitReached, LimitOnAuthenticate, LimitOnRoom, LimitOnJoinLobby,
       LimitOnLeaveLobby, LimitOnLeave, LimitOnOther, TellRefused, Tell, PeerDisconnect
<1>23. CASE ResponseJoinLobby
  BY <1>23, Zenon DEF ResponseJoinLobby, onConnectToMasterFinished, Tell
<1>24. CASE ResponseLeaveLobby
  BY <1>24, Zenon DEF ResponseLeaveLobby, Tell
<1>25. CASE ResponseLeave
  BY <1>25, Zenon DEF ResponseLeave, PeerDisconnect
<1>26. CASE ResponseFindFriends
  BY <1>26, Zenon DEF ResponseFindFriends
<1> QED BY <1>1, <1>2, <1>3, <1>4, <1>5, <1>6, <1>7, <1>8, <1>9, <1>10, <1>11, <1>12, <1>13,
     <1>14, <1>15, <1>16, <1>17, <1>18, <1>19, <1>20, <1>21, <1>22, <1>23, <1>24, <1>25,
     <1>26 DEF Steps

\* Every step preserves ValuesOK.
LEMMA ValuesStep == ClientInv /\ Steps => ValuesOK'
<1> SUFFICES ASSUME ClientInv, Steps PROVE ValuesOK'
  OBVIOUS
<1> USE ClientAssumption DEF ClientInv, ClientTypeOK, ValuesOK, RequestInv, AskedInv,
     OwesReturn, AutoJoining, ToGameserver
<1>1. CASE connect
  BY <1>1, RequestType, CallbackType DEF connect, Idle
<1>2. CASE disconnect
  BY <1>2, RequestType, CallbackType DEF disconnect, PeerDisconnect
<1>3. CASE reconnectAndRejoin
  BY <1>3, RequestType, CallbackType DEF reconnectAndRejoin, Idle
<1>4. CASE setAutoJoinLobby
  BY <1>4, RequestType, CallbackType DEF setAutoJoinLobby
<1>5. CASE opJoinLobby
  BY <1>5, RequestType, CallbackType DEF opJoinLobby, AskFor, Send
<1>6. CASE opLeaveLobby
  BY <1>6, RequestType, CallbackType DEF opLeaveLobby, AskFor, Send
<1>7. CASE \E type \in JoinTypes \ {"joinRandomRoom"}, name \in Room \cup {NoName} : opRoom(type, name)
  BY <1>7, RequestType, CallbackType DEF opRoom, SendRoomOp
<1>8. CASE opJoinRandomRoom
  BY <1>8, RequestType, CallbackType DEF opJoinRandomRoom, AskFor, Send
<1>9. CASE \E willComeBack \in BOOLEAN : opLeaveRoom(willComeBack)
  BY <1>9, RequestType, CallbackType DEF opLeaveRoom, AskFor, Send
<1>10. CASE opFindFriends
  BY <1>10, RequestType, CallbackType DEF opFindFriends
<1>11. CASE StatusConnect
  BY <1>11, RequestType, CallbackType DEF StatusConnect, Send
<1>12. CASE StatusDisconnect
  <2>1. told' \in Callbacks
    <3>1. CASE mState \in HandoverStates
      BY <1>12, <3>1 DEF StatusDisconnect, Handover, Closed, PeerConnect
    <3>2. CASE mState \notin HandoverStates
      BY <1>12, <3>2, TellType DEF StatusDisconnect, Handover, Closed, PeerConnect
    <3> QED BY <3>1, <3>2, <1>12 DEF StatusDisconnect, Handover, Closed, PeerConnect
  <2> QED BY <1>12, <2>1, RequestType DEF StatusDisconnect, Handover, Closed, PeerConnect, Tell
<1>13. CASE StatusEncryptionEstablished
  BY <1>13, RequestType, CallbackType DEF StatusEncryptionEstablished, Send
<1>14. CASE FlowError
  <2>1. told' \in Callbacks
    <3>1. CASE mState \in {"ConnectedToGameserver", "Joining"}
      BY <1>14, <3>1 DEF FlowError, handleConnectionFlowError, PeerDisconnect
    <3>2. CASE mState \notin {"ConnectedToGameserver", "Joining"}
      BY <1>14, <3>2, TellType DEF FlowError, handleConnectionFlowError, PeerDisconnect
    <3> QED BY <3>1, <3>2, <1>14 DEF FlowError, handleConnectionFlowError, PeerDisconnect
  <2> QED BY <1>14, <2>1, RequestType DEF FlowError, handleConnectionFlowError, PeerDisconnect,
       Tell
<1>15. CASE StatusError
  <2>1. told' \in Callbacks
    BY <1>15, CallbackType DEF StatusError
  <2> QED BY <1>15, <2>1, RequestType DEF StatusError
<1>16. CASE ResponseGetRegions
  BY <1>16, RequestType, CallbackType DEF ResponseGetRegions, Send
<1>17. CASE ResponseGetRegionsFailed
  BY <1>17, RequestType, CallbackType DEF ResponseGetRegionsFailed
<1>18. CASE ResponseAuthenticate
  <2>1. told' \in Callbacks
    <3>1. CASE UNCHANGED told
      BY <1>18, <3>1 DEF ResponseAuthenticate, ArriveOnMaster, ArriveOnGame, SendRoomOp, Send,
           onConnectToMasterFinished, PeerDisconnect
    <3>2. CASE Tell(mLastJoinType, FALSE)
      BY <1>18, <3>2, TellType DEF ResponseAuthenticate, ArriveOnMaster, ArriveOnGame,
           SendRoomOp, Send,
           onConnectToMasterFinished, PeerDisconnect
    <3>3. CASE Tell("leaveRoom", TRUE)
      BY <1>18, <3>3, TellType DEF ResponseAuthenticate, ArriveOnMaster, ArriveOnGame,
           SendRoomOp, Send,
           onConnectToMasterFinished, PeerDisconnect
    <3>4. CASE Tell("connect", TRUE)
      BY <1>18, <3>4, TellType DEF ResponseAuthenticate, ArriveOnMaster, ArriveOnGame,
           SendRoomOp, Send,
           onConnectToMasterFinished, PeerDisconnect
    <3> QED BY <3>1, <3>2, <3>3, <3>4, <1>18 DEF ResponseAuthenticate, ArriveOnMaster,
         ArriveOnGame, SendRoomOp, Send,
           onConnectToMasterFinished, PeerDisconnect
  <2> QED BY <1>18, <2>1, RequestType DEF ResponseAuthenticate, ArriveOnMaster, ArriveOnGame,
       SendRoomOp, Send,
           onConnectToMasterFinished, Tell, PeerDisconnect
<1>19. CASE ResponseRoom
  <2>1. told' \in Callbacks
    <3>1. CASE UNCHANGED told
      BY <1>19, <3>1 DEF ResponseRoom, EnterRoom, MoveToGameserver, PeerDisconnect,
           getIsOnGameServer
    <3>2. CASE Tell(mLastJoinType, TRUE)
      BY <1>19, <3>2, TellType DEF ResponseRoom, EnterRoom, MoveToGameserver, PeerDisconnect,
           getIsOnGameServer
    <3> QED BY <3>1, <3>2, <1>19 DEF ResponseRoom, EnterRoom, MoveToGameserver, PeerDisconnect,
         getIsOnGameServer
  <2> QED BY <1>19, <2>1, RequestType DEF ResponseRoom, EnterRoom, MoveToGameserver,
       PeerDisconnect, Tell, getIsOnGameServer
<1>20. CASE ResponseRandom
  BY <1>20, RequestType, CallbackType DEF ResponseRandom, MoveToGameserver, PeerDisconnect
<1>21. CASE RefusedOnMaster
  <2>1. told' \in Callbacks
    <3>1. CASE UNCHANGED told
      BY <1>21, <3>1 DEF RefusedOnMaster, TellRefused, getIsOnGameServer
    <3>2. CASE Tell(mLastJoinType, FALSE) /\ mLastJoinType \in JoinTypes
      BY <1>21, <3>2, TellType DEF RefusedOnMaster, TellRefused, getIsOnGameServer
    <3> QED BY <3>1, <3>2, <1>21 DEF RefusedOnMaster, TellRefused, getIsOnGameServer
  <2> QED BY <1>21, <2>1, RequestType DEF RefusedOnMaster, TellRefused, getIsOnGameServer, Tell
<1>22. CASE ResponseLimitReached
  <2>1. told' \in Callbacks
    <3>1. CASE UNCHANGED told
      BY <3>1
    <3>2. CASE Tell(mLastJoinType, FALSE) /\ mLastJoinType \in JoinTypes
      BY <3>2, TellType
    <3>3. CASE Tell("connect", FALSE)
      BY <3>3, TellType
    <3>4. CASE Tell("connect", TRUE)
      BY <3>4, TellType
    <3>5. CASE Tell("joinLobby", TRUE)
      BY <3>5, TellType
    <3>6. CASE Tell("leaveLobby", TRUE)
      BY <3>6, TellType
    <3> QED
      BY <3>1, <3>2, <3>3, <3>4, <3>5, <3>6, <1>22
      DEF ResponseLimitReached, LimitOnAuthenticate, LimitOnRoom,
        LimitOnJoinLobby, LimitOnLeaveLobby, LimitOnLeave, LimitOnOther, TellRefused,
        PeerDisconnect
  <2> QED
    BY <1>22, <2>1, RequestType
    DEF ResponseLimitReached, LimitOnAuthenticate, LimitOnRoom,
        LimitOnJoinLobby, LimitOnLeaveLobby, LimitOnLeave, LimitOnOther, TellRefused, Tell,
        PeerDisconnect
<1>23. CASE ResponseJoinLobby
  <2>1. told' \in Callbacks
    <3>1. CASE Tell(mLastJoinType, FALSE)
      BY <1>23, <3>1, TellType DEF ResponseJoinLobby, onConnectToMasterFinished
    <3>2. CASE Tell("leaveRoom", TRUE)
      BY <1>23, <3>2, TellType DEF ResponseJoinLobby, onConnectToMasterFinished
    <3>3. CASE Tell("connect", TRUE)
      BY <1>23, <3>3, TellType DEF ResponseJoinLobby, onConnectToMasterFinished
    <3>4. CASE Tell("joinLobby", TRUE)
      BY <1>23, <3>4, TellType DEF ResponseJoinLobby, onConnectToMasterFinished
    <3> QED BY <3>1, <3>2, <3>3, <3>4, <1>23 DEF ResponseJoinLobby, onConnectToMasterFinished
  <2> QED BY <1>23, <2>1, RequestType DEF ResponseJoinLobby, onConnectToMasterFinished, Tell
<1>24. CASE ResponseLeaveLobby
  BY <1>24, RequestType, CallbackType DEF ResponseLeaveLobby, Tell
<1>25. CASE ResponseLeave
  BY <1>25, RequestType, CallbackType DEF ResponseLeave, PeerDisconnect
<1>26. CASE ResponseFindFriends
  BY <1>26, RequestType, CallbackType DEF ResponseFindFriends
<1> QED BY <1>1, <1>2, <1>3, <1>4, <1>5, <1>6, <1>7, <1>8, <1>9, <1>10, <1>11, <1>12, <1>13,
     <1>14, <1>15, <1>16, <1>17, <1>18, <1>19, <1>20, <1>21, <1>22, <1>23, <1>24, <1>25,
     <1>26 DEF Steps

\* Every step preserves PeerInv.
LEMMA PeerStep == ClientInv /\ Steps => PeerInv'
<1> SUFFICES ASSUME ClientInv, Steps PROVE PeerInv'
  OBVIOUS
<1> USE ClientAssumption DEF ClientInv, ClientTypeOK, PeerInv, RefusedRejoin, ClosingInLobby,
     Idle, RequestInv
<1>1. CASE connect
  BY <1>1 DEF connect, Idle
<1>2. CASE disconnect
  BY <1>2 DEF disconnect, PeerDisconnect
<1>3. CASE reconnectAndRejoin
  BY <1>3, IdleClient DEF reconnectAndRejoin, Idle
<1>4. CASE setAutoJoinLobby
  BY <1>4 DEF setAutoJoinLobby
<1>5. CASE opJoinLobby
  BY <1>5 DEF opJoinLobby, AskFor, Send
<1>6. CASE opLeaveLobby
  BY <1>6 DEF opLeaveLobby, AskFor, Send
<1>7. CASE \E type \in JoinTypes \ {"joinRandomRoom"}, name \in Room \cup {NoName} : opRoom(type, name)
  BY <1>7 DEF opRoom, SendRoomOp
<1>8. CASE opJoinRandomRoom
  BY <1>8 DEF opJoinRandomRoom, AskFor, Send
<1>9. CASE \E willComeBack \in BOOLEAN : opLeaveRoom(willComeBack)
  BY <1>9 DEF opLeaveRoom, AskFor, Send
<1>10. CASE opFindFriends
  BY <1>10 DEF opFindFriends
<1>11. CASE StatusConnect
  BY <1>11 DEF StatusConnect, Send
<1>12. CASE StatusDisconnect
  BY <1>12 DEF StatusDisconnect, Handover, Closed, PeerConnect, Tell
<1>13. CASE StatusEncryptionEstablished
  BY <1>13 DEF StatusEncryptionEstablished, Send
<1>14. CASE FlowError
  BY <1>14 DEF FlowError, handleConnectionFlowError, PeerDisconnect, Tell
<1>15. CASE StatusError
  BY <1>15 DEF StatusError
<1>16. CASE ResponseGetRegions
  BY <1>16 DEF ResponseGetRegions, Send
<1>17. CASE ResponseGetRegionsFailed
  BY <1>17 DEF ResponseGetRegionsFailed
<1>18. CASE ResponseAuthenticate
  BY <1>18 DEF ResponseAuthenticate, ArriveOnMaster, ArriveOnGame, SendRoomOp, Send,
           onConnectToMasterFinished, Tell, PeerDisconnect
<1>19. CASE ResponseRoom
  BY <1>19 DEF ResponseRoom, EnterRoom, MoveToGameserver, PeerDisconnect, Tell,
       getIsOnGameServer
<1>20. CASE ResponseRandom
  BY <1>20 DEF ResponseRandom, MoveToGameserver, PeerDisconnect
<1>21. CASE RefusedOnMaster
  <2>1. CASE mLastJoinType \in ToldOf(request.op)
    BY <1>21, <2>1 DEF RefusedOnMaster, TellRefused, getIsOnGameServer, Tell
  <2>2. CASE mLastJoinType \notin ToldOf(request.op)
    BY <1>21, <2>2 DEF RefusedOnMaster, TellRefused, getIsOnGameServer, Tell
  <2> QED BY <2>1, <2>2
<1>22. CASE ResponseLimitReached
  BY <1>22 DEF ResponseLimitReached, LimitOnAuthenticate, LimitOnRoom, LimitOnJoinLobby,
       LimitOnLeaveLobby, LimitOnLeave, LimitOnOther, TellRefused, Tell, PeerDisconnect
<1>23. CASE ResponseJoinLobby
  BY <1>23 DEF ResponseJoinLobby, onConnectToMasterFinished, Tell
<1>24. CASE ResponseLeaveLobby
  BY <1>24 DEF ResponseLeaveLobby, Tell
<1>25. CASE ResponseLeave
  BY <1>25 DEF ResponseLeave, PeerDisconnect
<1>26. CASE ResponseFindFriends
  BY <1>26 DEF ResponseFindFriends
<1> QED BY <1>1, <1>2, <1>3, <1>4, <1>5, <1>6, <1>7, <1>8, <1>9, <1>10, <1>11, <1>12, <1>13,
     <1>14, <1>15, <1>16, <1>17, <1>18, <1>19, <1>20, <1>21, <1>22, <1>23, <1>24, <1>25,
     <1>26 DEF Steps

\* Every step preserves RequestInv.
LEMMA RequestStep == ClientInv /\ Steps => RequestInv'
<1> SUFFICES ASSUME ClientInv, Steps PROVE RequestInv'
  OBVIOUS
<1> USE ClientAssumption DEF ClientInv, ClientTypeOK, PeerInv, RefusedRejoin, ClosingInLobby,
     Idle, RequestInv, RoomInv, ToGameserver
<1>1. CASE connect
  BY <1>1 DEF connect, Idle
<1>2. CASE disconnect
  BY <1>2 DEF disconnect, PeerDisconnect
<1>3. CASE reconnectAndRejoin
  BY <1>3, IdleClient DEF reconnectAndRejoin, Idle
<1>4. CASE setAutoJoinLobby
  BY <1>4 DEF setAutoJoinLobby
<1>5. CASE opJoinLobby
  BY <1>5 DEF opJoinLobby, AskFor, Send
<1>6. CASE opLeaveLobby
  BY <1>6 DEF opLeaveLobby, AskFor, Send
<1>7. CASE \E type \in JoinTypes \ {"joinRandomRoom"}, name \in Room \cup {NoName} : opRoom(type, name)
  BY <1>7 DEF opRoom, SendRoomOp
<1>8. CASE opJoinRandomRoom
  BY <1>8 DEF opJoinRandomRoom, AskFor, Send
<1>9. CASE \E willComeBack \in BOOLEAN : opLeaveRoom(willComeBack)
  BY <1>9 DEF opLeaveRoom, AskFor, Send
<1>10. CASE opFindFriends
  BY <1>10 DEF opFindFriends
<1>11. CASE StatusConnect
  BY <1>11 DEF StatusConnect, Send
<1>12. CASE StatusDisconnect
  BY <1>12 DEF StatusDisconnect, Handover, Closed, PeerConnect, Tell
<1>13. CASE StatusEncryptionEstablished
  BY <1>13 DEF StatusEncryptionEstablished, Send
<1>14. CASE FlowError
  BY <1>14 DEF FlowError, handleConnectionFlowError, PeerDisconnect, Tell
<1>15. CASE StatusError
  BY <1>15 DEF StatusError
<1>16. CASE ResponseGetRegions
  BY <1>16 DEF ResponseGetRegions, Send
<1>17. CASE ResponseGetRegionsFailed
  BY <1>17 DEF ResponseGetRegionsFailed
<1>18. CASE ResponseAuthenticate
  BY <1>18 DEF ResponseAuthenticate, ArriveOnMaster, ArriveOnGame, SendRoomOp, Send,
           onConnectToMasterFinished, Tell, PeerDisconnect
<1>19. CASE ResponseRoom
  BY <1>19 DEF ResponseRoom, EnterRoom, MoveToGameserver, PeerDisconnect, Tell,
       getIsOnGameServer
<1>20. CASE ResponseRandom
  BY <1>20 DEF ResponseRandom, MoveToGameserver, PeerDisconnect
<1>21. CASE RefusedOnMaster
  <2>1. CASE mLastJoinType \in ToldOf(request.op)
    BY <1>21, <2>1 DEF RefusedOnMaster, TellRefused, getIsOnGameServer, Tell
  <2>2. CASE mLastJoinType \notin ToldOf(request.op)
    BY <1>21, <2>2 DEF RefusedOnMaster, TellRefused, getIsOnGameServer, Tell
  <2> QED BY <2>1, <2>2
<1>22. CASE ResponseLimitReached
  BY <1>22 DEF ResponseLimitReached, LimitOnAuthenticate, LimitOnRoom, LimitOnJoinLobby,
       LimitOnLeaveLobby, LimitOnLeave, LimitOnOther, TellRefused, Tell, PeerDisconnect
<1>23. CASE ResponseJoinLobby
  BY <1>23 DEF ResponseJoinLobby, onConnectToMasterFinished, Tell
<1>24. CASE ResponseLeaveLobby
  BY <1>24 DEF ResponseLeaveLobby, Tell
<1>25. CASE ResponseLeave
  BY <1>25 DEF ResponseLeave, PeerDisconnect
<1>26. CASE ResponseFindFriends
  BY <1>26 DEF ResponseFindFriends
<1> QED BY <1>1, <1>2, <1>3, <1>4, <1>5, <1>6, <1>7, <1>8, <1>9, <1>10, <1>11, <1>12, <1>13,
     <1>14, <1>15, <1>16, <1>17, <1>18, <1>19, <1>20, <1>21, <1>22, <1>23, <1>24, <1>25,
     <1>26 DEF Steps

\* Every step preserves RoomInv.
LEMMA RoomStep == ClientInv /\ Steps => RoomInv'
<1> SUFFICES ASSUME ClientInv, Steps PROVE RoomInv'
  OBVIOUS
<1> USE ClientAssumption DEF ClientInv, ClientTypeOK, PeerInv, RefusedRejoin, ClosingInLobby,
     Idle, RequestInv, RoomInv, FriendsInv,
     AskedInv, ToGameserver, OwesReturn, AutoJoining
<1>1. CASE connect
  BY <1>1 DEF connect, Idle
<1>2. CASE disconnect
  BY <1>2 DEF disconnect, PeerDisconnect
<1>3. CASE reconnectAndRejoin
  BY <1>3, IdleClient DEF reconnectAndRejoin, Idle
<1>4. CASE setAutoJoinLobby
  BY <1>4 DEF setAutoJoinLobby
<1>5. CASE opJoinLobby
  BY <1>5 DEF opJoinLobby, AskFor, Send
<1>6. CASE opLeaveLobby
  BY <1>6 DEF opLeaveLobby, AskFor, Send
<1>7. CASE \E type \in JoinTypes \ {"joinRandomRoom"}, name \in Room \cup {NoName} : opRoom(type, name)
  BY <1>7 DEF opRoom, SendRoomOp
<1>8. CASE opJoinRandomRoom
  BY <1>8 DEF opJoinRandomRoom, AskFor, Send
<1>9. CASE \E willComeBack \in BOOLEAN : opLeaveRoom(willComeBack)
  BY <1>9 DEF opLeaveRoom, AskFor, Send
<1>10. CASE opFindFriends
  BY <1>10 DEF opFindFriends
<1>11. CASE StatusConnect
  BY <1>11 DEF StatusConnect, Send
<1>12. CASE StatusDisconnect
  BY <1>12 DEF StatusDisconnect, Handover, Closed, PeerConnect, Tell
<1>13. CASE StatusEncryptionEstablished
  BY <1>13 DEF StatusEncryptionEstablished, Send
<1>14. CASE FlowError
  BY <1>14 DEF FlowError, handleConnectionFlowError, PeerDisconnect, Tell
<1>15. CASE StatusError
  BY <1>15 DEF StatusError
<1>16. CASE ResponseGetRegions
  BY <1>16 DEF ResponseGetRegions, Send
<1>17. CASE ResponseGetRegionsFailed
  BY <1>17 DEF ResponseGetRegionsFailed
<1>18. CASE ResponseAuthenticate
  BY <1>18 DEF ResponseAuthenticate, ArriveOnMaster, ArriveOnGame, SendRoomOp, Send,
           onConnectToMasterFinished, Tell, PeerDisconnect
<1>19. CASE ResponseRoom
  BY <1>19 DEF ResponseRoom, EnterRoom, MoveToGameserver, PeerDisconnect, Tell,
       getIsOnGameServer
<1>20. CASE ResponseRandom
  BY <1>20 DEF ResponseRandom, MoveToGameserver, PeerDisconnect
<1>21. CASE RefusedOnMaster
  <2>1. CASE mLastJoinType \in ToldOf(request.op)
    BY <1>21, <2>1 DEF RefusedOnMaster, TellRefused, getIsOnGameServer, Tell
  <2>2. CASE mLastJoinType \notin ToldOf(request.op)
    BY <1>21, <2>2 DEF RefusedOnMaster, TellRefused, getIsOnGameServer, Tell
  <2> QED BY <2>1, <2>2
<1>22. CASE ResponseLimitReached
  BY <1>22 DEF ResponseLimitReached, LimitOnAuthenticate, LimitOnRoom, LimitOnJoinLobby,
       LimitOnLeaveLobby, LimitOnLeave, LimitOnOther, TellRefused, Tell, PeerDisconnect
<1>23. CASE ResponseJoinLobby
  BY <1>23 DEF ResponseJoinLobby, onConnectToMasterFinished, Tell
<1>24. CASE ResponseLeaveLobby
  BY <1>24 DEF ResponseLeaveLobby, Tell
<1>25. CASE ResponseLeave
  BY <1>25 DEF ResponseLeave, PeerDisconnect
<1>26. CASE ResponseFindFriends
  BY <1>26 DEF ResponseFindFriends
<1> QED BY <1>1, <1>2, <1>3, <1>4, <1>5, <1>6, <1>7, <1>8, <1>9, <1>10, <1>11, <1>12, <1>13,
     <1>14, <1>15, <1>16, <1>17, <1>18, <1>19, <1>20, <1>21, <1>22, <1>23, <1>24, <1>25,
     <1>26 DEF Steps

\* Every step preserves FriendsInv.
LEMMA FriendsStep == ClientInv /\ Steps => FriendsInv'
<1> SUFFICES ASSUME ClientInv, Steps PROVE FriendsInv'
  OBVIOUS
<1> USE ClientAssumption DEF ClientInv, ClientTypeOK, PeerInv, RefusedRejoin, ClosingInLobby,
     Idle, RequestInv, RoomInv, FriendsInv,
     AskedInv, ToGameserver, OwesReturn, AutoJoining
<1>1. CASE connect
  BY <1>1 DEF connect, Idle
<1>2. CASE disconnect
  BY <1>2 DEF disconnect, PeerDisconnect
<1>3. CASE reconnectAndRejoin
  BY <1>3, IdleClient DEF reconnectAndRejoin, Idle
<1>4. CASE setAutoJoinLobby
  BY <1>4 DEF setAutoJoinLobby
<1>5. CASE opJoinLobby
  <2>1. UNCHANGED <<mState, mIsFetchingFriendList, peer, friends>>
    BY <1>5 DEF opJoinLobby, AskFor
  <2> QED BY <2>1
<1>6. CASE opLeaveLobby
  BY <1>6 DEF opLeaveLobby, AskFor, Send
<1>7. CASE \E type \in JoinTypes \ {"joinRandomRoom"}, name \in Room \cup {NoName} : opRoom(type, name)
  BY <1>7 DEF opRoom, SendRoomOp
<1>8. CASE opJoinRandomRoom
  BY <1>8 DEF opJoinRandomRoom, AskFor, Send
<1>9. CASE \E willComeBack \in BOOLEAN : opLeaveRoom(willComeBack)
  BY <1>9 DEF opLeaveRoom, AskFor, Send
<1>10. CASE opFindFriends
  BY <1>10 DEF opFindFriends
<1>11. CASE StatusConnect
  BY <1>11 DEF StatusConnect, Send
<1>12. CASE StatusDisconnect
  BY <1>12 DEF StatusDisconnect, Handover, Closed, PeerConnect, Tell
<1>13. CASE StatusEncryptionEstablished
  BY <1>13 DEF StatusEncryptionEstablished, Send
<1>14. CASE FlowError
  BY <1>14 DEF FlowError, handleConnectionFlowError, PeerDisconnect, Tell
<1>15. CASE StatusError
  BY <1>15 DEF StatusError
<1>16. CASE ResponseGetRegions
  BY <1>16 DEF ResponseGetRegions, Send
<1>17. CASE ResponseGetRegionsFailed
  BY <1>17 DEF ResponseGetRegionsFailed
<1>18. CASE ResponseAuthenticate
  BY <1>18 DEF ResponseAuthenticate, ArriveOnMaster, ArriveOnGame, SendRoomOp, Send,
           onConnectToMasterFinished, Tell, PeerDisconnect
<1>19. CASE ResponseRoom
  BY <1>19 DEF ResponseRoom, EnterRoom, MoveToGameserver, PeerDisconnect, Tell,
       getIsOnGameServer
<1>20. CASE ResponseRandom
  BY <1>20 DEF ResponseRandom, MoveToGameserver, PeerDisconnect
<1>21. CASE RefusedOnMaster
  <2>1. CASE mLastJoinType \in ToldOf(request.op)
    BY <1>21, <2>1 DEF RefusedOnMaster, TellRefused, getIsOnGameServer, Tell
  <2>2. CASE mLastJoinType \notin ToldOf(request.op)
    BY <1>21, <2>2 DEF RefusedOnMaster, TellRefused, getIsOnGameServer, Tell
  <2> QED BY <2>1, <2>2
<1>22. CASE ResponseLimitReached
  BY <1>22 DEF ResponseLimitReached, LimitOnAuthenticate, LimitOnRoom, LimitOnJoinLobby,
       LimitOnLeaveLobby, LimitOnLeave, LimitOnOther, TellRefused, Tell, PeerDisconnect
<1>23. CASE ResponseJoinLobby
  BY <1>23 DEF ResponseJoinLobby, onConnectToMasterFinished, Tell
<1>24. CASE ResponseLeaveLobby
  BY <1>24 DEF ResponseLeaveLobby, Tell
<1>25. CASE ResponseLeave
  BY <1>25 DEF ResponseLeave, PeerDisconnect
<1>26. CASE ResponseFindFriends
  BY <1>26 DEF ResponseFindFriends
<1> QED BY <1>1, <1>2, <1>3, <1>4, <1>5, <1>6, <1>7, <1>8, <1>9, <1>10, <1>11, <1>12, <1>13,
     <1>14, <1>15, <1>16, <1>17, <1>18, <1>19, <1>20, <1>21, <1>22, <1>23, <1>24, <1>25,
     <1>26 DEF Steps

\* Every step preserves AskedInv.
LEMMA AskedStep == ClientInv /\ Steps => AskedInv'
<1> SUFFICES ASSUME ClientInv, Steps PROVE AskedInv'
  OBVIOUS
<1> USE ClientAssumption DEF ClientInv, ClientTypeOK, PeerInv, RefusedRejoin, ClosingInLobby,
     Idle, RequestInv, RoomInv, FriendsInv,
     AskedInv, ToGameserver, OwesReturn, AutoJoining
<1>1. CASE connect
  BY <1>1 DEF connect, Idle
<1>2. CASE disconnect
  BY <1>2 DEF disconnect, PeerDisconnect
<1>3. CASE reconnectAndRejoin
  BY <1>3, IdleClient DEF reconnectAndRejoin, Idle
<1>4. CASE setAutoJoinLobby
  BY <1>4 DEF setAutoJoinLobby
<1>5. CASE opJoinLobby
  BY <1>5 DEF opJoinLobby, AskFor, Send
<1>6. CASE opLeaveLobby
  BY <1>6 DEF opLeaveLobby, AskFor, Send
<1>7. CASE \E type \in JoinTypes \ {"joinRandomRoom"}, name \in Room \cup {NoName} : opRoom(type, name)
  BY <1>7 DEF opRoom, SendRoomOp
<1>8. CASE opJoinRandomRoom
  BY <1>8 DEF opJoinRandomRoom, AskFor, Send
<1>9. CASE \E willComeBack \in BOOLEAN : opLeaveRoom(willComeBack)
  BY <1>9 DEF opLeaveRoom, AskFor, Send
<1>10. CASE opFindFriends
  BY <1>10 DEF opFindFriends
<1>11. CASE StatusConnect
  BY <1>11 DEF StatusConnect, Send
<1>12. CASE StatusDisconnect
  BY <1>12 DEF StatusDisconnect, Handover, Closed, PeerConnect, Tell
<1>13. CASE StatusEncryptionEstablished
  BY <1>13 DEF StatusEncryptionEstablished, Send
<1>14. CASE FlowError
  BY <1>14 DEF FlowError, handleConnectionFlowError, PeerDisconnect, Tell
<1>15. CASE StatusError
  BY <1>15 DEF StatusError
<1>16. CASE ResponseGetRegions
  BY <1>16 DEF ResponseGetRegions, Send
<1>17. CASE ResponseGetRegionsFailed
  BY <1>17 DEF ResponseGetRegionsFailed
<1>18. CASE ResponseAuthenticate
  BY <1>18 DEF ResponseAuthenticate, ArriveOnMaster, ArriveOnGame, SendRoomOp, Send,
           onConnectToMasterFinished, Tell, PeerDisconnect
<1>19. CASE ResponseRoom
  BY <1>19 DEF ResponseRoom, EnterRoom, MoveToGameserver, PeerDisconnect, Tell,
       getIsOnGameServer
<1>20. CASE ResponseRandom
  BY <1>20 DEF ResponseRandom, MoveToGameserver, PeerDisconnect
<1>21. CASE RefusedOnMaster
  <2>1. CASE mLastJoinType \in ToldOf(request.op)
    BY <1>21, <2>1 DEF RefusedOnMaster, TellRefused, getIsOnGameServer, Tell
  <2>2. CASE mLastJoinType \notin ToldOf(request.op)
    BY <1>21, <2>2 DEF RefusedOnMaster, TellRefused, getIsOnGameServer, Tell
  <2> QED BY <2>1, <2>2
<1>22. CASE ResponseLimitReached
  BY <1>22 DEF ResponseLimitReached, LimitOnAuthenticate, LimitOnRoom, LimitOnJoinLobby,
       LimitOnLeaveLobby, LimitOnLeave, LimitOnOther, TellRefused, Tell, PeerDisconnect
<1>23. CASE ResponseJoinLobby
  BY <1>23 DEF ResponseJoinLobby, onConnectToMasterFinished, Tell
<1>24. CASE ResponseLeaveLobby
  BY <1>24 DEF ResponseLeaveLobby, Tell
<1>25. CASE ResponseLeave
  BY <1>25 DEF ResponseLeave, PeerDisconnect
<1>26. CASE ResponseFindFriends
  BY <1>26 DEF ResponseFindFriends
<1> QED BY <1>1, <1>2, <1>3, <1>4, <1>5, <1>6, <1>7, <1>8, <1>9, <1>10, <1>11, <1>12, <1>13,
     <1>14, <1>15, <1>16, <1>17, <1>18, <1>19, <1>20, <1>21, <1>22, <1>23, <1>24, <1>25,
     <1>26 DEF Steps

\* The invariant holds initially and is preserved.
LEMMA InitInv == ClientInit => ClientInv
<1> SUFFICES ASSUME ClientInit PROVE ClientInv
  OBVIOUS
<1> USE ClientAssumption DEF ClientInit
<1>1. FlagsOK
  BY Zenon DEF FlagsOK
<1>2. ValuesOK
  BY RequestType, CallbackType DEF ValuesOK
<1>3. PeerInv /\ RequestInv /\ RoomInv /\ FriendsInv /\ AskedInv
  BY DEF PeerInv, RefusedRejoin, ClosingInLobby, Idle, RequestInv, RoomInv, FriendsInv,
       AskedInv, ToGameserver, OwesReturn, AutoJoining
<1> QED BY <1>1, <1>2, <1>3 DEF ClientInv, ClientTypeOK, FlagsOK, ValuesOK

\* A step that changes nothing preserves the invariant.
LEMMA Stutter == ClientInv /\ UNCHANGED vars => ClientInv'
<1> SUFFICES ASSUME ClientInv, UNCHANGED vars PROVE ClientInv'
  OBVIOUS
<1> QED
  BY DEF ClientInv, vars, ClientTypeOK, PeerInv, RefusedRejoin, ClosingInLobby, Idle,
       RequestInv, RoomInv, FriendsInv, AskedInv, ToGameserver, OwesReturn, AutoJoining

\* The inductive invariant holds in every state of the client.
THEOREM ClientInvariant == ClientSpec => []ClientInv
<1>1. ClientInv /\ [ClientNext]_vars => ClientInv'
  <2> SUFFICES ASSUME ClientInv, [ClientNext]_vars PROVE ClientInv'
    OBVIOUS
  <2>1. CASE UNCHANGED vars
    BY <2>1, Stutter
  <2>2. CASE Steps
    BY <2>2, FlagsStep, ValuesStep, PeerStep, RequestStep, RoomStep, FriendsStep, AskedStep
       DEF ClientInv, ClientTypeOK, FlagsOK, ValuesOK
  <2> QED BY <2>1, <2>2, StepsAreAll
<1> QED BY InitInv, <1>1, PTL DEF ClientSpec

\* Every member of the client keeps its type.
THEOREM ClientTypeCorrect == ClientSpec => []ClientTypeOK
<1>1. ClientInv => ClientTypeOK
  BY DEF ClientInv
<1> QED BY <1>1, ClientInvariant, PTL

\* mState is one that the peer's state allows, after any operation, status or
\* response, the refused and the limited ones included.  Where the code breaks
\* that, at a refused reconnectAndRejoin() and at a lobby operation that reached
\* the limit, no request is in flight that a handler would take for another.
THEOREM PeerCorrect == ClientSpec => []StateMatchesPeer
<1>1. ClientInv => StateMatchesPeer
  BY DEF ClientInv, ClientTypeOK, PeerInv, RefusedRejoin, ClosingInLobby, StateMatchesPeer
<1> QED BY <1>1, ClientInvariant, PTL

\* The handlers never dereference a room object that is not there, and the
\* client is in the room that it asked for.
THEOREM RoomCorrect == ClientSpec => []RoomIsThere
<1>1. ClientInv => RoomIsThere
  BY DEF ClientInv, RoomInv, RoomIsThere
<1> QED BY <1>1, ClientInvariant, PTL

\* opFindFriends is never refused, in a lobby and connected, for an answer that
\* cannot come.
THEOREM FriendsCorrect == ClientSpec => []FriendsAreAwaited
<1>1. ClientInv => FriendsAreAwaited
  BY DEF ClientInv, FriendsInv, FriendsAreAwaited
<1> QED BY <1>1, ClientInvariant, PTL

\* The client stops without telling the application only where the code ignores
\* a failure, a refused reconnectAndRejoin() among them.
THEOREM StrandedCorrect == ClientSpec => []StrandedByIgnoredFailures
<1>1. ClientInv => StrandedByIgnoredFailures
  BY DEF ClientInv, ClientTypeOK, PeerInv, RefusedRejoin, RequestInv, Stranded,
       StrandedByIgnoredFailures
<1> QED BY <1>1, ClientInvariant, PTL

-----------------------------------------------------------------------------
(* The refinement. *)

\* Every step of the client is a step of the session, or none.
LEMMA SessionStep == ClientInv /\ Steps => [Session!SessionNext]_(Session!session)
<1> SUFFICES ASSUME ClientInv, Steps PROVE [Session!SessionNext]_(Session!session)
  OBVIOUS
<1> USE DEF ClientInv, ClientTypeOK, PeerInv, RefusedRejoin, ClosingInLobby, Idle,
     RequestInv, RoomInv, AskedInv, ToGameserver,
     OwesReturn, AutoJoining, Session!SessionNext, Session!session, Session!Connect,
     Session!Rejoin, Session!Ask, Session!Succeed, Session!Refuse, Session!Lose,
     Session!Disconnect, Session!Misreport, Session!Forfeit, Session!Closed, Session!JoinTypes, Session!LobbyOps,
     Session!ConnectionError, place
<1>1. CASE connect
  BY <1>1 DEF connect, Idle
<1>2. CASE disconnect
  BY <1>2 DEF disconnect, PeerDisconnect
<1>3. CASE reconnectAndRejoin
  BY <1>3, IdleClient DEF reconnectAndRejoin, Idle
<1>4. CASE setAutoJoinLobby
  BY <1>4 DEF setAutoJoinLobby
<1>5. CASE opJoinLobby
  BY <1>5 DEF opJoinLobby, AskFor, Send
<1>6. CASE opLeaveLobby
  BY <1>6 DEF opLeaveLobby, AskFor, Send
<1>7. CASE \E type \in JoinTypes \ {"joinRandomRoom"}, name \in Room \cup {NoName} : opRoom(type, name)
  BY <1>7 DEF opRoom, SendRoomOp
<1>8. CASE opJoinRandomRoom
  BY <1>8 DEF opJoinRandomRoom, AskFor, Send
<1>9. CASE \E willComeBack \in BOOLEAN : opLeaveRoom(willComeBack)
  BY <1>9 DEF opLeaveRoom, AskFor, Send
<1>10. CASE opFindFriends
  BY <1>10 DEF opFindFriends
<1>11. CASE StatusConnect
  BY <1>11 DEF StatusConnect, Send
<1>12. CASE StatusDisconnect
  BY <1>12 DEF StatusDisconnect, Handover, Closed, PeerConnect, Tell
<1>13. CASE StatusEncryptionEstablished
  BY <1>13 DEF StatusEncryptionEstablished, Send
<1>14. CASE FlowError
  BY <1>14 DEF FlowError, handleConnectionFlowError, PeerDisconnect, Tell
<1>15. CASE StatusError
  BY <1>15 DEF StatusError
<1>16. CASE ResponseGetRegions
  BY <1>16 DEF ResponseGetRegions, Send
<1>17. CASE ResponseGetRegionsFailed
  BY <1>17 DEF ResponseGetRegionsFailed
<1>18. CASE ResponseAuthenticate
  BY <1>18 DEF ResponseAuthenticate, ArriveOnMaster, ArriveOnGame, SendRoomOp, Send,
           onConnectToMasterFinished, Tell, PeerDisconnect
<1>19. CASE ResponseRoom
  BY <1>19 DEF ResponseRoom, EnterRoom, MoveToGameserver, PeerDisconnect, Tell,
       getIsOnGameServer
<1>20. CASE ResponseRandom
  BY <1>20 DEF ResponseRandom, MoveToGameserver, PeerDisconnect
<1>21. CASE RefusedOnMaster
  BY <1>21 DEF RefusedOnMaster, TellRefused, getIsOnGameServer, Tell
<1>22. CASE ResponseLimitReached
  BY <1>22 DEF ResponseLimitReached, LimitOnAuthenticate, LimitOnRoom, LimitOnJoinLobby,
       LimitOnLeaveLobby, LimitOnLeave, LimitOnOther, TellRefused, Tell, PeerDisconnect
<1>23. CASE ResponseJoinLobby
  BY <1>23 DEF ResponseJoinLobby, onConnectToMasterFinished, Tell
<1>24. CASE ResponseLeaveLobby
  BY <1>24 DEF ResponseLeaveLobby, Tell
<1>25. CASE ResponseLeave
  BY <1>25 DEF ResponseLeave, PeerDisconnect
<1>26. CASE ResponseFindFriends
  BY <1>26 DEF ResponseFindFriends
<1> QED BY <1>1, <1>2, <1>3, <1>4, <1>5, <1>6, <1>7, <1>8, <1>9, <1>10, <1>11, <1>12, <1>13,
     <1>14, <1>15, <1>16, <1>17, <1>18, <1>19, <1>20, <1>21, <1>22, <1>23, <1>24, <1>25,
     <1>26 DEF Steps

\* The client implements ClientSession: across name server, master server and
\* game server each operation is answered once, by its own callback, by the loss
\* of the connection, or, at the operation limit, by connectReturn.
THEOREM SessionImplemented == ClientSpec => ImplementsSession
<1>1. ClientInit => Session!SessionInit
  BY DEF ClientInit, Session!SessionInit, place
<1>2. ClientInv /\ [ClientNext]_vars => [Session!SessionNext]_(Session!session)
  <2> SUFFICES ASSUME ClientInv, [ClientNext]_vars PROVE [Session!SessionNext]_(Session!session)
    OBVIOUS
  <2>1. CASE UNCHANGED vars
    BY <2>1 DEF vars, Session!session, place
  <2>2. CASE Steps
    BY <2>2, SessionStep
  <2> QED BY <2>1, <2>2, StepsAreAll
<1> QED
  BY <1>1, <1>2, ClientInvariant, PTL DEF ClientSpec, ImplementsSession, Session!Session

=============================================================================
