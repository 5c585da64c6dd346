-------------------------- MODULE CommunicationClient --------------------------
(***************************************************************************)
(* CommunicationClient with its ClientCouplingHandler, its ActionHandler   *)
(* and its Transceiver, and the ClientPeer that owns it and destroys it    *)
(* with the connection (src/comm/client, src/client_peer.cpp).  A client c *)
(* is one such object: ClientPeer makes a new one for every attempt.  The  *)
(* data port it announces is named after it.                               *)
(***************************************************************************)
EXTENDS TcpLink

VARIABLES
    cBuffer,     \* messages that onReadyRead() has still to hand over
    cCoupling,   \* m_couplingHandler: "none", or "waiting" for a response
                 \* with its timer on the timeout, or "coupled" with its timer
                 \* on half of the heartbeat interval
    cActions     \* whether m_actionHandler exists

clientVars == <<cBuffer, cCoupling, cActions>>

ClientTypeOK == /\ cBuffer \in [Clients -> Seq(Responses \cup {ActionRequest})]
                /\ cCoupling \in [Clients -> {"none", "waiting", "coupled"}]
                /\ cActions \in [Clients -> BOOLEAN]

ClientInit == /\ cBuffer = [c \in Clients |-> <<>>]
              /\ cCoupling = [c \in Clients |-> "none"]
              /\ cActions = [c \in Clients |-> FALSE]

\* A slot runs to its end, and onReadyRead() hands over message after message.
Idle(c) == cBuffer[c] = <<>>

Alive(c) == cSocket[c] \notin {"new", "gone", "lost"}

-------------------------------------------------------------------------------
\* Mutant of Vanish: the events of the dead object are still delivered.
VanishWithEvents(c, state) ==
    /\ cSocket' = [cSocket EXCEPT ![c] = state]
    /\ toClient' = [toClient EXCEPT ![c] = <<>>]
    /\ cBuffer' = [cBuffer EXCEPT ![c] = <<>>]
    /\ cCoupling' = [cCoupling EXCEPT ![c] = "none"]
    /\ cActions' = [cActions EXCEPT ![c] = FALSE]
    /\ UNCHANGED <<listening, sSocket, toServer, lost, loopVars>>

\* The object is gone with all it owns, the events that wait for it included:
\* its destructor closes the socket.
Vanish(c, state) ==
    /\ cSocket' = [cSocket EXCEPT ![c] = state]
    /\ toClient' = [toClient EXCEPT ![c] = <<>>]
    /\ cBuffer' = [cBuffer EXCEPT ![c] = <<>>]
    /\ cCoupling' = [cCoupling EXCEPT ![c] = "none"]
    /\ cActions' = [cActions EXCEPT ![c] = FALSE]
    /\ Forget(c)
    /\ UNCHANGED <<listening, sSocket, toServer, lost>>

\* Mutant of Fail: the abort is not noticed, disconnected is not queued.
FailUnnoticed(c, src) ==
    /\ cSocket' = [cSocket EXCEPT ![c] = "aborted"]
    /\ toClient' = [toClient EXCEPT ![c] = <<>>]
    /\ cBuffer' = [cBuffer EXCEPT ![c] = <<>>]
    /\ Post(c, src, <<>>)
    /\ UNCHANGED <<listening, sSocket, toServer, lost, cCoupling, cActions>>

\* emit failed(): the slot calls m_socket->abort(), whose aboutToClose stops
\* the transceiver; a connection that was up queues disconnected.
Fail(c, src) ==
    /\ cSocket' = [cSocket EXCEPT ![c] = "aborted"]
    /\ toClient' = [toClient EXCEPT ![c] = <<>>]
    /\ cBuffer' = [cBuffer EXCEPT ![c] = <<>>]
    /\ Post(c, src, IF cSocket[c] = "connected" THEN <<Event("disconnected", c)>> ELSE <<>>)
    /\ UNCHANGED <<listening, sSocket, toServer, lost, cCoupling, cActions>>

-------------------------------------------------------------------------------
\* ClientPeer::connectToHost and CommunicationClient::connectToHost.
ConnectToHost(c) ==
    /\ cSocket[c] = "new"
    /\ cSocket' = [cSocket EXCEPT ![c] = "connecting"]
    /\ UNCHANGED <<listening, sSocket, toServer, toClient, lost, clientVars, loopVars>>

\* The connection is up: the signal connected is queued.
Established(c) ==
    /\ cSocket[c] = "connecting" /\ listening
    /\ cSocket' = [cSocket EXCEPT ![c] = "connected"]
    /\ sSocket' = [sSocket EXCEPT ![c] = "backlog"]
    /\ Serve(c, "socket", <<Event("connected", c)>>)
    /\ UNCHANGED <<listening, toServer, toClient, lost, clientVars>>

\* The connection is refused: no slot is connected to the error signal.
Refused(c) ==
    /\ cSocket[c] = "connecting" /\ ~listening
    /\ cSocket' = [cSocket EXCEPT ![c] = "refused"]
    /\ Serve(c, "socket", <<>>)
    /\ UNCHANGED <<listening, sSocket, toServer, toClient, lost, clientVars>>

\* The queued connected arrives: startCoupling().
StartCoupling(c) ==
    /\ Idle(c) /\ Due(c, "connected", c)
    /\ cSocket[c] = "connected" /\ cCoupling[c] = "none"
    /\ cCoupling' = [cCoupling EXCEPT ![c] = "waiting"]
    /\ ClientWrites(c, HandshakeRequest)
    /\ Deliver(c, <<>>)
    /\ UNCHANGED <<listening, cSocket, sSocket, toClient, lost, cBuffer, cActions>>

\* readyRead: the transceiver hands over the whole messages among the bytes.
ClientReadyRead(c) ==
    /\ Idle(c) /\ cSocket[c] = "connected"
    /\ \E r \in Reads(toClient[c]) :
          /\ cBuffer' = [cBuffer EXCEPT ![c] = Whole(toClient[c], r)]
          /\ toClient' = [toClient EXCEPT ![c] = Rest(toClient[c], r)]
          /\ CountLoss(r)
    /\ Serve(c, "socket", <<>>)
    /\ UNCHANGED <<listening, cSocket, sSocket, toServer, cCoupling, cActions>>

\* processMessage() is about to route a response to the coupling handler.
Receives(c, step) ==
    /\ ~Idle(c)
    /\ Head(cBuffer[c]).kind = "Response" /\ Head(cBuffer[c]).step = step
    /\ step \in Steps => cCoupling[c] # "none"

NextMessage(c) == cBuffer' = [cBuffer EXCEPT ![c] = Tail(@)]

\* Mutant of Following: the client goes on to connect without a login.
FollowingNoLogin(c, step) == ConnectRequest(c)

\* The request that follows an accepting response.
Following(c, step) == IF step = "Handshake" THEN LoginRequest ELSE ConnectRequest(c)

\* onHandshakeResponse and onLoginResponse with an accepting response.
OnAdmitted(c) ==
    \E step \in {"Handshake", "Login"} :
        /\ Receives(c, step) /\ Head(cBuffer[c]).result = "Accepted"
        /\ ClientWrites(c, Following(c, step))
        /\ NextMessage(c)
        /\ UNCHANGED <<listening, cSocket, sSocket, toClient, lost, cCoupling, cActions, loopVars>>

\* onConnectResponse with an accepting response: a heartbeat is sent, and
\* coupled queued.
OnConnectResponse(c) ==
    /\ Receives(c, "Connect") /\ Head(cBuffer[c]).result = "Accepted"
    /\ ClientWrites(c, HeartbeatEvent)
    /\ cCoupling' = [cCoupling EXCEPT ![c] = "coupled"]
    /\ Post(c, "socket", <<Event("coupled", c)>>)
    /\ NextMessage(c)
    /\ UNCHANGED <<listening, cSocket, sSocket, toClient, lost, cActions>>

\* Any response that refuses.
OnRefusal(c) ==
    /\ \E step \in Steps : Receives(c, step)
    /\ Head(cBuffer[c]).result # "Accepted"
    /\ Fail(c, "socket")

\* The queued coupled arrives: onCoupled() makes the action handler.
ClientOnCoupled(c) ==
    /\ Idle(c) /\ Due(c, "coupled", c)
    /\ cActions' = [cActions EXCEPT ![c] = TRUE]
    /\ Deliver(c, <<>>)
    /\ UNCHANGED <<linkVars, cBuffer, cCoupling>>

\* The timer of a handler that still waits for a response.
ClientTimeout(c) ==
    /\ Idle(c) /\ cCoupling[c] = "waiting"
    /\ CanServe(c, "timer")
    /\ Fail(c, "timer")

\* The timer of a coupled handler: sendHeartbeatEvent().
SendHeartbeat(c) ==
    /\ Idle(c) /\ cCoupling[c] = "coupled" /\ cSocket[c] = "connected"
    /\ Len(toServer[c]) < ChanCap
    /\ ClientWrites(c, HeartbeatEvent)
    /\ Serve(c, "timer", <<>>)
    /\ UNCHANGED <<listening, cSocket, sSocket, toClient, lost, clientVars>>

\* The same after the peer closed the connection: the send fails.
HeartbeatFails(c) ==
    /\ Idle(c) /\ cCoupling[c] = "coupled" /\ cSocket[c] = "unconnected"
    /\ CanServe(c, "timer")
    /\ Fail(c, "timer")

\* Mutant of ClientRemoteClosed: disconnected is not queued.
ClientRemoteClosedUnnoticed(c) ==
    /\ Idle(c) /\ cSocket[c] = "connected" /\ sSocket[c] \in {"aborted", "gone"}
    /\ cSocket' = [cSocket EXCEPT ![c] = "unconnected"]
    /\ toClient' = [toClient EXCEPT ![c] = <<>>]
    /\ Serve(c, "socket", <<>>)
    /\ UNCHANGED <<listening, sSocket, toServer, lost, clientVars>>

\* The server's end is closed: what is still in flight may be lost.
ClientRemoteClosed(c) ==
    /\ Idle(c) /\ cSocket[c] = "connected" /\ sSocket[c] \in {"aborted", "gone"}
    /\ cSocket' = [cSocket EXCEPT ![c] = "unconnected"]
    /\ toClient' = [toClient EXCEPT ![c] = <<>>]
    /\ Serve(c, "socket", <<Event("disconnected", c)>>)
    /\ UNCHANGED <<listening, sSocket, toServer, lost, clientVars>>

\* The queued disconnected arrives: disconnectFromHost(), and ClientPeer
\* destroys the object in the slot of the signal that this emits.
DisconnectFromHost(c) ==
    /\ Idle(c) /\ Due(c, "disconnected", c)
    /\ Vanish(c, "gone")

\* ClientPeer::disconnectFromHost, called by the application.
UserDisconnect(c) ==
    /\ Idle(c) /\ Alive(c)
    /\ Vanish(c, "gone")

\* The client's host stops without closing anything.
HostLost(c) == cSocket[c] \in {"connecting", "connected"} /\ Vanish(c, "lost")

-------------------------------------------------------------------------------
\* Mutant of ClientSendAction: m_actionHandler is not checked.
ClientSendActionUnchecked(c) ==
    /\ Idle(c) /\ cSocket[c] = "connected"
    /\ Len(toServer[c]) + Len(toClient[c]) < ChanCap
    /\ ClientWrites(c, ActionRequest)
    /\ UNCHANGED <<listening, cSocket, sSocket, toClient, lost, clientVars, loopVars>>

\* ClientPeer::sendAction, called by the application.
ClientSendAction(c) ==
    /\ Idle(c) /\ cActions[c] /\ cSocket[c] = "connected"
    /\ Len(toServer[c]) + Len(toClient[c]) < ChanCap
    /\ ClientWrites(c, ActionRequest)
    /\ UNCHANGED <<listening, cSocket, sSocket, toClient, lost, clientVars, loopVars>>

\* ActionHandler::onActionRequest and onActionResponse in the client.
ClientOnAction(c) ==
    /\ ~Idle(c) /\ Head(cBuffer[c]).step = "Action"
    /\ cActions[c]
    /\ IF Head(cBuffer[c]) = ActionRequest THEN ClientWrites(c, ActionResponse)
                                           ELSE UNCHANGED toServer
    /\ NextMessage(c)
    /\ UNCHANGED <<listening, cSocket, sSocket, toClient, lost, cCoupling, cActions, loopVars>>

\* An action message arrives and there is no action handler to route it to:
\* ROUTE_MESSAGE follows a null pointer, and the process dies.
ClientCrash(c) ==
    /\ ~Idle(c) /\ Head(cBuffer[c]).step = "Action"
    /\ ~cActions[c]
    /\ Vanish(c, "gone")

ClientLoop(c) ==
    \/ Established(c)
    \/ Refused(c)
    \/ StartCoupling(c)
    \/ ClientReadyRead(c)
    \/ OnAdmitted(c)
    \/ OnConnectResponse(c)
    \/ OnRefusal(c)
    \/ ClientOnCoupled(c)
    \/ ClientRemoteClosed(c)
    \/ DisconnectFromHost(c)
    \/ ClientOnAction(c)
    \/ ClientCrash(c)

ClientTimers(c) == ClientTimeout(c) \/ SendHeartbeat(c) \/ HeartbeatFails(c)
===============================================================================
