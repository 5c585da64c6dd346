-------------------------- MODULE CommunicationServer --------------------------
(***************************************************************************)
(* CommunicationServer with its ServerCouplingHandler, its ActionHandler   *)
(* and its Transceiver, and the ServerPeer that owns it                    *)
(* (src/comm/server, src/server_peer.cpp), from start() to stop().         *)
(***************************************************************************)
EXTENDS ServerCoupling, TcpLink

CONSTANTS
    None,       \* no socket
    MaxDrops    \* bound: calls of ServerPeer::dropClient by the application

ASSUME NoneAssumption == None \notin Clients

VARIABLES
    mSocket,     \* m_socket: the client that holds the only slot
    sCoupling,   \* m_couplingHandler
    sActions,    \* whether m_actionHandler exists
    sDevice,     \* the socket that the transceiver reads and writes, m_device
    sLinks,      \* the sockets whose aboutToClose and destroyed stop it
    sBuffer,     \* messages that onReadyRead() has still to hand over
    drops        \* how often the application dropped the client

serverVars == <<mSocket, sCoupling, sActions, sDevice, sLinks, sBuffer, drops>>

ServerTypeOK == /\ mSocket \in Clients \cup {None}
                /\ sCoupling \in HandlerType
                /\ sActions \in BOOLEAN
                /\ sDevice \in Clients \cup {None}
                /\ sLinks \in SUBSET Clients
                /\ sBuffer \in Seq(Requests \cup {ActionResponse})
                /\ drops \in Nat

ServerInit == /\ mSocket = None
              /\ sCoupling = NoHandler
              /\ sActions = FALSE
              /\ sDevice = None
              /\ sLinks = {}
              /\ sBuffer = <<>>
              /\ drops = 0

Ready == listening /\ sBuffer = <<>>

-------------------------------------------------------------------------------
\* Mutant of DropSlot: m_actionHandler is not reset.
DropSlotKeepingActions == /\ sCoupling' = NoHandler
                          /\ sActions' = sActions
                          /\ mSocket' = None

\* Mutant of DropSlot: m_socket is not cleared.
DropSlotKeepingSocket == /\ sCoupling' = NoHandler
                         /\ sActions' = FALSE
                         /\ mSocket' = mSocket

\* dropClient(): the handlers go at once, the socket with the event Deletion.
DropSlot == /\ sCoupling' = NoHandler
            /\ sActions' = FALSE
            /\ mSocket' = None

\* Mutant of Deletion: deleteLater() is called on a null pointer.
DeletionUnchecked == <<Event("delete", mSocket)>>

\* Mutant of Deletion: deleteLater() is forgotten.
DeletionForgotten == <<>>

Deletion == IF mSocket = None THEN <<>> ELSE <<Event("delete", mSocket)>>

\* The process ends, in stop() or by a crash: every socket is closed.
Shutdown ==
    /\ listening' = FALSE
    /\ sSocket' = [c \in Clients |-> IF sSocket[c] = "none" THEN "none" ELSE "gone"]
    /\ toServer' = [c \in Clients |-> <<>>]
    /\ DropSlot
    /\ sDevice' = None
    /\ sLinks' = {}
    /\ sBuffer' = <<>>
    /\ Forget(Server)
    /\ UNCHANGED <<cSocket, toClient, lost, drops>>

-------------------------------------------------------------------------------
\* Mutant of Accept: the transceiver is not told to listen to the new socket.
AcceptWithoutListen(c) ==
    /\ Ready /\ sSocket[c] = "backlog"
    /\ CanServe(Server, "accept") /\ ~sCoupling.alive
    /\ sSocket' = [sSocket EXCEPT ![c] = "connected"]
    /\ mSocket' = c
    /\ sCoupling' = NewHandler
    /\ UNCHANGED <<listening, cSocket, toServer, toClient, lost, loopVars, sActions,
                   sDevice, sLinks, sBuffer, drops>>

\* onNewConnection() with a free slot: the transceiver listens to the socket
\* and startCoupling() makes a handler.  The links to an earlier socket stay.
\* listen() also reads at once, but a socket that was just accepted has nothing
\* buffered yet.  One call of the notifier takes all pending connections, so
\* that it does not count as served.
Accept(c) ==
    /\ Ready /\ sSocket[c] = "backlog"
    /\ CanServe(Server, "accept") /\ ~sCoupling.alive
    /\ sSocket' = [sSocket EXCEPT ![c] = "connected"]
    /\ mSocket' = c
    /\ sCoupling' = NewHandler
    /\ sDevice' = c
    /\ sLinks' = sLinks \cup {c}
    /\ UNCHANGED <<listening, cSocket, toServer, toClient, lost, loopVars, sActions,
                   sBuffer, drops>>

\* onNewConnection() while the slot is taken: the newcomer is turned away.
AbortExcess(c) ==
    /\ Ready /\ sSocket[c] = "backlog"
    /\ CanServe(Server, "accept") /\ sCoupling.alive
    /\ sSocket' = [sSocket EXCEPT ![c] = "aborted"]
    /\ toServer' = [toServer EXCEPT ![c] = <<>>]
    /\ UNCHANGED <<listening, cSocket, toClient, lost, loopVars, serverVars>>

\* readyRead of the socket the transceiver reads.
ServerReadyRead(c) ==
    /\ Ready /\ c = sDevice /\ sSocket[c] = "connected"
    /\ \E r \in Reads(toServer[c]) :
          /\ sBuffer' = Whole(toServer[c], r)
          /\ toServer' = [toServer EXCEPT ![c] = Rest(toServer[c], r)]
          /\ CountLoss(r)
    /\ Serve(Server, c, <<>>)
    /\ UNCHANGED <<listening, cSocket, sSocket, toClient, mSocket, sCoupling, sActions,
                   sDevice, sLinks, drops>>

Receiving == sBuffer # <<>> /\ sDevice # None

\* processMessage() routes a request to the coupling handler, which answers
\* it and queues coupled when it accepts the last step.
OnRequest ==
    /\ Receiving /\ sCoupling.alive
    /\ LET request == Head(sBuffer)
           step == request.step
       IN  /\ step \in Steps
           /\ \E authorized \in IF step = "Login" THEN BOOLEAN ELSE {TRUE} :
                 LET result == ResultOf(sCoupling, step, authorized)
                     nowCoupled == step = "Connect" /\ result = "Accepted"
                 IN  /\ sCoupling' = Answered(sCoupling, step, request.port, result)
                     /\ ServerWrites(sDevice, Response(step, result))
                     /\ Post(Server, sDevice,
                             IF nowCoupled THEN <<Event("coupled", sDevice)>> ELSE <<>>)
    /\ sBuffer' = Tail(sBuffer)
    /\ UNCHANGED <<listening, cSocket, sSocket, toServer, lost, mSocket, sActions,
                   sDevice, sLinks, drops>>

OnHeartbeatEvent ==
    /\ Receiving /\ sCoupling.alive
    /\ Head(sBuffer).step = "Heartbeat"
    /\ sCoupling' = Beaten(sCoupling)
    /\ sBuffer' = Tail(sBuffer)
    /\ UNCHANGED <<linkVars, loopVars, mSocket, sActions, sDevice, sLinks, drops>>

\* ActionHandler::onActionRequest and onActionResponse in the server.
ServerOnAction ==
    /\ Receiving /\ sActions
    /\ Head(sBuffer).step = "Action"
    /\ IF Head(sBuffer) = ActionRequest THEN ServerWrites(sDevice, ActionResponse)
                                        ELSE UNCHANGED toClient
    /\ sBuffer' = Tail(sBuffer)
    /\ UNCHANGED <<listening, cSocket, sSocket, toServer, lost, loopVars, mSocket,
                   sCoupling, sActions, sDevice, sLinks, drops>>

\* A message whose handler is gone: ROUTE_MESSAGE follows a null pointer.
Unroutable == /\ sBuffer # <<>>
              /\ IF Head(sBuffer).step = "Action" THEN ~sActions ELSE ~sCoupling.alive

CrashInRouter == Unroutable /\ Shutdown

\* Mutant of ServerTimeout: the timeout is not connected to failed.
ServerTimeoutUnnoticed ==
    /\ Ready /\ sCoupling.alive /\ sCoupling.active
    /\ Serve(Server, "timer", <<>>)
    /\ UNCHANGED <<linkVars, serverVars>>

\* m_timer of the handler: failed is queued.
ServerTimeout ==
    /\ Ready /\ sCoupling.alive /\ sCoupling.active
    /\ Serve(Server, "timer", <<Event("failed", mSocket)>>)
    /\ UNCHANGED <<linkVars, serverVars>>

\* Mutant of ServerRemoteClosed: disconnected is not queued.
ServerRemoteClosedUnnoticed(c) ==
    /\ Ready /\ sSocket[c] = "connected" /\ ClientEndClosed(c)
    /\ sSocket' = [sSocket EXCEPT ![c] = "unconnected"]
    /\ toServer' = [toServer EXCEPT ![c] = <<>>]
    /\ Serve(Server, c, <<>>)
    /\ UNCHANGED <<listening, cSocket, toClient, lost, serverVars>>

\* The client's end is closed: what is still in flight may be lost.
ServerRemoteClosed(c) ==
    /\ Ready /\ sSocket[c] = "connected" /\ ClientEndClosed(c)
    /\ sSocket' = [sSocket EXCEPT ![c] = "unconnected"]
    /\ toServer' = [toServer EXCEPT ![c] = <<>>]
    /\ Serve(Server, c, <<Event("disconnected", c)>>)
    /\ UNCHANGED <<listening, cSocket, toClient, lost, serverVars>>

\* A queued failed or disconnected arrives: dropClient(), whoever holds the
\* slot by now.
DropClient(c) ==
    /\ Ready
    /\ Due(Server, "failed", c) \/ Due(Server, "disconnected", c)
    /\ DropSlot
    /\ Deliver(Server, Deletion)
    /\ UNCHANGED <<linkVars, sDevice, sLinks, sBuffer, drops>>

\* The queued coupled arrives: onCoupled() makes the action handler.
ServerOnCoupled(c) ==
    /\ Ready /\ Due(Server, "coupled", c)
    /\ sCoupling.alive /\ ~sActions
    /\ sActions' = TRUE
    /\ Deliver(Server, <<>>)
    /\ UNCHANGED <<linkVars, mSocket, sCoupling, sDevice, sLinks, sBuffer, drops>>

\* It arrives after the handler is gone, or when the session already has an
\* action handler: an assertion of onCoupled() fails.
CrashInOnCoupled(c) ==
    /\ Ready /\ Due(Server, "coupled", c)
    /\ ~(sCoupling.alive /\ ~sActions)
    /\ Shutdown

\* deleteLater() of a dropped socket: closing it stops the transceiver, which
\* lets go of the socket it reads by now, and queues disconnected.
DeleteSocket(c) ==
    /\ Ready /\ Due(Server, "delete", c)
    /\ sSocket' = [sSocket EXCEPT ![c] = "gone"]
    /\ toServer' = [toServer EXCEPT ![c] = <<>>]
    /\ sLinks' = IF c \in sLinks THEN sLinks \ {c, sDevice} ELSE sLinks
    /\ sDevice' = IF c \in sLinks THEN None ELSE sDevice
    /\ Deliver(Server, IF sSocket[c] = "connected" THEN <<Event("disconnected", c)>> ELSE <<>>)
    /\ UNCHANGED <<listening, cSocket, toClient, lost, mSocket, sCoupling, sActions, sBuffer, drops>>

-------------------------------------------------------------------------------
\* ServerPeer::dropClient, called by the application.
UserDropClient ==
    /\ Ready /\ mSocket # None
    /\ drops < MaxDrops
    /\ drops' = drops + 1
    /\ DropSlot
    /\ Serve(Server, "app", Deletion)
    /\ UNCHANGED <<linkVars, sDevice, sLinks, sBuffer>>

\* ServerPeer::sendAction, called by the application.
ServerSendAction(c) ==
    /\ Ready /\ sActions /\ c = sDevice /\ sSocket[c] = "connected"
    /\ Len(toServer[c]) + Len(toClient[c]) < ChanCap
    /\ ServerWrites(c, ActionRequest)
    /\ UNCHANGED <<listening, cSocket, sSocket, toServer, lost, loopVars, serverVars>>

\* ServerPeer::stop, called by the application.
StopServer == Ready /\ Shutdown

\* ServerPeer::start, called by the application, or the process comes up again
\* after a crash: a new CommunicationServer opens the port.
StartServer == /\ ~listening
               /\ listening' = TRUE
               /\ UNCHANGED <<cSocket, sSocket, toServer, toClient, lost, loopVars, serverVars>>

ServerLoop ==
    \/ \E c \in Clients : \/ Accept(c)
                          \/ AbortExcess(c)
                          \/ ServerReadyRead(c)
                          \/ ServerRemoteClosed(c)
                          \/ DropClient(c)
                          \/ ServerOnCoupled(c)
                          \/ CrashInOnCoupled(c)
                          \/ DeleteSocket(c)
    \/ OnRequest
    \/ OnHeartbeatEvent
    \/ ServerOnAction
    \/ CrashInRouter
===============================================================================
