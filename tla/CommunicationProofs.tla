-------------------------- MODULE CommunicationProofs --------------------------
(***************************************************************************)
(* Proofs about the communication layer for every number of clients, every *)
(* bound, and with an application that drops clients and sends actions     *)
(* whenever it likes: the types, the consistency of the slot, and that no  *)
(* connection is forgotten.                                                *)
(***************************************************************************)
EXTENDS Communication, ServerCouplingTheorems

\* The inductive invariant.  The type of an event that the timer of the
\* server's handler posts needs the consistency of the slot.
IInv == TypeOK /\ SlotConsistent /\ NoSocketLeak

USE ServerAssumption, LinkAssumption, NoneAssumption, ActorsAssumption, PortsAssumption,
    NoPortAssumption

-------------------------------------------------------------------------------
\* What the operators of EventLoop do to the types.
LEMMA PostType ==
    ASSUME LoopTypeOK, NEW p \in Processes, NEW src \in Sources, NEW evs \in Seq(Events),
           Post(p, src, evs)
    PROVE  LoopTypeOK'
  BY DEF LoopTypeOK, Post

LEMMA DeliverType ==
    ASSUME LoopTypeOK, NEW p \in Processes, posted[p] # <<>>, NEW evs \in Seq(Events),
           Deliver(p, evs)
    PROVE  LoopTypeOK'
  BY DEF LoopTypeOK, Deliver

LEMMA ForgetType ==
    ASSUME LoopTypeOK, NEW p \in Processes, Forget(p)
    PROVE  LoopTypeOK'
  BY DEF LoopTypeOK, Forget

\* The queues of events that are posted.
LEMMA OneEvent ==
    ASSUME NEW c \in Clients, NEW ev \in EventNames
    PROVE  <<Event(ev, c)>> \in Seq(Events) /\ <<>> \in Seq(Events)
  BY DEF Event, Events

-------------------------------------------------------------------------------
ToServer == Requests \cup {ActionResponse}
ToClient == Responses \cup {ActionRequest}

\* Every message of the protocol has its type.
LEMMA MessageTypes ==
    /\ {HandshakeRequest, LoginRequest, HeartbeatEvent, ActionRequest} \subseteq ToServer
    /\ \A c \in Clients : ConnectRequest(c) \in ToServer
    /\ ActionResponse \in ToServer /\ ActionResponse \in ToClient /\ ActionRequest \in ToClient
    /\ \A step \in Steps, result \in Results : Response(step, result) \in ToClient
    /\ \A m \in ToServer : m.step \in Steps =>
          m.port \in Ports \cup {NoPort} /\ (m.step = "Connect" => m.port \in Ports)
<1>1. {HandshakeRequest, LoginRequest, HeartbeatEvent, ActionRequest} \subseteq ToServer
  BY DEF ToServer, Requests, HandshakeRequest, LoginRequest, HeartbeatEvent, ActionRequest
<1>2. \A c \in Clients : ConnectRequest(c) \in ToServer
  BY DEF ToServer, Requests, ConnectRequest
<1>3. \A step \in Steps \cup {"Action"}, result \in Results : Response(step, result) \in Responses
  BY DEF Responses, Response
<1>4. /\ ActionResponse \in ToServer
      /\ ActionResponse \in ToClient
      /\ ActionRequest \in ToClient
  BY <1>3 DEF ToServer, ToClient, ActionResponse, Results
<1>5. ASSUME NEW m \in ToServer, m.step \in Steps
      PROVE  m.port \in Ports \cup {NoPort} /\ (m.step = "Connect" => m.port \in Ports)
  BY <1>5 DEF ToServer, Requests, ActionResponse, Request, Response, Steps
<1>6. QED
  BY <1>1, <1>2, <1>3, <1>4, <1>5 DEF ToClient

\* A write keeps the type of the queue.
LEMMA ClientWritesType ==
    ASSUME toServer \in [Clients -> Seq(ToServer)], NEW c \in Clients, NEW msg \in ToServer,
           ClientWrites(c, msg)
    PROVE  toServer' \in [Clients -> Seq(ToServer)]
  BY DEF ClientWrites

LEMMA ServerWritesType ==
    ASSUME toClient \in [Clients -> Seq(ToClient)], NEW c \in Clients, NEW msg \in ToClient,
           ServerWrites(c, msg)
    PROVE  toClient' \in [Clients -> Seq(ToClient)]
  BY DEF ServerWrites

\* What a read takes from a queue, and what it leaves, are queues again.
LEMMA ReadType ==
    ASSUME NEW S, NEW q \in Seq(S), NEW r \in Reads(q), lost \in Nat, CountLoss(r)
    PROVE  Whole(q, r) \in Seq(S) /\ Rest(q, r) \in Seq(S) /\ lost' \in Nat
<1>1. /\ r.whole \in 0..Len(q)
      /\ Consumed(r) \in 1..Len(q)
      /\ Len(q) \in Nat
  BY DEF Reads
<1>2. Whole(q, r) \in Seq(S)
  BY <1>1 DEF Whole
<1>3. Rest(q, r) \in Seq(S)
  BY <1>1 DEF Rest
<1>4. lost' \in Nat
  BY DEF CountLoss
<1>5. QED
  BY <1>2, <1>3, <1>4

-------------------------------------------------------------------------------
\* The client's steps keep the types of the link, the loop and the client.

ClientSideTypeOK == LinkTypeOK /\ LoopTypeOK /\ ClientTypeOK

\* The members of the sets that the actions take values from.
LEMMA Domains ==
    ASSUME NEW c \in Clients
    PROVE  /\ {c, Server} \subseteq Processes
           /\ <<>> \in Seq(Events)
           /\ {"socket", "timer", "app", "accept"} \cup Clients \subseteq Sources
           /\ {"connected", "disconnected", "coupled", "failed", "delete"} \subseteq EventNames
  BY DEF Processes, Sources, EventNames

\* The object vanishes, or fails.
LEMMA VanishType ==
    ASSUME ClientSideTypeOK, NEW c \in Clients, NEW state \in ClientSocketStates, Vanish(c, state)
    PROVE  ClientSideTypeOK'
<1>1. LinkTypeOK'
  BY DEF ClientSideTypeOK, LinkTypeOK, Vanish
<1>2. LoopTypeOK'
  BY ForgetType, Domains DEF ClientSideTypeOK, Vanish
<1>3. ClientTypeOK'
  BY DEF ClientSideTypeOK, ClientTypeOK, Vanish
<1>4. QED
  BY <1>1, <1>2, <1>3 DEF ClientSideTypeOK

LEMMA FailType ==
    ASSUME ClientSideTypeOK, NEW c \in Clients, NEW src \in {"socket", "timer"}, Fail(c, src)
    PROVE  ClientSideTypeOK'
<1>1. LinkTypeOK'
  BY DEF ClientSideTypeOK, LinkTypeOK, Fail, ClientSocketStates
<1>2. LoopTypeOK'
  <2> DEFINE evs == IF cSocket[c] = "connected" THEN <<Event("disconnected", c)>> ELSE <<>>
  <2>1. evs \in Seq(Events)
    BY OneEvent, Domains
  <2>2. Post(c, src, evs)
    BY DEF Fail
  <2> HIDE DEF evs
  <2>3. QED
    BY <2>1, <2>2, PostType, Domains DEF ClientSideTypeOK
<1>3. ClientTypeOK'
  BY DEF ClientSideTypeOK, ClientTypeOK, Fail
<1>4. QED
  BY <1>1, <1>2, <1>3 DEF ClientSideTypeOK

\* The steps of connecting.
LEMMA ConnectingType ==
    ASSUME ClientSideTypeOK, NEW c \in Clients,
           ConnectToHost(c) \/ Established(c) \/ Refused(c) \/ StartCoupling(c)
    PROVE  ClientSideTypeOK'
<1>1. CASE ConnectToHost(c)
  BY <1>1 DEF ConnectToHost, ClientSideTypeOK, LinkTypeOK, LoopTypeOK, ClientTypeOK, ClientSocketStates,
              clientVars, loopVars
<1>2. CASE Established(c)
  <2>1. LinkTypeOK'
    BY <1>2 DEF Established, ClientSideTypeOK, LinkTypeOK, ClientSocketStates, ServerSocketStates
  <2>2. LoopTypeOK'
    BY <1>2, PostType, OneEvent, Domains DEF Established, Serve, ClientSideTypeOK
  <2>3. ClientTypeOK'
    BY <1>2 DEF Established, ClientSideTypeOK, ClientTypeOK, clientVars
  <2>4. QED
    BY <2>1, <2>2, <2>3 DEF ClientSideTypeOK
<1>3. CASE Refused(c)
  <2>1. LinkTypeOK'
    BY <1>3 DEF Refused, ClientSideTypeOK, LinkTypeOK, ClientSocketStates
  <2>2. LoopTypeOK'
    BY <1>3, PostType, Domains DEF Refused, Serve, ClientSideTypeOK
  <2>3. ClientTypeOK'
    BY <1>3 DEF Refused, ClientSideTypeOK, ClientTypeOK, clientVars
  <2>4. QED
    BY <2>1, <2>2, <2>3 DEF ClientSideTypeOK
<1>4. CASE StartCoupling(c)
  <2>1. toServer' \in [Clients -> Seq(ToServer)]
    BY <1>4, ClientWritesType, MessageTypes DEF StartCoupling, ClientSideTypeOK, LinkTypeOK, ToServer
  <2>2. LinkTypeOK'
    BY <1>4, <2>1 DEF StartCoupling, ClientSideTypeOK, LinkTypeOK, ToServer
  <2>3. LoopTypeOK'
    BY <1>4, DeliverType, Domains DEF StartCoupling, Due, ClientSideTypeOK
  <2>4. ClientTypeOK'
    BY <1>4 DEF StartCoupling, ClientSideTypeOK, ClientTypeOK
  <2>5. QED
    BY <2>2, <2>3, <2>4 DEF ClientSideTypeOK
<1>5. QED
  BY <1>1, <1>2, <1>3, <1>4

\* The queue of messages shrinks by one.
LEMMA NextMessageType ==
    ASSUME NEW c \in Clients, cBuffer \in [Clients -> Seq(ToClient)], ~Idle(c), NextMessage(c)
    PROVE  cBuffer' \in [Clients -> Seq(ToClient)]
  BY DEF NextMessage, Idle

\* The steps that read and answer.
LEMMA ReadingType ==
    ASSUME ClientSideTypeOK, NEW c \in Clients,
           \/ ClientReadyRead(c) \/ OnAdmitted(c) \/ OnConnectResponse(c) \/ OnRefusal(c)
           \/ ClientOnAction(c) \/ ClientCrash(c)
    PROVE  ClientSideTypeOK'
<1>1. CASE ClientReadyRead(c)
  <2>1. PICK r \in Reads(toClient[c]) :
            /\ cBuffer' = [cBuffer EXCEPT ![c] = Whole(toClient[c], r)]
            /\ toClient' = [toClient EXCEPT ![c] = Rest(toClient[c], r)]
            /\ CountLoss(r)
    BY <1>1 DEF ClientReadyRead
  <2>2. /\ Whole(toClient[c], r) \in Seq(ToClient)
        /\ Rest(toClient[c], r) \in Seq(ToClient)
        /\ lost' \in Nat
    <3>1. toClient[c] \in Seq(ToClient) /\ lost \in Nat
      BY DEF ClientSideTypeOK, LinkTypeOK, ToClient
    <3>2. QED
      BY <2>1, <3>1, ReadType
  <2>3. LinkTypeOK'
    BY <1>1, <2>1, <2>2 DEF ClientReadyRead, ClientSideTypeOK, LinkTypeOK, ToClient
  <2>4. LoopTypeOK'
    BY <1>1, PostType, Domains DEF ClientReadyRead, Serve, ClientSideTypeOK
  <2>5. ClientTypeOK'
    BY <1>1, <2>1, <2>2 DEF ClientReadyRead, ClientSideTypeOK, ClientTypeOK, ToClient
  <2>6. QED
    BY <2>3, <2>4, <2>5 DEF ClientSideTypeOK
<1>2. CASE OnAdmitted(c)
  <2>1. PICK step \in {"Handshake", "Login"} :
            /\ Receives(c, step)
            /\ ClientWrites(c, Following(c, step))
            /\ NextMessage(c)
            /\ UNCHANGED <<listening, cSocket, sSocket, toClient, lost, cCoupling, cActions, loopVars>>
    BY <1>2 DEF OnAdmitted
  <2>2. Following(c, step) \in ToServer
    BY MessageTypes DEF Following
  <2>3. toServer' \in [Clients -> Seq(ToServer)]
    BY <2>1, <2>2, ClientWritesType DEF ClientSideTypeOK, LinkTypeOK, ToServer
  <2>4. cBuffer' \in [Clients -> Seq(ToClient)]
    BY <2>1, NextMessageType DEF Receives, ClientSideTypeOK, ClientTypeOK, ToClient
  <2>5. QED
    BY <2>1, <2>3, <2>4 DEF ClientSideTypeOK, LinkTypeOK, LoopTypeOK, ClientTypeOK, loopVars,
                            ToServer, ToClient
<1>3. CASE OnConnectResponse(c)
  <2>1. toServer' \in [Clients -> Seq(ToServer)]
    BY <1>3, MessageTypes, ClientWritesType DEF OnConnectResponse, ClientSideTypeOK, LinkTypeOK, ToServer
  <2>2. cBuffer' \in [Clients -> Seq(ToClient)]
    BY <1>3, NextMessageType DEF OnConnectResponse, Receives, ClientSideTypeOK, ClientTypeOK, ToClient
  <2>3. LinkTypeOK'
    BY <1>3, <2>1 DEF OnConnectResponse, ClientSideTypeOK, LinkTypeOK, ToServer
  <2>4. LoopTypeOK'
    BY <1>3, PostType, OneEvent, Domains DEF OnConnectResponse, ClientSideTypeOK
  <2>5. ClientTypeOK'
    BY <1>3, <2>2 DEF OnConnectResponse, ClientSideTypeOK, ClientTypeOK, ToClient
  <2>6. QED
    BY <2>3, <2>4, <2>5 DEF ClientSideTypeOK
<1>4. CASE OnRefusal(c)
  BY <1>4, FailType DEF OnRefusal
<1>5. CASE ClientOnAction(c)
  <2>1. toServer' \in [Clients -> Seq(ToServer)]
    <3>1. CASE Head(cBuffer[c]) = ActionRequest
      BY <1>5, <3>1, MessageTypes, ClientWritesType
         DEF ClientOnAction, ClientSideTypeOK, LinkTypeOK, ToServer
    <3>2. CASE Head(cBuffer[c]) # ActionRequest
      BY <1>5, <3>2 DEF ClientOnAction, ClientSideTypeOK, LinkTypeOK, ToServer
    <3>3. QED
      BY <3>1, <3>2
  <2>2. cBuffer' \in [Clients -> Seq(ToClient)]
    BY <1>5, NextMessageType DEF ClientOnAction, ClientSideTypeOK, ClientTypeOK, ToClient
  <2>3. QED
    BY <1>5, <2>1, <2>2 DEF ClientOnAction, ClientSideTypeOK, LinkTypeOK, LoopTypeOK, ClientTypeOK,
                            loopVars, ToServer, ToClient
<1>6. CASE ClientCrash(c)
  BY <1>6, VanishType DEF ClientCrash, ClientSocketStates
<1>7. QED
  BY <1>1, <1>2, <1>3, <1>4, <1>5, <1>6

\* The queued slots, the timers, the application and the hosts.
LEMMA RemainingType ==
    ASSUME ClientSideTypeOK, NEW c \in Clients,
           \/ ClientOnCoupled(c) \/ ClientRemoteClosed(c) \/ DisconnectFromHost(c)
           \/ ClientTimers(c) \/ UserDisconnect(c) \/ HostLost(c) \/ ClientSendAction(c)
    PROVE  ClientSideTypeOK'
<1>1. CASE ClientOnCoupled(c)
  <2>1. LoopTypeOK'
    BY <1>1, DeliverType, Domains DEF ClientOnCoupled, Due, ClientSideTypeOK
  <2>2. LinkTypeOK' /\ ClientTypeOK'
    BY <1>1 DEF ClientOnCoupled, ClientSideTypeOK, LinkTypeOK, ClientTypeOK, linkVars
  <2>3. QED
    BY <2>1, <2>2 DEF ClientSideTypeOK
<1>2. CASE ClientRemoteClosed(c)
  <2>1. LoopTypeOK'
    BY <1>2, PostType, OneEvent, Domains DEF ClientRemoteClosed, Serve, ClientSideTypeOK
  <2>2. LinkTypeOK' /\ ClientTypeOK'
    BY <1>2 DEF ClientRemoteClosed, ClientSideTypeOK, LinkTypeOK, ClientTypeOK, ClientSocketStates,
                clientVars
  <2>3. QED
    BY <2>1, <2>2 DEF ClientSideTypeOK
<1>3. CASE DisconnectFromHost(c) \/ UserDisconnect(c) \/ HostLost(c)
  BY <1>3, VanishType DEF DisconnectFromHost, UserDisconnect, HostLost, ClientSocketStates
<1>4. CASE ClientTimeout(c) \/ HeartbeatFails(c)
  BY <1>4, FailType DEF ClientTimeout, HeartbeatFails
<1>5. CASE SendHeartbeat(c)
  <2>1. toServer' \in [Clients -> Seq(ToServer)]
    BY <1>5, MessageTypes, ClientWritesType DEF SendHeartbeat, ClientSideTypeOK, LinkTypeOK, ToServer
  <2>2. LoopTypeOK'
    BY <1>5, PostType, Domains DEF SendHeartbeat, Serve, ClientSideTypeOK
  <2>3. QED
    BY <1>5, <2>1, <2>2 DEF SendHeartbeat, ClientSideTypeOK, LinkTypeOK, ClientTypeOK, clientVars, ToServer
<1>6. CASE ClientSendAction(c)
  <2>1. toServer' \in [Clients -> Seq(ToServer)]
    BY <1>6, MessageTypes, ClientWritesType DEF ClientSendAction, ClientSideTypeOK, LinkTypeOK, ToServer
  <2>2. QED
    BY <1>6, <2>1 DEF ClientSendAction, ClientSideTypeOK, LinkTypeOK, LoopTypeOK, ClientTypeOK,
                      clientVars, loopVars, ToServer
<1>7. QED
  BY <1>1, <1>2, <1>3, <1>4, <1>5, <1>6 DEF ClientTimers

\* A step of a client keeps all types.
LEMMA ClientStepType ==
    ASSUME TypeOK, NEW c \in Clients, ClientStep(c)
    PROVE  TypeOK'
<1>1. ClientSideTypeOK'
  BY ConnectingType, ReadingType, RemainingType DEF ClientStep, ClientLoop, TypeOK, ClientSideTypeOK
<1>2. ServerTypeOK'
  BY DEF ClientStep, TypeOK, ServerTypeOK, serverVars
<1>3. QED
  BY <1>1, <1>2 DEF TypeOK, ClientSideTypeOK

-------------------------------------------------------------------------------
\* The server's steps keep the types of the link, the loop and the server, and
\* the consistency of the slot.

ServerSide == LinkTypeOK /\ LoopTypeOK /\ ServerTypeOK /\ SlotConsistent

\* What dropClient() posts, and what it leaves of the slot.
LEMMA DropSlotType ==
    ASSUME ServerSide
    PROVE  /\ Deletion \in Seq(Events)
           /\ DropSlot => /\ sCoupling' \in HandlerType
                          /\ sActions' \in BOOLEAN
                          /\ mSocket' \in Clients \cup {None}
                          /\ SlotConsistent'
<1>1. Deletion \in Seq(Events)
  BY OneEvent, Domains DEF Deletion, ServerSide, ServerTypeOK, EventNames
<1>2. ASSUME DropSlot
      PROVE  /\ sCoupling' \in HandlerType
             /\ sActions' \in BOOLEAN
             /\ mSocket' \in Clients \cup {None}
             /\ SlotConsistent'
  BY <1>2, HandlerMade DEF DropSlot, SlotConsistent
<1>3. QED
  BY <1>1, <1>2

LEMMA ShutdownType ==
    ASSUME ServerSide, Shutdown
    PROVE  ServerSide'
<1>1. LinkTypeOK'
  <2>1. sSocket' \in [Clients -> ServerSocketStates]
    BY DEF Shutdown, ServerSocketStates
  <2>2. toServer' \in [Clients -> Seq(ToServer)]
    BY DEF Shutdown
  <2>3. listening' \in BOOLEAN
    BY DEF Shutdown
  <2>4. QED
    BY <2>1, <2>2, <2>3 DEF Shutdown, ServerSide, LinkTypeOK, ToServer
<1>2. LoopTypeOK'
  BY ForgetType DEF Shutdown, ServerSide, Processes
<1>3. ServerTypeOK' /\ SlotConsistent'
  BY DropSlotType DEF Shutdown, ServerSide, ServerTypeOK
<1>4. QED
  BY <1>1, <1>2, <1>3 DEF ServerSide

\* The listening socket.
LEMMA AcceptType ==
    ASSUME ServerSide, NEW c \in Clients, Accept(c) \/ AbortExcess(c)
    PROVE  ServerSide'
<1>1. CASE Accept(c)
  <2>1. LinkTypeOK' /\ LoopTypeOK'
    BY <1>1 DEF Accept, ServerSide, LinkTypeOK, LoopTypeOK, loopVars, ServerSocketStates
  <2>2. ServerTypeOK'
    BY <1>1, HandlerMade DEF Accept, ServerSide, ServerTypeOK
  <2>3. SlotConsistent'
    BY <1>1, HandlerMade DEF Accept, ServerSide, SlotConsistent
  <2>4. QED
    BY <2>1, <2>2, <2>3 DEF ServerSide
<1>2. CASE AbortExcess(c)
  BY <1>2 DEF AbortExcess, ServerSide, LinkTypeOK, LoopTypeOK, ServerTypeOK, SlotConsistent, loopVars,
              serverVars, ServerSocketStates
<1>3. QED
  BY <1>1, <1>2

\* The messages of one read are handed over.
LEMMA ReceivingType ==
    ASSUME ServerSide, OnRequest \/ OnHeartbeatEvent \/ ServerOnAction
    PROVE  ServerSide'
<1>1. /\ sDevice \in Clients
      /\ sBuffer \in Seq(ToServer)
      /\ sBuffer # <<>>
      /\ Head(sBuffer) \in ToServer
      /\ Tail(sBuffer) \in Seq(ToServer)
  <2>1. Receiving
    BY DEF OnRequest, OnHeartbeatEvent, ServerOnAction
  <2>2. sBuffer \in Seq(ToServer) /\ sDevice \in Clients \cup {None}
    BY DEF ServerSide, ServerTypeOK, ToServer
  <2>3. QED
    BY <2>1, <2>2 DEF Receiving
<1>2. CASE OnRequest
  <2> DEFINE request == Head(sBuffer)
             step == request.step
             result(authorized) == ResultOf(sCoupling, step, authorized)
             evs(authorized) == IF step = "Connect" /\ result(authorized) = "Accepted"
                                THEN <<Event("coupled", sDevice)>> ELSE <<>>
  <2>1. /\ step \in Steps
        /\ request.port \in Ports \cup {NoPort}
        /\ step = "Connect" => request.port \in Ports
        /\ sCoupling \in HandlerType
    BY <1>1, <1>2, MessageTypes DEF OnRequest, ServerSide, ServerTypeOK
  <2>2. PICK authorized \in BOOLEAN :
            /\ sCoupling' = Answered(sCoupling, step, request.port, result(authorized))
            /\ ServerWrites(sDevice, Response(step, result(authorized)))
            /\ Post(Server, sDevice, evs(authorized))
    BY <1>2 DEF OnRequest
  <2>3. result(authorized) \in Results
    BY <2>1, OperatorTypes
  <2>4. toClient' \in [Clients -> Seq(ToClient)]
    BY <1>1, <2>1, <2>2, <2>3, MessageTypes, ServerWritesType DEF ServerSide, LinkTypeOK, ToClient
  <2>5. LinkTypeOK'
    BY <1>2, <2>4 DEF OnRequest, ServerSide, LinkTypeOK, ToClient
  <2>6. LoopTypeOK'
    <3>1. evs(authorized) \in Seq(Events)
      BY <1>1, OneEvent, Domains
    <3>2. QED
      BY <1>1, <2>2, <3>1, PostType, Domains DEF ServerSide
  <2>7. /\ sCoupling' \in HandlerType
        /\ sCoupling'.alive = sCoupling.alive
    BY <2>1, <2>2, AnsweredEffect, AliveUnchanged
  <2> HIDE DEF request, step, result, evs
  <2>8. ServerTypeOK'
    BY <1>1, <1>2, <2>7 DEF OnRequest, ServerSide, ServerTypeOK, ToServer
  <2>9. SlotConsistent'
    BY <1>2, <2>7 DEF OnRequest, ServerSide, SlotConsistent
  <2>10. QED
    BY <2>5, <2>6, <2>8, <2>9 DEF ServerSide
<1>3. CASE OnHeartbeatEvent
  <2>1. LinkTypeOK' /\ LoopTypeOK'
    BY <1>3 DEF OnHeartbeatEvent, ServerSide, LinkTypeOK, LoopTypeOK, linkVars, loopVars
  <2>2. Beaten(sCoupling) \in HandlerType /\ Beaten(sCoupling).alive = sCoupling.alive
    BY DEF Beaten, HandlerType, ServerSide, ServerTypeOK
  <2>3. ServerTypeOK' /\ SlotConsistent'
    BY <1>1, <1>3, <2>2 DEF OnHeartbeatEvent, ServerSide, ServerTypeOK, SlotConsistent, ToServer
  <2>4. QED
    BY <2>1, <2>3 DEF ServerSide
<1>4. CASE ServerOnAction
  <2>1. toClient' \in [Clients -> Seq(ToClient)]
    <3>1. CASE Head(sBuffer) = ActionRequest
      BY <1>1, <1>4, <3>1, MessageTypes, ServerWritesType
         DEF ServerOnAction, ServerSide, LinkTypeOK, ToClient
    <3>2. CASE Head(sBuffer) # ActionRequest
      BY <1>4, <3>2 DEF ServerOnAction, ServerSide, LinkTypeOK, ToClient
    <3>3. QED
      BY <3>1, <3>2
  <2>2. LinkTypeOK' /\ LoopTypeOK'
    BY <1>4, <2>1 DEF ServerOnAction, ServerSide, LinkTypeOK, LoopTypeOK, loopVars, ToClient
  <2>3. ServerTypeOK' /\ SlotConsistent'
    BY <1>1, <1>4 DEF ServerOnAction, ServerSide, ServerTypeOK, SlotConsistent, ToServer
  <2>4. QED
    BY <2>2, <2>3 DEF ServerSide
<1>5. QED
  BY <1>2, <1>3, <1>4

\* The sockets and the timer.
LEMMA NotifierType ==
    ASSUME ServerSide, NEW c \in Clients,
           ServerReadyRead(c) \/ ServerRemoteClosed(c) \/ ServerTimeout
    PROVE  ServerSide'
<1>1. CASE ServerReadyRead(c)
  <2>1. PICK r \in Reads(toServer[c]) :
            /\ sBuffer' = Whole(toServer[c], r)
            /\ toServer' = [toServer EXCEPT ![c] = Rest(toServer[c], r)]
            /\ CountLoss(r)
    BY <1>1 DEF ServerReadyRead
  <2>2. toServer[c] \in Seq(ToServer) /\ lost \in Nat
    BY DEF ServerSide, LinkTypeOK, ToServer
  <2>3. /\ Whole(toServer[c], r) \in Seq(ToServer)
        /\ Rest(toServer[c], r) \in Seq(ToServer)
        /\ lost' \in Nat
    BY <2>1, <2>2, ReadType
  <2>4. LinkTypeOK'
    BY <1>1, <2>1, <2>3 DEF ServerReadyRead, ServerSide, LinkTypeOK, ToServer
  <2>5. LoopTypeOK'
    BY <1>1, PostType, Domains DEF ServerReadyRead, Serve, ServerSide
  <2>6. ServerTypeOK' /\ SlotConsistent'
    BY <1>1, <2>1, <2>3 DEF ServerReadyRead, ServerSide, ServerTypeOK, SlotConsistent, ToServer
  <2>7. QED
    BY <2>4, <2>5, <2>6 DEF ServerSide
<1>2. CASE ServerRemoteClosed(c)
  <2>1. LinkTypeOK'
    BY <1>2 DEF ServerRemoteClosed, ServerSide, LinkTypeOK, ServerSocketStates
  <2>2. LoopTypeOK'
    BY <1>2, PostType, OneEvent, Domains DEF ServerRemoteClosed, Serve, ServerSide
  <2>3. ServerTypeOK' /\ SlotConsistent'
    BY <1>2 DEF ServerRemoteClosed, ServerSide, ServerTypeOK, SlotConsistent, serverVars
  <2>4. QED
    BY <2>1, <2>2, <2>3 DEF ServerSide
<1>3. CASE ServerTimeout
  <2>1. mSocket \in Clients
    BY <1>3 DEF ServerTimeout, ServerSide, ServerTypeOK, SlotConsistent
  <2>2. LoopTypeOK'
    BY <1>3, <2>1, PostType, OneEvent, Domains DEF ServerTimeout, Serve, ServerSide
  <2>3. LinkTypeOK' /\ ServerTypeOK' /\ SlotConsistent'
    BY <1>3 DEF ServerTimeout, ServerSide, LinkTypeOK, ServerTypeOK, SlotConsistent, linkVars, serverVars
  <2>4. QED
    BY <2>2, <2>3 DEF ServerSide
<1>4. QED
  BY <1>1, <1>2, <1>3

\* The queued slots.
LEMMA QueuedType ==
    ASSUME ServerSide, NEW c \in Clients,
           DropClient(c) \/ ServerOnCoupled(c) \/ CrashInOnCoupled(c) \/ DeleteSocket(c)
    PROVE  ServerSide'
<1>1. CASE DropClient(c)
  <2>1. LinkTypeOK'
    BY <1>1 DEF DropClient, ServerSide, LinkTypeOK, linkVars
  <2>2. LoopTypeOK'
    BY <1>1, DropSlotType, DeliverType, Domains DEF DropClient, Due, ServerSide
  <2>3. ServerTypeOK' /\ SlotConsistent'
    BY <1>1, DropSlotType DEF DropClient, ServerSide, ServerTypeOK
  <2>4. QED
    BY <2>1, <2>2, <2>3 DEF ServerSide
<1>2. CASE ServerOnCoupled(c)
  <2>1. LoopTypeOK'
    BY <1>2, DeliverType, Domains DEF ServerOnCoupled, Due, ServerSide
  <2>2. LinkTypeOK' /\ ServerTypeOK' /\ SlotConsistent'
    BY <1>2 DEF ServerOnCoupled, ServerSide, LinkTypeOK, ServerTypeOK, SlotConsistent, linkVars
  <2>3. QED
    BY <2>1, <2>2 DEF ServerSide
<1>3. CASE CrashInOnCoupled(c)
  BY <1>3, ShutdownType DEF CrashInOnCoupled
<1>4. CASE DeleteSocket(c)
  <2> DEFINE evs == IF sSocket[c] = "connected" THEN <<Event("disconnected", c)>> ELSE <<>>
  <2>1. evs \in Seq(Events)
    BY OneEvent, Domains
  <2>2. Deliver(Server, evs) /\ posted[Server] # <<>>
    BY <1>4 DEF DeleteSocket, Due
  <2>3. LoopTypeOK'
    <3> HIDE DEF evs
    <3>1. QED
      BY <2>1, <2>2, DeliverType, Domains DEF ServerSide
  <2>4. LinkTypeOK'
    BY <1>4 DEF DeleteSocket, ServerSide, LinkTypeOK, ServerSocketStates
  <2>5. ServerTypeOK' /\ SlotConsistent'
    BY <1>4 DEF DeleteSocket, ServerSide, ServerTypeOK, SlotConsistent
  <2>6. QED
    BY <2>3, <2>4, <2>5 DEF ServerSide
<1>5. QED
  BY <1>1, <1>2, <1>3, <1>4

\* The application.
LEMMA ApplicationType ==
    ASSUME ServerSide,
           UserDropClient \/ StopServer \/ StartServer \/ \E c \in Clients : ServerSendAction(c)
    PROVE  ServerSide'
<1>1. CASE UserDropClient
  <2>1. LoopTypeOK'
    BY <1>1, DropSlotType, PostType DEF UserDropClient, Serve, ServerSide, Processes, Sources
  <2>2. LinkTypeOK' /\ ServerTypeOK' /\ SlotConsistent'
    BY <1>1, DropSlotType DEF UserDropClient, ServerSide, LinkTypeOK, ServerTypeOK, linkVars
  <2>3. QED
    BY <2>1, <2>2 DEF ServerSide
<1>2. CASE StopServer
  BY <1>2, ShutdownType DEF StopServer
<1>3. CASE \E c \in Clients : ServerSendAction(c)
  <2>1. PICK c \in Clients : ServerSendAction(c)
    BY <1>3
  <2>2. toClient' \in [Clients -> Seq(ToClient)]
    BY <2>1, MessageTypes, ServerWritesType DEF ServerSendAction, ServerSide, LinkTypeOK, ToClient
  <2>3. QED
    BY <2>1, <2>2 DEF ServerSendAction, ServerSide, LinkTypeOK, LoopTypeOK, ServerTypeOK, SlotConsistent,
                      loopVars, serverVars, ToClient
<1>4. CASE StartServer
  BY <1>4 DEF StartServer, ServerSide, LinkTypeOK, LoopTypeOK, ServerTypeOK, SlotConsistent,
              loopVars, serverVars
<1>5. QED
  BY <1>1, <1>2, <1>3, <1>4

\* A step of the server keeps all types and the consistency of the slot.
LEMMA ServerStepType ==
    ASSUME TypeOK, SlotConsistent, ServerStep
    PROVE  TypeOK' /\ SlotConsistent'
<1>1. ServerSide
  BY DEF TypeOK, ServerSide
<1>2. ServerSide'
  <2>1. CASE ServerLoop
    <3>1. CASE CrashInRouter
      BY <1>1, <3>1, ShutdownType DEF CrashInRouter
    <3>2. CASE OnRequest \/ OnHeartbeatEvent \/ ServerOnAction
      BY <1>1, <3>2, ReceivingType
    <3>3. CASE \E c \in Clients : \/ Accept(c) \/ AbortExcess(c)
                                  \/ ServerReadyRead(c) \/ ServerRemoteClosed(c)
                                  \/ DropClient(c) \/ ServerOnCoupled(c)
                                  \/ CrashInOnCoupled(c) \/ DeleteSocket(c)
      BY <1>1, <3>3, AcceptType, NotifierType, QueuedType
    <3>4. QED
      BY <2>1, <3>1, <3>2, <3>3 DEF ServerLoop
  <2>2. CASE ServerTimeout
    <3>1. mSocket \in Clients
      BY <2>2 DEF ServerTimeout, TypeOK, ServerTypeOK, SlotConsistent
    <3>2. QED
      BY <1>1, <2>2, <3>1, NotifierType
  <2>3. CASE UserDropClient \/ StopServer \/ StartServer \/ \E c \in Clients : ServerSendAction(c)
    BY <1>1, <2>3, ApplicationType
  <2>4. QED
    BY <2>1, <2>2, <2>3 DEF ServerStep
<1>3. ClientTypeOK'
  BY DEF ServerStep, TypeOK, ClientTypeOK, clientVars
<1>4. QED
  BY <1>2, <1>3 DEF TypeOK, ServerSide

-------------------------------------------------------------------------------
\* The events that wait for the server.

\* What a queue holds when it grows at its end or loses its head.
LEMMA ElementsOfQueues ==
    ASSUME NEW s \in Seq(Events), NEW t \in Seq(Events)
    PROVE  /\ Elements(s \o t) = Elements(s) \cup Elements(t)
           /\ s # <<>> => Elements(s) = {Head(s)} \cup Elements(Tail(s))
           /\ Elements(<<>>) = {}
<1>1. Elements(s \o t) = Elements(s) \cup Elements(t)
  <2>1. \A e : e \in Elements(s \o t) => e \in Elements(s) \cup Elements(t)
    BY DEF Elements
  <2>2. \A e : e \in Elements(s) => e \in Elements(s \o t)
    BY DEF Elements
  <2>3. ASSUME NEW e \in Elements(t)
        PROVE  e \in Elements(s \o t)
    <3>1. PICK i \in DOMAIN t : t[i] = e
      BY DEF Elements
    <3>2. Len(s) + i \in DOMAIN (s \o t) /\ (s \o t)[Len(s) + i] = e
      BY <3>1
    <3>3. QED
      BY <3>2 DEF Elements
  <2>4. QED
    BY <2>1, <2>2, <2>3
<1>2. ASSUME s # <<>>
      PROVE  Elements(s) = {Head(s)} \cup Elements(Tail(s))
  <2>1. \A e : e \in Elements(Tail(s)) \cup {Head(s)} => e \in Elements(s)
    BY <1>2 DEF Elements
  <2>2. ASSUME NEW e \in Elements(s), e # Head(s)
        PROVE  e \in Elements(Tail(s))
    <3>1. PICK i \in DOMAIN s : s[i] = e
      BY DEF Elements
    <3>2. i - 1 \in DOMAIN Tail(s) /\ Tail(s)[i - 1] = e
      BY <1>2, <2>2, <3>1
    <3>3. QED
      BY <3>2 DEF Elements
  <2>3. QED
    BY <2>1, <2>2
<1>3. Elements(<<>>) = {}
  BY DEF Elements
<1>4. QED
  BY <1>1, <1>2, <1>3

\* The server's queue after a callback, and after a delivery, of the server.
LEMMA ServerQueue ==
    ASSUME LoopTypeOK, NEW evs \in Seq(Events)
    PROVE  /\ \A src : Post(Server, src, evs) =>
                  Elements(posted'[Server]) = Elements(posted[Server]) \cup Elements(evs)
           /\ Deliver(Server, evs) /\ posted[Server] # <<>> =>
                  Elements(posted[Server]) \cup Elements(evs) =
                      Elements(posted'[Server]) \cup {Head(posted[Server])}
           /\ Deliver(Server, evs) /\ posted[Server] # <<>> =>
                  Elements(evs) \subseteq Elements(posted'[Server])
<1> DEFINE q == posted[Server]
<1>1. q \in Seq(Events)
  BY DEF LoopTypeOK, Processes
<1>2. ASSUME NEW src, Post(Server, src, evs)
      PROVE  Elements(posted'[Server]) = Elements(q) \cup Elements(evs)
  <2>1. posted'[Server] = q \o evs
    BY <1>2 DEF Post, LoopTypeOK, Processes
  <2>2. QED
    BY <1>1, <2>1, ElementsOfQueues
<1>3. ASSUME Deliver(Server, evs), q # <<>>
      PROVE  /\ Elements(q) \cup Elements(evs) = Elements(posted'[Server]) \cup {Head(q)}
             /\ Elements(evs) \subseteq Elements(posted'[Server])
  <2>1. posted'[Server] = Tail(q) \o evs /\ Tail(q) \in Seq(Events)
    BY <1>1, <1>3 DEF Deliver, LoopTypeOK, Processes
  <2>2. Elements(posted'[Server]) = Elements(Tail(q)) \cup Elements(evs)
    BY <2>1, ElementsOfQueues
  <2>3. Elements(q) = {Head(q)} \cup Elements(Tail(q))
    BY <1>1, <1>3, ElementsOfQueues
  <2>4. QED
    BY <2>2, <2>3
<1>4. QED
  BY <1>2, <1>3

-------------------------------------------------------------------------------
\* No connection is forgotten.

Held(c) == sSocket[c] \in {"connected", "unconnected"}

\* A client neither opens nor closes the server's end, and posts nothing there.
LEMMA ClientLeavesServer ==
    ASSUME TypeOK, NEW c \in Clients, ClientStep(c)
    PROVE  /\ posted'[Server] = posted[Server]
           /\ mSocket' = mSocket
           /\ \A d \in Clients : Held(d)' => Held(d)
<1>1. /\ posted \in [Processes -> Seq(Events)]
      /\ sSocket \in [Clients -> ServerSocketStates]
      /\ c # Server
      /\ Server \in Processes
  BY DEF TypeOK, LoopTypeOK, LinkTypeOK, Processes
<1>2. /\ \A src, evs : Post(c, src, evs) => posted'[Server] = posted[Server]
      /\ \A evs : Deliver(c, evs) => posted'[Server] = posted[Server]
      /\ Forget(c) => posted'[Server] = posted[Server]
  BY <1>1 DEF Post, Deliver, Forget
<1>3. mSocket' = mSocket
  BY DEF ClientStep, serverVars
<1>4. CASE Established(c)
  BY <1>1, <1>2, <1>3, <1>4 DEF Established, Serve, Held
<1>5. CASE ConnectToHost(c) \/ Refused(c) \/ StartCoupling(c) \/ ClientReadyRead(c) \/ OnAdmitted(c)
  <2>1. sSocket' = sSocket
    BY <1>5 DEF ConnectToHost, Refused, StartCoupling, ClientReadyRead, OnAdmitted
  <2>2. posted'[Server] = posted[Server]
    BY <1>2, <1>5
       DEF ConnectToHost, Refused, StartCoupling, ClientReadyRead, OnAdmitted, Serve, loopVars
  <2>3. QED
    BY <1>3, <2>1, <2>2 DEF Held
<1>6. CASE OnConnectResponse(c) \/ OnRefusal(c) \/ ClientOnCoupled(c) \/ ClientRemoteClosed(c)
           \/ ClientTimers(c)
  <2>1. sSocket' = sSocket
    BY <1>6 DEF OnConnectResponse, OnRefusal, ClientOnCoupled, ClientRemoteClosed, ClientTimers,
                ClientTimeout, SendHeartbeat, HeartbeatFails, Fail, linkVars
  <2>2. posted'[Server] = posted[Server]
    BY <1>2, <1>6 DEF OnConnectResponse, OnRefusal, ClientOnCoupled, ClientRemoteClosed, ClientTimers,
                      ClientTimeout, SendHeartbeat, HeartbeatFails, Fail, Serve
  <2>3. QED
    BY <1>3, <2>1, <2>2 DEF Held
<1>7. CASE DisconnectFromHost(c) \/ UserDisconnect(c) \/ HostLost(c) \/ ClientCrash(c)
           \/ ClientOnAction(c) \/ ClientSendAction(c)
  <2>1. sSocket' = sSocket
    BY <1>7 DEF DisconnectFromHost, UserDisconnect, HostLost, ClientCrash, Vanish, ClientOnAction,
                ClientSendAction
  <2>2. posted'[Server] = posted[Server]
    BY <1>2, <1>7 DEF DisconnectFromHost, UserDisconnect, HostLost, ClientCrash, Vanish, ClientOnAction,
                      ClientSendAction, loopVars
  <2>3. QED
    BY <1>3, <2>1, <2>2 DEF Held
<1>8. QED
  BY <1>4, <1>5, <1>6, <1>7 DEF ClientStep, ClientLoop

\* A step of the server that opens no socket, leaves the slot with its holder
\* and keeps the deletions that wait forgets none.
LEMMA KeepsSockets ==
    ASSUME NoSocketLeak, mSocket' = mSocket,
           \A d \in Clients : Held(d)' => Held(d),
           \A d \in Clients : Held(d)' /\ Waits(Server, "delete", d) => Waits(Server, "delete", d)'
    PROVE  NoSocketLeak'
  BY DEF NoSocketLeak, Held

\* The slot is given up: its socket's deletion is posted with it.
LEMMA DropSlotKeepsSockets ==
    ASSUME TypeOK, NoSocketLeak, sSocket' = sSocket, DropSlot,
           \A d \in Clients : Waits(Server, "delete", d) => Waits(Server, "delete", d)',
           Elements(Deletion) \subseteq Elements(posted'[Server])
    PROVE  NoSocketLeak'
<1>1. ASSUME NEW d \in Clients, mSocket = d
      PROVE  Waits(Server, "delete", d)'
  <2>1. Deletion = <<Event("delete", d)>>
    BY <1>1 DEF Deletion
  <2>2. Event("delete", d) \in Elements(Deletion)
    BY <2>1 DEF Elements
  <2>3. QED
    BY <2>2 DEF Waits, Event
<1>2. QED
  BY <1>1 DEF NoSocketLeak

LEMMA ShutdownKeepsSockets ==
    ASSUME TypeOK, Shutdown
    PROVE  NoSocketLeak'
  BY DEF Shutdown, NoSocketLeak, TypeOK, LinkTypeOK

\* Every step of the server.
LEMMA ServerStepKeepsSockets ==
    ASSUME TypeOK, SlotConsistent, NoSocketLeak, ServerStep
    PROVE  NoSocketLeak'
<1>1. /\ sSocket \in [Clients -> ServerSocketStates]
      /\ LoopTypeOK
      /\ posted[Server] \in Seq(Events)
      /\ <<>> \in Seq(Events)
  BY DEF TypeOK, LinkTypeOK, LoopTypeOK, Processes
<1>2. ASSUME NEW src, NEW evs \in Seq(Events), Post(Server, src, evs), NEW d
      PROVE  Waits(Server, "delete", d) => Waits(Server, "delete", d)'
  BY <1>1, <1>2, ServerQueue DEF Waits, Event
<1>3. ASSUME NEW evs \in Seq(Events), Deliver(Server, evs), NEW ev, NEW c, Due(Server, ev, c), NEW d,
             ev # "delete" \/ c # d
      PROVE  Waits(Server, "delete", d) => Waits(Server, "delete", d)'
  <2>1. Head(posted[Server]) # Event("delete", d)
    BY <1>3 DEF Due, Event
  <2>2. posted[Server] # <<>>
    BY <1>3 DEF Due
  <2>3. Elements(posted[Server]) \subseteq Elements(posted'[Server]) \cup {Head(posted[Server])}
    BY <1>1, <1>3, <2>2, ServerQueue
  <2>4. Waits(Server, "delete", d) <=> Event("delete", d) \in Elements(posted[Server])
    BY DEF Waits
  <2>5. Waits(Server, "delete", d)' <=> Event("delete", d) \in Elements(posted'[Server])
    BY DEF Waits, Event
  <2>6. QED
    BY <2>1, <2>3, <2>4, <2>5
<1>4. CASE \E c \in Clients : Accept(c)
  BY <1>1, <1>4 DEF Accept, NoSocketLeak, SlotConsistent, Waits, Event, loopVars
<1>5. CASE \E c \in Clients : AbortExcess(c)
  BY <1>1, <1>5 DEF AbortExcess, NoSocketLeak, Waits, Event, loopVars, serverVars
<1>6. CASE \E c \in Clients : ServerReadyRead(c)
  BY <1>1, <1>2, <1>6, KeepsSockets DEF ServerReadyRead, Serve, Held
<1>7. CASE \E c \in Clients : ServerRemoteClosed(c)
  <2>1. PICK c \in Clients : ServerRemoteClosed(c)
    BY <1>7
  <2>2. /\ Post(Server, c, <<Event("disconnected", c)>>)
        /\ <<Event("disconnected", c)>> \in Seq(Events)
    BY <2>1, OneEvent, Domains DEF ServerRemoteClosed, Serve
  <2>3. \A d \in Clients : Held(d)' => Held(d)
    BY <1>1, <2>1 DEF ServerRemoteClosed, Held
  <2>4. QED
    BY <1>2, <2>1, <2>2, <2>3, KeepsSockets DEF ServerRemoteClosed, serverVars
<1>8. CASE \E c \in Clients : DropClient(c)
  <2>1. PICK c \in Clients : DropClient(c)
    BY <1>8
  <2>2. Deletion \in Seq(Events)
    BY DropSlotType DEF TypeOK, ServerSide
  <2>3. \A d \in Clients : Waits(Server, "delete", d) => Waits(Server, "delete", d)'
    BY <1>3, <2>1, <2>2 DEF DropClient
  <2>4. Elements(Deletion) \subseteq Elements(posted'[Server])
    BY <1>1, <2>1, <2>2, ServerQueue DEF DropClient, Due
  <2>5. QED
    BY <2>1, <2>3, <2>4, DropSlotKeepsSockets DEF DropClient, linkVars
<1>9. CASE \E c \in Clients : ServerOnCoupled(c)
  <2>1. PICK c \in Clients : ServerOnCoupled(c)
    BY <1>9
  <2>2. \A d \in Clients : Waits(Server, "delete", d) => Waits(Server, "delete", d)'
    <3>1. Deliver(Server, <<>>) /\ Due(Server, "coupled", c)
      BY <2>1 DEF ServerOnCoupled
    <3>2. "coupled" # "delete"
      OBVIOUS
    <3>3. QED
      BY <1>1, <1>3, <3>1, <3>2
  <2>3. QED
    BY <2>1, <2>2, KeepsSockets DEF ServerOnCoupled, Held, linkVars
<1>10. CASE (\E c \in Clients : CrashInOnCoupled(c)) \/ CrashInRouter \/ StopServer
  BY <1>10, ShutdownKeepsSockets DEF CrashInOnCoupled, CrashInRouter, StopServer
<1>11. CASE \E c \in Clients : DeleteSocket(c)
  <2>1. PICK c \in Clients : DeleteSocket(c)
    BY <1>11
  <2> DEFINE evs == IF sSocket[c] = "connected" THEN <<Event("disconnected", c)>> ELSE <<>>
  <2>2. evs \in Seq(Events)
    BY OneEvent, Domains
  <2>3. Deliver(Server, evs) /\ Due(Server, "delete", c)
    BY <2>1 DEF DeleteSocket
  <2> HIDE DEF evs
  <2>4. \A d \in Clients : d # c =>
            (Waits(Server, "delete", d) => Waits(Server, "delete", d)')
    BY <1>3, <2>2, <2>3
  <2>5. \A d \in Clients : Held(d)' => d # c /\ Held(d)
    BY <1>1, <2>1 DEF DeleteSocket, Held
  <2>6. QED
    BY <2>1, <2>4, <2>5, KeepsSockets DEF DeleteSocket
<1>12. CASE OnRequest
  <2>1. PICK evs \in Seq(Events) : Post(Server, sDevice, evs)
    <3>1. sDevice \in Clients
      BY <1>12 DEF OnRequest, Receiving, TypeOK, ServerTypeOK
    <3>2. QED
      BY <1>12, <3>1, OneEvent, Domains DEF OnRequest
  <2>2. QED
    BY <1>2, <1>12, <2>1, KeepsSockets DEF OnRequest, Held
<1>13. CASE OnHeartbeatEvent \/ ServerOnAction \/ StartServer \/ \E c \in Clients : ServerSendAction(c)
  BY <1>13 DEF OnHeartbeatEvent, ServerOnAction, StartServer, ServerSendAction, NoSocketLeak, Waits, Event, loopVars,
               linkVars, serverVars
<1>14. CASE ServerTimeout
  <2>1. /\ Post(Server, "timer", <<Event("failed", mSocket)>>)
        /\ <<Event("failed", mSocket)>> \in Seq(Events)
    BY <1>14, OneEvent, Domains DEF ServerTimeout, Serve, TypeOK, ServerTypeOK, SlotConsistent
  <2>2. QED
    BY <1>2, <1>14, <2>1, KeepsSockets DEF ServerTimeout, Held, linkVars, serverVars
<1>15. CASE UserDropClient
  <2>1. Deletion \in Seq(Events)
    BY DropSlotType DEF TypeOK, ServerSide
  <2>2. Post(Server, "app", Deletion)
    BY <1>15 DEF UserDropClient, Serve
  <2>3. Elements(Deletion) \subseteq Elements(posted'[Server])
    BY <1>1, <2>1, <2>2, ServerQueue
  <2>4. QED
    BY <1>2, <1>15, <2>1, <2>2, <2>3, DropSlotKeepsSockets DEF UserDropClient, linkVars
<1>16. QED
  BY <1>4, <1>5, <1>6, <1>7, <1>8, <1>9, <1>10, <1>11, <1>12, <1>13, <1>14, <1>15
     DEF ServerStep, ServerLoop

-------------------------------------------------------------------------------
\* The initial state has all types, a free slot and no connection.
LEMMA InitEstablishes == Init => IInv
<1> SUFFICES ASSUME Init PROVE IInv
  OBVIOUS
<1>1. LinkTypeOK /\ LoopTypeOK /\ ClientTypeOK
  BY DEF Init, LinkInit, LoopInit, ClientInit, LinkTypeOK, LoopTypeOK, ClientTypeOK,
         ClientSocketStates, ServerSocketStates
<1>2. ServerTypeOK
  <2>1. sBuffer \in Seq(Requests \cup {ActionResponse})
    BY DEF Init, ServerInit
  <2>2. sCoupling \in HandlerType
    BY HandlerMade DEF Init, ServerInit
  <2>3. QED
    BY <2>1, <2>2 DEF Init, ServerInit, ServerTypeOK
<1>3. SlotConsistent
  BY HandlerMade DEF Init, ServerInit, SlotConsistent
<1>4. NoSocketLeak
  BY DEF Init, LinkInit, NoSocketLeak
<1>5. QED
  BY <1>1, <1>2, <1>3, <1>4 DEF IInv, TypeOK

\* Every step keeps the invariant, whoever takes it.
LEMMA NextPreserves == IInv /\ [Next]_vars => IInv'
<1> SUFFICES ASSUME IInv, [Next]_vars PROVE IInv'
  OBVIOUS
<1>1. CASE \E c \in Clients : ClientStep(c)
  <2>1. PICK c \in Clients : ClientStep(c)
    BY <1>1
  <2>2. TypeOK'
    BY <2>1, ClientStepType DEF IInv
  <2>3. SlotConsistent'
    BY <2>1 DEF ClientStep, IInv, SlotConsistent, serverVars
  <2>4. NoSocketLeak'
    BY <2>1, ClientLeavesServer, KeepsSockets DEF IInv, Waits, Event
  <2>5. QED
    BY <2>2, <2>3, <2>4 DEF IInv
<1>2. CASE ServerStep
  BY <1>2, ServerStepType, ServerStepKeepsSockets DEF IInv
<1>3. CASE UNCHANGED vars
  <2>1. TypeOK'
    BY <1>3 DEF IInv, TypeOK, LinkTypeOK, LoopTypeOK, ClientTypeOK, ServerTypeOK, vars, linkVars,
                loopVars, clientVars, serverVars
  <2>2. SlotConsistent' /\ NoSocketLeak'
    BY <1>3 DEF IInv, SlotConsistent, NoSocketLeak, Waits, Event, vars, linkVars, loopVars, serverVars
  <2>3. QED
    BY <2>1, <2>2 DEF IInv
<1>4. QED
  BY <1>1, <1>2, <1>3 DEF Next

\* The invariant holds in every state, for every number of clients.
THEOREM InductiveInvariant == Spec => []IInv
<1>1. Init => IInv
  BY InitEstablishes
<1>2. IInv /\ [Next]_vars => IInv'
  BY NextPreserves
<1>3. QED
  BY <1>1, <1>2, PTL DEF Spec

\* Every variable of the communication layer keeps its type: in particular no
\* event names a session without a client.
THEOREM TypeCorrect == Spec => []TypeOK
  BY InductiveInvariant, PTL DEF IInv

\* However clients, timers, queued signals and the application interleave, the
\* server's slot is free or taken as a whole: a coupling handler exists exactly
\* while a socket holds the slot, an action handler only beside it.
THEOREM SlotStaysConsistent == Spec => []SlotConsistent
  BY InductiveInvariant, PTL DEF IInv

\* However sessions begin and end, dropClient() by the application included,
\* the server forgets no accepted connection: its socket holds the slot or its
\* deleteLater() is posted.
THEOREM NoConnectionForgotten == Spec => []NoSocketLeak
  BY InductiveInvariant, PTL DEF IInv
===============================================================================
