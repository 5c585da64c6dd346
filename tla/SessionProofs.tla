----------------------------- MODULE SessionProofs -----------------------------
(***************************************************************************)
(* Proofs about the sessions of the communication layer, in layers, each   *)
(* an invariant of its own that uses the ones before it:                   *)
(*   TurnInv      client and server take turns in a coupling;              *)
(*   ClientInv    a client's queued signals find its objects as asserted,  *)
(*                and the signal that takes it further is queued;          *)
(*   CouplingInv  what is under way, and what the client believes, fits    *)
(*                what the server's handler has granted;                   *)
(*   SlotOpenInv  the slot is held by an open socket, or its end waits;    *)
(*   RoutedInv    a client has the handlers for what is under way to it;   *)
(*   SessionInv   one session's events and messages never meet another,    *)
(*                as long as the application drops no client;              *)
(*   GrantedInv   the history of the grants tells who was ever coupled.    *)
(* Then the layer with its history is shown to implement SessionService,   *)
(* and, by PassInv, a session to couple only when no event waits for the   *)
(* server.                                                                 *)
(***************************************************************************)
EXTENDS SessionHistory, CommunicationProofs

USE ServerAssumption, LinkAssumption, NoneAssumption, ActorsAssumption, PortsAssumption,
    NoPortAssumption

-------------------------------------------------------------------------------
\* The requests and the responses of a coupling among the messages of a queue:
\* there is none, or there is one at most.
Quiet(q)  == \A i \in DOMAIN q : q[i].step \notin Steps
Single(q) == \A i, j \in DOMAIN q : q[i].step \in Steps /\ q[j].step \in Steps => i = j

\* p has no more of them than q.
Thins(q, p) == (Quiet(q) => Quiet(p)) /\ (Single(q) => Single(p))

LEMMA QuietIsSingle == \A q : Quiet(q) => Single(q)
  BY DEF Quiet, Single

LEMMA NoMessage == Quiet(<<>>)
  BY DEF Quiet

LEMMA SameQueueThins == \A q : Thins(q, q) /\ Thins(q, <<>>)
  BY DEF Thins, Quiet, Single

\* A message is sent.
LEMMA AppendThins ==
    ASSUME NEW S, NEW q \in Seq(S), NEW m \in S
    PROVE  /\ m.step \notin Steps => Thins(q, Append(q, m))
           /\ Quiet(q) => Single(Append(q, m))
  BY DEF Thins, Quiet, Single

\* A message is taken from the head.
LEMMA TailThins ==
    ASSUME NEW S, NEW q \in Seq(S), q # <<>>
    PROVE  /\ Thins(q, Tail(q))
           /\ Quiet(q) => Head(q).step \notin Steps
           /\ Single(q) /\ Head(q).step \in Steps => Quiet(Tail(q))
<1> DEFINE t == Tail(q)
<1>1. /\ Len(q) \in Nat /\ Len(q) > 0
      /\ DOMAIN q = 1..Len(q)
      /\ DOMAIN t = 1..(Len(q) - 1)
      /\ \A i \in DOMAIN t : i + 1 \in DOMAIN q /\ t[i] = q[i + 1]
      /\ Head(q) = q[1] /\ 1 \in DOMAIN q
  OBVIOUS
<1> HIDE DEF t
<1>2. Quiet(q) => Quiet(t) /\ Head(q).step \notin Steps
  BY <1>1 DEF Quiet
<1>3. ASSUME Single(q)
      PROVE  Single(t) /\ (Head(q).step \in Steps => Quiet(t))
  <2>1. ASSUME NEW i \in DOMAIN t, NEW j \in DOMAIN t, t[i].step \in Steps, t[j].step \in Steps
        PROVE  i = j
    <3>1. i + 1 = j + 1
      BY <1>1, <1>3, <2>1 DEF Single
    <3>2. QED
      BY <1>1, <3>1
  <2>2. ASSUME Head(q).step \in Steps, NEW i \in DOMAIN t, t[i].step \in Steps
        PROVE  FALSE
    <3>1. i + 1 = 1
      BY <1>1, <1>3, <2>2 DEF Single
    <3>2. QED
      BY <1>1, <3>1
  <2>3. QED
    BY <2>1, <2>2 DEF Single, Quiet
<1>4. QED
  BY <1>2, <1>3 DEF Thins, t

\* What a read takes, and what it leaves: a message is in one of the two.
LEMMA ReadThins ==
    ASSUME NEW S, NEW q \in Seq(S), NEW r \in Reads(q)
    PROVE  /\ Thins(q, Whole(q, r))
           /\ Thins(q, Rest(q, r))
           /\ Single(q) => Quiet(Whole(q, r)) \/ Quiet(Rest(q, r))
<1> DEFINE w == Whole(q, r)
           t == Rest(q, r)
           n == Consumed(r)
<1>1. /\ Len(q) \in Nat /\ DOMAIN q = 1..Len(q)
      /\ r.whole \in 0..Len(q)
      /\ n \in 1..Len(q)
      /\ n >= r.whole
  BY DEF Reads, Consumed
<1>2. /\ DOMAIN w = 1..r.whole
      /\ \A i \in DOMAIN w : i \in DOMAIN q /\ w[i] = q[i]
  BY <1>1 DEF Whole
<1>3. /\ DOMAIN t = 1..(Len(q) - n)
      /\ \A i \in DOMAIN t : i + n \in DOMAIN q /\ t[i] = q[i + n]
  BY <1>1 DEF Rest
<1> HIDE DEF w, t, n
<1>4. Thins(q, w)
  BY <1>2 DEF Thins, Quiet, Single
<1>5. Thins(q, t)
  <2>1. Quiet(q) => Quiet(t)
    BY <1>3 DEF Quiet
  <2>2. ASSUME Single(q), NEW i \in DOMAIN t, NEW j \in DOMAIN t, t[i].step \in Steps, t[j].step \in Steps
        PROVE  i = j
    <3>1. i + n = j + n
      BY <1>3, <2>2 DEF Single
    <3>2. QED
      BY <1>1, <1>3, <3>1
  <2>3. QED
    BY <2>1, <2>2 DEF Thins, Single
<1>6. ASSUME Single(q), ~Quiet(w), ~Quiet(t)
      PROVE  FALSE
  <2>1. PICK i \in DOMAIN w : w[i].step \in Steps
    BY <1>6 DEF Quiet
  <2>2. PICK j \in DOMAIN t : t[j].step \in Steps
    BY <1>6 DEF Quiet
  <2>3. i = j + n
    BY <1>2, <1>3, <1>6, <2>1, <2>2 DEF Single
  <2>4. QED
    BY <1>1, <1>2, <1>3, <2>1, <2>2, <2>3
<1>7. QED
  BY <1>4, <1>5, <1>6 DEF w, t

\* The messages that a queue holds after an operation.
LEMMA MessagesOfQueues ==
    ASSUME NEW S, NEW q \in Seq(S)
    PROVE  /\ \A m \in S : Elements(Append(q, m)) = Elements(q) \cup {m}
           /\ q # <<>> => Head(q) \in Elements(q) /\ Elements(Tail(q)) \subseteq Elements(q)
           /\ \A r \in Reads(q) : /\ Elements(Whole(q, r)) \subseteq Elements(q)
                                  /\ Elements(Rest(q, r)) \subseteq Elements(q)
           /\ Elements(<<>>) = {}
           /\ Elements(q) \subseteq S
<1>1. ASSUME NEW m \in S
      PROVE  Elements(Append(q, m)) = Elements(q) \cup {m}
  <2> DEFINE a == Append(q, m)
  <2>1. /\ Len(q) \in Nat /\ DOMAIN q = 1..Len(q)
        /\ DOMAIN a = 1..(Len(q) + 1)
        /\ \A i \in DOMAIN q : a[i] = q[i]
        /\ a[Len(q) + 1] = m
    OBVIOUS
  <2> HIDE DEF a
  <2>2. ASSUME NEW e \in Elements(a)
        PROVE  e \in Elements(q) \cup {m}
    <3>1. PICK i \in DOMAIN a : e = a[i]
      BY DEF Elements
    <3>2. i \in DOMAIN q \/ i = Len(q) + 1
      BY <2>1
    <3>3. QED
      BY <2>1, <3>1, <3>2 DEF Elements
  <2>3. ASSUME NEW e \in Elements(q) \cup {m}
        PROVE  e \in Elements(a)
    <3>1. PICK i \in DOMAIN a : e = a[i]
      <4>1. CASE e = m
        BY <2>1, <4>1
      <4>2. CASE e \in Elements(q)
        BY <2>1, <4>2 DEF Elements
      <4>3. QED
        BY <4>1, <4>2
    <3>2. QED
      BY <3>1 DEF Elements
  <2>4. QED
    BY <2>2, <2>3 DEF a
<1>2. ASSUME q # <<>>
      PROVE  Head(q) \in Elements(q) /\ Elements(Tail(q)) \subseteq Elements(q)
  BY <1>2 DEF Elements
<1>3. ASSUME NEW r \in Reads(q)
      PROVE  /\ Elements(Whole(q, r)) \subseteq Elements(q)
             /\ Elements(Rest(q, r)) \subseteq Elements(q)
  <2>1. /\ Len(q) \in Nat /\ DOMAIN q = 1..Len(q)
        /\ r.whole \in 0..Len(q)
        /\ Consumed(r) \in 1..Len(q)
    BY DEF Reads
  <2>2. \A i \in DOMAIN Whole(q, r) : i \in DOMAIN q /\ Whole(q, r)[i] = q[i]
    BY <2>1 DEF Whole
  <2>3. \A i \in DOMAIN Rest(q, r) : i + Consumed(r) \in DOMAIN q /\ Rest(q, r)[i] = q[i + Consumed(r)]
    BY <2>1 DEF Rest
  <2>4. QED
    BY <2>2, <2>3 DEF Elements
<1>4. Elements(<<>>) = {} /\ Elements(q) \subseteq S
  BY DEF Elements
<1>5. QED
  BY <1>1, <1>2, <1>3, <1>4

-------------------------------------------------------------------------------
\* A client's step and the state of another client.
LEMMA ClientLeavesOthers ==
    ASSUME TypeOK, NEW c \in Clients, ClientStep(c), NEW d \in Clients, d # c
    PROVE  /\ cSocket'[d] = cSocket[d] /\ sSocket'[d] = sSocket[d]
           /\ toServer'[d] = toServer[d] /\ toClient'[d] = toClient[d]
           /\ cBuffer'[d] = cBuffer[d]
           /\ cCoupling'[d] = cCoupling[d] /\ cActions'[d] = cActions[d]
           /\ posted'[d] = posted[d] /\ served'[d] = served[d]
<1>1. /\ posted \in [Processes -> Seq(Events)] /\ served \in [Processes -> SUBSET Sources]
      /\ cSocket \in [Clients -> ClientSocketStates]
      /\ sSocket \in [Clients -> ServerSocketStates]
      /\ toServer \in [Clients -> Seq(ToServer)]
      /\ toClient \in [Clients -> Seq(ToClient)]
      /\ cBuffer \in [Clients -> Seq(ToClient)]
      /\ cCoupling \in [Clients -> {"none", "waiting", "coupled"}]
      /\ cActions \in [Clients -> BOOLEAN]
      /\ c \in Processes /\ d \in Processes
  BY DEF TypeOK, LoopTypeOK, LinkTypeOK, ClientTypeOK, Processes, ToServer, ToClient
<1>2. /\ \A src, evs : Post(c, src, evs) => posted'[d] = posted[d] /\ served'[d] = served[d]
      /\ \A evs : Deliver(c, evs) => posted'[d] = posted[d] /\ served'[d] = served[d]
      /\ Forget(c) => posted'[d] = posted[d] /\ served'[d] = served[d]
  BY <1>1 DEF Post, Deliver, Forget
<1>3. \A m : ClientWrites(c, m) => toServer'[d] = toServer[d]
  BY <1>1 DEF ClientWrites
<1>4. CASE ConnectToHost(c) \/ Established(c) \/ Refused(c) \/ StartCoupling(c)
  BY <1>1, <1>2, <1>3, <1>4 DEF ConnectToHost, Established, Refused, StartCoupling, Serve, clientVars, loopVars
<1>5. CASE ClientReadyRead(c)
  BY <1>1, <1>2, <1>5 DEF ClientReadyRead, Serve
<1>6. CASE OnAdmitted(c) \/ OnConnectResponse(c)
  BY <1>1, <1>2, <1>3, <1>6 DEF OnAdmitted, OnConnectResponse, NextMessage, loopVars
<1>7. CASE OnRefusal(c) \/ ClientTimeout(c) \/ HeartbeatFails(c)
  BY <1>1, <1>2, <1>7 DEF OnRefusal, ClientTimeout, HeartbeatFails, Fail
<1>8. CASE ClientOnCoupled(c) \/ ClientRemoteClosed(c)
  BY <1>1, <1>2, <1>8 DEF ClientOnCoupled, ClientRemoteClosed, Serve, linkVars, clientVars
<1>9. CASE DisconnectFromHost(c) \/ UserDisconnect(c) \/ HostLost(c) \/ ClientCrash(c)
  BY <1>1, <1>2, <1>9 DEF DisconnectFromHost, UserDisconnect, HostLost, ClientCrash, Vanish
<1>10. CASE SendHeartbeat(c) \/ ClientSendAction(c) \/ ClientOnAction(c)
  BY <1>1, <1>2, <1>3, <1>10
     DEF SendHeartbeat, ClientSendAction, ClientOnAction, NextMessage, Serve, clientVars, loopVars
<1>11. QED
  BY <1>4, <1>5, <1>6, <1>7, <1>8, <1>9, <1>10 DEF ClientStep, ClientLoop, ClientTimers

\* The server's step and the state of a client.
LEMMA ServerLeavesClients ==
    ASSUME TypeOK, ServerStep, NEW d \in Clients
    PROVE  /\ cSocket' = cSocket /\ cBuffer' = cBuffer
           /\ cCoupling' = cCoupling /\ cActions' = cActions
           /\ posted'[d] = posted[d] /\ served'[d] = served[d]
<1>1. /\ posted \in [Processes -> Seq(Events)] /\ served \in [Processes -> SUBSET Sources]
      /\ d \in Processes /\ d # Server
  BY DEF TypeOK, LoopTypeOK, Processes
<1>2. /\ \A src, evs : Post(Server, src, evs) => posted'[d] = posted[d] /\ served'[d] = served[d]
      /\ \A evs : Deliver(Server, evs) => posted'[d] = posted[d] /\ served'[d] = served[d]
      /\ Forget(Server) => posted'[d] = posted[d] /\ served'[d] = served[d]
  BY <1>1 DEF Post, Deliver, Forget
<1>3. cBuffer' = cBuffer /\ cCoupling' = cCoupling /\ cActions' = cActions
  BY DEF ServerStep, clientVars
<1>4. CASE \E c \in Clients : \/ Accept(c) \/ AbortExcess(c) \/ ServerReadyRead(c)
                              \/ ServerRemoteClosed(c)
  BY <1>2, <1>3, <1>4 DEF Accept, AbortExcess, ServerReadyRead, ServerRemoteClosed, Serve, loopVars
<1>5. CASE \E c \in Clients : \/ DropClient(c) \/ ServerOnCoupled(c) \/ DeleteSocket(c)
                              \/ ServerSendAction(c)
  BY <1>2, <1>3, <1>5 DEF DropClient, ServerOnCoupled, DeleteSocket, ServerSendAction, linkVars, loopVars
<1>6. CASE \/ \E c \in Clients : CrashInOnCoupled(c)
           \/ CrashInRouter \/ StopServer
  BY <1>2, <1>3, <1>6 DEF CrashInOnCoupled, CrashInRouter, StopServer, Shutdown
<1>7. CASE OnRequest
  BY <1>2, <1>3, <1>7 DEF OnRequest
<1>8. CASE OnHeartbeatEvent \/ ServerOnAction \/ ServerTimeout \/ UserDropClient \/ StartServer
  BY <1>2, <1>3, <1>8 DEF OnHeartbeatEvent, ServerOnAction, ServerTimeout, UserDropClient, StartServer, Serve,
                          linkVars, loopVars
<1>9. QED
  BY <1>4, <1>5, <1>6, <1>7, <1>8 DEF ServerStep, ServerLoop

-------------------------------------------------------------------------------
\* The messages of c that the server has read and not yet handled.
InHand(c) == IF sDevice = c THEN sBuffer ELSE <<>>

Gone(c) == cSocket[c] \in {"gone", "lost"}

\* Nothing of a coupling is under way between c and the server.
Silent(c) == /\ Quiet(toServer[c]) /\ Quiet(InHand(c))
             /\ Quiet(toClient[c]) /\ Quiet(cBuffer[c])

\* Client and server take turns: of the requests and responses of a coupling,
\* at most one is under way, and none unless the client waits for it.
OneUnderWay(c) ==
    \/ Single(toServer[c]) /\ Quiet(InHand(c)) /\ Quiet(toClient[c]) /\ Quiet(cBuffer[c])
    \/ Quiet(toServer[c]) /\ Single(InHand(c)) /\ Quiet(toClient[c]) /\ Quiet(cBuffer[c])
    \/ Quiet(toServer[c]) /\ Quiet(InHand(c)) /\ Single(toClient[c]) /\ Quiet(cBuffer[c])
    \/ Quiet(toServer[c]) /\ Quiet(InHand(c)) /\ Quiet(toClient[c]) /\ Single(cBuffer[c])

Turn(c) == OneUnderWay(c) /\ (cCoupling[c] # "waiting" /\ ~Gone(c) => Silent(c))

\* An object that is gone has nothing left.
Departed(c) == Gone(c) => cBuffer[c] = <<>> /\ cCoupling[c] = "none"

TurnInv == \A c \in Clients : Turn(c) /\ Departed(c)

\* A step that adds nothing of a coupling keeps the turn.
LEMMA TurnKept ==
    ASSUME NEW d \in Clients, Turn(d),
           Thins(toServer[d], toServer'[d]), Thins(InHand(d), InHand(d)'),
           Thins(toClient[d], toClient'[d]), Thins(cBuffer[d], cBuffer'[d]),
           cCoupling'[d] # "waiting" /\ ~Gone(d)' => cCoupling[d] # "waiting" /\ ~Gone(d)
    PROVE  Turn(d)'
<1>1. OneUnderWay(d)'
  BY DEF Turn, OneUnderWay, Thins
<1>2. Silent(d) => Silent(d)'
  BY DEF Silent, Thins
<1>3. QED
  BY <1>1, <1>2 DEF Turn

\* What the types say of the queues and the sockets.
LEMMA QueueTypes ==
    ASSUME TypeOK
    PROVE  /\ toServer \in [Clients -> Seq(ToServer)]
           /\ toClient \in [Clients -> Seq(ToClient)]
           /\ cBuffer \in [Clients -> Seq(ToClient)]
           /\ sBuffer \in Seq(ToServer)
           /\ cSocket \in [Clients -> ClientSocketStates]
           /\ sSocket \in [Clients -> ServerSocketStates]
           /\ cCoupling \in [Clients -> {"none", "waiting", "coupled"}]
           /\ cActions \in [Clients -> BOOLEAN]
           /\ \A c \in Clients : InHand(c) \in Seq(ToServer)
  BY DEF TypeOK, LinkTypeOK, ClientTypeOK, ServerTypeOK, ToServer, ToClient, InHand

\* Heartbeats and actions are no part of a coupling.
LEMMA OtherMessages ==
    /\ HeartbeatEvent.step \notin Steps /\ ActionRequest.step \notin Steps
    /\ ActionResponse.step \notin Steps
    /\ HeartbeatEvent \in ToServer /\ ActionRequest \in ToServer /\ ActionResponse \in ToServer
    /\ ActionRequest \in ToClient /\ ActionResponse \in ToClient
<1>1. /\ HeartbeatEvent.step \notin Steps
      /\ ActionRequest.step \notin Steps
      /\ ActionResponse.step \notin Steps
  BY DEF HeartbeatEvent, ActionRequest, ActionResponse, Request, Response, Steps
<1>2. QED
  BY <1>1, MessageTypes

\* A write of such a message.
LEMMA WritesThin ==
    ASSUME TypeOK, NEW c \in Clients
    PROVE  /\ \A m \in ToServer : m.step \notin Steps /\ ClientWrites(c, m) =>
                  \A d \in Clients : Thins(toServer[d], toServer'[d])
           /\ \A m \in ToClient : m.step \notin Steps /\ ServerWrites(c, m) =>
                  \A d \in Clients : Thins(toClient[d], toClient'[d])
<1>1. ASSUME NEW m \in ToServer, m.step \notin Steps, ClientWrites(c, m), NEW d \in Clients
      PROVE  Thins(toServer[d], toServer'[d])
  <2>1. toServer'[d] = toServer[d] \/ toServer'[d] = Append(toServer[d], m)
    BY <1>1, QueueTypes DEF ClientWrites
  <2>2. toServer[d] \in Seq(ToServer)
    BY QueueTypes
  <2>3. Thins(toServer[d], Append(toServer[d], m))
    BY <1>1, <2>2, AppendThins
  <2>4. QED
    BY <2>1, <2>3, SameQueueThins
<1>2. ASSUME NEW m \in ToClient, m.step \notin Steps, ServerWrites(c, m), NEW d \in Clients
      PROVE  Thins(toClient[d], toClient'[d])
  <2>1. toClient'[d] = toClient[d] \/ toClient'[d] = Append(toClient[d], m)
    BY <1>2, QueueTypes DEF ServerWrites
  <2>2. toClient[d] \in Seq(ToClient)
    BY QueueTypes
  <2>3. Thins(toClient[d], Append(toClient[d], m))
    BY <1>2, <2>2, AppendThins
  <2>4. QED
    BY <2>1, <2>3, SameQueueThins
<1>3. QED
  BY <1>1, <1>2

\* A read moves what is under way, or loses it.
LEMMA ReadKeepsTurn ==
    ASSUME TypeOK, NEW c \in Clients, Turn(c),
           cCoupling'[c] = cCoupling[c], cSocket'[c] = cSocket[c],
           \/ /\ cBuffer[c] = <<>> /\ toServer'[c] = toServer[c] /\ InHand(c)' = InHand(c)
              /\ \E r \in Reads(toClient[c]) : /\ cBuffer'[c] = Whole(toClient[c], r)
                                               /\ toClient'[c] = Rest(toClient[c], r)
           \/ /\ InHand(c) = <<>> /\ toClient'[c] = toClient[c] /\ cBuffer'[c] = cBuffer[c]
              /\ \E r \in Reads(toServer[c]) : /\ InHand(c)' = Whole(toServer[c], r)
                                               /\ toServer'[c] = Rest(toServer[c], r)
    PROVE  Turn(c)'
<1>1. CASE /\ cBuffer[c] = <<>> /\ toServer'[c] = toServer[c] /\ InHand(c)' = InHand(c)
           /\ \E r \in Reads(toClient[c]) : /\ cBuffer'[c] = Whole(toClient[c], r)
                                            /\ toClient'[c] = Rest(toClient[c], r)
  <2>1. PICK r \in Reads(toClient[c]) : /\ cBuffer'[c] = Whole(toClient[c], r)
                                        /\ toClient'[c] = Rest(toClient[c], r)
    BY <1>1
  <2>2. /\ Thins(toClient[c], cBuffer'[c])
        /\ Thins(toClient[c], toClient'[c])
        /\ Single(toClient[c]) => Quiet(cBuffer'[c]) \/ Quiet(toClient'[c])
    BY <2>1, QueueTypes, ReadThins
  <2>3. QED
    BY <1>1, <2>2, NoMessage, QuietIsSingle DEF Turn, OneUnderWay, Silent, Thins, Gone
<1>2. CASE /\ InHand(c) = <<>> /\ toClient'[c] = toClient[c] /\ cBuffer'[c] = cBuffer[c]
           /\ \E r \in Reads(toServer[c]) : /\ InHand(c)' = Whole(toServer[c], r)
                                            /\ toServer'[c] = Rest(toServer[c], r)
  <2>1. PICK r \in Reads(toServer[c]) : /\ InHand(c)' = Whole(toServer[c], r)
                                        /\ toServer'[c] = Rest(toServer[c], r)
    BY <1>2
  <2>2. /\ Thins(toServer[c], InHand(c)')
        /\ Thins(toServer[c], toServer'[c])
        /\ Single(toServer[c]) => Quiet(InHand(c)') \/ Quiet(toServer'[c])
    BY <2>1, QueueTypes, ReadThins
  <2>3. QED
    BY <1>2, <2>2, NoMessage, QuietIsSingle DEF Turn, OneUnderWay, Silent, Thins, Gone
<1>3. QED
  BY <1>1, <1>2

\* The client's steps.
LEMMA ClientKeepsTurn ==
    ASSUME TypeOK, NEW c \in Clients, ClientStep(c), TurnInv
    PROVE  TurnInv'
<1>1. \A d \in Clients : InHand(d)' = InHand(d)
  BY DEF ClientStep, serverVars, InHand
<1>2. Turn(c) /\ Departed(c)
  BY DEF TurnInv
<1>3. Turn(c)'
  <2>1. CASE ConnectToHost(c) \/ Established(c) \/ Refused(c)
    BY <1>1, <1>2, <2>1, QueueTypes, SameQueueThins, TurnKept
       DEF ConnectToHost, Established, Refused, clientVars, Gone
  <2>2. CASE StartCoupling(c)
    <3>1. Silent(c)
      BY <1>2, <2>2 DEF StartCoupling, Turn, Gone
    <3>2. /\ toClient'[c] = toClient[c]
          /\ cBuffer'[c] = cBuffer[c]
          /\ cCoupling'[c] = "waiting"
      BY <2>2, QueueTypes DEF StartCoupling
    <3>3. toServer'[c] = toServer[c] \/ toServer'[c] = Append(toServer[c], HandshakeRequest)
      BY <2>2, QueueTypes DEF StartCoupling, ClientWrites
    <3>4. Single(toServer'[c])
      <4>1. Single(Append(toServer[c], HandshakeRequest))
        <5>1. toServer[c] \in Seq(ToServer) /\ HandshakeRequest \in ToServer
          BY QueueTypes, MessageTypes
        <5>2. QED
          BY <3>1, <5>1, AppendThins DEF Silent
      <4>2. QED
        BY <3>1, <3>3, <4>1, QuietIsSingle DEF Silent
    <3>5. QED
      BY <1>1, <3>1, <3>2, <3>4 DEF Turn, OneUnderWay, Silent
  <2>3. CASE ClientReadyRead(c)
    BY <1>1, <1>2, <2>3, QueueTypes, ReadKeepsTurn DEF ClientReadyRead, Idle
  <2>4. ASSUME Head(cBuffer[c]).step \in Steps, cBuffer[c] # <<>>
        PROVE  /\ cCoupling[c] = "waiting" /\ ~Gone(c)
               /\ Quiet(Tail(cBuffer[c]))
               /\ Quiet(toServer[c]) /\ Quiet(InHand(c)) /\ Quiet(toClient[c])
    <3>1. /\ ~Quiet(cBuffer[c])
          /\ Single(cBuffer[c]) => Quiet(Tail(cBuffer[c]))
      BY <2>4, QueueTypes, TailThins
    <3>2. QED
      BY <1>2, <2>4, <3>1 DEF Turn, OneUnderWay, Silent, Departed
  <2>5. CASE OnAdmitted(c)
    <3>1. PICK step \in {"Handshake", "Login"} :
              /\ Receives(c, step)
              /\ ClientWrites(c, Following(c, step))
      BY <2>5 DEF OnAdmitted
    <3>2. Head(cBuffer[c]).step \in Steps /\ cBuffer[c] # <<>>
      BY <3>1 DEF Receives, Idle, Steps
    <3>3. /\ toClient'[c] = toClient[c]
          /\ cBuffer'[c] = Tail(cBuffer[c])
          /\ cCoupling'[c] = cCoupling[c]
          /\ cSocket'[c] = cSocket[c]
      BY <2>5, QueueTypes DEF OnAdmitted, NextMessage
    <3>4. toServer'[c] = toServer[c] \/ toServer'[c] = Append(toServer[c], Following(c, step))
      BY <3>1, QueueTypes DEF ClientWrites
    <3>5. Following(c, step) \in ToServer
      BY MessageTypes DEF Following
    <3>6. Single(toServer'[c])
      <4>1. toServer[c] \in Seq(ToServer)
        BY QueueTypes
      <4>2. Single(Append(toServer[c], Following(c, step)))
        BY <2>4, <3>2, <3>5, <4>1, AppendThins
      <4>3. QED
        BY <2>4, <3>2, <3>4, <4>2, QuietIsSingle
    <3>7. QED
      BY <1>1, <2>4, <3>2, <3>3, <3>6 DEF Turn, OneUnderWay, Silent, Gone
  <2>6. CASE OnConnectResponse(c)
    <3>1. Head(cBuffer[c]).step \in Steps /\ cBuffer[c] # <<>>
      BY <2>6 DEF OnConnectResponse, Receives, Idle, Steps
    <3>2. /\ toClient'[c] = toClient[c]
          /\ cBuffer'[c] = Tail(cBuffer[c])
      BY <2>6, QueueTypes DEF OnConnectResponse, NextMessage
    <3>3. Thins(toServer[c], toServer'[c])
      BY <2>6, OtherMessages, WritesThin DEF OnConnectResponse
    <3>4. Silent(c)'
      BY <1>1, <2>4, <3>1, <3>2, <3>3 DEF Silent, Thins
    <3>5. QED
      BY <3>4, QuietIsSingle DEF Turn, OneUnderWay, Silent
  <2>7. CASE OnRefusal(c) \/ ClientTimeout(c) \/ HeartbeatFails(c)
    <3>1. /\ toServer' = toServer /\ toClient'[c] = <<>> /\ cBuffer'[c] = <<>>
          /\ cCoupling' = cCoupling
          /\ ~Gone(c)' /\ ~Gone(c)
      <4>1. PICK src : Fail(c, src)
        BY <2>7 DEF OnRefusal, ClientTimeout, HeartbeatFails
      <4>2. ~Gone(c)
        BY <1>2, <2>7 DEF OnRefusal, ClientTimeout, HeartbeatFails, Receives, Idle, Departed
      <4>3. QED
        BY <4>1, <4>2, QueueTypes DEF Fail, Gone
    <3>2. QED
      BY <1>1, <1>2, <3>1, SameQueueThins, TurnKept
  <2>8. CASE ClientOnCoupled(c) \/ ClientRemoteClosed(c)
    <3>1. /\ toServer'[c] = toServer[c] /\ cBuffer'[c] = cBuffer[c] /\ cCoupling'[c] = cCoupling[c]
          /\ toClient'[c] = toClient[c] \/ toClient'[c] = <<>>
          /\ Gone(c)' <=> Gone(c)
      BY <2>8, QueueTypes DEF ClientOnCoupled, ClientRemoteClosed, linkVars, clientVars, Gone
    <3>2. QED
      BY <1>1, <1>2, <3>1, SameQueueThins, TurnKept
  <2>9. CASE DisconnectFromHost(c) \/ UserDisconnect(c) \/ HostLost(c) \/ ClientCrash(c)
    <3>1. /\ toServer' = toServer /\ toClient'[c] = <<>> /\ cBuffer'[c] = <<>>
          /\ Gone(c)'
      BY <2>9, QueueTypes DEF DisconnectFromHost, UserDisconnect, HostLost, ClientCrash, Vanish, Gone
    <3>2. QED
      BY <1>1, <1>2, <3>1, SameQueueThins, TurnKept
  <2>10. CASE SendHeartbeat(c) \/ ClientSendAction(c)
    <3>1. Thins(toServer[c], toServer'[c])
      BY <2>10, OtherMessages, WritesThin DEF SendHeartbeat, ClientSendAction
    <3>2. QED
      BY <1>1, <1>2, <2>10, <3>1, SameQueueThins, TurnKept
         DEF SendHeartbeat, ClientSendAction, clientVars, Gone
  <2>11. CASE ClientOnAction(c)
    <3>1. Thins(toServer[c], toServer'[c])
      BY <2>11, OtherMessages, WritesThin, SameQueueThins DEF ClientOnAction
    <3>2. cBuffer'[c] = Tail(cBuffer[c]) /\ cBuffer[c] # <<>>
      BY <2>11, QueueTypes DEF ClientOnAction, NextMessage, Idle
    <3>3. Thins(cBuffer[c], cBuffer'[c])
      BY <3>2, QueueTypes, TailThins
    <3>4. QED
      BY <1>1, <1>2, <2>11, <3>1, <3>3, SameQueueThins, TurnKept DEF ClientOnAction, Gone
  <2>12. QED
    BY <2>1, <2>2, <2>3, <2>5, <2>6, <2>7, <2>8, <2>9, <2>10, <2>11
       DEF ClientStep, ClientLoop, ClientTimers
<1>4. ASSUME NEW d \in Clients, d # c
      PROVE  Turn(d)' /\ Departed(d)'
  <2>1. /\ cSocket'[d] = cSocket[d]
        /\ toServer'[d] = toServer[d] /\ toClient'[d] = toClient[d]
        /\ cBuffer'[d] = cBuffer[d] /\ cCoupling'[d] = cCoupling[d]
    BY <1>4, ClientLeavesOthers
  <2>2. Gone(d)' <=> Gone(d)
    BY <2>1 DEF Gone
  <2>3. Turn(d) /\ Departed(d)
    BY DEF TurnInv
  <2>4. Turn(d)'
    BY <1>1, <2>1, <2>2, <2>3, SameQueueThins, TurnKept
  <2>5. Departed(d)'
    BY <2>1, <2>2, <2>3 DEF Departed
  <2>6. QED
    BY <2>4, <2>5
<1>5. Departed(c)'
  <2>1. CASE DisconnectFromHost(c) \/ UserDisconnect(c) \/ HostLost(c) \/ ClientCrash(c)
    BY <2>1, QueueTypes
       DEF DisconnectFromHost, UserDisconnect, HostLost, ClientCrash, Vanish, Departed
  <2>2. CASE ~(DisconnectFromHost(c) \/ UserDisconnect(c) \/ HostLost(c) \/ ClientCrash(c))
    <3>1. ~Gone(c) => ~Gone(c)'
      BY <2>2, QueueTypes
         DEF ClientStep, ClientLoop, ClientTimers, ConnectToHost, Established, Refused, StartCoupling,
             ClientReadyRead, OnAdmitted, OnConnectResponse, OnRefusal, ClientOnCoupled, ClientRemoteClosed,
             ClientOnAction, ClientTimeout, SendHeartbeat, HeartbeatFails, ClientSendAction, Fail, Gone,
             linkVars
    <3>2. Gone(c) => cBuffer'[c] = cBuffer[c] /\ cCoupling'[c] = cCoupling[c]
      BY <1>2, <2>2
         DEF ClientStep, ClientLoop, ClientTimers, ConnectToHost, Established, Refused, StartCoupling,
             ClientReadyRead, OnAdmitted, OnConnectResponse, OnRefusal, ClientOnCoupled, ClientRemoteClosed,
             ClientOnAction, ClientTimeout, SendHeartbeat, HeartbeatFails, ClientSendAction, Departed, Gone,
             Receives, Idle, clientVars
    <3>3. QED
      BY <1>2, <3>1, <3>2 DEF Departed
  <2>3. QED
    BY <2>1, <2>2
<1>6. QED
  BY <1>3, <1>4, <1>5 DEF TurnInv

\* A step of the server that adds nothing of a coupling.
LEMMA ServerKeepsTurnOf ==
    ASSUME TypeOK, ServerStep, NEW d \in Clients, Turn(d), Departed(d),
           Thins(toServer[d], toServer'[d]), Thins(InHand(d), InHand(d)'),
           Thins(toClient[d], toClient'[d])
    PROVE  Turn(d)' /\ Departed(d)'
<1>1. cSocket' = cSocket /\ cBuffer' = cBuffer /\ cCoupling' = cCoupling
  BY ServerLeavesClients
<1>2. Gone(d)' <=> Gone(d)
  BY <1>1 DEF Gone
<1>3. QED
  BY <1>1, <1>2, SameQueueThins, TurnKept DEF Departed

LEMMA ServerKeepsTurn ==
    ASSUME TypeOK, ServerStep, TurnInv
    PROVE  TurnInv'
<1> SUFFICES ASSUME NEW d \in Clients
             PROVE  Turn(d)' /\ Departed(d)'
  BY DEF TurnInv
<1>1. Turn(d) /\ Departed(d)
  BY DEF TurnInv
<1>2. sBuffer = <<>> /\ sBuffer' = <<>> => InHand(d)' = InHand(d)
  BY DEF InHand
<1>3. Shutdown => /\ toServer'[d] = <<>> /\ toClient'[d] = toClient[d] /\ InHand(d)' = <<>>
  BY DEF Shutdown, InHand
<1>4. CASE \E c \in Clients : \/ Accept(c) \/ AbortExcess(c) \/ ServerRemoteClosed(c)
                              \/ DropClient(c) \/ ServerOnCoupled(c) \/ DeleteSocket(c)
                              \/ ServerSendAction(c)
  <2>1. PICK c \in Clients : \/ Accept(c) \/ AbortExcess(c) \/ ServerRemoteClosed(c)
                             \/ DropClient(c) \/ ServerOnCoupled(c) \/ DeleteSocket(c)
                             \/ ServerSendAction(c)
    BY <1>4
  <2>2. sBuffer = <<>> /\ sBuffer' = sBuffer
    BY <2>1 DEF Accept, AbortExcess, ServerRemoteClosed, DropClient, ServerOnCoupled, DeleteSocket,
                ServerSendAction, Ready, serverVars
  <2>3. toServer'[d] = toServer[d] \/ toServer'[d] = <<>>
    BY <2>1, QueueTypes DEF Accept, AbortExcess, ServerRemoteClosed, DropClient, ServerOnCoupled, DeleteSocket,
                ServerSendAction, linkVars
  <2>4. Thins(toClient[d], toClient'[d])
    <3>1. CASE ServerSendAction(c)
      BY <3>1, OtherMessages, WritesThin DEF ServerSendAction
    <3>2. CASE ~ServerSendAction(c)
      BY <2>1, <3>2, SameQueueThins
         DEF Accept, AbortExcess, ServerRemoteClosed, DropClient, ServerOnCoupled, DeleteSocket, linkVars
    <3>3. QED
      BY <3>1, <3>2
  <2>5. QED
    BY <1>1, <1>2, <2>2, <2>3, <2>4, SameQueueThins, ServerKeepsTurnOf
<1>5. CASE (\E c \in Clients : CrashInOnCoupled(c)) \/ CrashInRouter \/ StopServer
  BY <1>1, <1>3, <1>5, SameQueueThins, ServerKeepsTurnOf DEF CrashInOnCoupled, CrashInRouter, StopServer
<1>6. CASE ServerTimeout \/ UserDropClient \/ StartServer
  <2>1. /\ toServer' = toServer /\ toClient' = toClient
        /\ sDevice' = sDevice /\ sBuffer' = sBuffer
    BY <1>6 DEF ServerTimeout, UserDropClient, StartServer, linkVars, serverVars
  <2>2. QED
    BY <1>1, <2>1, SameQueueThins, ServerKeepsTurnOf DEF InHand
<1>7. CASE OnHeartbeatEvent \/ ServerOnAction
  <2>1. /\ sDevice \in Clients /\ sDevice' = sDevice
        /\ sBuffer # <<>> /\ sBuffer' = Tail(sBuffer)
        /\ toServer' = toServer
    BY <1>7 DEF OnHeartbeatEvent, ServerOnAction, Receiving, TypeOK, ServerTypeOK, linkVars
  <2>2. Thins(InHand(d), InHand(d)')
    BY <2>1, QueueTypes, TailThins, SameQueueThins DEF InHand
  <2>3. Thins(toClient[d], toClient'[d])
    <3>1. toClient' = toClient \/ ServerWrites(sDevice, ActionResponse)
      BY <1>7 DEF OnHeartbeatEvent, ServerOnAction, linkVars
    <3>2. QED
      BY <2>1, <3>1, OtherMessages, WritesThin, SameQueueThins
  <2>4. QED
    BY <1>1, <2>1, <2>2, <2>3, SameQueueThins, ServerKeepsTurnOf
<1>8. CASE \E c \in Clients : ServerReadyRead(c)
  <2>1. PICK c \in Clients : ServerReadyRead(c)
    BY <1>8
  <2>2. PICK r \in Reads(toServer[c]) :
            /\ sBuffer' = Whole(toServer[c], r)
            /\ toServer' = [toServer EXCEPT ![c] = Rest(toServer[c], r)]
    BY <2>1 DEF ServerReadyRead
  <2>3. /\ sDevice = c /\ sDevice' = c /\ sBuffer = <<>>
        /\ toClient' = toClient
    BY <2>1 DEF ServerReadyRead, Ready
  <2>4. cSocket' = cSocket /\ cBuffer' = cBuffer /\ cCoupling' = cCoupling
    BY ServerLeavesClients
  <2>5. CASE d # c
    BY <1>1, <2>2, <2>3, <2>5, QueueTypes, SameQueueThins, ServerKeepsTurnOf DEF InHand
  <2>6. CASE d = c
    <3>1. /\ InHand(c) = <<>>
          /\ InHand(c)' = Whole(toServer[c], r)
          /\ toServer'[c] = Rest(toServer[c], r)
      BY <2>2, <2>3, QueueTypes DEF InHand
    <3>2. Turn(c)'
      BY <1>1, <2>3, <2>4, <2>6, <3>1, ReadKeepsTurn
    <3>3. QED
      BY <1>1, <2>4, <2>6, <3>2 DEF Departed, Gone
  <2>7. QED
    BY <2>5, <2>6
<1>9. CASE OnRequest
  <2> DEFINE c == sDevice
  <2>1. /\ c \in Clients /\ sDevice' = sDevice
        /\ sBuffer # <<>> /\ sBuffer' = Tail(sBuffer)
        /\ toServer' = toServer
        /\ Head(sBuffer).step \in Steps
    BY <1>9 DEF OnRequest, Receiving, TypeOK, ServerTypeOK
  <2>2. PICK authorized \in BOOLEAN :
            ServerWrites(c, Response(Head(sBuffer).step, ResultOf(sCoupling, Head(sBuffer).step, authorized)))
    BY <1>9 DEF OnRequest
  <2> DEFINE answer == Response(Head(sBuffer).step, ResultOf(sCoupling, Head(sBuffer).step, authorized))
  <2>3. cSocket' = cSocket /\ cBuffer' = cBuffer /\ cCoupling' = cCoupling
    BY ServerLeavesClients
  <2>4. toClient'[d] = toClient[d] \/ (d = c /\ toClient'[d] = Append(toClient[d], answer))
    BY <2>1, <2>2, QueueTypes DEF ServerWrites
  <2>5. CASE d # c
    BY <1>1, <2>1, <2>4, <2>5, SameQueueThins, ServerKeepsTurnOf DEF InHand
  <2>6. CASE d = c
    <3>1. InHand(c) = sBuffer /\ InHand(c)' = Tail(sBuffer)
      BY <2>1 DEF InHand
    <3>2. /\ ~Quiet(sBuffer)
          /\ Single(sBuffer) => Quiet(Tail(sBuffer))
      BY <2>1, QueueTypes, TailThins
    <3>3. /\ Quiet(toServer[c]) /\ Quiet(toClient[c]) /\ Quiet(cBuffer[c])
          /\ Quiet(InHand(c)')
          /\ cCoupling[c] = "waiting" \/ Gone(c)
      BY <1>1, <2>6, <3>1, <3>2 DEF Turn, OneUnderWay, Silent
    <3>4. answer \in ToClient
      <4>1. ResultOf(sCoupling, Head(sBuffer).step, authorized) \in Results
        BY <2>1, MessageTypes, QueueTypes, OperatorTypes DEF TypeOK, ServerTypeOK
      <4>2. QED
        BY <2>1, <4>1, MessageTypes
    <3>5. Single(Append(toClient[c], answer))
      <4>1. toClient[c] \in Seq(ToClient)
        BY <2>1, QueueTypes
      <4>2. QED
        BY <3>3, <3>4, <4>1, AppendThins
    <3>6. Single(toClient'[c])
      BY <2>4, <2>6, <3>3, <3>5, QuietIsSingle
    <3>7. QED
      BY <1>1, <2>1, <2>3, <2>6, <3>3, <3>6 DEF Turn, OneUnderWay, Departed, Gone
  <2>7. QED
    BY <2>5, <2>6
<1>10. QED
  BY <1>4, <1>5, <1>6, <1>7, <1>8, <1>9 DEF ServerStep, ServerLoop

\* Of a coupling, at most one message is under way between a client and the
\* server.
THEOREM TakingTurns == Spec => []TurnInv
<1>1. Init => TurnInv
  BY NoMessage, QuietIsSingle
     DEF Init, LinkInit, ClientInit, ServerInit, TurnInv, Turn, Departed, OneUnderWay, Silent, InHand, Gone
<1>2. IInv /\ TurnInv /\ [Next]_vars => TurnInv'
  <2> SUFFICES ASSUME IInv, TurnInv, [Next]_vars
               PROVE  TurnInv'
    OBVIOUS
  <2>1. CASE \E c \in Clients : ClientStep(c)
    BY <2>1, ClientKeepsTurn DEF IInv
  <2>2. CASE ServerStep
    BY <2>2, ServerKeepsTurn DEF IInv
  <2>3. CASE UNCHANGED vars
    BY <2>3, SameQueueThins
       DEF vars, linkVars, clientVars, serverVars, TurnInv, Turn, Departed, OneUnderWay, Silent, InHand, Gone
  <2>4. QED
    BY <2>1, <2>2, <2>3 DEF Next
<1>3. QED
  BY <1>1, <1>2, InductiveInvariant, PTL DEF Spec

-------------------------------------------------------------------------------
\* The event loop of a client never has more than one event waiting, and it has
\* the one that takes the client further.
Awaits(c, ev) == posted[c] = <<Event(ev, c)>>

ClientEvents(c) ==
    /\ posted[c] = <<>> \/ \E ev \in {"connected", "coupled", "disconnected"} : Awaits(c, ev)
    /\ Awaits(c, "connected") =>
          cSocket[c] = "connected" /\ cCoupling[c] = "none" /\ cBuffer[c] = <<>> /\ "socket" \in served[c]
    /\ Awaits(c, "coupled") =>
          cSocket[c] = "connected" /\ cCoupling[c] = "coupled" /\ ~cActions[c] /\ "socket" \in served[c]
    /\ cSocket[c] = "connected" /\ cCoupling[c] = "none" => Awaits(c, "connected")
    /\ cSocket[c] = "connected" /\ cCoupling[c] = "coupled" /\ ~cActions[c] => Awaits(c, "coupled")
    /\ Awaits(c, "disconnected") <=> cSocket[c] \in {"unconnected", "aborted"}

\* What the client's objects say of its socket.
ClientObjects(c) ==
    /\ cSocket[c] \in {"new", "connecting", "refused"} => posted[c] = <<>> /\ cCoupling[c] = "none"
    /\ cBuffer[c] # <<>> => cSocket[c] = "connected"
    /\ cActions[c] => cCoupling[c] = "coupled"
    /\ cCoupling[c] = "coupled" /\ cSocket[c] = "aborted" => "timer" \in served[c]

ClientInv == \A c \in Clients : ClientEvents(c) /\ ClientObjects(c)

LEMMA AwaitsOne ==
    ASSUME NEW c \in Clients, NEW ev
    PROVE  /\ Awaits(c, ev) => posted[c] # <<>>
           /\ \A other : Awaits(c, ev) /\ Awaits(c, other) => ev = other
           /\ \A other, d : Due(c, ev, d) /\ Awaits(c, other) => ev = other
  BY DEF Awaits, Due, Event

\* The queue and the served sources of a client after an operation of the loop.
LEMMA OwnQueue ==
    ASSUME TypeOK, NEW c \in Clients
    PROVE  /\ \A src : Post(c, src, <<>>) =>
                  /\ posted'[c] = posted[c]
                  /\ posted[c] # <<>> => served'[c] = served[c] \cup {src}
           /\ \A src, ev : Post(c, src, <<Event(ev, c)>>) /\ posted[c] = <<>> =>
                  Awaits(c, ev)' /\ served'[c] = served[c] \cup {src}
           /\ \A ev : Deliver(c, <<>>) /\ Awaits(c, ev) => posted'[c] = <<>>
           /\ Forget(c) => posted'[c] = <<>>
<1>1. /\ posted \in [Processes -> Seq(Events)]
      /\ served \in [Processes -> SUBSET Sources]
      /\ c \in Processes
  BY DEF TypeOK, LoopTypeOK, Processes
<1>2. \A src : Post(c, src, <<>>) =>
          posted'[c] = posted[c] /\ (posted[c] # <<>> => served'[c] = served[c] \cup {src})
  BY <1>1 DEF Post
<1>3. ASSUME NEW src, NEW ev, Post(c, src, <<Event(ev, c)>>), posted[c] = <<>>
      PROVE  Awaits(c, ev)' /\ served'[c] = served[c] \cup {src}
  BY <1>1, <1>3 DEF Post, Awaits, Event
<1>4. \A ev : Deliver(c, <<>>) /\ Awaits(c, ev) => posted'[c] = <<>>
  BY <1>1 DEF Deliver, Awaits
<1>5. Forget(c) => posted'[c] = <<>>
  BY <1>1 DEF Forget
<1>6. QED
  BY <1>2, <1>3, <1>4, <1>5

\* While only what ClientEvents and ClientObjects do not read changes, they hold.
LEMMA ClientInvFrame ==
    ASSUME NEW d \in Clients, ClientEvents(d), ClientObjects(d),
           posted'[d] = posted[d], served'[d] = served[d], cSocket'[d] = cSocket[d],
           cBuffer'[d] = cBuffer[d] \/ (cBuffer'[d] # <<>> => cBuffer[d] # <<>>),
           cCoupling'[d] = cCoupling[d], cActions'[d] = cActions[d]
    PROVE  ClientEvents(d)' /\ ClientObjects(d)'
  BY DEF ClientEvents, ClientObjects, Awaits, Event

\* The steps of a client, by what they do to its queue.
LEMMA ClientKeepsOwn ==
    ASSUME TypeOK, TurnInv, NEW c \in Clients, ClientStep(c), ClientEvents(c), ClientObjects(c)
    PROVE  ClientEvents(c)' /\ ClientObjects(c)'
<1>1. CASE ConnectToHost(c) \/ Refused(c)
  <2>1. posted[c] = <<>> /\ posted'[c] = <<>>
    BY <1>1, OwnQueue DEF ConnectToHost, Refused, Serve, ClientObjects, loopVars
  <2>2. \A ev : ~Awaits(c, ev)'
    BY <2>1 DEF Awaits
  <2>3. /\ cSocket'[c] \in {"connecting", "refused"}
        /\ cBuffer' = cBuffer /\ cCoupling' = cCoupling /\ cActions' = cActions
    BY <1>1, QueueTypes DEF ConnectToHost, Refused, clientVars
  <2>4. QED
    BY <1>1, <2>1, <2>2, <2>3 DEF ClientEvents, ClientObjects, ConnectToHost, Refused
<1>2. CASE Established(c)
  <2>1. Awaits(c, "connected")' /\ "socket" \in served'[c]
    BY <1>2, OwnQueue DEF Established, Serve, ClientObjects
  <2>2. \A ev : Awaits(c, ev)' => ev = "connected"
    BY <2>1 DEF Awaits, Event
  <2>3. /\ cSocket'[c] = "connected"
        /\ cBuffer' = cBuffer /\ cCoupling' = cCoupling /\ cActions' = cActions
    BY <1>2, QueueTypes DEF Established, clientVars
  <2>4. QED
    BY <1>2, <2>1, <2>2, <2>3 DEF ClientEvents, ClientObjects, Established
<1>3. CASE StartCoupling(c)
  <2>1. Awaits(c, "connected")
    BY <1>3, AwaitsOne DEF StartCoupling, ClientEvents, Due
  <2>2. posted'[c] = <<>>
    BY <1>3, <2>1, OwnQueue DEF StartCoupling
  <2>3. \A ev : ~Awaits(c, ev)'
    BY <2>2 DEF Awaits
  <2>4. /\ cSocket'[c] = "connected" /\ cSocket[c] = "connected"
        /\ cBuffer' = cBuffer /\ cCoupling'[c] = "waiting" /\ cActions' = cActions
        /\ cCoupling[c] = "none"
    BY <1>3, QueueTypes DEF StartCoupling
  <2>5. QED
    BY <2>2, <2>3, <2>4 DEF ClientEvents, ClientObjects
<1>4. CASE ClientReadyRead(c)
  <2>1. /\ posted'[c] = posted[c]
        /\ \A ev : Awaits(c, ev)' <=> Awaits(c, ev)
        /\ posted[c] # <<>> => served'[c] = served[c] \cup {"socket"} /\ "socket" \notin served[c]
    BY <1>4, OwnQueue DEF ClientReadyRead, Serve, CanServe, Awaits, Event
  <2>2. cSocket' = cSocket /\ cSocket[c] = "connected" /\ cCoupling' = cCoupling /\ cActions' = cActions
    BY <1>4 DEF ClientReadyRead
  <2>3. posted[c] = <<>>
    BY <2>1, <2>2 DEF ClientEvents
  <2>4. QED
    BY <2>1, <2>2, <2>3 DEF ClientEvents, ClientObjects, Awaits
<1>5. CASE OnAdmitted(c) \/ ClientSendAction(c) \/ ClientOnAction(c)
  <2>1. /\ posted' = posted /\ served' = served /\ cSocket' = cSocket
        /\ cCoupling' = cCoupling /\ cActions' = cActions
        /\ cBuffer'[c] # <<>> => cBuffer[c] # <<>>
    BY <1>5, QueueTypes
       DEF OnAdmitted, ClientSendAction, ClientOnAction, Receives, Idle, clientVars, loopVars
  <2>2. QED
    BY <2>1, ClientInvFrame
<1>6. CASE OnConnectResponse(c)
  <2>1. cBuffer[c] # <<>> /\ Head(cBuffer[c]).step \in Steps
    BY <1>6 DEF OnConnectResponse, Receives, Idle, Steps
  <2>2. ~Quiet(cBuffer[c])
    BY <2>1, QueueTypes, TailThins
  <2>3. cCoupling[c] = "waiting"
    BY <2>1, <2>2 DEF TurnInv, Turn, Silent, Departed
  <2>4. cSocket[c] = "connected" /\ cSocket' = cSocket
    BY <1>6, <2>1 DEF ClientObjects, OnConnectResponse
  <2>5. posted[c] = <<>>
    BY <2>3, <2>4 DEF ClientEvents
  <2>6. Awaits(c, "coupled")' /\ "socket" \in served'[c]
    BY <1>6, <2>5, OwnQueue DEF OnConnectResponse
  <2>7. \A ev : Awaits(c, ev)' => ev = "coupled"
    BY <2>6 DEF Awaits, Event
  <2>8. cCoupling'[c] = "coupled" /\ ~cActions[c] /\ cActions' = cActions
    BY <1>6, <2>3, QueueTypes DEF OnConnectResponse, ClientObjects
  <2>9. QED
    BY <2>4, <2>6, <2>7, <2>8 DEF ClientEvents, ClientObjects
<1>7. CASE OnRefusal(c) \/ ClientTimeout(c) \/ HeartbeatFails(c)
  <2>1. PICK src : /\ Fail(c, src)
                   /\ cCoupling[c] = "coupled" => src = "timer" /\ cSocket[c] # "connected"
    <3>1. CASE OnRefusal(c)
      <4>1. cBuffer[c] # <<>> /\ Head(cBuffer[c]).step \in Steps
        BY <3>1 DEF OnRefusal, Receives, Idle
      <4>2. ~Quiet(cBuffer[c])
        BY <4>1, QueueTypes, TailThins
      <4>3. cCoupling[c] = "waiting"
        BY <4>1, <4>2 DEF TurnInv, Turn, Silent, Departed
      <4>4. QED
        BY <3>1, <4>3 DEF OnRefusal
    <3>2. CASE ClientTimeout(c) \/ HeartbeatFails(c)
      BY <3>2 DEF ClientTimeout, HeartbeatFails
    <3>3. QED
      BY <1>7, <3>1, <3>2
  <2>2. cCoupling[c] # "none" /\ cSocket[c] \in {"connected", "unconnected", "aborted"}
    <3>1. cCoupling[c] # "none"
      BY <1>7 DEF OnRefusal, ClientTimeout, HeartbeatFails, Receives
    <3>2. ~Gone(c)
      BY <3>1 DEF TurnInv, Departed
    <3>3. cSocket[c] \in ClientSocketStates
      BY QueueTypes
    <3>4. QED
      BY <3>1, <3>2, <3>3 DEF ClientObjects, ClientSocketStates, Gone
  <2>3. cSocket'[c] = "aborted" /\ cBuffer'[c] = <<>> /\ cCoupling' = cCoupling /\ cActions' = cActions
    BY <2>1, QueueTypes DEF Fail
  <2>4. /\ Awaits(c, "disconnected")'
        /\ cCoupling[c] = "coupled" => "timer" \in served'[c]
    <3>1. CASE cSocket[c] = "connected"
      <4>1. posted[c] = <<>>
        BY <2>1, <2>2, <3>1 DEF ClientEvents
      <4>2. Post(c, src, <<Event("disconnected", c)>>)
        BY <2>1, <3>1 DEF Fail
      <4>3. QED
        BY <2>1, <3>1, <4>1, <4>2, OwnQueue
    <3>2. CASE cSocket[c] # "connected"
      <4>1. Awaits(c, "disconnected") /\ posted[c] # <<>>
        BY <2>2, <3>2, AwaitsOne DEF ClientEvents
      <4>2. Post(c, src, <<>>)
        BY <2>1, <3>2 DEF Fail
      <4>3. posted'[c] = posted[c] /\ served'[c] = served[c] \cup {src}
        BY <4>1, <4>2, OwnQueue
      <4>4. QED
        BY <2>1, <4>1, <4>3 DEF Awaits, Event
    <3>3. QED
      BY <3>1, <3>2
  <2>5. \A ev : Awaits(c, ev)' => ev = "disconnected"
    BY <2>4 DEF Awaits, Event
  <2>6. QED
    BY <2>3, <2>4, <2>5 DEF ClientEvents, ClientObjects
<1>8. CASE ClientOnCoupled(c)
  <2>1. Awaits(c, "coupled")
    BY <1>8, AwaitsOne DEF ClientOnCoupled, ClientEvents, Due
  <2>2. posted'[c] = <<>>
    BY <1>8, <2>1, OwnQueue DEF ClientOnCoupled
  <2>3. \A ev : ~Awaits(c, ev)'
    BY <2>2 DEF Awaits
  <2>4. /\ cSocket' = cSocket /\ cSocket[c] = "connected" /\ cCoupling[c] = "coupled"
        /\ cBuffer' = cBuffer /\ cCoupling' = cCoupling /\ cActions'[c] = TRUE
    BY <1>8, <2>1, QueueTypes DEF ClientOnCoupled, ClientEvents, linkVars
  <2>5. QED
    BY <2>2, <2>3, <2>4 DEF ClientEvents, ClientObjects
<1>9. CASE ClientRemoteClosed(c)
  <2>1. /\ cSocket[c] = "connected" /\ cSocket'[c] = "unconnected"
        /\ cBuffer'[c] = <<>> /\ cCoupling' = cCoupling /\ cActions' = cActions
    BY <1>9, QueueTypes DEF ClientRemoteClosed, Idle, clientVars
  <2>2. posted[c] = <<>>
    BY <1>9, <2>1 DEF ClientRemoteClosed, Serve, CanServe, ClientEvents
  <2>3. Awaits(c, "disconnected")'
    BY <1>9, <2>2, OwnQueue DEF ClientRemoteClosed, Serve
  <2>4. \A ev : Awaits(c, ev)' => ev = "disconnected"
    BY <2>3 DEF Awaits, Event
  <2>5. QED
    BY <2>1, <2>3, <2>4 DEF ClientEvents, ClientObjects
<1>10. CASE DisconnectFromHost(c) \/ UserDisconnect(c) \/ HostLost(c) \/ ClientCrash(c)
  <2>1. PICK state \in {"gone", "lost"} : Vanish(c, state)
    BY <1>10 DEF DisconnectFromHost, UserDisconnect, HostLost, ClientCrash
  <2>2. /\ posted'[c] = <<>> /\ cSocket'[c] = state /\ cBuffer'[c] = <<>>
        /\ cCoupling'[c] = "none" /\ cActions'[c] = FALSE
    BY <2>1, QueueTypes, OwnQueue DEF Vanish
  <2>3. \A ev : ~Awaits(c, ev)'
    BY <2>2 DEF Awaits
  <2>4. QED
    BY <2>2, <2>3 DEF ClientEvents, ClientObjects
<1>11. CASE SendHeartbeat(c)
  <2>1. posted'[c] = posted[c] /\ (posted[c] # <<>> => served'[c] = served[c] \cup {"timer"})
    BY <1>11, OwnQueue DEF SendHeartbeat, Serve
  <2>2. /\ cSocket' = cSocket /\ cSocket[c] = "connected" /\ cBuffer' = cBuffer
        /\ cCoupling' = cCoupling /\ cActions' = cActions
    BY <1>11 DEF SendHeartbeat, clientVars
  <2>3. \A ev : Awaits(c, ev)' <=> Awaits(c, ev)
    BY <2>1 DEF Awaits, Event
  <2>4. QED
    BY <2>1, <2>2, <2>3, AwaitsOne DEF ClientEvents, ClientObjects
<1>12. QED
  BY <1>1, <1>2, <1>3, <1>4, <1>5, <1>6, <1>7, <1>8, <1>9, <1>10, <1>11
     DEF ClientStep, ClientLoop, ClientTimers

LEMMA ClientInvInductive == Spec => []ClientInv
<1>1. Init => ClientInv
  BY DEF Init, LinkInit, LoopInit, ClientInit, ClientInv, ClientEvents, ClientObjects, Awaits, Processes
<1>2. IInv /\ TurnInv /\ ClientInv /\ [Next]_vars => ClientInv'
  <2> SUFFICES ASSUME IInv, TurnInv, ClientInv, [Next]_vars, NEW d \in Clients
               PROVE  ClientEvents(d)' /\ ClientObjects(d)'
    BY DEF ClientInv
  <2>1. ClientEvents(d) /\ ClientObjects(d) /\ TypeOK
    BY DEF ClientInv, IInv
  <2>2. ASSUME NEW c \in Clients, ClientStep(c)
        PROVE  ClientEvents(d)' /\ ClientObjects(d)'
    <3>1. CASE c = d
      BY <2>1, <2>2, <3>1, ClientKeepsOwn
    <3>2. CASE c # d
      BY <2>1, <2>2, <3>2, ClientLeavesOthers, ClientInvFrame
    <3>3. QED
      BY <3>1, <3>2
  <2>3. CASE ServerStep
    BY <2>1, <2>3, ServerLeavesClients, ClientInvFrame
  <2>4. CASE UNCHANGED vars
    BY <2>1, <2>4, ClientInvFrame DEF vars, linkVars, loopVars, clientVars
  <2>5. QED
    BY <2>2, <2>3, <2>4 DEF Next
<1>3. QED
  BY <1>1, <1>2, InductiveInvariant, TakingTurns, PTL DEF Spec

\* No assertion of a client can fail: the queued connected and coupled find
\* the objects in the state that startCoupling() and onCoupled() assert, and a
\* heartbeat timer never fires on an aborted socket, whatever the server, its
\* application and the network do.
THEOREM ClientNeverAsserts == Spec => []ClientAssertsHold
<1>1. ClientInv => ClientAssertsHold
  <2> SUFFICES ASSUME ClientInv, NEW c \in Clients
               PROVE  /\ Due(c, "connected", c) => cSocket[c] = "connected" /\ cCoupling[c] = "none"
                      /\ Due(c, "coupled", c) => cCoupling[c] # "none" /\ ~cActions[c]
                      /\ cCoupling[c] = "coupled" /\ CanServe(c, "timer") => cSocket[c] # "aborted"
    BY DEF ClientAssertsHold
  <2>1. ClientEvents(c) /\ ClientObjects(c)
    BY DEF ClientInv
  <2>2. \A ev \in {"connected", "coupled"} : Due(c, ev, c) => Awaits(c, ev)
    BY <2>1, AwaitsOne DEF ClientEvents, Due
  <2>3. cCoupling[c] = "coupled" /\ cSocket[c] = "aborted" => ~CanServe(c, "timer")
    BY <2>1, AwaitsOne DEF ClientEvents, ClientObjects, CanServe
  <2>4. QED
    BY <2>1, <2>2, <2>3 DEF ClientEvents
<1>2. QED
  BY <1>1, ClientInvInductive, PTL

-------------------------------------------------------------------------------
\* The connection of c has been taken from the backlog.
Taken(c) == sSocket[c] \notin {"none", "backlog"}

\* How far the handler that holds the slot has come: it is ready for a step, or
\* has granted it.
Stage(handshaked, authorized, coupled) ==
    /\ sCoupling.handshaked = handshaked
    /\ sCoupling.authorized = authorized
    /\ sCoupling.coupled = coupled

ReadyFor(step)   == Stage(step # "Handshake", step = "Connect", FALSE)
HasGranted(step) == Stage(TRUE, step # "Handshake", step = "Connect")

\* A message on its way to the server is one that the handler waits for.
RequestFits(c, m) ==
    /\ m.step = "Connect" => m.port = c
    /\ m.step \in Steps /\ mSocket = c => ReadyFor(m.step)
    /\ m.step = "Action" /\ mSocket = c => sCoupling.coupled
    /\ ~Taken(c) => m.step = "Handshake"

\* A message on its way to the client tells what the handler has granted.
ResponseFits(c, m) ==
    /\ m.kind = "Response" =>
          m.result = "Accepted" \/ (m.step = "Login" /\ m.result = "Rejected")
    /\ m.step \in Steps => Taken(c)
    /\ m.step \in Steps /\ m.result = "Accepted" /\ mSocket = c =>
          HasGranted(m.step) /\ (m.step = "Connect" => sCoupling.peerPort = c)

\* What the client believes is true of the handler.
Agreed(c) ==
    /\ cCoupling[c] = "coupled" => Taken(c)
    /\ mSocket = c /\ ~Gone(c) /\ cCoupling[c] = "none" => Stage(FALSE, FALSE, FALSE)
    /\ mSocket = c /\ cCoupling[c] = "coupled" =>
          HasGranted("Connect") /\ sCoupling.peerPort = c

Outbound(c) == Elements(toServer[c]) \cup Elements(InHand(c))
Inbound(c)  == Elements(toClient[c]) \cup Elements(cBuffer[c])

Consistent(c) ==
    /\ \A m \in Outbound(c) : RequestFits(c, m)
    /\ \A m \in Inbound(c) : ResponseFits(c, m)
    /\ Agreed(c)

\* A connection is not known to the server before it is established.
Unknown(c) == cSocket[c] \in {"new", "connecting", "refused"} => sSocket[c] = "none"

\* The transceiver never reads a socket other than the slot's while it is taken,
\* and what the server holds or deletes it has taken before.
Attached == /\ \A c \in Clients : Waits(Server, "delete", c) => Taken(c)
            /\ sDevice # None => Taken(sDevice)
            /\ mSocket # None => Taken(mSocket) /\ sDevice \in {mSocket, None}

CouplingInv == Attached /\ \A c \in Clients : Consistent(c) /\ Unknown(c)

\* While messages are only taken or join fittingly, the rest may stay.
LEMMA ConsistentKept ==
    ASSUME NEW d \in Clients, Consistent(d),
           Taken(d) => Taken(d)',
           mSocket' = d => /\ mSocket = d
                           /\ sCoupling'.handshaked = sCoupling.handshaked
                           /\ sCoupling'.authorized = sCoupling.authorized
                           /\ sCoupling'.coupled = sCoupling.coupled
                           /\ sCoupling'.peerPort = sCoupling.peerPort,
           \A m \in Outbound(d)' : m \in Outbound(d) \/ RequestFits(d, m)',
           \A m \in Inbound(d)' : m \in Inbound(d) \/ ResponseFits(d, m)',
           Agreed(d)' \/ (cCoupling'[d] = cCoupling[d] /\ (~Gone(d)' => ~Gone(d)))
    PROVE  Consistent(d)'
<1>1. \A m \in Outbound(d) : RequestFits(d, m)'
  BY DEF Consistent, RequestFits, ReadyFor, Stage
<1>2. \A m \in Inbound(d) : ResponseFits(d, m)'
  BY DEF Consistent, ResponseFits, HasGranted, Stage
<1>3. Agreed(d)'
  BY DEF Consistent, Agreed, HasGranted, Stage
<1>4. QED
  BY <1>1, <1>2, <1>3 DEF Consistent

\* What a write adds.
LEMMA WritesAdd ==
    ASSUME TypeOK, NEW c \in Clients
    PROVE  /\ \A m \in ToServer : ClientWrites(c, m) =>
                  Elements(toServer'[c]) \subseteq Elements(toServer[c]) \cup {m}
           /\ \A m \in ToClient : ServerWrites(c, m) =>
                  /\ Elements(toClient'[c]) \subseteq Elements(toClient[c]) \cup {m}
                  /\ \A d \in Clients : d # c => toClient'[d] = toClient[d]
<1>1. ASSUME NEW m \in ToServer, ClientWrites(c, m)
      PROVE  Elements(toServer'[c]) \subseteq Elements(toServer[c]) \cup {m}
  <2>1. toServer'[c] = toServer[c] \/ toServer'[c] = Append(toServer[c], m)
    BY <1>1, QueueTypes DEF ClientWrites
  <2>2. toServer[c] \in Seq(ToServer)
    BY QueueTypes
  <2>3. Elements(Append(toServer[c], m)) = Elements(toServer[c]) \cup {m}
    BY <2>2, MessagesOfQueues
  <2>4. QED
    BY <2>1, <2>3
<1>2. ASSUME NEW m \in ToClient, ServerWrites(c, m)
      PROVE  /\ Elements(toClient'[c]) \subseteq Elements(toClient[c]) \cup {m}
             /\ \A d \in Clients : d # c => toClient'[d] = toClient[d]
  <2>1. toClient'[c] = toClient[c] \/ toClient'[c] = Append(toClient[c], m)
    BY <1>2, QueueTypes DEF ServerWrites
  <2>2. toClient[c] \in Seq(ToClient)
    BY QueueTypes
  <2>3. Elements(Append(toClient[c], m)) = Elements(toClient[c]) \cup {m}
    BY <2>2, MessagesOfQueues
  <2>4. \A d \in Clients : d # c => toClient'[d] = toClient[d]
    BY <1>2, QueueTypes DEF ServerWrites
  <2>5. QED
    BY <2>1, <2>3, <2>4
<1>3. QED
  BY <1>1, <1>2

\* The messages of c while the server does not move.
LEMMA OwnMessages ==
    ASSUME TypeOK, NEW c \in Clients, ClientStep(c)
    PROVE  /\ mSocket' = mSocket /\ sCoupling' = sCoupling /\ sDevice' = sDevice
           /\ \A d \in Clients : InHand(d)' = InHand(d)
           /\ \A d \in Clients : Elements(InHand(d)') = Elements(InHand(d))
           /\ Elements(<<>>) = {}
           /\ NextMessage(c) /\ cBuffer[c] # <<>> =>
                  Elements(cBuffer'[c]) \subseteq Elements(cBuffer[c])
<1>1. mSocket' = mSocket /\ sCoupling' = sCoupling /\ sDevice' = sDevice /\ sBuffer' = sBuffer
  BY DEF ClientStep, serverVars
<1>2. \A d \in Clients : InHand(d)' = InHand(d)
  BY <1>1 DEF InHand
<1>3. ASSUME NextMessage(c), cBuffer[c] # <<>>
      PROVE  Elements(cBuffer'[c]) \subseteq Elements(cBuffer[c])
  <2>1. cBuffer'[c] = Tail(cBuffer[c]) /\ cBuffer[c] \in Seq(ToClient)
    BY <1>3, QueueTypes DEF NextMessage
  <2>2. QED
    BY <1>3, <2>1, MessagesOfQueues
<1>4. Elements(<<>>) = {}
  BY DEF Elements
<1>5. QED
  BY <1>1, <1>2, <1>3, <1>4

LEMMA OwnCouplingKept ==
    ASSUME TypeOK, TurnInv, ClientInv, NEW c \in Clients, ClientStep(c), Consistent(c), Unknown(c)
    PROVE  Consistent(c)' /\ Unknown(c)'
<1>1. CASE ConnectToHost(c) \/ Established(c) \/ Refused(c)
  <2>1. /\ Outbound(c)' = Outbound(c) /\ Inbound(c)' = Inbound(c)
        /\ cCoupling' = cCoupling
        /\ Gone(c)' <=> Gone(c)
        /\ Taken(c) => Taken(c)'
        /\ Unknown(c)'
    BY <1>1, OwnMessages, QueueTypes
       DEF ConnectToHost, Established, Refused, clientVars, Outbound, Inbound, Gone, Taken, Unknown
  <2>2. QED
    BY <2>1, OwnMessages, ConsistentKept
<1>2. CASE StartCoupling(c)
  <2>1. /\ cCoupling[c] = "none" /\ cCoupling'[c] = "waiting" /\ ~Gone(c)
        /\ sSocket' = sSocket /\ cSocket' = cSocket
        /\ toClient' = toClient /\ cBuffer' = cBuffer
    BY <1>2, QueueTypes DEF StartCoupling, Gone
  <2>2. Outbound(c)' \subseteq Outbound(c) \cup {HandshakeRequest}
    BY <1>2, OwnMessages, WritesAdd, MessageTypes DEF StartCoupling, Outbound
  <2>3. RequestFits(c, HandshakeRequest)'
    <3>1. HandshakeRequest.step = "Handshake"
      BY DEF HandshakeRequest, Request
    <3>2. mSocket = c => ReadyFor("Handshake")
      BY <2>1 DEF Consistent, Agreed, ReadyFor
    <3>3. QED
      BY <3>1, <3>2, OwnMessages DEF RequestFits, ReadyFor, Stage
  <2>4. Agreed(c)'
    BY <2>1 DEF Agreed
  <2>5. QED
    BY <2>1, <2>2, <2>3, <2>4, OwnMessages, ConsistentKept DEF Taken, Inbound, Unknown
<1>3. CASE ClientReadyRead(c)
  <2>1. PICK r \in Reads(toClient[c]) :
            /\ cBuffer' = [cBuffer EXCEPT ![c] = Whole(toClient[c], r)]
            /\ toClient' = [toClient EXCEPT ![c] = Rest(toClient[c], r)]
    BY <1>3 DEF ClientReadyRead
  <2>2. toClient[c] \in Seq(ToClient)
    BY QueueTypes
  <2>3. /\ Elements(Whole(toClient[c], r)) \subseteq Elements(toClient[c])
        /\ Elements(Rest(toClient[c], r)) \subseteq Elements(toClient[c])
    BY <2>2, MessagesOfQueues
  <2>4. cBuffer'[c] = Whole(toClient[c], r) /\ toClient'[c] = Rest(toClient[c], r)
    BY <2>1, QueueTypes
  <2>5. Inbound(c)' \subseteq Inbound(c)
    BY <2>3, <2>4 DEF Inbound
  <2>6. /\ cSocket' = cSocket /\ sSocket' = sSocket /\ toServer' = toServer /\ cCoupling' = cCoupling
    BY <1>3 DEF ClientReadyRead
  <2>7. QED
    BY <2>5, <2>6, OwnMessages, ConsistentKept DEF Outbound, Taken, Gone, Unknown
<1>4. CASE OnAdmitted(c)
  <2>1. PICK step \in {"Handshake", "Login"} :
            /\ Receives(c, step) /\ Head(cBuffer[c]).result = "Accepted"
            /\ ClientWrites(c, Following(c, step))
    BY <1>4 DEF OnAdmitted
  <2>2. /\ sSocket' = sSocket /\ cSocket' = cSocket /\ toClient' = toClient
        /\ cCoupling' = cCoupling
        /\ NextMessage(c) /\ cBuffer[c] # <<>>
    BY <1>4, <2>1 DEF OnAdmitted, Receives, Idle
  <2>3. Head(cBuffer[c]) \in Inbound(c)
    BY <2>2, QueueTypes, MessagesOfQueues DEF Inbound
  <2>4. Taken(c) /\ (mSocket = c => HasGranted(step))
    BY <2>1, <2>3 DEF Consistent, ResponseFits, Receives, Steps
  <2>5. Following(c, step) \in ToServer
    BY MessageTypes DEF Following
  <2>6. Outbound(c)' \subseteq Outbound(c) \cup {Following(c, step)}
    BY <2>1, <2>5, OwnMessages, WritesAdd DEF Outbound
  <2>7. RequestFits(c, Following(c, step))'
    <3>1. /\ Following(c, step).step = IF step = "Handshake" THEN "Login" ELSE "Connect"
          /\ Following(c, step).step = "Connect" => Following(c, step).port = c
      BY DEF Following, LoginRequest, ConnectRequest, Request
    <3>2. Taken(c)'
      BY <2>2, <2>4 DEF Taken
    <3>3. mSocket' = c => ReadyFor(Following(c, step).step)'
      BY <2>4, <3>1, OwnMessages DEF HasGranted, ReadyFor, Stage
    <3>4. QED
      BY <3>1, <3>2, <3>3 DEF RequestFits
  <2>8. QED
    BY <2>2, <2>6, <2>7, OwnMessages, ConsistentKept DEF Inbound, Taken, Gone, Unknown
<1>5. CASE OnConnectResponse(c)
  <2>1. /\ Receives(c, "Connect") /\ Head(cBuffer[c]).result = "Accepted"
        /\ ClientWrites(c, HeartbeatEvent)
        /\ sSocket' = sSocket /\ cSocket' = cSocket /\ toClient' = toClient
        /\ cCoupling'[c] = "coupled"
        /\ NextMessage(c) /\ cBuffer[c] # <<>>
    BY <1>5, QueueTypes DEF OnConnectResponse, Receives, Idle
  <2>2. Head(cBuffer[c]) \in Inbound(c)
    BY <2>1, QueueTypes, MessagesOfQueues DEF Inbound
  <2>3. Taken(c) /\ (mSocket = c => HasGranted("Connect") /\ sCoupling.peerPort = c)
    BY <2>1, <2>2 DEF Consistent, ResponseFits, Receives, Steps
  <2>4. Outbound(c)' \subseteq Outbound(c) \cup {HeartbeatEvent}
    BY <2>1, OtherMessages, OwnMessages, WritesAdd DEF Outbound
  <2>5. RequestFits(c, HeartbeatEvent)'
    <3>1. HeartbeatEvent.step = "Heartbeat"
      BY DEF HeartbeatEvent, Request
    <3>2. QED
      BY <2>1, <2>3, <3>1 DEF RequestFits, Taken, Steps
  <2>6. Agreed(c)'
    BY <2>1, <2>3, OwnMessages DEF Agreed, Taken, HasGranted, Stage
  <2>7. QED
    BY <2>1, <2>4, <2>5, <2>6, OwnMessages, ConsistentKept DEF Inbound, Taken, Unknown
<1>6. CASE OnRefusal(c) \/ ClientTimeout(c) \/ HeartbeatFails(c)
  <2>1. PICK src : Fail(c, src)
    BY <1>6 DEF OnRefusal, ClientTimeout, HeartbeatFails
  <2>2. ~Gone(c)
    BY <1>6 DEF OnRefusal, ClientTimeout, HeartbeatFails, Receives, Idle, Departed, TurnInv
  <2>3. /\ cSocket'[c] = "aborted" /\ toClient'[c] = <<>> /\ cBuffer'[c] = <<>>
        /\ toServer' = toServer /\ sSocket' = sSocket /\ cCoupling' = cCoupling
    BY <2>1, QueueTypes DEF Fail
  <2>4. QED
    BY <2>2, <2>3, OwnMessages, ConsistentKept DEF Outbound, Inbound, Taken, Unknown
<1>7. CASE ClientOnCoupled(c) \/ ClientRemoteClosed(c)
  <2>1. /\ Gone(c)' <=> Gone(c)
        /\ toClient'[c] = toClient[c] \/ toClient'[c] = <<>>
        /\ toServer' = toServer /\ sSocket' = sSocket
        /\ cBuffer' = cBuffer /\ cCoupling' = cCoupling
        /\ Unknown(c)'
    BY <1>7, QueueTypes DEF ClientOnCoupled, ClientRemoteClosed, linkVars, clientVars, Gone, Unknown
  <2>2. QED
    BY <2>1, OwnMessages, ConsistentKept DEF Outbound, Inbound, Taken
<1>8. CASE DisconnectFromHost(c) \/ UserDisconnect(c) \/ HostLost(c) \/ ClientCrash(c)
  <2>1. PICK state \in {"gone", "lost"} : Vanish(c, state)
    BY <1>8 DEF DisconnectFromHost, UserDisconnect, HostLost, ClientCrash
  <2>2. /\ cSocket'[c] = state /\ toClient'[c] = <<>> /\ cBuffer'[c] = <<>>
        /\ toServer' = toServer /\ sSocket' = sSocket /\ cCoupling'[c] = "none"
    BY <2>1, QueueTypes DEF Vanish
  <2>3. Agreed(c)' /\ Unknown(c)'
    BY <2>2 DEF Agreed, Gone, Unknown
  <2>4. QED
    BY <2>2, <2>3, OwnMessages, ConsistentKept DEF Outbound, Inbound, Taken
<1>9. CASE SendHeartbeat(c) \/ ClientSendAction(c) \/ ClientOnAction(c)
  <2>1. PICK m \in {HeartbeatEvent, ActionRequest, ActionResponse} :
            ClientWrites(c, m) \/ toServer' = toServer
    BY <1>9 DEF SendHeartbeat, ClientSendAction, ClientOnAction
  <2>2. cCoupling[c] = "coupled"
    BY <1>9 DEF SendHeartbeat, ClientSendAction, ClientOnAction, ClientInv, ClientObjects
  <2>3. Taken(c) /\ (mSocket = c => sCoupling.coupled)
    BY <2>2 DEF Consistent, Agreed, HasGranted, Stage
  <2>4. /\ cSocket' = cSocket /\ sSocket' = sSocket /\ toClient' = toClient
        /\ cCoupling' = cCoupling
        /\ cBuffer' = cBuffer \/ (NextMessage(c) /\ cBuffer[c] # <<>>)
    BY <1>9 DEF SendHeartbeat, ClientSendAction, ClientOnAction, Idle, clientVars
  <2>5. Outbound(c)' \subseteq Outbound(c) \cup {m}
    BY <2>1, OtherMessages, OwnMessages, WritesAdd DEF Outbound
  <2>6. RequestFits(c, m)'
    <3>1. m.step \in {"Heartbeat", "Action"}
      BY DEF HeartbeatEvent, ActionRequest, ActionResponse, Request, Response
    <3>2. QED
      BY <2>3, <2>4, <3>1, OwnMessages DEF RequestFits, Taken, Steps
  <2>7. QED
    BY <2>4, <2>5, <2>6, OwnMessages, ConsistentKept DEF Inbound, Taken, Gone, Unknown
<1>10. QED
  BY <1>1, <1>2, <1>3, <1>4, <1>5, <1>6, <1>7, <1>8, <1>9 DEF ClientStep, ClientLoop, ClientTimers

\* dropClient() alone posts deletions, and of the slot's socket.
LEMMA NewDeletions ==
    ASSUME TypeOK, ServerStep, SlotConsistent, NEW c \in Clients, Waits(Server, "delete", c)'
    PROVE  Waits(Server, "delete", c) \/ (mSocket = c /\ mSocket' = None)
<1> DEFINE e == Event("delete", c)
<1>1. e \in Elements(posted'[Server]) /\ LoopTypeOK /\ <<>> \in Seq(Events)
  BY DEF Waits, Event, TypeOK
<1>2. ASSUME NEW evs \in Seq(Events), \E src : Post(Server, src, evs)
      PROVE  e \in Elements(posted[Server]) \cup Elements(evs)
  BY <1>1, <1>2, ServerQueue
<1>3. ASSUME NEW evs \in Seq(Events), Deliver(Server, evs), posted[Server] # <<>>
      PROVE  e \in Elements(posted[Server]) \cup Elements(evs)
  BY <1>1, <1>3, ServerQueue
<1>4. ASSUME NEW ev \in EventNames, NEW d \in Clients, ev # "delete"
      PROVE  <<Event(ev, d)>> \in Seq(Events) /\ e \notin Elements(<<Event(ev, d)>>)
  BY <1>4, OneEvent DEF Elements, Event
<1>5. e \notin Elements(<<>>)
  BY DEF Elements
<1>6. Deletion \in Seq(Events) /\ (e \in Elements(Deletion) => mSocket = c)
  BY DropSlotType DEF Deletion, Elements, Event, TypeOK, ServerSide
<1> HIDE DEF e
<1>7. e \in Elements(posted[Server]) => Waits(Server, "delete", c)
  BY DEF e, Waits
<1>8. posted' = posted => Waits(Server, "delete", c)
  BY <1>1, <1>7
<1>9. CASE \E d \in Clients : Accept(d) \/ AbortExcess(d) \/ ServerSendAction(d)
  BY <1>8, <1>9 DEF Accept, AbortExcess, ServerSendAction, loopVars
<1>10. CASE \E d \in Clients : ServerReadyRead(d)
  BY <1>1, <1>2, <1>5, <1>7, <1>10 DEF ServerReadyRead, Serve
<1>11. CASE \E d \in Clients : ServerRemoteClosed(d)
  <2>1. PICK d \in Clients : ServerRemoteClosed(d)
    BY <1>11
  <2>2. <<Event("disconnected", d)>> \in Seq(Events) /\ e \notin Elements(<<Event("disconnected", d)>>)
    BY <1>4, Domains
  <2>3. Post(Server, d, <<Event("disconnected", d)>>)
    BY <2>1 DEF ServerRemoteClosed, Serve
  <2>4. QED
    BY <1>2, <1>7, <2>2, <2>3
<1>12. CASE \E d \in Clients : DropClient(d)
  BY <1>3, <1>6, <1>7, <1>12 DEF DropClient, DropSlot, Due
<1>13. CASE \E d \in Clients : ServerOnCoupled(d)
  BY <1>1, <1>3, <1>5, <1>7, <1>13 DEF ServerOnCoupled, Due
<1>14. CASE (\E d \in Clients : CrashInOnCoupled(d)) \/ CrashInRouter \/ StopServer
  <2>1. posted'[Server] = <<>>
    BY <1>14 DEF CrashInOnCoupled, CrashInRouter, StopServer, Shutdown, Forget, TypeOK, LoopTypeOK, Processes
  <2>2. QED
    BY <1>1, <1>5, <2>1
<1>15. CASE \E d \in Clients : DeleteSocket(d)
  <2>1. PICK d \in Clients : DeleteSocket(d)
    BY <1>15
  <2>2. <<Event("disconnected", d)>> \in Seq(Events) /\ e \notin Elements(<<Event("disconnected", d)>>)
    BY <1>4, Domains
  <2>3. posted[Server] # <<>> /\ (Deliver(Server, <<Event("disconnected", d)>>) \/ Deliver(Server, <<>>))
    BY <2>1 DEF DeleteSocket, Due
  <2>4. QED
    BY <1>1, <1>3, <1>5, <1>7, <2>2, <2>3
<1>16. CASE OnRequest
  <2>1. sDevice \in Clients
    BY <1>16 DEF OnRequest, Receiving, TypeOK, ServerTypeOK
  <2>2. <<Event("coupled", sDevice)>> \in Seq(Events) /\ e \notin Elements(<<Event("coupled", sDevice)>>)
    BY <1>4, <2>1, Domains
  <2>3. Post(Server, sDevice, <<Event("coupled", sDevice)>>) \/ Post(Server, sDevice, <<>>)
    BY <1>16 DEF OnRequest
  <2>4. QED
    BY <1>1, <1>2, <1>5, <1>7, <2>2, <2>3
<1>17. CASE OnHeartbeatEvent \/ ServerOnAction \/ StartServer
  BY <1>8, <1>17 DEF OnHeartbeatEvent, ServerOnAction, StartServer, loopVars
<1>18. CASE ServerTimeout
  <2>1. mSocket \in Clients
    BY <1>18 DEF ServerTimeout, TypeOK, ServerTypeOK, SlotConsistent
  <2>2. <<Event("failed", mSocket)>> \in Seq(Events) /\ e \notin Elements(<<Event("failed", mSocket)>>)
    BY <1>4, <2>1, Domains
  <2>3. Post(Server, "timer", <<Event("failed", mSocket)>>)
    BY <1>18 DEF ServerTimeout, Serve
  <2>4. QED
    BY <1>2, <1>7, <2>2, <2>3
<1>19. CASE UserDropClient
  BY <1>2, <1>6, <1>7, <1>19 DEF UserDropClient, DropSlot, Serve
<1>20. QED
  BY <1>9, <1>10, <1>11, <1>12, <1>13, <1>14, <1>15, <1>16, <1>17, <1>18, <1>19 DEF ServerStep, ServerLoop

\* The sockets that the transceiver and the slot hold stay taken.
LEMMA AttachedKept ==
    ASSUME TypeOK, SlotConsistent, Attached, ServerStep
    PROVE  Attached'
<1>0. ASSUME NEW c \in Clients, Waits(Server, "delete", c)'
      PROVE  Waits(Server, "delete", c) \/ mSocket = c
  BY <1>0, NewDeletions
<1>1. CASE \E c \in Clients : Accept(c)
  BY <1>0, <1>1, QueueTypes DEF Accept, Attached, Taken
<1>2. CASE ~ \E c \in Clients : Accept(c)
  <2>1. \A d \in Clients : Taken(d) => Taken(d)'
    <3>1. \/ sSocket' = sSocket
          \/ \E c \in Clients, state \in {"aborted", "unconnected", "gone"} :
                 sSocket' = [sSocket EXCEPT ![c] = state]
          \/ Shutdown
      BY <1>2
         DEF ServerStep, ServerLoop, AbortExcess, ServerReadyRead, ServerRemoteClosed, DropClient,
             ServerOnCoupled, CrashInOnCoupled, DeleteSocket, OnRequest, OnHeartbeatEvent, ServerOnAction,
             CrashInRouter, ServerTimeout, UserDropClient, ServerSendAction, StopServer, StartServer,
             linkVars
    <3>2. sSocket \in [Clients -> ServerSocketStates]
      BY QueueTypes
    <3>3. CASE sSocket' = sSocket
      BY <3>3 DEF Taken
    <3>4. CASE \E c \in Clients, state \in {"aborted", "unconnected", "gone"} :
                  sSocket' = [sSocket EXCEPT ![c] = state]
      BY <3>2, <3>4 DEF Taken
    <3>5. CASE Shutdown
      BY <3>2, <3>5 DEF Shutdown, Taken
    <3> QED
      BY <3>1, <3>3, <3>4, <3>5
  <2>2. sDevice' \in {sDevice, None}
    BY <1>2
       DEF ServerStep, ServerLoop, AbortExcess, ServerReadyRead, ServerRemoteClosed, DropClient,
           ServerOnCoupled, CrashInOnCoupled, DeleteSocket, OnRequest, OnHeartbeatEvent, ServerOnAction,
           CrashInRouter, ServerTimeout, UserDropClient, ServerSendAction, StopServer, StartServer,
           Shutdown, serverVars
  <2>3. mSocket' \in {mSocket, None}
    BY <1>2
       DEF ServerStep, ServerLoop, AbortExcess, ServerReadyRead, ServerRemoteClosed, DropClient,
           ServerOnCoupled, CrashInOnCoupled, DeleteSocket, OnRequest, OnHeartbeatEvent, ServerOnAction,
           CrashInRouter, ServerTimeout, UserDropClient, ServerSendAction, StopServer, StartServer,
           Shutdown, DropSlot, serverVars
  <2>4. mSocket \in Clients \cup {None} /\ sDevice \in Clients \cup {None}
    BY DEF TypeOK, ServerTypeOK
  <2>5. QED
    BY <1>0, <2>1, <2>2, <2>3, <2>4 DEF Attached
<1>3. QED
  BY <1>1, <1>2

\* The server never hands a socket back to the backlog.
LEMMA TakenStays ==
    ASSUME TypeOK, Attached, ServerStep, NEW d \in Clients
    PROVE  /\ Taken(d) => Taken(d)'
           /\ sSocket[d] = "none" => sSocket'[d] = "none"
<1>1. CASE \E c \in Clients : Accept(c)
  BY <1>1, QueueTypes DEF Accept, Taken
<1>2. CASE \E c \in Clients : DeleteSocket(c)
  <2>1. PICK c \in Clients : DeleteSocket(c)
    BY <1>2
  <2>2. Waits(Server, "delete", c)
    <3>1. posted[Server] \in Seq(Events) /\ posted[Server] # <<>>
      BY <2>1 DEF DeleteSocket, Due, TypeOK, LoopTypeOK, Processes
    <3>2. Head(posted[Server]) \in Elements(posted[Server])
      BY <3>1, ElementsOfQueues
    <3>3. QED
      BY <2>1, <3>2 DEF DeleteSocket, Due, Waits
  <2>3. Taken(c)
    BY <2>2 DEF Attached
  <2>4. QED
    BY <2>1, <2>3, QueueTypes DEF DeleteSocket, Taken
<1>3. CASE ~ \E c \in Clients : Accept(c) \/ DeleteSocket(c)
  BY <1>3, QueueTypes
     DEF ServerStep, ServerLoop, AbortExcess, ServerReadyRead, ServerRemoteClosed, DropClient,
         ServerOnCoupled, CrashInOnCoupled, OnRequest, OnHeartbeatEvent, ServerOnAction,
         CrashInRouter, ServerTimeout, UserDropClient, ServerSendAction, StopServer, StartServer,
         Shutdown, Taken, linkVars
<1>4. QED
  BY <1>1, <1>2, <1>3

\* What a step of the server leaves of the messages of a coupling, unless it
\* accepts a connection or answers a request.
LEMMA ServerMessages ==
    ASSUME TypeOK, ServerStep, NEW d \in Clients, ~OnRequest, ~ \E c \in Clients : Accept(c)
    PROVE  /\ Outbound(d)' \subseteq Outbound(d)
           /\ Inbound(d)' \subseteq Inbound(d) \cup {ActionRequest, ActionResponse}
           /\ \/ Inbound(d)' \subseteq Inbound(d)
              \/ Server \in Actors
              \/ \E m \in Outbound(d) : m.step = "Action"
           /\ mSocket' = d => /\ mSocket = d
                              /\ sCoupling'.handshaked = sCoupling.handshaked
                              /\ sCoupling'.authorized = sCoupling.authorized
                              /\ sCoupling'.coupled = sCoupling.coupled
                              /\ sCoupling'.peerPort = sCoupling.peerPort
<1>1. cBuffer' = cBuffer /\ Elements(<<>>) = {} /\ d # None
  BY ServerLeavesClients DEF Elements
<1>2. CASE \E c \in Clients : AbortExcess(c) \/ ServerRemoteClosed(c) \/ DeleteSocket(c)
  <2>1. /\ toServer'[d] \in {toServer[d], <<>>} /\ toClient' = toClient
        /\ mSocket' = mSocket /\ sCoupling' = sCoupling
        /\ sBuffer' = sBuffer /\ sDevice' \in {sDevice, None}
    BY <1>2, QueueTypes DEF AbortExcess, ServerRemoteClosed, DeleteSocket, serverVars
  <2>2. QED
    BY <1>1, <2>1 DEF Outbound, Inbound, InHand
<1>3. CASE (\E c \in Clients : CrashInOnCoupled(c)) \/ CrashInRouter \/ StopServer
  <2>1. /\ toServer'[d] = <<>> /\ toClient' = toClient
        /\ mSocket' = None /\ sBuffer' = <<>>
    BY <1>3, QueueTypes DEF CrashInOnCoupled, CrashInRouter, StopServer, Shutdown, DropSlot
  <2>2. QED
    BY <1>1, <2>1 DEF Outbound, Inbound, InHand
<1>4. CASE (\E c \in Clients : DropClient(c) \/ ServerOnCoupled(c))
           \/ ServerTimeout \/ UserDropClient \/ StartServer
  <2>1. /\ toServer' = toServer /\ toClient' = toClient
        /\ mSocket' = None \/ (mSocket' = mSocket /\ sCoupling' = sCoupling)
        /\ sBuffer' = sBuffer /\ sDevice' = sDevice
    BY <1>4 DEF DropClient, ServerOnCoupled, ServerTimeout, UserDropClient, StartServer, DropSlot,
                serverVars, linkVars
  <2>2. QED
    BY <1>1, <2>1 DEF Outbound, Inbound, InHand
<1>5. CASE Server \in Actors /\ \E c \in Clients : ServerSendAction(c)
  <2>1. PICK c \in Clients : ServerSendAction(c)
    BY <1>5
  <2>2. /\ toServer' = toServer /\ ServerWrites(c, ActionRequest)
        /\ mSocket' = mSocket /\ sCoupling' = sCoupling
        /\ sBuffer' = sBuffer /\ sDevice' = sDevice
    BY <2>1 DEF ServerSendAction, serverVars
  <2>0. Server \in Actors
    BY <1>5
  <2>3. Elements(toClient'[d]) \subseteq Elements(toClient[d]) \cup {ActionRequest}
    BY <2>2, OtherMessages, WritesAdd
  <2>4. QED
    BY <1>1, <2>0, <2>2, <2>3 DEF Outbound, Inbound, InHand
<1>6. CASE OnHeartbeatEvent \/ ServerOnAction
  <2>1. /\ toServer' = toServer
        /\ toClient' = toClient \/ (sDevice \in Clients /\ ServerWrites(sDevice, ActionResponse))
        /\ mSocket' = mSocket
        /\ sBuffer # <<>> /\ sBuffer' = Tail(sBuffer) /\ sDevice' = sDevice
    BY <1>6 DEF OnHeartbeatEvent, ServerOnAction, Receiving, linkVars, TypeOK, ServerTypeOK
  <2>2. sCoupling' = sCoupling \/ sCoupling' = [sCoupling EXCEPT !.active = TRUE]
    BY <1>6 DEF OnHeartbeatEvent, ServerOnAction, Beaten
  <2>3. /\ sCoupling'.handshaked = sCoupling.handshaked
        /\ sCoupling'.authorized = sCoupling.authorized
        /\ sCoupling'.coupled = sCoupling.coupled
        /\ sCoupling'.peerPort = sCoupling.peerPort
    BY <2>2 DEF TypeOK, ServerTypeOK, HandlerType
  <2>4. Elements(toClient'[d]) \subseteq Elements(toClient[d]) \cup {ActionResponse}
    BY <2>1, OtherMessages, WritesAdd
  <2>5. Elements(sBuffer') \subseteq Elements(sBuffer)
    <3>1. sBuffer \in Seq(ToServer)
      BY QueueTypes
    <3>2. QED
      BY <2>1, <3>1, MessagesOfQueues
  <2>6. \/ Inbound(d)' \subseteq Inbound(d)
        \/ \E m \in Outbound(d) : m.step = "Action"
    <3>1. CASE OnHeartbeatEvent
      BY <1>1, <3>1 DEF OnHeartbeatEvent, linkVars, Inbound
    <3>2. CASE ServerOnAction /\ sDevice = d
      <4>1. Head(sBuffer) \in Elements(sBuffer) /\ Head(sBuffer).step = "Action"
        BY <2>1, <3>2, QueueTypes, MessagesOfQueues DEF ServerOnAction
      <4>2. QED
        BY <3>2, <4>1 DEF Outbound, InHand
    <3>3. CASE ServerOnAction /\ sDevice # d
      <4>1. toClient'[d] = toClient[d]
        BY <2>1, <3>3, OtherMessages, WritesAdd
      <4>2. QED
        BY <1>1, <4>1 DEF Inbound
    <3>4. QED
      BY <1>6, <3>1, <3>2, <3>3
  <2>7. QED
    BY <1>1, <2>1, <2>3, <2>4, <2>5, <2>6 DEF Outbound, Inbound, InHand
<1>7. CASE \E c \in Clients : ServerReadyRead(c)
  <2>1. PICK c \in Clients : ServerReadyRead(c)
    BY <1>7
  <2>2. PICK r \in Reads(toServer[c]) :
            /\ sBuffer' = Whole(toServer[c], r)
            /\ toServer' = [toServer EXCEPT ![c] = Rest(toServer[c], r)]
    BY <2>1 DEF ServerReadyRead
  <2>3. toServer[c] \in Seq(ToServer)
    BY QueueTypes
  <2>4. /\ Elements(Whole(toServer[c], r)) \subseteq Elements(toServer[c])
        /\ Elements(Rest(toServer[c], r)) \subseteq Elements(toServer[c])
    BY <2>3, MessagesOfQueues
  <2>5. /\ toClient' = toClient /\ mSocket' = mSocket /\ sCoupling' = sCoupling
        /\ sDevice = c /\ sDevice' = c /\ sBuffer = <<>>
    BY <2>1 DEF ServerReadyRead, Ready
  <2>6. toServer'[c] = Rest(toServer[c], r) /\ (d # c => toServer'[d] = toServer[d])
    BY <2>2, QueueTypes
  <2>7. QED
    BY <1>1, <2>2, <2>4, <2>5, <2>6 DEF Outbound, Inbound, InHand
<1>8. QED
  BY <1>2, <1>3, <1>4, <1>5, <1>6, <1>7 DEF ServerStep, ServerLoop

\* The server's answer to the request that its handler waits for.
LEMMA AnswerFits ==
    ASSUME TypeOK, SlotConsistent, TurnInv, Attached, OnRequest, ServerStep,
           NEW c \in Clients, sDevice = c, Consistent(c)
    PROVE  Consistent(c)'
<1>0. PICK m : m = Head(sBuffer)
  OBVIOUS
<1>1. /\ sBuffer # <<>> /\ sBuffer' = Tail(sBuffer) /\ sBuffer \in Seq(ToServer)
      /\ toServer' = toServer /\ sDevice' = c /\ m.step \in Steps
      /\ mSocket' = mSocket /\ sCoupling.alive /\ sCoupling \in HandlerType
      /\ sSocket' = sSocket /\ cSocket' = cSocket
  BY <1>0, QueueTypes DEF OnRequest, Receiving, TypeOK, ServerTypeOK
<1>2. cBuffer' = cBuffer /\ cCoupling' = cCoupling
  BY ServerLeavesClients
<1>2a. PICK authorized \in BOOLEAN : \E result, answer :
          /\ result = ResultOf(sCoupling, m.step, authorized)
          /\ answer = Response(m.step, result)
          /\ sCoupling' = Answered(sCoupling, m.step, m.port, result)
          /\ ServerWrites(c, answer)
  BY <1>0 DEF OnRequest
<1>3. PICK result, answer :
          /\ result = ResultOf(sCoupling, m.step, authorized)
          /\ answer = Response(m.step, result)
          /\ sCoupling' = Answered(sCoupling, m.step, m.port, result)
          /\ ServerWrites(c, answer)
  BY <1>2a
<1>4. mSocket = c /\ Taken(c)
  BY <1>1 DEF SlotConsistent, Attached
<1>5. m \in Elements(sBuffer) /\ Elements(sBuffer') \subseteq Elements(sBuffer) /\ m \in ToServer
  BY <1>0, <1>1, MessagesOfQueues
<1>6. RequestFits(c, m)
  BY <1>5 DEF Consistent, Outbound, InHand
<1>7. /\ Quiet(toServer[c]) /\ Quiet(toClient[c]) /\ Quiet(cBuffer[c])
      /\ Quiet(sBuffer')
      /\ cCoupling[c] = "waiting" \/ (Gone(c) /\ cCoupling[c] = "none")
  <2>1. InHand(c) = sBuffer
    BY DEF InHand
  <2>2. /\ ~Quiet(sBuffer)
        /\ Single(sBuffer) => Quiet(Tail(sBuffer))
    BY <1>0, <1>1, TailThins
  <2>3. Turn(c) /\ Departed(c)
    BY DEF TurnInv
  <2>4. QED
    BY <1>1, <2>1, <2>2, <2>3 DEF Turn, OneUnderWay, Silent, Departed
<1>8. /\ m.port \in Ports \cup {NoPort}
      /\ m.step = "Connect" => m.port \in Ports /\ m.port = c
  <2>1. m.step = "Connect" => m.port = c
    BY <1>6 DEF RequestFits
  <2>2. m.port \in Ports \cup {NoPort}
    BY <1>1, <1>5 DEF ToServer, Requests, Request, ActionResponse, Response, Steps
  <2>3. QED
    BY <2>1, <2>2
<1>9. ReadyFor(m.step)
  BY <1>1, <1>4, <1>6 DEF RequestFits
<1>10. result = "Accepted" \/ (m.step = "Login" /\ result = "Rejected")
  BY <1>1, <1>3, <1>9 DEF ReadyFor, Stage, ResultOf, HandshakeResult, LoginResult, ConnectResult, Steps
<1>11. /\ result = "Accepted" => /\ HasGranted(m.step)'
                                 /\ m.step = "Connect" => sCoupling'.peerPort = c
       /\ sCoupling.coupled => sCoupling'.coupled
  <2>1. LET g == Answered(sCoupling, m.step, m.port, result)
            ok == result = "Accepted"
        IN  /\ g.handshaked = (sCoupling.handshaked \/ (ok /\ m.step = "Handshake"))
            /\ g.authorized = (sCoupling.authorized \/ (ok /\ m.step = "Login"))
            /\ g.coupled = (sCoupling.coupled \/ (ok /\ m.step = "Connect"))
            /\ g.peerPort = IF ok /\ m.step = "Connect" THEN m.port ELSE sCoupling.peerPort
    BY <1>1, <1>3, <1>8, AnsweredEffect
  <2>2. sCoupling' = Answered(sCoupling, m.step, m.port, result)
    BY <1>3
  <2>3. m.step \in {"Handshake", "Login", "Connect"}
    BY <1>1 DEF Steps
  <2>4. QED
    BY <1>8, <1>9, <2>1, <2>2, <2>3 DEF ReadyFor, HasGranted, Stage
<1>12. ServerWrites(c, answer)
  BY <1>3
<1>13. answer.kind = "Response" /\ answer.step = m.step /\ answer.result = result
  BY <1>3 DEF Response
<1>14. answer \in ToClient
  <2>1. result \in Results
    BY <1>10 DEF Results
  <2>2. QED
    BY <1>1, <1>3, <2>1, MessageTypes
<1>15. Inbound(c)' \subseteq Inbound(c) \cup {answer}
  BY <1>2, <1>12, <1>14, WritesAdd DEF Inbound
<1>16. \A e \in Inbound(c) : e.step \notin Steps
  BY <1>7 DEF Inbound, Elements, Quiet
<1>17. Outbound(c)' \subseteq Outbound(c)
  BY <1>1, <1>5 DEF Outbound, InHand
<1>18. \A e \in Outbound(c)' : e.step \notin Steps
  BY <1>1, <1>7 DEF Outbound, InHand, Elements, Quiet
<1>19. Taken(c)'
  BY <1>1, <1>4 DEF Taken
<1>20. \A e \in Outbound(c)' : RequestFits(c, e)'
  <2> SUFFICES ASSUME NEW e \in Outbound(c)' PROVE RequestFits(c, e)'
    OBVIOUS
  <2>1. RequestFits(c, e)
    BY <1>17 DEF Consistent
  <2>2. e.step # "Connect"
    BY <1>18 DEF Steps
  <2>3. QED
    BY <1>4, <1>11, <1>18, <1>19, <2>1, <2>2 DEF RequestFits
<1>21. ResponseFits(c, answer)'
  BY <1>10, <1>11, <1>13, <1>19 DEF ResponseFits
<1>22. \A e \in Inbound(c) : ResponseFits(c, e)'
  BY <1>16, <1>19 DEF Consistent, ResponseFits
<1>23. Agreed(c)'
  BY <1>1, <1>2, <1>7 DEF Agreed, Gone
<1>24. QED
  BY <1>15, <1>20, <1>21, <1>22, <1>23 DEF Consistent

\* Every step of the server.
LEMMA ServerKeepsCoupling ==
    ASSUME TypeOK, SlotConsistent, TurnInv, Attached, ServerStep,
           NEW d \in Clients, Consistent(d), Unknown(d)
    PROVE  Consistent(d)' /\ Unknown(d)'
<1>1. /\ cSocket' = cSocket /\ cBuffer' = cBuffer /\ cCoupling' = cCoupling
      /\ Taken(d) => Taken(d)'
      /\ Unknown(d)'
  BY ServerLeavesClients, TakenStays DEF Unknown
<1>2. CASE \E c \in Clients : Accept(c)
  <2>1. PICK c \in Clients : Accept(c)
    BY <1>2
  <2>2. /\ toServer' = toServer /\ toClient' = toClient
        /\ mSocket' = c /\ sDevice' = c /\ sBuffer = <<>> /\ sBuffer' = <<>>
        /\ sCoupling' = NewHandler
        /\ ~Taken(c) /\ Taken(c)'
    BY <2>1, QueueTypes DEF Accept, Ready, Taken
  <2>3. Outbound(d)' \subseteq Outbound(d) /\ Inbound(d)' = Inbound(d)
    BY <1>1, <2>2 DEF Outbound, Inbound, InHand, Elements
  <2>4. CASE d # c
    BY <1>1, <2>2, <2>3, <2>4, ConsistentKept DEF Gone
  <2>5. CASE d = c
    <3>1. /\ sCoupling'.handshaked = FALSE /\ sCoupling'.authorized = FALSE /\ sCoupling'.coupled = FALSE
      BY <2>2 DEF NewHandler
    <3>2. \A m \in Outbound(d)' : RequestFits(d, m)'
      <4> SUFFICES ASSUME NEW m \in Outbound(d)' PROVE RequestFits(d, m)'
        OBVIOUS
      <4>1. m.step = "Handshake"
        BY <2>2, <2>3, <2>5 DEF Consistent, RequestFits
      <4>2. QED
        BY <2>2, <2>5, <3>1, <4>1 DEF RequestFits, ReadyFor, Stage
    <3>3. \A m \in Inbound(d)' : ResponseFits(d, m)'
      BY <2>2, <2>3, <2>5 DEF Consistent, ResponseFits
    <3>4. Agreed(d)'
      BY <1>1, <2>2, <2>5, <3>1 DEF Consistent, Agreed, Stage
    <3>5. QED
      BY <1>1, <3>2, <3>3, <3>4 DEF Consistent
  <2>6. QED
    BY <2>4, <2>5, <1>1
<1>3. CASE OnRequest
  <2>1. CASE sDevice = d
    BY <1>1, <1>3, <2>1, AnswerFits
  <2>2. CASE sDevice # d
    <3>1. /\ mSocket' = mSocket /\ mSocket # d
          /\ toServer' = toServer /\ sDevice' = sDevice /\ sDevice \in Clients
      BY <1>3, <2>2 DEF OnRequest, Receiving, Attached, TypeOK, ServerTypeOK
    <3>2. toClient'[d] = toClient[d]
      BY <1>3, <2>2, <3>1, QueueTypes DEF OnRequest, ServerWrites
    <3>3. Outbound(d)' = Outbound(d) /\ Inbound(d)' = Inbound(d)
      BY <1>1, <2>2, <3>1, <3>2 DEF Outbound, Inbound, InHand
    <3>4. QED
      BY <1>1, <3>1, <3>3, ConsistentKept DEF Gone
  <2>3. QED
    BY <2>1, <2>2
<1>4. CASE ~OnRequest /\ ~ \E c \in Clients : Accept(c)
  <2>1. ResponseFits(d, ActionRequest)' /\ ResponseFits(d, ActionResponse)'
    BY DEF ResponseFits, ActionRequest, ActionResponse, Request, Response, Steps
  <2>2. QED
    BY <1>1, <1>4, <2>1, ServerMessages, ConsistentKept DEF Gone
<1>5. QED
  BY <1>2, <1>3, <1>4

\* A client's step, for the server and for the other clients.
LEMMA ClientKeepsCoupling ==
    ASSUME TypeOK, TurnInv, ClientInv, CouplingInv, NEW c \in Clients, ClientStep(c)
    PROVE  CouplingInv'
<1>1. /\ posted'[Server] = posted[Server] /\ mSocket' = mSocket /\ sDevice' = sDevice
      /\ sCoupling' = sCoupling /\ \A d \in Clients : InHand(d)' = InHand(d)
  BY ClientLeavesServer, OwnMessages
<1>2. Consistent(c)' /\ Unknown(c)'
  BY OwnCouplingKept DEF CouplingInv
<1>3. \A d \in Clients : Taken(d) => Taken(d)'
  <2>1. ASSUME NEW d \in Clients, Taken(d), d # c
        PROVE  Taken(d)'
    BY <2>1, ClientLeavesOthers DEF Taken
  <2>2. Taken(c) => Taken(c)'
    <3>1. CASE Established(c)
      BY <3>1 DEF Established, CouplingInv, Unknown, Taken
    <3>2. CASE ~Established(c)
      <4>1. sSocket' = sSocket
        BY <3>2 DEF ClientStep, ClientLoop, ClientTimers, ConnectToHost, Refused, StartCoupling, ClientReadyRead,
                    OnAdmitted, OnConnectResponse, OnRefusal, ClientOnCoupled, ClientRemoteClosed,
                    DisconnectFromHost, ClientOnAction, ClientCrash, ClientTimeout, SendHeartbeat,
                    HeartbeatFails, UserDisconnect, HostLost, ClientSendAction, Fail, Vanish, linkVars
      <4>2. QED
        BY <4>1 DEF Taken
    <3>3. QED
      BY <3>1, <3>2
  <2>3. QED
    BY <2>1, <2>2
<1>4. ASSUME NEW d \in Clients, d # c
      PROVE  Consistent(d)' /\ Unknown(d)'
  <2>1. Consistent(d) /\ Unknown(d)
    BY DEF CouplingInv
  <2>2. /\ cSocket'[d] = cSocket[d] /\ sSocket'[d] = sSocket[d] /\ cCoupling'[d] = cCoupling[d]
        /\ Outbound(d)' = Outbound(d) /\ Inbound(d)' = Inbound(d)
    BY <1>1, <1>4, ClientLeavesOthers DEF Outbound, Inbound
  <2>3. QED
    BY <1>1, <1>3, <2>1, <2>2, ConsistentKept DEF Unknown, Gone
<1>5. Attached'
  <2>1. \A d : Waits(Server, "delete", d)' => Waits(Server, "delete", d)
    BY <1>1 DEF Waits, Event
  <2>2. mSocket \in Clients \cup {None} /\ sDevice \in Clients \cup {None}
    BY DEF TypeOK, ServerTypeOK
  <2>3. QED
    BY <1>1, <1>3, <2>1, <2>2 DEF CouplingInv, Attached
<1>6. QED
  BY <1>2, <1>4, <1>5 DEF CouplingInv

LEMMA CouplingInductive == Spec => []CouplingInv
<1>1. ASSUME Init
      PROVE  CouplingInv
  <2>1. Elements(<<>>) = {}
    BY DEF Elements
  <2>2. Attached
    BY <1>1, <2>1 DEF Init, LoopInit, ServerInit, Attached, Waits, Processes
  <2>3. \A c \in Clients : Outbound(c) = {} /\ Inbound(c) = {}
    BY <1>1, <2>1 DEF Init, LinkInit, ClientInit, ServerInit, Outbound, Inbound, InHand
  <2>4. \A c \in Clients : Agreed(c) /\ Unknown(c)
    BY <1>1 DEF Init, LinkInit, ClientInit, ServerInit, Agreed, Unknown
  <2>5. QED
    BY <2>2, <2>3, <2>4 DEF CouplingInv, Consistent
<1>2. IInv /\ TurnInv /\ ClientInv /\ CouplingInv /\ [Next]_vars => CouplingInv'
  <2> SUFFICES ASSUME IInv, TurnInv, ClientInv, CouplingInv, [Next]_vars
               PROVE  CouplingInv'
    OBVIOUS
  <2>1. CASE \E c \in Clients : ClientStep(c)
    BY <2>1, ClientKeepsCoupling DEF IInv
  <2>2. CASE ServerStep
    <3>1. Attached'
      BY <2>2, AttachedKept DEF IInv, CouplingInv
    <3>2. \A d \in Clients : Consistent(d)' /\ Unknown(d)'
      BY <2>2, ServerKeepsCoupling DEF IInv, CouplingInv
    <3>3. QED
      BY <3>1, <3>2 DEF CouplingInv
  <2>3. CASE UNCHANGED vars
    BY <2>3 DEF vars, linkVars, loopVars, clientVars, serverVars, CouplingInv, Attached, Consistent, Unknown,
                Outbound, Inbound, InHand, Agreed, Waits, Event, RequestFits, ResponseFits, Taken, Gone,
                Stage, ReadyFor, HasGranted
  <2>4. QED
    BY <2>1, <2>2, <2>3 DEF Next
<1>3. QED
  BY <1>1, <1>2, InductiveInvariant, TakingTurns, ClientInvInductive, PTL DEF Spec

\* The slot is held by a socket that is open or that will free it, and its
\* deletion is never queued while it holds the slot.
SlotOpenInv == SlotOpen /\ \A c \in Clients : Waits(Server, "delete", c) => mSocket # c

\* Only dropClient() takes a disconnected from the server's queue, and frees the
\* slot.
LEMMA EndsAwaited ==
    ASSUME TypeOK, ServerStep, mSocket' # None, NEW c \in Clients, Waits(Server, "disconnected", c)
    PROVE  Waits(Server, "disconnected", c)'
<1> DEFINE e == Event("disconnected", c)
<1>1. e \in Elements(posted[Server]) /\ LoopTypeOK /\ posted[Server] \in Seq(Events) /\ <<>> \in Seq(Events)
  BY DEF Waits, TypeOK, LoopTypeOK, Processes
<1>2. e \in Elements(posted'[Server]) => Waits(Server, "disconnected", c)'
  BY DEF Waits, Event
<1>3. ASSUME NEW evs \in Seq(Events), NEW src, Post(Server, src, evs)
      PROVE  e \in Elements(posted'[Server])
  BY <1>1, <1>3, ServerQueue
<1>4. ASSUME NEW evs \in Seq(Events), Deliver(Server, evs), posted[Server] # <<>>,
             Head(posted[Server]).ev # "disconnected"
      PROVE  e \in Elements(posted'[Server])
  <2>1. Head(posted[Server]) # e
    BY <1>4 DEF Event
  <2> HIDE DEF e
  <2>2. QED
    BY <1>1, <1>4, <2>1, ServerQueue
<1> HIDE DEF e
<1>5. CASE \E d \in Clients : \/ Accept(d) \/ AbortExcess(d) \/ ServerSendAction(d)
  BY <1>1, <1>2, <1>5 DEF Accept, AbortExcess, ServerSendAction, loopVars
<1>6. CASE OnHeartbeatEvent \/ ServerOnAction \/ StartServer
  BY <1>1, <1>2, <1>6 DEF OnHeartbeatEvent, ServerOnAction, StartServer, loopVars
<1>7. CASE \E d \in Clients : ServerReadyRead(d)
  BY <1>1, <1>2, <1>3, <1>7 DEF ServerReadyRead, Serve
<1>8. CASE \E d \in Clients : ServerRemoteClosed(d)
  <2>1. PICK d \in Clients : Post(Server, d, <<Event("disconnected", d)>>)
    BY <1>8 DEF ServerRemoteClosed, Serve
  <2>2. <<Event("disconnected", d)>> \in Seq(Events)
    BY OneEvent, Domains
  <2>3. QED
    BY <1>2, <1>3, <2>1, <2>2
<1>9. CASE OnRequest
  <2>1. sDevice \in Clients
    BY <1>9 DEF OnRequest, Receiving, TypeOK, ServerTypeOK
  <2>2. PICK evs \in Seq(Events) : Post(Server, sDevice, evs)
    BY <1>9, <2>1, OneEvent, Domains DEF OnRequest
  <2>3. QED
    BY <1>2, <1>3, <2>2
<1>10. CASE ServerTimeout
  <2>1. /\ Post(Server, "timer", <<Event("failed", mSocket)>>)
        /\ mSocket' = mSocket /\ mSocket \in Clients
    BY <1>10 DEF ServerTimeout, Serve, TypeOK, ServerTypeOK, serverVars
  <2>2. <<Event("failed", mSocket)>> \in Seq(Events)
    BY <2>1, OneEvent, Domains
  <2>3. QED
    BY <1>2, <1>3, <2>1, <2>2
<1>11. CASE \E d \in Clients : ServerOnCoupled(d) \/ DeleteSocket(d)
  <2>1. PICK d \in Clients : ServerOnCoupled(d) \/ DeleteSocket(d)
    BY <1>11
  <2>2. PICK evs \in Seq(Events) : Deliver(Server, evs)
    <3>1. <<Event("disconnected", d)>> \in Seq(Events)
      BY OneEvent, Domains
    <3>2. QED
      BY <1>1, <2>1, <3>1 DEF ServerOnCoupled, DeleteSocket
  <2>3. posted[Server] # <<>> /\ Head(posted[Server]).ev # "disconnected"
    BY <2>1 DEF ServerOnCoupled, DeleteSocket, Due, Event
  <2>4. QED
    BY <1>2, <1>4, <2>2, <2>3
<1>12. CASE \/ \E d \in Clients : DropClient(d) \/ CrashInOnCoupled(d)
            \/ CrashInRouter \/ StopServer \/ UserDropClient
  BY <1>12 DEF DropClient, CrashInOnCoupled, CrashInRouter, StopServer, UserDropClient, Shutdown, DropSlot
<1>13. QED
  BY <1>5, <1>6, <1>7, <1>8, <1>9, <1>10, <1>11, <1>12 DEF ServerStep, ServerLoop

LEMMA ServerKeepsSlotOpen ==
    ASSUME TypeOK, SlotConsistent, Attached, SlotOpenInv, ServerStep
    PROVE  SlotOpenInv'
<1>1. CASE \E c \in Clients : Accept(c)
  <2>1. PICK c \in Clients : Accept(c)
    BY <1>1
  <2>2. mSocket' = c /\ sSocket'[c] = "connected" /\ posted' = posted /\ ~Taken(c)
    BY <2>1, QueueTypes DEF Accept, Taken, loopVars
  <2>3. \A d \in Clients : Waits(Server, "delete", d)' <=> Waits(Server, "delete", d)
    BY <2>2 DEF Waits, Event
  <2>4. QED
    BY <2>2, <2>3 DEF SlotOpenInv, SlotOpen, Attached
<1>2. CASE mSocket' = None
  BY <1>2 DEF SlotOpenInv, SlotOpen
<1>3. CASE mSocket' # None /\ ~ \E c \in Clients : Accept(c)
  <2>1. mSocket' = mSocket /\ mSocket \in Clients
    BY <1>3
       DEF ServerStep, ServerLoop, AbortExcess, ServerReadyRead, ServerRemoteClosed, DropClient,
           ServerOnCoupled, CrashInOnCoupled, DeleteSocket, OnRequest, OnHeartbeatEvent, ServerOnAction,
           CrashInRouter, ServerTimeout, UserDropClient, ServerSendAction, StopServer, StartServer,
           Shutdown, DropSlot, serverVars, TypeOK, ServerTypeOK
  <2> DEFINE c == mSocket
  <2>2. \A d \in Clients : Waits(Server, "delete", d)' => mSocket' # d
    BY <1>3, <2>1, NewDeletions DEF SlotOpenInv
  <2>3. Waits(Server, "disconnected", c) => Waits(Server, "disconnected", c)'
    BY <1>3, <2>1, EndsAwaited
  <2>4. sSocket[c] = "connected" \/ (sSocket[c] = "unconnected" /\ Waits(Server, "disconnected", c))
    BY <1>3, <2>1 DEF SlotOpenInv, SlotOpen
  <2>5. sSocket'[c] = sSocket[c] \/ (sSocket'[c] = "unconnected" /\ Waits(Server, "disconnected", c)')
    <3>1. CASE \E d \in Clients : ServerRemoteClosed(d)
      <4>1. PICK d \in Clients : ServerRemoteClosed(d)
        BY <3>1
      <4>2. CASE d = c
        <5>1. /\ Post(Server, d, <<Event("disconnected", d)>>) /\ LoopTypeOK
              /\ sSocket'[d] = "unconnected"
          BY <4>1, QueueTypes DEF ServerRemoteClosed, Serve, TypeOK
        <5>2. <<Event("disconnected", d)>> \in Seq(Events)
          BY OneEvent, Domains
        <5>3. Event("disconnected", d) \in Elements(<<Event("disconnected", d)>>)
          BY DEF Elements
        <5>4. Event("disconnected", d) \in Elements(posted'[Server])
          BY <5>1, <5>2, <5>3, ServerQueue
        <5>5. QED
          BY <2>1, <4>2, <5>1, <5>4 DEF Waits, Event
      <4>3. CASE d # c
        BY <2>1, <4>1, <4>3, QueueTypes DEF ServerRemoteClosed
      <4>4. QED
        BY <4>2, <4>3
    <3>2. CASE \E d \in Clients : AbortExcess(d)
      BY <2>1, <2>4, <3>2, QueueTypes DEF AbortExcess
    <3>3. CASE \E d \in Clients : DeleteSocket(d)
      <4>1. PICK d \in Clients : DeleteSocket(d)
        BY <3>3
      <4>2. Waits(Server, "delete", d)
        <5>1. posted[Server] \in Seq(Events) /\ posted[Server] # <<>>
          BY <4>1 DEF DeleteSocket, Due, TypeOK, LoopTypeOK, Processes
        <5>2. Head(posted[Server]) \in Elements(posted[Server])
          BY <5>1, ElementsOfQueues
        <5>3. QED
          BY <4>1, <5>2 DEF DeleteSocket, Due, Waits
      <4>3. d # c
        BY <4>2 DEF SlotOpenInv
      <4>4. QED
        BY <2>1, <4>1, <4>3, QueueTypes DEF DeleteSocket
    <3>4. CASE ~ \E d \in Clients : ServerRemoteClosed(d) \/ AbortExcess(d) \/ DeleteSocket(d)
      <4>1. sSocket' = sSocket
        BY <1>3, <3>4
           DEF ServerStep, ServerLoop, ServerReadyRead, DropClient, ServerOnCoupled, CrashInOnCoupled,
               OnRequest, OnHeartbeatEvent, ServerOnAction, CrashInRouter, ServerTimeout, UserDropClient,
               ServerSendAction, StopServer, StartServer, Shutdown, DropSlot, linkVars
      <4>2. QED
        BY <4>1
    <3>5. QED
      BY <3>1, <3>2, <3>3, <3>4
  <2>6. SlotOpen'
    BY <2>1, <2>3, <2>4, <2>5 DEF SlotOpen, Waits, Event
  <2>7. QED
    BY <2>2, <2>6 DEF SlotOpenInv
<1>4. QED
  BY <1>1, <1>2, <1>3

\* A client's step changes the server's end of its own connection alone, and
\* that only as long as the server does not know it.
LEMMA ClientKeepsSlotOpen ==
    ASSUME TypeOK, CouplingInv, SlotOpenInv, NEW c \in Clients, ClientStep(c)
    PROVE  SlotOpenInv'
<1>1. posted'[Server] = posted[Server] /\ mSocket' = mSocket
  BY ClientLeavesServer
<1>2. mSocket # None => sSocket'[mSocket] = sSocket[mSocket]
  <2>1. CASE Established(c)
    <3>1. ~Taken(c)
      BY <2>1 DEF Established, CouplingInv, Unknown, Taken
    <3>2. mSocket # c
      BY <3>1 DEF CouplingInv, Attached
    <3>3. QED
      BY <2>1, <3>2, QueueTypes DEF Established, TypeOK, ServerTypeOK
  <2>2. CASE ~Established(c)
    BY <2>2 DEF ClientStep, ClientLoop, ClientTimers, ConnectToHost, Refused, StartCoupling, ClientReadyRead,
                OnAdmitted, OnConnectResponse, OnRefusal, ClientOnCoupled, ClientRemoteClosed,
                DisconnectFromHost, ClientOnAction, ClientCrash, ClientTimeout, SendHeartbeat,
                HeartbeatFails, UserDisconnect, HostLost, ClientSendAction, Fail, Vanish, linkVars
  <2>3. QED
    BY <2>1, <2>2
<1>3. QED
  BY <1>1, <1>2 DEF SlotOpenInv, SlotOpen, Waits, Event

LEMMA SlotOpenInductive == Spec => []SlotOpenInv
<1>1. Init => SlotOpenInv
  BY DEF Init, LoopInit, ServerInit, SlotOpenInv, SlotOpen, Waits, Elements, Processes
<1>2. TypeOK /\ SlotConsistent /\ CouplingInv /\ SlotOpenInv /\ [Next]_vars => SlotOpenInv'
  <2> SUFFICES ASSUME TypeOK, SlotConsistent, CouplingInv, SlotOpenInv, [Next]_vars
               PROVE  SlotOpenInv'
    OBVIOUS
  <2>1. CASE \E c \in Clients : ClientStep(c)
    BY <2>1, ClientKeepsSlotOpen
  <2>2. CASE ServerStep
    BY <2>2, ServerKeepsSlotOpen DEF CouplingInv
  <2>3. CASE UNCHANGED vars
    BY <2>3 DEF vars, linkVars, loopVars, serverVars, SlotOpenInv, SlotOpen, Waits, Event
  <2>4. QED
    BY <2>1, <2>2, <2>3 DEF Next
<1>3. QED
  BY <1>1, <1>2, CouplingInductive, TypeCorrect, SlotStaysConsistent, PTL DEF Spec

\* Nobody stalls for want of a signal, for any number of clients, also when the
\* application drops clients at any moment: the signal that must take a session
\* further, end it or free the slot is queued.  What remains to be fair is the
\* loop that delivers it.
THEOREM NothingIsForgotten == Spec => []NothingForgotten
<1>1. ClientInv => ClientsMoveOn
  <2> SUFFICES ASSUME NEW c \in Clients, NEW ev, Awaits(c, ev)
               PROVE  Waits(c, ev, c)
    BY DEF ClientInv, ClientEvents, ClientsMoveOn
  <2>1. posted[c][1] = Event(ev, c) /\ 1 \in DOMAIN posted[c]
    BY DEF Awaits
  <2>2. QED
    BY <2>1 DEF Waits, Elements
<1>2. QED
  BY <1>1, NoConnectionForgotten, SlotOpenInductive, ClientInvInductive, PTL DEF NothingForgotten, SlotOpenInv

\* When a client believes that it is coupled with the session that holds the
\* slot, the server does too, and knows this client's data port and no other:
\* whatever is lost, late or dropped in between, for any number of clients.
THEOREM BothSidesAgree == Spec => []CoupledTogether
<1>1. CouplingInv => CoupledTogether
  BY DEF CouplingInv, Consistent, Agreed, HasGranted, Stage, CoupledTogether
<1>2. QED
  BY <1>1, CouplingInductive, PTL

\* A client of this code never sends a request out of turn: the server refuses
\* it only by authorize().
THEOREM RefusedOnlyByLogin == Spec => []NeverOutOfTurn
<1>1. TypeOK /\ CouplingInv => NeverOutOfTurn
  <2> SUFFICES ASSUME TypeOK, CouplingInv, NEW c \in Clients,
                      NEW m \in Elements(toClient[c] \o cBuffer[c])
               PROVE  m.kind = "Response" =>
                          m.result = "Accepted" \/ (m.step = "Login" /\ m.result = "Rejected")
    BY DEF NeverOutOfTurn
  <2>1. toClient[c] \in Seq(ToClient) /\ cBuffer[c] \in Seq(ToClient)
    BY QueueTypes
  <2>2. PICK i \in DOMAIN (toClient[c] \o cBuffer[c]) : m = (toClient[c] \o cBuffer[c])[i]
    BY DEF Elements
  <2> DEFINE s == toClient[c]
             t == cBuffer[c]
  <2>3. m \in Elements(s) \cup Elements(t)
    <3>1. s \in Seq(ToClient) /\ t \in Seq(ToClient)
      BY <2>1
    <3>2. i \in DOMAIN (s \o t) /\ m = (s \o t)[i]
      BY <2>2
    <3> HIDE DEF s, t
    <3>3. CASE i \in DOMAIN s
      BY <3>1, <3>2, <3>3 DEF Elements
    <3>4. CASE i \notin DOMAIN s
      <4>1. i - Len(s) \in DOMAIN t /\ m = t[i - Len(s)]
        BY <3>1, <3>2, <3>4
      <4>2. QED
        BY <4>1 DEF Elements
    <3>5. QED
      BY <3>3, <3>4
  <2>4. QED
    BY <2>3 DEF CouplingInv, Consistent, ResponseFits, Inbound
<1>2. QED
  BY <1>1, CouplingInductive, TypeCorrect, PTL

-------------------------------------------------------------------------------
\* Nothing is under way to a client that has not begun its coupling, and no
\* action message as long as it has no action handler.
Routed(c) ==
    ~Gone(c) => /\ cCoupling[c] = "none" => Outbound(c) = {} /\ Inbound(c) = {}
                /\ ~cActions[c] => \A m \in Outbound(c) \cup Inbound(c) : m.step # "Action"

RoutedInv == \A c \in Clients : Routed(c)

LEMMA RoutedKept ==
    ASSUME NEW d \in Clients, Routed(d),
           ~Gone(d)' => ~Gone(d),
           Outbound(d)' \subseteq Outbound(d), Inbound(d)' \subseteq Inbound(d),
           ~Gone(d)' /\ cCoupling'[d] = "none" => cCoupling[d] = "none",
           ~Gone(d)' /\ ~cActions'[d] => ~cActions[d]
    PROVE  Routed(d)'
  BY DEF Routed

\* A message that the client sends fits what it has.
LEMMA RoutedSent ==
    ASSUME NEW c \in Clients, Routed(c), NEW m,
           ~Gone(c), Outbound(c)' \subseteq Outbound(c) \cup {m}, Inbound(c)' \subseteq Inbound(c),
           cCoupling'[c] # "none", cActions'[c] = cActions[c],
           m.step = "Action" => cActions[c]
    PROVE  Routed(c)'
  BY DEF Routed

LEMMA OwnRoutedKept ==
    ASSUME TypeOK, TurnInv, ClientInv, NEW c \in Clients, ClientStep(c), Routed(c)
    PROVE  Routed(c)'
<1>1. CASE ConnectToHost(c) \/ Established(c) \/ Refused(c)
  <2>1. /\ Outbound(c)' = Outbound(c) /\ Inbound(c)' = Inbound(c)
        /\ cCoupling' = cCoupling /\ cActions' = cActions
        /\ Gone(c)' <=> Gone(c)
    BY <1>1, OwnMessages, QueueTypes
       DEF ConnectToHost, Established, Refused, clientVars, Outbound, Inbound, Gone
  <2>2. QED
    BY <2>1, RoutedKept
<1>2. CASE StartCoupling(c)
  <2>1. /\ cCoupling'[c] = "waiting" /\ ~Gone(c) /\ cActions' = cActions
        /\ toClient' = toClient /\ cBuffer' = cBuffer
    BY <1>2, QueueTypes DEF StartCoupling, Gone
  <2>2. Outbound(c)' \subseteq Outbound(c) \cup {HandshakeRequest}
    BY <1>2, OwnMessages, WritesAdd, MessageTypes DEF StartCoupling, Outbound
  <2>3. HandshakeRequest.step = "Handshake"
    BY DEF HandshakeRequest, Request
  <2>4. QED
    BY <2>1, <2>2, <2>3, RoutedSent DEF Inbound
<1>3. CASE ClientReadyRead(c)
  <2>1. PICK r \in Reads(toClient[c]) :
            /\ cBuffer' = [cBuffer EXCEPT ![c] = Whole(toClient[c], r)]
            /\ toClient' = [toClient EXCEPT ![c] = Rest(toClient[c], r)]
    BY <1>3 DEF ClientReadyRead
  <2>2. toClient[c] \in Seq(ToClient)
    BY QueueTypes
  <2>3. /\ Elements(Whole(toClient[c], r)) \subseteq Elements(toClient[c])
        /\ Elements(Rest(toClient[c], r)) \subseteq Elements(toClient[c])
    BY <2>2, MessagesOfQueues
  <2>4. cBuffer'[c] = Whole(toClient[c], r) /\ toClient'[c] = Rest(toClient[c], r)
    BY <2>1, QueueTypes
  <2>5. Inbound(c)' \subseteq Inbound(c)
    BY <2>3, <2>4 DEF Inbound
  <2>6. cSocket' = cSocket /\ toServer' = toServer /\ cCoupling' = cCoupling /\ cActions' = cActions
    BY <1>3 DEF ClientReadyRead
  <2>7. QED
    BY <2>5, <2>6, OwnMessages, RoutedKept DEF Outbound, Gone
<1>4. CASE OnAdmitted(c) \/ OnConnectResponse(c) \/ SendHeartbeat(c) \/ ClientSendAction(c) \/ ClientOnAction(c)
  <2>1. PICK m \in ToServer : /\ ClientWrites(c, m) \/ toServer' = toServer
                              /\ m.step = "Action" => cActions[c]
    <3>1. CASE OnAdmitted(c)
      <4>1. PICK step \in {"Handshake", "Login"} : ClientWrites(c, Following(c, step))
        BY <3>1 DEF OnAdmitted
      <4>2. Following(c, step) \in ToServer /\ Following(c, step).step # "Action"
        BY MessageTypes DEF Following, LoginRequest, ConnectRequest, Request
      <4>3. QED
        BY <4>1, <4>2
    <3>2. CASE OnConnectResponse(c) \/ SendHeartbeat(c)
      <4>1. ClientWrites(c, HeartbeatEvent)
        BY <3>2 DEF OnConnectResponse, SendHeartbeat
      <4>2. HeartbeatEvent \in ToServer /\ HeartbeatEvent.step # "Action"
        BY MessageTypes DEF HeartbeatEvent, Request
      <4>3. QED
        BY <4>1, <4>2
    <3>3. CASE ClientSendAction(c) \/ ClientOnAction(c)
      <4>1. ClientWrites(c, ActionRequest) \/ ClientWrites(c, ActionResponse) \/ toServer' = toServer
        BY <3>3 DEF ClientSendAction, ClientOnAction
      <4>2. cActions[c]
        BY <3>3 DEF ClientSendAction, ClientOnAction
      <4>3. QED
        BY <4>1, <4>2, OtherMessages
    <3>4. QED
      BY <1>4, <3>1, <3>2, <3>3
  <2>2. /\ cActions' = cActions /\ toClient' = toClient
        /\ cBuffer' = cBuffer \/ (NextMessage(c) /\ cBuffer[c] # <<>>)
    BY <1>4 DEF OnAdmitted, OnConnectResponse, SendHeartbeat, ClientSendAction, ClientOnAction, Receives, Idle,
                clientVars
  <2>3. ~Gone(c)
    BY <1>4 DEF OnAdmitted, OnConnectResponse, SendHeartbeat, ClientSendAction, ClientOnAction, Receives, Idle,
                TurnInv, Departed, Gone
  <2>4. cCoupling'[c] # "none"
    <3>1. CASE OnAdmitted(c)
      <4>1. cCoupling[c] # "none" /\ cCoupling' = cCoupling
        BY <3>1 DEF OnAdmitted, Receives, Steps
      <4>2. QED
        BY <4>1
    <3>2. CASE OnConnectResponse(c)
      BY <3>2, QueueTypes DEF OnConnectResponse
    <3>3. CASE SendHeartbeat(c) \/ ClientSendAction(c) \/ ClientOnAction(c)
      BY <3>3 DEF SendHeartbeat, ClientSendAction, ClientOnAction, ClientInv, ClientObjects, clientVars
    <3>4. QED
      BY <1>4, <3>1, <3>2, <3>3
  <2>5. Outbound(c)' \subseteq Outbound(c) \cup {m}
    BY <2>1, OwnMessages, WritesAdd DEF Outbound
  <2>6. Inbound(c)' \subseteq Inbound(c)
    BY <2>2, OwnMessages DEF Inbound
  <2>7. QED
    BY <2>1, <2>2, <2>3, <2>4, <2>5, <2>6, RoutedSent
<1>5. CASE OnRefusal(c) \/ ClientTimeout(c) \/ HeartbeatFails(c)
  <2>1. PICK src : Fail(c, src)
    BY <1>5 DEF OnRefusal, ClientTimeout, HeartbeatFails
  <2>2. ~Gone(c)
    BY <1>5 DEF OnRefusal, ClientTimeout, HeartbeatFails, Receives, Idle, Departed, TurnInv
  <2>3. /\ toClient'[c] = <<>> /\ cBuffer'[c] = <<>> /\ toServer' = toServer
        /\ cCoupling' = cCoupling /\ cActions' = cActions
    BY <2>1, QueueTypes DEF Fail
  <2>4. QED
    BY <2>2, <2>3, OwnMessages, RoutedKept DEF Outbound, Inbound
<1>6. CASE ClientOnCoupled(c) \/ ClientRemoteClosed(c)
  <2>1. /\ Gone(c)' <=> Gone(c)
        /\ toClient'[c] = toClient[c] \/ toClient'[c] = <<>>
        /\ toServer' = toServer /\ cBuffer' = cBuffer /\ cCoupling' = cCoupling
        /\ cActions[c] => cActions'[c]
    BY <1>6, QueueTypes DEF ClientOnCoupled, ClientRemoteClosed, linkVars, clientVars, Gone
  <2>2. QED
    BY <2>1, OwnMessages, RoutedKept DEF Outbound, Inbound
<1>7. CASE DisconnectFromHost(c) \/ UserDisconnect(c) \/ HostLost(c) \/ ClientCrash(c)
  <2>1. Gone(c)'
    BY <1>7, QueueTypes DEF DisconnectFromHost, UserDisconnect, HostLost, ClientCrash, Vanish, Gone
  <2>2. QED
    BY <2>1 DEF Routed
<1>8. QED
  BY <1>1, <1>2, <1>3, <1>4, <1>5, <1>6, <1>7 DEF ClientStep, ClientLoop, ClientTimers

LEMMA ServerKeepsRouted ==
    ASSUME TypeOK, ServerStep, Server \notin Actors, NEW d \in Clients, Routed(d)
    PROVE  Routed(d)'
<1>1. cSocket' = cSocket /\ cBuffer' = cBuffer /\ cCoupling' = cCoupling /\ cActions' = cActions
  BY ServerLeavesClients
<1>2. CASE \E c \in Clients : Accept(c)
  <2>1. /\ toServer' = toServer /\ toClient' = toClient /\ sBuffer' = <<>>
    BY <1>2 DEF Accept, Ready
  <2>2. Outbound(d)' \subseteq Outbound(d) /\ Inbound(d)' = Inbound(d)
    BY <1>1, <2>1 DEF Outbound, Inbound, InHand, Elements
  <2>3. QED
    BY <1>1, <2>2, RoutedKept DEF Gone
<1>3. CASE OnRequest
  <2>1. PICK answer : ServerWrites(sDevice, answer) /\ answer.step = Head(sBuffer).step
    BY <1>3 DEF OnRequest, Response
  <2>2. /\ sBuffer # <<>> /\ sBuffer' = Tail(sBuffer) /\ toServer' = toServer
        /\ sDevice \in Clients /\ sDevice' = sDevice /\ Head(sBuffer).step \in Steps
        /\ sBuffer \in Seq(ToServer)
    BY <1>3, QueueTypes DEF OnRequest, Receiving, TypeOK, ServerTypeOK
  <2>3. Head(sBuffer) \in Elements(sBuffer) /\ Elements(Tail(sBuffer)) \subseteq Elements(sBuffer)
    BY <2>2, MessagesOfQueues
  <2>4. Outbound(d)' \subseteq Outbound(d)
    BY <2>2, <2>3 DEF Outbound, InHand
  <2>5. CASE d # sDevice
    <3>1. toClient'[d] = toClient[d]
      BY <2>1, <2>2, <2>5, QueueTypes DEF ServerWrites
    <3>2. QED
      BY <1>1, <2>4, <3>1, RoutedKept DEF Gone, Inbound
  <2>6. CASE d = sDevice
    <3>1. Head(sBuffer) \in Outbound(d)
      BY <2>3, <2>6 DEF Outbound, InHand
    <3>2. toClient'[d] = toClient[d] \/ toClient'[d] = Append(toClient[d], answer)
      BY <2>1, <2>2, <2>6, QueueTypes DEF ServerWrites
    <3>3. Elements(toClient'[d]) \subseteq Elements(toClient[d]) \cup {answer}
      <4>1. toClient[d] \in Seq(ToClient \cup {answer}) /\ answer \in ToClient \cup {answer}
        BY QueueTypes
      <4>2. Elements(Append(toClient[d], answer)) = Elements(toClient[d]) \cup {answer}
        BY <4>1, MessagesOfQueues
      <4>3. QED
        BY <3>2, <4>2
    <3>4. Inbound(d)' \subseteq Inbound(d) \cup {answer} /\ answer.step # "Action"
      BY <1>1, <2>1, <2>2, <3>3 DEF Inbound, Steps
    <3>5. QED
      BY <1>1, <2>4, <3>1, <3>4 DEF Routed, Gone
  <2>7. QED
    BY <2>5, <2>6
<1>4. CASE ~OnRequest /\ ~ \E c \in Clients : Accept(c)
  <2>1. /\ Outbound(d)' \subseteq Outbound(d)
        /\ Inbound(d)' \subseteq Inbound(d) \cup {ActionRequest, ActionResponse}
        /\ Inbound(d)' \subseteq Inbound(d) \/ \E m \in Outbound(d) : m.step = "Action"
    BY <1>4, ServerMessages
  <2>2. CASE Inbound(d)' \subseteq Inbound(d)
    BY <1>1, <2>1, <2>2, RoutedKept DEF Gone
  <2>3. CASE \E m \in Outbound(d) : m.step = "Action"
    BY <1>1, <2>1, <2>3 DEF Routed, Gone
  <2>4. QED
    BY <2>1, <2>2, <2>3
<1>5. QED
  BY <1>2, <1>3, <1>4

\* As long as the server's application sends no action of its own, every
\* message that a client reads finds its handler: the action handler is made
\* before the client's first action, and the answers follow the requests.
THEOREM ClientMessagesRouted ==
    ASSUME Server \notin Actors
    PROVE  Spec => []ClientRoutes
<1>1. Init => RoutedInv
  <2>1. Elements(<<>>) = {}
    BY DEF Elements
  <2>2. QED
    BY <2>1 DEF Init, LinkInit, ClientInit, ServerInit, RoutedInv, Routed, Outbound, Inbound, InHand
<1>2. IInv /\ TurnInv /\ ClientInv /\ RoutedInv /\ [Next]_vars => RoutedInv'
  <2> SUFFICES ASSUME IInv, TurnInv, ClientInv, RoutedInv, [Next]_vars, NEW d \in Clients
               PROVE  Routed(d)'
    BY DEF RoutedInv
  <2>1. TypeOK /\ Routed(d)
    BY DEF IInv, RoutedInv
  <2>2. ASSUME NEW c \in Clients, ClientStep(c)
        PROVE  Routed(d)'
    <3>1. CASE c = d
      BY <2>1, <2>2, <3>1, OwnRoutedKept
    <3>2. CASE c # d
      BY <2>1, <2>2, <3>2, ClientLeavesOthers, OwnMessages, RoutedKept DEF Outbound, Inbound, Gone
    <3>3. QED
      BY <3>1, <3>2
  <2>3. CASE ServerStep
    BY <2>1, <2>3, ServerKeepsRouted
  <2>4. CASE UNCHANGED vars
    BY <2>1, <2>4 DEF vars, linkVars, loopVars, clientVars, serverVars, Routed, Outbound, Inbound, InHand, Gone
  <2>5. QED
    BY <2>2, <2>3, <2>4 DEF Next
<1>3. TypeOK /\ TurnInv /\ RoutedInv => ClientRoutes
  <2> SUFFICES ASSUME TypeOK, TurnInv, RoutedInv, NEW c \in Clients, ~Idle(c)
               PROVE  IF Head(cBuffer[c]).step = "Action" THEN cActions[c] ELSE cCoupling[c] # "none"
    BY DEF ClientRoutes
  <2>1. Routed(c) /\ ~Gone(c)
    BY DEF RoutedInv, TurnInv, Departed, Idle
  <2>2. Head(cBuffer[c]) \in Inbound(c)
    BY QueueTypes, MessagesOfQueues DEF Idle, Inbound
  <2>3. QED
    BY <2>1, <2>2 DEF Routed
<1>4. QED
  BY <1>1, <1>2, <1>3, InductiveInvariant, TakingTurns, ClientInvInductive, TypeCorrect, PTL DEF Spec

-------------------------------------------------------------------------------
\* What separates one session from the next.  A free slot has nothing in hand,
\* and a pass of the loop that serves sockets never carries an event into it.
FreeSlot == mSocket = None =>
                sBuffer = <<>> /\ (posted[Server] # <<>> => served[Server] = {})

\* An event waits for the session that holds the slot or comes after its end.
OfThisSession == \A e \in Elements(posted[Server]) :
                     IF e.ev = "delete" THEN mSocket = None ELSE mSocket \in {None, e.c}

\* While events wait in the pass they were posted in, it has served the slot's
\* socket or the timers: that socket is not served again.
SlotServed == mSocket # None /\ posted[Server] # <<>> /\ served[Server] # {} =>
                  mSocket \in served[Server] \/ "timer" \in served[Server]

\* coupled is the first event that waits, and finds what onCoupled() asserts.
CoupledFirst == \A i \in DOMAIN posted[Server] : posted[Server][i].ev = "coupled" =>
                    i = 1 /\ mSocket # None /\ sCoupling.coupled /\ ~sActions

\* While a batch is handed over, only the coupled of this batch can wait.
CoupledInHand == sBuffer # <<>> /\ posted[Server] # <<>> =>
                     posted[Server] = <<Event("coupled", mSocket)>> /\ mSocket \in served[Server]

\* A coupled session has its action handler, or its coupled waits.
Announcing == /\ sActions => sCoupling.coupled
              /\ sCoupling.coupled => sActions \/ Waits(Server, "coupled", mSocket)

ActionsInHand == \A m \in Elements(sBuffer) : m.step = "Action" => sActions

SessionInv == /\ DeviceOfTheSlot /\ FreeSlot /\ OfThisSession /\ SlotServed
              /\ CoupledFirst /\ CoupledInHand /\ Announcing /\ ActionsInHand

\* The server's queue and what it has served, after an operation of its loop.
LEMMA ServerLoopAfter ==
    ASSUME TypeOK
    PROVE  /\ posted[Server] \in Seq(Events)
           /\ \A src, evs : Post(Server, src, evs) =>
                  /\ posted'[Server] = posted[Server] \o evs
                  /\ served'[Server] = IF posted[Server] \o evs = <<>> THEN {}
                                       ELSE served[Server] \cup {src}
           /\ \A evs : Deliver(Server, evs) =>
                  posted'[Server] = Tail(posted[Server]) \o evs /\ served'[Server] = {}
           /\ Forget(Server) => posted'[Server] = <<>> /\ served'[Server] = {}
  BY DEF TypeOK, LoopTypeOK, Processes, Post, Deliver, Forget

\* The places of the events in the queue.
LEMMA EventPlaces ==
    ASSUME NEW q \in Seq(Events)
    PROVE  /\ q \o <<>> = q
           /\ \A e \in Events :
                  /\ <<>> \o <<e>> = <<e>> /\ q \o <<e>> # <<>>
                  /\ \A i \in DOMAIN (q \o <<e>>) : \/ i \in DOMAIN q /\ (q \o <<e>>)[i] = q[i]
                                                    \/ (q \o <<e>>)[i] = e
                  /\ Elements(q \o <<e>>) = Elements(q) \cup {e}
                  /\ Elements(<<e>>) = {e}
           /\ q # <<>> => /\ Tail(q) \in Seq(Events)
                          /\ \A i \in DOMAIN Tail(q) : /\ i + 1 \in DOMAIN q /\ i + 1 # 1
                                                       /\ Tail(q)[i] = q[i + 1]
                          /\ Elements(Tail(q)) \subseteq Elements(q)
                          /\ Head(q) \in Elements(q) /\ 1 \in DOMAIN q /\ q[1] = Head(q)
           /\ Elements(<<>>) = {} /\ DOMAIN <<>> = {}
<1>1. Elements(<<>>) = {} /\ DOMAIN <<>> = {}
  BY DEF Elements
<1>2. \A e : Elements(<<e>>) = {e}
  BY DEF Elements
<1>3. ASSUME NEW e \in Events
      PROVE  /\ <<>> \o <<e>> = <<e>> /\ q \o <<e>> # <<>>
             /\ \A i \in DOMAIN (q \o <<e>>) : \/ i \in DOMAIN q /\ (q \o <<e>>)[i] = q[i]
                                               \/ (q \o <<e>>)[i] = e
             /\ Elements(q \o <<e>>) = Elements(q) \cup {e}
  <2>1. <<e>> \in Seq(Events)
    OBVIOUS
  <2>2. Elements(q \o <<e>>) = Elements(q) \cup {e}
    <3>1. Elements(q \o <<e>>) = Elements(q) \cup Elements(<<e>>)
      BY <2>1, ElementsOfQueues
    <3>2. QED
      BY <1>2, <3>1
  <2>3. <<>> \o <<e>> = <<e>> /\ q \o <<e>> # <<>>
    OBVIOUS
  <2>4. \A i \in DOMAIN (q \o <<e>>) : \/ i \in DOMAIN q /\ (q \o <<e>>)[i] = q[i]
                                       \/ (q \o <<e>>)[i] = e
    OBVIOUS
  <2>5. QED
    BY <2>2, <2>3, <2>4
<1>4. ASSUME q # <<>>
      PROVE  /\ Tail(q) \in Seq(Events)
             /\ \A i \in DOMAIN Tail(q) : /\ i + 1 \in DOMAIN q /\ i + 1 # 1
                                          /\ Tail(q)[i] = q[i + 1]
             /\ Elements(Tail(q)) \subseteq Elements(q)
             /\ Head(q) \in Elements(q) /\ 1 \in DOMAIN q /\ q[1] = Head(q)
  <2>1. Elements(Tail(q)) \subseteq Elements(q) /\ Head(q) \in Elements(q)
    BY <1>4, ElementsOfQueues
  <2>2. QED
    BY <1>4, <2>1
<1>5. q \o <<>> = q
  OBVIOUS
<1>6. QED
  BY <1>1, <1>2, <1>3, <1>4, <1>5

\* The client's steps leave all of this alone.
LEMMA ClientLeavesServerLoop ==
    ASSUME TypeOK, NEW c \in Clients, ClientStep(c)
    PROVE  posted'[Server] = posted[Server] /\ served'[Server] = served[Server]
<1>1. /\ posted \in [Processes -> Seq(Events)]
      /\ served \in [Processes -> SUBSET Sources]
      /\ c # Server /\ Server \in Processes
  BY DEF TypeOK, LoopTypeOK, Processes
<1>2. /\ \A src, evs : Post(c, src, evs) => posted'[Server] = posted[Server] /\ served'[Server] = served[Server]
      /\ \A evs : Deliver(c, evs) => posted'[Server] = posted[Server] /\ served'[Server] = served[Server]
      /\ Forget(c) => posted'[Server] = posted[Server] /\ served'[Server] = served[Server]
  BY <1>1 DEF Post, Deliver, Forget
<1>3. CASE \/ ConnectToHost(c) \/ Established(c) \/ Refused(c) \/ StartCoupling(c)
           \/ ClientReadyRead(c) \/ OnAdmitted(c)
  BY <1>2, <1>3 DEF ConnectToHost, Established, Refused, StartCoupling, ClientReadyRead, OnAdmitted, Serve, loopVars
<1>4. CASE OnConnectResponse(c) \/ OnRefusal(c) \/ ClientOnCoupled(c) \/ ClientRemoteClosed(c) \/ ClientTimers(c)
  BY <1>2, <1>4 DEF OnConnectResponse, OnRefusal, ClientOnCoupled, ClientRemoteClosed, ClientTimers, ClientTimeout,
                    SendHeartbeat, HeartbeatFails, Fail, Serve
<1>5. CASE DisconnectFromHost(c) \/ UserDisconnect(c) \/ HostLost(c) \/ ClientCrash(c)
           \/ ClientOnAction(c) \/ ClientSendAction(c)
  BY <1>2, <1>5 DEF DisconnectFromHost, UserDisconnect, HostLost, ClientCrash, Vanish, ClientOnAction,
                    ClientSendAction, loopVars
<1>6. QED
  BY <1>3, <1>4, <1>5 DEF ClientStep, ClientLoop

\* Without drops by the application, a socket whose notifier fires holds the
\* slot, and no event waits for the server.
LEMMA NotifierOfTheSlot ==
    ASSUME TypeOK, NoSocketLeak, SessionInv, NEW c \in Clients, sSocket[c] = "connected",
           CanServe(Server, c)
    PROVE  mSocket = c /\ posted[Server] = <<>>
<1>1. mSocket = c
  <2> SUFFICES ASSUME mSocket # c PROVE FALSE
    OBVIOUS
  <2>1. Waits(Server, "delete", c)
    BY DEF NoSocketLeak
  <2>2. mSocket = None
    BY <2>1 DEF Waits, SessionInv, OfThisSession, Event
  <2>3. posted[Server] # <<>>
    BY <2>1 DEF Waits, Elements
  <2>4. QED
    BY <2>2, <2>3 DEF SessionInv, FreeSlot, CanServe
<1>2. mSocket # None
  BY <1>1
<1>3. QED
  BY <1>1, <1>2 DEF SessionInv, SlotServed, CanServe

\* A step that leaves the slot's session and the server's loop alone.
LEMMA SessionKept ==
    ASSUME SessionInv, UNCHANGED <<mSocket, sDevice, sLinks, sActions>>,
           posted'[Server] = posted[Server], served'[Server] = served[Server],
           sCoupling'.coupled = sCoupling.coupled,
           sBuffer' # <<>> => sBuffer # <<>>,
           Elements(sBuffer') \subseteq Elements(sBuffer)
    PROVE  SessionInv'
<1>1. DeviceOfTheSlot' /\ FreeSlot' /\ SlotServed'
  BY DEF SessionInv, DeviceOfTheSlot, FreeSlot, SlotServed
<1>2. OfThisSession' /\ CoupledFirst' /\ CoupledInHand'
  BY DEF SessionInv, OfThisSession, CoupledFirst, CoupledInHand, Event
<1>3. Announcing' /\ ActionsInHand'
  BY DEF SessionInv, Announcing, ActionsInHand, Waits, Event
<1>4. QED
  BY <1>1, <1>2, <1>3 DEF SessionInv

\* A slot that is free, with nothing in hand.
LEMMA FreedSlot ==
    ASSUME mSocket' = None, sBuffer' = <<>>, served'[Server] = {}, ~sActions', ~sCoupling'.coupled,
           \A i \in DOMAIN posted'[Server] : posted'[Server][i].ev # "coupled"
    PROVE  SessionInv'
<1>1. DeviceOfTheSlot' /\ FreeSlot' /\ SlotServed'
  BY DEF DeviceOfTheSlot, FreeSlot, SlotServed
<1>2. OfThisSession' /\ CoupledFirst' /\ CoupledInHand'
  BY DEF OfThisSession, CoupledFirst, CoupledInHand
<1>3. Announcing' /\ ActionsInHand'
  BY DEF Announcing, ActionsInHand, Elements
<1>4. QED
  BY <1>1, <1>2, <1>3 DEF SessionInv

\* A free slot has no coupling.
LEMMA FreeUncoupled ==
    ASSUME TypeOK, SlotConsistent, SessionInv, mSocket = None
    PROVE  ~sActions /\ ~sCoupling.coupled
<1>1. ~sActions
  BY DEF SlotConsistent, TypeOK, ServerTypeOK, HandlerType
<1>2. ASSUME Waits(Server, "coupled", mSocket)
      PROVE  FALSE
  <2>1. PICK i \in DOMAIN posted[Server] : posted[Server][i] = Event("coupled", mSocket)
    BY <1>2 DEF Waits, Elements
  <2>2. QED
    BY <2>1 DEF SessionInv, CoupledFirst, Event
<1>3. QED
  BY <1>1, <1>2 DEF SessionInv, Announcing

\* An event of the session joins the queue while nothing is in hand, and its
\* source counts as served.
LEMMA SessionPosts ==
    ASSUME TypeOK, SessionInv, NEW ev \in {"failed", "disconnected"}, NEW src, mSocket \in Clients,
           Post(Server, src, <<Event(ev, mSocket)>>), src \in {mSocket, "timer"}, sBuffer = <<>>,
           UNCHANGED serverVars
    PROVE  SessionInv'
<1> DEFINE e == Event(ev, mSocket)
           q == posted[Server]
<1>1. e \in Events /\ e.ev \notin {"coupled", "delete"} /\ e.c = mSocket
  BY DEF Event, Events, EventNames
<1>2. /\ q \in Seq(Events) /\ mSocket # None
      /\ mSocket' = mSocket /\ sDevice' = sDevice /\ sLinks' = sLinks /\ sActions' = sActions
      /\ sCoupling' = sCoupling /\ sBuffer' = <<>>
  BY ServerLoopAfter DEF serverVars
<1> HIDE DEF e, q
<1>3. /\ posted'[Server] = q \o <<e>>
      /\ q \o <<e>> # <<>>
      /\ served'[Server] = served[Server] \cup {src}
  <2>1. q \o <<e>> # <<>>
    BY <1>1, <1>2, EventPlaces
  <2>2. QED
    BY <2>1, ServerLoopAfter DEF q, e
<1>4. /\ \A i \in DOMAIN (q \o <<e>>) : (i \in DOMAIN q /\ (q \o <<e>>)[i] = q[i]) \/ (q \o <<e>>)[i] = e
      /\ Elements(q \o <<e>>) = Elements(q) \cup {e}
  BY <1>1, <1>2, EventPlaces
<1>5. DeviceOfTheSlot' /\ FreeSlot' /\ SlotServed'
  BY <1>2, <1>3 DEF SessionInv, DeviceOfTheSlot, FreeSlot, SlotServed
<1>6. OfThisSession'
  BY <1>1, <1>2, <1>3, <1>4 DEF SessionInv, OfThisSession, q
<1>7. CoupledFirst'
  <2> SUFFICES ASSUME NEW i \in DOMAIN (q \o <<e>>), (q \o <<e>>)[i].ev = "coupled"
               PROVE  i = 1 /\ mSocket # None /\ sCoupling.coupled /\ ~sActions
    BY <1>2, <1>3 DEF CoupledFirst
  <2>1. i \in DOMAIN q /\ q[i].ev = "coupled"
    BY <1>1, <1>4
  <2>2. QED
    BY <2>1 DEF SessionInv, CoupledFirst, q
<1>8. CoupledInHand' /\ ActionsInHand'
  BY <1>2 DEF CoupledInHand, ActionsInHand, Elements
<1>9. Announcing'
  BY <1>2, <1>3, <1>4 DEF SessionInv, Announcing, Waits, Event, q
<1>10. QED
  BY <1>5, <1>6, <1>7, <1>8, <1>9 DEF SessionInv

\* The answer to a request: only the last one announces the coupling.
LEMMA AnswerKeepsSession ==
    ASSUME TypeOK, SlotConsistent, CouplingInv, SessionInv, OnRequest
    PROVE  SessionInv'
<1>0. PICK m : m = Head(sBuffer)
  OBVIOUS
<1>1. /\ sBuffer # <<>> /\ sBuffer' = Tail(sBuffer) /\ sBuffer \in Seq(ToServer)
      /\ sDevice \in Clients /\ sDevice' = sDevice /\ m.step \in Steps
      /\ mSocket' = mSocket /\ sActions' = sActions /\ sLinks' = sLinks
      /\ sCoupling.alive /\ sCoupling \in HandlerType /\ sActions \in BOOLEAN
  BY <1>0, QueueTypes DEF OnRequest, Receiving, TypeOK, ServerTypeOK
<1>1a. PICK authorized \in BOOLEAN : \E result, evs :
          /\ result = ResultOf(sCoupling, m.step, authorized)
          /\ sCoupling' = Answered(sCoupling, m.step, m.port, result)
          /\ evs = IF m.step = "Connect" /\ result = "Accepted" THEN <<Event("coupled", sDevice)>> ELSE <<>>
          /\ Post(Server, sDevice, evs)
  BY <1>0 DEF OnRequest
<1>2. PICK result, evs :
          /\ result = ResultOf(sCoupling, m.step, authorized)
          /\ sCoupling' = Answered(sCoupling, m.step, m.port, result)
          /\ evs = IF m.step = "Connect" /\ result = "Accepted" THEN <<Event("coupled", sDevice)>> ELSE <<>>
          /\ Post(Server, sDevice, evs)
  BY <1>1a
<1>3. mSocket = sDevice /\ mSocket # None
  BY <1>1 DEF SlotConsistent, SessionInv, DeviceOfTheSlot
<1>4. /\ m \in Elements(sBuffer) /\ m \in ToServer
      /\ Elements(sBuffer') \subseteq Elements(sBuffer)
  BY <1>0, <1>1, MessagesOfQueues
<1>5. RequestFits(sDevice, m)
  BY <1>1, <1>4 DEF CouplingInv, Consistent, Outbound, InHand
<1>6. ~sCoupling.coupled
  BY <1>1, <1>3, <1>5 DEF RequestFits, ReadyFor, Stage
<1>7. ~sActions
  BY <1>6 DEF SessionInv, Announcing
<1>8. posted[Server] = <<>>
  <2> SUFFICES ASSUME posted[Server] # <<>> PROVE FALSE
    OBVIOUS
  <2>1. posted[Server] = <<Event("coupled", mSocket)>>
    BY <1>1 DEF SessionInv, CoupledInHand
  <2>2. 1 \in DOMAIN posted[Server] /\ posted[Server][1].ev = "coupled"
    BY <2>1 DEF Event
  <2>3. QED
    BY <1>6, <2>2 DEF SessionInv, CoupledFirst
<1>9. sCoupling'.coupled = (m.step = "Connect" /\ result = "Accepted")
  <2>1. /\ m.port \in Ports \cup {NoPort}
        /\ m.step = "Connect" => m.port \in Ports
    BY <1>1, <1>4, <1>5 DEF ToServer, Requests, Request, ActionResponse, Response, Steps, RequestFits
  <2>2. sCoupling'.coupled = (sCoupling.coupled \/ (result = "Accepted" /\ m.step = "Connect"))
    BY <1>1, <1>2, <2>1, AnsweredEffect
  <2>3. QED
    BY <1>6, <2>2
<1>10. ActionsInHand'
  BY <1>1, <1>4 DEF SessionInv, ActionsInHand
<1>11. DeviceOfTheSlot'
  BY <1>1 DEF SessionInv, DeviceOfTheSlot
<1>12. FreeSlot'
  BY <1>1, <1>3 DEF FreeSlot
<1>13. CASE m.step = "Connect" /\ result = "Accepted"
  <2> DEFINE e == Event("coupled", sDevice)
  <2>1. /\ posted'[Server] = <<e>>
        /\ served'[Server] = served[Server] \cup {sDevice}
        /\ Elements(<<e>>) = {e} /\ DOMAIN <<e>> = {1}
        /\ e.ev = "coupled" /\ e.c = sDevice
        /\ sCoupling'.coupled
    <3>1. Post(Server, sDevice, <<e>>)
      BY <1>2, <1>13
    <3>2. <<>> \o <<e>> = <<e>> /\ <<e>> # <<>>
      OBVIOUS
    <3>3. posted'[Server] = <<e>> /\ served'[Server] = served[Server] \cup {sDevice}
      BY <1>8, <3>1, <3>2, ServerLoopAfter
    <3>4. Elements(<<e>>) = {e} /\ DOMAIN <<e>> = {1}
      BY DEF Elements
    <3>5. QED
      BY <1>9, <1>13, <3>3, <3>4 DEF Event
  <2>2. \A i \in DOMAIN <<e>> : i = 1
    BY <2>1
  <2>3. OfThisSession' /\ SlotServed'
    <3>1. Elements(posted'[Server]) = {e}
      BY <2>1
    <3>2. QED
      BY <1>1, <1>3, <2>1, <3>1 DEF OfThisSession, SlotServed
  <2>4. CoupledFirst'
    BY <1>1, <1>3, <1>7, <2>1, <2>2 DEF CoupledFirst
  <2>5. CoupledInHand'
    BY <1>1, <1>3, <2>1 DEF CoupledInHand, Event
  <2>6. Announcing'
    BY <1>1, <1>3, <1>7, <2>1 DEF Announcing, Waits, Event
  <2>7. QED
    BY <1>10, <1>11, <1>12, <2>3, <2>4, <2>5, <2>6 DEF SessionInv
<1>14. CASE ~(m.step = "Connect" /\ result = "Accepted")
  <2>1. posted'[Server] = <<>> /\ ~sCoupling'.coupled
    <3>1. Post(Server, sDevice, <<>>)
      BY <1>2, <1>14
    <3>2. <<>> \o <<>> = <<>>
      OBVIOUS
    <3>3. QED
      BY <1>8, <1>9, <1>14, <3>1, <3>2, ServerLoopAfter
  <2>2. OfThisSession' /\ SlotServed' /\ CoupledFirst' /\ CoupledInHand'
    BY <2>1 DEF OfThisSession, SlotServed, CoupledFirst, CoupledInHand, Elements
  <2>3. Announcing'
    BY <1>1, <1>7, <2>1 DEF Announcing
  <2>4. QED
    BY <1>10, <1>11, <1>12, <2>2, <2>3 DEF SessionInv
<1>15. QED
  BY <1>13, <1>14

\* Events that only the end of a session leaves.
LEMMA DeliveredLast ==
    ASSUME TypeOK, SessionInv, posted[Server] # <<>>, NEW evs, Deliver(Server, evs),
           \/ evs = <<>>
           \/ \E ev \in {"delete", "disconnected"}, c \in Clients : evs = <<Event(ev, c)>>
    PROVE  /\ \A i \in DOMAIN posted'[Server] : posted'[Server][i].ev # "coupled"
           /\ served'[Server] = {}
<1> DEFINE q == posted[Server]
           t == Tail(q)
<1>1. q \in Seq(Events) /\ q # <<>>
  BY ServerLoopAfter
<1>2. /\ t \in Seq(Events)
      /\ \A i \in DOMAIN t : i + 1 \in DOMAIN q /\ i + 1 # 1 /\ t[i] = q[i + 1]
  BY <1>1, EventPlaces
<1>3. \A i \in DOMAIN t : t[i].ev # "coupled"
  BY <1>2 DEF SessionInv, CoupledFirst
<1>4. posted'[Server] = t \o evs /\ served'[Server] = {}
  BY ServerLoopAfter
<1> HIDE DEF q, t
<1>5. CASE evs = <<>>
  <2>1. t \o evs = t
    BY <1>2, <1>5, EventPlaces
  <2>2. QED
    BY <1>3, <1>4, <2>1
<1>6. CASE evs # <<>>
  <2>1. PICK ev \in {"delete", "disconnected"}, c \in Clients : evs = <<Event(ev, c)>>
    BY <1>6
  <2> DEFINE e == Event(ev, c)
  <2>2. e \in Events /\ e.ev # "coupled"
    BY DEF Event, Events, EventNames
  <2> HIDE DEF e
  <2>3. \A i \in DOMAIN (t \o <<e>>) : (i \in DOMAIN t /\ (t \o <<e>>)[i] = t[i]) \/ (t \o <<e>>)[i] = e
    BY <1>2, <2>2, EventPlaces
  <2>4. posted'[Server] = t \o <<e>>
    BY <1>4, <2>1 DEF e
  <2>5. QED
    BY <1>3, <1>4, <2>2, <2>3, <2>4
<1>7. QED
  BY <1>5, <1>6

\* Every step of the server.
LEMMA ServerKeepsSession ==
    ASSUME MaxDrops = 0, TypeOK, SlotConsistent, NoSocketLeak, CouplingInv, SessionInv, ServerStep
    PROVE  SessionInv'
<1>1. CASE \E c \in Clients : Accept(c)
  <2>1. PICK c \in Clients : Accept(c)
    BY <1>1
  <2>2. /\ mSocket = None /\ ~sActions
    BY <2>1, FreeUncoupled DEF Accept, SlotConsistent, TypeOK, ServerTypeOK, HandlerType
  <2>3. posted[Server] = <<>>
    BY <2>1, <2>2 DEF Accept, CanServe, SessionInv, FreeSlot
  <2>4. /\ mSocket' = c /\ c # None /\ sDevice' = c /\ c \in sLinks' /\ sBuffer' = <<>>
        /\ posted'[Server] = <<>> /\ sActions' = sActions /\ sCoupling'.coupled = FALSE
    BY <2>1, <2>3 DEF Accept, Ready, loopVars, NewHandler
  <2>5. DeviceOfTheSlot' /\ FreeSlot' /\ SlotServed'
    BY <2>4 DEF DeviceOfTheSlot, FreeSlot, SlotServed
  <2>6. OfThisSession' /\ CoupledFirst' /\ CoupledInHand'
    BY <2>4 DEF OfThisSession, CoupledFirst, CoupledInHand, Elements
  <2>7. Announcing' /\ ActionsInHand'
    BY <2>2, <2>4 DEF Announcing, ActionsInHand, Elements
  <2>8. QED
    BY <2>5, <2>6, <2>7 DEF SessionInv
<1>2. CASE (\E c \in Clients : AbortExcess(c) \/ ServerSendAction(c)) \/ StartServer
  BY <1>2, SessionKept DEF AbortExcess, ServerSendAction, StartServer, loopVars, serverVars
<1>3. CASE \E c \in Clients : ServerReadyRead(c)
  <2>1. PICK c \in Clients : ServerReadyRead(c)
    BY <1>3
  <2>2. mSocket = c /\ posted[Server] = <<>> /\ sDevice = c /\ c # None
    BY <2>1, NotifierOfTheSlot DEF ServerReadyRead, Serve
  <2>3. posted'[Server] = <<>>
    <3>1. Post(Server, c, <<>>)
      BY <2>1 DEF ServerReadyRead, Serve
    <3>2. <<>> \o <<>> = <<>>
      OBVIOUS
    <3>3. QED
      BY <2>2, <3>1, <3>2, ServerLoopAfter
  <2>4. UNCHANGED mSocket /\ UNCHANGED sCoupling /\ UNCHANGED sActions /\ UNCHANGED sDevice /\ UNCHANGED sLinks
    BY <2>1 DEF ServerReadyRead
  <2>5. Elements(sBuffer') \subseteq Elements(toServer[c])
    <3>1. PICK r \in Reads(toServer[c]) : sBuffer' = Whole(toServer[c], r)
      BY <2>1 DEF ServerReadyRead
    <3>2. toServer[c] \in Seq(ToServer)
      BY QueueTypes
    <3>3. QED
      BY <3>1, <3>2, MessagesOfQueues
  <2>6. ActionsInHand'
    <3>1. \A m \in Elements(toServer[c]) : m.step = "Action" => sCoupling.coupled
      BY <2>2 DEF CouplingInv, Consistent, Outbound, RequestFits
    <3>2. sCoupling.coupled => sActions
      BY <2>2 DEF SessionInv, Announcing, Waits, Elements
    <3>3. QED
      BY <2>4, <2>5, <3>1, <3>2 DEF ActionsInHand
  <2>7. DeviceOfTheSlot' /\ FreeSlot' /\ SlotServed'
    BY <2>2, <2>3, <2>4 DEF SessionInv, DeviceOfTheSlot, FreeSlot, SlotServed
  <2>8. OfThisSession' /\ CoupledFirst' /\ CoupledInHand'
    BY <2>3 DEF OfThisSession, CoupledFirst, CoupledInHand, Elements
  <2>9. Announcing'
    BY <2>2, <2>3, <2>4 DEF SessionInv, Announcing, Waits, Event
  <2>10. QED
    BY <2>6, <2>7, <2>8, <2>9 DEF SessionInv
<1>4. CASE OnRequest
  BY <1>4, AnswerKeepsSession
<1>5. CASE OnHeartbeatEvent \/ ServerOnAction
  <2>1. /\ sBuffer # <<>> /\ sBuffer' = Tail(sBuffer) /\ sBuffer \in Seq(ToServer)
        /\ UNCHANGED mSocket /\ UNCHANGED sActions /\ UNCHANGED sDevice /\ UNCHANGED sLinks
        /\ posted' = posted /\ served' = served
    BY <1>5, QueueTypes DEF OnHeartbeatEvent, ServerOnAction, Receiving, loopVars
  <2>2. sCoupling'.coupled = sCoupling.coupled
    BY <1>5 DEF OnHeartbeatEvent, ServerOnAction, Beaten, TypeOK, ServerTypeOK, HandlerType
  <2>3. Elements(sBuffer') \subseteq Elements(sBuffer)
    BY <2>1, MessagesOfQueues
  <2>4. QED
    BY <2>1, <2>2, <2>3, SessionKept
<1>6. CASE (\E c \in Clients : CrashInOnCoupled(c)) \/ CrashInRouter \/ StopServer
  <2>1. /\ mSocket' = None /\ sBuffer' = <<>> /\ ~sActions' /\ ~sCoupling'.coupled
        /\ Forget(Server)
    BY <1>6 DEF CrashInOnCoupled, CrashInRouter, StopServer, Shutdown, DropSlot, NoHandler, NewHandler
  <2>2. posted'[Server] = <<>> /\ served'[Server] = {}
    BY <2>1, ServerLoopAfter
  <2>3. QED
    BY <2>1, <2>2, FreedSlot
<1>7. CASE ServerTimeout
  <2>1. mSocket \in Clients
    BY <1>7 DEF ServerTimeout, SlotConsistent, TypeOK, ServerTypeOK
  <2>2. QED
    BY <1>7, <2>1, SessionPosts DEF ServerTimeout, Serve, Ready
<1>8. CASE \E c \in Clients : ServerRemoteClosed(c)
  <2>1. PICK c \in Clients : ServerRemoteClosed(c)
    BY <1>8
  <2>2. mSocket = c
    BY <2>1, NotifierOfTheSlot DEF ServerRemoteClosed, Serve
  <2>3. QED
    BY <2>1, <2>2, SessionPosts DEF ServerRemoteClosed, Serve, Ready
<1>9. CASE \E c \in Clients : DropClient(c)
  <2>1. PICK c \in Clients : DropClient(c)
    BY <1>9
  <2>2. /\ mSocket' = None /\ sBuffer' = <<>> /\ ~sActions' /\ ~sCoupling'.coupled
        /\ Deliver(Server, Deletion) /\ posted[Server] # <<>>
    BY <2>1 DEF DropClient, Due, Ready, DropSlot, NoHandler, NewHandler
  <2>3. Deletion = <<>> \/ \E d \in Clients : Deletion = <<Event("delete", d)>>
    BY DEF Deletion, TypeOK, ServerTypeOK
  <2>4. QED
    BY <2>2, <2>3, DeliveredLast, FreedSlot
<1>10. CASE \E c \in Clients : ServerOnCoupled(c)
  <2>1. PICK c \in Clients : ServerOnCoupled(c)
    BY <1>10
  <2>2. /\ UNCHANGED mSocket /\ UNCHANGED sCoupling /\ UNCHANGED sDevice /\ UNCHANGED sLinks
        /\ sActions' /\ sBuffer' = <<>> /\ Deliver(Server, <<>>)
        /\ posted[Server] # <<>> /\ Head(posted[Server]) = Event("coupled", c)
    BY <2>1 DEF ServerOnCoupled, Ready, Due
  <2>3. mSocket # None /\ sCoupling.coupled
    BY <2>2, EventPlaces, ServerLoopAfter DEF SessionInv, CoupledFirst, Event
  <2>4. /\ \A i \in DOMAIN posted'[Server] : posted'[Server][i].ev # "coupled"
        /\ served'[Server] = {}
    BY <2>2, DeliveredLast
  <2>5. Elements(posted'[Server]) \subseteq Elements(posted[Server])
    <3>1. posted'[Server] = Tail(posted[Server]) \o <<>> /\ Tail(posted[Server]) \in Seq(Events)
      BY <2>2, EventPlaces, ServerLoopAfter
    <3>2. posted'[Server] = Tail(posted[Server])
      BY <3>1
    <3>3. QED
      BY <2>2, <3>2, EventPlaces, ServerLoopAfter
  <2>6. DeviceOfTheSlot' /\ FreeSlot' /\ SlotServed' /\ OfThisSession'
    BY <2>2, <2>3, <2>4, <2>5 DEF SessionInv, DeviceOfTheSlot, FreeSlot, SlotServed, OfThisSession
  <2>7. CoupledFirst' /\ CoupledInHand' /\ ActionsInHand' /\ Announcing'
    BY <2>2, <2>3, <2>4 DEF CoupledFirst, CoupledInHand, ActionsInHand, Announcing, Elements
  <2>8. QED
    BY <2>6, <2>7 DEF SessionInv
<1>11. CASE \E c \in Clients : DeleteSocket(c)
  <2>1. PICK c \in Clients : DeleteSocket(c)
    BY <1>11
  <2>2. /\ posted[Server] # <<>> /\ Head(posted[Server]) = Event("delete", c)
        /\ UNCHANGED mSocket /\ UNCHANGED sCoupling /\ UNCHANGED sActions /\ sBuffer' = <<>>
        /\ Deliver(Server, <<Event("disconnected", c)>>) \/ Deliver(Server, <<>>)
    BY <2>1 DEF DeleteSocket, Ready, Due
  <2>3. mSocket = None
    BY <2>2, EventPlaces, ServerLoopAfter DEF SessionInv, OfThisSession, Event
  <2>4. ~sActions /\ ~sCoupling.coupled
    BY <2>3, FreeUncoupled
  <2>5. /\ \A i \in DOMAIN posted'[Server] : posted'[Server][i].ev # "coupled"
        /\ served'[Server] = {}
    BY <2>2, DeliveredLast
  <2>6. QED
    BY <2>2, <2>3, <2>4, <2>5, FreedSlot
<1>12. ~UserDropClient
  BY DEF UserDropClient, TypeOK, ServerTypeOK
<1>13. QED
  BY <1>1, <1>2, <1>3, <1>4, <1>5, <1>6, <1>7, <1>8, <1>9, <1>10, <1>11, <1>12 DEF ServerStep, ServerLoop

LEMMA SessionInductive ==
    ASSUME MaxDrops = 0
    PROVE  Spec => []SessionInv
<1>1. ASSUME Init
      PROVE  SessionInv
  <2>1. /\ posted[Server] = <<>> /\ mSocket = None /\ sBuffer = <<>> /\ ~sActions /\ ~sCoupling.coupled
    BY <1>1 DEF Init, LoopInit, ServerInit, NoHandler, NewHandler, Processes
  <2>2. QED
    BY <2>1 DEF SessionInv, DeviceOfTheSlot, FreeSlot, OfThisSession, SlotServed, CoupledFirst, CoupledInHand,
                Announcing, ActionsInHand, Elements
<1>2. IInv /\ CouplingInv /\ SessionInv /\ [Next]_vars => SessionInv'
  <2> SUFFICES ASSUME IInv, CouplingInv, SessionInv, [Next]_vars
               PROVE  SessionInv'
    OBVIOUS
  <2>1. CASE \E c \in Clients : ClientStep(c)
    BY <2>1, ClientLeavesServerLoop, SessionKept DEF IInv, ClientStep, serverVars
  <2>2. CASE ServerStep
    BY <2>2, ServerKeepsSession DEF IInv
  <2>3. CASE UNCHANGED vars
    BY <2>3, SessionKept DEF vars, loopVars, serverVars
  <2>4. QED
    BY <2>1, <2>2, <2>3 DEF Next
<1>3. QED
  BY <1>1, <1>2, InductiveInvariant, CouplingInductive, PTL DEF Spec

\* Unless the server's application drops clients, the transceiver reads the
\* socket that holds the slot, and listens to its end.
THEOREM TransceiverOfTheSlot ==
    ASSUME MaxDrops = 0
    PROVE  Spec => []DeviceOfTheSlot
<1>1. SessionInv => DeviceOfTheSlot
  BY DEF SessionInv
<1>2. QED
  BY <1>1, SessionInductive, PTL

\* Unless the server's application drops clients, a queued failed, disconnected
\* or coupled never reaches a session other than its own, although dropClient()
\* and onCoupled() do not look at the sender.
THEOREM NoForeignEvent ==
    ASSUME MaxDrops = 0
    PROVE  Spec => []EventsOfThisSession
<1>1. SessionInv => EventsOfThisSession
  BY DEF SessionInv, OfThisSession, EventsOfThisSession
<1>2. QED
  BY <1>1, SessionInductive, PTL

\* Unless the server's application drops clients, the assertions of the
\* server's onCoupled() hold.
THEOREM ServerNeverAsserts ==
    ASSUME MaxDrops = 0
    PROVE  Spec => []ServerAssertsHold
<1>1. TypeOK /\ SlotConsistent /\ SessionInv => ServerAssertsHold
  BY EventPlaces, ServerLoopAfter
     DEF SessionInv, CoupledFirst, ServerAssertsHold, Due, Event, SlotConsistent
<1>2. QED
  BY <1>1, SessionInductive, TypeCorrect, SlotStaysConsistent, PTL

\* Unless the server's application drops clients, every message that the server
\* reads finds its handler.
THEOREM ServerMessagesRouted ==
    ASSUME MaxDrops = 0
    PROVE  Spec => []ServerRoutes
<1>1. ASSUME TypeOK, SlotConsistent, SessionInv, Unroutable
      PROVE  FALSE
  <2>1. sBuffer # <<>> /\ sCoupling.alive
    BY <1>1 DEF SessionInv, FreeSlot, SlotConsistent, Unroutable
  <2>2. Head(sBuffer).step = "Action" /\ ~sActions
    BY <1>1, <2>1 DEF Unroutable
  <2>3. Head(sBuffer) \in Elements(sBuffer)
    <3>1. sBuffer \in Seq(ToServer)
      BY <1>1, QueueTypes
    <3>2. QED
      BY <2>1, <3>1, MessagesOfQueues
  <2>4. QED
    BY <1>1, <2>2, <2>3 DEF SessionInv, ActionsInHand
<1>2. TypeOK /\ SlotConsistent /\ SessionInv => ServerRoutes
  BY <1>1 DEF ServerRoutes
<1>3. QED
  BY <1>2, SessionInductive, TypeCorrect, SlotStaysConsistent, PTL

\* Unless the server's application drops clients, a session ends only because
\* of a failed or disconnected of its own, or with the server.
THEOREM EndsByItself ==
    ASSUME MaxDrops = 0
    PROVE  Spec => EndsForItsOwnCause
<1>1. TypeOK /\ SlotConsistent /\ SessionInv /\ [Next]_vars =>
          [\A c \in Clients :
              mSocket = c /\ mSocket' # c /\ listening' /\ drops' = drops =>
                  Due(Server, "failed", c) \/ Due(Server, "disconnected", c)]_vars
  <2> SUFFICES ASSUME TypeOK, SlotConsistent, SessionInv, [Next]_vars, NEW c \in Clients,
                      mSocket = c, mSocket' # c, listening', drops' = drops
               PROVE  Due(Server, "failed", c) \/ Due(Server, "disconnected", c)
    OBVIOUS
  <2>1. ServerStep
    BY DEF Next, ClientStep, vars, serverVars
  <2>2. c # None /\ sCoupling.alive
    BY DEF SlotConsistent
  <2>3. CASE \E d \in Clients : DropClient(d)
    <3>1. PICK d \in Clients : DropClient(d)
      BY <2>3
    <3>2. PICK ev \in {"failed", "disconnected"} : Due(Server, ev, d)
      BY <3>1 DEF DropClient
    <3>3. Event(ev, d) \in Elements(posted[Server])
      BY <3>2, EventPlaces, ServerLoopAfter DEF Due
    <3>4. c = d
      BY <2>2, <3>3 DEF SessionInv, OfThisSession, Event
    <3>5. QED
      BY <3>2, <3>4
  <2>4. CASE UserDropClient
    BY <2>4 DEF UserDropClient, TypeOK, ServerTypeOK
  <2>5. CASE ~UserDropClient /\ ~ \E d \in Clients : DropClient(d)
    <3>1. mSocket' = mSocket
      BY <2>1, <2>2, <2>5
         DEF ServerStep, ServerLoop, Accept, AbortExcess, ServerReadyRead, ServerRemoteClosed,
             ServerOnCoupled, CrashInOnCoupled, DeleteSocket, OnRequest, OnHeartbeatEvent, ServerOnAction,
             CrashInRouter, ServerTimeout, ServerSendAction, StopServer, StartServer,
             Shutdown, serverVars
    <3>2. QED
      BY <3>1
  <2>6. QED
    BY <2>3, <2>4, <2>5
<1>2. QED
  BY <1>1, SessionInductive, TypeCorrect, SlotStaysConsistent, PTL DEF Spec, EndsForItsOwnCause

-------------------------------------------------------------------------------
\* What the history of the grants says of c: it was taken before, it is coupled
\* while it holds the slot, and nobody believes or tells its client that it is
\* coupled unless it was granted.
Remembered(c) ==
    /\ c \in granted => Taken(c)
    /\ mSocket = c => (c \in granted <=> sCoupling.coupled)
    /\ cCoupling[c] = "coupled" => c \in granted
    /\ \A m \in Inbound(c) : m.step = "Connect" /\ m.result = "Accepted" => c \in granted

GrantedInv == granted \subseteq Clients /\ \A c \in Clients : Remembered(c)

\* While the slot changes neither to d nor under it, and d is told nothing new.
LEMMA RememberedKept ==
    ASSUME NEW d \in Clients, Remembered(d), granted' = granted \cup NowCoupled',
           Taken(d) => Taken(d)',
           mSocket' = d => mSocket = d /\ sCoupling'.coupled = sCoupling.coupled,
           cCoupling'[d] = "coupled" => cCoupling[d] = "coupled" \/ d \in granted,
           \A m \in Inbound(d)' : m \in Inbound(d) \/ m.step # "Connect"
    PROVE  Remembered(d)'
<1>1. d \in granted' <=> d \in granted \/ (mSocket' = d /\ sCoupling'.coupled)
  BY DEF NowCoupled
<1>2. d \in granted' <=> d \in granted
  BY <1>1 DEF Remembered
<1>3. mSocket' = d => (d \in granted' <=> sCoupling'.coupled)
  BY <1>2 DEF Remembered
<1>4. QED
  BY <1>2, <1>3 DEF Remembered

\* A client reads what is under way to it, and becomes coupled by that alone.
LEMMA ClientIsTold ==
    ASSUME TypeOK, NEW c \in Clients, ClientStep(c)
    PROVE  /\ Inbound(c)' \subseteq Inbound(c)
           /\ cCoupling'[c] = "coupled" =>
                 \/ cCoupling[c] = "coupled"
                 \/ \E m \in Inbound(c) : m.step = "Connect" /\ m.result = "Accepted"
<1>1. CASE \/ ConnectToHost(c) \/ Established(c) \/ Refused(c) \/ StartCoupling(c) \/ ClientOnCoupled(c)
           \/ SendHeartbeat(c) \/ ClientSendAction(c)
  BY <1>1, QueueTypes DEF ConnectToHost, Established, Refused, StartCoupling, ClientOnCoupled, SendHeartbeat,
          ClientSendAction, Inbound, clientVars, linkVars
<1>2. CASE ClientReadyRead(c)
  <2>1. PICK r \in Reads(toClient[c]) :
            /\ cBuffer' = [cBuffer EXCEPT ![c] = Whole(toClient[c], r)]
            /\ toClient' = [toClient EXCEPT ![c] = Rest(toClient[c], r)]
    BY <1>2 DEF ClientReadyRead
  <2>2. toClient[c] \in Seq(ToClient)
    BY QueueTypes
  <2>3. /\ Elements(Whole(toClient[c], r)) \subseteq Elements(toClient[c])
        /\ Elements(Rest(toClient[c], r)) \subseteq Elements(toClient[c])
    BY <2>2, MessagesOfQueues
  <2>4. cBuffer'[c] = Whole(toClient[c], r) /\ toClient'[c] = Rest(toClient[c], r)
    BY <2>1, QueueTypes
  <2>5. cCoupling' = cCoupling
    BY <1>2 DEF ClientReadyRead
  <2>6. QED
    BY <2>3, <2>4, <2>5 DEF Inbound
<1>3. CASE OnAdmitted(c) \/ OnConnectResponse(c) \/ ClientOnAction(c)
  <2>1. NextMessage(c) /\ cBuffer[c] # <<>> /\ toClient' = toClient
    BY <1>3 DEF OnAdmitted, OnConnectResponse, ClientOnAction, Receives, Idle
  <2>2. Inbound(c)' \subseteq Inbound(c)
    BY <2>1, OwnMessages DEF Inbound
  <2>3. CASE OnConnectResponse(c)
    <3>1. Head(cBuffer[c]) \in Inbound(c)
      BY <2>1, QueueTypes, MessagesOfQueues DEF Inbound
    <3>2. QED
      BY <2>2, <2>3, <3>1 DEF OnConnectResponse, Receives
  <2>4. CASE OnAdmitted(c) \/ ClientOnAction(c)
    BY <2>2, <2>4 DEF OnAdmitted, ClientOnAction
  <2>5. QED
    BY <1>3, <2>3, <2>4
<1>4. CASE OnRefusal(c) \/ ClientTimeout(c) \/ HeartbeatFails(c) \/ ClientRemoteClosed(c)
  <2>1. /\ toClient'[c] = <<>> /\ cCoupling' = cCoupling
        /\ cBuffer'[c] \in {cBuffer[c], <<>>}
    BY <1>4, QueueTypes DEF OnRefusal, ClientTimeout, HeartbeatFails, ClientRemoteClosed, Fail, clientVars
  <2>2. QED
    BY <2>1, OwnMessages DEF Inbound
<1>5. CASE DisconnectFromHost(c) \/ UserDisconnect(c) \/ HostLost(c) \/ ClientCrash(c)
  <2>1. toClient'[c] = <<>> /\ cBuffer'[c] = <<>> /\ cCoupling'[c] = "none"
    BY <1>5, QueueTypes DEF DisconnectFromHost, UserDisconnect, HostLost, ClientCrash, Vanish
  <2>2. QED
    BY <2>1, OwnMessages DEF Inbound
<1>6. QED
  BY <1>1, <1>2, <1>3, <1>4, <1>5 DEF ClientStep, ClientLoop, ClientTimers

\* A client's step leaves what the server has taken.
LEMMA ClientLeavesTaken ==
    ASSUME TypeOK, CouplingInv, NEW c \in Clients, ClientStep(c), NEW d \in Clients
    PROVE  Taken(d)' <=> Taken(d)
<1>1. CASE Established(c)
  BY <1>1, QueueTypes DEF Established, CouplingInv, Unknown, Taken
<1>2. CASE ~Established(c)
  <2>1. sSocket' = sSocket
    BY <1>2 DEF ClientStep, ClientLoop, ClientTimers, ConnectToHost, Refused, StartCoupling, ClientReadyRead,
                OnAdmitted, OnConnectResponse, OnRefusal, ClientOnCoupled, ClientRemoteClosed,
                DisconnectFromHost, ClientOnAction, ClientCrash, ClientTimeout, SendHeartbeat,
                HeartbeatFails, UserDisconnect, HostLost, ClientSendAction, Fail, Vanish, linkVars
  <2>2. QED
    BY <2>1 DEF Taken
<1>3. QED
  BY <1>1, <1>2

LEMMA ClientKeepsGranted ==
    ASSUME TypeOK, CouplingInv, GrantedInv, granted' = granted \cup NowCoupled',
           NEW c \in Clients, ClientStep(c), NEW d \in Clients
    PROVE  Remembered(d)'
<1>1. mSocket' = mSocket /\ sCoupling' = sCoupling /\ (Taken(d) => Taken(d)') /\ Remembered(d)
  BY OwnMessages, ClientLeavesTaken DEF GrantedInv
<1>2. CASE d = c
  <2>1. /\ Inbound(d)' \subseteq Inbound(d)
        /\ cCoupling'[d] = "coupled" => cCoupling[d] = "coupled" \/ d \in granted
    BY <1>1, <1>2, ClientIsTold DEF Remembered
  <2>2. QED
    BY <1>1, <2>1, RememberedKept
<1>3. CASE d # c
  <2>1. Inbound(d)' = Inbound(d) /\ cCoupling'[d] = cCoupling[d]
    BY <1>3, ClientLeavesOthers DEF Inbound
  <2>2. QED
    BY <1>1, <2>1, RememberedKept
<1>4. QED
  BY <1>2, <1>3

\* The handler's answer couples the session exactly when it accepts its
\* ConnectRequest.
LEMMA AnswerCouples ==
    ASSUME TypeOK, SlotConsistent, CouplingInv, OnRequest
    PROVE  /\ mSocket \in Clients /\ sDevice = mSocket /\ mSocket' = mSocket /\ sSocket' = sSocket
           /\ \E step \in Steps, result \in Results :
                 /\ ServerWrites(mSocket, Response(step, result))
                 /\ sCoupling'.coupled = (sCoupling.coupled \/ (result = "Accepted" /\ step = "Connect"))
<1>1. /\ mSocket' = mSocket /\ sSocket' = sSocket /\ sDevice = mSocket /\ mSocket \in Clients
      /\ sBuffer # <<>> /\ sBuffer \in Seq(ToServer) /\ sCoupling \in HandlerType
  BY QueueTypes DEF OnRequest, Receiving, SlotConsistent, CouplingInv, Attached, TypeOK, ServerTypeOK
<1>2. PICK m : m = Head(sBuffer)
  OBVIOUS
<1>3. PICK authorized \in BOOLEAN : \E result :
          /\ m.step \in Steps
          /\ result = ResultOf(sCoupling, m.step, authorized)
          /\ sCoupling' = Answered(sCoupling, m.step, m.port, result)
          /\ ServerWrites(sDevice, Response(m.step, result))
  BY <1>2 DEF OnRequest
<1>4. PICK result :
          /\ m.step \in Steps
          /\ result = ResultOf(sCoupling, m.step, authorized)
          /\ sCoupling' = Answered(sCoupling, m.step, m.port, result)
          /\ ServerWrites(sDevice, Response(m.step, result))
  BY <1>3
<1>5. m \in Elements(sBuffer) /\ m \in ToServer
  BY <1>1, <1>2, MessagesOfQueues
<1>6. RequestFits(mSocket, m)
  BY <1>1, <1>5 DEF CouplingInv, Consistent, Outbound, InHand
<1>7. /\ m.port \in Ports \cup {NoPort}
      /\ m.step = "Connect" => m.port \in Ports
  BY <1>1, <1>4, <1>5, <1>6 DEF ToServer, Requests, Request, ActionResponse, Response, Steps, RequestFits
<1>8. sCoupling'.coupled = (sCoupling.coupled \/ (result = "Accepted" /\ m.step = "Connect"))
  BY <1>1, <1>4, <1>7, AnsweredEffect
<1>9. result \in Results
  BY <1>4 DEF ResultOf, HandshakeResult, LoginResult, ConnectResult, Results, Steps
<1>10. QED
  BY <1>1, <1>4, <1>8, <1>9

LEMMA ServerKeepsGranted ==
    ASSUME TypeOK, SlotConsistent, CouplingInv, GrantedInv, granted' = granted \cup NowCoupled',
           ServerStep, NEW d \in Clients
    PROVE  Remembered(d)'
<1>1. /\ cBuffer' = cBuffer /\ cCoupling' = cCoupling /\ (Taken(d) => Taken(d)') /\ Remembered(d)
  BY ServerLeavesClients, TakenStays DEF CouplingInv, GrantedInv
<1>2. CASE \E c \in Clients : Accept(c)
  <2>1. PICK c \in Clients : Accept(c)
    BY <1>2
  <2>2. mSocket' = c /\ sCoupling'.coupled = FALSE /\ toClient' = toClient /\ ~Taken(c)
    BY <2>1, QueueTypes DEF Accept, NewHandler, Taken
  <2>3. granted' = granted /\ Inbound(d)' = Inbound(d)
    BY <1>1, <2>2 DEF NowCoupled, Inbound
  <2>4. QED
    BY <1>1, <2>2, <2>3 DEF Remembered
<1>3. CASE OnRequest
  <2>1. /\ mSocket \in Clients /\ mSocket' = mSocket /\ sSocket' = sSocket
    BY <1>3, AnswerCouples
  <2>2. PICK step \in Steps, result \in Results :
            /\ ServerWrites(mSocket, Response(step, result))
            /\ sCoupling'.coupled = (sCoupling.coupled \/ (result = "Accepted" /\ step = "Connect"))
    BY <1>3, AnswerCouples
  <2>3. /\ Response(step, result) \in ToClient
        /\ Response(step, result).step = step /\ Response(step, result).result = result
    BY MessageTypes DEF Response
  <2>4. CASE d # mSocket
    <3>1. Inbound(d)' = Inbound(d)
      BY <1>1, <2>1, <2>2, <2>3, <2>4, WritesAdd DEF Inbound
    <3>2. QED
      BY <1>1, <2>1, <2>4, <3>1, RememberedKept
  <2>5. CASE d = mSocket
    <3>1. Inbound(d)' \subseteq Inbound(d) \cup {Response(step, result)}
      BY <1>1, <2>1, <2>2, <2>3, <2>5, WritesAdd DEF Inbound
    <3>2. d \in granted' <=> d \in granted \/ sCoupling'.coupled
      BY <2>1, <2>5 DEF NowCoupled
    <3>3. Taken(d)'
      BY <1>1, <2>1, <2>5 DEF CouplingInv, Attached, SlotConsistent
    <3>4. sCoupling.coupled => sCoupling'.coupled
      BY <2>2
    <3>5. result = "Accepted" /\ step = "Connect" => d \in granted'
      BY <2>2, <3>2
    <3>6. \A m \in Inbound(d)' : m.step = "Connect" /\ m.result = "Accepted" => d \in granted'
      BY <1>1, <2>3, <3>1, <3>2, <3>5 DEF Remembered
    <3>7. d \in granted' <=> sCoupling'.coupled
      BY <1>1, <2>5, <3>2, <3>4 DEF Remembered
    <3>8. QED
      BY <1>1, <3>2, <3>3, <3>6, <3>7 DEF Remembered
  <2>6. QED
    BY <2>4, <2>5
<1>4. CASE ~OnRequest /\ ~ \E c \in Clients : Accept(c)
  <2>1. ActionRequest.step # "Connect" /\ ActionResponse.step # "Connect"
    BY DEF ActionRequest, ActionResponse, Request, Response
  <2>2. \A m \in Inbound(d)' : m \in Inbound(d) \/ m.step # "Connect"
    BY <1>4, <2>1, ServerMessages
  <2>3. mSocket' = d => mSocket = d /\ sCoupling'.coupled = sCoupling.coupled
    BY <1>4, ServerMessages
  <2>4. QED
    BY <1>1, <2>2, <2>3, RememberedKept
<1>5. QED
  BY <1>2, <1>3, <1>4

\* The history records and changes nothing: what holds of the layer holds of it
\* with its history.
LEMMA HistoryOfLayer == HistorySpec => Spec
<1>1. HistoryInit => Init
  BY DEF HistoryInit
<1>2. [HistoryNext]_historyVars => [Next]_vars
  BY DEF HistoryNext, historyVars
<1>3. QED
  BY <1>1, <1>2, PTL DEF HistorySpec, Spec

LEMMA GrantedInductive == HistorySpec => []GrantedInv
<1>1. ASSUME HistoryInit
      PROVE  GrantedInv
  <2>1. granted = {} /\ Init
    BY <1>1 DEF HistoryInit
  <2>2. Elements(<<>>) = {}
    BY DEF Elements
  <2>3. \A c \in Clients : Inbound(c) = {} /\ cCoupling[c] = "none"
    BY <2>1, <2>2 DEF Init, LinkInit, ClientInit, Inbound
  <2>4. mSocket = None
    BY <2>1 DEF Init, ServerInit
  <2>5. QED
    BY <2>1, <2>3, <2>4 DEF GrantedInv, Remembered
<1>2. TypeOK /\ SlotConsistent /\ CouplingInv /\ GrantedInv /\ [HistoryNext]_historyVars => GrantedInv'
  <2> SUFFICES ASSUME TypeOK, SlotConsistent, CouplingInv, GrantedInv, [HistoryNext]_historyVars
               PROVE  GrantedInv'
    OBVIOUS
  <2>1. CASE HistoryNext
    <3>1. granted' = granted \cup NowCoupled' /\ granted' \subseteq Clients
      BY <2>1 DEF HistoryNext, NowCoupled, GrantedInv
    <3>2. CASE \E c \in Clients : ClientStep(c)
      BY <3>1, <3>2, ClientKeepsGranted DEF GrantedInv
    <3>3. CASE ServerStep
      BY <3>1, <3>3, ServerKeepsGranted DEF GrantedInv
    <3>4. QED
      BY <2>1, <3>2, <3>3 DEF HistoryNext, Next
  <2>2. CASE UNCHANGED historyVars
    BY <2>2 DEF historyVars, vars, linkVars, loopVars, clientVars, serverVars, GrantedInv, Remembered, Taken, Inbound
  <2>3. QED
    BY <2>1, <2>2
<1>3. QED
  BY <1>1, <1>2, HistoryOfLayer, CouplingInductive, TypeCorrect, SlotStaysConsistent, PTL DEF HistorySpec

-------------------------------------------------------------------------------
\* A choice among three conditions that exclude one another.
LEMMA PhaseChosen ==
    ASSUME NEW gone \in BOOLEAN, NEW announced \in BOOLEAN, NEW coupled \in BOOLEAN,
           ~(gone /\ announced), ~(gone /\ coupled)
    PROVE  (CASE gone -> "ended"
              [] announced -> "announced"
              [] coupled /\ ~announced -> "coupled"
              [] OTHER -> "none")
           = IF gone THEN "ended" ELSE IF announced THEN "announced" ELSE IF coupled THEN "coupled" ELSE "none"
<1> DEFINE x == CASE gone -> "ended"
                  [] announced -> "announced"
                  [] coupled /\ ~announced -> "coupled"
                  [] OTHER -> "none"
<1>1. ASSUME gone PROVE x = "ended"
  BY <1>1
<1>2. ASSUME ~gone, announced PROVE x = "announced"
  BY <1>2
<1>3. ASSUME ~gone, ~announced, coupled PROVE x = "coupled"
  BY <1>3
<1>4. ASSUME ~gone, ~announced, ~coupled PROVE x = "none"
  BY <1>4
<1> HIDE DEF x
<1>5. x = IF gone THEN "ended" ELSE IF announced THEN "announced" ELSE IF coupled THEN "coupled" ELSE "none"
  BY <1>1, <1>2, <1>3, <1>4
<1>6. QED
  BY <1>5 DEF x

\* The sessions as the peers see them.
LEMMA PhasesAre ==
    ASSUME TypeOK, TypeOK', TurnInv, TurnInv', ClientInv, ClientInv'
    PROVE
    /\ AtServer = [c \in Clients |-> AtServer[c]] /\ AtServer' = [c \in Clients |-> AtServer'[c]]
    /\ AtClient = [c \in Clients |-> AtClient[c]] /\ AtClient' = [c \in Clients |-> AtClient'[c]]
    /\ \A c \in Clients :
          /\ AtServer[c] = IF mSocket = c
                           THEN IF sActions THEN "announced" ELSE IF sCoupling.coupled THEN "coupled" ELSE "none"
                           ELSE IF Taken(c) THEN IF c \in granted THEN "ended" ELSE "refused" ELSE "none"
          /\ AtServer'[c] = IF mSocket' = c
                            THEN IF sActions' THEN "announced" ELSE IF sCoupling'.coupled THEN "coupled" ELSE "none"
                            ELSE IF Taken(c)' THEN IF c \in granted' THEN "ended" ELSE "refused" ELSE "none"
          /\ AtClient[c] = IF Gone(c) THEN "ended" ELSE IF cActions[c] THEN "announced"
                           ELSE IF cCoupling[c] = "coupled" THEN "coupled" ELSE "none"
          /\ AtClient'[c] = IF Gone(c)' THEN "ended" ELSE IF cActions'[c] THEN "announced"
                            ELSE IF cCoupling'[c] = "coupled" THEN "coupled" ELSE "none"
<1>1. /\ AtServer = [c \in Clients |-> AtServer[c]] /\ AtServer' = [c \in Clients |-> AtServer'[c]]
      /\ AtClient = [c \in Clients |-> AtClient[c]] /\ AtClient' = [c \in Clients |-> AtClient'[c]]
  BY DEF AtServer, AtClient
<1>2. ASSUME NEW c \in Clients
      PROVE  /\ AtServer[c] = IF mSocket = c
                           THEN IF sActions THEN "announced" ELSE IF sCoupling.coupled THEN "coupled" ELSE "none"
                           ELSE IF Taken(c) THEN IF c \in granted THEN "ended" ELSE "refused" ELSE "none"
             /\ AtServer'[c] = IF mSocket' = c
                            THEN IF sActions' THEN "announced" ELSE IF sCoupling'.coupled THEN "coupled" ELSE "none"
                            ELSE IF Taken(c)' THEN IF c \in granted' THEN "ended" ELSE "refused" ELSE "none"
  BY <1>2 DEF AtServer, Taken
<1>3. ASSUME NEW c \in Clients
      PROVE  /\ AtClient[c] = IF Gone(c) THEN "ended" ELSE IF cActions[c] THEN "announced"
                           ELSE IF cCoupling[c] = "coupled" THEN "coupled" ELSE "none"
             /\ AtClient'[c] = IF Gone(c)' THEN "ended" ELSE IF cActions'[c] THEN "announced"
                            ELSE IF cCoupling'[c] = "coupled" THEN "coupled" ELSE "none"
  <2>1. /\ AtClient[c] = CASE cSocket[c] \in {"gone", "lost"} -> "ended"
                             [] cActions[c] -> "announced"
                             [] cCoupling[c] = "coupled" /\ ~cActions[c] -> "coupled"
                             [] OTHER -> "none"
        /\ AtClient'[c] = CASE cSocket'[c] \in {"gone", "lost"} -> "ended"
                              [] cActions'[c] -> "announced"
                              [] cCoupling'[c] = "coupled" /\ ~cActions'[c] -> "coupled"
                              [] OTHER -> "none"
    BY <1>3 DEF AtClient
  <2>2. /\ Gone(c) => ~cActions[c] /\ cCoupling[c] # "coupled"
        /\ Gone(c)' => ~cActions'[c] /\ cCoupling'[c] # "coupled"
    BY DEF TurnInv, Departed, ClientInv, ClientObjects
  <2>3. cActions[c] \in BOOLEAN /\ cActions'[c] \in BOOLEAN
    BY DEF TypeOK, ClientTypeOK
  <2>4. AtClient[c] = IF Gone(c) THEN "ended" ELSE IF cActions[c] THEN "announced"
                      ELSE IF cCoupling[c] = "coupled" THEN "coupled" ELSE "none"
    BY <2>1, <2>2, <2>3, PhaseChosen DEF Gone
  <2>5. AtClient'[c] = IF Gone(c)' THEN "ended" ELSE IF cActions'[c] THEN "announced"
                       ELSE IF cCoupling'[c] = "coupled" THEN "coupled" ELSE "none"
    BY <2>1, <2>2, <2>3, PhaseChosen DEF Gone
  <2>6. QED
    BY <2>4, <2>5
<1>4. QED
  BY <1>1, <1>2, <1>3

\* A session that was granted is past its coupling at the server, and no other
\* is.
LEMMA GrantedIsPast ==
    ASSUME TypeOK, TypeOK', TurnInv, TurnInv', ClientInv, ClientInv', GrantedInv, NEW c \in Clients
    PROVE  /\ c \in granted => Service!Past(AtServer[c])
           /\ c \notin granted /\ (sActions => sCoupling.coupled) => ~Service!Past(AtServer[c])
  BY PhasesAre DEF GrantedInv, Remembered, Service!Past

\* A client's step shows in its own session and at no other place.
LEMMA ClientRefines ==
    ASSUME TypeOK, TurnInv, ClientInv, CouplingInv, GrantedInv, TypeOK', TurnInv', ClientInv',
           granted' = granted \cup NowCoupled', NEW c \in Clients, ClientStep(c)
    PROVE  Service!Next \/ UNCHANGED <<AtServer, AtClient>>
<1>1. AtServer' = AtServer
  <2>1. UNCHANGED serverVars
    BY DEF ClientStep
  <2>2. \A d \in Clients : Taken(d)' <=> Taken(d)
    BY ClientLeavesTaken
  <2>3. granted' = granted
    BY <2>1 DEF serverVars, NowCoupled, GrantedInv, Remembered
  <2>4. \A d \in Clients : AtServer'[d] = AtServer[d]
    BY <2>1, <2>2, <2>3, PhasesAre DEF serverVars
  <2>5. QED
    BY <2>4, PhasesAre
<1>2. \A d \in Clients : d # c => AtClient'[d] = AtClient[d]
  BY ClientLeavesOthers, PhasesAre DEF Gone
<1>3. AtClient' = [AtClient EXCEPT ![c] = AtClient'[c]]
  <2>1. \A d \in Clients : AtClient'[d] = [AtClient EXCEPT ![c] = AtClient'[c]][d]
    BY <1>2, PhasesAre
  <2>2. QED
    BY <2>1, PhasesAre
<1>4. AtClient'[c] = AtClient[c] => UNCHANGED <<AtServer, AtClient>>
  BY <1>1, <1>2, PhasesAre
<1>5. CASE OnConnectResponse(c)
  <2>1. /\ Receives(c, "Connect") /\ Head(cBuffer[c]).result = "Accepted" /\ cBuffer[c] # <<>>
        /\ cSocket' = cSocket /\ cActions' = cActions /\ cCoupling'[c] = "coupled"
    BY <1>5, QueueTypes DEF OnConnectResponse, Receives, Idle
  <2>2. Head(cBuffer[c]).step \in Steps
    BY <2>1 DEF Receives, Steps
  <2>3. cCoupling[c] = "waiting" /\ ~Gone(c)
    <3>1. ~Quiet(cBuffer[c])
      BY <2>1, <2>2, QueueTypes, TailThins
    <3>2. QED
      BY <2>1, <3>1 DEF TurnInv, Turn, Silent, Departed
  <2>4. ~cActions[c]
    BY <2>3 DEF ClientInv, ClientObjects
  <2>5. AtClient[c] = "none" /\ AtClient'[c] = "coupled"
    BY <2>1, <2>3, <2>4, PhasesAre DEF Gone
  <2>6. Service!Past(AtServer[c])
    <3>1. Head(cBuffer[c]) \in Inbound(c)
      BY <2>1, QueueTypes, MessagesOfQueues DEF Inbound
    <3>2. c \in granted
      BY <2>1, <3>1 DEF GrantedInv, Remembered, Receives
    <3>3. QED
      BY <3>2, GrantedIsPast
  <2>7. Service!ClientCouples(c)
    BY <1>1, <1>3, <2>5, <2>6 DEF Service!ClientCouples
  <2>8. QED
    BY <2>7 DEF Service!Next
<1>6. CASE ClientOnCoupled(c)
  <2>1. /\ cActions'[c] /\ cSocket' = cSocket /\ Due(c, "coupled", c)
    BY <1>6, QueueTypes DEF ClientOnCoupled, linkVars
  <2>2. cCoupling[c] = "coupled" /\ ~cActions[c] /\ ~Gone(c)
    <3>1. Awaits(c, "coupled")
      BY <2>1, AwaitsOne DEF ClientInv, ClientEvents, Due
    <3>2. QED
      BY <3>1 DEF ClientInv, ClientEvents, Gone
  <2>3. AtClient[c] = "coupled" /\ AtClient'[c] = "announced"
    BY <2>1, <2>2, PhasesAre DEF Gone
  <2>4. Service!ClientAnnounces(c)
    BY <1>1, <1>3, <2>3 DEF Service!ClientAnnounces
  <2>5. QED
    BY <2>4 DEF Service!Next
<1>7. CASE DisconnectFromHost(c) \/ UserDisconnect(c) \/ HostLost(c) \/ ClientCrash(c)
  <2>1. Gone(c)'
    BY <1>7, QueueTypes DEF DisconnectFromHost, UserDisconnect, HostLost, ClientCrash, Vanish, Gone
  <2>2. AtClient'[c] = "ended"
    BY <2>1, PhasesAre
  <2>3. Service!ClientEnds(c)
    BY <1>1, <1>3, <2>2 DEF Service!ClientEnds
  <2>4. QED
    BY <2>3 DEF Service!Next
<1>8. CASE \/ ConnectToHost(c) \/ Established(c) \/ Refused(c) \/ StartCoupling(c) \/ ClientReadyRead(c)
           \/ OnAdmitted(c) \/ ClientRemoteClosed(c) \/ ClientOnAction(c) \/ SendHeartbeat(c) \/ ClientSendAction(c)
  <2>1. /\ Gone(c)' <=> Gone(c)
        /\ cActions'[c] = cActions[c]
        /\ cCoupling'[c] = "coupled" <=> cCoupling[c] = "coupled"
    BY <1>8, QueueTypes DEF ConnectToHost, Established, Refused, StartCoupling, ClientReadyRead, OnAdmitted,
            ClientRemoteClosed, ClientOnAction, SendHeartbeat, ClientSendAction, Gone, clientVars
  <2>2. AtClient'[c] = AtClient[c]
    BY <2>1, PhasesAre
  <2>3. QED
    BY <1>4, <2>2
<1>9. CASE OnRefusal(c) \/ ClientTimeout(c) \/ HeartbeatFails(c)
  <2>1. PICK src : Fail(c, src)
    BY <1>9 DEF OnRefusal, ClientTimeout, HeartbeatFails
  <2>2. ~Gone(c)
    BY <1>9 DEF OnRefusal, ClientTimeout, HeartbeatFails, Receives, Idle, Departed, TurnInv
  <2>3. ~Gone(c)' /\ cCoupling' = cCoupling /\ cActions' = cActions
    BY <2>1, QueueTypes DEF Fail, Gone
  <2>4. AtClient'[c] = AtClient[c]
    BY <2>2, <2>3, PhasesAre
  <2>5. QED
    BY <1>4, <2>4
<1>10. QED
  BY <1>5, <1>6, <1>7, <1>8, <1>9 DEF ClientStep, ClientLoop, ClientTimers

\* A session that has been left or was turned away has ended, and only the one
\* that holds the slot is served.
LEMMA OnlySlotServed ==
    ASSUME TypeOK, TypeOK', TurnInv, TurnInv', ClientInv, ClientInv', SlotConsistent, SessionInv, Attached
    PROVE  /\ mSocket = None => Service!Served = {}
           /\ mSocket # None /\ ~sCoupling.coupled => Service!Served = {}
           /\ \A c \in Clients : ~Taken(c) => AtServer[c] = "none"
<1>1. \A c \in Clients : ~Taken(c) => AtServer[c] = "none"
  BY PhasesAre DEF Attached
<1>2. \A c \in Clients : AtServer[c] \in {"coupled", "announced"} => mSocket = c /\ sCoupling.coupled
  BY PhasesAre DEF SessionInv, Announcing
<1>3. QED
  BY <1>1, <1>2 DEF Service!Served

\* The server's step ends sessions, brings one further, or shows nothing.
LEMMA ServerRefines ==
    ASSUME MaxDrops = 0, TypeOK, SlotConsistent, NoSocketLeak, CouplingInv, GrantedInv, SessionInv, TurnInv,
           ClientInv, TypeOK', TurnInv', ClientInv', granted' = granted \cup NowCoupled', ServerStep
    PROVE  Service!Next \/ UNCHANGED <<AtServer, AtClient>>
<1>1. AtClient' = AtClient
  <2>1. \A d \in Clients : AtClient'[d] = AtClient[d]
    BY ServerLeavesClients, PhasesAre DEF Gone
  <2>2. QED
    BY <2>1, PhasesAre
<1>2. ASSUME \A d \in Clients : AtServer'[d] = AtServer[d]
      PROVE  UNCHANGED <<AtServer, AtClient>>
  BY <1>1, <1>2, PhasesAre
<1>3. ASSUME NEW c \in Clients, NEW phase, \A d \in Clients : d # c => AtServer'[d] = AtServer[d],
             AtServer'[c] = phase
      PROVE  AtServer' = [AtServer EXCEPT ![c] = phase]
  <2>1. \A d \in Clients : AtServer'[d] = [AtServer EXCEPT ![c] = phase][d]
    BY <1>3, PhasesAre
  <2>2. QED
    BY <2>1, PhasesAre
<1>0. /\ \A d \in Clients : d \in granted' <=> d \in granted \/ (mSocket' = d /\ sCoupling'.coupled)
      /\ \A d \in Clients : mSocket' = d /\ mSocket = d /\ sCoupling'.coupled = sCoupling.coupled =>
                               (d \in granted' <=> d \in granted)
      /\ \A d \in Clients : d \in granted <=> Service!Past(AtServer[d])
  <2>1. \A d \in Clients : d \in granted' <=> d \in granted \/ (mSocket' = d /\ sCoupling'.coupled)
    BY DEF NowCoupled
  <2>2. \A d \in Clients : d \in granted <=> Service!Past(AtServer[d])
    BY GrantedIsPast DEF SessionInv, Announcing
  <2>3. QED
    BY <2>1, <2>2 DEF GrantedInv, Remembered
<1>4. ASSUME NEW S \in SUBSET Clients, \A d \in S : mSocket' # d /\ Taken(d)',
             \A d \in Clients \ S : AtServer'[d] = AtServer[d]
      PROVE  Service!Next
  <2>0. \A d \in S : AtServer'[d] = IF Service!Past(AtServer[d]) THEN "ended" ELSE "refused"
    BY <1>0, <1>4, PhasesAre
  <2>1. AtServer' = [d \in Clients |->
            IF d \in S THEN IF Service!Past(AtServer[d]) THEN "ended" ELSE "refused" ELSE AtServer[d]]
    BY <1>4, <2>0, PhasesAre
  <2>2. Service!ServerEnds(S)
    BY <1>1, <2>1 DEF Service!ServerEnds
  <2>3. QED
    BY <2>2 DEF Service!Next
<1>5. CASE \E c \in Clients : Accept(c)
  <2>1. PICK c \in Clients : Accept(c)
    BY <1>5
  <2>2. mSocket = None /\ ~sActions
    BY <2>1, FreeUncoupled DEF Accept, SlotConsistent, TypeOK, ServerTypeOK, HandlerType
  <2>3. /\ mSocket' = c /\ sActions' = sActions /\ sCoupling'.coupled = FALSE
        /\ ~Taken(c) /\ \A d \in Clients : d # c => (Taken(d)' <=> Taken(d))
    BY <2>1, QueueTypes DEF Accept, NewHandler, Taken
  <2>4. granted' = granted /\ c \notin granted
    BY <2>3 DEF NowCoupled, GrantedInv, Remembered
  <2>5. \A d \in Clients : AtServer'[d] = AtServer[d]
    BY <2>2, <2>3, <2>4, PhasesAre
  <2>6. QED
    BY <1>2, <2>5
<1>6. CASE \E c \in Clients : AbortExcess(c)
  <2>1. PICK c \in Clients : AbortExcess(c)
    BY <1>6
  <2>2. /\ mSocket' = mSocket /\ sActions' = sActions /\ sCoupling' = sCoupling
        /\ ~Taken(c) /\ Taken(c)' /\ \A d \in Clients : d # c => (Taken(d)' <=> Taken(d))
    BY <2>1, QueueTypes DEF AbortExcess, Taken, serverVars
  <2>3. mSocket # c
    BY <2>2 DEF CouplingInv, Attached
  <2>4. \A d \in Clients : d # c => AtServer'[d] = AtServer[d]
    BY <1>0, <2>2, <2>3, PhasesAre
  <2> DEFINE S == {c}
  <2>5. S \in SUBSET Clients /\ (\A d \in S : mSocket' # d /\ Taken(d)')
        /\ \A d \in Clients \ S : AtServer'[d] = AtServer[d]
    BY <2>2, <2>3, <2>4
  <2>6. QED
    BY <1>4, <2>5
<1>7. CASE OnRequest
  <2> DEFINE c == mSocket
  <2>1. /\ mSocket' = mSocket /\ sActions' = sActions /\ sSocket' = sSocket /\ c \in Clients
    BY <1>7 DEF OnRequest, TypeOK, ServerTypeOK, SlotConsistent
  <2>2. \A d \in Clients : d # c => AtServer'[d] = AtServer[d]
    BY <1>0, <2>1, PhasesAre DEF Taken
  <2>3. CASE sCoupling'.coupled = sCoupling.coupled
    <3>1. \A d \in Clients : AtServer'[d] = AtServer[d]
      BY <1>0, <2>1, <2>3, PhasesAre DEF Taken
    <3>2. QED
      BY <1>2, <3>1
  <2>4. CASE sCoupling'.coupled # sCoupling.coupled
    <3>1. ~sCoupling.coupled /\ sCoupling'.coupled
      <4>1. PICK step \in Steps, result \in Results :
                sCoupling'.coupled = (sCoupling.coupled \/ (result = "Accepted" /\ step = "Connect"))
        BY <1>7, AnswerCouples
      <4>2. sCoupling.coupled \in BOOLEAN
        BY DEF TypeOK, ServerTypeOK, HandlerType
      <4>3. QED
        BY <2>4, <4>1, <4>2
    <3>2. ~sActions
      BY <3>1 DEF SessionInv, Announcing
    <3>3. AtServer[c] = "none" /\ AtServer'[c] = "coupled"
      BY <2>1, <3>1, <3>2, PhasesAre
    <3>4. Service!Served = {}
      BY <2>1, <3>1, OnlySlotServed DEF CouplingInv
    <3>5. AtServer' = [AtServer EXCEPT ![c] = "coupled"]
      BY <1>3, <2>1, <2>2, <3>3
    <3>6. \E d \in Clients : Service!ServerCouples(d)
      BY <1>1, <2>1, <3>3, <3>4, <3>5 DEF Service!ServerCouples
    <3>7. QED
      BY <3>6 DEF Service!Next
  <2>5. QED
    BY <2>3, <2>4
<1>8. CASE \E c \in Clients : ServerOnCoupled(c)
  <2> DEFINE c == mSocket
  <2>1. /\ mSocket' = mSocket /\ sCoupling' = sCoupling /\ sActions' /\ ~sActions
        /\ sSocket' = sSocket /\ c \in Clients /\ sCoupling.coupled
    <3>1. PICK d \in Clients : ServerOnCoupled(d)
      BY <1>8
    <3>2. posted[Server] # <<>> /\ Head(posted[Server]).ev = "coupled"
      BY <3>1 DEF ServerOnCoupled, Due, Event
    <3>3. sCoupling.coupled
      BY <3>2, EventPlaces, ServerLoopAfter DEF SessionInv, CoupledFirst
    <3>4. QED
      BY <3>1, <3>3 DEF ServerOnCoupled, TypeOK, ServerTypeOK, SlotConsistent, linkVars
  <2>2. AtServer[c] = "coupled" /\ AtServer'[c] = "announced"
    BY <2>1, PhasesAre
  <2>3. \A d \in Clients : d # c => AtServer'[d] = AtServer[d]
    BY <1>0, <2>1, PhasesAre DEF Taken
  <2>4. AtServer' = [AtServer EXCEPT ![c] = "announced"]
    BY <1>3, <2>1, <2>2, <2>3
  <2>5. \E d \in Clients : Service!ServerAnnounces(d)
    BY <1>1, <2>1, <2>2, <2>4 DEF Service!ServerAnnounces
  <2>6. QED
    BY <2>5 DEF Service!Next
<1>9. CASE \E c \in Clients : DropClient(c)
  <2>1. mSocket' = None /\ sSocket' = sSocket
    BY <1>9 DEF DropClient, DropSlot, linkVars
  <2>2. \A d \in Clients : d # mSocket => AtServer'[d] = AtServer[d]
    BY <1>0, <2>1, PhasesAre DEF Taken
  <2>3. \A d \in Clients : d = mSocket => mSocket' # d /\ Taken(d)'
    BY <2>1 DEF Taken, CouplingInv, Attached
  <2> DEFINE S == {d \in Clients : d = mSocket}
  <2>4. S \in SUBSET Clients /\ (\A d \in S : mSocket' # d /\ Taken(d)')
        /\ \A d \in Clients \ S : AtServer'[d] = AtServer[d]
    BY <2>2, <2>3
  <2>5. QED
    BY <1>4, <2>4
<1>10. CASE (\E c \in Clients : CrashInOnCoupled(c)) \/ CrashInRouter \/ StopServer
  <2>1. /\ mSocket' = None
        /\ sSocket' = [c \in Clients |-> IF sSocket[c] = "none" THEN "none" ELSE "gone"]
    BY <1>10 DEF CrashInOnCoupled, CrashInRouter, StopServer, Shutdown, DropSlot
  <2> DEFINE S == {d \in Clients : sSocket[d] # "none"}
  <2>2. \A d \in S : mSocket' # d /\ Taken(d)'
    BY <2>1 DEF Taken
  <2>3. \A d \in Clients \ S : AtServer'[d] = AtServer[d]
    <3> SUFFICES ASSUME NEW d \in Clients, sSocket[d] = "none"
                 PROVE  AtServer'[d] = AtServer[d]
      OBVIOUS
    <3>1. AtServer[d] = "none"
      BY OnlySlotServed DEF CouplingInv, Taken
    <3>2. AtServer'[d] = "none"
      BY <2>1, PhasesAre DEF Taken
    <3>3. QED
      BY <3>1, <3>2
  <2>4. QED
    BY <1>4, <2>2, <2>3
<1>11. CASE \E c \in Clients : ServerRemoteClosed(c) \/ DeleteSocket(c)
  <2>1. PICK c \in Clients : ServerRemoteClosed(c) \/ DeleteSocket(c)
    BY <1>11
  <2>2. Taken(c) /\ Taken(c)'
    <3>1. CASE ServerRemoteClosed(c)
      BY <3>1, QueueTypes DEF ServerRemoteClosed, Taken
    <3>2. CASE DeleteSocket(c)
      <4>1. Waits(Server, "delete", c)
        BY <3>2, EventPlaces, ServerLoopAfter DEF DeleteSocket, Due, Waits
      <4>2. QED
        BY <3>2, <4>1, QueueTypes DEF DeleteSocket, CouplingInv, Attached, Taken
    <3>3. QED
      BY <2>1, <3>1, <3>2
  <2>3. /\ mSocket' = mSocket /\ sActions' = sActions /\ sCoupling' = sCoupling
        /\ \A d \in Clients : d # c => (Taken(d)' <=> Taken(d))
    BY <2>1, QueueTypes DEF ServerRemoteClosed, DeleteSocket, Taken, serverVars
  <2>4. \A d \in Clients : AtServer'[d] = AtServer[d]
    BY <1>0, <2>2, <2>3, PhasesAre
  <2>5. QED
    BY <1>2, <2>4
<1>12. CASE \/ \E c \in Clients : ServerReadyRead(c) \/ ServerSendAction(c)
            \/ OnHeartbeatEvent \/ ServerOnAction \/ ServerTimeout \/ StartServer
  <2>1. /\ mSocket' = mSocket /\ sActions' = sActions /\ sSocket' = sSocket
        /\ sCoupling' = sCoupling \/ sCoupling' = Beaten(sCoupling)
    BY <1>12 DEF ServerReadyRead, ServerSendAction, OnHeartbeatEvent, ServerOnAction, ServerTimeout, StartServer,
                 linkVars, serverVars
  <2>2. sCoupling'.coupled = sCoupling.coupled
    BY <2>1 DEF Beaten, TypeOK, ServerTypeOK, HandlerType
  <2>3. \A d \in Clients : AtServer'[d] = AtServer[d]
    BY <1>0, <2>1, <2>2, PhasesAre DEF Taken
  <2>4. QED
    BY <1>2, <2>3
<1>13. ~UserDropClient
  BY DEF UserDropClient, TypeOK, ServerTypeOK
<1>14. QED
  BY <1>5, <1>6, <1>7, <1>8, <1>9, <1>10, <1>11, <1>12, <1>13 DEF ServerStep, ServerLoop

\* Unless the server's application drops clients, the communication layer
\* implements SessionService: for any number of clients, whatever is lost or
\* late, the server announces one session at a time, each after its coupling
\* and once, and a client hears only of a session that the server has coupled,
\* though it may have ended it by then, and never of one that it turned away.
THEOREM ServiceImplemented ==
    ASSUME MaxDrops = 0
    PROVE  HistorySpec => ImplementsService
<1>1. HistoryInit => Service!Init
  <2> SUFFICES ASSUME HistoryInit PROVE Service!Init
    OBVIOUS
  <2>1. \A c \in Clients : AtServer[c] = "none" /\ AtClient[c] = "none"
    BY DEF HistoryInit, Init, LinkInit, ClientInit, ServerInit, AtServer, AtClient
  <2>2. QED
    BY <2>1 DEF Service!Init, AtServer, AtClient
<1>2. IInv /\ TurnInv /\ ClientInv /\ CouplingInv /\ GrantedInv /\ SessionInv
          /\ IInv' /\ TurnInv' /\ ClientInv' /\ [HistoryNext]_historyVars =>
          Service!Next \/ UNCHANGED <<AtServer, AtClient>>
  <2> SUFFICES ASSUME IInv, TurnInv, ClientInv, CouplingInv, GrantedInv, SessionInv, IInv', TurnInv', ClientInv',
                      [HistoryNext]_historyVars
               PROVE  Service!Next \/ UNCHANGED <<AtServer, AtClient>>
    OBVIOUS
  <2>1. CASE HistoryNext
    <3>1. CASE \E c \in Clients : ClientStep(c)
      BY <2>1, <3>1, ClientRefines DEF IInv, HistoryNext
    <3>2. CASE ServerStep
      BY <2>1, <3>2, ServerRefines DEF IInv, HistoryNext
    <3>3. QED
      BY <2>1, <3>1, <3>2 DEF HistoryNext, Next
  <2>2. CASE UNCHANGED historyVars
    BY <2>2 DEF historyVars, vars, linkVars, clientVars, serverVars, AtServer, AtClient
  <2>3. QED
    BY <2>1, <2>2
<1>3. Service!Next \/ UNCHANGED <<AtServer, AtClient>> => [Service!Next]_(Service!serviceVars)
  BY DEF Service!serviceVars
<1>4. QED
  BY <1>1, <1>2, <1>3, HistoryOfLayer, InductiveInvariant, TakingTurns, ClientInvInductive, CouplingInductive,
     GrantedInductive, SessionInductive, PTL DEF HistorySpec, ImplementsService, Service!Spec

\* With or without drops, for any number of clients: the server serves one
\* session at a time, and a client that believes to be coupled is one that the
\* server has coupled, though it may have ended the session by then.
THEOREM PeersRelyOnService == HistorySpec => [](Service!OneServed /\ Service!CoupledBefore)
<1>1. Service!OneServed
  BY DEF Service!OneServed, Service!Served, AtServer
<1>2. TypeOK /\ TurnInv /\ ClientInv /\ GrantedInv /\ TypeOK' /\ TurnInv' /\ ClientInv' => Service!CoupledBefore
  BY GrantedIsPast, PhasesAre DEF Service!CoupledBefore, GrantedInv, Remembered, ClientInv, ClientObjects
<1>3. QED
  BY <1>1, <1>2, HistoryOfLayer, TypeCorrect, TakingTurns, ClientInvInductive, GrantedInductive, PTL

-------------------------------------------------------------------------------
\* A session that is accepted in a pass of the loop in which events already
\* wait has not shaken hands before these are delivered: its socket is served
\* once in the pass, and to shake hands is to be served.
NewInPass == /\ posted[Server] # <<>> /\ served[Server] # {}
             /\ mSocket # None /\ mSocket \notin served[Server] /\ "timer" \notin served[Server]
             => ~sCoupling.handshaked

\* So the ConnectRequest of a session is in hand only when no event waits, or
\* when it has done its work.
ConnectsAlone == posted[Server] # <<>> /\ mSocket # None /\ ~sCoupling.coupled =>
                     \A m \in Elements(sBuffer) : m.step # "Connect"

PassInv == NewInPass /\ ConnectsAlone

\* A step that leaves the handler and the server's loop alone.
LEMMA PassKept ==
    ASSUME PassInv, mSocket' = mSocket,
           posted'[Server] = posted[Server], served'[Server] = served[Server],
           sCoupling'.handshaked = sCoupling.handshaked, sCoupling'.coupled = sCoupling.coupled,
           Elements(sBuffer') \subseteq Elements(sBuffer)
    PROVE  PassInv'
  BY DEF PassInv, NewInPass, ConnectsAlone

\* With the slot free nothing is claimed.
LEMMA PassOfFreeSlot == mSocket' = None => PassInv'
  BY DEF PassInv, NewInPass, ConnectsAlone

\* What a callback of the session's own socket, or of the timer, leaves.
LEMMA ServedInPass ==
    ASSUME TypeOK, NEW src, NEW evs, Post(Server, src, evs), src \in {mSocket', "timer"}
    PROVE  NewInPass'
<1>1. /\ posted'[Server] = posted[Server] \o evs
      /\ served'[Server] = IF posted[Server] \o evs = <<>> THEN {} ELSE served[Server] \cup {src}
  BY ServerLoopAfter
<1>2. CASE posted[Server] \o evs = <<>>
  BY <1>1, <1>2 DEF NewInPass
<1>3. CASE posted[Server] \o evs # <<>>
  <2>1. src \in served'[Server]
    BY <1>1, <1>3
  <2>2. QED
    BY <2>1 DEF NewInPass
<1>4. QED
  BY <1>2, <1>3

\* What the answer to a request posts, and which one couples the session.
LEMMA AnswerPosts ==
    ASSUME TypeOK, SlotConsistent, CouplingInv, OnRequest
    PROVE  /\ \E evs : Post(Server, sDevice, evs) /\ (evs = <<>> \/ sCoupling'.coupled)
           /\ ~sCoupling.coupled /\ sCoupling'.coupled => Head(sBuffer).step = "Connect"
<1>1. /\ sBuffer # <<>> /\ sBuffer \in Seq(ToServer) /\ sDevice = mSocket /\ mSocket \in Clients
      /\ sCoupling \in HandlerType
  BY QueueTypes, AnswerCouples DEF OnRequest, Receiving, TypeOK, ServerTypeOK
<1>2. PICK m : m = Head(sBuffer)
  OBVIOUS
<1>3. PICK authorized \in BOOLEAN : \E result, evs :
          /\ m.step \in Steps
          /\ result = ResultOf(sCoupling, m.step, authorized)
          /\ sCoupling' = Answered(sCoupling, m.step, m.port, result)
          /\ evs = IF m.step = "Connect" /\ result = "Accepted" THEN <<Event("coupled", sDevice)>> ELSE <<>>
          /\ Post(Server, sDevice, evs)
  BY <1>2 DEF OnRequest
<1>4. PICK result, evs :
          /\ m.step \in Steps
          /\ result = ResultOf(sCoupling, m.step, authorized)
          /\ sCoupling' = Answered(sCoupling, m.step, m.port, result)
          /\ evs = IF m.step = "Connect" /\ result = "Accepted" THEN <<Event("coupled", sDevice)>> ELSE <<>>
          /\ Post(Server, sDevice, evs)
  BY <1>3
<1>5. m \in Elements(sBuffer) /\ m \in ToServer
  BY <1>1, <1>2, MessagesOfQueues
<1>6. RequestFits(mSocket, m)
  BY <1>1, <1>5 DEF CouplingInv, Consistent, Outbound, InHand
<1>7. /\ m.port \in Ports \cup {NoPort}
      /\ m.step = "Connect" => m.port \in Ports
  BY <1>1, <1>4, <1>5, <1>6 DEF ToServer, Requests, Request, ActionResponse, Response, Steps, RequestFits
<1>8. sCoupling'.coupled = (sCoupling.coupled \/ (result = "Accepted" /\ m.step = "Connect"))
  BY <1>1, <1>4, <1>7, AnsweredEffect
<1>9. QED
  BY <1>2, <1>4, <1>8

LEMMA ServerKeepsPass ==
    ASSUME TypeOK, SlotConsistent, NoSocketLeak, CouplingInv, PassInv, ServerStep
    PROVE  PassInv'
<1>1. CASE \E c \in Clients : Accept(c)
  <2>1. PICK c \in Clients : Accept(c)
    BY <1>1
  <2>2. sBuffer' = <<>> /\ ~sCoupling'.handshaked
    BY <2>1 DEF Accept, Ready, NewHandler
  <2>3. QED
    BY <2>2 DEF PassInv, NewInPass, ConnectsAlone, Elements
<1>2. CASE (\E c \in Clients : AbortExcess(c) \/ ServerSendAction(c)) \/ StartServer
  BY <1>2, PassKept DEF AbortExcess, ServerSendAction, StartServer, loopVars, serverVars
<1>3. CASE \E c \in Clients : ServerReadyRead(c)
  <2>1. PICK c \in Clients : ServerReadyRead(c)
    BY <1>3
  <2>2. /\ mSocket' = mSocket /\ sCoupling' = sCoupling /\ c = sDevice /\ c # None
        /\ CanServe(Server, c) /\ Post(Server, c, <<>>)
    BY <2>1 DEF ServerReadyRead, Serve
  <2>3. posted'[Server] = posted[Server]
    <3>1. posted[Server] \in Seq(Events) /\ posted'[Server] = posted[Server] \o <<>>
      BY <2>2, ServerLoopAfter
    <3>2. QED
      BY <3>1, EventPlaces
  <2>4. ASSUME posted[Server] # <<>>, mSocket # None
        PROVE  NewInPass' /\ ConnectsAlone'
    <3>1. mSocket = c
      BY <2>2, <2>4 DEF CouplingInv, Attached
    <3>2. NewInPass'
      BY <2>2, <3>1, ServedInPass
    <3>3. ~sCoupling.handshaked
      BY <2>2, <2>4, <3>1 DEF PassInv, NewInPass, CanServe
    <3>4. \A m \in Elements(toServer[c]) : m.step # "Connect"
      BY <3>1, <3>3 DEF CouplingInv, Consistent, Outbound, RequestFits, ReadyFor, Stage, Steps
    <3>5. Elements(sBuffer') \subseteq Elements(toServer[c])
      <4>1. PICK r \in Reads(toServer[c]) : sBuffer' = Whole(toServer[c], r)
        BY <2>1 DEF ServerReadyRead
      <4>2. toServer[c] \in Seq(ToServer)
        BY QueueTypes
      <4>3. QED
        BY <4>1, <4>2, MessagesOfQueues
    <3>6. QED
      BY <3>2, <3>4, <3>5 DEF ConnectsAlone
  <2>5. QED
    BY <2>2, <2>3, <2>4 DEF PassInv, NewInPass, ConnectsAlone
<1>4. CASE OnRequest
  <2>1. /\ sBuffer # <<>> /\ sBuffer' = Tail(sBuffer) /\ sBuffer \in Seq(ToServer)
        /\ mSocket \in Clients /\ mSocket' = mSocket /\ sDevice = mSocket /\ mSocket # None
    BY <1>4, QueueTypes, AnswerCouples DEF OnRequest, Receiving
  <2>2. Elements(sBuffer') \subseteq Elements(sBuffer)
    BY <2>1, MessagesOfQueues
  <2>3. PICK evs : Post(Server, sDevice, evs) /\ (evs = <<>> \/ sCoupling'.coupled)
    BY <1>4, AnswerPosts
  <2>4. NewInPass'
    BY <2>1, <2>3, ServedInPass
  <2>5. CASE posted[Server] = <<>> /\ evs = <<>>
    <3>1. posted'[Server] = <<>> \o <<>>
      BY <2>3, <2>5, ServerLoopAfter
    <3>2. QED
      BY <2>4, <3>1 DEF PassInv, ConnectsAlone
  <2>6. CASE posted[Server] # <<>> /\ evs = <<>>
    <3>1. sCoupling.coupled => sCoupling'.coupled
      BY <1>4, AnswerCouples
    <3>2. QED
      BY <2>1, <2>2, <2>4, <2>6, <3>1 DEF PassInv, ConnectsAlone
  <2>7. CASE sCoupling'.coupled
    BY <2>4, <2>7 DEF PassInv, ConnectsAlone
  <2>8. QED
    BY <2>3, <2>5, <2>6, <2>7
<1>5. CASE OnHeartbeatEvent \/ ServerOnAction
  <2>1. /\ sBuffer # <<>> /\ sBuffer' = Tail(sBuffer) /\ sBuffer \in Seq(ToServer)
        /\ mSocket' = mSocket /\ posted' = posted /\ served' = served
    BY <1>5, QueueTypes DEF OnHeartbeatEvent, ServerOnAction, Receiving, loopVars
  <2>2. sCoupling'.handshaked = sCoupling.handshaked /\ sCoupling'.coupled = sCoupling.coupled
    BY <1>5 DEF OnHeartbeatEvent, ServerOnAction, Beaten, TypeOK, ServerTypeOK, HandlerType
  <2>3. Elements(sBuffer') \subseteq Elements(sBuffer)
    BY <2>1, MessagesOfQueues
  <2>4. QED
    BY <2>1, <2>2, <2>3, PassKept
<1>6. CASE \/ \E c \in Clients : CrashInOnCoupled(c) \/ DropClient(c)
           \/ CrashInRouter \/ StopServer \/ UserDropClient
  <2>1. mSocket' = None
    BY <1>6 DEF CrashInOnCoupled, DropClient, CrashInRouter, StopServer, UserDropClient, Shutdown, DropSlot
  <2>2. QED
    BY <2>1, PassOfFreeSlot
<1>7. CASE ServerTimeout
  <2>1. sBuffer' = <<>>
    BY <1>7 DEF ServerTimeout, Ready, serverVars
  <2>2. NewInPass'
    BY <1>7, ServedInPass DEF ServerTimeout, Serve
  <2>3. QED
    BY <2>1, <2>2 DEF PassInv, ConnectsAlone, Elements
<1>8. CASE \E c \in Clients : ServerRemoteClosed(c)
  <2>1. PICK c \in Clients : ServerRemoteClosed(c)
    BY <1>8
  <2>2. /\ sBuffer' = <<>> /\ mSocket' = mSocket /\ sCoupling' = sCoupling
        /\ CanServe(Server, c) /\ Post(Server, c, <<Event("disconnected", c)>>)
    BY <2>1 DEF ServerRemoteClosed, Ready, Serve, serverVars
  <2>3. CASE mSocket = c
    BY <2>2, <2>3, ServedInPass DEF PassInv, ConnectsAlone, Elements
  <2>4. CASE mSocket # c
    <3>1. Waits(Server, "delete", c)
      BY <2>1, <2>4 DEF NoSocketLeak, ServerRemoteClosed
    <3>2. posted[Server] # <<>>
      BY <3>1 DEF Waits, Elements
    <3>3. served[Server] # {}
      BY <2>2, <3>2 DEF CanServe
    <3>4. served'[Server] = {} \/ served'[Server] = served[Server] \cup {c}
      BY <2>2, ServerLoopAfter
    <3>5. NewInPass'
      BY <2>2, <3>2, <3>3, <3>4 DEF PassInv, NewInPass
    <3>6. QED
      BY <2>2, <3>5 DEF PassInv, ConnectsAlone, Elements
  <2>5. QED
    BY <2>3, <2>4
<1>9. CASE \E c \in Clients : ServerOnCoupled(c) \/ DeleteSocket(c)
  <2>1. PICK evs : sBuffer' = <<>> /\ Deliver(Server, evs)
    BY <1>9 DEF ServerOnCoupled, DeleteSocket, Ready
  <2>2. served'[Server] = {}
    BY <2>1, ServerLoopAfter
  <2>3. QED
    BY <2>1, <2>2 DEF PassInv, NewInPass, ConnectsAlone, Elements
<1>10. QED
  BY <1>1, <1>2, <1>3, <1>4, <1>5, <1>6, <1>7, <1>8, <1>9 DEF ServerStep, ServerLoop

LEMMA PassInductive == Spec => []PassInv
<1>1. Init => PassInv
  BY DEF Init, ServerInit, PassInv, NewInPass, ConnectsAlone
<1>2. IInv /\ CouplingInv /\ PassInv /\ [Next]_vars => PassInv'
  <2> SUFFICES ASSUME IInv, CouplingInv, PassInv, [Next]_vars
               PROVE  PassInv'
    OBVIOUS
  <2>1. CASE \E c \in Clients : ClientStep(c)
    BY <2>1, ClientLeavesServerLoop, PassKept DEF IInv, ClientStep, serverVars
  <2>2. CASE ServerStep
    BY <2>2, ServerKeepsPass DEF IInv
  <2>3. CASE UNCHANGED vars
    BY <2>3, PassKept DEF vars, loopVars, serverVars
  <2>4. QED
    BY <2>1, <2>2, <2>3 DEF Next
<1>3. QED
  BY <1>1, <1>2, InductiveInvariant, CouplingInductive, PTL DEF Spec

\* A session couples only when no event waits for the server: what the end of
\* an earlier session posted, a drop by the application included, has been
\* delivered by then.
CouplesAlone == [][~sCoupling.coupled /\ sCoupling'.coupled => posted[Server] = <<>>]_vars

\* The last request of a coupling is read when no event waits for the server,
\* with or without drops and for any number of clients: the queued signals of a
\* dropped session never meet the coupled of the next one.
THEOREM CouplesInAPassOfItsOwn == Spec => CouplesAlone
<1>1. IInv /\ CouplingInv /\ PassInv /\ [Next]_vars =>
          [~sCoupling.coupled /\ sCoupling'.coupled => posted[Server] = <<>>]_vars
  <2> SUFFICES ASSUME IInv, CouplingInv, PassInv, [Next]_vars, ~sCoupling.coupled, sCoupling'.coupled
               PROVE  posted[Server] = <<>>
    OBVIOUS
  <2>1. ServerStep
    BY DEF Next, ClientStep, vars, serverVars
  <2>2. OnRequest
    <3>1. ~ \E c \in Clients : Accept(c) \/ DropClient(c) \/ CrashInOnCoupled(c)
      BY DEF Accept, DropClient, CrashInOnCoupled, Shutdown, DropSlot, NoHandler, NewHandler
    <3>2. ~(CrashInRouter \/ UserDropClient \/ StopServer)
      BY DEF CrashInRouter, UserDropClient, StopServer, Shutdown, DropSlot, NoHandler, NewHandler
    <3>3. ~ \E c \in Clients : \/ AbortExcess(c) \/ ServerReadyRead(c) \/ ServerRemoteClosed(c)
                              \/ ServerOnCoupled(c) \/ DeleteSocket(c) \/ ServerSendAction(c)
      BY DEF AbortExcess, ServerReadyRead, ServerRemoteClosed, ServerOnCoupled, DeleteSocket,
             ServerSendAction, serverVars
    <3>4. ~(OnHeartbeatEvent \/ ServerOnAction \/ ServerTimeout \/ StartServer)
      BY DEF OnHeartbeatEvent, ServerOnAction, ServerTimeout, StartServer, Beaten, serverVars,
             IInv, TypeOK, ServerTypeOK, HandlerType
    <3>5. QED
      BY <2>1, <3>1, <3>2, <3>3, <3>4 DEF ServerStep, ServerLoop
  <2>3. sBuffer # <<>> /\ sBuffer \in Seq(ToServer) /\ mSocket # None
    BY <2>2, QueueTypes DEF OnRequest, Receiving, IInv, SlotConsistent
  <2>4. Head(sBuffer) \in Elements(sBuffer) /\ Head(sBuffer).step = "Connect"
    BY <2>2, <2>3, MessagesOfQueues, AnswerPosts DEF IInv
  <2>5. QED
    BY <2>3, <2>4 DEF PassInv, ConnectsAlone
<1>2. QED
  BY <1>1, InductiveInvariant, CouplingInductive, PassInductive, PTL DEF Spec, CouplesAlone
===============================================================================
