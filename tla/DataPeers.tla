------------------------------- MODULE DataPeers -------------------------------
(***************************************************************************)
(* A ClientPeer and a ServerPeer with their data channels, on top of what  *)
(* the communication layer promises them (SessionService), and the worker  *)
(* threads of the demo that send data (src/client_peer.cpp,                *)
(* src/server_peer.cpp, src/main.cpp).  A session is one attempt of the    *)
(* client; the datagrams between the peers are modelled by what their      *)
(* arrival does to the input that they reach.                              *)
(***************************************************************************)
EXTENDS DataChannel, FiniteSets

CONSTANTS
    Client, Server,   \* the two peers
    Workers,          \* the peers with a worker thread
    Faults,           \* the peers whose input socket may be lost
    QueueCap          \* bound: events that wait when the application or the
                      \* network does something

Peers == {Client, Server}

ASSUME PeersAssumption == /\ Client # Server
                          /\ Workers \subseteq Peers /\ Faults \subseteq Peers
                          /\ QueueCap \in Nat

VARIABLES
    chan,       \* the data channel of each peer
    attempts,   \* the sessions that the client has begun: 1..attempts
    client,     \* the session of m_commClient, or 0
    running,    \* whether m_commServer exists
    atServer,   \* how far each session has come at the server
    atClient,   \* and at the client
    checked,    \* the workers that saw isConnected()
    uses        \* the connection whose m_out a worker is writing to, or 0

Service == INSTANCE SessionService WITH Clients <- Sessions

peerVars == <<attempts, client, running, atServer, atClient>>
workerVars == <<checked, uses>>
vars == <<chan, peerVars, workerVars>>

Other(p) == CHOOSE q \in Peers : q # p

Init == /\ chan = [p \in Peers |-> NewChannel]
        /\ attempts = 0
        /\ client = 0
        /\ running = FALSE
        /\ Service!Init
        /\ checked = {}
        /\ uses = [p \in Peers |-> 0]

Begun == 1..attempts

\* The sessions of the server that may hold its slot.
Open == {s \in Begun : atServer[s] \notin {"ended", "refused"}}

Calm(p) == Len(chan[p].queue) < QueueCap

\* The event ev is the next to be delivered to p.
Due(p, ev) == chan[p].queue # <<>> /\ Head(chan[p].queue).ev = ev
Arriving(p) == Head(chan[p].queue)

\* The channel of p without the event that is being delivered.
Taken(p) == [chan[p] EXCEPT !.queue = Tail(@)]

\* The elements of the queue q at the places I, in their order.
Selected(q, I) ==
    [n \in 1..Cardinality(I) |-> q[CHOOSE i \in I : Cardinality(I \cap (1..i)) = n]]

\* The events of a communication object go with it.
Forgotten(ch) ==
    LET kept == {i \in DOMAIN ch.queue : ch.queue[i].ev \notin {"coupled", "ended"}}
    IN  [ch EXCEPT !.queue = Selected(ch.queue, kept)]

Set(p, ch) == chan' = [chan EXCEPT ![p] = ch]

-------------------------------------------------------------------------------
(* The client. *)

\* Mutant of Disconnected: disconnectDataPeer() is forgotten.
DisconnectedOnly(ch) == Forgotten(ch)

\* ClientPeer::disconnectFromHost: the data connection goes with m_commClient.
Disconnected(ch) == Forgotten(Released(ch))

\* The session of the client ends, if there is one.
ClientEnds == IF client = 0 THEN UNCHANGED <<atServer, atClient>>
                            ELSE Service!ClientEnds(client)

\* ClientPeer::connectToHost: the earlier session ends, and a new one begins
\* if the channel can be made.
ConnectToHost ==
    /\ Calm(Client) /\ attempts + 1 \in Sessions
    /\ \E bound \in BOOLEAN :
          LET ch == Started(IF client = 0 THEN chan[Client] ELSE Disconnected(chan[Client]), bound)
          IN  /\ Set(Client, ch)
              /\ attempts' = IF ch.input THEN attempts + 1 ELSE attempts
              /\ client' = IF ch.input THEN attempts + 1 ELSE 0
    /\ ClientEnds
    /\ UNCHANGED <<running, workerVars>>

\* Mutant of ClientCouples: coupled is delivered at once.
ClientCouplesAtOnce ==
    /\ Calm(Client) /\ client # 0
    /\ Service!ClientCouples(client)
    /\ Set(Client, Linked([chan[Client] EXCEPT !.out = client]))
    /\ UNCHANGED <<attempts, client, running, workerVars>>

\* The client's coupling handler emits coupled, which is queued.
ClientCouples ==
    /\ Calm(Client) /\ client # 0
    /\ Service!ClientCouples(client)
    /\ Set(Client, Posted(chan[Client], <<Event("coupled", client)>>))
    /\ UNCHANGED <<attempts, client, running, workerVars>>

\* CommunicationClient::connected: the data connection to the host's name is
\* made; a lookup may be needed.
ClientOnCoupled ==
    /\ Due(Client, "coupled")
    /\ Service!ClientAnnounces(Arriving(Client).s)
    /\ \E cached \in BOOLEAN : Set(Client, ConnectedTo(Taken(Client), client, cached))
    /\ UNCHANGED <<attempts, client, running, workerVars>>

\* The lookup succeeds.
Resolved ==
    /\ chan[Client].out # 0 /\ ~chan[Client].linked
    /\ Set(Client, Linked(chan[Client]))
    /\ UNCHANGED <<peerVars, workerVars>>

\* disconnectFromHost(), by the application or by disconnected of m_commClient.
DisconnectFromHost ==
    /\ Calm(Client) /\ client # 0
    /\ Set(Client, Disconnected(chan[Client]))
    /\ client' = 0
    /\ ClientEnds
    /\ UNCHANGED <<attempts, running, workerVars>>

-------------------------------------------------------------------------------
(* The server. *)

\* stop(): disconnectDataPeer(), and once more by peerDisconnected when
\* m_commServer is destroyed with a session in its slot.
Stopped(ch, occupied) ==
    IF occupied THEN Released(Disconnected(ch)) ELSE Disconnected(ch)

ServerGone == IF running THEN Service!ServerEnds(Open) ELSE UNCHANGED <<atServer, atClient>>

Occupied == IF Service!Served # {} THEN {TRUE}
            ELSE IF Open # {} THEN BOOLEAN ELSE {FALSE}

\* ServerPeer::start: the earlier server stops, and a new one begins if the
\* channel can be made and the port opened.
StartServer ==
    /\ Calm(Server)
    /\ \E bound, opened \in BOOLEAN, occupied \in Occupied :
          LET ch == Started(IF running THEN Stopped(chan[Server], occupied)
                                       ELSE chan[Server], bound)
          IN  /\ Set(Server, ch)
              /\ running' = (ch.input /\ opened)
    /\ ServerGone
    /\ UNCHANGED <<attempts, client, workerVars>>

\* ServerPeer::stop.
StopServer ==
    /\ Calm(Server) /\ running
    /\ \E occupied \in Occupied : Set(Server, Stopped(chan[Server], occupied))
    /\ running' = FALSE
    /\ ServerGone
    /\ UNCHANGED <<attempts, client, workerVars>>

Waits(p, ev) == \E e \in Elements(chan[p].queue) : e.ev = ev

\* The server's coupling handler emits coupled, which is queued.  A coupling takes
\* several passes of the loop: an end that waited when the socket was accepted is
\* delivered before (the theorem CouplesInAPassOfItsOwn of SessionProofs).
ServerCouples(s) ==
    /\ Calm(Server) /\ running /\ s \in Begun
    /\ ~Waits(Server, "ended")
    /\ Service!ServerCouples(s)
    /\ Set(Server, Posted(chan[Server], <<Event("coupled", s)>>))
    /\ UNCHANGED <<attempts, client, running, workerVars>>

\* CommunicationServer::peerConnected: the data connection to the client's
\* address, a number, is made at once.
ServerOnCoupled ==
    /\ Due(Server, "coupled")
    /\ LET s == Arriving(Server).s
       IN  /\ Service!ServerAnnounces(s)
           /\ Set(Server, ConnectedTo(Taken(Server), s, TRUE))
    /\ UNCHANGED <<attempts, client, running, workerVars>>

\* The socket or the handler of a session reports its end, which is queued; the
\* socket of a session that was dropped does so later, when it is deleted.
SessionEnds(s) ==
    /\ Calm(Server) /\ running
    /\ s \in Begun /\ atServer[s] # "none"
    /\ Event("ended", s) \notin Elements(chan[Server].queue)
    /\ Set(Server, Posted(chan[Server], <<Event("ended", s)>>))
    /\ UNCHANGED <<peerVars, workerVars>>

\* CommunicationServer::dropClient drops whoever holds the slot, and the slot of
\* its peerDisconnected the data connection.
ServerOnEnded ==
    /\ Due(Server, "ended")
    /\ IF Service!Served = {}
       THEN Set(Server, Taken(Server)) /\ UNCHANGED <<atServer, atClient>>
       ELSE Set(Server, Released(Taken(Server))) /\ Service!ServerEnds(Service!Served)
    /\ UNCHANGED <<attempts, client, running, workerVars>>

\* A session that held the slot without being coupled ends: peerDisconnected is
\* emitted for it, too.
UncoupledEnds(s) ==
    /\ Calm(Server) /\ running
    /\ s \in Open /\ Service!Served = {}
    /\ Set(Server, Released(chan[Server]))
    /\ Service!ServerEnds({s})
    /\ UNCHANGED <<attempts, client, running, workerVars>>

\* ServerPeer::dropClient, called by the application, in the same two steps as
\* stop().  An application that drops while coupled waits loses its server to a
\* failed assertion: the run DropDuringCoupling of Communication shows that, and
\* this model has an application that does not.
DropClient ==
    /\ Calm(Server) /\ running
    /\ ~Waits(Server, "coupled")
    /\ Set(Server, IF Service!Served = {} THEN Released(chan[Server])
                                          ELSE Released(Released(chan[Server])))
    /\ Service!ServerEnds(Service!Served)
    /\ UNCHANGED <<attempts, client, running, workerVars>>

-------------------------------------------------------------------------------
(* Both. *)

\* The input socket of p reports disconnected.  (Qt does so only for a socket
\* that was connected; the code is ready for it.)
InputFails(p) ==
    /\ p \in Faults /\ Calm(p) /\ chan[p].input
    /\ Set(p, InputLost(chan[p]))
    /\ UNCHANGED <<peerVars, workerVars>>

\* releaseConnection() arrives, queued by the disconnected of an m_out.
OnRelease(p) == /\ Due(p, "release")
                /\ Set(p, Released(Taken(p)))
                /\ UNCHANGED <<peerVars, workerVars>>

\* connected or disconnected of the channel arrives.
OnSignal(p) == /\ Due(p, "connected") \/ Due(p, "disconnected")
               /\ Set(p, WithState(Taken(p), Arriving(p).ev))
               /\ UNCHANGED <<peerVars, workerVars>>

\* Mutant of OnFailed: the peers do not override onFailed().
OnFailedOnly(p) ==
    /\ Due(p, "failed")
    /\ Set(p, WithState(Taken(p), "failed"))
    /\ UNCHANGED <<peerVars, workerVars>>

\* failed arrives: a state that was another calls onFailed(), by which the
\* client disconnects and the server stops.
OnFailed(p) ==
    /\ Due(p, "failed")
    /\ LET ch == WithState(Taken(p), "failed")
       IN  IF chan[p].state = "Failed" \/ (IF p = Client THEN client = 0 ELSE ~running)
           THEN Set(p, ch) /\ UNCHANGED peerVars
           ELSE /\ IF p = Client
                   THEN /\ Set(p, Disconnected(ch))
                        /\ client' = 0
                        /\ ClientEnds
                        /\ UNCHANGED running
                   ELSE /\ \E occupied \in Occupied : Set(p, Stopped(ch, occupied))
                        /\ running' = FALSE
                        /\ ServerGone
                        /\ UNCHANGED client
                /\ UNCHANGED attempts
    /\ UNCHANGED workerVars

Deliver(p) == \/ OnRelease(p)
              \/ OnSignal(p)
              \/ OnFailed(p)
              \/ p = Client /\ ClientOnCoupled
              \/ p = Server /\ (ServerOnCoupled \/ ServerOnEnded)

-------------------------------------------------------------------------------
(* The worker threads: ClientRoutine and ServerRoutine. *)

\* isConnected() is read in the worker's thread.
WorkerChecks(p) == /\ p \in Workers \ checked
                   /\ chan[p].state = "Connected"
                   /\ checked' = checked \cup {p}
                   /\ UNCHANGED <<chan, peerVars, uses>>

\* DataChannel::send looks at m_out: without one it returns.
WorkerTakes(p) == /\ p \in checked /\ uses[p] = 0
                  /\ uses' = [uses EXCEPT ![p] = chan[p].out]
                  /\ checked' = IF chan[p].out = 0 THEN checked \ {p} ELSE checked
                  /\ UNCHANGED <<chan, peerVars>>

\* It writes to it: a datagram leaves while the socket stands and is connected.
\* (What a write to a destroyed socket does is undefined; here it fails.)
WorkerWrites(p) ==
    /\ uses[p] # 0
    /\ IF chan[p].out = uses[p] /\ chan[p].linked
       THEN Set(Other(p), Arrived(chan[Other(p)])) ELSE UNCHANGED chan
    /\ uses' = [uses EXCEPT ![p] = 0]
    /\ checked' = checked \ {p}
    /\ UNCHANGED peerVars

Next == \/ ConnectToHost \/ ClientCouples \/ Resolved \/ DisconnectFromHost
        \/ StartServer \/ StopServer \/ DropClient
        \/ \E s \in Sessions : ServerCouples(s) \/ SessionEnds(s) \/ UncoupledEnds(s)
        \/ \E p \in Peers : \/ Deliver(p)
                            \/ InputFails(p)
                            \/ WorkerChecks(p)
                            \/ WorkerTakes(p)
                            \/ WorkerWrites(p)

Spec == Init /\ [][Next]_vars

\* The loops deliver what waits, and the name of the server's host is known.
FairSpec == Spec /\ WF_vars(Resolved) /\ \A p \in Peers : WF_vars(Deliver(p))

-------------------------------------------------------------------------------
\* Every variable has its type, and a peer listens exactly while it can send.
TypeOK == /\ chan \in [Peers -> Channels]
          /\ \A p \in Peers : chan[p].receiving <=> chan[p].linked
          /\ attempts \in Nat
          /\ client \in Begun \cup {0}
          /\ running \in BOOLEAN
          /\ atServer \in [Sessions -> Service!Phases]
          /\ atClient \in [Sessions -> Service!Phases]
          /\ checked \subseteq Workers
          /\ uses \in [Peers -> Sessions \cup {0}]

\* What a peer reports lags behind its channel, but never for good: with the
\* signals that wait delivered, it is Connected exactly when m_out is.
StateFollowsChannel ==
    \A p \in Peers : WillBeConnected(chan[p]) <=> chan[p].linked

\* A queued releaseConnection() of an old socket never finds a new one.
ReleaseHitsOwn ==
    \A p \in Peers : \A e \in Elements(chan[p].queue) :
        e.ev = "release" => chan[p].out = 0

\* As long as its input stands, a peer has a data connection exactly with the
\* session that is announced to it, and the announcement of a coupled session
\* waits, whatever order the signals of two sessions come in.  The client's is
\* one that the server has coupled.
ConnectionFollowsCoupling ==
    /\ chan[Client].out # 0 =>
          /\ chan[Client].out = client /\ atClient[client] = "announced"
          /\ Service!Past(atServer[client])
    /\ client # 0 =>
          /\ atClient[client] = "announced" /\ chan[Client].input => chan[Client].out = client
          /\ atClient[client] = "coupled" => Event("coupled", client) \in Elements(chan[Client].queue)
    /\ chan[Server].out # 0 => running /\ atServer[chan[Server].out] = "announced"
    /\ \A s \in Sessions :
          /\ atServer[s] = "announced" /\ chan[Server].input => chan[Server].out = s
          /\ atServer[s] = "coupled" => Event("coupled", s) \in Elements(chan[Server].queue)

\* A peer that lost its input does not keep its session: failed waits, or it
\* has let go of the session already.
FailureTearsDown ==
    /\ client # 0 /\ ~chan[Client].input =>
           Waits(Client, "failed")
    /\ running /\ ~chan[Server].input =>
           Waits(Server, "failed")

\* A client whose session is announced gets its data connection and reports
\* Connected, unless the session or the input ends before.
CoupledConnects ==
    \A s \in Sessions : atClient[s] = "announced" ~>
        chan[Client].state = "Connected" \/ atClient[s] = "ended" \/ ~chan[Client].input

\* The peers are coupled to exchange data: a receiver that listens hears.
NeverDeaf == \A p \in Peers : chan[p].receiving => ~chan[p].deaf
===============================================================================
