----------------------------- MODULE Communication -----------------------------
(***************************************************************************)
(* The communication layer as a whole: clients that connect to one server, *)
(* couple with it, keep the session alive with heartbeats, exchange        *)
(* actions and go, by their own will, by refusal, timeout or host failure. *)
(***************************************************************************)
EXTENDS CommunicationClient, CommunicationServer

CONSTANTS
    Actors,   \* the processes whose application sends actions
    Mortal    \* the clients whose host may stop

ASSUME ActorsAssumption == Actors \subseteq Processes /\ Mortal \subseteq Clients

\* A client's data port is named after the client.
ASSUME PortsAssumption == Ports = Clients

vars == <<linkVars, loopVars, clientVars, serverVars>>

Init == LinkInit /\ LoopInit /\ ClientInit /\ ServerInit

ClientStep(c) == /\ \/ ClientLoop(c)
                    \/ ClientTimers(c)
                    \/ ConnectToHost(c)
                    \/ UserDisconnect(c)
                    \/ c \in Mortal /\ HostLost(c)
                    \/ c \in Actors /\ ClientSendAction(c)
                 /\ UNCHANGED serverVars

ServerStep == /\ \/ ServerLoop
                 \/ ServerTimeout
                 \/ UserDropClient
                 \/ Server \in Actors /\ \E c \in Clients : ServerSendAction(c)
                 \/ StopServer
                 \/ StartServer
              /\ UNCHANGED clientVars

Next == (\E c \in Clients : ClientStep(c)) \/ ServerStep

Spec == Init /\ [][Next]_vars

-------------------------------------------------------------------------------
\* Every variable has its type.
TypeOK == LinkTypeOK /\ LoopTypeOK /\ ClientTypeOK /\ ServerTypeOK

Elements(q) == {q[i] : i \in DOMAIN q}

Waits(p, ev, c) == Event(ev, c) \in Elements(posted[p])

\* The server has one slot: a coupling handler exists exactly while a socket
\* holds the slot, and an action handler only beside a coupling handler.
\* onNewConnection() takes a null handler for a free slot, dropClient() and
\* the queued events must never leave one without the other.
SlotConsistent == /\ sCoupling.alive <=> mSocket # None
                  /\ sActions => sCoupling.alive

\* No accepted connection is forgotten: its socket holds the slot, or its
\* deletion is on the way.
NoSocketLeak ==
    \A c \in Clients : sSocket[c] \in {"connected", "unconnected"} =>
        mSocket = c \/ Waits(Server, "delete", c)

\* Nor is a dead one kept: the socket that holds the slot is open, or its
\* disconnected waits, which frees the slot.
SlotOpen ==
    mSocket # None =>
        \/ sSocket[mSocket] = "connected"
        \/ sSocket[mSocket] = "unconnected" /\ Waits(Server, "disconnected", mSocket)

\* A client whose connection stands waits for an answer, under its timer, or
\* has the event before it that takes it further; one whose connection was
\* closed has the event that destroys it.
ClientsMoveOn ==
    \A c \in Clients :
        /\ cSocket[c] = "connected" /\ cCoupling[c] = "none" => Waits(c, "connected", c)
        /\ cSocket[c] = "connected" /\ cCoupling[c] = "coupled" /\ ~cActions[c] => Waits(c, "coupled", c)
        /\ cSocket[c] \in {"unconnected", "aborted"} => Waits(c, "disconnected", c)

\* No session stalls at either side for want of the signal that was to take it
\* further: what must happen for each to end, to couple or to free the slot is
\* queued already.
NothingForgotten == NoSocketLeak /\ SlotOpen /\ ClientsMoveOn

\* Both sides agree on a coupling: when a client believes that it is coupled
\* with the session that holds the slot, the server does too, and knows this
\* client's data port and no other.
CoupledTogether ==
    \A c \in Clients : mSocket = c /\ cCoupling[c] = "coupled" =>
        sCoupling.coupled /\ sCoupling.peerPort = c

\* A client of this code never sends a request out of turn, whatever is lost,
\* late or dropped in between: the server refuses it only by authorize().
NeverOutOfTurn ==
    \A c \in Clients : \A m \in Elements(toClient[c] \o cBuffer[c]) :
        m.kind = "Response" =>
            m.result = "Accepted" \/ (m.step = "Login" /\ m.result = "Rejected")

\* A crash of the client is not waiting to happen: the queued connected and
\* coupled meet what the assertions of startCoupling() and onCoupled() demand
\* (communication_client.cpp:84, 85, 107, 108), and a coupled handler whose
\* heartbeat timer may fire has a transceiver with a device.
ClientAssertsHold ==
    \A c \in Clients :
        /\ Due(c, "connected", c) => cSocket[c] = "connected" /\ cCoupling[c] = "none"
        /\ Due(c, "coupled", c) => cCoupling[c] # "none" /\ ~cActions[c]
        /\ cCoupling[c] = "coupled" /\ CanServe(c, "timer") => cSocket[c] # "aborted"

\* Every message that a client reads finds its handler.
ClientRoutes ==
    \A c \in Clients : ~Idle(c) =>
        IF Head(cBuffer[c]).step = "Action" THEN cActions[c] ELSE cCoupling[c] # "none"

\* The queued coupled meets what onCoupled() asserts in the server
\* (communication_server.cpp:137, 138).
ServerAssertsHold ==
    \A c \in Clients : Due(Server, "coupled", c) => sCoupling.alive /\ ~sActions

\* Every message that the server reads finds its handler.
ServerRoutes == ~Unroutable

\* A queued signal of one session never reaches another: dropClient() and
\* onCoupled() do not look at the sender.
EventsOfThisSession ==
    \A e \in Elements(posted[Server]) : e.ev # "delete" => mSocket \in {None, e.c}

\* The transceiver is attached to the socket that holds the slot.
DeviceOfTheSlot == mSocket # None => sDevice = mSocket /\ mSocket \in sLinks

\* A session ends only for a cause of its own, an event that its socket or
\* its handler queued, unless the application drops it or stops the server.
EndsForItsOwnCause ==
    [][\A c \in Clients :
          mSocket = c /\ mSocket' # c /\ listening' /\ drops' = drops =>
              Due(Server, "failed", c) \/ Due(Server, "disconnected", c)]_vars

-------------------------------------------------------------------------------
(***************************************************************************)
(* Fairness.  A loop that has something to deliver, to hand over or to     *)
(* read gets to it.  The listening socket is ready until it is served, and *)
(* each pass of the loop serves all that is ready, but the model sees it   *)
(* only between two batches of another socket: hence strong fairness.  The *)
(* timer of a waiting client is restarted at most twice; that of the       *)
(* server is sure to fire only when nobody is left to restart it.  The     *)
(* application, the hosts and the heartbeats owe nothing.                  *)
(***************************************************************************)
ClientFairness(c) ==
    /\ WF_vars(ClientLoop(c) /\ UNCHANGED serverVars)
    /\ WF_vars(ClientTimeout(c) /\ UNCHANGED serverVars)

ServerFairness ==
    /\ WF_vars(ServerLoop /\ UNCHANGED clientVars)
    /\ SF_vars((\E c \in Clients : Accept(c) \/ AbortExcess(c)) /\ UNCHANGED clientVars)
    /\ WF_vars(mSocket \in Clients /\ cSocket[mSocket] = "lost"
                  /\ ServerTimeout /\ UNCHANGED clientVars)

FairSpec == Spec /\ ServerFairness /\ \A c \in Clients : ClientFairness(c)

\* An attempt that reached the server comes to an end: the client is coupled
\* or its object is destroyed, and never left waiting for an answer.
AttemptEnds ==
    \A c \in Clients : cSocket[c] = "connected" ~> cActions[c] \/ cSocket[c] \in {"gone", "lost"}

\* A client that closed its connection gives the slot back.
SlotFreedOnClose ==
    \A c \in Clients : mSocket = c /\ ClientEndClosed(c) ~> mSocket # c

\* A client that fell silent without closing gives the slot back too, from its
\* first answered request or heartbeat on, when the timer of its handler runs.
SlotFreedOnSilence ==
    \A c \in Clients : mSocket = c /\ cSocket[c] = "lost" /\ sCoupling.active ~> mSocket # c

\* A client whose session the server ended is destroyed and tells its owner.
EndReachesClient ==
    \A c \in Clients :
        cSocket[c] = "connected" /\ sSocket[c] \in {"aborted", "gone"} ~> cSocket[c] \in {"gone", "lost"}

===============================================================================
