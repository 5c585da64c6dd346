-------------------------------- MODULE TcpLink --------------------------------
(***************************************************************************)
(* The TCP connections between the clients and the server, as the two ends *)
(* see them (QTcpSocket and the operating system, external to src/), and   *)
(* what lib::Transceiver makes of a read: onReadyRead() hands over the     *)
(* whole messages it finds and forgets a message whose bytes arrive in two *)
(* reads, because the second read overwrites the head of the buffer.       *)
(***************************************************************************)
EXTENDS CouplingMessages, EventLoop, Naturals

CONSTANTS
    ChanCap,   \* bound: messages in flight from a client to the server
    MaxLost    \* bound: messages split over two reads, hence lost

ASSUME LinkAssumption == ChanCap \in Nat \ {0} /\ MaxLost \in Nat

VARIABLES
    listening,  \* whether the server's port is open (m_server)
    cSocket,    \* the client's end of each connection
    sSocket,    \* the server's end
    toServer,   \* the messages in flight from each client
    toClient,   \* the messages in flight to each client
    lost        \* how many messages were split so far

linkVars == <<listening, cSocket, sSocket, toServer, toClient, lost>>

\* "unconnected" is a socket whose peer closed it, "aborted" one that this
\* side closed; "gone" is destroyed; "lost" is a client whose host died or was
\* cut off, so that nobody closes anything.
ClientSocketStates == {"new", "connecting", "refused", "connected", "unconnected",
                       "aborted", "gone", "lost"}

\* "backlog" is a connection that the operating system has accepted and that
\* onNewConnection() has not seen.
ServerSocketStates == {"none", "backlog", "connected", "unconnected", "aborted", "gone"}

LinkInit == /\ listening = TRUE
            /\ cSocket = [c \in Clients |-> "new"]
            /\ sSocket = [c \in Clients |-> "none"]
            /\ toServer = [c \in Clients |-> <<>>]
            /\ toClient = [c \in Clients |-> <<>>]
            /\ lost = 0

ClientEndClosed(c) == cSocket[c] \in {"unconnected", "aborted", "gone"}
ServerEndClosed(c) == sSocket[c] \in {"unconnected", "aborted", "gone"}

\* A write on a connected socket: it succeeds at once, and its bytes vanish
\* when the other end is closed.
ClientWrites(c, msg) ==
    toServer' = IF ServerEndClosed(c) THEN toServer
                ELSE [toServer EXCEPT ![c] = Append(@, msg)]

ServerWrites(c, msg) ==
    toClient' = IF ClientEndClosed(c) \/ cSocket[c] = "lost" THEN toClient
                ELSE [toClient EXCEPT ![c] = Append(@, msg)]

\* What one readyRead finds of the queue q: some whole messages and, with
\* "split", the head of the next one, whose rest comes with a later read.
Consumed(r) == r.whole + IF r.split THEN 1 ELSE 0

Reads(q) == {r \in [whole : 0..Len(q), split : BOOLEAN] :
                /\ Consumed(r) \in 1..Len(q)
                /\ r.split => lost < MaxLost}

Whole(q, r) == SubSeq(q, 1, r.whole)
Rest(q, r)  == SubSeq(q, Consumed(r) + 1, Len(q))

CountLoss(r) == lost' = IF r.split THEN lost + 1 ELSE lost

LinkTypeOK == /\ listening \in BOOLEAN
              /\ cSocket \in [Clients -> ClientSocketStates]
              /\ sSocket \in [Clients -> ServerSocketStates]
              /\ toServer \in [Clients -> Seq(Requests \cup {ActionResponse})]
              /\ toClient \in [Clients -> Seq(Responses \cup {ActionRequest})]
              /\ lost \in Nat
===============================================================================
