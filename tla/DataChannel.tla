------------------------------ MODULE DataChannel ------------------------------
(***************************************************************************)
(* DataChannel, the two UDP sockets of a peer and the Transceiver between  *)
(* them, with the state that DataPeer keeps of it (src/comm/               *)
(* data_channel.cpp, src/data_peer.cpp), as operators on a record that     *)
(* DataPeers puts into the hands of a client and of a server.              *)
(*                                                                         *)
(* A readyRead of a bound QUdpSocket is not repeated until the datagram is *)
(* read, and listen() does not read at once, because a bound socket is not *)
(* open (Qt 5): a datagram that comes while nobody listens makes the input *)
(* deaf.                                                                   *)
(***************************************************************************)
EXTENDS Naturals, Sequences

CONSTANT Sessions   \* the sessions a data connection can belong to, numbered

ASSUME SessionsAssumption == Sessions \subseteq Nat \ {0}

\* What waits in the event loop of a peer's thread: the signals that DataPeer
\* connects to (queued), releaseConnection() called by disconnected of m_out
\* (queued), and the end and the coupling of a session on their way to a peer.
EventNames == {"connected", "disconnected", "failed", "release", "coupled", "ended"}
Event(ev, s) == [ev |-> ev, s |-> s]
Events == [ev : EventNames, s : Sessions \cup {0}]

Channels == [input     : BOOLEAN,              \* whether m_in exists
             deaf      : BOOLEAN,              \* m_in announces no datagram any more
             out       : Sessions \cup {0},    \* the session m_out was made for, or 0
             linked    : BOOLEAN,              \* whether m_out is connected
             receiving : BOOLEAN,              \* whether m_receiver listens to m_in
             state     : {"Connected", "Disconnected", "Failed"},   \* m_state
             queue     : Seq(Events)]

NewChannel == [input |-> FALSE, deaf |-> FALSE, out |-> 0, linked |-> FALSE,
               receiving |-> FALSE, state |-> "Disconnected", queue |-> <<>>]

Posted(ch, evs) == [ch EXCEPT !.queue = @ \o evs]

-------------------------------------------------------------------------------
\* The connected socket that is destroyed emits disconnected.
ReleaseEvents(ch) == IF ch.linked THEN <<Event("release", ch.out)>> ELSE <<>>

\* Mutant of Released: the receiver is not stopped.
ReleasedListening(ch) ==
    Posted([ch EXCEPT !.out = 0, !.linked = FALSE],
           Append(ReleaseEvents(ch), Event("disconnected", 0)))

\* Mutant of Released: disconnected is emitted only for a connected socket.
ReleasedSilently(ch) ==
    Posted([ch EXCEPT !.out = 0, !.linked = FALSE, !.receiving = FALSE], ReleaseEvents(ch))

\* releaseConnection(): m_out goes, the receiver stops, disconnected is emitted.
Released(ch) ==
    Posted([ch EXCEPT !.out = 0, !.linked = FALSE, !.receiving = FALSE],
           Append(ReleaseEvents(ch), Event("disconnected", 0)))

\* start(): the input of an earlier start to the same port is kept, and so is
\* whatever is left in it; otherwise a new one is bound, if that succeeds.
Started(ch, bound) ==
    IF ch.input THEN ch ELSE [Released(ch) EXCEPT !.input = bound, !.deaf = FALSE]

\* Mutant of Linked: connected is not emitted.
LinkedSilently(ch) == [ch EXCEPT !.linked = TRUE, !.receiving = TRUE]

\* The slot of connected of m_out: the receiver listens.
Linked(ch) ==
    Posted([ch EXCEPT !.linked = TRUE, !.receiving = TRUE], <<Event("connected", 0)>>)

\* connectTo(): a connected socket to the same port is kept; otherwise a new
\* one is connected, at once when the address needs no lookup.
ConnectedTo(ch, s, atOnce) ==
    IF ~ch.input \/ ch.linked THEN ch
    ELSE LET fresh == [Released(ch) EXCEPT !.out = s]
         IN  IF atOnce THEN Linked(fresh) ELSE fresh

\* The slot of disconnected of m_in: everything goes, and failed is emitted.
InputLost(ch) == Posted(Released([ch EXCEPT !.input = FALSE]), <<Event("failed", 0)>>)

\* A datagram arrives at m_in, and the receiver reads it if it is told.
Arrived(ch) == IF ch.input /\ ~ch.receiving THEN [ch EXCEPT !.deaf = TRUE] ELSE ch

-------------------------------------------------------------------------------
\* What DataPeer makes of a signal of its channel.
StateOf(ev) == CASE ev = "connected" -> "Connected"
                 [] ev = "disconnected" -> "Disconnected"
                 [] ev = "failed" -> "Failed"

\* setState(): the same state again changes nothing and calls nothing.
WithState(ch, ev) == [ch EXCEPT !.state = StateOf(ev)]

Elements(q) == {q[i] : i \in DOMAIN q}

Signals == {"connected", "disconnected", "failed"}

\* The last of the signals that wait, or the state when there are none, is the
\* state that the peer comes to.
WillBeConnected(ch) ==
    \/ ch.state = "Connected" /\ \A e \in Elements(ch.queue) : e.ev \notin Signals
    \/ \E i \in DOMAIN ch.queue :
          /\ ch.queue[i].ev = "connected"
          /\ \A j \in DOMAIN ch.queue : j > i => ch.queue[j].ev \notin Signals
===============================================================================
