--------------------------- MODULE CouplingMessages ---------------------------
(***************************************************************************)
(* The messages of src/msg/coupling.h and src/msg/actions.h that a peer    *)
(* sends over the TCP link, reduced to what the protocol tells apart: the  *)
(* type, the result a response carries and the data port a ConnectRequest  *)
(* announces.  Credentials are abstracted into the verdict of authorize(), *)
(* and the action's type and id into nothing: no decision here reads them. *)
(***************************************************************************)
CONSTANTS
    Ports,   \* the UDP data ports that clients announce
    NoPort   \* m_peerDataPort before a ConnectRequest, 0 in the code

ASSUME NoPortAssumption == NoPort \notin Ports

\* enum CouplingResponse::Result
Results == {"None", "Accepted", "Rejected", "NoHandshake", "NotAuthorized",
            "BadRequest", "Timeout"}

\* The steps a client asks the server to grant, in the order of the protocol.
Steps == {"Handshake", "Login", "Connect"}

Precedes(s, t) == \/ s = "Handshake" /\ t \in {"Login", "Connect"}
                  \/ s = "Login" /\ t = "Connect"

Request(step, port) == [kind |-> "Request", step |-> step, port |-> port]

HandshakeRequest   == Request("Handshake", NoPort)
LoginRequest       == Request("Login", NoPort)
ConnectRequest(p)  == Request("Connect", p)
HeartbeatEvent     == Request("Heartbeat", NoPort)
ActionRequest      == Request("Action", NoPort)

Response(step, result) == [kind |-> "Response", step |-> step, result |-> result]

ActionResponse == Response("Action", "Accepted")

\* What a client, and what a server, writes to the link.
Requests  == {Request(s, NoPort) : s \in {"Handshake", "Login", "Heartbeat", "Action"}}
                \cup {Request("Connect", p) : p \in Ports}
Responses == [kind : {"Response"}, step : Steps \cup {"Action"}, result : Results]
===============================================================================
