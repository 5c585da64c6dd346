------------------------------ MODULE MCMessages ------------------------------
(* A small instance of Messages for TLC: the classes of the coupling. *)
EXTENDS Messages, TLC

CONSTANTS CouplingMessage, ConnectRequest,
          CouplingResponse, HandshakeResponse, ConnectResponse

\* CouplingResponse is derived plainly from CouplingMessage; the bases without
\* fields, and the other requests, add nothing.
MCLineage == (Root :> <<>>)
             @@ (CouplingMessage   :> <<CouplingMessage>>)
             @@ (ConnectRequest    :> <<CouplingMessage, ConnectRequest>>)
             @@ (CouplingResponse  :> <<CouplingMessage, CouplingResponse>>)
             @@ (HandshakeResponse :> <<CouplingMessage, CouplingResponse, HandshakeResponse>>)
             @@ (ConnectResponse   :> <<CouplingMessage, CouplingResponse, ConnectResponse>>)

\* m_step of a response, which its constructor sets.
MCPreset == [c \in Classes |-> [k \in Classes |-> IF c = ConnectResponse THEN 1 ELSE 0]]
===============================================================================
