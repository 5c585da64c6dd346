---------------------------- MODULE SessionService ----------------------------
(***************************************************************************)
(* What the communication layer promises to the peers above it: at the     *)
(* server, sessions are announced one at a time, each after its coupling   *)
(* and once; a client's session is announced to the client once, and only  *)
(* when the server has coupled it, though the server may have ended it by  *)
(* then.  Either side may see the end at any time, and never sees the      *)
(* session again.                                                          *)
(***************************************************************************)
CONSTANT Clients   \* one session for each client that ever connects

VARIABLES
    atServer,   \* how far each session has come at the server
    atClient    \* and at its client

serviceVars == <<atServer, atClient>>

\* "coupled" is a session whose announcement is queued, "refused" one that
\* the server has ended without ever coupling it.
Phases == {"none", "coupled", "announced", "ended", "refused"}

\* The session has been coupled, whether or not it still is.
Past(phase) == phase \in {"coupled", "announced", "ended"}

Init == /\ atServer = [c \in Clients |-> "none"]
        /\ atClient = [c \in Clients |-> "none"]

\* The sessions that hold the server's slot with a coupling.
Served == {c \in Clients : atServer[c] \in {"coupled", "announced"}}

ServerCouples(c) == /\ atServer[c] = "none" /\ Served = {}
                    /\ atServer' = [atServer EXCEPT ![c] = "coupled"]
                    /\ UNCHANGED atClient

\* The signal peerConnected.
ServerAnnounces(c) == /\ atServer[c] = "coupled"
                      /\ atServer' = [atServer EXCEPT ![c] = "announced"]
                      /\ UNCHANGED atClient

\* The signal peerDisconnected; a server that stops ends all sessions.
ServerEnds(S) ==
    /\ atServer' = [c \in Clients |->
           IF c \in S THEN IF Past(atServer[c]) THEN "ended" ELSE "refused" ELSE atServer[c]]
    /\ UNCHANGED atClient

ClientCouples(c) == /\ atClient[c] = "none" /\ Past(atServer[c])
                    /\ atClient' = [atClient EXCEPT ![c] = "coupled"]
                    /\ UNCHANGED atServer

\* The signal connected.
ClientAnnounces(c) == /\ atClient[c] = "coupled"
                      /\ atClient' = [atClient EXCEPT ![c] = "announced"]
                      /\ UNCHANGED atServer

\* The signal disconnected, or the client's silent death.
ClientEnds(c) == /\ atClient' = [atClient EXCEPT ![c] = "ended"]
                 /\ UNCHANGED atServer

Next == \/ \E c \in Clients : \/ ServerCouples(c)
                              \/ ServerAnnounces(c)
                              \/ ClientCouples(c)
                              \/ ClientAnnounces(c)
                              \/ ClientEnds(c)
        \/ \E S \in SUBSET Clients : ServerEnds(S)

Spec == Init /\ [][Next]_serviceVars

-------------------------------------------------------------------------------
\* What the peers may rely on: the server serves one session at a time, and has
\* coupled each that its client believes to be coupled.
OneServed == \A c, d \in Served : c = d

CoupledBefore == \A c \in Clients : atClient[c] \in {"coupled", "announced"} => Past(atServer[c])
===============================================================================
