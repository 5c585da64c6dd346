----------------------------- MODULE CouplingGate -----------------------------
(***************************************************************************)
(* What the server's side of a coupling promises, whatever the client      *)
(* sends: a session passes the three steps in their order, each once, and  *)
(* the data port its owner announced becomes visible with the last step,   *)
(* and never changes afterwards.                                           *)
(***************************************************************************)
EXTENDS Naturals

CONSTANTS Ports, NoPort

VARIABLES
    stage,   \* how many of Handshake, Login, Connect have been granted
    port     \* the data port of the coupled peer

gateVars == <<stage, port>>

Init == stage = 0 /\ port = NoPort

\* Handshake or Login is granted.
Admit == /\ stage < 2
         /\ stage' = stage + 1
         /\ UNCHANGED port

\* Connect is granted: the peer and its data port are known from here on.
Couple == /\ stage = 2
          /\ stage' = 3
          /\ port' \in Ports

Next == Admit \/ Couple

Spec == Init /\ [][Next]_gateVars
===============================================================================
