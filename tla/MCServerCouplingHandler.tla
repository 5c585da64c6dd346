------------------------ MODULE MCServerCouplingHandler ------------------------
(* Small instances of ServerCouplingHandler for TLC. *)
EXTENDS ServerCouplingHandler, TLC

CONSTANTS p1, p2

MCPorts == {p1, p2}

\* Ports are compared for equality only.
PortSymmetry == Permutations(MCPorts)
===============================================================================
