---------------------------- MODULE MCCommunication ----------------------------
(* Small instances of Communication for TLC. *)
EXTENDS Communication, TLC

CONSTANTS c1, c2

\* Clients, and the data ports named after them, are compared for equality
\* only.
ClientSymmetry == Permutations(Clients)
===============================================================================
