------------------------------ MODULE MCSessions ------------------------------
(* A small instance of SessionHistory for TLC. *)
EXTENDS SessionHistory, TLC

CONSTANTS c1, c2

\* Clients, and the data ports named after them, are compared for equality
\* only.
ClientSymmetry == Permutations(Clients)
===============================================================================
