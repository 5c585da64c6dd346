---------------------------- MODULE MCActionHandler ----------------------------
(* A small instance of ActionHandler for TLC. *)
EXTENDS ActionHandler

CONSTANTS client, server, a1, a2, b1

\* Two calls of one side, which may share an id, and one of the other.
MCCaller == [k \in Calls |-> IF k = b1 THEN server ELSE client]
===============================================================================
