---------------------------- MODULE SessionHistory ----------------------------
(***************************************************************************)
(* The communication layer as the peers see it, by the signals it emits.   *)
(* A session that has left the slot keeps no trace of how far it came: a   *)
(* history variable remembers which of them the server had coupled.  It    *)
(* records, and no step of Communication depends on it.                    *)
(***************************************************************************)
EXTENDS Communication

VARIABLE granted   \* the clients whose ConnectRequest the server has granted

historyVars == <<vars, granted>>

HistoryInit == Init /\ granted = {}

\* The session that holds the slot after the step, if it is coupled.
NowCoupled == {c \in Clients : mSocket = c /\ sCoupling.coupled}

HistoryNext == Next /\ granted' = granted \cup NowCoupled'

HistorySpec == HistoryInit /\ [][HistoryNext]_historyVars

-------------------------------------------------------------------------------
\* How far a session has come at the server: its action handler is made where
\* peerConnected is emitted.
AtServer == [c \in Clients |->
    CASE mSocket = c /\ sActions -> "announced"
      [] mSocket = c /\ ~sActions /\ sCoupling.coupled -> "coupled"
      [] mSocket # c /\ sSocket[c] \notin {"none", "backlog"} ->
            IF c \in granted THEN "ended" ELSE "refused"
      [] OTHER -> "none"]

\* And at its client, whose action handler is made where connected is emitted.
AtClient == [c \in Clients |->
    CASE cSocket[c] \in {"gone", "lost"} -> "ended"
      [] cActions[c] -> "announced"
      [] cCoupling[c] = "coupled" /\ ~cActions[c] -> "coupled"
      [] OTHER -> "none"]

Service == INSTANCE SessionService WITH atServer <- AtServer, atClient <- AtClient

\* The communication layer announces the sessions to the peers as
\* SessionService promises: one at a time at the server, each once and after
\* its coupling, and to a client none that the server has not coupled before.
ImplementsService == Service!Spec
===============================================================================
