---------------------------- MODULE ServerCoupling ----------------------------
(***************************************************************************)
(* The state of a ServerCouplingHandler and what each request makes of it, *)
(* as operators (src/comm/server/server_coupling_handler.cpp).  The state  *)
(* machine ServerCouplingHandler drives them with an arbitrary client; the *)
(* module CommunicationServer with the clients of the repository.          *)
(***************************************************************************)
EXTENDS CouplingMessages

Intervals == {"Timeout", "Heartbeat"}

\* "alive" is whether m_couplingHandler points to a handler at all; "active"
\* and "interval" are the state of m_timer.
HandlerType == [alive      : BOOLEAN,
                handshaked : BOOLEAN,
                authorized : BOOLEAN,
                coupled    : BOOLEAN,
                peerPort   : Ports \cup {NoPort},
                interval   : Intervals,
                active     : BOOLEAN]

NewHandler == [alive |-> TRUE, handshaked |-> FALSE, authorized |-> FALSE,
               coupled |-> FALSE, peerPort |-> NoPort,
               interval |-> "Timeout", active |-> FALSE]

NoHandler == [NewHandler EXCEPT !.alive = FALSE]

-------------------------------------------------------------------------------
\* The results that the handlers of the three requests compute.

HandshakeResult(h) ==
    IF h.handshaked \/ h.authorized \/ h.coupled THEN "BadRequest" ELSE "Accepted"

\* Mutant of LoginResult: the field "result" is left as it was constructed,
\* and nothing initialises it, when authorize() says no.
LoginResultUnset(h, authorized) ==
    CASE h.authorized \/ h.coupled -> "BadRequest"
      [] ~(h.authorized \/ h.coupled) /\ ~h.handshaked -> "NoHandshake"
      [] OTHER -> IF authorized THEN "Accepted" ELSE "unset"

LoginResult(h, authorized) ==
    CASE h.authorized \/ h.coupled -> "BadRequest"
      [] ~(h.authorized \/ h.coupled) /\ ~h.handshaked -> "NoHandshake"
      [] OTHER -> IF authorized THEN "Accepted" ELSE "Rejected"

\* Mutant of ConnectResult: the check of m_authorized is forgotten.
ConnectResultUnauthorized(h) ==
    CASE h.coupled -> "BadRequest"
      [] ~h.coupled /\ ~h.handshaked -> "NoHandshake"
      [] OTHER -> "Accepted"

ConnectResult(h) ==
    CASE h.coupled -> "BadRequest"
      [] ~h.coupled /\ ~h.handshaked -> "NoHandshake"
      [] ~h.coupled /\ h.handshaked /\ ~h.authorized -> "NotAuthorized"
      [] OTHER -> "Accepted"

\* "authorized" is the verdict of the authorize() callback on a LoginRequest.
ResultOf(h, step, authorized) ==
    CASE step = "Handshake" -> HandshakeResult(h)
      [] step = "Login"     -> LoginResult(h, authorized)
      [] step = "Connect"   -> ConnectResult(h)

\* Mutant of Prepared: the interval stays the coupling timeout.
PreparedPortOnly(h, step, port) ==
    IF step = "Connect" /\ ConnectResult(h) = "Accepted"
    THEN [h EXCEPT !.peerPort = port]
    ELSE h

\* Mutant of Prepared: the announced port is not stored.
PreparedIntervalOnly(h, step, port) ==
    IF step = "Connect" /\ ConnectResult(h) = "Accepted"
    THEN [h EXCEPT !.interval = "Heartbeat"]
    ELSE h

\* Mutant of Prepared: a refused request stores its port too.
PreparedUnchecked(h, step, port) ==
    IF step = "Connect" THEN [h EXCEPT !.peerPort = port, !.interval = "Heartbeat"] ELSE h

\* onConnectRequest stores the port and the heartbeat interval before it
\* sends: they stay when the send fails.
Prepared(h, step, port) ==
    IF step = "Connect" /\ ConnectResult(h) = "Accepted"
    THEN [h EXCEPT !.peerPort = port, !.interval = "Heartbeat"]
    ELSE h

\* SEND_RESPONSE after a send that worked: the timer (re)starts until coupled.
Armed(h) == [h EXCEPT !.active = @ \/ ~h.coupled]

\* The flag a handler sets once the accepting response is on its way.
Granted(h, step) ==
    CASE step = "Handshake" -> [h EXCEPT !.handshaked = TRUE]
      [] step = "Login"     -> [h EXCEPT !.authorized = TRUE]
      [] step = "Connect"   -> [h EXCEPT !.coupled = TRUE]

\* The whole handler of a request whose response could be sent.
Answered(h, step, port, result) ==
    LET armed == Armed(Prepared(h, step, port))
    IN  IF result = "Accepted" THEN Granted(armed, step) ELSE armed

\* onHeartbeatEvent: the timer restarts, coupled or not.
Beaten(h) == [h EXCEPT !.active = TRUE]
===============================================================================
