------------------------ MODULE ServerCouplingTheorems ------------------------
(***************************************************************************)
(* What the operators of ServerCoupling do to a handler, for the proofs    *)
(* about the handler and about the server that owns it.                    *)
(***************************************************************************)
EXTENDS ServerCoupling, TLAPS

\* The operators of ServerCoupling keep the type of a handler.
LEMMA OperatorTypes ==
    ASSUME NEW h \in HandlerType, NEW step \in Steps, NEW port \in Ports \cup {NoPort},
           NEW authorized \in BOOLEAN, step = "Connect" => port \in Ports
    PROVE  /\ ResultOf(h, step, authorized) \in Results
           /\ Prepared(h, step, port) \in HandlerType
           /\ Armed(h) \in HandlerType
           /\ Granted(h, step) \in HandlerType
           /\ Beaten(h) \in HandlerType
<1>1. ResultOf(h, step, authorized) \in Results
  BY DEF ResultOf, HandshakeResult, LoginResult, ConnectResult, Results, Steps
<1>2. Prepared(h, step, port) \in HandlerType
  BY DEF Prepared, HandlerType, Intervals
<1>3. Armed(h) \in HandlerType
  BY DEF Armed, HandlerType
<1>4. Granted(h, step) \in HandlerType
  BY DEF Granted, HandlerType, Steps
<1>5. Beaten(h) \in HandlerType
  BY DEF Beaten, HandlerType
<1>6. QED
  BY <1>1, <1>2, <1>3, <1>4, <1>5

\* A request whose response was sent changes, of the flags, only the one it
\* grants, and leaves the timer running.
LEMMA AnsweredEffect ==
    ASSUME NEW h \in HandlerType, NEW step \in Steps, NEW port \in Ports \cup {NoPort},
           NEW authorized \in BOOLEAN, step = "Connect" => port \in Ports,
           NEW result, result = ResultOf(h, step, authorized)
    PROVE  LET g == Answered(h, step, port, result)
               ok == result = "Accepted"
           IN  /\ g \in HandlerType
               /\ g.handshaked = (h.handshaked \/ (ok /\ step = "Handshake"))
               /\ g.authorized = (h.authorized \/ (ok /\ step = "Login"))
               /\ g.coupled = (h.coupled \/ (ok /\ step = "Connect"))
               /\ g.peerPort = IF ok /\ step = "Connect" THEN port ELSE h.peerPort
               /\ g.interval = IF ok /\ step = "Connect" THEN "Heartbeat" ELSE h.interval
               /\ g.active = (h.active \/ ~h.coupled)
<1> DEFINE q == Prepared(h, step, port)
           a == Armed(q)
<1>0. /\ q \in HandlerType
      /\ a \in HandlerType
      /\ Granted(a, step) \in HandlerType
  BY OperatorTypes
<1>1. /\ q.handshaked = h.handshaked
      /\ q.authorized = h.authorized
      /\ q.coupled = h.coupled
      /\ q.active = h.active
      /\ q.peerPort = IF result = "Accepted" /\ step = "Connect" THEN port ELSE h.peerPort
      /\ q.interval = IF result = "Accepted" /\ step = "Connect" THEN "Heartbeat" ELSE h.interval
  BY DEF Prepared, HandlerType, ResultOf, Steps
<1>2. /\ a.handshaked = q.handshaked
      /\ a.authorized = q.authorized
      /\ a.coupled = q.coupled
      /\ a.active = (q.active \/ ~q.coupled)
      /\ a.peerPort = q.peerPort
      /\ a.interval = q.interval
  BY <1>0 DEF Armed, HandlerType
<1>3. /\ Granted(a, step).handshaked = (a.handshaked \/ step = "Handshake")
      /\ Granted(a, step).authorized = (a.authorized \/ step = "Login")
      /\ Granted(a, step).coupled = (a.coupled \/ step = "Connect")
      /\ Granted(a, step).active = a.active
      /\ Granted(a, step).peerPort = a.peerPort
      /\ Granted(a, step).interval = a.interval
  BY <1>0 DEF Granted, HandlerType, Steps
<1>4. Answered(h, step, port, result) =
          IF result = "Accepted" THEN Granted(a, step) ELSE a
  BY DEF Answered
<1> HIDE DEF q, a
<1>5. CASE result = "Accepted"
  <2>1. Answered(h, step, port, result) = Granted(a, step)
    BY <1>4, <1>5
  <2>2. QED
    BY <1>0, <1>1, <1>2, <1>3, <1>5, <2>1 DEF HandlerType
<1>6. CASE result # "Accepted"
  <2>1. Answered(h, step, port, result) = a
    BY <1>4, <1>6
  <2>2. QED
    BY <1>0, <1>1, <1>2, <1>6, <2>1 DEF HandlerType
<1>7. QED
  BY <1>5, <1>6

\* The steps before an accepted one are exactly those whose flags are set.
LEMMA AcceptanceFollowsFlags ==
    ASSUME NEW h \in HandlerType, NEW step \in Steps, NEW authorized \in BOOLEAN,
           h.authorized => h.handshaked, h.coupled => h.authorized,
           ResultOf(h, step, authorized) = "Accepted"
    PROVE  /\ h.handshaked <=> Precedes("Handshake", step)
           /\ h.authorized <=> Precedes("Login", step)
           /\ h.coupled <=> Precedes("Connect", step)
  BY DEF Steps, ResultOf, HandshakeResult, LoginResult, ConnectResult, Precedes, HandlerType

\* Neither a request nor a heartbeat brings a handler to life or ends it.
LEMMA AliveUnchanged ==
    ASSUME NEW h \in HandlerType, NEW step \in Steps, NEW port \in Ports \cup {NoPort},
           NEW result, step = "Connect" => port \in Ports
    PROVE  /\ Answered(h, step, port, result).alive = h.alive
           /\ Beaten(h).alive = h.alive
  BY DEF Answered, Prepared, Armed, Granted, Beaten, HandlerType, Steps

\* A new handler is one, and so is its absence.
LEMMA HandlerMade ==
    /\ NewHandler \in HandlerType /\ NewHandler.alive = TRUE
    /\ NoHandler \in HandlerType /\ NoHandler.alive = FALSE
  BY DEF NewHandler, NoHandler, HandlerType, Intervals
===============================================================================
