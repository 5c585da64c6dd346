---------------------- MODULE ServerCouplingHandlerProofs ----------------------
(***************************************************************************)
(* Proofs that a ServerCouplingHandler keeps its promises for every set of *)
(* ports and every number of responses.                                    *)
(***************************************************************************)
EXTENDS ServerCouplingHandler, ServerCouplingTheorems

\* The flags are granted from left to right.
FlagsInOrder == /\ handler.authorized => handler.handshaked
                /\ handler.coupled => handler.authorized

\* Once the peer is coupled, its port is one that it announced.
PortKnown == handler.coupled => handler.peerPort \in Ports

\* The inductive invariant: no conjunct but the first is inductive alone.
IInv == /\ TypeOK
        /\ FlagsInOrder
        /\ PortKnown
        /\ FlagsMatchReplies
        /\ AcceptedInOrder
        /\ WatchedByTimer

-------------------------------------------------------------------------------
\* One more response: what the client was told before stays, and the new
\* response adds to it when it accepts.
LEMMA OneMoreReply ==
    ASSUME replies \in Seq(Reply), NEW step \in Steps, NEW result \in Results,
           replies' = Append(replies, [step |-> step, result |-> result])
    PROVE  /\ replies' \in Seq(Reply)
           /\ \A s \in Steps : Told(s)' <=> Told(s) \/ (result = "Accepted" /\ s = step)
           /\ \A i \in DOMAIN replies, s \in Steps : ToldBefore(s, i)' <=> ToldBefore(s, i)
           /\ \A i, s : i = Len(replies) + 1 => (ToldBefore(s, i)' <=> Told(s))
<1> DEFINE r == [step |-> step, result |-> result]
           n == Len(replies)
<1>1. r \in Reply
  BY DEF Reply
<1>2. /\ replies' \in Seq(Reply)
      /\ n \in Nat
      /\ DOMAIN replies = 1..n
      /\ DOMAIN replies' = 1..(n + 1)
      /\ \A i \in 1..n : replies'[i] = replies[i]
      /\ replies'[n + 1] = r
  BY <1>1
<1>3. ASSUME NEW s \in Steps
      PROVE  Told(s)' <=> Told(s) \/ (result = "Accepted" /\ s = step)
  <2>1. r = [step |-> s, result |-> "Accepted"] <=> result = "Accepted" /\ s = step
    OBVIOUS
  <2> HIDE DEF r, n
  <2>2. QED
    BY <1>2, <2>1 DEF Told
<1>4. ASSUME NEW i \in DOMAIN replies, NEW s \in Steps
      PROVE  ToldBefore(s, i)' <=> ToldBefore(s, i)
  <2>1. \A j \in 1..(i - 1) : replies'[j] = replies[j]
    BY <1>2
  <2>2. QED
    BY <2>1 DEF ToldBefore
<1>5. ASSUME NEW i, NEW s, i = n + 1
      PROVE  ToldBefore(s, i)' <=> Told(s)
  <2>1. /\ 1..(i - 1) = DOMAIN replies
        /\ \A j \in DOMAIN replies : replies'[j] = replies[j]
    BY <1>2, <1>5
  <2>2. QED
    BY <2>1 DEF Told, ToldBefore
<1>6. QED
  BY <1>2, <1>3, <1>4, <1>5

-------------------------------------------------------------------------------
LEMMA InitIInv == Init => IInv
<1> SUFFICES ASSUME Init PROVE IInv
  OBVIOUS
<1>1. TypeOK
  <2>1. NewHandler \in HandlerType
    BY DEF HandlerType, NewHandler, Intervals
  <2>2. <<>> \in Seq(Reply)
    OBVIOUS
  <2>3. QED
    BY <2>1, <2>2 DEF Init, TypeOK
<1>2. \A s \in Steps : ~Told(s)
  BY DEF Init, Told
<1>3. FlagsMatchReplies
  BY <1>2 DEF Init, FlagsMatchReplies, NewHandler, Steps
<1>4. QED
  BY <1>1, <1>3 DEF Init, IInv, FlagsInOrder, PortKnown, AcceptedInOrder, WatchedByTimer, NewHandler

\* A response is sent.
LEMMA AnswerKeepsIInv ==
    ASSUME IInv, NEW step \in Steps, NEW port \in Ports \cup {NoPort},
           NEW authorized \in BOOLEAN, step = "Connect" => port \in Ports,
           Answer(step, port, authorized)
    PROVE  IInv'
<1> DEFINE result == ResultOf(handler, step, authorized)
           ok == result = "Accepted"
<1>1. /\ handler' = Answered(handler, step, port, result)
      /\ replies' = Append(replies, [step |-> step, result |-> result])
      /\ emitted' = IF step = "Connect" /\ ok THEN emitted + 1 ELSE emitted
      /\ failed' = failed
  BY DEF Answer
<1>2. /\ handler \in HandlerType
      /\ replies \in Seq(Reply)
      /\ emitted \in Nat
      /\ failed \in BOOLEAN
  BY DEF IInv, TypeOK
<1>3. /\ handler' \in HandlerType
      /\ handler'.handshaked = (handler.handshaked \/ (ok /\ step = "Handshake"))
      /\ handler'.authorized = (handler.authorized \/ (ok /\ step = "Login"))
      /\ handler'.coupled = (handler.coupled \/ (ok /\ step = "Connect"))
      /\ handler'.peerPort = IF ok /\ step = "Connect" THEN port ELSE handler.peerPort
      /\ handler'.interval = IF ok /\ step = "Connect" THEN "Heartbeat" ELSE handler.interval
      /\ handler'.active = (handler.active \/ ~handler.coupled)
  BY <1>1, <1>2, AnsweredEffect
<1>4. result \in Results
  BY <1>2, OperatorTypes
<1> HIDE DEF result
<1>5. /\ replies' \in Seq(Reply)
      /\ \A s \in Steps : Told(s)' <=> Told(s) \/ (ok /\ s = step)
      /\ \A i \in DOMAIN replies, s \in Steps : ToldBefore(s, i)' <=> ToldBefore(s, i)
      /\ \A i, s : i = Len(replies) + 1 => (ToldBefore(s, i)' <=> Told(s))
  BY <1>1, <1>2, <1>4, OneMoreReply
<1>6. ok => /\ handler.handshaked <=> Precedes("Handshake", step)
            /\ handler.authorized <=> Precedes("Login", step)
            /\ handler.coupled <=> Precedes("Connect", step)
  BY <1>2, AcceptanceFollowsFlags DEF result, IInv, FlagsInOrder
<1>7. TypeOK'
  BY <1>1, <1>2, <1>3, <1>5 DEF TypeOK
<1>8. FlagsInOrder' /\ PortKnown'
  BY <1>3, <1>6 DEF IInv, FlagsInOrder, PortKnown, Precedes, Steps, HandlerType
<1>9. FlagsMatchReplies'
  <2>1. \A s \in Steps : Told(s)' <=> Told(s) \/ (ok /\ s = step)
    BY <1>5
  <2>2. /\ handler.handshaked <=> Told("Handshake")
        /\ handler.authorized <=> Told("Login")
        /\ handler.coupled <=> Told("Connect")
        /\ emitted = IF handler.coupled THEN 1 ELSE 0
    BY DEF IInv, FlagsMatchReplies
  <2>3. emitted' = IF handler'.coupled THEN 1 ELSE 0
    BY <1>1, <1>2, <1>3, <1>6, <2>2 DEF Precedes, HandlerType
  <2>4. QED
    BY <1>3, <2>1, <2>2, <2>3 DEF FlagsMatchReplies, Steps
<1>10. AcceptedInOrder'
  <2> SUFFICES ASSUME NEW i \in DOMAIN replies', replies'[i].result = "Accepted",
                      NEW s \in Steps
               PROVE  ToldBefore(s, i)' <=> Precedes(s, replies'[i].step)
    BY DEF AcceptedInOrder
  <2>1. CASE i \in DOMAIN replies
    <3>1. replies'[i] = replies[i]
      BY <1>1, <1>2, <2>1
    <3>2. QED
      BY <1>5, <2>1, <3>1 DEF IInv, AcceptedInOrder
  <2>2. CASE i = Len(replies) + 1
    <3>1. replies'[i] = [step |-> step, result |-> result]
      BY <1>1, <1>2, <2>2
    <3>2. ok /\ replies'[i].step = step
      BY <3>1
    <3>3. ToldBefore(s, i)' <=> Told(s)
      BY <1>5, <2>2
    <3>4. Told(s) <=> Precedes(s, step)
      BY <1>6, <3>2 DEF IInv, FlagsMatchReplies, Steps
    <3>5. QED
      BY <3>2, <3>3, <3>4
  <2>3. DOMAIN replies' = DOMAIN replies \cup {Len(replies) + 1}
    BY <1>1, <1>2
  <2>4. QED
    BY <2>1, <2>2, <2>3
<1>11. WatchedByTimer'
  <2>1. handler.coupled => handler.active
    BY DEF IInv, FlagsMatchReplies, WatchedByTimer, Told
  <2>2. handler'.active
    BY <1>2, <1>3, <2>1 DEF HandlerType
  <2>3. QED
    BY <1>1, <1>2, <1>3, <1>6, <2>2 DEF IInv, WatchedByTimer, HandlerType, Precedes
<1>12. QED
  BY <1>7, <1>8, <1>9, <1>10, <1>11 DEF IInv

\* Every other step leaves the replies and the flags alone.
LEMMA SilentStepKeepsIInv ==
    ASSUME IInv, UNCHANGED <<replies, emitted>>,
           handler' \in HandlerType, failed' \in BOOLEAN,
           handler'.handshaked = handler.handshaked,
           handler'.authorized = handler.authorized,
           handler'.coupled = handler.coupled,
           PortKnown', WatchedByTimer'
    PROVE  IInv'
<1>1. TypeOK' /\ FlagsInOrder'
  BY DEF IInv, TypeOK, FlagsInOrder
<1>2. FlagsMatchReplies'
  BY DEF IInv, FlagsMatchReplies, Told
<1>3. AcceptedInOrder'
  BY DEF IInv, AcceptedInOrder, ToldBefore
<1>4. QED
  BY <1>1, <1>2, <1>3 DEF IInv

LEMMA AnswerLostKeepsIInv ==
    ASSUME IInv, NEW step \in Steps, NEW port \in Ports \cup {NoPort},
           step = "Connect" => port \in Ports,
           AnswerLost(step, port)
    PROVE  IInv'
<1>1. /\ handler \in HandlerType
      /\ handler' = Prepared(handler, step, port)
      /\ failed' = TRUE
      /\ UNCHANGED <<replies, emitted>>
  BY DEF IInv, TypeOK, AnswerLost
<1>2. /\ handler' \in HandlerType
      /\ handler'.handshaked = handler.handshaked
      /\ handler'.authorized = handler.authorized
      /\ handler'.coupled = handler.coupled
      /\ handler'.active = handler.active
      /\ handler.coupled => handler' = handler
  BY <1>1 DEF Prepared, HandlerType, Intervals, ConnectResult, Steps
<1>3. PortKnown' /\ WatchedByTimer'
  BY <1>1, <1>2 DEF IInv, PortKnown, WatchedByTimer
<1>4. QED
  BY <1>1, <1>2, <1>3, SilentStepKeepsIInv

LEMMA HeartbeatKeepsIInv == ASSUME IInv, OnHeartbeatEvent PROVE IInv'
<1>1. /\ handler \in HandlerType
      /\ failed \in BOOLEAN
      /\ handler' = [handler EXCEPT !.active = TRUE]
      /\ UNCHANGED <<replies, emitted, failed>>
  BY DEF IInv, TypeOK, OnHeartbeatEvent, Beaten
<1>2. /\ handler' \in HandlerType
      /\ handler'.handshaked = handler.handshaked
      /\ handler'.authorized = handler.authorized
      /\ handler'.coupled = handler.coupled
      /\ handler'.peerPort = handler.peerPort
      /\ handler'.interval = handler.interval
      /\ handler'.active
  BY <1>1 DEF HandlerType
<1>3. PortKnown' /\ WatchedByTimer'
  BY <1>1, <1>2 DEF IInv, PortKnown, WatchedByTimer
<1>4. QED
  BY <1>1, <1>2, <1>3, SilentStepKeepsIInv

LEMMA TimeoutKeepsIInv == ASSUME IInv, OnTimeout PROVE IInv'
<1>1. handler \in HandlerType /\ failed' = TRUE /\ UNCHANGED <<handler, replies, emitted>>
  BY DEF IInv, TypeOK, OnTimeout
<1>2. PortKnown' /\ WatchedByTimer'
  BY <1>1 DEF IInv, PortKnown, WatchedByTimer
<1>3. QED
  BY <1>1, <1>2, SilentStepKeepsIInv

\* Every step of the handler keeps the invariant.
LEMMA NextIInv == IInv /\ [Next]_vars => IInv'
<1> SUFFICES ASSUME IInv, [Next]_vars PROVE IInv'
  OBVIOUS
<1>1. CASE OnHandshakeRequest
  BY <1>1, AnswerKeepsIInv, AnswerLostKeepsIInv DEF OnHandshakeRequest, Steps
<1>2. CASE OnLoginRequest
  BY <1>2, AnswerKeepsIInv, AnswerLostKeepsIInv DEF OnLoginRequest, Steps
<1>3. CASE OnConnectRequest
  <2>1. PICK port \in Ports : \/ Answer("Connect", port, FALSE)
                             \/ AnswerLost("Connect", port)
    BY <1>3 DEF OnConnectRequest
  <2>2. QED
    BY <2>1, AnswerKeepsIInv, AnswerLostKeepsIInv DEF Steps
<1>4. CASE OnHeartbeatEvent
  BY <1>4, HeartbeatKeepsIInv
<1>5. CASE OnTimeout
  BY <1>5, TimeoutKeepsIInv
<1>6. CASE UNCHANGED vars
  <2>1. TypeOK' /\ FlagsInOrder' /\ PortKnown' /\ WatchedByTimer'
    BY <1>6 DEF vars, IInv, TypeOK, FlagsInOrder, PortKnown, WatchedByTimer
  <2>2. FlagsMatchReplies' /\ AcceptedInOrder'
    BY <1>6 DEF vars, IInv, FlagsMatchReplies, Told, AcceptedInOrder, ToldBefore
  <2>3. QED
    BY <2>1, <2>2 DEF IInv
<1>7. QED
  BY <1>1, <1>2, <1>3, <1>4, <1>5, <1>6 DEF Next

-------------------------------------------------------------------------------
\* The strengthened invariant holds of every behaviour of the handler.
THEOREM InductiveInvariant == Spec => []IInv
<1>1. QED
  BY InitIInv, NextIInv, PTL DEF Spec

\* The handler's fields keep their types (server_coupling_handler.h).
THEOREM TypeCorrect == Spec => []TypeOK
<1>1. IInv => TypeOK
  BY DEF IInv
<1>2. QED
  BY <1>1, InductiveInvariant, PTL

\* No order of requests makes the server accept a step twice or out of order.
THEOREM StepsInOrder == Spec => []AcceptedInOrder
<1>1. IInv => AcceptedInOrder
  BY DEF IInv
<1>2. QED
  BY <1>1, InductiveInvariant, PTL

\* The server believes of the client what it told the client, and emits
\* coupled() once.
THEOREM BeliefsMatch == Spec => []FlagsMatchReplies
<1>1. IInv => FlagsMatchReplies
  BY DEF IInv
<1>2. QED
  BY <1>1, InductiveInvariant, PTL

\* A client that was answered is watched by the right timer.
THEOREM TimerWatches == Spec => []WatchedByTimer
<1>1. IInv => WatchedByTimer
  BY DEF IInv
<1>2. QED
  BY <1>1, InductiveInvariant, PTL

-------------------------------------------------------------------------------
\* A step that changes neither the flags nor the port of a coupled peer is
\* a stuttering step of the gate.
LEMMA SameFlagsStutter ==
    ASSUME handler'.handshaked = handler.handshaked,
           handler'.authorized = handler.authorized,
           handler'.coupled = handler.coupled,
           handler.coupled => handler'.peerPort = handler.peerPort
    PROVE  UNCHANGED <<StageOf(handler), PortOf(handler)>>
  BY DEF StageOf, PortOf

\* A sent response is a step of the gate, or none when it does not accept.
LEMMA AnswerRefinesGate ==
    ASSUME IInv, NEW step \in Steps, NEW port \in Ports \cup {NoPort},
           NEW authorized \in BOOLEAN, step = "Connect" => port \in Ports,
           Answer(step, port, authorized)
    PROVE  [Gate!Next]_(Gate!gateVars)
<1> DEFINE result == ResultOf(handler, step, authorized)
           ok == result = "Accepted"
<1>1. /\ handler \in HandlerType
      /\ handler' = Answered(handler, step, port, result)
  BY DEF IInv, TypeOK, Answer
<1>2. /\ handler' \in HandlerType
      /\ handler'.handshaked = (handler.handshaked \/ (ok /\ step = "Handshake"))
      /\ handler'.authorized = (handler.authorized \/ (ok /\ step = "Login"))
      /\ handler'.coupled = (handler.coupled \/ (ok /\ step = "Connect"))
      /\ handler'.peerPort = IF ok /\ step = "Connect" THEN port ELSE handler.peerPort
  BY <1>1, AnsweredEffect
<1>3. ok => /\ handler.handshaked <=> Precedes("Handshake", step)
            /\ handler.authorized <=> Precedes("Login", step)
            /\ handler.coupled <=> Precedes("Connect", step)
  BY <1>1, AcceptanceFollowsFlags DEF IInv, FlagsInOrder
<1> HIDE DEF result
<1>4. CASE ok /\ step = "Handshake"
  <2>1. /\ ~handler.handshaked /\ ~handler.authorized /\ ~handler.coupled
        /\ handler'.handshaked /\ ~handler'.authorized /\ ~handler'.coupled
    BY <1>1, <1>2, <1>3, <1>4 DEF Precedes, HandlerType
  <2>2. /\ StageOf(handler) = 0 /\ StageOf(handler)' = 1
        /\ PortOf(handler) = NoPort /\ PortOf(handler)' = NoPort
    BY <2>1 DEF StageOf, PortOf
  <2>3. QED
    BY <2>2 DEF Gate!Next, Gate!Admit
<1>5. CASE ok /\ step = "Login"
  <2>1. /\ handler.handshaked /\ ~handler.authorized /\ ~handler.coupled
        /\ handler'.handshaked /\ handler'.authorized /\ ~handler'.coupled
    BY <1>1, <1>2, <1>3, <1>5 DEF Precedes, HandlerType
  <2>2. /\ StageOf(handler) = 1 /\ StageOf(handler)' = 2
        /\ PortOf(handler) = NoPort /\ PortOf(handler)' = NoPort
    BY <2>1 DEF StageOf, PortOf
  <2>3. QED
    BY <2>2 DEF Gate!Next, Gate!Admit
<1>6. CASE ok /\ step = "Connect"
  <2>1. /\ handler.handshaked /\ handler.authorized /\ ~handler.coupled
        /\ handler'.coupled /\ handler'.peerPort = port /\ port \in Ports
    BY <1>1, <1>2, <1>3, <1>6 DEF Precedes, HandlerType
  <2>2. /\ StageOf(handler) = 2 /\ StageOf(handler)' = 3
        /\ PortOf(handler)' = port
    BY <2>1 DEF StageOf, PortOf
  <2>3. QED
    BY <2>1, <2>2 DEF Gate!Next, Gate!Couple
<1>7. CASE ~ok
  <2>1. /\ handler'.handshaked = handler.handshaked
        /\ handler'.authorized = handler.authorized
        /\ handler'.coupled = handler.coupled
        /\ handler'.peerPort = handler.peerPort
    BY <1>1, <1>2, <1>7 DEF HandlerType
  <2>2. QED
    BY <2>1, SameFlagsStutter DEF Gate!gateVars
<1>8. QED
  BY <1>4, <1>5, <1>6, <1>7 DEF Steps

\* Every step of the handler is a step of the gate or a stutter.
LEMMA NextRefinesGate == IInv /\ [Next]_vars => [Gate!Next]_(Gate!gateVars)
<1> SUFFICES ASSUME IInv, [Next]_vars PROVE [Gate!Next]_(Gate!gateVars)
  OBVIOUS
<1>1. ASSUME NEW step \in Steps, NEW port, AnswerLost(step, port)
      PROVE  [Gate!Next]_(Gate!gateVars)
  <2>1. /\ handler \in HandlerType
        /\ handler' = Prepared(handler, step, port)
    BY <1>1 DEF IInv, TypeOK, AnswerLost
  <2>2. /\ handler'.handshaked = handler.handshaked
        /\ handler'.authorized = handler.authorized
        /\ handler'.coupled = handler.coupled
        /\ handler.coupled => handler'.peerPort = handler.peerPort
    BY <2>1 DEF Prepared, HandlerType, ConnectResult, Steps
  <2>3. QED
    BY <2>2, SameFlagsStutter DEF Gate!gateVars
<1>2. CASE OnHandshakeRequest
  BY <1>1, <1>2, AnswerRefinesGate DEF OnHandshakeRequest, Steps
<1>3. CASE OnLoginRequest
  BY <1>1, <1>3, AnswerRefinesGate DEF OnLoginRequest, Steps
<1>4. CASE OnConnectRequest
  <2>1. PICK port \in Ports : \/ Answer("Connect", port, FALSE)
                             \/ AnswerLost("Connect", port)
    BY <1>4 DEF OnConnectRequest
  <2>2. QED
    BY <1>1, <2>1, AnswerRefinesGate DEF Steps
<1>5. CASE OnHeartbeatEvent
  <2>1. /\ handler \in HandlerType
        /\ handler' = [handler EXCEPT !.active = TRUE]
    BY <1>5 DEF IInv, TypeOK, OnHeartbeatEvent, Beaten
  <2>2. /\ handler'.handshaked = handler.handshaked
        /\ handler'.authorized = handler.authorized
        /\ handler'.coupled = handler.coupled
        /\ handler'.peerPort = handler.peerPort
    BY <2>1 DEF HandlerType
  <2>3. QED
    BY <2>2, SameFlagsStutter DEF Gate!gateVars
<1>6. CASE OnTimeout \/ UNCHANGED vars
  BY <1>6, SameFlagsStutter DEF OnTimeout, vars, Gate!gateVars
<1>7. QED
  BY <1>2, <1>3, <1>4, <1>5, <1>6 DEF Next

\* The handler implements the gate: the data port of a peer is visible only
\* after the three steps were granted in order, and then it is fixed.
THEOREM HandlerImplementsGate == Spec => ImplementsGate
<1>1. Init => Gate!Init
  BY DEF Init, Gate!Init, StageOf, PortOf, NewHandler
<1>2. QED
  BY <1>1, InductiveInvariant, NextRefinesGate, PTL DEF Spec, ImplementsGate, Gate!Spec

===============================================================================
