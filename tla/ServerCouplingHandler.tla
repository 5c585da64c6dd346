------------------------- MODULE ServerCouplingHandler -------------------------
(***************************************************************************)
(* One ServerCouplingHandler from its construction on, facing a client     *)
(* that sends any request at any time, with any verdict of authorize() and *)
(* any outcome of a send.  After emit failed() the object lives on until   *)
(* the queued dropClient() runs, and still answers what was already read.  *)
(***************************************************************************)
EXTENDS ServerCoupling, Sequences, Naturals

CONSTANT MaxReplies    \* bound: the responses a behaviour sends

ASSUME MaxRepliesAssumption == MaxReplies \in Nat

VARIABLES
    handler,   \* the object
    replies,   \* the responses sent so far: what the client has been told
    emitted,   \* how often coupled() was emitted
    failed     \* whether failed() was emitted

vars == <<handler, replies, emitted, failed>>

Reply == [step : Steps, result : Results]

Init == /\ handler = NewHandler
        /\ replies = <<>>
        /\ emitted = 0
        /\ failed = FALSE

\* A request is handled and its response sent.
Answer(step, port, authorized) ==
    LET result == ResultOf(handler, step, authorized)
    IN  /\ Len(replies) < MaxReplies
        /\ handler' = Answered(handler, step, port, result)
        /\ replies' = Append(replies, [step |-> step, result |-> result])
        /\ emitted' = IF step = "Connect" /\ result = "Accepted" THEN emitted + 1 ELSE emitted
        /\ UNCHANGED failed

\* Mutant of AnswerLost: the flag is set although nothing was sent.
AnswerLostButGranted(step, port) ==
    /\ handler' = Granted(Prepared(handler, step, port), step)
    /\ failed' = TRUE
    /\ UNCHANGED <<replies, emitted>>

\* The response cannot be sent: SEND_RESPONSE emits failed() and returns.
AnswerLost(step, port) ==
    /\ handler' = Prepared(handler, step, port)
    /\ failed' = TRUE
    /\ UNCHANGED <<replies, emitted>>

OnHandshakeRequest == Answer("Handshake", NoPort, FALSE) \/ AnswerLost("Handshake", NoPort)

OnLoginRequest == \/ \E authorized \in BOOLEAN : Answer("Login", NoPort, authorized)
                  \/ AnswerLost("Login", NoPort)

OnConnectRequest == \E port \in Ports : \/ Answer("Connect", port, FALSE)
                                        \/ AnswerLost("Connect", port)

OnHeartbeatEvent == /\ handler' = Beaten(handler)
                    /\ UNCHANGED <<replies, emitted, failed>>

\* m_timer is connected to failed() and keeps running.
OnTimeout == /\ handler.active
             /\ failed' = TRUE
             /\ UNCHANGED <<handler, replies, emitted>>

Next == \/ OnHandshakeRequest
        \/ OnLoginRequest
        \/ OnConnectRequest
        \/ OnHeartbeatEvent
        \/ OnTimeout

Spec == Init /\ [][Next]_vars

-------------------------------------------------------------------------------
Told(step) == \E i \in DOMAIN replies : replies[i] = [step |-> step, result |-> "Accepted"]

ToldBefore(step, i) ==
    \E j \in 1..(i - 1) : replies[j] = [step |-> step, result |-> "Accepted"]

\* Every variable has its type (server_coupling_handler.h).
TypeOK == /\ handler \in HandlerType
          /\ replies \in Seq(Reply)
          /\ emitted \in Nat
          /\ failed \in BOOLEAN

\* Whatever a client sends, and in whatever order, the server accepts a step
\* when, and only when, exactly the steps that precede it were accepted
\* earlier: no step is skipped, and none is accepted twice.  This is what the
\* three flags of ServerCouplingHandler are for.
AcceptedInOrder ==
    \A i \in DOMAIN replies :
        replies[i].result = "Accepted" =>
            \A s \in Steps : ToldBefore(s, i) <=> Precedes(s, replies[i].step)

\* The client has been told of a step exactly when the server believes it
\* happened, so that an unsent acceptance leaves nothing granted, and coupled()
\* is emitted exactly once for a coupled handler (onCoupled() asserts so).
FlagsMatchReplies ==
    /\ handler.handshaked <=> Told("Handshake")
    /\ handler.authorized <=> Told("Login")
    /\ handler.coupled <=> Told("Connect")
    /\ emitted = IF handler.coupled THEN 1 ELSE 0

\* A client that got any answer is watched by the timer: by the coupling
\* timeout as long as it is not coupled and nothing failed, and by the
\* heartbeat interval once it is coupled (m_timer is never left on the wrong
\* interval by a request that comes late or twice).
WatchedByTimer ==
    /\ replies # <<>> => handler.active
    /\ handler.coupled => handler.interval = "Heartbeat"
    /\ ~handler.coupled /\ ~failed => handler.interval = "Timeout"

-------------------------------------------------------------------------------
\* The abstract gate that this handler implements: the flags count the
\* granted steps, and the port is visible only once the peer is coupled (a
\* ConnectRequest whose response is lost may leave another one behind).
StageOf(h) == CASE h.coupled                    -> 3
                [] ~h.coupled /\ h.authorized   -> 2
                [] ~h.authorized /\ h.handshaked /\ ~h.coupled -> 1
                [] OTHER                        -> 0

PortOf(h) == IF h.coupled THEN h.peerPort ELSE NoPort

Gate == INSTANCE CouplingGate WITH stage <- StageOf(handler), port <- PortOf(handler)

\* The handler lets a client through exactly as the gate does: one step at a
\* time, in order, with a data port that is fixed once it is visible.
ImplementsGate == Gate!Spec
===============================================================================
