----------------------------- MODULE ActionHandler -----------------------------
(***************************************************************************)
(* The ActionHandlers of two coupled peers (src/comm/actions): requests    *)
(* with ids, the map of pending callbacks, the verdicts of the peer's      *)
(* callback, and what becomes of a call when a send fails, a message is    *)
(* split by the transport and lost, or a session ends and another begins.  *)
(* Both handlers of a session exist from here on; how they come to be made *)
(* is the subject of Communication.                                        *)
(***************************************************************************)
EXTENDS Naturals, Sequences, FiniteSets

CONSTANTS
    Peers,         \* the client's and the server's side
    Calls,         \* the calls of sendAction() and their callbacks
    Caller,        \* the side that makes each call
    Ids,           \* request ids: NextRequestId counts per translation unit,
                   \* and a plain ActionRequest has the id -1
    Nobody,        \* no call
    MaxSessions,   \* bound: sessions one after the other
    MaxLost        \* bound: messages lost in a read

ASSUME ActionAssumption == /\ IsFiniteSet(Peers) /\ Cardinality(Peers) = 2
                           /\ Caller \in [Calls -> Peers]
                           /\ Nobody \notin Calls
                           /\ Ids # {}
                           /\ MaxSessions \in Nat /\ MaxLost \in Nat

VARIABLES
    conn,       \* the connection under each side's handler; "none": no handler
    pending,    \* m_pendingActions: the call whose callback waits for an id
    wire,       \* the messages on their way to each side
    call,       \* how each call went
    requestId,  \* the id of the message it sent
    heard,      \* what its callback was told
    verdict,    \* what the peer's callback said of its request
    mixed,      \* calls whose id was not theirs alone
    sessions,   \* how many sessions there were
    lost        \* how many messages were lost

vars == <<conn, pending, wire, call, requestId, heard, verdict, mixed, sessions, lost>>

callVars == <<call, requestId, mixed>>

Other(p) == CHOOSE q \in Peers : q # p

NoCalls == [i \in Ids |-> Nobody]

\* "k" is the call a message belongs to; only the properties look at it.
Request(k, i, known) == [kind |-> "Request", k |-> k, id |-> i, flag |-> known]
Response(k, i, accepted) == [kind |-> "Response", k |-> k, id |-> i, flag |-> accepted]
Messages == [kind : {"Request", "Response"}, k : Calls, id : Ids, flag : BOOLEAN]

Elements(q) == {q[i] : i \in DOMAIN q}

Init == /\ conn = [p \in Peers |-> "none"]
        /\ pending = [p \in Peers |-> NoCalls]
        /\ wire = [p \in Peers |-> <<>>]
        /\ call = [k \in Calls |-> "unsent"]
        /\ requestId = [k \in Calls |-> CHOOSE i \in Ids : TRUE]
        /\ heard = [k \in Calls |-> <<>>]
        /\ verdict = [k \in Calls |-> "none"]
        /\ mixed = {}
        /\ sessions = 0
        /\ lost = 0

-------------------------------------------------------------------------------
\* The calls of p with the id i that are still under way.
UnderWay(p, i) ==
    {k \in Calls : /\ Caller[k] = p
                   /\ \/ pending[p][i] = k
                      \/ \E m \in Elements(wire[p] \o wire[Other(p)]) : m.k = k /\ m.id = i}

\* The id i of the call k is noted: it mixes the calls that share it.
Numbered(k, i) ==
    /\ requestId' = [requestId EXCEPT ![k] = i]
    /\ mixed' = IF UnderWay(Caller[k], i) = {} THEN mixed
                ELSE mixed \cup UnderWay(Caller[k], i) \cup {k}

\* emplace(): an id that is taken keeps its callback.
Entered(map, i, k) == IF map[i] = Nobody THEN [map EXCEPT ![i] = k] ELSE map

\* What p writes reaches the other side while that is connected, and vanishes
\* when it is not.
WireWith(w, p, msg) == IF conn[Other(p)] = "connected"
                       THEN [w EXCEPT ![Other(p)] = Append(@, msg)] ELSE w

\* A session with its two handlers.
Couple == /\ \A p \in Peers : conn[p] = "none"
          /\ sessions < MaxSessions
          /\ sessions' = sessions + 1
          /\ conn' = [p \in Peers |-> "connected"]
          /\ UNCHANGED <<pending, wire, callVars, heard, verdict, lost>>

\* sendAction() of a peer without a handler: the communication object tells the
\* callback at once, and a peer that has none either (a client after the end of
\* its session) tells it nothing.
SendUncoupled(k) ==
    /\ call[k] = "unsent" /\ conn[Caller[k]] = "none"
    /\ call' = [call EXCEPT ![k] = "uncoupled"]
    /\ heard' \in {heard, [heard EXCEPT ![k] = Append(@, FALSE)]}
    /\ UNCHANGED <<conn, pending, wire, requestId, mixed, verdict, sessions, lost>>

\* ActionHandler::sendAction: the callback is entered before the request is
\* sent, and stays when the send fails.
SendAction(k) ==
    LET p == Caller[k] IN
    /\ call[k] = "unsent" /\ conn[p] # "none"
    /\ \E i \in Ids, known \in BOOLEAN :
          /\ Numbered(k, i)
          /\ pending' = [pending EXCEPT ![p] = Entered(@, i, k)]
          /\ IF conn[p] = "connected"
             THEN /\ wire' = WireWith(wire, p, Request(k, i, known))
                  /\ call' = [call EXCEPT ![k] = "sent"]
             ELSE /\ call' = [call EXCEPT ![k] = "failed"]
                  /\ UNCHANGED wire
    /\ UNCHANGED <<conn, heard, verdict, sessions, lost>>

\* The message at the head of the wire of p is a request, or a response.
Receives(p, kind) == /\ conn[p] = "connected" /\ wire[p] # <<>>
                     /\ Head(wire[p]).kind = kind

\* Mutant of OnActionRequest: a request that is refused gets no response.
OnActionRequestSilent(p) ==
    /\ Receives(p, "Request")
    /\ LET m == Head(wire[p])
           read == [wire EXCEPT ![p] = Tail(@)]
       IN  \E accepted \in IF m.flag THEN BOOLEAN ELSE {FALSE} :
              /\ verdict' = [verdict EXCEPT ![m.k] = IF accepted THEN "accepted" ELSE "rejected"]
              /\ wire' = IF accepted THEN WireWith(read, p, Response(m.k, m.id, accepted)) ELSE read
    /\ UNCHANGED <<conn, pending, callVars, heard, sessions, lost>>

\* Mutant of OnActionRequest: the result does not start as Rejected.
OnActionRequestGenerous(p) ==
    /\ Receives(p, "Request")
    /\ LET m == Head(wire[p])
           read == [wire EXCEPT ![p] = Tail(@)]
       IN  \E accepted \in IF m.flag THEN BOOLEAN ELSE {FALSE} :
              /\ verdict' = [verdict EXCEPT ![m.k] = IF accepted THEN "accepted" ELSE "rejected"]
              /\ wire' = WireWith(read, p, Response(m.k, m.id, TRUE))
    /\ UNCHANGED <<conn, pending, callVars, heard, sessions, lost>>

\* onActionRequest(): a request of a known type is put to the callback of this
\* side, and the response carries its verdict and the id of the request.
OnActionRequest(p) ==
    /\ Receives(p, "Request")
    /\ LET m == Head(wire[p])
           read == [wire EXCEPT ![p] = Tail(@)]
       IN  \E accepted \in IF m.flag THEN BOOLEAN ELSE {FALSE} :
              /\ verdict' = [verdict EXCEPT ![m.k] = IF accepted THEN "accepted" ELSE "rejected"]
              /\ wire' = WireWith(read, p, Response(m.k, m.id, accepted))
    /\ UNCHANGED <<conn, pending, callVars, heard, sessions, lost>>

\* Mutant of Erased: the entry stays.
ErasedNot(map, i) == map

Erased(map, i) == [map EXCEPT ![i] = Nobody]

\* onActionResponse() with an id that nobody waits for.
OnStrayResponse(p) ==
    /\ Receives(p, "Response")
    /\ pending[p][Head(wire[p]).id] = Nobody
    /\ wire' = [wire EXCEPT ![p] = Tail(@)]
    /\ UNCHANGED <<conn, pending, callVars, heard, verdict, sessions, lost>>

\* onActionResponse(): the callback is called, and then its entry is erased.
OnActionResponse(p) ==
    /\ Receives(p, "Response")
    /\ LET m == Head(wire[p])
           k == pending[p][m.id]
       IN  /\ k # Nobody
           /\ heard' = [heard EXCEPT ![k] = Append(@, m.flag)]
           /\ pending' = [pending EXCEPT ![p] = Erased(@, m.id)]
    /\ wire' = [wire EXCEPT ![p] = Tail(@)]
    /\ UNCHANGED <<conn, callVars, verdict, sessions, lost>>

\* The same with a callback that sends its message again, as the call k: the
\* id is still taken, so that emplace() drops the new callback.
OnActionResponseAgain(p, k) ==
    /\ Receives(p, "Response")
    /\ Caller[k] = p /\ call[k] = "unsent"
    /\ LET m == Head(wire[p])
           first == pending[p][m.id]
           read == [wire EXCEPT ![p] = Tail(@)]
       IN  /\ first # Nobody
           /\ heard' = [heard EXCEPT ![first] = Append(@, m.flag)]
           /\ pending' = [pending EXCEPT ![p] = Erased(Entered(@, m.id, k), m.id)]
           /\ Numbered(k, m.id)
           /\ wire' = WireWith(read, p, Request(k, m.id, TRUE))
    /\ call' = [call EXCEPT ![k] = "sent"]
    /\ UNCHANGED <<conn, verdict, sessions, lost>>

-------------------------------------------------------------------------------
\* The transceiver of p loses a message that is split over two reads.
Lose(p) == /\ conn[p] = "connected" /\ wire[p] # <<>>
           /\ lost < MaxLost
           /\ lost' = lost + 1
           /\ wire' = [wire EXCEPT ![p] = Tail(@)]
           /\ UNCHANGED <<conn, pending, callVars, heard, verdict, sessions>>

\* The socket of p learns that the other side is closed: what was still on its
\* way may be gone, and sends fail from now on.
RemoteClosed(p) == /\ conn[p] = "connected" /\ conn[Other(p)] = "none"
                   /\ conn' = [conn EXCEPT ![p] = "unconnected"]
                   /\ wire' = [wire EXCEPT ![p] = <<>>]
                   /\ UNCHANGED <<pending, callVars, heard, verdict, sessions, lost>>

\* Mutant of End: the map survives its handler.
EndKeepingCallbacks(p) ==
    /\ conn[p] # "none"
    /\ conn' = [conn EXCEPT ![p] = "none"]
    /\ wire' = [wire EXCEPT ![p] = <<>>]
    /\ call' = [k \in Calls |-> IF Caller[k] = p /\ call[k] \in {"sent", "failed"}
                                THEN "over" ELSE call[k]]
    /\ UNCHANGED <<pending, requestId, mixed, heard, verdict, sessions, lost>>

\* The session ends at p: its handler is destroyed with the callbacks it keeps.
End(p) ==
    /\ conn[p] # "none"
    /\ conn' = [conn EXCEPT ![p] = "none"]
    /\ pending' = [pending EXCEPT ![p] = NoCalls]
    /\ wire' = [wire EXCEPT ![p] = <<>>]
    /\ call' = [k \in Calls |-> IF Caller[k] = p /\ call[k] \in {"sent", "failed"}
                                THEN "over" ELSE call[k]]
    /\ UNCHANGED <<requestId, mixed, heard, verdict, sessions, lost>>

Next == \/ Couple
        \/ \E k \in Calls : SendUncoupled(k) \/ SendAction(k)
        \/ \E p \in Peers : \/ OnActionRequest(p)
                            \/ OnStrayResponse(p)
                            \/ OnActionResponse(p)
                            \/ \E k \in Calls : OnActionResponseAgain(p, k)
                            \/ Lose(p)
                            \/ RemoteClosed(p)
                            \/ End(p)

Spec == Init /\ [][Next]_vars

\* What a side has to read is read, and a side whose connection is closed lets
\* go of its handler.  Nobody has to send, and no session has to end.
FairSpec ==
    Spec /\ \A p \in Peers :
        /\ WF_vars(\/ OnActionRequest(p) \/ OnStrayResponse(p) \/ OnActionResponse(p)
                   \/ \E k \in Calls : OnActionResponseAgain(p, k))
        /\ WF_vars(RemoteClosed(p))
        /\ WF_vars(conn[p] = "unconnected" /\ End(p))

-------------------------------------------------------------------------------
\* Every variable has its type, and a side without a handler keeps nothing.
TypeOK == /\ \A p \in Peers : conn[p] = "none" => pending[p] = NoCalls /\ wire[p] = <<>>
          /\ conn \in [Peers -> {"none", "connected", "unconnected"}]
          /\ pending \in [Peers -> [Ids -> Calls \cup {Nobody}]]
          /\ wire \in [Peers -> Seq(Messages)]
          /\ call \in [Calls -> {"unsent", "uncoupled", "sent", "failed", "over"}]
          /\ requestId \in [Calls -> Ids]
          /\ heard \in [Calls -> Seq(BOOLEAN)]
          /\ verdict \in [Calls -> {"none", "accepted", "rejected"}]
          /\ mixed \subseteq Calls
          /\ sessions \in Nat /\ lost \in Nat

\* A callback is called once at most, however ids are reused, messages sent
\* again from within a callback and responses left over.
AnsweredOnce == \A k \in Calls : Len(heard[k]) <= 1

\* A call that shares its id with no other that is under way is told what the
\* peer's callback said of its own request, across all sessions.
OwnAnswer ==
    \A k \in Calls \ mixed : heard[k] # <<>> /\ call[k] # "uncoupled" =>
        heard[k] = <<verdict[k] = "accepted">> /\ verdict[k] # "none"

\* While the connection is up at both ends and no message was lost, no callback
\* is forgotten: that of a call with an id of its own is in the map, and the
\* request or the response that will release it is on its way.
NoLostCallback ==
    \A k \in Calls \ mixed :
        LET p == Caller[k]
            q == Other(p)
        IN  /\ call[k] = "sent" /\ heard[k] = <<>> /\ lost = 0
            /\ conn[p] = "connected" /\ conn[q] = "connected"
            => /\ pending[p][requestId[k]] = k
               /\ \E m \in Elements(wire[p] \o wire[q]) : m.k = k /\ m.id = requestId[k]

\* Every call that was sent and not lost is answered, or its session ends and
\* its callback is destroyed unheard.
Answered ==
    \A k \in Calls : call[k] = "sent" ~>
        heard[k] # <<>> \/ call[k] = "over" \/ k \in mixed \/ lost > 0
===============================================================================
