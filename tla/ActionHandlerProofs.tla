-------------------------- MODULE ActionHandlerProofs --------------------------
(***************************************************************************)
(* Proofs about ActionHandler, for every set of calls and of ids, and      *)
(* every number of sessions and of lost messages.                          *)
(***************************************************************************)
EXTENDS ActionHandler, FiniteSetTheorems, TLAPS

\* The calls whose callbacks have not been called: those in a map, each once
\* and under the id of its message, and those that were not made.
Unheard ==
    /\ \A k \in Calls : call[k] = "unsent" => heard[k] = <<>>
    /\ \A p \in Peers : \A i \in Ids : pending[p][i] # Nobody =>
           /\ heard[pending[p][i]] = <<>>
           /\ call[pending[p][i]] # "unsent"
           /\ Caller[pending[p][i]] = p
           /\ requestId[pending[p][i]] = i

IInv == TypeOK /\ Unheard /\ AnsweredOnce

-------------------------------------------------------------------------------
(* The operators. *)

LEMMA ConstantTypes == /\ Caller \in [Calls -> Peers]
                       /\ Nobody \notin Calls
                       /\ NoCalls \in [Ids -> Calls \cup {Nobody}]
BY ActionAssumption DEF NoCalls

LEMMA PendingType ==
    ASSUME TypeOK
    PROVE  \A p \in Peers, i \in Ids : pending[p][i] \in Calls \cup {Nobody}
BY DEF TypeOK

LEMMA HeadType ==
    ASSUME TypeOK, NEW p \in Peers, wire[p] # <<>>
    PROVE  /\ Head(wire[p]) \in Messages
           /\ Tail(wire[p]) \in Seq(Messages)
           /\ Head(wire[p]).k \in Calls /\ Head(wire[p]).id \in Ids
           /\ Head(wire[p]).flag \in BOOLEAN
<1>1. wire[p] \in Seq(Messages)
  BY DEF TypeOK
<1>2. Head(wire[p]) \in Messages /\ Tail(wire[p]) \in Seq(Messages)
  BY <1>1
<1> QED
  BY <1>2 DEF Messages

LEMMA WireWithType ==
    ASSUME NEW w \in [Peers -> Seq(Messages)], NEW p \in Peers, NEW msg \in Messages
    PROVE  /\ WireWith(w, p, msg) \in [Peers -> Seq(Messages)]
           /\ \A q \in Peers : WireWith(w, p, msg)[q] # w[q] => conn[q] = "connected"
<1> DEFINE q == Other(p)
<1>1. CASE q \in Peers
  <2>1. Append(w[q], msg) \in Seq(Messages)
    BY <1>1
  <2> QED
    BY <1>1, <2>1 DEF WireWith
<1>2. CASE q \notin Peers
  BY <1>2 DEF WireWith
<1> QED
  BY <1>1, <1>2

LEMMA NumberedType ==
    ASSUME TypeOK, NEW k \in Calls, NEW i \in Ids, Numbered(k, i)
    PROVE  /\ requestId' \in [Calls -> Ids] /\ mixed' \subseteq Calls
           /\ requestId' = [requestId EXCEPT ![k] = i]
BY DEF Numbered, UnderWay, TypeOK

LEMMA EnteredType ==
    ASSUME NEW map \in [Ids -> Calls \cup {Nobody}], NEW i \in Ids, NEW k \in Calls
    PROVE  /\ Entered(map, i, k) \in [Ids -> Calls \cup {Nobody}]
           /\ \A j \in Ids : Entered(map, i, k)[j] = map[j] \/ (j = i /\ Entered(map, i, k)[j] = k)
BY DEF Entered

LEMMA ErasedType ==
    ASSUME NEW map \in [Ids -> Calls \cup {Nobody}], NEW i \in Ids
    PROVE  /\ Erased(map, i) \in [Ids -> Calls \cup {Nobody}]
           /\ Erased(map, i)[i] = Nobody
           /\ \A j \in Ids : Erased(map, i)[j] = map[j] \/ Erased(map, i)[j] = Nobody
BY DEF Erased

LEMMA HeardType ==
    ASSUME NEW h \in [Calls -> Seq(BOOLEAN)], NEW k \in Calls, NEW b \in BOOLEAN
    PROVE  /\ [h EXCEPT ![k] = Append(@, b)] \in [Calls -> Seq(BOOLEAN)]
           /\ h[k] = <<>> => Len([h EXCEPT ![k] = Append(@, b)][k]) = 1
<1>1. h[k] \in Seq(BOOLEAN)
  OBVIOUS
<1>2. Append(h[k], b) \in Seq(BOOLEAN) /\ Len(Append(h[k], b)) = Len(h[k]) + 1
  BY <1>1
<1>3. h[k] = <<>> => Len(h[k]) = 0
  OBVIOUS
<1> QED
  BY <1>2, <1>3

-------------------------------------------------------------------------------
LEMMA Initially == Init => IInv
<1> SUFFICES ASSUME Init PROVE IInv
  OBVIOUS
<1>1. TypeOK
  <2>1. (CHOOSE i \in Ids : TRUE) \in Ids
    BY ActionAssumption
  <2> QED
    BY <2>1, ConstantTypes DEF Init, TypeOK
<1>2. Unheard /\ AnsweredOnce
  BY ConstantTypes DEF Init, Unheard, AnsweredOnce, NoCalls
<1> QED
  BY <1>1, <1>2 DEF IInv

(* The actions, one by one. *)

LEMMA CoupleKeeps == IInv /\ Couple => IInv'
<1> SUFFICES ASSUME IInv, Couple PROVE IInv'
  OBVIOUS
<1>1. TypeOK'
  BY ConstantTypes DEF IInv, TypeOK, Couple, callVars
<1>2. Unheard' /\ AnsweredOnce'
  BY DEF IInv, Unheard, AnsweredOnce, Couple, callVars
<1> QED
  BY <1>1, <1>2 DEF IInv

\* What a callback that has not been called is told is all it is told.
LEMMA ToldOnce ==
    ASSUME IInv, NEW k \in Calls, NEW b \in BOOLEAN, heard[k] = <<>>,
           heard' = [heard EXCEPT ![k] = Append(@, b)]
    PROVE  /\ heard' \in [Calls -> Seq(BOOLEAN)]
           /\ AnsweredOnce'
           /\ \A c \in Calls : c # k => heard'[c] = heard[c]
<1>1. heard \in [Calls -> Seq(BOOLEAN)]
  BY DEF IInv, TypeOK
<1>2. /\ heard' \in [Calls -> Seq(BOOLEAN)]
      /\ Len(heard'[k]) = 1
  BY <1>1, HeardType
<1>3. \A c \in Calls : c # k => heard'[c] = heard[c]
  BY <1>1
<1>4. ASSUME NEW c \in Calls PROVE Len(heard'[c]) <= 1
  <2>1. CASE c = k
    BY <2>1, <1>2
  <2>2. CASE c # k
    BY <2>2, <1>3 DEF IInv, AnsweredOnce
  <2> QED
    BY <2>1, <2>2
<1> QED
  BY <1>2, <1>3, <1>4 DEF AnsweredOnce

LEMMA SendUncoupledKeeps == ASSUME NEW k \in Calls PROVE IInv /\ SendUncoupled(k) => IInv'
<1> SUFFICES ASSUME IInv, SendUncoupled(k) PROVE IInv'
  OBVIOUS
<1> USE DEF SendUncoupled
<1>1. heard[k] = <<>>
  BY DEF IInv, Unheard
<1>2. /\ heard' \in [Calls -> Seq(BOOLEAN)]
      /\ AnsweredOnce'
      /\ \A c \in Calls : c # k => heard'[c] = heard[c]
  <2>1. CASE heard' = heard
    BY <2>1 DEF IInv, TypeOK, AnsweredOnce
  <2>2. CASE heard' = [heard EXCEPT ![k] = Append(@, FALSE)]
    BY <1>1, <2>2, ToldOnce
  <2>3. QED
    BY <2>1, <2>2
<1>3. TypeOK'
  BY <1>2 DEF IInv, TypeOK
<1>4. \A c \in Calls : call'[c] = "unsent" => c # k /\ call[c] = "unsent"
  BY DEF IInv, TypeOK
<1>5. \A c \in Calls : c # k => call'[c] = call[c]
  BY DEF IInv, TypeOK
<1>6. \A p \in Peers : \A i \in Ids : pending[p][i] # Nobody =>
         pending[p][i] \in Calls /\ pending[p][i] # k
  BY DEF IInv, TypeOK, Unheard
<1>7. Unheard'
  <2>1. \A c \in Calls : call'[c] = "unsent" => heard'[c] = <<>>
    BY <1>2, <1>4 DEF IInv, Unheard
  <2>2. pending' = pending /\ requestId' = requestId
    OBVIOUS
  <2>3. ASSUME NEW q \in Peers, NEW i \in Ids, pending'[q][i] # Nobody
        PROVE  /\ heard'[pending'[q][i]] = <<>>
               /\ call'[pending'[q][i]] # "unsent"
               /\ Caller[pending'[q][i]] = q
               /\ requestId'[pending'[q][i]] = i
    <3> DEFINE c == pending[q][i]
    <3>1. pending'[q][i] = c /\ c \in Calls /\ c # k
      BY <2>2, <2>3, <1>6
    <3>2. heard'[c] = heard[c] /\ call'[c] = call[c]
      BY <3>1, <1>2, <1>5
    <3>3. heard[c] = <<>> /\ call[c] # "unsent" /\ Caller[c] = q /\ requestId[c] = i
      BY <2>2, <2>3 DEF IInv, Unheard
    <3> QED
      BY <2>2, <3>1, <3>2, <3>3
  <2> QED
    BY <2>1, <2>3 DEF Unheard
<1> QED
  BY <1>2, <1>3, <1>7 DEF IInv

LEMMA SendActionKeeps == ASSUME NEW k \in Calls PROVE IInv /\ SendAction(k) => IInv'
<1> SUFFICES ASSUME IInv, SendAction(k) PROVE IInv'
  OBVIOUS
<1> DEFINE p == Caller[k]
<1>0. p \in Peers
  BY ConstantTypes
<1>1. PICK i \in Ids, known \in BOOLEAN :
         /\ Numbered(k, i)
         /\ pending' = [pending EXCEPT ![p] = Entered(@, i, k)]
         /\ IF conn[p] = "connected"
            THEN /\ wire' = WireWith(wire, p, Request(k, i, known))
                 /\ call' = [call EXCEPT ![k] = "sent"]
            ELSE /\ call' = [call EXCEPT ![k] = "failed"]
                 /\ UNCHANGED wire
  BY DEF SendAction
<1>2. /\ call[k] = "unsent" /\ conn[p] # "none" /\ heard[k] = <<>>
      /\ UNCHANGED <<conn, heard, verdict, sessions, lost>>
  BY DEF SendAction, IInv, Unheard
<1>3. /\ requestId' \in [Calls -> Ids] /\ mixed' \subseteq Calls
      /\ requestId' = [requestId EXCEPT ![k] = i]
  BY <1>1, NumberedType DEF IInv
<1>4. Request(k, i, known) \in Messages
  BY <1>1 DEF Request, Messages
<1>5. /\ wire' \in [Peers -> Seq(Messages)]
      /\ \A q \in Peers : wire'[q] # wire[q] => conn[q] = "connected"
  <2>1. wire \in [Peers -> Seq(Messages)]
    BY DEF IInv, TypeOK
  <2>2. CASE conn[p] = "connected"
    <3>1. wire' = WireWith(wire, p, Request(k, i, known))
      BY <2>2, <1>1
    <3> QED
      BY <2>1, <3>1, <1>0, <1>4, WireWithType
  <2>3. CASE conn[p] # "connected"
    BY <2>1, <2>3, <1>1
  <2> QED
    BY <2>2, <2>3
<1>6. pending[p] \in [Ids -> Calls \cup {Nobody}]
  BY <1>0 DEF IInv, TypeOK
<1>7. /\ Entered(pending[p], i, k) \in [Ids -> Calls \cup {Nobody}]
      /\ \A j \in Ids : \/ Entered(pending[p], i, k)[j] = pending[p][j]
                        \/ j = i /\ Entered(pending[p], i, k)[j] = k
  BY <1>6, EnteredType
<1>8. /\ pending' \in [Peers -> [Ids -> Calls \cup {Nobody}]]
      /\ \A q \in Peers : q # p => pending'[q] = pending[q]
      /\ pending'[p] = Entered(pending[p], i, k)
  BY <1>0, <1>1, <1>7 DEF IInv, TypeOK
<1>9. /\ call' \in [Calls -> {"unsent", "uncoupled", "sent", "failed", "over"}]
      /\ \A c \in Calls : c # k => call'[c] = call[c]
      /\ call'[k] # "unsent"
  BY <1>1 DEF IInv, TypeOK
<1>10. TypeOK'
  <2>1. \A q \in Peers : conn'[q] = "none" => pending'[q] = NoCalls /\ wire'[q] = <<>>
    BY <1>2, <1>5, <1>8 DEF IInv, TypeOK
  <2> QED
    BY <2>1, <1>2, <1>3, <1>5, <1>8, <1>9 DEF IInv, TypeOK
<1>11. ASSUME NEW q \in Peers, NEW j \in Ids, pending'[q][j] # Nobody
       PROVE  /\ heard'[pending'[q][j]] = <<>>
              /\ call'[pending'[q][j]] # "unsent"
              /\ Caller[pending'[q][j]] = q
              /\ requestId'[pending'[q][j]] = j
  <2>1. CASE pending'[q][j] = pending[q][j]
    <3>1. pending[q][j] \in Calls /\ pending[q][j] # k
      BY <2>1, <1>11, <1>2 DEF IInv, TypeOK, Unheard
    <3>2. requestId'[pending[q][j]] = requestId[pending[q][j]]
      BY <3>1, <1>3 DEF IInv, TypeOK
    <3> QED
      BY <2>1, <3>1, <3>2, <1>2, <1>9, <1>11 DEF IInv, Unheard
  <2>2. CASE q = p /\ j = i /\ pending'[q][j] = k
    <3>1. requestId'[k] = i
      BY <1>3 DEF IInv, TypeOK
    <3> QED
      BY <2>2, <3>1, <1>2, <1>9
  <2> QED
    BY <2>1, <2>2, <1>7, <1>8
<1>12. Unheard'
  BY <1>11, <1>2, <1>9 DEF IInv, Unheard
<1>13. AnsweredOnce'
  BY <1>2 DEF IInv, AnsweredOnce
<1> QED
  BY <1>10, <1>12, <1>13 DEF IInv

LEMMA OnActionRequestKeeps == ASSUME NEW p \in Peers PROVE IInv /\ OnActionRequest(p) => IInv'
<1> SUFFICES ASSUME IInv, OnActionRequest(p) PROVE IInv'
  OBVIOUS
<1> DEFINE m == Head(wire[p])
           read == [wire EXCEPT ![p] = Tail(@)]
<1>1. conn[p] = "connected" /\ wire[p] # <<>>
  BY DEF OnActionRequest, Receives
<1>2. m.k \in Calls /\ m.id \in Ids /\ m.flag \in BOOLEAN /\ Tail(wire[p]) \in Seq(Messages)
  BY <1>1, HeadType DEF IInv
<1>3. PICK accepted \in IF m.flag THEN BOOLEAN ELSE {FALSE} :
         /\ verdict' = [verdict EXCEPT ![m.k] = IF accepted THEN "accepted" ELSE "rejected"]
         /\ wire' = WireWith(read, p, Response(m.k, m.id, accepted))
  BY DEF OnActionRequest
<1>4. accepted \in BOOLEAN
  BY <1>3
<1>5. Response(m.k, m.id, accepted) \in Messages
  BY <1>2, <1>4 DEF Response, Messages
<1>6. /\ read \in [Peers -> Seq(Messages)]
      /\ \A q \in Peers : q # p => read[q] = wire[q]
  BY <1>2 DEF IInv, TypeOK
<1>7. /\ wire' \in [Peers -> Seq(Messages)]
      /\ \A q \in Peers : wire'[q] # read[q] => conn[q] = "connected"
  <2> HIDE DEF read, m
  <2> QED
    BY <1>3, <1>5, <1>6, WireWithType
<1>8. UNCHANGED <<conn, pending, call, requestId, mixed, heard, sessions, lost>>
  BY DEF OnActionRequest, callVars
<1>9. TypeOK'
  <2>1. \A q \in Peers : conn'[q] = "none" => pending'[q] = NoCalls /\ wire'[q] = <<>>
    BY <1>1, <1>6, <1>7, <1>8 DEF IInv, TypeOK
  <2>2. verdict' \in [Calls -> {"none", "accepted", "rejected"}]
    BY <1>2, <1>3 DEF IInv, TypeOK
  <2> QED
    BY <2>1, <2>2, <1>7, <1>8 DEF IInv, TypeOK
<1>10. Unheard' /\ AnsweredOnce'
  BY <1>8 DEF IInv, Unheard, AnsweredOnce
<1> QED
  BY <1>9, <1>10 DEF IInv

\* The wire of one side loses its head, or all that was on it.
LEMMA OnlyTheWireKeeps ==
    ASSUME IInv, NEW p \in Peers, wire[p] # <<>>, conn[p] # "none", lost' \in Nat,
           wire' = [wire EXCEPT ![p] = Tail(@)],
           UNCHANGED <<conn, pending, call, requestId, mixed, heard, verdict, sessions>>
    PROVE  IInv'
<1>1. Tail(wire[p]) \in Seq(Messages)
  BY HeadType DEF IInv
<1>2. wire' \in [Peers -> Seq(Messages)] /\ \A q \in Peers : q # p => wire'[q] = wire[q]
  BY <1>1 DEF IInv, TypeOK
<1>3. TypeOK'
  BY <1>2 DEF IInv, TypeOK
<1>4. Unheard' /\ AnsweredOnce'
  BY DEF IInv, Unheard, AnsweredOnce
<1> QED
  BY <1>3, <1>4 DEF IInv

LEMMA OnStrayResponseKeeps == ASSUME NEW p \in Peers PROVE IInv /\ OnStrayResponse(p) => IInv'
BY OnlyTheWireKeeps DEF OnStrayResponse, Receives, callVars, IInv, TypeOK

LEMMA LoseKeeps == ASSUME NEW p \in Peers PROVE IInv /\ Lose(p) => IInv'
<1> SUFFICES ASSUME IInv, Lose(p) PROVE IInv'
  OBVIOUS
<1>1. /\ conn[p] # "none" /\ wire[p] # <<>>
      /\ lost' = lost + 1 /\ wire' = [wire EXCEPT ![p] = Tail(@)]
      /\ UNCHANGED <<conn, pending, call, requestId, mixed, heard, verdict, sessions>>
  BY DEF Lose, callVars
<1>2. lost' \in Nat
  BY <1>1 DEF IInv, TypeOK
<1> QED
  BY <1>1, <1>2, OnlyTheWireKeeps

LEMMA OnActionResponseKeeps == ASSUME NEW p \in Peers PROVE IInv /\ OnActionResponse(p) => IInv'
<1> SUFFICES ASSUME IInv, OnActionResponse(p) PROVE IInv'
  OBVIOUS
<1> DEFINE m == Head(wire[p])
           k == pending[p][m.id]
<1>1. conn[p] = "connected" /\ wire[p] # <<>>
  BY DEF OnActionResponse, Receives
<1>2. m.id \in Ids /\ m.flag \in BOOLEAN /\ Tail(wire[p]) \in Seq(Messages)
  BY <1>1, HeadType DEF IInv
<1>3. /\ k # Nobody
      /\ heard' = [heard EXCEPT ![k] = Append(@, m.flag)]
      /\ pending' = [pending EXCEPT ![p] = Erased(@, m.id)]
      /\ wire' = [wire EXCEPT ![p] = Tail(@)]
      /\ UNCHANGED <<conn, call, requestId, mixed, verdict, sessions, lost>>
  BY DEF OnActionResponse, callVars
<1>4. /\ k \in Calls /\ heard[k] = <<>> /\ call[k] # "unsent"
      /\ Caller[k] = p /\ requestId[k] = m.id
  <2>1. k \in Calls
    BY <1>2, <1>3, PendingType DEF IInv
  <2> HIDE DEF m
  <2> QED
    BY <1>2, <1>3, <2>1 DEF IInv, Unheard
<1>5. /\ heard' \in [Calls -> Seq(BOOLEAN)]
      /\ AnsweredOnce'
      /\ \A c \in Calls : c # k => heard'[c] = heard[c]
  BY <1>2, <1>3, <1>4, ToldOnce
<1>6. pending[p] \in [Ids -> Calls \cup {Nobody}]
  BY DEF IInv, TypeOK
<1>7. /\ Erased(pending[p], m.id) \in [Ids -> Calls \cup {Nobody}]
      /\ Erased(pending[p], m.id)[m.id] = Nobody
      /\ \A j \in Ids : Erased(pending[p], m.id)[j] \in {pending[p][j], Nobody}
  BY <1>2, <1>6, ErasedType
<1>8. /\ pending' \in [Peers -> [Ids -> Calls \cup {Nobody}]]
      /\ \A q \in Peers : q # p => pending'[q] = pending[q]
      /\ pending'[p] = Erased(pending[p], m.id)
  BY <1>3, <1>7 DEF IInv, TypeOK
<1>9. wire' \in [Peers -> Seq(Messages)] /\ \A q \in Peers : q # p => wire'[q] = wire[q]
  BY <1>2, <1>3 DEF IInv, TypeOK
<1>10. TypeOK'
  <2>1. \A q \in Peers : conn'[q] = "none" => pending'[q] = NoCalls /\ wire'[q] = <<>>
    BY <1>1, <1>3, <1>8, <1>9 DEF IInv, TypeOK
  <2> QED
    BY <2>1, <1>3, <1>5, <1>8, <1>9 DEF IInv, TypeOK
<1>11. ASSUME NEW q \in Peers, NEW j \in Ids, pending'[q][j] # Nobody
       PROVE  /\ pending'[q][j] = pending[q][j]
              /\ pending[q][j] \in Calls
              /\ pending[q][j] # k
  <2>1. pending'[q][j] = pending[q][j]
    BY <1>7, <1>8, <1>11
  <2>2. pending[q][j] \in Calls
    BY <2>1, <1>11 DEF IInv, TypeOK
  <2>3. ASSUME pending[q][j] = k PROVE FALSE
    <3>1. q = p /\ j = m.id
      BY <2>1, <2>3, <1>11, <1>4 DEF IInv, Unheard
    <3> QED
      BY <3>1, <1>7, <1>8, <1>11
  <2> QED
    BY <2>1, <2>2, <2>3
<1>12. Unheard'
  <2>1. \A c \in Calls : call'[c] = "unsent" => heard'[c] = <<>>
    BY <1>3, <1>4, <1>5 DEF IInv, Unheard
  <2>2. ASSUME NEW q \in Peers, NEW j \in Ids, pending'[q][j] # Nobody
        PROVE  /\ heard'[pending'[q][j]] = <<>>
               /\ call'[pending'[q][j]] # "unsent"
               /\ Caller[pending'[q][j]] = q
               /\ requestId'[pending'[q][j]] = j
    <3> DEFINE c == pending[q][j]
    <3>1. pending'[q][j] = c /\ c \in Calls /\ c # k
      BY <2>2, <1>11
    <3>2. heard'[c] = heard[c]
      BY <3>1, <1>5
    <3>3. heard[c] = <<>> /\ call[c] # "unsent" /\ Caller[c] = q /\ requestId[c] = j
      BY <2>2, <3>1 DEF IInv, Unheard
    <3>4. call' = call /\ requestId' = requestId
      BY <1>3
    <3> QED
      BY <3>1, <3>2, <3>3, <3>4
  <2> QED
    BY <2>1, <2>2 DEF Unheard
<1> QED
  BY <1>5, <1>10, <1>12 DEF IInv

LEMMA OnActionResponseAgainKeeps ==
    ASSUME NEW p \in Peers, NEW k \in Calls
    PROVE  IInv /\ OnActionResponseAgain(p, k) => IInv'
<1> SUFFICES ASSUME IInv, OnActionResponseAgain(p, k) PROVE IInv'
  OBVIOUS
<1> DEFINE m == Head(wire[p])
           first == pending[p][m.id]
           read == [wire EXCEPT ![p] = Tail(@)]
           map == Entered(pending[p], m.id, k)
<1>1. conn[p] = "connected" /\ wire[p] # <<>>
  BY DEF OnActionResponseAgain, Receives
<1>2. m.id \in Ids /\ m.flag \in BOOLEAN /\ Tail(wire[p]) \in Seq(Messages)
  BY <1>1, HeadType DEF IInv
<1>3. /\ call[k] = "unsent" /\ first # Nobody
      /\ heard' = [heard EXCEPT ![first] = Append(@, m.flag)]
      /\ pending' = [pending EXCEPT ![p] = Erased(Entered(@, m.id, k), m.id)]
      /\ Numbered(k, m.id)
      /\ wire' = WireWith(read, p, Request(k, m.id, TRUE))
      /\ call' = [call EXCEPT ![k] = "sent"]
      /\ UNCHANGED <<conn, verdict, sessions, lost>>
  BY DEF OnActionResponseAgain
<1>4. /\ first \in Calls /\ heard[first] = <<>> /\ call[first] # "unsent"
      /\ Caller[first] = p /\ requestId[first] = m.id
  <2>1. first \in Calls
    BY <1>2, <1>3, PendingType DEF IInv
  <2> HIDE DEF m
  <2> QED
    BY <1>2, <1>3, <2>1 DEF IInv, Unheard
<1>5. /\ heard' \in [Calls -> Seq(BOOLEAN)]
      /\ AnsweredOnce'
      /\ \A c \in Calls : c # first => heard'[c] = heard[c]
  BY <1>2, <1>3, <1>4, ToldOnce
<1>6. pending[p] \in [Ids -> Calls \cup {Nobody}]
  BY DEF IInv, TypeOK
<1>7. map = pending[p]
  BY <1>2, <1>3 DEF Entered
<1>8. /\ Erased(map, m.id) \in [Ids -> Calls \cup {Nobody}]
      /\ Erased(map, m.id)[m.id] = Nobody
      /\ \A j \in Ids : Erased(map, m.id)[j] \in {pending[p][j], Nobody}
  BY <1>2, <1>6, <1>7, ErasedType
<1>9. /\ pending' \in [Peers -> [Ids -> Calls \cup {Nobody}]]
      /\ \A q \in Peers : q # p => pending'[q] = pending[q]
      /\ pending'[p] = Erased(map, m.id)
  BY <1>3, <1>8 DEF IInv, TypeOK
<1>10. /\ requestId' \in [Calls -> Ids] /\ mixed' \subseteq Calls
       /\ requestId' = [requestId EXCEPT ![k] = m.id]
  <2> HIDE DEF m
  <2> QED
    BY <1>2, <1>3, NumberedType DEF IInv
<1>11. Request(k, m.id, TRUE) \in Messages
  BY <1>2 DEF Request, Messages
<1>12. /\ read \in [Peers -> Seq(Messages)]
       /\ \A q \in Peers : q # p => read[q] = wire[q]
  BY <1>2 DEF IInv, TypeOK
<1>13. /\ wire' \in [Peers -> Seq(Messages)]
       /\ \A q \in Peers : wire'[q] # read[q] => conn[q] = "connected"
  <2> HIDE DEF read, m
  <2> QED
    BY <1>3, <1>11, <1>12, WireWithType
<1>14. /\ call' \in [Calls -> {"unsent", "uncoupled", "sent", "failed", "over"}]
       /\ \A c \in Calls : c # k => call'[c] = call[c]
       /\ call'[k] # "unsent"
  BY <1>3 DEF IInv, TypeOK
<1>15. TypeOK'
  <2>1. ASSUME NEW q \in Peers, conn'[q] = "none"
        PROVE  pending'[q] = NoCalls /\ wire'[q] = <<>>
    <3>1. conn[q] = "none" /\ q # p
      BY <1>1, <1>3, <2>1
    <3>2. pending[q] = NoCalls /\ wire[q] = <<>>
      BY <3>1 DEF IInv, TypeOK
    <3> HIDE DEF read, m
    <3>3. wire'[q] = read[q]
      BY <1>13, <3>1
    <3> QED
      BY <1>9, <1>12, <3>1, <3>2, <3>3
  <2> QED
    BY <2>1, <1>3, <1>5, <1>9, <1>10, <1>13, <1>14 DEF IInv, TypeOK
<1>16. ASSUME NEW q \in Peers, NEW j \in Ids, pending'[q][j] # Nobody
       PROVE  /\ pending'[q][j] = pending[q][j]
              /\ pending[q][j] \in Calls
              /\ pending[q][j] # first
              /\ pending[q][j] # k
  <2>1. pending'[q][j] = pending[q][j]
    BY <1>8, <1>9, <1>16
  <2>2. pending[q][j] \in Calls /\ pending[q][j] # k
    <3>1. pending[q][j] \in Calls
      BY <2>1, <1>16, PendingType DEF IInv
    <3>2. call[pending[q][j]] # "unsent"
      BY <2>1, <1>16 DEF IInv, Unheard
    <3> QED
      BY <1>3, <3>1, <3>2
  <2>3. ASSUME pending[q][j] = first PROVE FALSE
    <3>1. q = p /\ j = m.id
      BY <2>1, <2>3, <1>16, <1>4 DEF IInv, Unheard
    <3> QED
      BY <3>1, <1>8, <1>9, <1>16
  <2> QED
    BY <2>1, <2>2, <2>3
<1>17. Unheard'
  <2>1. \A c \in Calls : call'[c] = "unsent" => heard'[c] = <<>>
    <3>1. ASSUME NEW c \in Calls, call'[c] = "unsent" PROVE heard'[c] = <<>>
      <4>1. c # k
        BY <3>1, <1>14
      <4>2. call[c] = "unsent" /\ c # first
        BY <3>1, <4>1, <1>4, <1>14
      <4>3. heard[c] = <<>>
        BY <4>2 DEF IInv, Unheard
      <4> QED
        BY <4>2, <4>3, <1>5
    <3> QED
      BY <3>1
  <2>2. ASSUME NEW q \in Peers, NEW j \in Ids, pending'[q][j] # Nobody
        PROVE  /\ heard'[pending'[q][j]] = <<>>
               /\ call'[pending'[q][j]] # "unsent"
               /\ Caller[pending'[q][j]] = q
               /\ requestId'[pending'[q][j]] = j
    <3> DEFINE c == pending[q][j]
    <3>1. pending'[q][j] = c /\ c \in Calls /\ c # first /\ c # k
      BY <2>2, <1>16
    <3>2. heard'[c] = heard[c] /\ call'[c] = call[c]
      BY <3>1, <1>5, <1>14
    <3>3. requestId'[c] = requestId[c]
      BY <3>1, <1>10 DEF IInv, TypeOK
    <3>4. heard[c] = <<>> /\ call[c] # "unsent" /\ Caller[c] = q /\ requestId[c] = j
      BY <2>2, <3>1 DEF IInv, Unheard
    <3> QED
      BY <3>1, <3>2, <3>3, <3>4
  <2> QED
    BY <2>1, <2>2 DEF Unheard
<1> QED
  BY <1>5, <1>15, <1>17 DEF IInv

LEMMA RemoteClosedKeeps == ASSUME NEW p \in Peers PROVE IInv /\ RemoteClosed(p) => IInv'
<1> SUFFICES ASSUME IInv, RemoteClosed(p) PROVE IInv'
  OBVIOUS
<1>1. TypeOK'
  BY DEF IInv, TypeOK, RemoteClosed, callVars
<1>2. Unheard' /\ AnsweredOnce'
  BY DEF IInv, Unheard, AnsweredOnce, RemoteClosed, callVars
<1> QED
  BY <1>1, <1>2 DEF IInv

LEMMA EndKeeps == ASSUME NEW p \in Peers PROVE IInv /\ End(p) => IInv'
<1> SUFFICES ASSUME IInv, End(p) PROVE IInv'
  OBVIOUS
<1> USE DEF End
<1>1. TypeOK'
  BY ConstantTypes DEF IInv, TypeOK
<1>2. \A c \in Calls : call'[c] = "unsent" <=> call[c] = "unsent"
  BY DEF IInv, TypeOK
<1>3. \A q \in Peers : \A j \in Ids : pending'[q][j] # Nobody =>
         pending'[q][j] = pending[q][j] /\ pending[q][j] \in Calls
  BY DEF IInv, TypeOK, NoCalls
<1>4. Unheard'
  BY <1>2, <1>3 DEF IInv, Unheard
<1>5. AnsweredOnce'
  BY DEF IInv, AnsweredOnce
<1> QED
  BY <1>1, <1>4, <1>5 DEF IInv

-------------------------------------------------------------------------------
LEMMA NextKeeps == IInv /\ [Next]_vars => IInv'
<1> SUFFICES ASSUME IInv, [Next]_vars PROVE IInv'
  OBVIOUS
<1>1. CASE UNCHANGED vars
  BY <1>1 DEF vars, IInv, TypeOK, Unheard, AnsweredOnce
<1>2. CASE Couple
  BY <1>2, CoupleKeeps
<1>3. ASSUME NEW k \in Calls, SendUncoupled(k) PROVE IInv'
  BY <1>3, SendUncoupledKeeps
<1>4. ASSUME NEW k \in Calls, SendAction(k) PROVE IInv'
  BY <1>4, SendActionKeeps
<1>5. ASSUME NEW p \in Peers, OnActionRequest(p) PROVE IInv'
  BY <1>5, OnActionRequestKeeps
<1>6. ASSUME NEW p \in Peers, OnStrayResponse(p) PROVE IInv'
  BY <1>6, OnStrayResponseKeeps
<1>7. ASSUME NEW p \in Peers, OnActionResponse(p) PROVE IInv'
  BY <1>7, OnActionResponseKeeps
<1>8. ASSUME NEW p \in Peers, NEW k \in Calls, OnActionResponseAgain(p, k) PROVE IInv'
  BY <1>8, OnActionResponseAgainKeeps
<1>9. ASSUME NEW p \in Peers, Lose(p) PROVE IInv'
  BY <1>9, LoseKeeps
<1>10. ASSUME NEW p \in Peers, RemoteClosed(p) PROVE IInv'
  BY <1>10, RemoteClosedKeeps
<1>11. ASSUME NEW p \in Peers, End(p) PROVE IInv'
  BY <1>11, EndKeeps
<1> QED
  BY <1>1, <1>2, <1>3, <1>4, <1>5, <1>6, <1>7, <1>8, <1>9, <1>10, <1>11 DEF Next

\* IInv is an inductive invariant of the two handlers.
THEOREM InductiveInvariant == Spec => []IInv
<1>1. Init => IInv
  BY Initially
<1>2. IInv /\ [Next]_vars => IInv'
  BY NextKeeps
<1> QED
  BY <1>1, <1>2, PTL DEF Spec

\* The variables of the two handlers keep their types, and a side whose session
\* is over keeps no callback and no message of it: End() destroys the handler.
THEOREM TypeCorrect == Spec => []TypeOK
<1>1. IInv => TypeOK
  BY DEF IInv
<1> QED
  BY <1>1, InductiveInvariant, PTL

\* No callback is called twice, for every set of calls that share any set of
\* ids, across sessions, losses, stray responses and messages sent again from
\* within a callback: onActionResponse() erases what it has called.
THEOREM CalledOnce == Spec => []AnsweredOnce
<1>1. IInv => AnsweredOnce
  BY DEF IInv
<1> QED
  BY <1>1, InductiveInvariant, PTL

-------------------------------------------------------------------------------
(* What becomes of a call.  The messages of a call carry its id and go      *)
(* between its caller and the other side; the verdict is given once, and    *)
(* the response repeats it.                                                 *)

\* The message m, on its way to p, says what is true of its call.
AsSent(m, p) ==
    /\ m.id = requestId[m.k] /\ call[m.k] \in {"sent", "over"}
    /\ m.kind = "Request" => Caller[m.k] = Other(p) /\ verdict[m.k] = "none"
    /\ m.kind = "Response" => /\ Caller[m.k] = p /\ verdict[m.k] # "none"
                              /\ m.flag = (verdict[m.k] = "accepted")

Carried == \A p \in Peers : \A m \in Elements(wire[p]) : AsSent(m, p)

\* No two messages of the queue are requests of one call.
OnceIn(q) == \A a, b \in DOMAIN q :
                 q[a].kind = "Request" /\ q[b].kind = "Request" /\ q[a].k = q[b].k => a = b

AskedOnce == \A p \in Peers : OnceIn(wire[p])

Unasked == \A k \in Calls : call[k] = "unsent" => verdict[k] = "none"

\* A call that is not mixed has its id for itself.
Alone == \A p \in Peers, i \in Ids : \A k, c \in UnderWay(p, i) : k \notin mixed => c = k

InSession == \A k \in Calls : call[k] = "sent" => conn[Caller[k]] # "none"

Traced == Carried /\ AskedOnce /\ Unasked /\ Alone /\ InSession

LEMMA OtherPeer ==
    ASSUME NEW p \in Peers
    PROVE  /\ Other(p) \in Peers /\ Other(p) # p
           /\ \A q \in Peers : q # p => q = Other(p)
<1>1. IsFiniteSet(Peers) /\ Cardinality(Peers) = 2
  BY ActionAssumption
<1>2. IsFiniteSet(Peers \ {p}) /\ Cardinality(Peers \ {p}) = 1
  BY <1>1, FS_RemoveElement
<1>3. PICK q : Peers \ {p} = {q}
  BY <1>2, FS_Singleton
<1>4. q \in Peers /\ q # p /\ \A r \in Peers : r # p => r = q
  BY <1>3
<1>5. Other(p) \in Peers /\ Other(p) # p
  BY <1>4 DEF Other
<1> QED
  BY <1>4, <1>5

LEMMA TailElements ==
    ASSUME NEW s \in Seq(Messages), s # <<>>
    PROVE  /\ Elements(s) = {Head(s)} \cup Elements(Tail(s))
           /\ OnceIn(s) => OnceIn(Tail(s))
           /\ OnceIn(s) /\ Head(s).kind = "Request" =>
                 \A m \in Elements(Tail(s)) : m.kind = "Request" => m.k # Head(s).k
<1>1. /\ Len(s) \in Nat /\ Len(s) >= 1 /\ DOMAIN s = 1..Len(s) /\ Head(s) = s[1]
      /\ Len(Tail(s)) = Len(s) - 1 /\ DOMAIN Tail(s) = 1..(Len(s) - 1)
      /\ \A n \in 1..(Len(s) - 1) : Tail(s)[n] = s[n + 1]
  OBVIOUS
<1>2. ASSUME NEW m \in Elements(Tail(s))
      PROVE  \E n \in DOMAIN s : n # 1 /\ s[n] = m
  <2>1. PICK n \in 1..(Len(s) - 1) : Tail(s)[n] = m
    BY <1>1, <1>2 DEF Elements
  <2> QED
    BY <1>1, <2>1
<1>3. ASSUME NEW n \in DOMAIN s, n # 1
      PROVE  s[n] \in Elements(Tail(s))
  <2>1. n - 1 \in 1..(Len(s) - 1) /\ (n - 1) + 1 = n
    BY <1>1, <1>3
  <2>2. Tail(s)[n - 1] = s[n]
    BY <1>1, <2>1
  <2> QED
    BY <1>1, <2>1, <2>2 DEF Elements
<1>4. Elements(s) = {Head(s)} \cup Elements(Tail(s))
  <2>1. Elements(s) = {s[n] : n \in DOMAIN s}
    BY DEF Elements
  <2>2. 1 \in DOMAIN s /\ s[1] = Head(s)
    BY <1>1
  <2> QED
    BY <1>2, <1>3, <2>1, <2>2
<1>5. ASSUME OnceIn(s) PROVE OnceIn(Tail(s))
  <2>1. ASSUME NEW a \in 1..(Len(s) - 1), NEW b \in 1..(Len(s) - 1),
               s[a + 1].kind = "Request", s[b + 1].kind = "Request", s[a + 1].k = s[b + 1].k
        PROVE  a = b
    <3>1. a + 1 \in DOMAIN s /\ b + 1 \in DOMAIN s
      BY <1>1
    <3>2. a + 1 = b + 1
      BY <2>1, <3>1, <1>5 DEF OnceIn
    <3> QED
      BY <3>2
  <2> QED
    BY <1>1, <2>1 DEF OnceIn
<1>6. ASSUME OnceIn(s), Head(s).kind = "Request",
             NEW m \in Elements(Tail(s)), m.kind = "Request"
      PROVE  m.k # Head(s).k
  <2>1. PICK n \in DOMAIN s : n # 1 /\ s[n] = m
    BY <1>2, <1>6
  <2> QED
    BY <1>1, <1>6, <2>1 DEF OnceIn
<1> QED
  BY <1>4, <1>5, <1>6

LEMMA AppendElements ==
    ASSUME NEW s \in Seq(Messages), NEW msg \in Messages
    PROVE  /\ Elements(Append(s, msg)) = Elements(s) \cup {msg}
           /\ OnceIn(s) /\ (\A m \in Elements(s) : m.kind = "Request" /\ msg.kind = "Request" => m.k # msg.k)
                 => OnceIn(Append(s, msg))
<1> DEFINE t == Append(s, msg)
           l == Len(s)
<1>1. /\ l \in Nat /\ DOMAIN s = 1..l /\ DOMAIN t = 1..(l + 1)
      /\ t[l + 1] = msg /\ \A n \in 1..l : t[n] = s[n]
  OBVIOUS
<1> HIDE DEF t, l
<1>2. \A n \in DOMAIN t : n \in DOMAIN s \/ n = l + 1
  BY <1>1
<1>3. DOMAIN s \subseteq DOMAIN t /\ l + 1 \in DOMAIN t
  BY <1>1
<1>4. Elements(t) = Elements(s) \cup {msg}
  BY <1>1, <1>2, <1>3 DEF Elements
<1>5. ASSUME OnceIn(s), \A m \in Elements(s) : m.kind = "Request" /\ msg.kind = "Request" => m.k # msg.k
      PROVE  OnceIn(t)
  <2>1. ASSUME NEW a \in DOMAIN t, NEW b \in DOMAIN t,
               t[a].kind = "Request", t[b].kind = "Request", t[a].k = t[b].k
        PROVE  a = b
    <3>1. CASE a \in DOMAIN s /\ b \in DOMAIN s
      BY <3>1, <2>1, <1>1, <1>5 DEF OnceIn
    <3>2. CASE a \in DOMAIN s /\ b = l + 1
      <4>1. s[a] \in Elements(s) /\ t[a] = s[a] /\ t[b] = msg
        BY <3>2, <1>1 DEF Elements
      <4> QED
        BY <4>1, <2>1, <1>5
    <3>3. CASE a = l + 1 /\ b \in DOMAIN s
      <4>1. s[b] \in Elements(s) /\ t[b] = s[b] /\ t[a] = msg
        BY <3>3, <1>1 DEF Elements
      <4> QED
        BY <4>1, <2>1, <1>5
    <3> QED
      BY <3>1, <3>2, <3>3, <1>2
  <2> QED
    BY <2>1 DEF OnceIn
<1> QED
  BY <1>4, <1>5 DEF t

\* What p writes is on the wire of the other side, or nowhere.
LEMMA WireWithIs ==
    ASSUME NEW w \in [Peers -> Seq(Messages)], NEW p \in Peers, NEW msg
    PROVE  \A q \in Peers : WireWith(w, p, msg)[q] = IF q # p /\ conn[q] = "connected"
                                                     THEN Append(w[q], msg) ELSE w[q]
BY OtherPeer DEF WireWith

LEMMA ConcatElements ==
    ASSUME NEW w \in [Peers -> Seq(Messages)], NEW p \in Peers
    PROVE  \A m : m \in Elements(w[p] \o w[Other(p)]) <=> \E q \in Peers : m \in Elements(w[q])
<1> DEFINE s == w[p]
           t == w[Other(p)]
<1>1. s \in Seq(Messages) /\ t \in Seq(Messages)
  BY OtherPeer
<1>2. /\ Len(s) \in Nat /\ Len(t) \in Nat /\ DOMAIN s = 1..Len(s) /\ DOMAIN t = 1..Len(t)
      /\ DOMAIN (s \o t) = 1..(Len(s) + Len(t))
      /\ \A n \in 1..Len(s) : (s \o t)[n] = s[n]
      /\ \A n \in 1..Len(t) : (s \o t)[Len(s) + n] = t[n]
  BY <1>1
<1>3. \A q \in Peers : q = p \/ q = Other(p)
  BY OtherPeer
<1> HIDE DEF s, t
<1>4. ASSUME NEW n \in DOMAIN (s \o t)
      PROVE  (s \o t)[n] \in Elements(s) \cup Elements(t)
  <2>1. CASE n <= Len(s)
    BY <1>2, <2>1 DEF Elements
  <2>2. CASE n > Len(s)
    <3>1. n - Len(s) \in 1..Len(t) /\ Len(s) + (n - Len(s)) = n
      BY <1>2, <2>2
    <3>2. (s \o t)[n] = t[n - Len(s)]
      BY <1>2, <3>1
    <3> QED
      BY <1>2, <3>1, <3>2 DEF Elements
  <2> QED
    BY <1>2, <2>1, <2>2
<1>5. ASSUME NEW m \in Elements(s) \cup Elements(t)
      PROVE  \E n \in DOMAIN (s \o t) : (s \o t)[n] = m
  <2>1. CASE m \in Elements(s)
    <3>1. PICK n \in 1..Len(s) : s[n] = m
      BY <1>2, <2>1 DEF Elements
    <3> QED
      BY <1>2, <3>1
  <2>2. CASE m \in Elements(t)
    <3>1. PICK n \in 1..Len(t) : t[n] = m
      BY <1>2, <2>2 DEF Elements
    <3>2. Len(s) + n \in 1..(Len(s) + Len(t))
      BY <1>2
    <3> QED
      BY <1>2, <3>1, <3>2
  <2> QED
    BY <2>1, <2>2
<1>6. Elements(s \o t) = Elements(s) \cup Elements(t)
  BY <1>4, <1>5 DEF Elements
<1>7. \A q \in Peers : w[q] = s \/ w[q] = t
  BY <1>3 DEF s, t
<1>8. s = w[p] /\ t = w[Other(p)] /\ Other(p) \in Peers
  BY OtherPeer DEF s, t
<1> QED
  BY <1>6, <1>7, <1>8

\* A call is under way when its callback waits or a message of it travels.
Travels(w, k, i) == \E q \in Peers : \E m \in Elements(w[q]) : m.k = k /\ m.id = i

LEMMA UnderWayIs ==
    ASSUME TypeOK, NEW p \in Peers, NEW i \in Ids
    PROVE  UnderWay(p, i) = {k \in Calls : /\ Caller[k] = p
                                           /\ pending[p][i] = k \/ Travels(wire, k, i)}
<1>1. wire \in [Peers -> Seq(Messages)]
  BY DEF TypeOK
<1>2. \A m : m \in Elements(wire[p] \o wire[Other(p)]) <=> \E q \in Peers : m \in Elements(wire[q])
  BY <1>1, ConcatElements
<1> QED
  BY <1>2 DEF UnderWay, Travels

LEMMA UnderWayThen ==
    ASSUME TypeOK', NEW p \in Peers, NEW i \in Ids
    PROVE  UnderWay(p, i)' = {k \in Calls : /\ Caller[k] = p
                                            /\ pending'[p][i] = k \/ Travels(wire', k, i)}
<1>1. wire' \in [Peers -> Seq(Messages)]
  BY DEF TypeOK
<1>2. \A m : m \in Elements(wire'[p] \o wire'[Other(p)]) <=> \E q \in Peers : m \in Elements(wire'[q])
  BY <1>1, ConcatElements
<1> QED
  BY <1>2 DEF UnderWay, Travels

\* The messages on the wires belong to calls.
LEMMA ElementsType ==
    ASSUME NEW w \in [Peers -> Seq(Messages)], NEW q \in Peers, NEW m \in Elements(w[q])
    PROVE  m \in Messages /\ m.k \in Calls /\ m.id \in Ids /\ m.kind \in {"Request", "Response"}
<1>1. w[q] \in Seq(Messages)
  OBVIOUS
<1>2. m \in Messages
  BY <1>1 DEF Elements
<1> QED
  BY <1>2 DEF Messages

\* Ids stay alone as long as no call is made.
LEMMA AloneStays ==
    ASSUME TypeOK, TypeOK', Alone, mixed' = mixed,
           \A q \in Peers, j \in Ids : pending'[q][j] \in {pending[q][j], Nobody},
           \A k \in Calls, i \in Ids : Travels(wire', k, i) => Travels(wire, k, i)
    PROVE  Alone'
<1>1. ASSUME NEW p \in Peers, NEW i \in Ids, NEW k \in UnderWay(p, i)'
      PROVE  k \in UnderWay(p, i)
  <2>1. k \in Calls /\ Caller[k] = p /\ (pending'[p][i] = k \/ Travels(wire', k, i))
    BY <1>1, UnderWayThen
  <2>2. pending[p][i] = k \/ Travels(wire, k, i)
    BY <2>1, ConstantTypes
  <2> QED
    BY <2>1, <2>2, UnderWayIs
<1> QED
  BY <1>1 DEF Alone

\* The call k is noted with the id i: it is alone, or it mixes all that share i.
LEMMA AloneNoted ==
    ASSUME IInv, TypeOK', Alone, Carried, NEW k \in Calls, NEW i \in Ids,
           Numbered(k, i), call[k] = "unsent",
           \A q \in Peers, j \in Ids :
               pending'[q][j] \in {pending[q][j], Nobody} \/ (q = Caller[k] /\ j = i /\ pending'[q][j] = k),
           \A c \in Calls, j \in Ids :
               Travels(wire', c, j) => Travels(wire, c, j) \/ (c = k /\ j = i)
    PROVE  Alone'
<1> DEFINE U == UnderWay(Caller[k], i)
<1>0. Caller[k] \in Peers /\ TypeOK
  BY ConstantTypes DEF IInv
<1>1. ASSUME NEW p \in Peers, NEW j \in Ids, NEW c \in UnderWay(p, j)'
      PROVE  /\ c \in Calls
             /\ c \in UnderWay(p, j) \/ (p = Caller[k] /\ j = i /\ c = k)
  <2>1. c \in Calls /\ Caller[c] = p /\ (pending'[p][j] = c \/ Travels(wire', c, j))
    BY <1>1, UnderWayThen
  <2>2. \/ pending[p][j] = c \/ Travels(wire, c, j)
        \/ c = k /\ j = i
    BY <2>1, ConstantTypes
  <2> QED
    BY <2>1, <2>2, <1>0, UnderWayIs
<1>2. mixed' = IF U = {} THEN mixed ELSE mixed \cup U \cup {k}
  BY DEF Numbered
<1>3. ASSUME NEW p \in Peers, NEW j \in Ids,
             NEW c \in UnderWay(p, j)', NEW d \in UnderWay(p, j)', c \notin mixed'
      PROVE  d = c
  <2>1. CASE p = Caller[k] /\ j = i
    <3>1. CASE U = {}
      BY <2>1, <3>1, <1>1
    <3>2. CASE U # {}
      BY <2>1, <3>2, <1>1, <1>2, <1>3
    <3> QED
      BY <3>1, <3>2
  <2>2. CASE ~(p = Caller[k] /\ j = i)
    <3>1. c \in UnderWay(p, j) /\ d \in UnderWay(p, j)
      BY <2>2, <1>1
    <3>2. c \notin mixed
      BY <1>2, <1>3
    <3> QED
      BY <3>1, <3>2 DEF Alone
  <2> QED
    BY <2>1, <2>2
<1> QED
  BY <1>3 DEF Alone

\* The messages that stay on the wires say what is still true.
LEMMA CarriedStays ==
    ASSUME Carried,
           \A p \in Peers : \A m \in Elements(wire'[p]) :
               \/ /\ m \in Elements(wire[p])
                  /\ call[m.k] \in {"sent", "over"} => call'[m.k] \in {"sent", "over"}
                  /\ requestId'[m.k] = requestId[m.k] /\ verdict'[m.k] = verdict[m.k]
               \/ AsSent(m, p)'
    PROVE  Carried'
<1>1. ASSUME NEW p \in Peers, NEW m \in Elements(wire'[p]) PROVE AsSent(m, p)'
  <2>1. CASE /\ m \in Elements(wire[p])
             /\ call[m.k] \in {"sent", "over"} => call'[m.k] \in {"sent", "over"}
             /\ requestId'[m.k] = requestId[m.k] /\ verdict'[m.k] = verdict[m.k]
    <3>1. AsSent(m, p)
      BY <2>1 DEF Carried
    <3> QED
      BY <2>1, <3>1 DEF AsSent
  <2> QED
    BY <1>1, <2>1
<1> QED
  BY <1>1 DEF Carried

\* What does not travel and is not unsent may be left out.
LEMMA TravelsLess ==
    ASSUME \A p \in Peers : Elements(wire'[p]) \subseteq Elements(wire[p])
    PROVE  \A k \in Calls, i \in Ids : Travels(wire', k, i) => Travels(wire, k, i)
BY DEF Travels

\* A step that only takes messages, callbacks and sessions away.
LEMMA TakenAway ==
    ASSUME Traced, TypeOK, TypeOK', UNCHANGED requestId, UNCHANGED mixed, UNCHANGED verdict,
           \A q \in Peers, j \in Ids : pending'[q][j] \in {pending[q][j], Nobody},
           \A q \in Peers : wire'[q] \in {wire[q], <<>>} \/ (wire[q] # <<>> /\ wire'[q] = Tail(wire[q])),
           \A k \in Calls : /\ call[k] \in {"sent", "over"} => call'[k] \in {"sent", "over"}
                            /\ call'[k] = "unsent" => call[k] = "unsent"
                            /\ call'[k] = "sent" => call[k] = "sent" /\ (conn[Caller[k]] # "none" => conn'[Caller[k]] # "none")
    PROVE  Traced'
<1>1. ASSUME NEW q \in Peers
      PROVE  Elements(wire'[q]) \subseteq Elements(wire[q]) /\ OnceIn(wire'[q])
  <2>1. wire[q] \in Seq(Messages) /\ OnceIn(wire[q])
    BY DEF TypeOK, Traced, AskedOnce
  <2>2. CASE wire'[q] = wire[q]
    BY <2>1, <2>2
  <2>3. CASE wire'[q] = <<>>
    BY <2>3 DEF Elements, OnceIn
  <2>4. CASE wire[q] # <<>> /\ wire'[q] = Tail(wire[q])
    BY <2>1, <2>4, TailElements
  <2> QED
    BY <2>2, <2>3, <2>4
<1>2. Carried'
  <2>1. ASSUME NEW p \in Peers, NEW m \in Elements(wire'[p])
        PROVE  /\ m \in Elements(wire[p])
               /\ call[m.k] \in {"sent", "over"} => call'[m.k] \in {"sent", "over"}
               /\ requestId'[m.k] = requestId[m.k] /\ verdict'[m.k] = verdict[m.k]
    <3>1. m \in Elements(wire[p]) /\ wire \in [Peers -> Seq(Messages)]
      BY <1>1 DEF TypeOK
    <3>2. m.k \in Calls
      BY <3>1, ElementsType
    <3> QED
      BY <3>1, <3>2
  <2> QED
    BY <2>1, CarriedStays DEF Traced
<1>3. AskedOnce'
  BY <1>1 DEF AskedOnce
<1>4. Unasked' /\ InSession'
  BY DEF Traced, Unasked, InSession
<1>5. Alone'
  BY <1>1, TravelsLess, AloneStays DEF Traced
<1> QED
  BY <1>2, <1>3, <1>4, <1>5 DEF Traced

(* The actions, one by one. *)

LEMMA CoupleTraced == ASSUME Traced, IInv, IInv', Couple PROVE Traced'
<1>1. \A q \in Peers : conn'[q] = "connected"
  BY DEF Couple
<1>2. UNCHANGED <<pending, wire, call, requestId, mixed, verdict>>
  BY DEF Couple, callVars
<1> QED
  BY <1>1, <1>2, ConstantTypes, TakenAway DEF IInv

LEMMA SendUncoupledTraced ==
    ASSUME Traced, IInv, IInv', NEW k \in Calls, SendUncoupled(k) PROVE Traced'
<1>1. UNCHANGED <<conn, pending, wire, requestId, mixed, verdict>> /\ call[k] = "unsent"
  BY DEF SendUncoupled
<1>2. call'[k] = "uncoupled" /\ \A c \in Calls : c # k => call'[c] = call[c]
  BY DEF SendUncoupled, IInv, TypeOK
<1> QED
  BY <1>1, <1>2, TakenAway DEF IInv

LEMMA DropTraced ==
    ASSUME Traced, IInv, IInv', NEW p \in Peers, wire[p] # <<>>,
           wire' = [wire EXCEPT ![p] = Tail(@)],
           \A q \in Peers, j \in Ids : pending'[q][j] \in {pending[q][j], Nobody},
           UNCHANGED conn, UNCHANGED call, UNCHANGED requestId, UNCHANGED mixed, UNCHANGED verdict
    PROVE  Traced'
<1>1. \A q \in Peers : wire'[q] = wire[q] \/ (wire[q] # <<>> /\ wire'[q] = Tail(wire[q]))
  BY DEF IInv, TypeOK
<1> QED
  BY <1>1, TakenAway DEF IInv

LEMMA OnStrayResponseTraced ==
    ASSUME Traced, IInv, IInv', NEW p \in Peers, OnStrayResponse(p) PROVE Traced'
BY DropTraced DEF OnStrayResponse, Receives, callVars

LEMMA LoseTraced == ASSUME Traced, IInv, IInv', NEW p \in Peers, Lose(p) PROVE Traced'
BY DropTraced DEF Lose, callVars

LEMMA OnActionResponseTraced ==
    ASSUME Traced, IInv, IInv', NEW p \in Peers, OnActionResponse(p) PROVE Traced'
<1> DEFINE i == Head(wire[p]).id
<1>1. /\ wire[p] # <<>> /\ wire' = [wire EXCEPT ![p] = Tail(@)]
      /\ pending' = [pending EXCEPT ![p] = Erased(@, i)]
      /\ UNCHANGED <<conn, call, requestId, mixed, verdict>>
  BY DEF OnActionResponse, Receives, callVars
<1>2. i \in Ids /\ pending \in [Peers -> [Ids -> Calls \cup {Nobody}]]
  BY <1>1, HeadType DEF IInv, TypeOK
<1>3. \A j \in Ids : Erased(pending[p], i)[j] \in {pending[p][j], Nobody}
  BY <1>2, ErasedType
<1>4. \A q \in Peers, j \in Ids : pending'[q][j] \in {pending[q][j], Nobody}
  BY <1>1, <1>2, <1>3
<1> QED
  BY <1>1, <1>4, DropTraced

LEMMA RemoteClosedTraced ==
    ASSUME Traced, IInv, IInv', NEW p \in Peers, RemoteClosed(p) PROVE Traced'
<1>1. /\ UNCHANGED <<pending, call, requestId, mixed, verdict>>
      /\ conn' = [conn EXCEPT ![p] = "unconnected"]
      /\ wire' = [wire EXCEPT ![p] = <<>>]
  BY DEF RemoteClosed, callVars
<1>2. \A q \in Peers : (conn[q] # "none" => conn'[q] # "none") /\ wire'[q] \in {wire[q], <<>>}
  BY <1>1 DEF IInv, TypeOK
<1> QED
  BY <1>1, <1>2, ConstantTypes, TakenAway DEF IInv

LEMMA EndTraced == ASSUME Traced, IInv, IInv', NEW p \in Peers, End(p) PROVE Traced'
<1>1. /\ UNCHANGED <<requestId, mixed, verdict>>
      /\ conn' = [conn EXCEPT ![p] = "none"]
      /\ pending' = [pending EXCEPT ![p] = NoCalls]
      /\ wire' = [wire EXCEPT ![p] = <<>>]
      /\ call' = [k \in Calls |-> IF Caller[k] = p /\ call[k] \in {"sent", "failed"}
                                  THEN "over" ELSE call[k]]
  BY DEF End
<1>2. \A q \in Peers : wire'[q] \in {wire[q], <<>>}
  BY <1>1 DEF IInv, TypeOK
<1>3. \A q \in Peers, j \in Ids : pending'[q][j] \in {pending[q][j], Nobody}
  BY <1>1 DEF IInv, TypeOK, NoCalls
<1>4. ASSUME NEW k \in Calls
      PROVE  /\ call[k] \in {"sent", "over"} => call'[k] \in {"sent", "over"}
             /\ call'[k] = "unsent" => call[k] = "unsent"
             /\ call'[k] = "sent" => call[k] = "sent" /\ conn'[Caller[k]] = conn[Caller[k]]
  BY <1>1, ConstantTypes DEF IInv, TypeOK
<1> QED
  BY <1>1, <1>2, <1>3, <1>4, TakenAway DEF IInv

\* The request of a call that was not made is new everywhere.
LEMMA NewToAll ==
    ASSUME Traced, IInv, NEW k \in Calls, call[k] = "unsent"
    PROVE  /\ \A q \in Peers : \A m \in Elements(wire[q]) : m.k # k
           /\ \A q \in Peers, j \in Ids : pending[q][j] # k
           /\ verdict[k] = "none"
<1>1. \A q \in Peers : \A m \in Elements(wire[q]) : m.k # k
  BY DEF Traced, Carried, AsSent
<1>2. \A q \in Peers, j \in Ids : pending[q][j] # k
  BY ConstantTypes DEF IInv, Unheard
<1> QED
  BY <1>1, <1>2 DEF Traced, Unasked

\* A call is made: sendAction(), or a callback that sends its message again;
\* w is what is on the wires without the message that was read before.
Made(w, k, i, known) ==
    /\ w \in [Peers -> Seq(Messages)]
    /\ \A q \in Peers : Elements(w[q]) \subseteq Elements(wire[q]) /\ OnceIn(w[q])
    /\ call[k] = "unsent" /\ conn[Caller[k]] # "none" /\ Numbered(k, i)
    /\ \/ wire' = w /\ call' = [call EXCEPT ![k] = "failed"]
       \/ /\ wire' = WireWith(w, Caller[k], Request(k, i, known))
          /\ call' = [call EXCEPT ![k] = "sent"]
    /\ \A q \in Peers, j \in Ids :
           pending'[q][j] \in {pending[q][j], Nobody} \/ (q = Caller[k] /\ j = i /\ pending'[q][j] = k)
    /\ conn' = conn /\ verdict' = verdict

LEMMA MadeTraced ==
    ASSUME Traced, IInv, IInv', NEW k \in Calls, NEW i \in Ids, NEW known \in BOOLEAN, NEW w,
           Made(w, k, i, known)
    PROVE  Traced'
<1> USE DEF Made
<1> DEFINE msg == Request(k, i, known)
<1>1. /\ msg \in Messages /\ msg.kind = "Request" /\ msg.k = k /\ msg.id = i
      /\ Caller[k] \in Peers
  BY ConstantTypes DEF Request, Messages
<1>2. /\ \A q \in Peers : \A m \in Elements(wire[q]) : m.k # k
      /\ verdict[k] = "none"
  BY NewToAll
<1>3. /\ requestId'[k] = i /\ call'[k] \in {"sent", "failed"}
      /\ \A c \in Calls : c # k => requestId'[c] = requestId[c] /\ call'[c] = call[c]
  BY DEF Numbered, IInv, TypeOK
<1>4. ASSUME NEW q \in Peers
      PROVE  /\ OnceIn(wire'[q])
             /\ \A m \in Elements(wire'[q]) :
                   \/ m \in Elements(wire[q]) /\ m.k # k
                   \/ m = msg /\ call'[k] = "sent" /\ q # Caller[k]
  <2>1. CASE wire'[q] = w[q]
    BY <2>1, <1>2
  <2>2. CASE wire'[q] = Append(w[q], msg) /\ q # Caller[k] /\ call'[k] = "sent"
    <3>1. w[q] \in Seq(Messages)
      OBVIOUS
    <3>2. /\ Elements(Append(w[q], msg)) = Elements(w[q]) \cup {msg}
          /\ OnceIn(w[q]) /\ (\A m \in Elements(w[q]) : m.kind = "Request" /\ msg.kind = "Request" => m.k # msg.k)
                => OnceIn(Append(w[q], msg))
      BY <3>1, <1>1, AppendElements
    <3> HIDE DEF msg
    <3> QED
      BY <2>2, <3>2, <1>1, <1>2
  <2>3. wire'[q] = w[q] \/ (wire'[q] = Append(w[q], msg) /\ q # Caller[k] /\ call'[k] = "sent")
    <3>1. CASE wire' = w
      BY <3>1
    <3>2. CASE wire' = WireWith(w, Caller[k], msg) /\ call' = [call EXCEPT ![k] = "sent"]
      <4>1. call'[k] = "sent"
        BY <3>2 DEF IInv, TypeOK
      <4>2. w \in [Peers -> Seq(Messages)]
        OBVIOUS
      <4> HIDE DEF msg, Made
      <4>3. WireWith(w, Caller[k], msg)[q] = IF q # Caller[k] /\ conn[q] = "connected"
                                             THEN Append(w[q], msg) ELSE w[q]
        <5>1. \A r \in Peers : WireWith(w, Caller[k], msg)[r] = IF r # Caller[k] /\ conn[r] = "connected"
                                                                THEN Append(w[r], msg) ELSE w[r]
          BY <1>1, <4>2, WireWithIs
        <5> QED
          BY <5>1
      <4> QED
        BY <3>2, <4>1, <4>3
    <3> QED
      BY <3>1, <3>2
  <2> QED
    BY <2>1, <2>2, <2>3
<1>5. ASSUME NEW q \in Peers, q # Caller[k], call'[k] = "sent"
      PROVE  AsSent(msg, q)'
  <2>1. Caller[k] = Other(q)
    BY <1>1, <1>5, OtherPeer
  <2>2. msg' = msg
    BY DEF Request
  <2> HIDE DEF msg
  <2> QED
    BY <2>1, <2>2, <1>1, <1>2, <1>3, <1>5 DEF AsSent
<1>6. Carried'
  <2>1. ASSUME NEW q \in Peers, NEW m \in Elements(wire'[q])
        PROVE  \/ /\ m \in Elements(wire[q])
                  /\ call[m.k] \in {"sent", "over"} => call'[m.k] \in {"sent", "over"}
                  /\ requestId'[m.k] = requestId[m.k] /\ verdict'[m.k] = verdict[m.k]
               \/ AsSent(m, q)'
    <3>1. CASE m \in Elements(wire[q]) /\ m.k # k
      <4>1. m.k \in Calls
        BY <3>1, ElementsType DEF IInv, TypeOK
      <4> QED
        BY <3>1, <4>1, <1>3
    <3>2. CASE m = msg /\ call'[k] = "sent" /\ q # Caller[k]
      <4>1. AsSent(msg, q)'
        BY <3>2, <1>5
      <4>2. m = msg'
        BY <3>2 DEF Request
      <4> QED
        BY <4>1, <4>2, <3>2 DEF AsSent
    <3> QED
      BY <3>1, <3>2, <1>4
  <2> QED
    BY <2>1, CarriedStays DEF Traced
<1>7. AskedOnce'
  BY <1>4 DEF AskedOnce
<1>8. Unasked' /\ InSession'
  BY <1>3 DEF Traced, Unasked, InSession
<1>9. ASSUME NEW c \in Calls, NEW j \in Ids, Travels(wire', c, j)
      PROVE  Travels(wire, c, j) \/ (c = k /\ j = i)
  <2>1. PICK q \in Peers : \E m \in Elements(wire'[q]) : m.k = c /\ m.id = j
    BY <1>9 DEF Travels
  <2>2. PICK m \in Elements(wire'[q]) : m.k = c /\ m.id = j
    BY <2>1
  <2>3. CASE m \in Elements(wire[q])
    BY <2>2, <2>3 DEF Travels
  <2>4. CASE m = msg
    BY <2>2, <2>4, <1>1
  <2> QED
    BY <2>3, <2>4, <1>4
<1>10. Alone'
  BY <1>9, AloneNoted DEF Traced, IInv
<1> QED
  BY <1>6, <1>7, <1>8, <1>10 DEF Traced

LEMMA SendActionTraced ==
    ASSUME Traced, IInv, IInv', NEW k \in Calls, SendAction(k) PROVE Traced'
<1> DEFINE p == Caller[k]
<1>0. p \in Peers
  BY ConstantTypes
<1>1. PICK i \in Ids, known \in BOOLEAN :
         /\ Numbered(k, i)
         /\ pending' = [pending EXCEPT ![p] = Entered(@, i, k)]
         /\ IF conn[p] = "connected"
            THEN /\ wire' = WireWith(wire, p, Request(k, i, known))
                 /\ call' = [call EXCEPT ![k] = "sent"]
            ELSE /\ call' = [call EXCEPT ![k] = "failed"]
                 /\ UNCHANGED wire
  BY DEF SendAction
<1>2. call[k] = "unsent" /\ conn[p] # "none" /\ UNCHANGED conn /\ UNCHANGED verdict
  BY DEF SendAction
<1>3. \/ wire' = wire /\ call' = [call EXCEPT ![k] = "failed"]
      \/ /\ wire' = WireWith(wire, p, Request(k, i, known))
         /\ call' = [call EXCEPT ![k] = "sent"]
  BY <1>1
<1>4. /\ pending \in [Peers -> [Ids -> Calls \cup {Nobody}]]
      /\ wire \in [Peers -> Seq(Messages)]
  BY DEF IInv, TypeOK
<1>5. \A j \in Ids : \/ Entered(pending[p], i, k)[j] = pending[p][j]
                     \/ j = i /\ Entered(pending[p], i, k)[j] = k
  BY <1>0, <1>4, EnteredType
<1>6. \A q \in Peers, j \in Ids :
         pending'[q][j] \in {pending[q][j], Nobody} \/ (q = p /\ j = i /\ pending'[q][j] = k)
  BY <1>0, <1>1, <1>4, <1>5
<1>7. \A q \in Peers : Elements(wire[q]) \subseteq Elements(wire[q]) /\ OnceIn(wire[q])
  BY DEF Traced, AskedOnce
<1>8. Numbered(k, i)
  BY <1>1
<1>9. Made(wire, k, i, known)
  BY <1>2, <1>3, <1>4, <1>6, <1>7, <1>8 DEF Made
<1> QED
  BY <1>9, MadeTraced

\* The wire without the message that p reads.
LEMMA ReadIs ==
    ASSUME IInv, AskedOnce, NEW p \in Peers, wire[p] # <<>>
    PROVE  LET read == [wire EXCEPT ![p] = Tail(@)]
           IN  /\ read \in [Peers -> Seq(Messages)]
               /\ \A q \in Peers : Elements(read[q]) \subseteq Elements(wire[q]) /\ OnceIn(read[q])
               /\ \A q \in Peers : \A m \in Elements(wire[q]) :
                     m \in Elements(read[q]) \/ (q = p /\ m = Head(wire[p]))
<1> DEFINE read == [wire EXCEPT ![p] = Tail(@)]
<1>1. wire \in [Peers -> Seq(Messages)] /\ Tail(wire[p]) \in Seq(Messages)
  BY HeadType DEF IInv, TypeOK
<1>2. /\ Elements(wire[p]) = {Head(wire[p])} \cup Elements(Tail(wire[p]))
      /\ OnceIn(wire[p]) => OnceIn(Tail(wire[p]))
  BY <1>1, TailElements
<1>3. read[p] = Tail(wire[p]) /\ \A q \in Peers : q # p => read[q] = wire[q]
  BY <1>1
<1>4. read \in [Peers -> Seq(Messages)]
  BY <1>1
<1> QED
  BY <1>2, <1>3, <1>4 DEF AskedOnce

LEMMA OnActionResponseAgainTraced ==
    ASSUME Traced, IInv, IInv', NEW p \in Peers, NEW k \in Calls, OnActionResponseAgain(p, k)
    PROVE  Traced'
<1> DEFINE read == [wire EXCEPT ![p] = Tail(@)]
<1>1. PICK m : m = Head(wire[p])
  OBVIOUS
<1>2. /\ conn[p] = "connected" /\ wire[p] # <<>> /\ Caller[k] = p /\ call[k] = "unsent"
      /\ pending' = [pending EXCEPT ![p] = Erased(Entered(@, m.id, k), m.id)]
      /\ Numbered(k, m.id)
      /\ wire' = WireWith(read, p, Request(k, m.id, TRUE))
      /\ call' = [call EXCEPT ![k] = "sent"]
      /\ UNCHANGED conn /\ UNCHANGED verdict
  BY <1>1 DEF OnActionResponseAgain, Receives
<1>3. m.id \in Ids
  BY <1>1, <1>2, HeadType DEF IInv
<1>4. /\ read \in [Peers -> Seq(Messages)]
      /\ \A q \in Peers : Elements(read[q]) \subseteq Elements(wire[q]) /\ OnceIn(read[q])
  BY <1>2, ReadIs DEF Traced
<1>5. pending \in [Peers -> [Ids -> Calls \cup {Nobody}]]
  BY DEF IInv, TypeOK
<1>6. /\ Entered(pending[p], m.id, k) \in [Ids -> Calls \cup {Nobody}]
      /\ \A j \in Ids : \/ Entered(pending[p], m.id, k)[j] = pending[p][j]
                        \/ j = m.id /\ Entered(pending[p], m.id, k)[j] = k
  BY <1>3, <1>5, EnteredType
<1>7. \A j \in Ids : \/ Erased(Entered(pending[p], m.id, k), m.id)[j] \in {pending[p][j], Nobody}
                     \/ j = m.id /\ Erased(Entered(pending[p], m.id, k), m.id)[j] = k
  BY <1>3, <1>6, ErasedType
<1>8. \A q \in Peers, j \in Ids :
         pending'[q][j] \in {pending[q][j], Nobody} \/ (q = p /\ j = m.id /\ pending'[q][j] = k)
  BY <1>2, <1>5, <1>7
<1> HIDE DEF read
<1>9. conn[Caller[k]] # "none" /\ wire' = WireWith(read, Caller[k], Request(k, m.id, TRUE))
  BY <1>2
<1>10. \A q \in Peers, j \in Ids :
          pending'[q][j] \in {pending[q][j], Nobody} \/ (q = Caller[k] /\ j = m.id /\ pending'[q][j] = k)
  BY <1>2, <1>8
<1>11. Made(read, k, m.id, TRUE)
  BY <1>2, <1>4, <1>9, <1>10 DEF Made
<1> QED
  BY <1>3, <1>11, MadeTraced

LEMMA OnActionRequestTraced ==
    ASSUME Traced, IInv, IInv', NEW p \in Peers, OnActionRequest(p) PROVE Traced'
<1> DEFINE read == [wire EXCEPT ![p] = Tail(@)]
<1>1. PICK m : m = Head(wire[p])
  OBVIOUS
<1>2. wire[p] # <<>> /\ m.kind = "Request" /\ UNCHANGED <<conn, pending, call, requestId, mixed>>
  BY <1>1 DEF OnActionRequest, Receives, callVars
<1>3. m \in Messages /\ m.k \in Calls /\ m.id \in Ids /\ m.flag \in BOOLEAN /\ m \in Elements(wire[p])
  BY <1>1, <1>2, HeadType, TailElements DEF IInv, TypeOK
<1>4. PICK accepted \in IF m.flag THEN BOOLEAN ELSE {FALSE} :
         /\ verdict' = [verdict EXCEPT ![m.k] = IF accepted THEN "accepted" ELSE "rejected"]
         /\ wire' = WireWith(read, p, Response(m.k, m.id, accepted))
  BY <1>1 DEF OnActionRequest
<1>5. accepted \in BOOLEAN
  BY <1>3, <1>4
<1>6. PICK answer : answer = Response(m.k, m.id, accepted)
  OBVIOUS
<1>7. /\ answer \in Messages /\ answer.kind = "Response" /\ answer.k = m.k /\ answer.id = m.id
      /\ answer.flag = accepted
  BY <1>3, <1>5, <1>6 DEF Response, Messages
<1>8. /\ read \in [Peers -> Seq(Messages)]
      /\ \A q \in Peers : Elements(read[q]) \subseteq Elements(wire[q]) /\ OnceIn(read[q])
      /\ read[p] = Tail(wire[p])
  BY <1>2, ReadIs DEF Traced, IInv, TypeOK
<1>9. /\ verdict'[m.k] = IF accepted THEN "accepted" ELSE "rejected"
      /\ \A c \in Calls : c # m.k => verdict'[c] = verdict[c]
  BY <1>3, <1>4 DEF IInv, TypeOK
<1>10. AsSent(m, p) /\ Caller[m.k] = Other(p)
  BY <1>2, <1>3 DEF Traced, Carried, AsSent
\* No other message of the call is on its way.
<1>11. ASSUME NEW q \in Peers, NEW n \in Elements(read[q]) PROVE n.k # m.k
  <2>1. n \in Elements(wire[q]) /\ n.kind \in {"Request", "Response"} /\ AsSent(n, q)
    BY <1>8, <1>11, ElementsType DEF IInv, TypeOK, Traced, Carried
  <2>2. CASE n.kind = "Response"
    BY <2>1, <2>2, <1>2, <1>10 DEF AsSent
  <2>3. CASE n.kind = "Request" /\ q = p
    <3>1. wire[p] \in Seq(Messages) /\ OnceIn(wire[p])
      BY DEF IInv, TypeOK, Traced, AskedOnce
    <3>2. \A o \in Elements(Tail(wire[p])) : o.kind = "Request" => o.k # m.k
      BY <3>1, <1>1, <1>2, TailElements
    <3> QED
      BY <2>3, <3>2, <1>8, <1>11
  <2>4. CASE n.kind = "Request" /\ q # p
    <3>1. Other(q) = p /\ Other(p) # p
      BY <2>4, OtherPeer
    <3> QED
      BY <2>1, <2>4, <3>1, <1>10 DEF AsSent
  <2> QED
    BY <2>1, <2>2, <2>3, <2>4
<1> HIDE DEF read
<1>12. ASSUME NEW q \in Peers
       PROVE  /\ OnceIn(wire'[q])
              /\ \A n \in Elements(wire'[q]) :
                    n \in Elements(read[q]) \/ (n = answer /\ q # p)
  <2>1. wire'[q] = IF q # p /\ conn[q] = "connected" THEN Append(read[q], answer) ELSE read[q]
    BY <1>4, <1>6, <1>8, WireWithIs
  <2>2. read[q] \in Seq(Messages)
    BY <1>8
  <2>3. /\ Elements(Append(read[q], answer)) = Elements(read[q]) \cup {answer}
        /\ OnceIn(read[q]) => OnceIn(Append(read[q], answer))
    BY <2>2, <1>7, AppendElements
  <2> QED
    BY <2>1, <2>3, <1>8
<1>13. ASSUME NEW q \in Peers, q # p PROVE AsSent(answer, q)'
  <2>1. Caller[m.k] = q
    BY <1>10, <1>13, OtherPeer
  <2> QED
    BY <2>1, <1>2, <1>5, <1>7, <1>9, <1>10 DEF AsSent
<1>14. Carried'
  <2>1. ASSUME NEW q \in Peers, NEW n \in Elements(wire'[q])
        PROVE  \/ /\ n \in Elements(wire[q])
                  /\ call[n.k] \in {"sent", "over"} => call'[n.k] \in {"sent", "over"}
                  /\ requestId'[n.k] = requestId[n.k] /\ verdict'[n.k] = verdict[n.k]
               \/ AsSent(n, q)'
    <3>1. CASE n \in Elements(read[q])
      <4>1. n \in Elements(wire[q]) /\ n.k \in Calls /\ n.k # m.k
        BY <3>1, <1>8, <1>11, ElementsType DEF IInv, TypeOK
      <4> QED
        BY <4>1, <1>2, <1>9
    <3>2. CASE n = answer /\ q # p
      <4>1. AsSent(answer, q)'
        BY <3>2, <1>13
      <4> QED
        BY <3>2, <4>1 DEF AsSent
    <3> QED
      BY <3>1, <3>2, <1>12
  <2> QED
    BY <2>1, CarriedStays DEF Traced
<1>15. AskedOnce'
  BY <1>12 DEF AskedOnce
<1>16. Unasked' /\ InSession'
  BY <1>2, <1>9, <1>10 DEF Traced, Unasked, InSession, AsSent
<1>17. ASSUME NEW c \in Calls, NEW j \in Ids, Travels(wire', c, j)
       PROVE  Travels(wire, c, j)
  <2>1. PICK q \in Peers : \E n \in Elements(wire'[q]) : n.k = c /\ n.id = j
    BY <1>17 DEF Travels
  <2>2. PICK n \in Elements(wire'[q]) : n.k = c /\ n.id = j
    BY <2>1
  <2>3. n \in Elements(wire[q]) \/ (m.k = c /\ m.id = j)
    BY <2>2, <1>7, <1>8, <1>12
  <2> QED
    BY <2>2, <2>3, <1>3 DEF Travels
<1>18. Alone'
  BY <1>2, <1>17, AloneStays DEF Traced, IInv
<1> QED
  BY <1>14, <1>15, <1>16, <1>18 DEF Traced

LEMMA NextTraced == IInv /\ Traced /\ [Next]_vars => Traced'
<1> SUFFICES ASSUME IInv, Traced, [Next]_vars PROVE Traced'
  OBVIOUS
<1>0. IInv'
  BY NextKeeps
<1>1. CASE UNCHANGED vars
  BY <1>0, <1>1, TakenAway DEF vars, IInv
<1>2. CASE Couple
  BY <1>0, <1>2, CoupleTraced
<1>3. ASSUME NEW k \in Calls, SendUncoupled(k) PROVE Traced'
  BY <1>0, <1>3, SendUncoupledTraced
<1>4. ASSUME NEW k \in Calls, SendAction(k) PROVE Traced'
  BY <1>0, <1>4, SendActionTraced
<1>5. ASSUME NEW p \in Peers, OnActionRequest(p) PROVE Traced'
  BY <1>0, <1>5, OnActionRequestTraced
<1>6. ASSUME NEW p \in Peers, OnStrayResponse(p) PROVE Traced'
  BY <1>0, <1>6, OnStrayResponseTraced
<1>7. ASSUME NEW p \in Peers, OnActionResponse(p) PROVE Traced'
  BY <1>0, <1>7, OnActionResponseTraced
<1>8. ASSUME NEW p \in Peers, NEW k \in Calls, OnActionResponseAgain(p, k) PROVE Traced'
  BY <1>0, <1>8, OnActionResponseAgainTraced
<1>9. ASSUME NEW p \in Peers, Lose(p) PROVE Traced'
  BY <1>0, <1>9, LoseTraced
<1>10. ASSUME NEW p \in Peers, RemoteClosed(p) PROVE Traced'
  BY <1>0, <1>10, RemoteClosedTraced
<1>11. ASSUME NEW p \in Peers, End(p) PROVE Traced'
  BY <1>0, <1>11, EndTraced
<1> QED
  BY <1>1, <1>2, <1>3, <1>4, <1>5, <1>6, <1>7, <1>8, <1>9, <1>10, <1>11 DEF Next

LEMMA InitiallyTraced == Init => Traced
<1> SUFFICES ASSUME Init PROVE Traced
  OBVIOUS
<1>1. IInv
  BY Initially
<1>2. \A p \in Peers : wire[p] = <<>> /\ Elements(wire[p]) = {}
  BY DEF Init, Elements
<1>3. Carried /\ AskedOnce
  BY <1>2 DEF Carried, AskedOnce, OnceIn
<1>4. Unasked /\ InSession
  BY ConstantTypes DEF Init, Unasked, InSession
<1>5. ASSUME NEW p \in Peers, NEW i \in Ids PROVE UnderWay(p, i) = {}
  <2>1. pending[p][i] = Nobody
    BY DEF Init, NoCalls
  <2>2. \A k \in Calls : pending[p][i] # k /\ ~ Travels(wire, k, i)
    BY <1>2, <2>1, ConstantTypes DEF Travels
  <2>3. UnderWay(p, i) = {k \in Calls : /\ Caller[k] = p
                                        /\ pending[p][i] = k \/ Travels(wire, k, i)}
    BY <1>1, UnderWayIs DEF IInv
  <2> QED
    BY <2>2, <2>3
<1> QED
  BY <1>3, <1>4, <1>5 DEF Traced, Alone

-------------------------------------------------------------------------------
(* The answer a call gets. *)

LEMMA OwnAnswerStays ==
    ASSUME OwnAnswer, mixed \subseteq mixed',
           \A k \in Calls \ mixed' : heard'[k] # <<>> /\ call'[k] # "uncoupled" =>
               \/ heard'[k] = heard[k] /\ call[k] # "uncoupled" /\ verdict'[k] = verdict[k]
               \/ heard'[k] = <<verdict'[k] = "accepted">> /\ verdict'[k] # "none"
    PROVE  OwnAnswer'
<1>1. ASSUME NEW k \in Calls \ mixed', heard'[k] # <<>>, call'[k] # "uncoupled"
      PROVE  heard'[k] = <<verdict'[k] = "accepted">> /\ verdict'[k] # "none"
  <2>1. CASE heard'[k] = heard[k] /\ call[k] # "uncoupled" /\ verdict'[k] = verdict[k]
    <3>1. heard[k] = <<verdict[k] = "accepted">> /\ verdict[k] # "none"
      BY <1>1, <2>1 DEF OwnAnswer
    <3> QED
      BY <2>1, <3>1
  <2> QED
    BY <1>1, <2>1
<1> QED
  BY <1>1 DEF OwnAnswer

\* The answer that reaches a callback of a call that is alone is its own.
LEMMA AnswersItsCall ==
    ASSUME IInv, Traced, NEW p \in Peers, Receives(p, "Response"),
           pending[p][Head(wire[p]).id] # Nobody
    PROVE  LET m == Head(wire[p])
               k == pending[p][m.id]
           IN  /\ k \in Calls /\ heard[k] = <<>> /\ AsSent(m, p) /\ m \in Elements(wire[p])
               /\ k \in UnderWay(p, m.id) /\ m.k \in UnderWay(p, m.id)
               /\ k \notin mixed => m.k = k
<1>1. PICK m : m = Head(wire[p])
  OBVIOUS
<1>2. PICK k : k = pending[p][m.id]
  OBVIOUS
<1>3. /\ m \in Messages /\ m.k \in Calls /\ m.id \in Ids /\ m \in Elements(wire[p])
      /\ m.kind = "Response"
  BY <1>1, HeadType, TailElements DEF IInv, TypeOK, Receives
<1>4. AsSent(m, p) /\ Caller[m.k] = p
  BY <1>3 DEF Traced, Carried, AsSent
<1>5. k \in Calls /\ heard[k] = <<>> /\ Caller[k] = p
  BY <1>1, <1>2, <1>3 DEF IInv, TypeOK, Unheard
<1>6. Travels(wire, m.k, m.id)
  BY <1>3 DEF Travels
<1>7. k \in UnderWay(p, m.id) /\ m.k \in UnderWay(p, m.id)
  BY <1>2, <1>3, <1>4, <1>5, <1>6, UnderWayIs DEF IInv
<1>8. k \notin mixed => m.k = k
  BY <1>3, <1>7 DEF Traced, Alone
<1> QED
  BY <1>1, <1>2, <1>3, <1>4, <1>5, <1>7, <1>8

LEMMA NumberedMixes ==
    ASSUME NEW k, NEW i, Numbered(k, i)
    PROVE  /\ mixed \subseteq mixed'
           /\ \A c \in UnderWay(Caller[k], i) : c \in mixed' /\ k \in mixed'
BY DEF Numbered

LEMMA NextOwnAnswer == IInv /\ Traced /\ OwnAnswer /\ [Next]_vars => OwnAnswer'
<1> SUFFICES ASSUME IInv, Traced, OwnAnswer, [Next]_vars PROVE OwnAnswer'
  OBVIOUS
<1>0. TypeOK /\ TypeOK'
  BY NextKeeps DEF IInv
\* Nobody is told anything, and no verdict is given.
<1>1. ASSUME UNCHANGED heard, UNCHANGED verdict, mixed \subseteq mixed',
             \A c \in Calls : call[c] = "uncoupled" => call'[c] = "uncoupled"
      PROVE  OwnAnswer'
  BY <1>1, OwnAnswerStays
<1>2. CASE UNCHANGED vars \/ Couple
  BY <1>1, <1>2 DEF vars, Couple, callVars
<1>3. ASSUME NEW k \in Calls, SendUncoupled(k) PROVE OwnAnswer'
  <2>1. /\ call'[k] = "uncoupled" /\ UNCHANGED <<mixed, verdict>>
        /\ \A c \in Calls : c # k => call'[c] = call[c] /\ heard'[c] = heard[c]
    BY <1>0, <1>3 DEF SendUncoupled, TypeOK
  <2> QED
    BY <2>1, OwnAnswerStays
<1>4. ASSUME NEW k \in Calls, SendAction(k) PROVE OwnAnswer'
  <2>1. PICK i \in Ids : Numbered(k, i)
    BY <1>4 DEF SendAction
  <2>2. /\ UNCHANGED <<heard, verdict>> /\ call[k] = "unsent"
        /\ \A c \in Calls : c # k => call'[c] = call[c]
    BY <1>0, <1>4 DEF SendAction, TypeOK
  <2> QED
    BY <1>1, <2>1, <2>2, NumberedMixes
<1>5. ASSUME NEW p \in Peers, OnActionRequest(p) PROVE OwnAnswer'
  <2>1. PICK m : m = Head(wire[p])
    OBVIOUS
  <2>2. /\ wire[p] # <<>> /\ m.kind = "Request" /\ UNCHANGED <<heard, call, mixed>>
        /\ \E v : verdict' = [verdict EXCEPT ![m.k] = v]
    BY <1>5, <2>1 DEF OnActionRequest, Receives, callVars
  <2>3. m.k \in Calls /\ m \in Elements(wire[p])
    BY <1>0, <2>1, <2>2, HeadType, TailElements DEF TypeOK
  <2>4. verdict[m.k] = "none" /\ call[m.k] \in {"sent", "over"}
    BY <2>2, <2>3 DEF Traced, Carried, AsSent
  <2>5. m.k \in mixed \/ heard[m.k] = <<>>
    BY <2>3, <2>4 DEF OwnAnswer
  <2>6. \A c \in Calls : c # m.k => verdict'[c] = verdict[c]
    BY <1>0, <2>2 DEF TypeOK
  <2> QED
    BY <2>2, <2>5, <2>6, OwnAnswerStays
<1>6. ASSUME NEW p \in Peers, OnStrayResponse(p) \/ Lose(p) \/ RemoteClosed(p) PROVE OwnAnswer'
  BY <1>1, <1>6 DEF OnStrayResponse, Lose, RemoteClosed, callVars
<1>7. ASSUME NEW p \in Peers, OnActionResponse(p) PROVE OwnAnswer'
  <2>1. PICK m : m = Head(wire[p])
    OBVIOUS
  <2>2. PICK k : k = pending[p][m.id]
    OBVIOUS
  <2>3. /\ Receives(p, "Response") /\ k # Nobody /\ UNCHANGED <<call, mixed, verdict>>
        /\ heard' = [heard EXCEPT ![k] = Append(@, m.flag)] /\ m.kind = "Response"
    BY <1>7, <2>1, <2>2 DEF OnActionResponse, Receives, callVars
  <2>4. /\ k \in Calls /\ heard[k] = <<>> /\ AsSent(m, p)
        /\ k \notin mixed => m.k = k
    BY <2>1, <2>2, <2>3, AnswersItsCall
  <2>5. heard'[k] = <<m.flag>> /\ \A c \in Calls : c # k => heard'[c] = heard[c]
    BY <1>0, <2>3, <2>4 DEF TypeOK
  <2>6. k \notin mixed => m.flag = (verdict[k] = "accepted") /\ verdict[k] # "none"
    BY <2>3, <2>4 DEF AsSent
  <2>7. k \notin mixed => heard'[k] = <<verdict'[k] = "accepted">> /\ verdict'[k] # "none"
    BY <2>3, <2>5, <2>6
  <2> QED
    BY <2>3, <2>5, <2>7, OwnAnswerStays
<1>8. ASSUME NEW p \in Peers, NEW k \in Calls, OnActionResponseAgain(p, k) PROVE OwnAnswer'
  <2>1. PICK m : m = Head(wire[p])
    OBVIOUS
  <2>2. PICK first : first = pending[p][m.id]
    OBVIOUS
  <2>3. /\ Receives(p, "Response") /\ first # Nobody /\ UNCHANGED verdict
        /\ heard' = [heard EXCEPT ![first] = Append(@, m.flag)]
        /\ Numbered(k, m.id) /\ call' = [call EXCEPT ![k] = "sent"] /\ Caller[k] = p
        /\ call[k] = "unsent"
    BY <1>8, <2>1, <2>2 DEF OnActionResponseAgain
  <2>4. first \in Calls /\ first \in UnderWay(p, m.id)
    BY <2>1, <2>2, <2>3, AnswersItsCall
  <2>5. mixed \subseteq mixed' /\ first \in mixed' /\ k \in mixed'
    BY <2>3, <2>4, NumberedMixes
  <2>6. /\ \A c \in Calls : c # first => heard'[c] = heard[c]
        /\ \A c \in Calls : c # k => call'[c] = call[c]
    BY <1>0, <2>3, <2>4 DEF TypeOK
  <2> QED
    BY <2>3, <2>5, <2>6, OwnAnswerStays
<1>9. ASSUME NEW p \in Peers, End(p) PROVE OwnAnswer'
  <2>1. /\ UNCHANGED <<heard, verdict, mixed>>
        /\ \A c \in Calls : call[c] = "uncoupled" => call'[c] = "uncoupled"
    BY <1>9 DEF End
  <2> QED
    BY <1>1, <2>1
<1> QED
  BY <1>2, <1>3, <1>4, <1>5, <1>6, <1>7, <1>8, <1>9 DEF Next

-------------------------------------------------------------------------------
(* A callback that waits, and what will release it. *)

Waits(k) == /\ call[k] = "sent" /\ heard[k] = <<>> /\ lost = 0
            /\ \A q \in Peers : conn[q] = "connected"

Kept(k) == pending[Caller[k]][requestId[k]] = k /\ Travels(wire, k, requestId[k])

AllKept == \A k \in Calls \ mixed : Waits(k) => Kept(k)

LEMMA NoLostIs == ASSUME TypeOK PROVE NoLostCallback <=> AllKept
<1>1. ASSUME NEW k \in Calls
      PROVE  LET p == Caller[k]
                 q == Other(p)
             IN  /\ conn[p] = "connected" /\ conn[q] = "connected" <=> \A r \in Peers : conn[r] = "connected"
                 /\ (\E m \in Elements(wire[p] \o wire[q]) : m.k = k /\ m.id = requestId[k])
                       <=> Travels(wire, k, requestId[k])
  <2>1. Caller[k] \in Peers
    BY ConstantTypes
  <2>2. /\ Other(Caller[k]) \in Peers
        /\ \A r \in Peers : r = Caller[k] \/ r = Other(Caller[k])
    BY <2>1, OtherPeer
  <2>3. \A m : m \in Elements(wire[Caller[k]] \o wire[Other(Caller[k])])
                  <=> \E q \in Peers : m \in Elements(wire[q])
    BY <2>1, ConcatElements DEF TypeOK
  <2> QED
    BY <2>1, <2>2, <2>3 DEF Travels
<1> QED
  BY <1>1 DEF NoLostCallback, AllKept, Waits, Kept

LEMMA InitiallyAllKept == Init => AllKept
BY DEF Init, AllKept, Waits

\* The calls that still wait are kept if a step leaves what releases them.
LEMMA AllKeptStays ==
    ASSUME AllKept, mixed \subseteq mixed',
           \A k \in Calls \ mixed' : Waits(k)' => Kept(k)' \/ (Waits(k) /\ (Kept(k) => Kept(k)'))
    PROVE  AllKept'
<1>1. ASSUME NEW k \in Calls \ mixed', Waits(k)' PROVE Kept(k)'
  <2>1. k \in Calls \ mixed
    BY <1>1
  <2> QED
    BY <1>1, <2>1 DEF AllKept
<1> QED
  BY <1>1 DEF AllKept

LEMMA SendActionKept ==
    ASSUME IInv, IInv', Traced, AllKept, NEW k \in Calls, SendAction(k) PROVE AllKept'
<1> DEFINE p == Caller[k]
<1>0. p \in Peers /\ TypeOK /\ TypeOK'
  BY ConstantTypes DEF IInv
<1>1. PICK i \in Ids, known \in BOOLEAN :
         /\ Numbered(k, i)
         /\ pending' = [pending EXCEPT ![p] = Entered(@, i, k)]
         /\ IF conn[p] = "connected"
            THEN /\ wire' = WireWith(wire, p, Request(k, i, known))
                 /\ call' = [call EXCEPT ![k] = "sent"]
            ELSE /\ call' = [call EXCEPT ![k] = "failed"]
                 /\ UNCHANGED wire
  BY DEF SendAction
<1>2. UNCHANGED <<conn, heard, lost>>
  BY DEF SendAction
<1>3. PICK msg : msg = Request(k, i, known)
  OBVIOUS
<1>4. msg \in Messages /\ msg.k = k /\ msg.id = i
  BY <1>1, <1>3 DEF Request, Messages
<1>5. /\ requestId'[k] = i /\ mixed \subseteq mixed'
      /\ \A c \in Calls : c # k => requestId'[c] = requestId[c] /\ call'[c] = call[c]
  BY <1>0, <1>1, NumberedMixes DEF Numbered, TypeOK
<1>6. ASSUME NEW c \in Calls \ mixed', Waits(c)', c # k
      PROVE  Waits(c) /\ (Kept(c) => Kept(c)')
  <2>1. Waits(c)
    BY <1>2, <1>5, <1>6 DEF Waits
  <2>2. ASSUME Kept(c) PROVE Kept(c)'
    <3>1. c # Nobody /\ Caller[c] \in Peers /\ requestId[c] \in Ids
      BY <1>0, ConstantTypes DEF TypeOK
    <3>2. pending'[Caller[c]][requestId[c]] = c
      BY <1>0, <1>1, <2>2, <3>1 DEF Kept, Entered, TypeOK
    <3>3. \A q \in Peers : Elements(wire[q]) \subseteq Elements(wire'[q])
      <4>1. CASE wire' = wire
        BY <4>1
      <4>2. CASE wire' = WireWith(wire, p, msg)
        <5>1. ASSUME NEW q \in Peers PROVE Elements(wire[q]) \subseteq Elements(wire'[q])
          <6>1. wire[q] \in Seq(Messages) /\ wire \in [Peers -> Seq(Messages)]
            BY <1>0 DEF TypeOK
          <6>2. wire'[q] = IF q # p /\ conn[q] = "connected" THEN Append(wire[q], msg) ELSE wire[q]
            BY <1>0, <4>2, <6>1, WireWithIs
          <6>3. Elements(Append(wire[q], msg)) = Elements(wire[q]) \cup {msg}
            BY <6>1, <1>4, AppendElements
          <6> QED
            BY <6>2, <6>3
        <5> QED
          BY <5>1
      <4> QED
        BY <1>1, <1>3, <4>1, <4>2
    <3>4. Travels(wire', c, requestId[c])
      BY <2>2, <3>3 DEF Kept, Travels
    <3> QED
      BY <1>5, <1>6, <3>2, <3>4 DEF Kept, Travels
  <2> QED
    BY <2>1, <2>2
<1>7. ASSUME k \notin mixed', Waits(k)' PROVE Kept(k)'
  <2>1. UnderWay(p, i) = {}
    BY <1>1, <1>7, NumberedMixes
  <2>2. pending[p][i] = Nobody
    <3>1. ASSUME pending[p][i] # Nobody PROVE FALSE
      <4>1. pending[p][i] \in Calls /\ Caller[pending[p][i]] = p
        BY <1>0, <1>1, <3>1 DEF IInv, TypeOK, Unheard
      <4>2. pending[p][i] \in UnderWay(p, i)
        BY <1>0, <4>1, UnderWayIs
      <4> QED
        BY <2>1, <4>2
    <3> QED
      BY <3>1
  <2>3. pending'[p][i] = k
    BY <1>0, <1>1, <2>2 DEF TypeOK, Entered
  <2>4. \A q \in Peers : conn[q] = "connected"
    BY <1>2, <1>7 DEF Waits
  <2>5. Other(p) \in Peers /\ Other(p) # p
    BY <1>0, OtherPeer
  <2>6. wire' = WireWith(wire, p, msg)
    BY <1>0, <1>1, <1>3, <2>4
  <2>7. wire[Other(p)] \in Seq(Messages) /\ wire \in [Peers -> Seq(Messages)]
    BY <1>0, <2>5 DEF TypeOK
  <2>8. wire'[Other(p)] = Append(wire[Other(p)], msg)
    <3>1. \A q \in Peers : WireWith(wire, p, msg)[q] =
             IF q # p /\ conn[q] = "connected" THEN Append(wire[q], msg) ELSE wire[q]
      BY <1>0, <2>7, WireWithIs
    <3> HIDE DEF p
    <3> QED
      BY <2>4, <2>5, <2>6, <3>1
  <2>9. msg \in Elements(wire'[Other(p)])
    BY <1>4, <2>7, <2>8, AppendElements
  <2> QED
    BY <1>4, <1>5, <2>3, <2>5, <2>9 DEF Kept, Travels
<1> QED
  BY <1>5, <1>6, <1>7, AllKeptStays

LEMMA OnActionRequestKept ==
    ASSUME IInv, IInv', Traced, AllKept, NEW p \in Peers, OnActionRequest(p) PROVE AllKept'
<1> DEFINE read == [wire EXCEPT ![p] = Tail(@)]
<1>0. TypeOK
  BY DEF IInv
<1>1. PICK m : m = Head(wire[p])
  OBVIOUS
<1>2. wire[p] # <<>> /\ UNCHANGED <<conn, pending, call, requestId, mixed, heard, lost>>
  BY <1>1 DEF OnActionRequest, Receives, callVars
<1>3. m \in Messages /\ m.k \in Calls /\ m.id \in Ids /\ m.flag \in BOOLEAN
  BY <1>0, <1>1, <1>2, HeadType
<1>4. PICK accepted \in IF m.flag THEN BOOLEAN ELSE {FALSE} :
         wire' = WireWith(read, p, Response(m.k, m.id, accepted))
  BY <1>1 DEF OnActionRequest
<1>5. PICK answer : answer = Response(m.k, m.id, accepted)
  OBVIOUS
<1>6. answer \in Messages /\ answer.k = m.k /\ answer.id = m.id
  BY <1>3, <1>4, <1>5 DEF Response, Messages
<1>7. /\ read \in [Peers -> Seq(Messages)]
      /\ \A q \in Peers : \A n \in Elements(wire[q]) : n \in Elements(read[q]) \/ (q = p /\ n = m)
  BY <1>1, <1>2, ReadIs DEF Traced
<1> HIDE DEF read
<1>8. ASSUME NEW c \in Calls, Waits(c), Kept(c) PROVE Kept(c)'
  <2>1. PICK q \in Peers : \E n \in Elements(wire[q]) : n.k = c /\ n.id = requestId[c]
    BY <1>8 DEF Kept, Travels
  <2>2. PICK n \in Elements(wire[q]) : n.k = c /\ n.id = requestId[c]
    BY <2>1
  <2>3. ASSUME NEW r \in Peers
        PROVE  /\ wire'[r] = IF r # p /\ conn[r] = "connected" THEN Append(read[r], answer) ELSE read[r]
               /\ Elements(Append(read[r], answer)) = Elements(read[r]) \cup {answer}
    <3>1. read[r] \in Seq(Messages)
      BY <1>7
    <3>2. wire' = WireWith(read, p, answer)
      BY <1>4, <1>5
    <3>3. WireWith(read, p, answer)[r] =
             IF r # p /\ conn[r] = "connected" THEN Append(read[r], answer) ELSE read[r]
      BY <1>7, WireWithIs
    <3> QED
      BY <1>6, <3>1, <3>2, <3>3, AppendElements
  <2>4. CASE n \in Elements(read[q])
    <3>1. n \in Elements(wire'[q])
      BY <2>3, <2>4
    <3> QED
      BY <1>2, <1>8, <2>2, <3>1 DEF Kept, Travels
  <2>5. CASE n = m
    <3>1. Other(p) \in Peers /\ Other(p) # p /\ conn[Other(p)] = "connected"
      BY <1>8, OtherPeer DEF Waits
    <3>2. answer \in Elements(wire'[Other(p)])
      BY <2>3, <3>1
    <3> QED
      BY <1>2, <1>6, <1>8, <2>2, <2>5, <3>1, <3>2 DEF Kept, Travels
  <2> QED
    BY <1>7, <2>4, <2>5
<1>9. \A c \in Calls : Waits(c)' => Waits(c)
  BY <1>2 DEF Waits
<1> QED
  BY <1>2, <1>8, <1>9, AllKeptStays

\* A response that calls somebody back leaves what the others wait for.
LEMMA ResponseKept ==
    ASSUME IInv, Traced, NEW p \in Peers, Receives(p, "Response"),
           NEW first \in Calls, first = pending[p][Head(wire[p]).id],
           NEW c \in Calls, c # first, Kept(c), requestId'[c] = requestId[c],
           pending' = [pending EXCEPT ![p] = Erased(@, Head(wire[p]).id)],
           \A q \in Peers : \A n \in Elements(wire[q]) :
               n \in Elements(wire'[q]) \/ (q = p /\ n = Head(wire[p]))
    PROVE  Kept(c)'
<1>1. PICK m : m = Head(wire[p])
  OBVIOUS
<1>2. m.id \in Ids /\ m.k \in Calls /\ m \in Elements(wire[p]) /\ m.kind = "Response"
  BY <1>1, HeadType, TailElements DEF IInv, TypeOK, Receives
<1>3. AsSent(m, p) /\ Caller[m.k] = p /\ m.id = requestId[m.k]
  BY <1>2 DEF Traced, Carried, AsSent
<1>4. Caller[c] \in Peers /\ requestId[c] \in Ids /\ pending[Caller[c]][requestId[c]] = c
  BY ConstantTypes DEF IInv, TypeOK, Kept
<1>5. ~ (Caller[c] = p /\ requestId[c] = m.id)
  BY <1>1, <1>4
<1>6. pending'[Caller[c]][requestId[c]] = c
  BY <1>1, <1>2, <1>4, <1>5 DEF IInv, TypeOK, Erased
<1>7. m.k # c
  BY <1>3, <1>5
<1>8. PICK q \in Peers : \E n \in Elements(wire[q]) : n.k = c /\ n.id = requestId[c]
  BY DEF Kept, Travels
<1>9. PICK n \in Elements(wire[q]) : n.k = c /\ n.id = requestId[c]
  BY <1>8
<1>10. n \in Elements(wire'[q])
  BY <1>1, <1>7, <1>9
<1> QED
  BY <1>6, <1>9, <1>10 DEF Kept, Travels

LEMMA OnActionResponseKept ==
    ASSUME IInv, Traced, AllKept, NEW p \in Peers, OnActionResponse(p) PROVE AllKept'
<1> DEFINE read == [wire EXCEPT ![p] = Tail(@)]
<1>1. PICK first : first = pending[p][Head(wire[p]).id]
  OBVIOUS
<1>2. /\ Receives(p, "Response") /\ first # Nobody /\ wire[p] # <<>>
      /\ heard' = [heard EXCEPT ![first] = Append(@, Head(wire[p]).flag)]
      /\ pending' = [pending EXCEPT ![p] = Erased(@, Head(wire[p]).id)]
      /\ wire' = read
      /\ UNCHANGED <<conn, call, requestId, mixed, lost>>
  BY <1>1 DEF OnActionResponse, Receives, callVars
<1>3. first \in Calls
  BY <1>1, <1>2, AnswersItsCall
<1>4. /\ heard'[first] # <<>>
      /\ \A c \in Calls : c # first => heard'[c] = heard[c]
  <2>1. heard[first] \in Seq(BOOLEAN) /\ Head(wire[p]).flag \in BOOLEAN
    BY <1>2, <1>3, HeadType DEF IInv, TypeOK
  <2>2. Append(heard[first], Head(wire[p]).flag) # <<>>
    BY <2>1
  <2> QED
    BY <1>2, <1>3, <2>2 DEF IInv, TypeOK
<1>5. \A q \in Peers : \A n \in Elements(wire[q]) :
         n \in Elements(wire'[q]) \/ (q = p /\ n = Head(wire[p]))
  BY <1>2, ReadIs DEF Traced
<1>6. ASSUME NEW c \in Calls, Waits(c)'
      PROVE  Waits(c) /\ (Kept(c) => Kept(c)')
  <2>1. c # first
    BY <1>4, <1>6 DEF Waits
  <2>2. Waits(c)
    BY <1>2, <1>4, <1>6, <2>1 DEF Waits
  <2>3. Kept(c) => Kept(c)'
    BY <1>1, <1>2, <1>3, <1>5, <2>1, ResponseKept
  <2> QED
    BY <2>2, <2>3
<1> QED
  BY <1>2, <1>6, AllKeptStays

LEMMA OnActionResponseAgainKept ==
    ASSUME IInv, IInv', Traced, AllKept, NEW p \in Peers, NEW k \in Calls, OnActionResponseAgain(p, k)
    PROVE  AllKept'
<1> DEFINE read == [wire EXCEPT ![p] = Tail(@)]
<1>1. PICK m : m = Head(wire[p])
  OBVIOUS
<1>2. PICK first : first = pending[p][m.id]
  OBVIOUS
<1>3. /\ Receives(p, "Response") /\ first # Nobody /\ wire[p] # <<>> /\ Caller[k] = p
      /\ heard' = [heard EXCEPT ![first] = Append(@, m.flag)]
      /\ pending' = [pending EXCEPT ![p] = Erased(Entered(@, m.id, k), m.id)]
      /\ Numbered(k, m.id)
      /\ wire' = WireWith(read, p, Request(k, m.id, TRUE))
      /\ call' = [call EXCEPT ![k] = "sent"]
      /\ UNCHANGED <<conn, lost>>
  BY <1>1, <1>2 DEF OnActionResponseAgain, Receives
<1>4. first \in Calls /\ first \in UnderWay(p, m.id)
  BY <1>1, <1>2, <1>3, AnswersItsCall
<1>5. mixed \subseteq mixed' /\ first \in mixed' /\ k \in mixed'
  BY <1>3, <1>4, NumberedMixes
<1>6. m.id \in Ids /\ Request(k, m.id, TRUE) \in Messages
  BY <1>1, <1>3, HeadType DEF IInv, Request, Messages
<1>7. pending' = [pending EXCEPT ![p] = Erased(@, m.id)]
  BY <1>2, <1>3 DEF Entered
<1>8. /\ \A c \in Calls : c # first => heard'[c] = heard[c]
      /\ \A c \in Calls : c # k => call'[c] = call[c] /\ requestId'[c] = requestId[c]
  BY <1>3, <1>4 DEF IInv, TypeOK, Numbered
<1>9. /\ read \in [Peers -> Seq(Messages)]
      /\ \A q \in Peers : \A n \in Elements(wire[q]) : n \in Elements(read[q]) \/ (q = p /\ n = m)
  BY <1>1, <1>3, ReadIs DEF Traced
<1> HIDE DEF read
<1>10. ASSUME NEW q \in Peers PROVE Elements(read[q]) \subseteq Elements(wire'[q])
  <2>1. PICK msg : msg = Request(k, m.id, TRUE)
    OBVIOUS
  <2>2. read[q] \in Seq(Messages) /\ msg \in Messages /\ wire' = WireWith(read, p, msg)
    BY <1>3, <1>6, <1>9, <2>1
  <2>3. WireWith(read, p, msg)[q] =
           IF q # p /\ conn[q] = "connected" THEN Append(read[q], msg) ELSE read[q]
    BY <1>9, WireWithIs
  <2>4. Elements(Append(read[q], msg)) = Elements(read[q]) \cup {msg}
    BY <2>2, AppendElements
  <2> QED
    BY <2>2, <2>3, <2>4
<1>11. \A q \in Peers : \A n \in Elements(wire[q]) :
          n \in Elements(wire'[q]) \/ (q = p /\ n = Head(wire[p]))
  BY <1>1, <1>9, <1>10
<1>12. ASSUME NEW c \in Calls \ mixed', Waits(c)'
       PROVE  Waits(c) /\ (Kept(c) => Kept(c)')
  <2>1. c \in Calls /\ c # first /\ c # k
    BY <1>5, <1>12
  <2>2. Waits(c)
    BY <1>3, <1>8, <1>12, <2>1 DEF Waits
  <2>3. ASSUME Kept(c) PROVE Kept(c)'
    <3>1. /\ first = pending[p][Head(wire[p]).id]
          /\ pending' = [pending EXCEPT ![p] = Erased(@, Head(wire[p]).id)]
      BY <1>1, <1>2, <1>7
    <3>2. requestId'[c] = requestId[c]
      BY <1>8, <2>1
    <3> QED
      BY <1>3, <1>4, <1>11, <2>1, <2>3, <3>1, <3>2, ResponseKept
  <2> QED
    BY <2>2, <2>3
<1> QED
  BY <1>5, <1>12, AllKeptStays

LEMMA OnStrayResponseKept ==
    ASSUME IInv, Traced, AllKept, NEW p \in Peers, OnStrayResponse(p) PROVE AllKept'
<1>1. PICK m : m = Head(wire[p])
  OBVIOUS
<1>2. /\ wire[p] # <<>> /\ m.kind = "Response" /\ pending[p][m.id] = Nobody
      /\ wire' = [wire EXCEPT ![p] = Tail(@)]
      /\ UNCHANGED <<conn, pending, call, requestId, mixed, heard, lost>>
  BY <1>1 DEF OnStrayResponse, Receives, callVars
<1>3. m.k \in Calls /\ m \in Elements(wire[p])
  BY <1>1, <1>2, HeadType, TailElements DEF IInv, TypeOK
<1>4. Caller[m.k] = p /\ m.id = requestId[m.k]
  BY <1>2, <1>3 DEF Traced, Carried, AsSent
<1>5. \A q \in Peers : \A n \in Elements(wire[q]) : n \in Elements(wire'[q]) \/ (q = p /\ n = m)
  BY <1>1, <1>2, ReadIs DEF Traced
<1>6. ASSUME NEW c \in Calls, Kept(c) PROVE Kept(c)'
  <2>1. c # m.k
    BY <1>2, <1>4, <1>6, ConstantTypes DEF Kept
  <2>2. PICK q \in Peers : \E n \in Elements(wire[q]) : n.k = c /\ n.id = requestId[c]
    BY <1>6 DEF Kept, Travels
  <2>3. PICK n \in Elements(wire[q]) : n.k = c /\ n.id = requestId[c]
    BY <2>2
  <2>4. n \in Elements(wire'[q])
    BY <1>5, <2>1, <2>3
  <2> QED
    BY <1>2, <1>6, <2>3, <2>4 DEF Kept, Travels
<1>7. \A c \in Calls : Waits(c)' => Waits(c)
  BY <1>2 DEF Waits
<1> QED
  BY <1>2, <1>6, <1>7, AllKeptStays

LEMMA NextKept == IInv /\ Traced /\ AllKept /\ [Next]_vars => AllKept'
<1> SUFFICES ASSUME IInv, Traced, AllKept, [Next]_vars PROVE AllKept'
  OBVIOUS
<1>0. IInv' /\ TypeOK
  BY NextKeeps DEF IInv
<1>1. CASE UNCHANGED vars
  BY <1>1 DEF vars, AllKept, Waits, Kept, Travels, Elements
<1>2. CASE Couple
  <2>1. \A k \in Calls : call[k] # "sent"
    BY <1>2, ConstantTypes DEF Couple, Traced, InSession
  <2>2. \A k \in Calls : ~ Waits(k)'
    BY <1>2, <2>1 DEF Couple, callVars, Waits
  <2> QED
    BY <2>2 DEF AllKept
<1>3. ASSUME NEW k \in Calls, SendUncoupled(k) PROVE AllKept'
  <2>1. /\ call'[k] = "uncoupled" /\ UNCHANGED <<conn, pending, wire, requestId, mixed, lost>>
        /\ \A c \in Calls : c # k => call'[c] = call[c] /\ heard'[c] = heard[c]
    BY <1>0, <1>3 DEF SendUncoupled, TypeOK
  <2>2. \A c \in Calls : (Waits(c)' => Waits(c)) /\ (Kept(c) => Kept(c)')
    BY <2>1 DEF Waits, Kept, Travels
  <2> QED
    BY <2>1, <2>2, AllKeptStays
<1>4. ASSUME NEW k \in Calls, SendAction(k) PROVE AllKept'
  BY <1>0, <1>4, SendActionKept
<1>5. ASSUME NEW p \in Peers, OnActionRequest(p) PROVE AllKept'
  BY <1>0, <1>5, OnActionRequestKept
<1>6. ASSUME NEW p \in Peers, OnStrayResponse(p) PROVE AllKept'
  BY <1>6, OnStrayResponseKept
<1>7. ASSUME NEW p \in Peers, OnActionResponse(p) PROVE AllKept'
  BY <1>7, OnActionResponseKept
<1>8. ASSUME NEW p \in Peers, NEW k \in Calls, OnActionResponseAgain(p, k) PROVE AllKept'
  BY <1>0, <1>8, OnActionResponseAgainKept
<1>9. ASSUME NEW p \in Peers, Lose(p) PROVE AllKept'
  <2>1. lost' # 0
    BY <1>0, <1>9 DEF Lose, TypeOK
  <2> QED
    BY <2>1 DEF AllKept, Waits
<1>10. ASSUME NEW p \in Peers, RemoteClosed(p) \/ End(p) PROVE AllKept'
  <2>1. conn'[p] # "connected"
    BY <1>0, <1>10 DEF RemoteClosed, End, TypeOK
  <2> QED
    BY <2>1 DEF AllKept, Waits
<1> QED
  BY <1>1, <1>2, <1>3, <1>4, <1>5, <1>6, <1>7, <1>8, <1>9, <1>10 DEF Next

-------------------------------------------------------------------------------
\* What is on the wires and in the maps is what was sent; with it the two
\* properties of the answers are inductive.
THEOREM AnswersInvariant == Spec => [](Traced /\ OwnAnswer /\ AllKept)
<1>1. Init => Traced /\ OwnAnswer /\ AllKept
  <2>1. Init => OwnAnswer
    BY DEF Init, OwnAnswer
  <2> QED
    BY <2>1, InitiallyTraced, InitiallyAllKept
<1>2. IInv /\ Traced /\ OwnAnswer /\ AllKept /\ [Next]_vars => (Traced /\ OwnAnswer /\ AllKept)'
  BY NextTraced, NextOwnAnswer, NextKept
<1> QED
  BY <1>1, <1>2, InductiveInvariant, PTL DEF Spec

\* A call that shares its id with no other under way is told the verdict that
\* the peer's callback gave on its own request, for every set of calls and ids
\* and over any number of sessions: the response carries the id of the request
\* back, and the map gives it to the callback that was entered under it.
THEOREM ToldItsOwnVerdict == Spec => []OwnAnswer
BY AnswersInvariant, PTL

\* While both ends are connected and nothing was lost, a callback that waits is
\* in the map, and its request or response is on its way: sendAction() enters
\* it before it sends, and only the response to it takes it out.
THEOREM NoCallbackForgotten == Spec => []NoLostCallback
<1>1. IInv /\ AllKept => NoLostCallback
  BY NoLostIs DEF IInv
<1> QED
  BY <1>1, AnswersInvariant, InductiveInvariant, PTL
===============================================================================
