---------------------------- MODULE DataPeersProofs ----------------------------
(***************************************************************************)
(* Proofs about DataPeers, for every number of sessions, every length of   *)
(* the event queues, and workers and faults at any peer.                   *)
(***************************************************************************)
EXTENDS DataPeers, FiniteSetTheorems, TLAPS

-------------------------------------------------------------------------------
(* Queues of events. *)

\* A coupling waits at most once, behind no end of a session, and no release
\* waits behind it.
Ordered(q) ==
    \A i, j \in DOMAIN q :
        /\ q[i].ev = "coupled" /\ q[j].ev = "coupled" => i = j
        /\ i < j => /\ ~ (q[i].ev = "coupled" /\ q[j].ev = "release")
                    /\ ~ (q[i].ev = "ended" /\ q[j].ev = "coupled")

\* WillBeConnected of a channel with the queue q and the state st.
Comes(q, st) ==
    \/ st = "Connected" /\ \A e \in Elements(q) : e.ev \notin Signals
    \/ \E i \in DOMAIN q :
          /\ q[i].ev = "connected"
          /\ \A j \in DOMAIN q : j > i => q[j].ev \notin Signals

\* A failed that waits will be a change of state, and so call onFailed().
Fails(q, st) ==
    \E j \in DOMAIN q : /\ q[j].ev = "failed"
                        /\ IF j = 1 THEN st # "Failed" ELSE q[j - 1].ev = "disconnected"

\* The state after the event at the head of the queue.
After(q, st) == IF Head(q).ev \in Signals THEN StateOf(Head(q).ev) ELSE st

LEMMA SessionsType == 0 \notin Sessions /\ \A s \in Sessions : s \in Nat
BY SessionsAssumption

LEMMA AppendedElements ==
    ASSUME NEW q \in Seq(Events), NEW e \in Events
    PROVE  /\ Append(q, e) \in Seq(Events)
           /\ Elements(Append(q, e)) = Elements(q) \cup {e}
           /\ Len(q) \in Nat /\ DOMAIN q = 1..Len(q) /\ DOMAIN Append(q, e) = 1..(Len(q) + 1)
           /\ Append(q, e)[Len(q) + 1] = e
           /\ \A i \in 1..Len(q) : Append(q, e)[i] = q[i]
<1> DEFINE t == Append(q, e)
           l == Len(q)
<1>1. /\ t \in Seq(Events) /\ l \in Nat /\ DOMAIN q = 1..l /\ DOMAIN t = 1..(l + 1)
      /\ t[l + 1] = e /\ \A i \in 1..l : t[i] = q[i]
  OBVIOUS
<1> HIDE DEF t, l
<1>2. \A i \in DOMAIN t : i \in DOMAIN q \/ i = l + 1
  BY <1>1
<1>3. DOMAIN q \subseteq DOMAIN t /\ l + 1 \in DOMAIN t
  BY <1>1
<1>4. Elements(t) = Elements(q) \cup {e}
  BY <1>1, <1>2, <1>3 DEF Elements
<1> QED
  BY <1>1, <1>4 DEF t, l

LEMMA AppendedQueue ==
    ASSUME NEW q \in Seq(Events), NEW e \in Events, NEW st
    PROVE  LET t == Append(q, e)
           IN  /\ e.ev \in Signals => (Comes(t, st) <=> e.ev = "connected")
               /\ e.ev \notin Signals => (Comes(t, st) <=> Comes(q, st))
               /\ Fails(q, st) => Fails(t, st)
               /\ /\ Ordered(q)
                  /\ e.ev = "coupled" => \A f \in Elements(q) : f.ev \notin {"coupled", "ended"}
                  /\ e.ev = "release" => \A f \in Elements(q) : f.ev # "coupled"
                  => Ordered(t)
<1> DEFINE t == Append(q, e)
           l == Len(q)
<1>1. /\ l \in Nat /\ DOMAIN q = 1..l /\ DOMAIN t = 1..(l + 1)
      /\ t[l + 1] = e /\ \A i \in 1..l : t[i] = q[i]
      /\ Elements(t) = Elements(q) \cup {e}
  BY AppendedElements
<1> HIDE DEF t, l
<1>2. ASSUME e.ev \in Signals PROVE Comes(t, st) <=> e.ev = "connected"
  <2>1. e \in Elements(t)
    BY <1>1
  <2>2. ASSUME e.ev = "connected" PROVE Comes(t, st)
    <3>1. l + 1 \in DOMAIN t /\ \A j \in DOMAIN t : ~ (j > l + 1)
      BY <1>1
    <3> QED
      BY <1>1, <2>2, <3>1 DEF Comes
  <2>3. ASSUME Comes(t, st) PROVE e.ev = "connected"
    <3>1. PICK i \in DOMAIN t : t[i].ev = "connected" /\ \A j \in DOMAIN t : j > i => t[j].ev \notin Signals
      BY <1>2, <2>1, <2>3 DEF Comes
    <3>2. ~ (l + 1 > i)
      BY <1>1, <1>2, <3>1
    <3>3. i = l + 1
      BY <1>1, <3>2
    <3> QED
      BY <1>1, <3>1, <3>3
  <2> QED
    BY <2>2, <2>3
<1>3. ASSUME e.ev \notin Signals PROVE Comes(t, st) <=> Comes(q, st)
  <2>1. (\A f \in Elements(t) : f.ev \notin Signals) <=> (\A f \in Elements(q) : f.ev \notin Signals)
    BY <1>1, <1>3
  <2>2. ASSUME NEW i \in DOMAIN q, q[i].ev = "connected", \A j \in DOMAIN q : j > i => q[j].ev \notin Signals
        PROVE  Comes(t, st)
    <3>1. i \in DOMAIN t /\ t[i].ev = "connected"
      BY <1>1, <2>2
    <3>2. \A j \in DOMAIN t : j > i => t[j].ev \notin Signals
      BY <1>1, <1>3, <2>2
    <3> QED
      BY <3>1, <3>2 DEF Comes
  <2>3. ASSUME NEW i \in DOMAIN t, t[i].ev = "connected", \A j \in DOMAIN t : j > i => t[j].ev \notin Signals
        PROVE  Comes(q, st)
    <3>1. i # l + 1
      BY <1>1, <1>3, <2>3 DEF Signals
    <3>2. i \in DOMAIN q /\ q[i].ev = "connected" /\ \A j \in DOMAIN q : j > i => q[j].ev \notin Signals
      BY <1>1, <2>3, <3>1
    <3> QED
      BY <3>2 DEF Comes
  <2> QED
    BY <2>1, <2>2, <2>3 DEF Comes
<1>4. ASSUME Fails(q, st) PROVE Fails(t, st)
  <2>1. PICK j \in DOMAIN q : /\ q[j].ev = "failed"
                              /\ IF j = 1 THEN st # "Failed" ELSE q[j - 1].ev = "disconnected"
    BY <1>4 DEF Fails
  <2>2. j \in DOMAIN t /\ t[j] = q[j] /\ (j # 1 => t[j - 1] = q[j - 1])
    BY <1>1
  <2> QED
    BY <2>1, <2>2 DEF Fails
<1>5. ASSUME Ordered(q),
             e.ev = "coupled" => \A f \in Elements(q) : f.ev \notin {"coupled", "ended"},
             e.ev = "release" => \A f \in Elements(q) : f.ev # "coupled"
      PROVE  Ordered(t)
  <2>1. ASSUME NEW i \in DOMAIN t, NEW j \in DOMAIN t
        PROVE  /\ t[i].ev = "coupled" /\ t[j].ev = "coupled" => i = j
               /\ i < j => /\ ~ (t[i].ev = "coupled" /\ t[j].ev = "release")
                           /\ ~ (t[i].ev = "ended" /\ t[j].ev = "coupled")
    <3>1. \A k \in DOMAIN q : q[k] \in Elements(q) /\ t[k] = q[k]
      BY <1>1 DEF Elements
    <3>2. CASE i \in DOMAIN q /\ j \in DOMAIN q
      BY <1>5, <3>1, <3>2 DEF Ordered
    <3>3. CASE i \in DOMAIN q /\ j = l + 1
      BY <1>1, <1>5, <3>1, <3>3
    <3>4. CASE i = l + 1 /\ j \in DOMAIN q
      <4>1. ~ (i < j)
        BY <1>1, <3>4
      <4> QED
        BY <1>1, <1>5, <3>1, <3>4, <4>1
    <3>5. CASE i = l + 1 /\ j = l + 1
      BY <1>1, <3>5
    <3> QED
      BY <1>1, <3>2, <3>3, <3>4, <3>5
  <2> QED
    BY <2>1 DEF Ordered
<1> QED
  BY <1>2, <1>3, <1>4, <1>5 DEF t

LEMMA TailQueue ==
    ASSUME NEW q \in Seq(Events), q # <<>>, NEW st
    PROVE  LET t == Tail(q)
               h == Head(q)
           IN  /\ t \in Seq(Events) /\ h \in Events /\ h \in Elements(q)
               /\ Elements(t) \subseteq Elements(q) /\ Elements(q) \subseteq Elements(t) \cup {h}
               /\ Ordered(q) => /\ Ordered(t)
                                /\ h.ev = "coupled" =>
                                      \A e \in Elements(t) : e.ev \notin {"coupled", "release"}
                                /\ h.ev = "ended" => \A e \in Elements(t) : e.ev # "coupled"
               /\ Comes(t, After(q, st)) <=> Comes(q, st)
               /\ Fails(q, st) /\ (h.ev = "failed" => st = "Failed") => Fails(t, After(q, st))
<1> DEFINE t == Tail(q)
           l == Len(q) - 1
           h == Head(q)
<1>1. /\ t \in Seq(Events) /\ h \in Events /\ l \in Nat /\ Len(t) = l
      /\ DOMAIN q = 1..(l + 1) /\ DOMAIN t = 1..l /\ h = q[1]
      /\ \A i \in 1..l : t[i] = q[i + 1]
  OBVIOUS
<1> HIDE DEF t, l, h
<1>2. \A i \in DOMAIN t : i + 1 \in DOMAIN q /\ i + 1 # 1 /\ t[i] = q[i + 1]
  BY <1>1
<1>3. \A i \in DOMAIN q : i # 1 => i - 1 \in DOMAIN t /\ t[i - 1] = q[i]
  BY <1>1
<1>4. /\ 1 \in DOMAIN q /\ h \in Elements(q) /\ Elements(t) \subseteq Elements(q)
      /\ Elements(q) \subseteq Elements(t) \cup {h}
  BY <1>1, <1>2, <1>3 DEF Elements
<1>5. ASSUME Ordered(q) PROVE Ordered(t)
  <2>1. ASSUME NEW i \in DOMAIN t, NEW j \in DOMAIN t
        PROVE  /\ t[i].ev = "coupled" /\ t[j].ev = "coupled" => i = j
               /\ i < j => /\ ~ (t[i].ev = "coupled" /\ t[j].ev = "release")
                           /\ ~ (t[i].ev = "ended" /\ t[j].ev = "coupled")
    <3>1. /\ i + 1 \in DOMAIN q /\ j + 1 \in DOMAIN q /\ t[i] = q[i + 1] /\ t[j] = q[j + 1]
          /\ (i < j <=> i + 1 < j + 1) /\ (i + 1 = j + 1 => i = j)
      BY <1>1, <1>2
    <3> QED
      BY <1>5, <3>1 DEF Ordered
  <2> QED
    BY <2>1 DEF Ordered
<1>6. ASSUME Ordered(q), NEW e \in Elements(t)
      PROVE  /\ h.ev = "coupled" => e.ev \notin {"coupled", "release"}
             /\ h.ev = "ended" => e.ev # "coupled"
  <2>1. PICK i \in DOMAIN t : t[i] = e
    BY <1>6 DEF Elements
  <2>2. i + 1 \in DOMAIN q /\ q[i + 1] = e /\ 1 < i + 1 /\ 1 # i + 1
    BY <1>1, <1>2, <2>1
  <2> QED
    BY <1>1, <1>4, <1>6, <2>2 DEF Ordered
<1>7. h.ev \in EventNames
  BY <1>1 DEF Events
<1>8. ASSUME NEW s2, s2 = After(q, st) PROVE Comes(t, s2) <=> Comes(q, st)
  <2>1. ASSUME NEW i \in DOMAIN t, t[i].ev = "connected", \A j \in DOMAIN t : j > i => t[j].ev \notin Signals
        PROVE  Comes(q, st)
    <3>1. i + 1 \in DOMAIN q /\ q[i + 1].ev = "connected"
      BY <1>2, <2>1
    <3>2. ASSUME NEW j \in DOMAIN q, j > i + 1 PROVE q[j].ev \notin Signals
      <4>1. j # 1 /\ j - 1 > i
        BY <1>1, <3>2
      <4> QED
        BY <1>3, <2>1, <4>1
    <3> QED
      BY <3>1, <3>2 DEF Comes
  <2>2. ASSUME s2 = "Connected", \A e \in Elements(t) : e.ev \notin Signals
        PROVE  Comes(q, st)
    <3>1. CASE h.ev \in Signals
      <4>1. h.ev = "connected"
        BY <2>2, <3>1, <1>8 DEF After, Signals, StateOf, h
      <4>2. ASSUME NEW j \in DOMAIN q, j > 1 PROVE q[j].ev \notin Signals
        BY <1>1, <1>3, <2>2, <4>2 DEF Elements
      <4> QED
        BY <1>1, <1>4, <4>1, <4>2 DEF Comes
    <3>2. CASE h.ev \notin Signals
      <4>1. st = "Connected"
        BY <2>2, <3>2, <1>8 DEF After, h
      <4>2. \A e \in Elements(q) : e.ev \notin Signals
        BY <1>1, <1>3, <2>2, <3>2 DEF Elements
      <4> QED
        BY <4>1, <4>2 DEF Comes
    <3> QED
      BY <3>1, <3>2
  <2>3. ASSUME NEW i \in DOMAIN q, q[i].ev = "connected", \A j \in DOMAIN q : j > i => q[j].ev \notin Signals
        PROVE  Comes(t, s2)
    <3>1. CASE i = 1
      <4>1. s2 = "Connected"
        BY <1>1, <2>3, <3>1, <1>8 DEF After, StateOf, Signals, h
      <4>2. \A j \in DOMAIN t : t[j].ev \notin Signals
        BY <1>1, <1>2, <2>3, <3>1
      <4> QED
        BY <4>1, <4>2 DEF Comes, Elements
    <3>2. CASE i # 1
      <4>1. i - 1 \in DOMAIN t /\ t[i - 1].ev = "connected"
        BY <1>3, <2>3, <3>2
      <4>2. \A j \in DOMAIN t : j > i - 1 => t[j].ev \notin Signals
        BY <1>1, <1>2, <2>3
      <4> QED
        BY <4>1, <4>2 DEF Comes
    <3> QED
      BY <3>1, <3>2
  <2>4. ASSUME st = "Connected", \A e \in Elements(q) : e.ev \notin Signals
        PROVE  Comes(t, s2)
    <3>1. s2 = "Connected" /\ \A e \in Elements(t) : e.ev \notin Signals
      BY <1>4, <1>8, <2>4 DEF After, h
    <3> QED
      BY <3>1 DEF Comes
  <2> QED
    BY <2>1, <2>2, <2>3, <2>4 DEF Comes
<1>9. ASSUME Fails(q, st), h.ev = "failed" => st = "Failed", NEW s2, s2 = After(q, st)
      PROVE  Fails(t, s2)
  <2>1. PICK j \in DOMAIN q : /\ q[j].ev = "failed"
                              /\ IF j = 1 THEN st # "Failed" ELSE q[j - 1].ev = "disconnected"
    BY <1>9 DEF Fails
  <2>2. j # 1
    BY <1>1, <1>9, <2>1
  <2>3. j - 1 \in DOMAIN t /\ t[j - 1].ev = "failed"
    BY <1>3, <2>1, <2>2
  <2>4. CASE j - 1 = 1
    <3>1. h.ev = "disconnected"
      BY <1>1, <2>1, <2>2, <2>4
    <3>2. s2 # "Failed"
      BY <1>9, <3>1 DEF After, StateOf, Signals, h
    <3> QED
      BY <2>3, <2>4, <3>2 DEF Fails
  <2>5. CASE j - 1 # 1
    <3>1. t[(j - 1) - 1] = q[j - 1]
      BY <1>1, <2>2, <2>5
    <3> QED
      BY <2>1, <2>2, <2>3, <2>5, <3>1 DEF Fails
  <2> QED
    BY <2>4, <2>5
<1> QED
  BY <1>1, <1>4, <1>5, <1>6, <1>8, <1>9 DEF t, h

\* What is selected from a queue is what is at the places, and the last of the
\* queue stays the last when it is selected.  The rank of a place is its number
\* in the order of the places: an injection, and so a bijection.
LEMMA SelectedIs ==
    ASSUME NEW q \in Seq(Events), NEW I \in SUBSET DOMAIN q
    PROVE  LET t == Selected(q, I)
           IN  /\ t \in Seq(Events)
               /\ Elements(t) = {q[i] : i \in I}
               /\ Len(q) \in I => Len(t) >= 1 /\ t[Len(t)] = q[Len(q)]
<1> DEFINE c == Cardinality(I)
           rank == [i \in I |-> Cardinality(I \cap (1..i))]
           t == Selected(q, I)
<1>1. /\ Len(q) \in Nat /\ DOMAIN q = 1..Len(q) /\ I \subseteq 1..Len(q)
      /\ \A i \in I : q[i] \in Events
  OBVIOUS
<1>2. IsFiniteSet(1..Len(q))
  BY <1>1, FS_Interval
<1>3. IsFiniteSet(I) /\ c \in Nat
  BY <1>1, <1>2, FS_Subset, FS_CardinalityType
<1>4. ASSUME NEW i \in I
      PROVE  rank[i] \in 1..c /\ IsFiniteSet(I \cap (1..i))
  <2>1. IsFiniteSet(I \cap (1..i)) /\ rank[i] <= c /\ rank[i] \in Nat
    BY <1>3, FS_Subset, FS_CardinalityType
  <2>2. i \in I \cap (1..i)
    BY <1>1
  <2>3. rank[i] # 0
    BY <2>1, <2>2, FS_EmptySet
  <2> QED
    BY <1>3, <2>1, <2>3
<1>5. ASSUME NEW i \in I, NEW j \in I, i < j
      PROVE  rank[i] # rank[j]
  <2>1. I \cap (1..i) \subseteq I \cap (1..j) /\ j \in I \cap (1..j) /\ j \notin I \cap (1..i)
    BY <1>1, <1>5
  <2>2. IsFiniteSet(I \cap (1..j))
    BY <1>4
  <2> QED
    BY <2>1, <2>2, FS_Subset
<1>6. \A i, j \in I : rank[i] = rank[j] => i = j
  <2>1. \A i, j \in I : i = j \/ i < j \/ j < i
    BY <1>1
  <2> QED
    BY <1>5, <2>1
<1>7. rank \in Injection(I, 1..c)
  BY <1>4, <1>6 DEF Injection, IsInjective
<1>8. IsFiniteSet(1..c) /\ Cardinality(1..c) = c
  BY <1>3, FS_Interval
<1>9. rank \in Surjection(I, 1..c)
  BY <1>7, <1>8, FS_Injection
<1>10. \A n \in 1..c : \E i \in I : rank[i] = n
  BY <1>9 DEF Surjection
<1> DEFINE place(n) == CHOOSE i \in I : Cardinality(I \cap (1..i)) = n
<1>11. \A n \in 1..c : place(n) \in I /\ rank[place(n)] = n
  BY <1>10
<1>12. t = [n \in 1..c |-> q[place(n)]]
  BY DEF Selected
<1>13. t \in Seq(Events) /\ Len(t) = c /\ DOMAIN t = 1..c
  <2> HIDE DEF rank, c, place, t
  <2>1. t \in [1..c -> Events]
    BY <1>1, <1>11, <1>12
  <2> QED
    BY <1>3, <2>1
<1> HIDE DEF place, t
<1>14. ASSUME NEW i \in I
       PROVE  rank[i] \in DOMAIN t /\ t[rank[i]] = q[i]
  <2>1. rank[i] \in 1..c
    BY <1>4
  <2>2. rank[place(rank[i])] = rank[i] /\ place(rank[i]) \in I
    BY <1>11, <2>1
  <2>3. place(rank[i]) = i
    BY <1>6, <2>2
  <2> HIDE DEF rank, c
  <2> QED
    BY <1>12, <1>13, <2>1, <2>3
<1>15. Elements(t) = {q[i] : i \in I}
  <2>1. \A n \in DOMAIN t : t[n] = q[place(n)] /\ place(n) \in I
    BY <1>11, <1>12, <1>13
  <2> HIDE DEF rank, c
  <2> QED
    BY <1>14, <2>1 DEF Elements
<1>16. ASSUME Len(q) \in I PROVE Len(t) >= 1 /\ t[Len(t)] = q[Len(q)]
  <2>1. I \cap (1..Len(q)) = I
    BY <1>1
  <2>2. rank[Len(q)] = c
    BY <1>16, <2>1
  <2>3. c \in 1..c
    BY <1>4, <1>16, <2>2
  <2> HIDE DEF rank, c
  <2> QED
    BY <1>13, <1>14, <1>16, <2>2, <2>3
<1> QED
  BY <1>13, <1>15, <1>16 DEF t

-------------------------------------------------------------------------------
(* The operations of a channel. *)

\* What is true of the channel of either peer.
ChannelOK(ch) ==
    /\ ch \in Channels
    /\ ch.receiving <=> ch.linked
    /\ ch.linked => ch.out # 0
    /\ WillBeConnected(ch) <=> ch.linked
    /\ \A e \in Elements(ch.queue) : e.ev \in {"release", "coupled"} => ch.out = 0
    /\ Ordered(ch.queue)

CoupledIn(ch) == {e \in Elements(ch.queue) : e.ev = "coupled"}
EndedIn(ch) == {e \in Elements(ch.queue) : e.ev = "ended"}

WillFail(ch) == Fails(ch.queue, ch.state)

\* The channel d has come from ch by a step that neither posts nor delivers a
\* coupling, and posts no end.
Follows(ch, d) == /\ ChannelOK(d)
                  /\ CoupledIn(d) = CoupledIn(ch) /\ EndedIn(d) \subseteq EndedIn(ch)
                  /\ WillFail(ch) => WillFail(d)

LEMMA EventType ==
    /\ \A ev \in EventNames : Event(ev, 0) \in Events
    /\ \A ev \in EventNames : \A s \in Sessions : Event(ev, s) \in Events
    /\ \A ev, s : Event(ev, s).ev = ev /\ Event(ev, s).s = s
BY DEF Event, Events

LEMMA ChannelFields ==
    ASSUME NEW ch \in Channels
    PROVE  /\ ch.input \in BOOLEAN /\ ch.deaf \in BOOLEAN /\ ch.linked \in BOOLEAN
           /\ ch.receiving \in BOOLEAN /\ ch.out \in Sessions \cup {0}
           /\ ch.state \in {"Connected", "Disconnected", "Failed"} /\ ch.queue \in Seq(Events)
BY DEF Channels

\* A queue is extended by one event, or by two.
LEMMA ConcatOne ==
    ASSUME NEW q \in Seq(Events), NEW d \in Events
    PROVE  /\ q \o <<d>> = Append(q, d)
           /\ q \o Append(<<>>, d) = Append(q, d)
           /\ \A r \in Events : q \o Append(<<r>>, d) = Append(Append(q, r), d)
<1>1. q \o <<d>> = Append(q, d) /\ Append(<<>>, d) = <<d>>
  OBVIOUS
<1>2. ASSUME NEW r \in Events PROVE q \o Append(<<r>>, d) = Append(Append(q, r), d)
  OBVIOUS
<1> QED
  BY <1>1, <1>2

LEMMA ReleasedFields ==
    ASSUME NEW ch \in Channels
    PROVE  LET d == Released(ch)
           IN  /\ d \in Channels /\ d.out = 0 /\ ~d.linked /\ ~d.receiving
               /\ d.state = ch.state /\ d.input = ch.input
               /\ d.queue = Append(IF ch.linked THEN Append(ch.queue, Event("release", ch.out))
                                                ELSE ch.queue, Event("disconnected", 0))
<1> DEFINE c == [ch EXCEPT !.out = 0, !.linked = FALSE, !.receiving = FALSE]
           evs == Append(ReleaseEvents(ch), Event("disconnected", 0))
           q == Append(IF ch.linked THEN Append(ch.queue, Event("release", ch.out))
                                    ELSE ch.queue, Event("disconnected", 0))
<1>1. /\ ch.queue \in Seq(Events) /\ ch.linked \in BOOLEAN
      /\ Event("release", ch.out) \in Events /\ Event("disconnected", 0) \in Events
  BY ChannelFields, EventType DEF EventNames
<1>2. q \in Seq(Events)
  BY <1>1
<1>3. ch.queue \o evs = q
  <2>1. PICK r \in Events : r = Event("release", ch.out)
    BY <1>1
  <2>2. PICK e \in Events : e = Event("disconnected", 0)
    BY <1>1
  <2>3. /\ ch.queue \o Append(<<>>, e) = Append(ch.queue, e)
        /\ ch.queue \o Append(<<r>>, e) = Append(Append(ch.queue, r), e)
    BY <1>1, <2>1, <2>2, ConcatOne
  <2> QED
    BY <2>1, <2>2, <2>3 DEF ReleaseEvents
<1>4. /\ c \in Channels /\ c.queue = ch.queue /\ c.out = 0 /\ c.linked = FALSE /\ c.receiving = FALSE
      /\ c.state = ch.state /\ c.input = ch.input
  BY DEF Channels
<1> HIDE DEF c, evs, q
<1>5. Released(ch) = [c EXCEPT !.queue = q]
  BY <1>3, <1>4 DEF Released, Posted, c, evs
<1>6. /\ [c EXCEPT !.queue = q] \in Channels /\ [c EXCEPT !.queue = q].queue = q
      /\ [c EXCEPT !.queue = q].out = c.out /\ [c EXCEPT !.queue = q].linked = c.linked
      /\ [c EXCEPT !.queue = q].receiving = c.receiving /\ [c EXCEPT !.queue = q].state = c.state
      /\ [c EXCEPT !.queue = q].input = c.input
  BY <1>2, <1>4 DEF Channels
<1> QED
  BY <1>4, <1>5, <1>6 DEF q

\* After releaseConnection() the state that comes is Disconnected.
LEMMA ReleasedFollows ==
    ASSUME NEW ch, ChannelOK(ch)
    PROVE  /\ Follows(ch, Released(ch))
           /\ Released(ch).out = 0 /\ ~Released(ch).linked /\ Released(ch).input = ch.input
           /\ ~ch.linked => \A e \in Elements(Released(ch).queue) :
                                e \in Elements(ch.queue) \/ e.ev = "disconnected"
           /\ Released(ch).queue # <<>>
           /\ Released(ch).queue[Len(Released(ch).queue)].ev = "disconnected"
<1>1. PICK d : d = Released(ch)
  OBVIOUS
<1>2. PICK r : r = Event("release", ch.out)
  OBVIOUS
<1>3. PICK e : e = Event("disconnected", 0)
  OBVIOUS
<1>4. PICK q : q = IF ch.linked THEN Append(ch.queue, r) ELSE ch.queue
  OBVIOUS
<1>5. /\ d \in Channels /\ d.out = 0 /\ ~d.linked /\ ~d.receiving
      /\ d.state = ch.state /\ d.input = ch.input /\ d.queue = Append(q, e)
  BY <1>1, <1>2, <1>3, <1>4, ReleasedFields DEF ChannelOK
<1>6. /\ r \in Events /\ r.ev = "release" /\ e \in Events /\ e.ev = "disconnected"
      /\ ch.queue \in Seq(Events)
  BY <1>2, <1>3, ChannelFields, EventType DEF ChannelOK, EventNames
<1>7. /\ q \in Seq(Events) /\ Ordered(q)
      /\ Elements(q) = IF ch.linked THEN Elements(ch.queue) \cup {r} ELSE Elements(ch.queue)
      /\ Fails(ch.queue, ch.state) => Fails(q, ch.state)
  <2>1. CASE ch.linked
    <3>1. \A f \in Elements(ch.queue) : f.ev # "coupled"
      BY <2>1 DEF ChannelOK
    <3> QED
      BY <2>1, <3>1, <1>4, <1>6, AppendedElements, AppendedQueue DEF ChannelOK
  <2>2. CASE ~ch.linked
    BY <2>2, <1>4, <1>6 DEF ChannelOK
  <2> QED
    BY <2>1, <2>2
<1>8. /\ Elements(d.queue) = Elements(q) \cup {e}
      /\ d.queue # <<>> /\ d.queue[Len(d.queue)] = e
      /\ Ordered(d.queue)
      /\ ~Comes(d.queue, d.state)
      /\ Fails(q, ch.state) => Fails(d.queue, d.state)
  <2>1. /\ Len(q) \in Nat /\ Len(Append(q, e)) = Len(q) + 1 /\ Append(q, e)[Len(q) + 1] = e
        /\ Append(q, e) # <<>>
    BY <1>6, <1>7
  <2>2. Elements(Append(q, e)) = Elements(q) \cup {e}
    BY <1>6, <1>7, AppendedElements
  <2>3. /\ Ordered(Append(q, e)) /\ ~Comes(Append(q, e), d.state)
        /\ Fails(q, d.state) => Fails(Append(q, e), d.state)
    BY <1>6, <1>7, AppendedQueue DEF Signals
  <2> QED
    BY <1>5, <2>1, <2>2, <2>3
<1>9. ChannelOK(d)
  BY <1>5, <1>8 DEF ChannelOK, WillBeConnected, Comes
<1>10. /\ CoupledIn(d) = CoupledIn(ch) /\ EndedIn(d) \subseteq EndedIn(ch)
       /\ WillFail(ch) => WillFail(d)
  BY <1>5, <1>6, <1>7, <1>8 DEF CoupledIn, EndedIn, WillFail
<1>11. ~ch.linked => \A f \in Elements(d.queue) : f \in Elements(ch.queue) \/ f.ev = "disconnected"
  BY <1>6, <1>7, <1>8
<1> QED
  BY <1>1, <1>5, <1>6, <1>8, <1>9, <1>10, <1>11 DEF Follows

\* One event is posted.
LEMMA PostedFields ==
    ASSUME NEW ch \in Channels, NEW e \in Events
    PROVE  LET d == Posted(ch, <<e>>)
           IN  /\ d \in Channels /\ d.queue = Append(ch.queue, e) /\ d.out = ch.out
               /\ d.linked = ch.linked /\ d.receiving = ch.receiving
               /\ d.state = ch.state /\ d.input = ch.input
<1>1. ch.queue \in Seq(Events)
  BY ChannelFields
<1>2. ch.queue \o <<e>> = Append(ch.queue, e) /\ Append(ch.queue, e) \in Seq(Events)
  BY <1>1, ConcatOne
<1>3. Posted(ch, <<e>>) = [ch EXCEPT !.queue = Append(ch.queue, e)]
  BY <1>2 DEF Posted
<1>4. PICK q \in Seq(Events) : q = Append(ch.queue, e)
  BY <1>2
<1>5. Posted(ch, <<e>>) = [ch EXCEPT !.queue = q]
  BY <1>3, <1>4
<1> QED
  BY <1>4, <1>5 DEF Channels

\* The end or the coupling of a session is posted.
LEMMA PostedOK ==
    ASSUME NEW ch, ChannelOK(ch), NEW e \in Events, e.ev \in {"coupled", "ended"},
           e.ev = "coupled" => /\ ch.out = 0
                               /\ \A f \in Elements(ch.queue) : f.ev \notin {"coupled", "ended"}
    PROVE  LET d == Posted(ch, <<e>>)
           IN  /\ ChannelOK(d) /\ d.out = ch.out /\ d.input = ch.input
               /\ e.ev = "coupled" => CoupledIn(d) = CoupledIn(ch) \cup {e}
               /\ e.ev # "coupled" => CoupledIn(d) = CoupledIn(ch)
               /\ e.ev # "ended" => EndedIn(d) \subseteq EndedIn(ch)
               /\ WillFail(ch) => WillFail(d)
<1>1. PICK d : d = Posted(ch, <<e>>)
  OBVIOUS
<1>2. /\ d \in Channels /\ d.queue = Append(ch.queue, e) /\ d.out = ch.out
      /\ d.linked = ch.linked /\ d.receiving = ch.receiving
      /\ d.state = ch.state /\ d.input = ch.input
  BY <1>1, PostedFields DEF ChannelOK
<1>3. ch.queue \in Seq(Events) /\ e.ev \notin Signals
  BY ChannelFields DEF ChannelOK, Signals
<1>4. Elements(d.queue) = Elements(ch.queue) \cup {e}
  BY <1>2, <1>3, AppendedElements
<1>5. /\ Ordered(d.queue) /\ (Comes(d.queue, d.state) <=> Comes(ch.queue, ch.state))
      /\ Fails(ch.queue, ch.state) => Fails(d.queue, d.state)
  <2>1. /\ Comes(Append(ch.queue, e), ch.state) <=> Comes(ch.queue, ch.state)
        /\ Fails(ch.queue, ch.state) => Fails(Append(ch.queue, e), ch.state)
        /\ Ordered(Append(ch.queue, e))
    BY <1>3, AppendedQueue DEF ChannelOK
  <2> QED
    BY <1>2, <2>1
<1>6. WillBeConnected(d) <=> WillBeConnected(ch)
  BY <1>5 DEF WillBeConnected, Comes
<1>7. ChannelOK(d)
  BY <1>2, <1>4, <1>5, <1>6 DEF ChannelOK
<1> QED
  BY <1>1, <1>2, <1>4, <1>5, <1>7 DEF CoupledIn, EndedIn, WillFail

\* m_out of a session is connected.
LEMMA LinkedFollows ==
    ASSUME NEW ch, ChannelOK(ch), ch.out # 0
    PROVE  Follows(ch, Linked(ch)) /\ Linked(ch).out = ch.out /\ Linked(ch).input = ch.input
<1>1. PICK c : c = [ch EXCEPT !.linked = TRUE, !.receiving = TRUE]
  OBVIOUS
<1>2. PICK e : e = Event("connected", 0)
  OBVIOUS
<1>3. e \in Events /\ e.ev = "connected"
  BY <1>2, EventType DEF EventNames
<1>4. /\ c \in Channels /\ c.queue = ch.queue /\ c.out = ch.out /\ c.linked = TRUE
      /\ c.receiving = TRUE /\ c.state = ch.state /\ c.input = ch.input
  BY <1>1 DEF ChannelOK, Channels
<1>5. PICK d : d = Posted(c, <<e>>)
  OBVIOUS
<1>6. d = Linked(ch)
  BY <1>1, <1>2, <1>5 DEF Linked
<1>7. /\ d \in Channels /\ d.queue = Append(ch.queue, e) /\ d.out = ch.out /\ d.linked = TRUE
      /\ d.receiving = TRUE /\ d.state = ch.state /\ d.input = ch.input
  BY <1>3, <1>4, <1>5, PostedFields
<1>8. ch.queue \in Seq(Events)
  BY ChannelFields DEF ChannelOK
<1>9. Elements(d.queue) = Elements(ch.queue) \cup {e}
  BY <1>3, <1>7, <1>8, AppendedElements
<1>10. /\ Ordered(d.queue) /\ Comes(d.queue, d.state)
       /\ Fails(ch.queue, ch.state) => Fails(d.queue, d.state)
  <2>1. /\ Comes(Append(ch.queue, e), ch.state)
        /\ Fails(ch.queue, ch.state) => Fails(Append(ch.queue, e), ch.state)
        /\ Ordered(Append(ch.queue, e))
    BY <1>3, <1>8, AppendedQueue DEF ChannelOK, Signals
  <2> QED
    BY <1>7, <2>1
<1>11. ChannelOK(d)
  BY <1>3, <1>7, <1>9, <1>10 DEF ChannelOK, WillBeConnected, Comes
<1>12. /\ CoupledIn(d) = CoupledIn(ch) /\ EndedIn(d) \subseteq EndedIn(ch)
       /\ WillFail(ch) => WillFail(d)
  BY <1>3, <1>7, <1>9, <1>10 DEF CoupledIn, EndedIn, WillFail
<1> QED
  BY <1>6, <1>7, <1>11, <1>12 DEF Follows

LEMMA FollowsTwice ==
    ASSUME NEW a, NEW b, NEW c, Follows(a, b), Follows(b, c)
    PROVE  Follows(a, c)
BY DEF Follows

\* Other fields than the queue's.
LEMMA StartedFollows ==
    ASSUME NEW ch, ChannelOK(ch), NEW bound \in BOOLEAN
    PROVE  /\ Follows(ch, Started(ch, bound))
           /\ Started(ch, bound).out = IF ch.input THEN ch.out ELSE 0
           /\ Started(ch, bound).input = (ch.input \/ bound)
<1>1. CASE ch.input
  <2>1. Started(ch, bound) = ch
    BY <1>1 DEF Started
  <2> QED
    BY <1>1, <2>1 DEF Follows, ChannelOK, Channels
<1>2. CASE ~ch.input
  <2>1. PICK r : r = Released(ch)
    OBVIOUS
  <2>2. Follows(ch, r) /\ r.out = 0
    BY <2>1, ReleasedFollows
  <2>3. PICK d : d = [r EXCEPT !.input = bound, !.deaf = FALSE]
    OBVIOUS
  <2>4. /\ d \in Channels /\ d.queue = r.queue /\ d.out = r.out /\ d.linked = r.linked
        /\ d.receiving = r.receiving /\ d.state = r.state /\ d.input = bound
    BY <2>2, <2>3 DEF Follows, ChannelOK, Channels
  <2>5. Follows(r, d)
    BY <2>2, <2>4 DEF Follows, ChannelOK, CoupledIn, EndedIn, WillFail, WillBeConnected
  <2>6. d = Started(ch, bound)
    BY <1>2, <2>1, <2>3 DEF Started
  <2> QED
    BY <1>2, <2>2, <2>4, <2>5, <2>6, FollowsTwice
<1> QED
  BY <1>1, <1>2

LEMMA ArrivedFollows ==
    ASSUME NEW ch, ChannelOK(ch)
    PROVE  Follows(ch, Arrived(ch)) /\ Arrived(ch).out = ch.out /\ Arrived(ch).input = ch.input
<1>1. CASE ch.input /\ ~ch.receiving
  <2>1. PICK d : d = [ch EXCEPT !.deaf = TRUE]
    OBVIOUS
  <2>2. /\ d \in Channels /\ d.queue = ch.queue /\ d.out = ch.out /\ d.linked = ch.linked
        /\ d.receiving = ch.receiving /\ d.state = ch.state /\ d.input = ch.input
    BY <2>1 DEF ChannelOK, Channels
  <2>3. Follows(ch, d)
    BY <2>2 DEF Follows, ChannelOK, CoupledIn, EndedIn, WillFail, WillBeConnected
  <2> QED
    BY <1>1, <2>1, <2>2, <2>3 DEF Arrived
<1>2. CASE ~(ch.input /\ ~ch.receiving)
  BY <1>2 DEF Arrived, Follows
<1> QED
  BY <1>1, <1>2

\* connectTo() with nothing that waits and could end the new connection.
LEMMA ConnectedToFollows ==
    ASSUME NEW ch, ChannelOK(ch), NEW s \in Sessions, NEW atOnce \in BOOLEAN,
           \A e \in Elements(ch.queue) : e.ev \notin {"release", "coupled"}
    PROVE  LET d == ConnectedTo(ch, s, atOnce)
           IN  /\ Follows(ch, d) /\ d.out \in {ch.out, s} /\ d.input = ch.input
               /\ ch.input /\ ~ch.linked => d.out = s
<1>1. CASE ~ch.input \/ ch.linked
  BY <1>1 DEF ConnectedTo, Follows
<1>2. CASE ch.input /\ ~ch.linked
  <2>1. PICK r : r = Released(ch)
    OBVIOUS
  <2>2. /\ Follows(ch, r) /\ r.input = ch.input /\ ~r.linked
        /\ \A e \in Elements(r.queue) : e \in Elements(ch.queue) \/ e.ev = "disconnected"
    BY <1>2, <2>1, ReleasedFollows
  <2>3. \A e \in Elements(r.queue) : e.ev \notin {"release", "coupled"}
    BY <2>2
  <2>4. PICK f : f = [r EXCEPT !.out = s]
    OBVIOUS
  <2>5. /\ f \in Channels /\ f.queue = r.queue /\ f.out = s /\ f.linked = r.linked
        /\ f.receiving = r.receiving /\ f.state = r.state /\ f.input = r.input
    BY <2>2, <2>4 DEF Follows, ChannelOK, Channels
  <2>6. Follows(r, f)
    BY <2>2, <2>3, <2>5 DEF Follows, ChannelOK, CoupledIn, EndedIn, WillFail, WillBeConnected
  <2>7. Follows(ch, f)
    BY <2>2, <2>6, FollowsTwice
  <2>8. s # 0
    BY SessionsType
  <2>9. Follows(f, Linked(f)) /\ Linked(f).out = f.out /\ Linked(f).input = f.input
    BY <2>5, <2>6, <2>8, LinkedFollows DEF Follows
  <2>10. ConnectedTo(ch, s, atOnce) = IF atOnce THEN Linked(f) ELSE f
    BY <1>2, <2>1, <2>4 DEF ConnectedTo
  <2> QED
    BY <2>2, <2>5, <2>7, <2>9, <2>10, FollowsTwice
<1> QED
  BY <1>1, <1>2 DEF ChannelOK

\* The input is lost: failed waits behind a disconnected.
LEMMA InputLostFollows ==
    ASSUME NEW ch, ChannelOK(ch)
    PROVE  /\ Follows(ch, InputLost(ch)) /\ InputLost(ch).out = 0
           /\ ~InputLost(ch).input /\ WillFail(InputLost(ch))
<1>1. PICK c : c = [ch EXCEPT !.input = FALSE]
  OBVIOUS
<1>2. /\ c \in Channels /\ c.queue = ch.queue /\ c.out = ch.out /\ c.linked = ch.linked
      /\ c.receiving = ch.receiving /\ c.state = ch.state /\ c.input = FALSE
  BY <1>1 DEF ChannelOK, Channels
<1>3. Follows(ch, c)
  BY <1>2 DEF Follows, ChannelOK, CoupledIn, EndedIn, WillFail, WillBeConnected
<1>4. PICK r : r = Released(c)
  OBVIOUS
<1>5. /\ Follows(c, r) /\ r.out = 0 /\ ~r.linked /\ r.input = FALSE /\ r.queue # <<>>
      /\ r.queue[Len(r.queue)].ev = "disconnected"
  BY <1>2, <1>3, <1>4, ReleasedFollows DEF Follows
<1>6. PICK e : e = Event("failed", 0)
  OBVIOUS
<1>7. e \in Events /\ e.ev = "failed"
  BY <1>6, EventType DEF EventNames
<1>8. PICK d : d = Posted(r, <<e>>)
  OBVIOUS
<1>9. d = InputLost(ch)
  BY <1>1, <1>4, <1>6, <1>8 DEF InputLost
<1>10. r \in Channels /\ r.queue \in Seq(Events) /\ ChannelOK(r)
  BY <1>5, ChannelFields DEF Follows, ChannelOK
<1>11. /\ d \in Channels /\ d.queue = Append(r.queue, e) /\ d.out = r.out /\ d.linked = r.linked
       /\ d.receiving = r.receiving /\ d.state = r.state /\ d.input = r.input
  BY <1>7, <1>8, <1>10, PostedFields
<1>12. Elements(d.queue) = Elements(r.queue) \cup {e}
  BY <1>7, <1>10, <1>11, AppendedElements
<1>13. /\ Ordered(d.queue) /\ ~Comes(d.queue, d.state)
       /\ Fails(r.queue, r.state) => Fails(d.queue, d.state)
  <2>1. /\ ~Comes(Append(r.queue, e), r.state)
        /\ Fails(r.queue, r.state) => Fails(Append(r.queue, e), r.state)
        /\ Ordered(Append(r.queue, e))
    BY <1>7, <1>10, AppendedQueue DEF ChannelOK, Signals
  <2> QED
    BY <1>11, <2>1
<1>14. Follows(r, d)
  BY <1>5, <1>7, <1>10, <1>11, <1>12, <1>13
     DEF Follows, ChannelOK, WillBeConnected, Comes, CoupledIn, EndedIn, WillFail
<1>15. Fails(d.queue, d.state)
  <2> DEFINE l == Len(r.queue)
  <2>1. /\ l \in Nat /\ l # 0 /\ l + 1 \in DOMAIN Append(r.queue, e)
        /\ Append(r.queue, e)[l + 1] = e /\ Append(r.queue, e)[l] = r.queue[l]
    BY <1>5, <1>7, <1>10
  <2>2. l + 1 # 1 /\ (l + 1) - 1 = l
    BY <2>1
  <2> QED
    BY <1>5, <1>7, <1>11, <2>1, <2>2 DEF Fails
<1> QED
  BY <1>3, <1>5, <1>9, <1>11, <1>14, <1>15, FollowsTwice DEF WillFail

\* The communication object goes: what waited from it does, too.
LEMMA DisconnectedOK ==
    ASSUME NEW ch, ChannelOK(ch)
    PROVE  LET d == Disconnected(ch)
           IN  /\ ChannelOK(d) /\ CoupledIn(d) = {} /\ EndedIn(d) = {}
               /\ d.out = 0 /\ ~d.linked /\ d.input = ch.input
<1>1. PICK r : r = Released(ch)
  OBVIOUS
<1>2. /\ ChannelOK(r) /\ r.out = 0 /\ ~r.linked /\ r.input = ch.input /\ r.queue # <<>>
      /\ r.queue[Len(r.queue)].ev = "disconnected"
  BY <1>1, ReleasedFollows DEF Follows
<1>3. r.queue \in Seq(Events) /\ Len(r.queue) \in DOMAIN r.queue
  <2>1. r.queue \in Seq(Events)
    BY <1>2, ChannelFields DEF ChannelOK
  <2> QED
    BY <1>2, <2>1
<1>4. PICK I : I = {i \in DOMAIN r.queue : r.queue[i].ev \notin {"coupled", "ended"}}
  OBVIOUS
<1>5. PICK q : q = Selected(r.queue, I)
  OBVIOUS
<1>6. /\ q \in Seq(Events) /\ Elements(q) = {r.queue[i] : i \in I}
      /\ Len(q) >= 1 /\ q[Len(q)] = r.queue[Len(r.queue)]
  BY <1>2, <1>3, <1>4, <1>5, SelectedIs
<1>7. /\ Elements(q) \subseteq Elements(r.queue)
      /\ \A e \in Elements(q) : e.ev \notin {"coupled", "ended"}
  BY <1>4, <1>6 DEF Elements
<1>8. PICK d : d = [r EXCEPT !.queue = q]
  OBVIOUS
<1>9. d = Disconnected(ch)
  BY <1>1, <1>4, <1>5, <1>8 DEF Disconnected, Forgotten
<1>10. /\ d \in Channels /\ d.queue = q /\ d.out = 0 /\ ~d.linked
       /\ d.receiving = r.receiving /\ d.state = r.state /\ d.input = r.input
  BY <1>2, <1>6, <1>8 DEF ChannelOK, Channels
<1>11. \A i \in DOMAIN q : q[i] \in Elements(q)
  BY DEF Elements
<1>12. Ordered(q)
  BY <1>7, <1>11 DEF Ordered
<1>13. ~Comes(q, d.state)
  <2>1. /\ Len(q) \in DOMAIN q /\ \A i \in DOMAIN q : i = Len(q) \/ Len(q) > i
        /\ q[Len(q)].ev = "disconnected"
    BY <1>2, <1>6
  <2> QED
    BY <1>11, <2>1 DEF Comes, Signals
<1>14. ChannelOK(d)
  BY <1>2, <1>10, <1>12, <1>13 DEF ChannelOK, WillBeConnected, Comes
<1> QED
  BY <1>2, <1>7, <1>9, <1>10, <1>14 DEF CoupledIn, EndedIn

LEMMA StoppedOK ==
    ASSUME NEW ch, ChannelOK(ch), NEW occupied \in BOOLEAN
    PROVE  LET d == Stopped(ch, occupied)
           IN  ChannelOK(d) /\ CoupledIn(d) = {} /\ d.out = 0 /\ d.input = ch.input
<1>1. PICK c : c = Disconnected(ch)
  OBVIOUS
<1>2. ChannelOK(c) /\ CoupledIn(c) = {} /\ c.out = 0 /\ c.input = ch.input
  BY <1>1, DisconnectedOK
<1>3. Follows(c, Released(c)) /\ Released(c).out = 0 /\ Released(c).input = c.input
  BY <1>2, ReleasedFollows
<1>4. Stopped(ch, occupied) = IF occupied THEN Released(c) ELSE c
  BY <1>1 DEF Stopped
<1> QED
  BY <1>2, <1>3, <1>4 DEF Follows

\* The channel when the event at the head of its queue is delivered: a signal
\* makes its state.
Delivered(ch) == IF Head(ch.queue).ev \in Signals
                 THEN WithState([ch EXCEPT !.queue = Tail(@)], Head(ch.queue).ev)
                 ELSE [ch EXCEPT !.queue = Tail(@)]

LEMMA DeliveredOK ==
    ASSUME NEW ch, ChannelOK(ch), ch.queue # <<>>
    PROVE  LET d == Delivered(ch)
               h == Head(ch.queue)
           IN  /\ ChannelOK(d)
               /\ CoupledIn(d) \subseteq CoupledIn(ch) /\ EndedIn(d) \subseteq EndedIn(ch)
               /\ d.out = ch.out /\ d.input = ch.input /\ h \in Events /\ h \in Elements(ch.queue)
               /\ h.ev = "coupled" => \A e \in Elements(d.queue) : e.ev \notin {"coupled", "release"}
               /\ h.ev # "coupled" => CoupledIn(d) = CoupledIn(ch)
               /\ h.ev = "ended" => CoupledIn(d) = {}
               /\ WillFail(ch) /\ (h.ev = "failed" => ch.state = "Failed") => WillFail(d)
<1>1. PICK d : d = Delivered(ch)
  OBVIOUS
<1>2. PICK h : h = Head(ch.queue)
  OBVIOUS
<1>3. ch.queue \in Seq(Events)
  BY ChannelFields DEF ChannelOK
<1>4. /\ Tail(ch.queue) \in Seq(Events) /\ h \in Events /\ h \in Elements(ch.queue)
      /\ Elements(Tail(ch.queue)) \subseteq Elements(ch.queue)
      /\ Elements(ch.queue) \subseteq Elements(Tail(ch.queue)) \cup {h}
      /\ Ordered(Tail(ch.queue))
      /\ h.ev = "coupled" => \A e \in Elements(Tail(ch.queue)) : e.ev \notin {"coupled", "release"}
      /\ h.ev = "ended" => \A e \in Elements(Tail(ch.queue)) : e.ev # "coupled"
      /\ Comes(Tail(ch.queue), After(ch.queue, ch.state)) <=> Comes(ch.queue, ch.state)
      /\ Fails(ch.queue, ch.state) /\ (h.ev = "failed" => ch.state = "Failed")
            => Fails(Tail(ch.queue), After(ch.queue, ch.state))
  BY <1>2, <1>3, TailQueue DEF ChannelOK
<1>5. PICK q \in Seq(Events) : q = Tail(ch.queue)
  BY <1>4
<1>6. PICK st : st = After(ch.queue, ch.state)
  OBVIOUS
<1>7. st \in {"Connected", "Disconnected", "Failed"}
  BY <1>2, <1>6, ChannelFields DEF After, Signals, StateOf, ChannelOK
<1>8. d = [ch EXCEPT !.queue = q, !.state = st]
  <2>1. PICK c : c = [ch EXCEPT !.queue = q]
    OBVIOUS
  <2>2. c \in Channels /\ c.state = ch.state
    BY <1>5, <2>1 DEF ChannelOK, Channels
  <2>3. CASE h.ev \in Signals
    <3>1. st = StateOf(h.ev)
      BY <1>2, <1>6, <2>3 DEF After
    <3>2. d = [c EXCEPT !.state = st]
      BY <1>1, <1>2, <1>5, <2>1, <2>3, <3>1 DEF Delivered, WithState
    <3> QED
      BY <2>1, <3>2
  <2>4. CASE h.ev \notin Signals
    <3>1. st = ch.state
      BY <1>2, <1>6, <2>4 DEF After
    <3>2. d = c
      BY <1>1, <1>2, <1>5, <2>1, <2>4 DEF Delivered
    <3> QED
      BY <2>1, <3>1, <3>2 DEF ChannelOK, Channels
  <2> QED
    BY <2>3, <2>4
<1>9. /\ d \in Channels /\ d.queue = q /\ d.out = ch.out /\ d.linked = ch.linked
      /\ d.receiving = ch.receiving /\ d.state = st /\ d.input = ch.input
  BY <1>7, <1>8 DEF ChannelOK, Channels
<1>10. ChannelOK(d)
  BY <1>4, <1>5, <1>6, <1>9 DEF ChannelOK, WillBeConnected, Comes
<1> QED
  BY <1>1, <1>2, <1>4, <1>5, <1>6, <1>9, <1>10 DEF CoupledIn, EndedIn, WillFail

-------------------------------------------------------------------------------
(* The two peers. *)

\* The types; and nobody knows of a session that has not begun.
SessionsOK == /\ attempts \in Nat /\ Begun \subseteq Sessions
              /\ client \in Begun \cup {0}
              /\ running \in BOOLEAN
              /\ atServer \in [Sessions -> Service!Phases]
              /\ atClient \in [Sessions -> Service!Phases]
              /\ \A s \in Sessions \ Begun : atServer[s] = "none" /\ atClient[s] = "none"

WorkersOK == checked \subseteq Workers /\ uses \in [Peers -> Sessions \cup {0}]

\* The channel ch of the client fits to its session c, and to the phases at of
\* the sessions: the coupling that waits is that of c, and not announced, an
\* announced one is connected while the input stands, and no end waits at all.
ClientOK(ch, c, at) ==
    /\ ch.out # 0 => ch.out = c /\ at[c] = "announced"
    /\ c # 0 /\ at[c] = "announced" /\ ch.input => ch.out = c
    /\ \A e \in CoupledIn(ch) : c # 0 /\ e.s = c /\ at[c] = "coupled"
    /\ c # 0 /\ at[c] = "coupled" => CoupledIn(ch) # {}
    /\ EndedIn(ch) = {}
    /\ c # 0 /\ ~ch.input => WillFail(ch)

\* The same for the server, which is running or not.
ServerOK(ch, r, at) ==
    /\ ch.out # 0 => r /\ at[ch.out] = "announced"
    /\ \A s \in Sessions : at[s] = "announced" => r /\ (ch.input => ch.out = s)
    /\ \A e \in CoupledIn(ch) : r /\ e.s \in Sessions /\ at[e.s] = "coupled"
    /\ \A s \in Sessions : at[s] = "coupled" => r /\ \E e \in CoupledIn(ch) : e.s = s
    /\ r /\ ~ch.input => WillFail(ch)

IInv == /\ chan \in [Peers -> Channels]
        /\ \A p \in Peers : ChannelOK(chan[p])
        /\ SessionsOK
        /\ WorkersOK
        /\ ClientOK(chan[Client], client, atClient)
        /\ ServerOK(chan[Server], running, atServer)

LEMMA TwoPeers ==
    /\ Client \in Peers /\ Server \in Peers /\ Client # Server
    /\ Other(Client) = Server /\ Other(Server) = Client
    /\ \A p \in Peers : p = Client \/ p = Server
<1>1. Client # Server
  BY PeersAssumption
<1>2. (CHOOSE q \in Peers : q # Client) = Server /\ (CHOOSE q \in Peers : q # Server) = Client
  BY <1>1 DEF Peers
<1> QED
  BY <1>1, <1>2 DEF Peers, Other

\* The channel of one peer changes.
LEMMA SetOK ==
    ASSUME IInv, NEW p \in Peers, NEW d, ChannelOK(d), Set(p, d)
    PROVE  /\ chan' \in [Peers -> Channels] /\ chan'[p] = d
           /\ \A q \in Peers : ChannelOK(chan'[q]) /\ (q # p => chan'[q] = chan[q])
BY DEF IInv, Set, ChannelOK

\* A step of the client's channel.
LEMMA ClientSteps ==
    ASSUME IInv, NEW d, ChannelOK(d), Set(Client, d),
           SessionsOK', WorkersOK', UNCHANGED running, UNCHANGED atServer,
           ClientOK(d, client', atClient')
    PROVE  IInv'
<1>1. /\ chan' \in [Peers -> Channels] /\ chan'[Client] = d /\ chan'[Server] = chan[Server]
      /\ \A q \in Peers : ChannelOK(chan'[q])
  BY SetOK, TwoPeers
<1>2. ClientOK(chan'[Client], client', atClient') /\ ServerOK(chan'[Server], running', atServer')
  BY <1>1 DEF IInv
<1> QED
  BY <1>1, <1>2 DEF IInv, ChannelOK, ClientOK, ServerOK, CoupledIn, EndedIn, WillFail, Fails,
                    WillBeConnected, Ordered, Elements

LEMMA ServerSteps ==
    ASSUME IInv, NEW d, ChannelOK(d), Set(Server, d),
           SessionsOK', WorkersOK', UNCHANGED client, UNCHANGED atClient,
           ServerOK(d, running', atServer')
    PROVE  IInv'
<1>1. /\ chan' \in [Peers -> Channels] /\ chan'[Server] = d /\ chan'[Client] = chan[Client]
      /\ \A q \in Peers : ChannelOK(chan'[q])
  BY SetOK, TwoPeers
<1>2. ClientOK(chan'[Client], client', atClient') /\ ServerOK(chan'[Server], running', atServer')
  BY <1>1 DEF IInv
<1> QED
  BY <1>1, <1>2 DEF IInv, ChannelOK, ClientOK, ServerOK, CoupledIn, EndedIn, WillFail, Fails,
                    WillBeConnected, Ordered, Elements

\* A step that keeps the connection and the input, or loses both.
Keeps(ch, d) == \/ d.out = ch.out /\ d.input = ch.input
                \/ d.out = 0 /\ ~d.input /\ WillFail(d)

LEMMA ClientFollows ==
    ASSUME NEW ch, NEW d, NEW c, NEW at, ClientOK(ch, c, at), Follows(ch, d), Keeps(ch, d)
    PROVE  ClientOK(d, c, at)
BY DEF ClientOK, Follows, Keeps

LEMMA ServerFollows ==
    ASSUME NEW ch, NEW d, NEW r, NEW at, ServerOK(ch, r, at), Follows(ch, d), Keeps(ch, d)
    PROVE  ServerOK(d, r, at)
<1>1. CoupledIn(d) = CoupledIn(ch) /\ (WillFail(ch) => WillFail(d))
  BY DEF Follows
<1>2. CASE d.out = ch.out /\ d.input = ch.input
  BY <1>1, <1>2 DEF ServerOK
<1>3. CASE d.out = 0 /\ ~d.input /\ WillFail(d)
  BY <1>1, <1>3 DEF ServerOK
<1> QED
  BY <1>2, <1>3 DEF Keeps

\* Only the channel of p changes.
LEMMA ChannelSteps ==
    ASSUME IInv, NEW p \in Peers, NEW d, Set(p, d), Follows(chan[p], d), Keeps(chan[p], d),
           UNCHANGED peerVars, WorkersOK'
    PROVE  IInv'
<1>1. ChannelOK(d) /\ SessionsOK'
  BY DEF Follows, IInv, SessionsOK, peerVars, Begun, Service!Phases
<1>2. CASE p = Client
  <2>1. ClientOK(d, client, atClient)
    BY <1>2, ClientFollows DEF IInv
  <2> QED
    BY <1>1, <1>2, <2>1, ClientSteps DEF peerVars
<1>3. CASE p = Server
  <2>1. ServerOK(d, running, atServer)
    BY <1>3, ServerFollows DEF IInv
  <2> QED
    BY <1>1, <1>3, <2>1, ServerSteps DEF peerVars
<1> QED
  BY <1>2, <1>3, TwoPeers

-------------------------------------------------------------------------------
(* Initially. *)

LEMMA NewChannelOK == ChannelOK(NewChannel) /\ NewChannel.out = 0 /\ Elements(NewChannel.queue) = {}
<1>1. NewChannel.queue = <<>> /\ DOMAIN <<>> = {} /\ <<>> \in Seq(Events)
  BY DEF NewChannel
<1>2. Elements(NewChannel.queue) = {}
  BY <1>1 DEF Elements
<1>3. NewChannel \in Channels
  BY <1>1 DEF NewChannel, Channels
<1>4. /\ NewChannel.out = 0 /\ ~NewChannel.linked /\ ~NewChannel.receiving
      /\ NewChannel.state = "Disconnected"
  BY DEF NewChannel
<1> QED
  BY <1>1, <1>2, <1>3, <1>4 DEF ChannelOK, WillBeConnected, Ordered

LEMMA InitIInv == Init => IInv
<1> SUFFICES ASSUME Init PROVE IInv
  OBVIOUS
<1>1. \A p \in Peers : chan[p] = NewChannel
  BY DEF Init
<1>2. chan \in [Peers -> Channels] /\ \A p \in Peers : ChannelOK(chan[p])
  BY <1>1, NewChannelOK DEF Init, ChannelOK
<1>3. SessionsOK
  <2>1. Begun = {} /\ attempts = 0 /\ client = 0 /\ running = FALSE
    BY DEF Init, Begun
  <2>2. atServer = [c \in Sessions |-> "none"] /\ atClient = [c \in Sessions |-> "none"]
    BY DEF Init, Service!Init
  <2>3. /\ atServer \in [Sessions -> Service!Phases]
        /\ atClient \in [Sessions -> Service!Phases]
    BY <2>2 DEF Service!Phases
  <2> QED
    BY <2>1, <2>2, <2>3 DEF SessionsOK
<1>4. WorkersOK
  BY DEF Init, WorkersOK
<1>5. ClientOK(NewChannel, 0, atClient) /\ ServerOK(NewChannel, FALSE, atServer)
  <2>1. \A s \in Sessions : atServer[s] = "none"
    BY DEF Init, Service!Init
  <2> QED
    BY <2>1, NewChannelOK DEF ClientOK, ServerOK, CoupledIn, EndedIn
<1>6. chan[Client] = NewChannel /\ chan[Server] = NewChannel /\ client = 0 /\ running = FALSE
  BY <1>1, TwoPeers DEF Init
<1> QED
  BY <1>2, <1>3, <1>4, <1>5, <1>6 DEF IInv

-------------------------------------------------------------------------------
(* The client's steps. *)

LEMMA ClientEndsOK ==
    ASSUME SessionsOK, ClientEnds
    PROVE  /\ atServer' \in [Sessions -> Service!Phases] /\ atClient' \in [Sessions -> Service!Phases]
           /\ UNCHANGED atServer
           /\ \A s \in Sessions \ Begun : atServer'[s] = "none" /\ atClient'[s] = "none"
BY DEF SessionsOK, ClientEnds, Service!ClientEnds, Service!Phases

\* Without a session nothing waits and nothing is connected.
LEMMA NoSession ==
    ASSUME IInv, client = 0
    PROVE  CoupledIn(chan[Client]) = {} /\ chan[Client].out = 0
BY DEF IInv, ClientOK

LEMMA ClientChannel ==
    ASSUME IInv
    PROVE  /\ ChannelOK(chan[Client]) /\ EndedIn(chan[Client]) = {}
           /\ ClientOK(chan[Client], client, atClient)
           /\ ChannelOK(chan[Server]) /\ ServerOK(chan[Server], running, atServer)
BY TwoPeers DEF IInv, ClientOK

LEMMA ConnectToHostOK == IInv /\ ConnectToHost => IInv'
<1> SUFFICES ASSUME IInv, ConnectToHost PROVE IInv'
  OBVIOUS
<1>1. PICK base : base = IF client = 0 THEN chan[Client] ELSE Disconnected(chan[Client])
  OBVIOUS
<1>2. ChannelOK(base) /\ CoupledIn(base) = {} /\ EndedIn(base) = {} /\ base.out = 0
  BY <1>1, ClientChannel, NoSession, DisconnectedOK
<1>3. PICK bound \in BOOLEAN :
          /\ Set(Client, Started(base, bound))
          /\ attempts' = IF Started(base, bound).input THEN attempts + 1 ELSE attempts
          /\ client' = IF Started(base, bound).input THEN attempts + 1 ELSE 0
  BY <1>1 DEF ConnectToHost
<1>4. PICK d : d = Started(base, bound)
  OBVIOUS
<1>5. Follows(base, d) /\ d.out = 0
  BY <1>2, <1>4, StartedFollows
<1>6. /\ attempts' = IF d.input THEN attempts + 1 ELSE attempts
      /\ client' = IF d.input THEN attempts + 1 ELSE 0
  BY <1>3, <1>4
<1>7. ClientEnds /\ attempts + 1 \in Sessions /\ running' = running /\ WorkersOK'
  BY DEF ConnectToHost, workerVars, IInv, WorkersOK
<1>8. SessionsOK'
  <2>1. /\ atServer' \in [Sessions -> Service!Phases] /\ atClient' \in [Sessions -> Service!Phases]
        /\ \A s \in Sessions \ Begun : atServer'[s] = "none" /\ atClient'[s] = "none"
    BY <1>7, ClientEndsOK DEF IInv
  <2>2. /\ attempts' \in Nat /\ Begun' \subseteq Sessions /\ client' \in Begun' \cup {0}
        /\ Begun \subseteq Begun'
    BY <1>6, <1>7 DEF IInv, SessionsOK, Begun
  <2> QED
    BY <1>7, <2>1, <2>2 DEF SessionsOK, IInv, Service!Phases
<1>9. ClientOK(d, client', atClient')
  <2>1. CoupledIn(d) = {} /\ EndedIn(d) = {}
    BY <1>2, <1>5 DEF Follows
  <2>2. client' # 0 => d.input /\ client' = attempts + 1
    BY <1>6
  <2>3. attempts + 1 \in Sessions \ Begun
    BY <1>7 DEF IInv, SessionsOK, Begun
  <2>4. client' # 0 => atClient'[client'] = "none"
    BY <1>7, <2>2, <2>3, ClientEndsOK DEF IInv
  <2> QED
    BY <1>5, <2>1, <2>2, <2>4 DEF ClientOK
<1> QED
  BY <1>3, <1>4, <1>5, <1>7, <1>8, <1>9, ClientEndsOK, ClientSteps DEF Follows, IInv

LEMMA ClientCouplesOK == IInv /\ ClientCouples => IInv'
<1> SUFFICES ASSUME IInv, ClientCouples PROVE IInv'
  OBVIOUS
<1>1. PICK e : e = Event("coupled", client)
  OBVIOUS
<1>2. /\ client # 0 /\ client \in Sessions /\ atClient[client] = "none"
      /\ atClient' = [atClient EXCEPT ![client] = "coupled"]
      /\ atServer' = atServer /\ attempts' = attempts /\ client' = client /\ running' = running
      /\ checked' = checked /\ uses' = uses
      /\ Set(Client, Posted(chan[Client], <<e>>))
  BY <1>1 DEF ClientCouples, Service!ClientCouples, workerVars, IInv, SessionsOK
<1>3. e \in Events /\ e.ev = "coupled" /\ e.s = client
  BY <1>1, <1>2, EventType DEF EventNames
<1>4. CoupledIn(chan[Client]) = {} /\ chan[Client].out = 0 /\ EndedIn(chan[Client]) = {}
  BY <1>2, ClientChannel DEF ClientOK
<1>5. PICK d : d = Posted(chan[Client], <<e>>)
  OBVIOUS
<1>6. /\ ChannelOK(d) /\ d.out = chan[Client].out /\ d.input = chan[Client].input
      /\ CoupledIn(d) = {e}
      /\ EndedIn(d) \subseteq EndedIn(chan[Client])
      /\ WillFail(chan[Client]) => WillFail(d)
  <2>1. \A f \in Elements(chan[Client].queue) : f.ev \notin {"coupled", "ended"}
    BY <1>4 DEF CoupledIn, EndedIn
  <2> QED
    BY <1>3, <1>4, <1>5, <2>1, ClientChannel, PostedOK
<1>7. atClient' \in [Sessions -> Service!Phases] /\ atClient'[client] = "coupled"
  BY <1>2 DEF IInv, SessionsOK, Service!Phases
<1>8. SessionsOK' /\ WorkersOK'
  BY <1>2, <1>7 DEF IInv, SessionsOK, WorkersOK, Begun, Service!Phases
<1>9. ClientOK(d, client', atClient')
  <2>1. chan[Client].input \/ WillFail(chan[Client])
    BY <1>2, ClientChannel DEF ClientOK
  <2> QED
    BY <1>2, <1>3, <1>4, <1>6, <1>7, <2>1 DEF ClientOK
<1> QED
  BY <1>2, <1>5, <1>6, <1>8, <1>9, ClientSteps

\* An event that is no signal is taken.
LEMMA TakenIs ==
    ASSUME IInv, NEW p \in Peers, chan[p].queue # <<>>, Head(chan[p].queue).ev \notin Signals
    PROVE  Taken(p) = Delivered(chan[p])
BY DEF Taken, Delivered

LEMMA ClientOnCoupledOK == IInv /\ ClientOnCoupled => IInv'
<1> SUFFICES ASSUME IInv, ClientOnCoupled PROVE IInv'
  OBVIOUS
<1>1. PICK ch : ch = chan[Client]
  OBVIOUS
<1>2. PICK h : h = Head(ch.queue)
  OBVIOUS
<1>3. ch.queue # <<>> /\ h.ev = "coupled"
  BY <1>1, <1>2 DEF ClientOnCoupled, Due
<1>4. PICK t : t = Delivered(ch)
  OBVIOUS
<1>5. /\ ChannelOK(t) /\ EndedIn(t) \subseteq EndedIn(ch)
      /\ t.out = ch.out /\ t.input = ch.input /\ h \in Elements(ch.queue)
      /\ \A e \in Elements(t.queue) : e.ev \notin {"coupled", "release"}
      /\ WillFail(ch) => WillFail(t)
      /\ ~t.linked
  <2>1. PICK c : c = Delivered(ch)
    OBVIOUS
  <2>2. /\ ChannelOK(c) /\ EndedIn(c) \subseteq EndedIn(ch)
        /\ c.out = ch.out /\ c.input = ch.input /\ h \in Elements(ch.queue)
        /\ \A e \in Elements(c.queue) : e.ev \notin {"coupled", "release"}
        /\ WillFail(ch) => WillFail(c)
    BY <1>1, <1>2, <1>3, <2>1, ClientChannel, DeliveredOK
  <2>3. ch.out = 0
    BY <1>1, <1>3, <2>2, ClientChannel DEF ChannelOK
  <2> QED
    BY <1>4, <2>1, <2>2, <2>3 DEF ChannelOK
<1>6. t = Taken(Client)
  BY <1>1, <1>2, <1>3, <1>4, TwoPeers, TakenIs DEF Signals
<1>7. client # 0 /\ h.s = client /\ atClient[client] = "coupled" /\ client \in Sessions
  BY <1>1, <1>3, <1>5, ClientChannel DEF ClientOK, CoupledIn, IInv, SessionsOK
<1>8. /\ atClient' = [atClient EXCEPT ![client] = "announced"] /\ atServer' = atServer
      /\ attempts' = attempts /\ client' = client /\ running' = running
      /\ checked' = checked /\ uses' = uses
  BY <1>1, <1>2, <1>7 DEF ClientOnCoupled, Service!ClientAnnounces, Arriving, workerVars
<1>9. PICK cached \in BOOLEAN : Set(Client, ConnectedTo(t, client, cached))
  BY <1>6 DEF ClientOnCoupled
<1>10. PICK d : d = ConnectedTo(t, client, cached)
  OBVIOUS
<1>11. /\ Follows(t, d) /\ d.out \in {t.out, client} /\ d.input = t.input
       /\ d.input => d.out = client
  BY <1>5, <1>7, <1>10, ConnectedToFollows
<1>12. atClient' \in [Sessions -> Service!Phases] /\ atClient'[client] = "announced"
  BY <1>7, <1>8 DEF IInv, SessionsOK, Service!Phases
<1>13. SessionsOK' /\ WorkersOK'
  <2>1. client \in Begun /\ Begun' = Begun
    BY <1>7, <1>8 DEF IInv, SessionsOK, Begun
  <2> QED
    BY <1>8, <1>12, <2>1 DEF IInv, SessionsOK, WorkersOK, Service!Phases
<1>14. ClientOK(d, client', atClient')
  <2>1. CoupledIn(t) = {} /\ EndedIn(t) = {}
    BY <1>1, <1>5, ClientChannel DEF CoupledIn
  <2>2. CoupledIn(d) = {} /\ EndedIn(d) = {} /\ (WillFail(ch) => WillFail(d))
    BY <1>5, <1>11, <2>1 DEF Follows
  <2>3. (ch.out # 0 => ch.out = client) /\ (ch.input \/ WillFail(ch))
    BY <1>1, <1>7, ClientChannel DEF ClientOK
  <2> QED
    BY <1>5, <1>8, <1>11, <1>12, <2>2, <2>3 DEF ClientOK
<1> QED
  BY <1>8, <1>9, <1>10, <1>11, <1>13, <1>14, ClientSteps DEF Follows

LEMMA ResolvedOK == IInv /\ Resolved => IInv'
<1> SUFFICES ASSUME IInv, Resolved PROVE IInv'
  OBVIOUS
<1>1. PICK d : d = Linked(chan[Client])
  OBVIOUS
<1>2. Follows(chan[Client], d) /\ d.out = chan[Client].out /\ d.input = chan[Client].input
  BY <1>1, ClientChannel, LinkedFollows DEF Resolved
<1>3. Set(Client, d) /\ UNCHANGED peerVars /\ WorkersOK'
  BY <1>1 DEF Resolved, workerVars, IInv, WorkersOK
<1> QED
  BY <1>2, <1>3, TwoPeers, ChannelSteps DEF Keeps

\* The session of the client ends, and its data connection with it.
LEMMA ClientLeavesOK ==
    ASSUME IInv, NEW ch, ChannelOK(ch), Set(Client, Disconnected(ch)), client' = 0, ClientEnds,
           UNCHANGED attempts, UNCHANGED running, UNCHANGED checked, UNCHANGED uses
    PROVE  IInv'
<1>1. PICK d : d = Disconnected(ch)
  OBVIOUS
<1>2. ChannelOK(d) /\ CoupledIn(d) = {} /\ EndedIn(d) = {} /\ d.out = 0
  BY <1>1, DisconnectedOK
<1>3. SessionsOK' /\ WorkersOK' /\ atServer' = atServer
  BY ClientEndsOK DEF IInv, SessionsOK, WorkersOK, Begun, Service!Phases
<1>4. ClientOK(d, client', atClient')
  BY <1>2 DEF ClientOK
<1> QED
  BY <1>1, <1>2, <1>3, <1>4, ClientSteps

LEMMA DisconnectFromHostOK == IInv /\ DisconnectFromHost => IInv'
BY ClientChannel, ClientLeavesOK DEF DisconnectFromHost, workerVars

-------------------------------------------------------------------------------
(* The server's steps. *)

ServerOnly == UNCHANGED <<attempts, client, atClient, checked, uses>>

\* After the step the server serves no session.
Unserved == /\ atServer' \in [Sessions -> Service!Phases]
            /\ \A s \in Sessions : atServer'[s] \notin {"coupled", "announced"}
            /\ \A s \in Sessions \ Begun : atServer'[s] = "none"

\* The server is left without a connection and without a coupling that waits.
LEMMA ServerFreed ==
    ASSUME IInv, NEW d, ChannelOK(d), Set(Server, d), CoupledIn(d) = {}, d.out = 0,
           running' /\ ~d.input => WillFail(d),
           running' \in BOOLEAN, ServerOnly, Unserved
    PROVE  IInv'
<1>1. SessionsOK' /\ WorkersOK'
  BY DEF IInv, SessionsOK, WorkersOK, Begun, Service!Phases, ServerOnly, Unserved
<1>2. ServerOK(d, running', atServer')
  BY DEF ServerOK, Unserved
<1>3. client' = client /\ atClient' = atClient
  BY DEF ServerOnly
<1> QED
  BY <1>1, <1>2, <1>3, ServerSteps

LEMMA ServerEndsOK ==
    ASSUME SessionsOK, NEW S, S \subseteq Begun, Service!Served \subseteq S, Service!ServerEnds(S)
    PROVE  Unserved /\ atClient' = atClient
<1>1. /\ atServer' = [s \in Sessions |->
              IF s \in S THEN IF Service!Past(atServer[s]) THEN "ended" ELSE "refused" ELSE atServer[s]]
      /\ atClient' = atClient
  BY DEF Service!ServerEnds
<1>2. ASSUME NEW s \in Sessions
      PROVE  /\ atServer'[s] \in Service!Phases \ {"coupled", "announced"}
             /\ s \notin Begun => atServer'[s] = "none"
  <2>1. CASE s \in S
    BY <1>1, <2>1 DEF Service!Phases
  <2>2. CASE s \notin S
    BY <1>1, <2>2 DEF SessionsOK, Service!Served
  <2> QED
    BY <2>1, <2>2
<1> QED
  BY <1>1, <1>2 DEF Unserved

LEMMA ServerGoneOK ==
    ASSUME IInv, ServerGone
    PROVE  Unserved /\ atClient' = atClient
<1>1. CASE running
  <2>1. Open \subseteq Begun /\ Service!Served \subseteq Open
    BY DEF Open, Service!Served, IInv, SessionsOK
  <2> QED
    BY <1>1, <2>1, ServerEndsOK DEF ServerGone, IInv
<1>2. CASE ~running
  <2>1. \A s \in Sessions : atServer[s] \notin {"coupled", "announced"}
    BY <1>2, ClientChannel DEF ServerOK
  <2> QED
    BY <1>2, <2>1 DEF ServerGone, SessionsOK, IInv, Unserved
<1> QED
  BY <1>1, <1>2

LEMMA ServedBegun == IInv => Service!Served \subseteq Begun
BY DEF IInv, SessionsOK, Service!Served

LEMMA OccupiedType == Occupied \subseteq BOOLEAN
BY DEF Occupied

\* When the server serves no session, nothing is connected and no coupling waits.
LEMMA NobodyServed ==
    ASSUME IInv, Service!Served = {}
    PROVE  CoupledIn(chan[Server]) = {} /\ chan[Server].out = 0
<1>1. chan[Server].out \in Sessions \cup {0}
  BY ClientChannel, ChannelFields DEF ChannelOK
<1>2. \A s \in Sessions : atServer[s] \notin {"coupled", "announced"}
  BY DEF Service!Served
<1> QED
  BY <1>1, <1>2, ClientChannel DEF ServerOK

\* The server stops, with the channel ch.
LEMMA ServerLeavesOK ==
    ASSUME IInv, NEW ch, ChannelOK(ch), NEW occupied \in BOOLEAN,
           Set(Server, Stopped(ch, occupied)), running' = FALSE, ServerGone,
           UNCHANGED <<attempts, client, checked, uses>>
    PROVE  IInv'
<1>1. PICK d : d = Stopped(ch, occupied)
  OBVIOUS
<1>2. ChannelOK(d) /\ CoupledIn(d) = {} /\ d.out = 0
  BY <1>1, StoppedOK
<1>3. Unserved /\ atClient' = atClient
  BY ServerGoneOK
<1>4. ServerOnly
  BY <1>3 DEF ServerOnly
<1> QED
  BY <1>1, <1>2, <1>3, <1>4, ServerFreed

LEMMA StopServerOK == IInv /\ StopServer => IInv'
<1> SUFFICES ASSUME IInv, StopServer PROVE IInv'
  OBVIOUS
<1>1. PICK occupied \in BOOLEAN : Set(Server, Stopped(chan[Server], occupied))
  BY OccupiedType DEF StopServer
<1> QED
  BY <1>1, ClientChannel, ServerLeavesOK DEF StopServer, workerVars

LEMMA StartServerOK == IInv /\ StartServer => IInv'
<1> SUFFICES ASSUME IInv, StartServer PROVE IInv'
  OBVIOUS
<1>1. PICK bound \in BOOLEAN, opened \in BOOLEAN, occupied \in Occupied :
          LET ch == Started(IF running THEN Stopped(chan[Server], occupied)
                                       ELSE chan[Server], bound)
          IN  /\ Set(Server, ch)
              /\ running' = (ch.input /\ opened)
  BY DEF StartServer
<1>2. PICK base : base = IF running THEN Stopped(chan[Server], occupied) ELSE chan[Server]
  OBVIOUS
<1>3. ChannelOK(base) /\ CoupledIn(base) = {} /\ base.out = 0
  BY <1>2, ClientChannel, StoppedOK, OccupiedType DEF ServerOK
<1>4. PICK d : d = Started(base, bound)
  OBVIOUS
<1>5. ChannelOK(d) /\ CoupledIn(d) = {} /\ d.out = 0
  BY <1>3, <1>4, StartedFollows DEF Follows
<1>6. Set(Server, d) /\ running' = (d.input /\ opened)
  BY <1>1, <1>2, <1>4
<1>7. running' \in BOOLEAN /\ (running' => d.input)
  BY <1>5, <1>6, ChannelFields DEF ChannelOK
<1>8. Unserved /\ atClient' = atClient
  BY ServerGoneOK DEF StartServer
<1>9. ServerOnly
  BY <1>8 DEF ServerOnly, StartServer, workerVars
<1> QED
  BY <1>5, <1>6, <1>7, <1>8, <1>9, ServerFreed

LEMMA ServerCouplesOK == ASSUME NEW s \in Sessions PROVE IInv /\ ServerCouples(s) => IInv'
<1> SUFFICES ASSUME IInv, ServerCouples(s) PROVE IInv'
  OBVIOUS
<1>1. PICK e : e = Event("coupled", s)
  OBVIOUS
<1>2. /\ running /\ Service!Served = {} /\ ~Waits(Server, "ended") /\ s \in Begun
      /\ atServer' = [atServer EXCEPT ![s] = "coupled"] /\ atClient' = atClient
      /\ attempts' = attempts /\ client' = client /\ running' = running
      /\ checked' = checked /\ uses' = uses
      /\ Set(Server, Posted(chan[Server], <<e>>))
  BY <1>1 DEF ServerCouples, Service!ServerCouples, workerVars
<1>3. e \in Events /\ e.ev = "coupled" /\ e.s = s
  BY <1>1, EventType DEF EventNames
<1>4. CoupledIn(chan[Server]) = {} /\ chan[Server].out = 0
  BY <1>2, NobodyServed
<1>5. PICK d : d = Posted(chan[Server], <<e>>)
  OBVIOUS
<1>6. /\ ChannelOK(d) /\ d.out = chan[Server].out /\ d.input = chan[Server].input
      /\ CoupledIn(d) = {e}
      /\ WillFail(chan[Server]) => WillFail(d)
  <2>1. \A f \in Elements(chan[Server].queue) : f.ev \notin {"coupled", "ended"}
    BY <1>2, <1>4 DEF CoupledIn, Waits
  <2> QED
    BY <1>3, <1>4, <1>5, <2>1, ClientChannel, PostedOK
<1>7. atServer' \in [Sessions -> Service!Phases] /\ atServer'[s] = "coupled"
  BY <1>2 DEF IInv, SessionsOK, Service!Phases
<1>8. SessionsOK' /\ WorkersOK'
  BY <1>2, <1>7 DEF IInv, SessionsOK, WorkersOK, Begun, Service!Phases
<1>9. ServerOK(d, running', atServer')
  <2>1. chan[Server].input \/ WillFail(chan[Server])
    BY <1>2, ClientChannel DEF ServerOK
  <2>2. \A r \in Sessions : atServer'[r] \in {"coupled", "announced"} => r = s
    BY <1>2 DEF Service!Served, IInv, SessionsOK
  <2> QED
    BY <1>2, <1>3, <1>4, <1>6, <1>7, <2>1, <2>2 DEF ServerOK
<1> QED
  BY <1>2, <1>5, <1>6, <1>8, <1>9, ServerSteps

LEMMA ServerOnCoupledOK == IInv /\ Service!OneServed /\ ServerOnCoupled => IInv'
<1> SUFFICES ASSUME IInv, Service!OneServed, ServerOnCoupled PROVE IInv'
  OBVIOUS
<1>1. PICK ch : ch = chan[Server]
  OBVIOUS
<1>2. PICK h : h = Head(ch.queue)
  OBVIOUS
<1>3. ch.queue # <<>> /\ h.ev = "coupled"
  BY <1>1, <1>2 DEF ServerOnCoupled, Due
<1>4. PICK t : t = Delivered(ch)
  OBVIOUS
<1>5. /\ ChannelOK(t) /\ t.out = ch.out /\ t.input = ch.input /\ h \in Elements(ch.queue)
      /\ \A e \in Elements(t.queue) : e.ev \notin {"coupled", "release"}
      /\ WillFail(ch) => WillFail(t)
  BY <1>1, <1>2, <1>3, <1>4, ClientChannel, DeliveredOK
<1>6. t = Taken(Server)
  BY <1>1, <1>2, <1>3, <1>4, TwoPeers, TakenIs DEF Signals
<1>7. /\ running /\ h.s \in Sessions /\ atServer[h.s] = "coupled" /\ ch.out = 0
      /\ ch.input \/ WillFail(ch)
  BY <1>1, <1>3, <1>5, ClientChannel DEF ServerOK, ChannelOK, CoupledIn
<1>8. /\ atServer' = [atServer EXCEPT ![h.s] = "announced"] /\ atClient' = atClient
      /\ attempts' = attempts /\ client' = client /\ running' = running
      /\ checked' = checked /\ uses' = uses
      /\ Set(Server, ConnectedTo(t, h.s, TRUE))
  BY <1>1, <1>2, <1>6 DEF ServerOnCoupled, Service!ServerAnnounces, Arriving, workerVars
<1>9. PICK d : d = ConnectedTo(t, h.s, TRUE)
  OBVIOUS
<1>10. /\ Follows(t, d) /\ d.out \in {t.out, h.s} /\ d.input = t.input
       /\ d.input => d.out = h.s
  <2>1. ~t.linked
    BY <1>5, <1>7 DEF ChannelOK
  <2> QED
    BY <1>5, <1>7, <1>9, <2>1, ConnectedToFollows
<1>11. atServer' \in [Sessions -> Service!Phases] /\ atServer'[h.s] = "announced"
  BY <1>7, <1>8 DEF IInv, SessionsOK, Service!Phases
<1>12. SessionsOK' /\ WorkersOK'
  <2>1. h.s \in Begun /\ Begun' = Begun
    BY <1>7, <1>8 DEF IInv, SessionsOK, Begun
  <2> QED
    BY <1>8, <1>11, <2>1 DEF IInv, SessionsOK, WorkersOK, Service!Phases
<1>13. ServerOK(d, running', atServer')
  <2>1. CoupledIn(d) = {} /\ (WillFail(ch) => WillFail(d))
    BY <1>5, <1>10 DEF Follows, CoupledIn
  <2>2. \A s \in Sessions : s # h.s => atServer'[s] \notin {"coupled", "announced"}
    BY <1>7, <1>8 DEF Service!OneServed, Service!Served, IInv, SessionsOK
  <2> QED
    BY <1>5, <1>7, <1>8, <1>10, <1>11, <2>1, <2>2 DEF ServerOK
<1> QED
  BY <1>8, <1>9, <1>10, <1>12, <1>13, ServerSteps DEF Follows

LEMMA SessionEndsOK == ASSUME NEW s \in Sessions PROVE IInv /\ SessionEnds(s) => IInv'
<1> SUFFICES ASSUME IInv, SessionEnds(s) PROVE IInv'
  OBVIOUS
<1>1. PICK e : e = Event("ended", s)
  OBVIOUS
<1>2. e \in Events /\ e.ev = "ended"
  BY <1>1, EventType DEF EventNames
<1>3. PICK d : d = Posted(chan[Server], <<e>>)
  OBVIOUS
<1>4. /\ ChannelOK(d) /\ d.out = chan[Server].out /\ d.input = chan[Server].input
      /\ CoupledIn(d) = CoupledIn(chan[Server])
      /\ WillFail(chan[Server]) => WillFail(d)
  BY <1>2, <1>3, ClientChannel, PostedOK
<1>5. ServerOK(d, running, atServer)
  BY <1>4, ClientChannel DEF ServerOK
<1>6. Set(Server, d) /\ UNCHANGED peerVars /\ UNCHANGED workerVars
  BY <1>1, <1>3 DEF SessionEnds
<1>7. SessionsOK' /\ WorkersOK'
  BY <1>6 DEF IInv, SessionsOK, WorkersOK, Begun, Service!Phases, peerVars, workerVars
<1> QED
  BY <1>4, <1>5, <1>6, <1>7, ServerSteps DEF peerVars

LEMMA ServerOnEndedOK == IInv /\ ServerOnEnded => IInv'
<1> SUFFICES ASSUME IInv, ServerOnEnded PROVE IInv'
  OBVIOUS
<1>1. PICK ch : ch = chan[Server]
  OBVIOUS
<1>2. PICK h : h = Head(ch.queue)
  OBVIOUS
<1>3. ch.queue # <<>> /\ h.ev = "ended"
  BY <1>1, <1>2 DEF ServerOnEnded, Due
<1>4. PICK t : t = Delivered(ch)
  OBVIOUS
<1>5. /\ ChannelOK(t) /\ t.out = ch.out /\ t.input = ch.input /\ CoupledIn(t) = {}
      /\ WillFail(ch) => WillFail(t)
  BY <1>1, <1>2, <1>3, <1>4, ClientChannel, DeliveredOK
<1>6. t = Taken(Server)
  BY <1>1, <1>2, <1>3, <1>4, TwoPeers, TakenIs DEF Signals
<1>7. running => ch.input \/ WillFail(ch)
  BY <1>1, ClientChannel DEF ServerOK
<1>8. /\ attempts' = attempts /\ client' = client /\ running' = running
      /\ checked' = checked /\ uses' = uses
  BY DEF ServerOnEnded, workerVars
<1>9. running' \in BOOLEAN
  BY <1>8 DEF IInv, SessionsOK
<1>10. CASE Service!Served = {}
  <2>1. Set(Server, t) /\ atServer' = atServer /\ atClient' = atClient
    BY <1>6, <1>10 DEF ServerOnEnded
  <2>2. t.out = 0
    BY <1>1, <1>5, <1>10, NobodyServed
  <2>3. ServerOnly /\ Unserved
    BY <1>8, <1>10, <2>1 DEF ServerOnly, Unserved, IInv, SessionsOK, Service!Served
  <2> QED
    BY <1>5, <1>7, <1>8, <1>9, <2>1, <2>2, <2>3, ServerFreed
<1>11. CASE Service!Served # {}
  <2>1. Set(Server, Released(t)) /\ Service!ServerEnds(Service!Served)
    BY <1>6, <1>11 DEF ServerOnEnded
  <2>2. PICK d : d = Released(t)
    OBVIOUS
  <2>3. Follows(t, d) /\ d.out = 0 /\ d.input = t.input
    BY <1>5, <2>2, ReleasedFollows
  <2>4. Unserved /\ atClient' = atClient
    BY <2>1, ServedBegun, ServerEndsOK DEF IInv
  <2>5. ServerOnly
    BY <1>8, <2>4 DEF ServerOnly
  <2>6. ChannelOK(d) /\ CoupledIn(d) = {} /\ (WillFail(t) => WillFail(d))
    BY <1>5, <2>3 DEF Follows
  <2> QED
    BY <1>5, <1>7, <1>8, <1>9, <2>1, <2>2, <2>3, <2>4, <2>5, <2>6, ServerFreed
<1> QED
  BY <1>10, <1>11

\* The connection is released while no coupling waits.
LEMMA ServerReleasesOK ==
    ASSUME IInv, NEW d, NEW S, Set(Server, d), Follows(chan[Server], d), d.out = 0,
           d.input = chan[Server].input, CoupledIn(chan[Server]) = {},
           Service!Served \subseteq S, S \subseteq Begun,
           Service!ServerEnds(S), UNCHANGED <<attempts, client, running, workerVars>>
    PROVE  IInv'
<1>1. Unserved /\ atClient' = atClient
  BY ServerEndsOK DEF IInv
<1>2. ServerOnly /\ running' \in BOOLEAN
  BY <1>1 DEF ServerOnly, workerVars, IInv, SessionsOK
<1>3. running' /\ ~d.input => WillFail(d)
  BY ClientChannel DEF ServerOK, Follows
<1> QED
  BY <1>1, <1>2, <1>3, ServerFreed DEF Follows

LEMMA UncoupledEndsOK == ASSUME NEW s \in Sessions PROVE IInv /\ UncoupledEnds(s) => IInv'
<1> SUFFICES ASSUME IInv, UncoupledEnds(s) PROVE IInv'
  OBVIOUS
<1>1. PICK d : d = Released(chan[Server])
  OBVIOUS
<1>2. Follows(chan[Server], d) /\ d.out = 0 /\ d.input = chan[Server].input
  BY <1>1, ClientChannel, ReleasedFollows
<1>3. /\ Service!Served = {} /\ Set(Server, d) /\ Service!ServerEnds({s})
      /\ UNCHANGED <<attempts, client, running, workerVars>> /\ {s} \subseteq Begun
  BY <1>1 DEF UncoupledEnds, Open
<1> QED
  BY <1>2, <1>3, NobodyServed, ServerReleasesOK

LEMMA DropClientOK == IInv /\ DropClient => IInv'
<1> SUFFICES ASSUME IInv, DropClient PROVE IInv'
  OBVIOUS
<1>1. PICK r : r = Released(chan[Server])
  OBVIOUS
<1>2. Follows(chan[Server], r) /\ r.out = 0 /\ r.input = chan[Server].input
  BY <1>1, ClientChannel, ReleasedFollows
<1>3. Follows(r, Released(r)) /\ Released(r).out = 0 /\ Released(r).input = r.input
  BY <1>2, ReleasedFollows DEF Follows
<1>4. PICK d : d = IF Service!Served = {} THEN r ELSE Released(r)
  OBVIOUS
<1>5. Follows(chan[Server], d) /\ d.out = 0 /\ d.input = chan[Server].input
  BY <1>2, <1>3, <1>4, FollowsTwice
<1>6. /\ Set(Server, d) /\ Service!ServerEnds(Service!Served)
      /\ UNCHANGED <<attempts, client, running, workerVars>>
  BY <1>1, <1>4 DEF DropClient
<1>7. CoupledIn(chan[Server]) = {}
  BY DEF DropClient, Waits, CoupledIn
<1> QED
  BY <1>5, <1>6, <1>7, ServedBegun, ServerReleasesOK

-------------------------------------------------------------------------------
(* The steps of both. *)

\* An event is delivered that is no failed, or that changes no state.
LEMMA DeliveredFollows ==
    ASSUME NEW ch, ChannelOK(ch), ch.queue # <<>>,
           Head(ch.queue).ev # "coupled", Head(ch.queue).ev = "failed" => ch.state = "Failed"
    PROVE  /\ Follows(ch, Delivered(ch))
           /\ Delivered(ch).out = ch.out /\ Delivered(ch).input = ch.input
BY DeliveredOK DEF Follows

LEMMA InputFailsOK == ASSUME NEW p \in Peers PROVE IInv /\ InputFails(p) => IInv'
<1> SUFFICES ASSUME IInv, InputFails(p) PROVE IInv'
  OBVIOUS
<1>1. PICK d : d = InputLost(chan[p])
  OBVIOUS
<1>2. Follows(chan[p], d) /\ Keeps(chan[p], d)
  BY <1>1, InputLostFollows DEF IInv, Keeps
<1>3. Set(p, d) /\ UNCHANGED peerVars /\ WorkersOK'
  BY <1>1 DEF InputFails, workerVars, IInv, WorkersOK
<1> QED
  BY <1>2, <1>3, ChannelSteps

LEMMA OnReleaseOK == ASSUME NEW p \in Peers PROVE IInv /\ OnRelease(p) => IInv'
<1> SUFFICES ASSUME IInv, OnRelease(p) PROVE IInv'
  OBVIOUS
<1>1. chan[p].queue # <<>> /\ Head(chan[p].queue).ev = "release" /\ ChannelOK(chan[p])
  BY DEF OnRelease, Due, IInv
<1>2. PICK t : t = Delivered(chan[p])
  OBVIOUS
<1>3. t = Taken(p)
  BY <1>1, <1>2, TakenIs DEF Signals
<1>4. Follows(chan[p], t) /\ t.input = chan[p].input /\ chan[p].out = 0
  <2>1. Head(chan[p].queue) \in Elements(chan[p].queue)
    BY <1>1, DeliveredOK
  <2> QED
    BY <1>1, <1>2, <2>1, DeliveredFollows DEF ChannelOK
<1>5. PICK d : d = Released(t)
  OBVIOUS
<1>6. Follows(t, d) /\ d.out = 0 /\ d.input = t.input
  BY <1>4, <1>5, ReleasedFollows DEF Follows
<1>7. Set(p, d) /\ UNCHANGED peerVars /\ WorkersOK'
  BY <1>3, <1>5 DEF OnRelease, workerVars, IInv, WorkersOK
<1> QED
  BY <1>4, <1>6, <1>7, FollowsTwice, ChannelSteps DEF Keeps

LEMMA OnSignalOK == ASSUME NEW p \in Peers PROVE IInv /\ OnSignal(p) => IInv'
<1> SUFFICES ASSUME IInv, OnSignal(p) PROVE IInv'
  OBVIOUS
<1>1. /\ chan[p].queue # <<>> /\ Head(chan[p].queue).ev \in {"connected", "disconnected"}
      /\ ChannelOK(chan[p])
  BY DEF OnSignal, Due, IInv
<1>2. PICK d : d = Delivered(chan[p])
  OBVIOUS
<1>3. d = WithState(Taken(p), Arriving(p).ev)
  BY <1>1, <1>2 DEF Delivered, Taken, Arriving, Signals
<1>4. Follows(chan[p], d) /\ d.out = chan[p].out /\ d.input = chan[p].input
  BY <1>1, <1>2, DeliveredFollows
<1>5. Set(p, d) /\ UNCHANGED peerVars /\ WorkersOK'
  BY <1>3 DEF OnSignal, workerVars, IInv, WorkersOK
<1> QED
  BY <1>4, <1>5, ChannelSteps DEF Keeps

LEMMA OnFailedOK == ASSUME NEW p \in Peers PROVE IInv /\ OnFailed(p) => IInv'
<1> SUFFICES ASSUME IInv, OnFailed(p) PROVE IInv'
  OBVIOUS
<1>1. /\ chan[p].queue # <<>> /\ Head(chan[p].queue).ev = "failed"
      /\ ChannelOK(chan[p]) /\ checked' = checked /\ uses' = uses /\ WorkersOK'
  BY DEF OnFailed, Due, IInv, workerVars, WorkersOK
<1>2. PICK d : d = Delivered(chan[p])
  OBVIOUS
<1>3. d = WithState(Taken(p), "failed")
  BY <1>1, <1>2 DEF Delivered, Taken, Signals
<1>4. /\ ChannelOK(d) /\ CoupledIn(d) \subseteq CoupledIn(chan[p])
      /\ EndedIn(d) \subseteq EndedIn(chan[p]) /\ d.out = chan[p].out
  BY <1>1, <1>2, DeliveredOK
<1>5. CASE chan[p].state = "Failed"
  <2>1. Follows(chan[p], d) /\ d.out = chan[p].out /\ d.input = chan[p].input
    BY <1>1, <1>2, <1>5, DeliveredFollows
  <2>2. Set(p, d) /\ UNCHANGED peerVars
    BY <1>3, <1>5 DEF OnFailed
  <2> QED
    BY <1>1, <2>1, <2>2, ChannelSteps DEF Keeps
<1>6. CASE p = Client /\ chan[p].state # "Failed"
  <2>1. CASE client = 0
    <3>1. Set(Client, d) /\ UNCHANGED peerVars
      BY <1>3, <1>6, <2>1 DEF OnFailed
    <3>2. ClientOK(d, client, atClient)
      BY <1>4, <1>6, <2>1, ClientChannel DEF ClientOK
    <3>3. SessionsOK'
      BY <3>1 DEF IInv, SessionsOK, Begun, Service!Phases, peerVars
    <3> QED
      BY <1>1, <1>4, <3>1, <3>2, <3>3, ClientSteps DEF peerVars
  <2>2. CASE client # 0
    <3>1. /\ Set(Client, Disconnected(d)) /\ client' = 0 /\ ClientEnds
          /\ running' = running /\ attempts' = attempts
      BY <1>3, <1>6, <2>2 DEF OnFailed
    <3> QED
      BY <1>1, <1>4, <3>1, ClientLeavesOK
  <2> QED
    BY <2>1, <2>2
<1>7. CASE p = Server /\ chan[p].state # "Failed"
  <2>1. CASE ~running
    <3>1. Set(Server, d) /\ UNCHANGED peerVars
      BY <1>3, <1>7, <2>1, TwoPeers DEF OnFailed
    <3>2. ServerOK(d, running, atServer)
      BY <1>4, <1>7, <2>1, ClientChannel DEF ServerOK
    <3>3. SessionsOK'
      BY <3>1 DEF IInv, SessionsOK, Begun, Service!Phases, peerVars
    <3> QED
      BY <1>1, <1>4, <3>1, <3>2, <3>3, ServerSteps DEF peerVars
  <2>2. CASE running
    <3>1. PICK occupied \in BOOLEAN : Set(Server, Stopped(d, occupied))
      BY <1>3, <1>7, <2>2, TwoPeers, OccupiedType DEF OnFailed
    <3>2. running' = FALSE /\ ServerGone /\ client' = client /\ attempts' = attempts
      BY <1>7, <2>2, TwoPeers DEF OnFailed
    <3> QED
      BY <1>1, <1>4, <3>1, <3>2, ServerLeavesOK
  <2> QED
    BY <2>1, <2>2
<1> QED
  BY <1>5, <1>6, <1>7, TwoPeers

LEMMA DeliverOK == ASSUME NEW p \in Peers PROVE IInv /\ Service!OneServed /\ Deliver(p) => IInv'
BY OnReleaseOK, OnSignalOK, OnFailedOK, ClientOnCoupledOK, ServerOnCoupledOK, ServerOnEndedOK
   DEF Deliver

\* Nothing but the workers' own state changes.
LEMMA WorkersStep == ASSUME IInv, UNCHANGED <<chan, peerVars>>, WorkersOK' PROVE IInv'
<1>1. /\ chan' = chan /\ attempts' = attempts /\ client' = client /\ running' = running
      /\ atServer' = atServer /\ atClient' = atClient
  BY DEF peerVars
<1>2. SessionsOK'
  BY <1>1 DEF IInv, SessionsOK, Begun, Service!Phases
<1> QED
  BY <1>1, <1>2 DEF IInv, ChannelOK, ClientOK, ServerOK, CoupledIn, EndedIn, WillFail, Fails,
                    WillBeConnected, Ordered, Elements

LEMMA WorkerStepsOK ==
    ASSUME NEW p \in Peers, IInv, WorkerChecks(p) \/ WorkerTakes(p) \/ WorkerWrites(p)
    PROVE  IInv'
<1>1. CASE WorkerChecks(p)
  <2>1. WorkersOK' /\ UNCHANGED <<chan, peerVars>>
    BY <1>1 DEF WorkerChecks, IInv, WorkersOK
  <2> QED
    BY <2>1, WorkersStep
<1>2. CASE WorkerTakes(p)
  <2>1. chan[p].out \in Sessions \cup {0}
    BY ChannelFields DEF IInv
  <2>2. WorkersOK' /\ UNCHANGED <<chan, peerVars>>
    BY <1>2, <2>1 DEF WorkerTakes, IInv, WorkersOK
  <2> QED
    BY <2>2, WorkersStep
<1>3. CASE WorkerWrites(p)
  <2>1. WorkersOK' /\ UNCHANGED peerVars
    BY <1>3 DEF WorkerWrites, IInv, WorkersOK
  <2>2. CASE chan[p].out = uses[p] /\ chan[p].linked
    <3>1. PICK o \in Peers : o = Other(p)
      BY TwoPeers
    <3>2. Set(o, Arrived(chan[o]))
      BY <1>3, <2>2, <3>1 DEF WorkerWrites
    <3>3. PICK d : d = Arrived(chan[o])
      OBVIOUS
    <3>4. Follows(chan[o], d) /\ d.out = chan[o].out /\ d.input = chan[o].input
      BY <3>3, ArrivedFollows DEF IInv
    <3> QED
      BY <2>1, <3>2, <3>3, <3>4, ChannelSteps DEF Keeps
  <2>3. CASE ~(chan[p].out = uses[p] /\ chan[p].linked)
    <3>1. UNCHANGED <<chan, peerVars>>
      BY <1>3, <2>1, <2>3 DEF WorkerWrites
    <3> QED
      BY <2>1, <3>1, WorkersStep
  <2> QED
    BY <2>2, <2>3
<1> QED
  BY <1>1, <1>2, <1>3

LEMMA StepIInv == IInv /\ Service!OneServed /\ [Next]_vars => IInv'
<1> SUFFICES ASSUME IInv, Service!OneServed, [Next]_vars PROVE IInv'
  OBVIOUS
<1>1. CASE ConnectToHost \/ ClientCouples \/ Resolved \/ DisconnectFromHost
  BY <1>1, ConnectToHostOK, ClientCouplesOK, ResolvedOK, DisconnectFromHostOK
<1>2. CASE StartServer \/ StopServer \/ DropClient
  BY <1>2, StartServerOK, StopServerOK, DropClientOK
<1>3. CASE \E s \in Sessions : ServerCouples(s) \/ SessionEnds(s) \/ UncoupledEnds(s)
  BY <1>3, ServerCouplesOK, SessionEndsOK, UncoupledEndsOK
<1>4. CASE \E p \in Peers : Deliver(p) \/ InputFails(p)
  BY <1>4, DeliverOK, InputFailsOK
<1>5. CASE \E p \in Peers : WorkerChecks(p) \/ WorkerTakes(p) \/ WorkerWrites(p)
  BY <1>5, WorkerStepsOK
<1>6. CASE UNCHANGED vars
  <2>1. UNCHANGED <<chan, peerVars>> /\ WorkersOK'
    BY <1>6 DEF vars, workerVars, IInv, WorkersOK
  <2> QED
    BY <2>1, WorkersStep
<1> QED
  BY <1>1, <1>2, <1>3, <1>4, <1>5, <1>6 DEF Next

\* Every step of the peers and of the application above them is one that the
\* service allows.
LEMMA ServiceSteps ==
    ASSUME IInv, [Next]_vars
    PROVE  [Service!Next]_(Service!serviceVars)
<1> DEFINE Step == [Service!Next]_(Service!serviceVars)
<1>1. ASSUME UNCHANGED <<atServer, atClient>> PROVE Step
  BY <1>1 DEF Service!serviceVars
<1>2. ASSUME ClientEnds PROVE Step
  <2>1. client # 0 => client \in Sessions
    BY DEF IInv, SessionsOK
  <2> QED
    BY <1>2, <2>1 DEF ClientEnds, Service!Next, Service!serviceVars
<1>3. ASSUME NEW S, S \in SUBSET Sessions, Service!ServerEnds(S) PROVE Step
  BY <1>3 DEF Service!Next
<1>4. Open \subseteq Sessions /\ Service!Served \subseteq Sessions
  BY DEF Open, Service!Served, IInv, SessionsOK
<1>5. ASSUME ServerGone PROVE Step
  <2>1. CASE running
    BY <1>3, <1>4, <1>5, <2>1 DEF ServerGone
  <2>2. CASE ~running
    BY <1>1, <1>5, <2>2 DEF ServerGone
  <2> QED
    BY <2>1, <2>2
<1> SUFFICES Step
  OBVIOUS
<1> HIDE DEF Step
<1>6. CASE ConnectToHost \/ DisconnectFromHost
  BY <1>2, <1>6 DEF ConnectToHost, DisconnectFromHost
<1>7. CASE StartServer \/ StopServer
  BY <1>5, <1>7 DEF StartServer, StopServer
<1>8. CASE DropClient
  BY <1>3, <1>4, <1>8 DEF DropClient
<1>9. CASE Resolved \/ UNCHANGED vars
  BY <1>1, <1>9 DEF Resolved, peerVars, vars
<1>10. CASE ClientCouples
  <2>1. client \in Sessions /\ Service!ClientCouples(client)
    BY <1>10 DEF ClientCouples, IInv, SessionsOK
  <2> QED
    BY <2>1 DEF Step, Service!Next
<1>11. ASSUME NEW s \in Sessions, ServerCouples(s) \/ SessionEnds(s) \/ UncoupledEnds(s) PROVE Step
  <2>1. CASE ServerCouples(s)
    BY <2>1 DEF Step, Service!Next, ServerCouples
  <2>2. CASE SessionEnds(s)
    BY <1>1, <2>2 DEF SessionEnds, peerVars
  <2>3. CASE UncoupledEnds(s)
    BY <1>3, <2>3 DEF UncoupledEnds
  <2> QED
    BY <1>11, <2>1, <2>2, <2>3
<1>12. CASE ClientOnCoupled
  <2>1. /\ chan[Client].queue # <<>> /\ Arriving(Client).ev = "coupled"
        /\ Service!ClientAnnounces(Arriving(Client).s)
    BY <1>12 DEF ClientOnCoupled, Due, Arriving
  <2>2. Arriving(Client) \in CoupledIn(chan[Client])
    BY <2>1, ClientChannel, DeliveredOK DEF Arriving, CoupledIn
  <2>3. Arriving(Client).s \in Sessions
    BY <2>2, ClientChannel DEF ClientOK, IInv, SessionsOK
  <2> QED
    BY <2>1, <2>3 DEF Step, Service!Next
<1>13. CASE ServerOnCoupled
  <2>1. /\ chan[Server].queue # <<>> /\ Arriving(Server).ev = "coupled"
        /\ Service!ServerAnnounces(Arriving(Server).s)
    BY <1>13 DEF ServerOnCoupled, Due, Arriving
  <2>2. Arriving(Server) \in CoupledIn(chan[Server])
    BY <2>1, ClientChannel, DeliveredOK DEF Arriving, CoupledIn
  <2>3. Arriving(Server).s \in Sessions
    BY <2>2, ClientChannel DEF ServerOK
  <2> QED
    BY <2>1, <2>3 DEF Step, Service!Next
<1>14. CASE ServerOnEnded
  BY <1>1, <1>3, <1>4, <1>14 DEF ServerOnEnded
<1>15. ASSUME NEW p \in Peers, Deliver(p) PROVE Step
  <2>1. CASE OnRelease(p) \/ OnSignal(p)
    BY <1>1, <2>1 DEF OnRelease, OnSignal, peerVars
  <2>2. CASE OnFailed(p)
    BY <1>1, <1>2, <1>5, <2>2 DEF OnFailed, peerVars
  <2> QED
    BY <1>12, <1>13, <1>14, <1>15, <2>1, <2>2 DEF Deliver
<1>16. ASSUME NEW p \in Peers,
              InputFails(p) \/ WorkerChecks(p) \/ WorkerTakes(p) \/ WorkerWrites(p)
       PROVE  Step
  BY <1>1, <1>16 DEF InputFails, WorkerChecks, WorkerTakes, WorkerWrites, peerVars
<1> QED
  BY <1>6, <1>7, <1>8, <1>9, <1>10, <1>11, <1>15, <1>16 DEF Next

\* What the service promises by itself.
LEMMA ServiceKept ==
    ASSUME SessionsOK, Service!OneServed, Service!CoupledBefore, [Service!Next]_(Service!serviceVars)
    PROVE  Service!OneServed' /\ Service!CoupledBefore'
<1>1. /\ atServer \in [Sessions -> Service!Phases] /\ atClient \in [Sessions -> Service!Phases]
  BY DEF SessionsOK
<1>2. CASE UNCHANGED Service!serviceVars
  BY <1>2 DEF Service!serviceVars, Service!OneServed, Service!CoupledBefore, Service!Served, Service!Past
<1>3. ASSUME NEW s \in Sessions, Service!ServerCouples(s) \/ Service!ServerAnnounces(s)
      PROVE  Service!OneServed' /\ Service!CoupledBefore'
  <2>1. /\ atClient' = atClient /\ Service!Served' = Service!Served \cup {s}
        /\ \A r \in Sessions : Service!Past(atServer[r]) => Service!Past(atServer'[r])
    BY <1>1, <1>3 DEF Service!ServerCouples, Service!ServerAnnounces, Service!Served, Service!Past
  <2>2. Service!Served \in {{}, {s}}
    BY <1>1, <1>3 DEF Service!ServerCouples, Service!ServerAnnounces, Service!Served, Service!OneServed
  <2> QED
    BY <2>1, <2>2 DEF Service!OneServed, Service!CoupledBefore
<1>4. ASSUME NEW S \in SUBSET Sessions, Service!ServerEnds(S)
      PROVE  Service!OneServed' /\ Service!CoupledBefore'
  <2>1. /\ atClient' = atClient /\ Service!Served' \subseteq Service!Served
        /\ \A r \in Sessions : Service!Past(atServer[r]) => Service!Past(atServer'[r])
    BY <1>1, <1>4 DEF Service!ServerEnds, Service!Served, Service!Past
  <2> QED
    BY <2>1 DEF Service!OneServed, Service!CoupledBefore
<1>5. ASSUME NEW s \in Sessions,
             Service!ClientCouples(s) \/ Service!ClientAnnounces(s) \/ Service!ClientEnds(s)
      PROVE  Service!OneServed' /\ Service!CoupledBefore'
  <2>1. atServer' = atServer
    BY <1>5 DEF Service!ClientCouples, Service!ClientAnnounces, Service!ClientEnds
  <2>2. \A r \in Sessions : atClient'[r] \in {"coupled", "announced"} => Service!Past(atServer[r])
    BY <1>1, <1>5 DEF Service!ClientCouples, Service!ClientAnnounces, Service!ClientEnds, Service!CoupledBefore
  <2> QED
    BY <2>1, <2>2 DEF Service!OneServed, Service!CoupledBefore, Service!Served
<1> QED
  BY <1>2, <1>3, <1>4, <1>5 DEF Service!Next

\* The invariant of the peers, and what the service promises them: one served
\* session, and none coupled at the client that the server did not couple before.
THEOREM PeersInvariant == Spec => [](IInv /\ Service!OneServed /\ Service!CoupledBefore)
<1>1. Init => IInv /\ Service!OneServed /\ Service!CoupledBefore
  BY InitIInv DEF Init, Service!Init, Service!OneServed, Service!CoupledBefore, Service!Served
<1>2. IInv /\ Service!OneServed /\ Service!CoupledBefore /\ [Next]_vars =>
          IInv' /\ Service!OneServed' /\ Service!CoupledBefore'
  BY StepIInv, ServiceSteps, ServiceKept DEF IInv
<1> QED
  BY <1>1, <1>2, PTL DEF Spec

-------------------------------------------------------------------------------
(* What follows from the invariant. *)

\* Every variable of the peers has its type, and the receiver of a peer listens
\* exactly while its m_out is connected.
THEOREM TypeCorrect == Spec => []TypeOK
<1>1. IInv => TypeOK
  BY DEF IInv, SessionsOK, WorkersOK, ChannelOK, TypeOK
<1> QED
  BY <1>1, PeersInvariant, PTL

\* With the signals that wait delivered, a peer is Connected exactly when its
\* data connection stands, whatever was released and connected meanwhile.
THEOREM StateComesRight == Spec => []StateFollowsChannel
<1>1. IInv => StateFollowsChannel
  BY DEF IInv, ChannelOK, StateFollowsChannel
<1> QED
  BY <1>1, PeersInvariant, PTL

\* The releaseConnection() that the disconnected of an m_out has queued never
\* finds the m_out of a later session.
THEOREM ReleaseFindsNoOther == Spec => []ReleaseHitsOwn
<1>1. IInv => ReleaseHitsOwn
  BY DEF IInv, ChannelOK, ReleaseHitsOwn
<1> QED
  BY <1>1, PeersInvariant, PTL

\* A data connection and the announcement of its session imply one another while
\* the input of the peer stands: a peer is connected to no session that was not
\* announced, has ended or was never coupled at the server, and misses none that
\* is announced; the announcement of a coupled one is queued.
THEOREM ConnectedWhileCoupled == Spec => []ConnectionFollowsCoupling
<1>1. ASSUME NEW p \in Peers, NEW e \in CoupledIn(chan[p]), IInv
      PROVE  Event("coupled", e.s) \in Elements(chan[p].queue)
  <2>1. e \in Elements(chan[p].queue) /\ e.ev = "coupled" /\ chan[p].queue \in Seq(Events)
    BY <1>1, ChannelFields DEF CoupledIn, IInv
  <2>2. e \in Events
    BY <2>1 DEF Elements
  <2> QED
    BY <2>1, <2>2 DEF Events, Event
<1>2. ASSUME IInv, Service!CoupledBefore PROVE ConnectionFollowsCoupling
  <2>1. client # 0 => client \in Sessions
    BY <1>2 DEF IInv, SessionsOK
  <2>2. /\ chan[Client].out # 0 =>
              /\ chan[Client].out = client /\ atClient[client] = "announced"
              /\ Service!Past(atServer[client])
        /\ client # 0 /\ atClient[client] = "announced" /\ chan[Client].input => chan[Client].out = client
    <3>1. chan[Client].out = 0 \/ chan[Client].out \in Sessions
      BY <1>2, ClientChannel, ChannelFields DEF ChannelOK
    <3>2. 0 \notin Sessions
      BY SessionsType
    <3> QED
      BY <1>2, <2>1, <3>1, <3>2, ClientChannel DEF ClientOK, Service!CoupledBefore
  <2>3. client # 0 /\ atClient[client] = "coupled" =>
            Event("coupled", client) \in Elements(chan[Client].queue)
    BY <1>1, <1>2, ClientChannel, TwoPeers DEF ClientOK
  <2>4. /\ chan[Server].out # 0 => running /\ atServer[chan[Server].out] = "announced"
        /\ \A s \in Sessions :
              atServer[s] = "announced" /\ chan[Server].input => chan[Server].out = s
    BY <1>2, ClientChannel DEF ServerOK
  <2>5. \A s \in Sessions : atServer[s] = "coupled" => Event("coupled", s) \in Elements(chan[Server].queue)
    BY <1>1, <1>2, ClientChannel, TwoPeers DEF ServerOK
  <2> QED
    BY <2>2, <2>3, <2>4, <2>5 DEF ConnectionFollowsCoupling
<1> QED
  BY <1>2, PeersInvariant, PTL

\* The input socket of a peer is never lost for good while its session stands:
\* the failed that will end the session waits.
THEOREM LostInputEndsSession == Spec => []FailureTearsDown
<1>1. ASSUME NEW p \in Peers, WillFail(chan[p]) PROVE Waits(p, "failed")
  BY <1>1 DEF WillFail, Fails, Waits, Elements
<1>2. IInv => FailureTearsDown
  BY <1>1, TwoPeers DEF IInv, ClientOK, ServerOK, FailureTearsDown
<1> QED
  BY <1>2, PeersInvariant, PTL
===============================================================================
