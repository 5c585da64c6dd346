--------------------------- MODULE TransceiverProofs ---------------------------
(***************************************************************************)
(* Proofs about Transceiver, for every frame length, every stream and      *)
(* every way to cut it: the buffer is bounded by the largest read, and the *)
(* messages that a read finds whole are handed over in order, once and     *)
(* untouched, and no others.                                               *)
(***************************************************************************)
EXTENDS Transceiver, WellFoundedInduction, TLAPS

USE TransceiverAssumption

\* The variables that the buffer depends on.
BufferTypeOK == /\ wire \in Seq(Tokens)
                /\ buffer \in Seq(Tokens)
                /\ sent \in 0..MaxSent
                /\ pos \in Nat
                /\ largest \in Nat

\* The position leaves 0 only with the first slice of a read, so that a read
\* which finds none has nothing to reset.
PositionFollowsSlices == reading /\ ~ok => pos = 0

IInv == BufferTypeOK /\ BoundedByOneRead /\ PositionFollowsSlices

-------------------------------------------------------------------------------
\* What is written to the wire is made of tokens.
LEMMA WrittenType ==
    ASSUME NEW i \in 0..MaxSent
    PROVE  Written(i) \in Seq(Tokens)
<1>1. Frame(i) \in Seq(Tokens)
  BY DEF Frame, Token, Tokens
<1>2. <<Garbage>> \in Seq(Tokens)
  BY DEF Garbage, Tokens
<1>3. QED
  BY <1>1, <1>2 DEF Written

\* Writing over the buffer makes it as long as the longer of the two.
LEMMA OverwrittenLength ==
    ASSUME NEW old \in Seq(Tokens), NEW data \in Seq(Tokens)
    PROVE  /\ Overwritten(old, data) \in Seq(Tokens)
           /\ Len(Overwritten(old, data)) =
                  IF Len(old) > Len(data) THEN Len(old) ELSE Len(data)
<1> DEFINE rest == SubSeq(old, Len(data) + 1, Len(old))
<1>1. /\ rest \in Seq(Tokens)
      /\ Len(rest) = IF Len(old) > Len(data) THEN Len(old) - Len(data) ELSE 0
      /\ Len(data) \in Nat /\ Len(old) \in Nat
  OBVIOUS
<1> HIDE DEF rest
<1>2. Len(data \o rest) = Len(data) + Len(rest) /\ data \o rest \in Seq(Tokens)
  BY <1>1
<1>3. Overwritten(old, data) = data \o rest
  BY DEF Overwritten, rest
<1>4. QED
  BY <1>1, <1>2, <1>3

\* A flush never lengthens the buffer.
LEMMA FlushedLength ==
    ASSUME buffer \in Seq(Tokens), pos \in Nat
    PROVE  Flushed \in Seq(Tokens) /\ Len(Flushed) <= Len(buffer)
  BY DEF Flushed

\* A slice lies in the buffer.
LEMMA BoundsType ==
    ASSUME NEW data \in Seq(Tokens), NEW p \in Nat, NEW b \in Bounds(data, p)
    PROVE  b.last \in Nat /\ b.last <= Len(data)
  BY DEF Bounds

\* A read that ends without a slice leaves the position where it was, at 0, and
\* one that ends with a slice flushes: this is why the invariant is inductive.
LEMMA InductiveInvariant == Spec => []IInv
<1>1. Init => IInv
  BY DEF Init, IInv, BufferTypeOK, BoundedByOneRead, PositionFollowsSlices
<1>2. IInv /\ [Next]_vars => IInv'
  <2> SUFFICES ASSUME IInv, [Next]_vars
               PROVE  IInv'
    OBVIOUS
  <2> USE DEF IInv, BufferTypeOK, BoundedByOneRead, PositionFollowsSlices
  <2>1. CASE Send
    <3>1. sent + 1 \in 0..MaxSent
      BY <2>1 DEF Send
    <3>2. wire' \in Seq(Tokens)
      BY <2>1, <3>1, WrittenType DEF Send
    <3>3. QED
      BY <2>1, <3>1, <3>2 DEF Send
  <2>2. CASE OnReadyRead
    <3>1. PICK n \in 1..Len(wire) :
             /\ buffer' = Overwritten(buffer, SubSeq(wire, 1, n))
             /\ wire' = SubSeq(wire, n + 1, Len(wire))
             /\ largest' = IF n > largest THEN n ELSE largest
      BY <2>2 DEF OnReadyRead
    <3> DEFINE data == SubSeq(wire, 1, n)
    <3>2. data \in Seq(Tokens) /\ Len(data) = n /\ wire' \in Seq(Tokens)
      BY <3>1
    <3> HIDE DEF data
    <3>3. /\ buffer' \in Seq(Tokens)
          /\ Len(buffer') = IF Len(buffer) > n THEN Len(buffer) ELSE n
      BY <3>1, <3>2, OverwrittenLength DEF data
    <3>4. largest' \in Nat /\ Len(buffer') <= largest'
      BY <3>1, <3>3
    <3>5. reading' /\ pos' = 0
      BY <2>2 DEF OnReadyRead
    <3>6. QED
      BY <2>2, <3>2, <3>3, <3>4, <3>5 DEF OnReadyRead
  <2>3. CASE ReadData
    <3>1. PICK b \in Bounds(buffer, pos) : pos' = b.last
      BY <2>3 DEF ReadData
    <3>2. pos' \in Nat
      BY <3>1, BoundsType
    <3>3. QED
      BY <2>3, <3>2 DEF ReadData
  <2>4. CASE EndRead
    <3>1. CASE ok \/ Len(buffer) > MaxBufferSize
      <4>1. buffer' \in Seq(Tokens) /\ Len(buffer') <= Len(buffer)
        BY <2>4, <3>1, FlushedLength DEF EndRead
      <4>2. Len(buffer') <= largest'
        BY <2>4, <4>1 DEF EndRead
      <4>3. QED
        BY <2>4, <3>1, <4>1, <4>2 DEF EndRead
    <3>2. CASE ~(ok \/ Len(buffer) > MaxBufferSize)
      BY <2>4, <3>2 DEF EndRead
    <3>3. QED
      BY <3>1, <3>2
  <2>5. CASE Stop
    BY <2>5 DEF Stop
  <2>6. CASE Listen
    BY <2>6 DEF Listen
  <2>7. CASE UNCHANGED vars
    BY <2>7 DEF vars
  <2>8. QED
    BY <2>1, <2>2, <2>3, <2>4, <2>5, <2>6, <2>7 DEF Next
<1>3. QED
  BY <1>1, <1>2, PTL DEF Spec

\* The buffer never grows beyond the largest read, whatever the length of the
\* messages, wherever the reads end and whenever the device is changed: the
\* reads overwrite, and onReadyRead() starts each of them at the position 0.
THEOREM BufferIsBounded == Spec => []BoundedByOneRead
<1>1. IInv => BoundedByOneRead
  BY DEF IInv
<1>2. QED
  BY <1>1, InductiveInvariant, PTL

-------------------------------------------------------------------------------
(* The order of the stream. *)

\* A token of a message, and not garbage.
Proper(t) == t[1] > 0

\* The order of the tokens in the stream.
Before(s, t) == s[1] < t[1] \/ (s[1] = t[1] /\ s[2] < t[2])

\* The first n tokens of q are a piece of a stream: in its order, and each
\* message without a gap.
Piece(q, n) ==
    \A a, b \in 1..n : a < b /\ Proper(q[a]) =>
        /\ Proper(q[b]) => Before(q[a], q[b])
        /\ q[a][2] + (b - a) <= FrameLen => q[b] = Token(q[a][1], q[a][2] + (b - a))

\* A message that begins in q, or began before it, ends in q.
Complete(q) ==
    \A a \in 1..Len(q) : Proper(q[a]) => a + (FrameLen - q[a][2]) <= Len(q)

\* What lies behind the first n tokens of q came before them in the stream, and
\* holds no slice.
Stale(q, n) ==
    \A b \in (n + 1)..Len(q) :
        /\ \A a \in 1..n : Proper(q[a]) /\ Proper(q[b]) => Before(q[b], q[a])
        /\ \A a \in (n + 1)..(b - 1) : ~ (IsStart(q[a]) /\ IsEnd(q[b]))

\* The messages that are handed over untouched.
Intact(g) == {m \in 1..MaxSent : Frame(m) \in Elements(g)}

\* The message m lies in q behind the position c.
LiesAt(q, c, m) == \A k \in 1..FrameLen : q[c + k] = Token(m, k)

\* The stream: what is on the wire is a piece of it whose messages end, and
\* comes after what is in the buffer and what was handed over; all of it belongs
\* to the messages above lo and up to hi.
Stream(w, q, g, lo, hi) ==
    /\ Piece(w, Len(w)) /\ Complete(w)
    /\ \A t \in Elements(w) \cup Elements(q) : Proper(t) => lo < t[1] /\ t[1] <= hi
    /\ \A t \in Elements(w) : Proper(t) => \A s \in Elements(q) : Proper(s) => Before(s, t)
    /\ \A m \in Intact(g) : lo < m /\ m <= hi /\ \A t \in Elements(w) : Proper(t) => m < t[1]

\* During a read, the first n tokens of the buffer are what was read.
InRead(q, n, p, g) ==
    /\ Piece(q, n) /\ Stale(q, n)
    /\ \A m \in Intact(g) : \A a \in (p + 1)..n : Proper(q[a]) => m < q[a][1]

\* The messages in F were found by some read, those of g and those that wait
\* among the first n tokens of q.
Found(q, n, p, g, F) ==
    /\ \A m \in 1..MaxSent : \A c \in 0..(n - FrameLen) : LiesAt(q, c, m) => m \in F
    /\ Intact(g) \subseteq F
    /\ \A m \in F \ Intact(g) : \E c \in p..(n - FrameLen) : LiesAt(q, c, m)

LEMMA TokenType ==
    /\ \A t \in Tokens : t[1] \in 0..MaxSent /\ t[2] \in 0..FrameLen
    /\ \A i, k : Token(i, k)[1] = i /\ Token(i, k)[2] = k
    /\ Garbage \in Tokens /\ ~Proper(Garbage)
    /\ \A i \in 1..MaxSent, k \in 1..FrameLen : Token(i, k) \in Tokens /\ Proper(Token(i, k))
BY DEF Tokens, Token, Garbage, Proper

\* A set of numbers has a least one.
LEMMA LeastOf ==
    ASSUME NEW T, T \subseteq Nat, T # {}
    PROVE  \E x \in T : \A y \in T : x <= y
<1>1. PICK x \in T : \A y \in T : ~ (<<y, x>> \in OpToRel(<, Nat))
  <2>1. \E x \in T : \A y \in T : ~ (<<y, x>> \in OpToRel(<, Nat))
    BY WFMin, NatLessThanWellFounded, Zenon
  <2> QED
    BY <2>1
<1>2. \A y \in T : ~(y < x)
  BY <1>1 DEF OpToRel
<1> QED
  BY <1>2

LEMMA BoundsAre ==
    ASSUME NEW q \in Seq(Tokens), NEW p \in Nat, NEW b \in Bounds(q, p)
    PROVE  /\ b.first \in (p + 1)..Len(q) /\ b.last \in (p + 2)..Len(q) /\ b.first < b.last
           /\ IsStart(q[b.first]) /\ IsEnd(q[b.last])
           /\ \A i \in (p + 1)..(b.first - 1) : ~IsStart(q[i])
           /\ \A i \in (b.first + 1)..(b.last - 1) : ~IsEnd(q[i])
BY DEF Bounds

\* Where no bounds are found, no end sentinel stands behind a start sentinel.
LEMMA NoBounds ==
    ASSUME NEW q \in Seq(Tokens), NEW p \in Nat, Bounds(q, p) = {},
           NEW a \in (p + 1)..Len(q), NEW b \in (a + 1)..Len(q)
    PROVE  ~ (IsStart(q[a]) /\ IsEnd(q[b]))
<1> SUFFICES ASSUME IsStart(q[a]), IsEnd(q[b]) PROVE FALSE
  OBVIOUS
<1>1. Len(q) \in Nat
  OBVIOUS
<1>2. PICK S : S = {i \in (p + 1)..Len(q) : IsStart(q[i])}
  OBVIOUS
<1>3. S \subseteq Nat /\ a \in S
  BY <1>1, <1>2
<1>4. PICK f \in S : \A i \in S : f <= i
  BY <1>3, LeastOf
<1>5. PICK E : E = {i \in (f + 1)..Len(q) : IsEnd(q[i])}
  OBVIOUS
<1>6. f \in (p + 1)..Len(q) /\ f <= a
  BY <1>2, <1>3, <1>4
<1>7. E \subseteq Nat /\ b \in E
  BY <1>1, <1>5, <1>6
<1>8. PICK l \in E : \A i \in E : l <= i
  BY <1>7, LeastOf
<1>9. l \in (p + 2)..Len(q) /\ f < l /\ IsStart(q[f]) /\ IsEnd(q[l])
  BY <1>1, <1>2, <1>5, <1>6
<1>10. \A i \in (p + 1)..(f - 1) : ~IsStart(q[i])
  BY <1>1, <1>2, <1>4, <1>6
<1>11. \A i \in (f + 1)..(l - 1) : ~IsEnd(q[i])
  BY <1>1, <1>5, <1>6, <1>8, <1>9
<1>12. PICK r : r = [first |-> f, last |-> l]
  OBVIOUS
<1>13. r.first = f /\ r.last = l /\ r \in [first : (p + 1)..Len(q), last : (p + 2)..Len(q)]
  BY <1>6, <1>9, <1>12
<1>14. r \in Bounds(q, p)
  BY <1>9, <1>10, <1>11, <1>13 DEF Bounds
<1> QED
  BY <1>14

\* A slice of q from f to l.
LEMMA SliceIs ==
    ASSUME NEW q \in Seq(Tokens), NEW f \in 1..Len(q), NEW l \in f..Len(q)
    PROVE  /\ SubSeq(q, f, l) \in Seq(Tokens)
           /\ \A m \in 1..MaxSent :
                 SubSeq(q, f, l) = Frame(m) <=> l = f - 1 + FrameLen /\ LiesAt(q, f - 1, m)
<1> DEFINE s == SubSeq(q, f, l)
<1>1. s \in Seq(Tokens) /\ Len(s) = l - f + 1 /\ \A k \in 1..(l - f + 1) : s[k] = q[f + k - 1]
  OBVIOUS
<1>2. s = [k \in 1..(l - f + 1) |-> s[k]]
  BY <1>1
<1> HIDE DEF s
<1>3. ASSUME NEW m \in 1..MaxSent, s = Frame(m)
      PROVE  l = f - 1 + FrameLen /\ LiesAt(q, f - 1, m)
  <2>1. DOMAIN s = 1..FrameLen /\ \A k \in 1..FrameLen : s[k] = Token(m, k)
    BY <1>3 DEF Frame
  <2>2. DOMAIN s = 1..(l - f + 1)
    BY <1>1
  <2>3. l - f + 1 = FrameLen
    BY <2>1, <2>2
  <2>4. \A k \in 1..FrameLen : (f - 1) + k = f + k - 1
    OBVIOUS
  <2> QED
    BY <1>1, <2>1, <2>3, <2>4 DEF LiesAt
<1>4. ASSUME NEW m \in 1..MaxSent, l = f - 1 + FrameLen, LiesAt(q, f - 1, m)
      PROVE  s = Frame(m)
  <2>1. l - f + 1 = FrameLen /\ \A k \in 1..FrameLen : (f - 1) + k = f + k - 1
    BY <1>4
  <2>2. \A k \in 1..FrameLen : s[k] = Token(m, k)
    BY <1>1, <1>4, <2>1 DEF LiesAt
  <2> QED
    BY <1>2, <2>1, <2>2 DEF Frame
<1> QED
  BY <1>1, <1>3, <1>4 DEF s

-------------------------------------------------------------------------------
(* The sender writes. *)

LEMMA WrittenIs ==
    ASSUME NEW i \in 1..MaxSent
    PROVE  /\ Written(i) \in Seq(Tokens) /\ Len(Written(i)) = FrameLen + 2
           /\ \A k \in 1..(FrameLen + 2) :
                 Written(i)[k] = IF k - 1 \in 1..FrameLen THEN Token(i, k - 1) ELSE Garbage
<1>1. PICK f : f = Frame(i)
  OBVIOUS
<1>2. PICK g \in Tokens : g = Garbage
  BY TokenType
<1>3. f \in [1..FrameLen -> Tokens] /\ \A k \in 1..FrameLen : f[k] = Token(i, k)
  BY <1>1, TokenType DEF Frame
<1>4. f \in Seq(Tokens) /\ Len(f) = FrameLen
  BY <1>3
<1>5. Written(i) = <<g>> \o f \o <<g>>
  BY <1>1, <1>2 DEF Written
<1>6. PICK h : h = <<g>> \o f
  OBVIOUS
<1>7. /\ h \in Seq(Tokens) /\ Len(h) = FrameLen + 1 /\ h[1] = g
      /\ \A k \in 2..(FrameLen + 1) : h[k] = f[k - 1]
  BY <1>4, <1>6
<1>8. PICK w : w = h \o <<g>>
  OBVIOUS
<1>9. /\ w \in Seq(Tokens) /\ Len(w) = FrameLen + 2 /\ w[FrameLen + 2] = g
      /\ \A k \in 1..(FrameLen + 1) : w[k] = h[k]
  BY <1>7, <1>8
<1>10. ASSUME NEW k \in 1..(FrameLen + 2)
       PROVE  w[k] = IF k - 1 \in 1..FrameLen THEN Token(i, k - 1) ELSE g
  <2>1. CASE k = 1
    BY <1>7, <1>9, <2>1
  <2>2. CASE k = FrameLen + 2
    BY <1>9, <2>2
  <2>3. CASE k \in 2..(FrameLen + 1)
    <3>1. k - 1 \in 1..FrameLen /\ w[k] = f[k - 1]
      BY <1>7, <1>9, <2>3
    <3> QED
      BY <1>3, <3>1
  <2> QED
    BY <2>1, <2>2, <2>3
<1> QED
  BY <1>2, <1>5, <1>6, <1>8, <1>9, <1>10

\* A new message continues the stream.
LEMMA AppendedStream ==
    ASSUME NEW w \in Seq(Tokens), NEW i \in 1..MaxSent, Piece(w, Len(w)), Complete(w),
           \A t \in Elements(w) : Proper(t) => t[1] < i
    PROVE  LET v == w \o Written(i)
           IN  /\ v \in Seq(Tokens) /\ Piece(v, Len(v)) /\ Complete(v)
               /\ \A t \in Elements(v) : Proper(t) => t \in Elements(w) \/ t[1] = i
<1> DEFINE v == w \o Written(i)
           l == Len(w)
           z == FrameLen + 2
<1>1. /\ l \in Nat /\ v \in Seq(Tokens) /\ Len(v) = l + z
      /\ \A a \in 1..l : v[a] = w[a] /\ w[a] \in Elements(w) /\ w[a] \in Tokens
      /\ \A a \in (l + 1)..(l + z) : v[a] = Written(i)[a - l]
  <2>1. Written(i) \in Seq(Tokens) /\ Len(Written(i)) = z
    BY WrittenIs
  <2> HIDE DEF z
  <2> QED
    BY <2>1 DEF Elements
<1>2. \A a \in (l + 1)..(l + z) :
         v[a] = IF a - l - 1 \in 1..FrameLen THEN Token(i, a - l - 1) ELSE Garbage
  <2>1. \A a \in (l + 1)..(l + z) : a - l \in 1..z
    BY <1>1
  <2> HIDE DEF v, l
  <2> QED
    BY <1>1, <2>1, WrittenIs
<1> HIDE DEF v, l
<1>3. ASSUME NEW a \in (l + 1)..(l + z), Proper(v[a])
      PROVE  a - l - 1 \in 1..FrameLen /\ v[a] = Token(i, a - l - 1) /\ v[a][1] = i /\ v[a][2] = a - l - 1
  BY <1>1, <1>2, <1>3, TokenType
<1>4. ASSUME NEW a \in 1..(l + z), NEW b \in 1..(l + z), a < b, Proper(v[a])
      PROVE  /\ Proper(v[b]) => Before(v[a], v[b])
             /\ v[a][2] + (b - a) <= FrameLen => v[b] = Token(v[a][1], v[a][2] + (b - a))
  <2>1. CASE b <= l
    <3>1. a \in 1..l /\ b \in 1..l
      BY <1>1, <1>4, <2>1
    <3> QED
      BY <1>1, <1>4, <3>1 DEF Piece, l
  <2>2. CASE a <= l /\ l < b
    <3>1. a \in 1..l /\ b \in (l + 1)..(l + z)
      BY <1>1, <2>2
    <3>2. v[a] \in Tokens /\ v[a][1] < i /\ v[a] = w[a]
      BY <1>1, <1>4, <3>1
    <3>3. a + (FrameLen - v[a][2]) <= l
      BY <1>4, <3>1, <3>2 DEF Complete, l
    <3>4. ~ (v[a][2] + (b - a) <= FrameLen)
      <4>1. v[a][2] \in Nat /\ l \in Nat /\ a \in Nat /\ b \in Nat
        BY <1>1, <3>1, <3>2, TokenType
      <4> QED
        BY <2>2, <3>3, <4>1
    <3> QED
      BY <1>3, <3>1, <3>2, <3>4 DEF Before
  <2>3. CASE l < a
    <3>1. a \in (l + 1)..(l + z) /\ b \in (l + 1)..(l + z)
      BY <1>1, <1>4, <2>3
    <3>2. a - l - 1 \in 1..FrameLen /\ v[a][1] = i /\ v[a][2] = a - l - 1
      BY <1>3, <1>4, <3>1
    <3>3. ASSUME Proper(v[b]) PROVE Before(v[a], v[b])
      <4>1. v[b][1] = i /\ v[b][2] = b - l - 1
        BY <1>3, <3>1, <3>3
      <4> QED
        BY <1>1, <1>4, <3>2, <4>1 DEF Before
    <3>4. ASSUME v[a][2] + (b - a) <= FrameLen PROVE v[b] = Token(i, v[a][2] + (b - a))
      <4>1. b - l - 1 \in 1..FrameLen /\ b - l - 1 = v[a][2] + (b - a)
        BY <1>1, <1>4, <3>2, <3>4
      <4> QED
        BY <1>2, <3>1, <4>1
    <3> QED
      BY <3>2, <3>3, <3>4
  <2> QED
    BY <1>1, <2>1, <2>2, <2>3
<1>5. Piece(v, Len(v))
  BY <1>1, <1>4 DEF Piece
<1>6. ASSUME NEW a \in 1..(l + z), Proper(v[a])
      PROVE  a + (FrameLen - v[a][2]) <= l + z
  <2>1. CASE a <= l
    <3>1. a \in 1..l /\ v[a] = w[a] /\ v[a] \in Tokens
      BY <1>1, <2>1
    <3>2. a + (FrameLen - v[a][2]) <= l
      BY <1>6, <3>1 DEF Complete, l
    <3> QED
      BY <1>1, <3>1, <3>2, TokenType
  <2>2. CASE l < a
    <3>1. a \in (l + 1)..(l + z)
      BY <1>1, <2>2
    <3>2. v[a][2] = a - l - 1
      BY <1>3, <1>6, <3>1
    <3> QED
      BY <1>1, <3>2
  <2> QED
    BY <1>1, <2>1, <2>2
<1>7. Complete(v)
  BY <1>1, <1>6 DEF Complete
<1>8. ASSUME NEW t \in Elements(v), Proper(t) PROVE t \in Elements(w) \/ t[1] = i
  <2>1. PICK a \in 1..(l + z) : v[a] = t
    BY <1>1 DEF Elements
  <2>2. a \in 1..l \/ a \in (l + 1)..(l + z)
    BY <1>1
  <2> QED
    BY <1>1, <1>3, <1>8, <2>1, <2>2
<1> QED
  BY <1>1, <1>5, <1>7, <1>8 DEF v

-------------------------------------------------------------------------------
(* A read begins. *)

LEMMA ConcatIs ==
    ASSUME NEW s \in Seq(Tokens), NEW t \in Seq(Tokens)
    PROVE  /\ s \o t \in Seq(Tokens) /\ Len(s \o t) = Len(s) + Len(t)
           /\ Len(s) \in Nat /\ Len(t) \in Nat
           /\ \A a \in 1..Len(s) : (s \o t)[a] = s[a]
           /\ \A a \in (Len(s) + 1)..(Len(s) + Len(t)) : (s \o t)[a] = t[a - Len(s)]
OBVIOUS

\* The slices of the wire and of the buffer, place by place.
Places(old, w, n, q, v) ==
    /\ q \in Seq(Tokens) /\ n <= Len(q) /\ Len(q) \in Nat
    /\ \A a \in 1..n : q[a] = w[a]
    /\ \A a \in (n + 1)..Len(q) : q[a] = old[a] /\ a \in 1..Len(old)
    /\ v \in Seq(Tokens) /\ Len(v) = Len(w) - n
    /\ \A a \in 1..(Len(w) - n) : v[a] = w[a + n]

LEMMA ReadPlaces ==
    ASSUME NEW old \in Seq(Tokens), NEW w \in Seq(Tokens), NEW n \in 1..Len(w)
    PROVE  Places(old, w, n, Overwritten(old, SubSeq(w, 1, n)), SubSeq(w, n + 1, Len(w)))
<1>1. PICK data : data = SubSeq(w, 1, n)
  OBVIOUS
<1>2. data \in Seq(Tokens) /\ Len(data) = n /\ \A a \in 1..n : data[a] = w[a]
  BY <1>1
<1>3. PICK rest : rest = SubSeq(old, n + 1, Len(old))
  OBVIOUS
<1>4. /\ rest \in Seq(Tokens) /\ Len(rest) = IF Len(old) > n THEN Len(old) - n ELSE 0
      /\ \A a \in 1..Len(rest) : rest[a] = old[a + n]
      /\ Len(old) \in Nat
  BY <1>3
<1>5. PICK q : q = Overwritten(old, data)
  OBVIOUS
<1>6. q = data \o rest
  BY <1>2, <1>3, <1>5 DEF Overwritten
<1>7. /\ q \in Seq(Tokens) /\ Len(q) = n + Len(rest)
      /\ \A a \in 1..n : q[a] = data[a]
      /\ \A a \in (n + 1)..(n + Len(rest)) : q[a] = rest[a - n]
  BY <1>2, <1>4, <1>6, ConcatIs
<1>8. \A a \in (n + 1)..Len(q) : q[a] = old[a] /\ a \in 1..Len(old)
  <2> SUFFICES ASSUME NEW a \in (n + 1)..Len(q) PROVE q[a] = old[a] /\ a \in 1..Len(old)
    OBVIOUS
  <2>1. a - n \in 1..Len(rest) /\ (a - n) + n = a /\ a \in (n + 1)..(n + Len(rest))
    BY <1>4, <1>7
  <2>2. Len(old) > n
    BY <1>4, <2>1
  <2> QED
    BY <1>4, <1>7, <2>1, <2>2
<1>9. PICK v : v = SubSeq(w, n + 1, Len(w))
  OBVIOUS
<1>10. v \in Seq(Tokens) /\ Len(v) = Len(w) - n /\ \A a \in 1..(Len(w) - n) : v[a] = w[a + n]
  BY <1>9
<1>11. Places(old, w, n, q, v)
  BY <1>2, <1>4, <1>7, <1>8, <1>10 DEF Places
<1> QED
  BY <1>1, <1>5, <1>9, <1>11

LEMMA ElementsType ==
    ASSUME NEW q \in Seq(Tokens)
    PROVE  /\ Len(q) \in Nat /\ Elements(q) \subseteq Tokens
           /\ \A a \in 1..Len(q) : q[a] \in Elements(q)
           /\ \A t \in Elements(q) : \E a \in 1..Len(q) : q[a] = t
BY DEF Elements

LEMMA ReadBegins ==
    ASSUME NEW old \in Seq(Tokens), NEW w \in Seq(Tokens), NEW n \in 1..Len(w),
           NEW g, NEW lo \in Nat, NEW hi \in Nat, Stream(w, old, g, lo, hi), Stale(old, 0)
    PROVE  LET q == Overwritten(old, SubSeq(w, 1, n))
               v == SubSeq(w, n + 1, Len(w))
           IN  /\ q \in Seq(Tokens) /\ n \in 0..Len(q)
               /\ Stream(v, q, g, lo, hi) /\ InRead(q, n, 0, g)
<1>1. PICK q : q = Overwritten(old, SubSeq(w, 1, n))
  OBVIOUS
<1>2. PICK v : v = SubSeq(w, n + 1, Len(w))
  OBVIOUS
<1>3. /\ q \in Seq(Tokens) /\ n <= Len(q) /\ Len(q) \in Nat
      /\ \A a \in 1..n : q[a] = w[a]
      /\ \A a \in (n + 1)..Len(q) : q[a] = old[a] /\ a \in 1..Len(old)
      /\ v \in Seq(Tokens) /\ Len(v) = Len(w) - n
      /\ \A a \in 1..(Len(w) - n) : v[a] = w[a + n]
  <2>1. Places(old, w, n, q, v)
    BY <1>1, <1>2, ReadPlaces
  <2> QED
    BY <2>1 DEF Places
<1>4. PICK l \in Nat : l = Len(w)
  OBVIOUS
<1>5. n \in 1..l
  BY <1>4
<1>6. \A a \in 1..l : w[a] \in Elements(w) /\ w[a] \in Tokens
  BY <1>4 DEF Elements
<1>7. \A a \in 1..Len(old) : old[a] \in Elements(old)
  BY DEF Elements
<1>8. \A a, b \in 1..l : a < b /\ Proper(w[a]) =>
          /\ Proper(w[b]) => Before(w[a], w[b])
          /\ w[a][2] + (b - a) <= FrameLen => w[b] = Token(w[a][1], w[a][2] + (b - a))
  BY <1>4 DEF Stream, Piece
<1>9. \A t \in Elements(w), s \in Elements(old) : Proper(t) /\ Proper(s) => Before(s, t)
  BY DEF Stream
<1>10. Piece(v, Len(v))
  <2>1. ASSUME NEW a \in 1..(l - n), NEW b \in 1..(l - n), a < b, Proper(v[a])
        PROVE  /\ Proper(v[b]) => Before(v[a], v[b])
               /\ v[a][2] + (b - a) <= FrameLen => v[b] = Token(v[a][1], v[a][2] + (b - a))
    <3>1. /\ a + n \in 1..l /\ b + n \in 1..l /\ a + n < b + n /\ (b + n) - (a + n) = b - a
          /\ v[a] = w[a + n] /\ v[b] = w[b + n]
      <4>1. a \in 1..(Len(w) - n) /\ b \in 1..(Len(w) - n)
        BY <1>4, <2>1
      <4>2. v[a] = w[a + n] /\ v[b] = w[b + n]
        BY <1>3, <4>1
      <4> QED
        BY <1>4, <1>5, <2>1, <4>2
    <3> QED
      BY <1>8, <2>1, <3>1
  <2> QED
    BY <1>3, <1>4, <2>1 DEF Piece
<1>11. Complete(v)
  <2>1. ASSUME NEW a \in 1..(l - n), Proper(v[a]) PROVE a + (FrameLen - v[a][2]) <= l - n
    <3>1. a + n \in 1..l /\ v[a] = w[a + n] /\ v[a] \in Tokens
      BY <1>3, <1>4, <1>5, <1>6
    <3>2. (a + n) + (FrameLen - v[a][2]) <= l
      BY <1>4, <2>1, <3>1 DEF Stream, Complete
    <3>3. PICK k \in Nat : k = v[a][2]
      BY <3>1, TokenType
    <3>4. (a + n) + (FrameLen - k) <= l
      BY <3>2, <3>3
    <3>5. a + (FrameLen - k) <= l - n
      BY <1>5, <3>4
    <3> QED
      BY <3>3, <3>5
  <2> QED
    BY <1>3, <1>4, <2>1 DEF Complete
<1>12. ASSUME NEW t \in Elements(v) PROVE \E b \in (n + 1)..l : t = w[b]
  <2>1. PICK a \in 1..(l - n) : v[a] = t
    <3>1. DOMAIN v = 1..(l - n)
      BY <1>3, <1>4
    <3> QED
      BY <1>12, <3>1 DEF Elements
  <2>2. a + n \in (n + 1)..l /\ w[a + n] = t
    BY <1>3, <1>4, <1>5, <2>1
  <2> QED
    BY <2>2
<1>13. ASSUME NEW t \in Elements(q) PROVE t \in Elements(old) \/ \E a \in 1..n : t = w[a]
  <2>1. PICK a \in 1..Len(q) : q[a] = t
    BY <1>3, ElementsType
  <2>2. a \in 1..n \/ a \in (n + 1)..Len(q)
    BY <1>5, <1>3
  <2> QED
    BY <1>3, <1>7, <2>1, <2>2
<1>14. Elements(v) \subseteq Elements(w) /\ Elements(q) \subseteq Elements(old) \cup Elements(w)
  BY <1>5, <1>6, <1>12, <1>13
<1>15. ASSUME NEW t \in Elements(v), NEW s \in Elements(q), Proper(t), Proper(s) PROVE Before(s, t)
  <2>1. PICK b \in (n + 1)..l : t = w[b]
    BY <1>12
  <2>2. b \in 1..l
    BY <1>5
  <2>3. CASE s \in Elements(old)
    BY <1>6, <1>9, <1>15, <2>1, <2>2, <2>3
  <2>4. ASSUME NEW a \in 1..n, s = w[a] PROVE Before(s, t)
    <3>1. a \in 1..l /\ a < b
      BY <1>5
    <3> QED
      BY <1>8, <1>15, <2>1, <2>2, <2>4, <3>1
  <2> QED
    BY <1>13, <2>3, <2>4
<1>16. Stream(v, q, g, lo, hi)
  BY <1>10, <1>11, <1>14, <1>15 DEF Stream
<1>17. Piece(q, n)
  <2>1. ASSUME NEW a \in 1..n, NEW b \in 1..n, a < b, Proper(q[a])
        PROVE  /\ Proper(q[b]) => Before(q[a], q[b])
               /\ q[a][2] + (b - a) <= FrameLen => q[b] = Token(q[a][1], q[a][2] + (b - a))
    <3>1. a \in 1..l /\ b \in 1..l /\ q[a] = w[a] /\ q[b] = w[b]
      BY <1>3, <1>5
    <3> QED
      BY <1>8, <2>1, <3>1
  <2> QED
    BY <2>1 DEF Piece
<1>18. Stale(q, n)
  <2>1. ASSUME NEW b \in (n + 1)..Len(q), NEW a \in 1..n, Proper(q[a]), Proper(q[b])
        PROVE  Before(q[b], q[a])
    <3>1. a \in 1..l /\ q[a] = w[a] /\ q[b] = old[b] /\ b \in 1..Len(old)
      BY <1>3, <1>5
    <3> QED
      BY <1>6, <1>7, <1>9, <2>1, <3>1
  <2>2. ASSUME NEW b \in (n + 1)..Len(q), NEW a \in (n + 1)..(b - 1)
        PROVE  ~ (IsStart(q[a]) /\ IsEnd(q[b]))
    <3>1. a \in (n + 1)..Len(q)
      BY <1>3
    <3>2. q[a] = old[a] /\ q[b] = old[b] /\ b \in (0 + 1)..Len(old) /\ a \in (0 + 1)..(b - 1)
      BY <1>3, <3>1
    <3> QED
      BY <3>2 DEF Stale
  <2> QED
    BY <2>1, <2>2 DEF Stale
<1>19. ASSUME NEW m \in Intact(g), NEW a \in (0 + 1)..n, Proper(q[a]) PROVE m < q[a][1]
  <2>1. q[a] = w[a] /\ w[a] \in Elements(w)
    BY <1>3, <1>5, <1>6
  <2> QED
    BY <1>19, <2>1 DEF Stream
<1>20. InRead(q, n, 0, g)
  BY <1>17, <1>18, <1>19 DEF InRead
<1> QED
  BY <1>1, <1>2, <1>3, <1>16, <1>20

\* A message whose tokens are all in a piece of the stream lies in it.
LEMMA WholeLies ==
    ASSUME NEW q, NEW n \in Nat, Piece(q, n), \A a \in 1..n : q[a] \in Tokens,
           NEW m \in 1..MaxSent, \A k \in 1..FrameLen : \E a \in 1..n : q[a] = Token(m, k)
    PROVE  \E c \in 0..(n - FrameLen) : LiesAt(q, c, m)
<1>1. PICK a \in 1..n : q[a] = Token(m, 1)
  OBVIOUS
<1>2. PICK e \in 1..n : q[e] = Token(m, FrameLen)
  OBVIOUS
<1>3. Proper(q[a]) /\ Proper(q[e]) /\ q[a][1] = m /\ q[e][1] = m /\ q[a][2] = 1 /\ q[e][2] = FrameLen
  BY <1>1, <1>2, TokenType
<1>4. a < e
  <2>1. a # e
    BY <1>3
  <2>2. ~ (e < a)
    BY <1>3 DEF Piece, Before
  <2> QED
    BY <2>1, <2>2
<1>5. FrameLen - 1 <= e - a
  <2> SUFFICES ASSUME ~ (FrameLen - 1 <= e - a) PROVE FALSE
    OBVIOUS
  <2>1. q[e] = Token(m, 1 + (e - a))
    BY <1>3, <1>4 DEF Piece
  <2>2. FrameLen = 1 + (e - a)
    BY <1>3, <2>1, TokenType
  <2> QED
    BY <2>2
<1>6. ASSUME NEW k \in 1..FrameLen PROVE q[(a - 1) + k] = Token(m, k)
  <2>1. CASE k = 1
    BY <1>1, <2>1
  <2>2. CASE k # 1
    <3>1. /\ (a - 1) + k \in 1..n /\ a < (a - 1) + k /\ ((a - 1) + k) - a = k - 1
          /\ 1 + (k - 1) = k /\ k <= FrameLen
      BY <1>5, <2>2
    <3>2. q[(a - 1) + k] = Token(m, 1 + (k - 1))
      BY <1>3, <3>1 DEF Piece
    <3> QED
      BY <3>1, <3>2
  <2> QED
    BY <2>1, <2>2
<1>7. a - 1 \in 0..(n - FrameLen)
  BY <1>5
<1> QED
  BY <1>6, <1>7 DEF LiesAt

\* Of a read of n tokens that begins with F as what was found and handed over.
LEMMA FoundBegins ==
    ASSUME NEW q, NEW n \in Nat, Piece(q, n), \A a \in 1..n : q[a] \in Tokens,
           NEW data \in Seq(Tokens), Len(data) = n, \A a \in 1..n : data[a] = q[a],
           NEW g, NEW F, F \subseteq 1..MaxSent, Intact(g) = F
    PROVE  Found(q, n, 0, g, F \cup WholeIn(data))
<1>1. ASSUME NEW m \in 1..MaxSent, NEW c \in 0..(n - FrameLen), LiesAt(q, c, m)
      PROVE  m \in WholeIn(data)
  <2>1. \A k \in 1..FrameLen : c + k \in DOMAIN data /\ data[c + k] = Token(m, k)
    BY <1>1 DEF LiesAt
  <2>2. Elements(Frame(m)) \subseteq Elements(data)
    BY <2>1 DEF Elements, Frame
  <2> QED
    BY <2>2 DEF WholeIn
<1>2. ASSUME NEW m \in WholeIn(data) PROVE \E c \in 0..(n - FrameLen) : LiesAt(q, c, m)
  <2>1. m \in 1..MaxSent /\ Elements(Frame(m)) \subseteq Elements(data)
    BY DEF WholeIn
  <2>2. ASSUME NEW k \in 1..FrameLen PROVE \E a \in 1..n : q[a] = Token(m, k)
    <3>1. Token(m, k) \in Elements(Frame(m))
      BY DEF Elements, Frame
    <3>2. PICK a \in 1..Len(data) : data[a] = Token(m, k)
      BY <2>1, <3>1, ElementsType
    <3> QED
      BY <3>2
  <2> QED
    BY <2>1, <2>2, WholeLies
<1> QED
  BY <1>1, <1>2 DEF Found

-------------------------------------------------------------------------------
(* A slice is handed over. *)

IsSlice(q, b, m) == SubSeq(q, b.first, b.last) = Frame(m)

\* A slice that is a message lies among the tokens of this read, because its
\* tokens would otherwise be read before those that precede them.
LEMMA IntactSlice ==
    ASSUME NEW q \in Seq(Tokens), NEW n \in 0..Len(q), NEW p \in Nat, NEW b \in Bounds(q, p),
           Piece(q, n), Stale(q, n),
           NEW m \in 1..MaxSent, IsSlice(q, b, m)
    PROVE  /\ b.last = b.first - 1 + FrameLen /\ LiesAt(q, b.first - 1, m)
           /\ b.first - 1 \in p..(n - FrameLen) /\ b.last <= n
           /\ q[b.first] = Token(m, 1) /\ q[b.last] = Token(m, FrameLen)
<1>1. PICK f \in (p + 1)..Len(q) : f = b.first
  BY BoundsAre
<1>2. PICK l \in (p + 2)..Len(q) : l = b.last
  BY BoundsAre
<1>3. f < l /\ IsStart(q[f]) /\ IsEnd(q[l]) /\ Len(q) \in Nat
  BY <1>1, <1>2, BoundsAre
<1>4. f \in 1..Len(q) /\ l \in f..Len(q)
  BY <1>3
<1>5. l = f - 1 + FrameLen /\ LiesAt(q, f - 1, m)
  BY <1>1, <1>2, <1>4, SliceIs DEF IsSlice
<1>6. \A k \in 1..FrameLen : q[(f - 1) + k] = Token(m, k)
  BY <1>5 DEF LiesAt
<1>7. q[f] = Token(m, 1) /\ q[l] = Token(m, FrameLen)
  <2>1. q[(f - 1) + 1] = Token(m, 1) /\ q[(f - 1) + FrameLen] = Token(m, FrameLen)
    BY <1>6
  <2>2. (f - 1) + 1 = f /\ (f - 1) + FrameLen = l
    BY <1>5
  <2> QED
    BY <2>1, <2>2
<1>8. f <= n
  <2> SUFFICES ASSUME ~ (f <= n) PROVE FALSE
    OBVIOUS
  <2>1. l \in (n + 1)..Len(q) /\ f \in (n + 1)..(l - 1)
    BY <1>3, <1>4
  <2> QED
    BY <1>3, <2>1 DEF Stale
<1>9. l <= n
  <2> SUFFICES ASSUME ~ (l <= n) PROVE FALSE
    OBVIOUS
  <2>1. PICK k \in 1..FrameLen : k = n - f + 1
    BY <1>5, <1>8
  <2>2. k + 1 \in 1..FrameLen /\ (f - 1) + k = n /\ (f - 1) + (k + 1) = n + 1
    BY <1>5, <2>1
  <2>3. q[n] = Token(m, k) /\ q[n + 1] = Token(m, k + 1)
    BY <1>6, <2>2
  <2>4. n + 1 \in (n + 1)..Len(q) /\ n \in 1..n
    BY <1>4, <1>8
  <2>5. Proper(q[n]) /\ Proper(q[n + 1])
    BY <2>2, <2>3, TokenType
  <2>6. Before(q[n + 1], q[n])
    BY <2>4, <2>5 DEF Stale
  <2> QED
    BY <2>3, <2>6, TokenType DEF Before
<1>10. f - 1 \in p..(n - FrameLen)
  BY <1>3, <1>5, <1>9
<1> QED
  BY <1>1, <1>2, <1>5, <1>7, <1>9, <1>10

LEMMA AppendedSlices ==
    ASSUME NEW g \in Seq(Seq(Tokens)), NEW s \in Seq(Tokens)
    PROVE  /\ Append(g, s) \in Seq(Seq(Tokens))
           /\ Elements(Append(g, s)) = Elements(g) \cup {s}
           /\ Intact(Append(g, s)) = Intact(g) \cup {m \in 1..MaxSent : Frame(m) = s}
<1> DEFINE t == Append(g, s)
           l == Len(g)
<1>1. /\ t \in Seq(Seq(Tokens)) /\ l \in Nat /\ DOMAIN g = 1..l /\ DOMAIN t = 1..(l + 1)
      /\ t[l + 1] = s /\ \A i \in 1..l : t[i] = g[i]
  OBVIOUS
<1> HIDE DEF t, l
<1>2. (\A i \in DOMAIN t : i \in DOMAIN g \/ i = l + 1) /\ DOMAIN g \subseteq DOMAIN t /\ l + 1 \in DOMAIN t
  BY <1>1
<1>3. Elements(t) = Elements(g) \cup {s}
  BY <1>1, <1>2 DEF Elements
<1> QED
  BY <1>1, <1>3 DEF t, Intact

\* The messages that are handed over untouched are in order, of this session.
InOrder(g, lo) ==
    \A i, j \in DOMAIN g : \A m, n \in 1..MaxSent :
        i < j /\ g[i] = Frame(m) /\ g[j] = Frame(n) => lo < m /\ m < n

LEMMA SliceInOrder ==
    ASSUME NEW g \in Seq(Seq(Tokens)), NEW s \in Seq(Tokens), NEW lo \in Nat, InOrder(g, lo),
           \A n \in 1..MaxSent : s = Frame(n) => \A m \in Intact(g) : lo < m /\ m < n
    PROVE  InOrder(Append(g, s), lo)
<1> DEFINE t == Append(g, s)
           l == Len(g)
<1>1. /\ l \in Nat /\ DOMAIN g = 1..l /\ DOMAIN t = 1..(l + 1)
      /\ t[l + 1] = s /\ \A i \in 1..l : t[i] = g[i]
  OBVIOUS
<1> HIDE DEF t, l
<1>2. ASSUME NEW i \in DOMAIN t, NEW j \in DOMAIN t, NEW m \in 1..MaxSent, NEW n \in 1..MaxSent,
             i < j, t[i] = Frame(m), t[j] = Frame(n)
      PROVE  lo < m /\ m < n
  <2>1. i \in DOMAIN g /\ t[i] = g[i]
    BY <1>1, <1>2
  <2>2. CASE j \in DOMAIN g
    <3>1. t[j] = g[j]
      BY <1>1, <2>2
    <3> QED
      BY <1>2, <2>1, <2>2, <3>1 DEF InOrder
  <2>3. CASE j = l + 1
    <3>1. m \in Intact(g)
      BY <1>2, <2>1 DEF Intact, Elements
    <3> QED
      BY <1>1, <1>2, <2>3, <3>1
  <2> QED
    BY <1>1, <2>2, <2>3
<1> QED
  BY <1>2 DEF InOrder, t

LEMMA SliceKeepsRead ==
    ASSUME NEW q \in Seq(Tokens), NEW n \in 0..Len(q), NEW p \in Nat, NEW b \in Bounds(q, p),
           NEW g \in Seq(Seq(Tokens)), InRead(q, n, p, g)
    PROVE  /\ InRead(q, n, b.last, Append(g, SubSeq(q, b.first, b.last)))
           /\ \A m \in 1..MaxSent : SubSeq(q, b.first, b.last) = Frame(m) =>
                 \A i \in Intact(g) : i < m
<1>1. PICK s : s = SubSeq(q, b.first, b.last)
  OBVIOUS
<1>2. b.first \in (p + 1)..Len(q) /\ b.last \in (p + 2)..Len(q) /\ b.first < b.last /\ Len(q) \in Nat
  BY BoundsAre
<1>3. b.first \in 1..Len(q) /\ b.last \in b.first..Len(q)
  BY <1>2
<1>4. s \in Seq(Tokens)
  BY <1>1, <1>3, SliceIs
<1>5. Intact(Append(g, s)) = Intact(g) \cup {m \in 1..MaxSent : Frame(m) = s}
  BY <1>4, AppendedSlices
<1>6. Piece(q, n) /\ Stale(q, n)
  BY DEF InRead
<1>7. ASSUME NEW m \in Intact(g), NEW a \in (b.last + 1)..n, Proper(q[a]) PROVE m < q[a][1]
  <2>1. a \in (p + 1)..n
    BY <1>2
  <2> QED
    BY <1>7, <2>1 DEF InRead
<1>8. ASSUME NEW m \in 1..MaxSent, Frame(m) = s
      PROVE  /\ \A a \in (b.last + 1)..n : Proper(q[a]) => m < q[a][1]
             /\ \A i \in Intact(g) : i < m
  <2>1. /\ b.last <= n /\ q[b.first] = Token(m, 1) /\ q[b.last] = Token(m, FrameLen)
    <3>1. IsSlice(q, b, m)
      BY <1>1, <1>8 DEF IsSlice
    <3> QED
      BY <1>6, <3>1, IntactSlice
  <2>2. Proper(q[b.last]) /\ q[b.last][1] = m /\ q[b.last][2] = FrameLen
    BY <2>1, TokenType
  <2>3. ASSUME NEW a \in (b.last + 1)..n, Proper(q[a]) PROVE m < q[a][1]
    <3>1. a \in 1..n /\ b.last \in 1..n /\ b.last < a /\ q[a] \in Tokens
      BY <1>2, <2>1
    <3>2. Before(q[b.last], q[a])
      BY <1>6, <2>2, <2>3, <3>1 DEF Piece
    <3> QED
      BY <2>2, <3>1, <3>2, TokenType DEF Before
  <2>4. ASSUME NEW i \in Intact(g) PROVE i < m
    <3>1. b.first \in (p + 1)..n
      BY <1>2, <2>1
    <3>2. Proper(q[b.first]) /\ q[b.first][1] = m
      BY <2>1, TokenType
    <3> QED
      BY <3>1, <3>2 DEF InRead
  <2> QED
    BY <2>3, <2>4
<1>9. InRead(q, n, b.last, Append(g, s))
  BY <1>5, <1>6, <1>7, <1>8 DEF InRead
<1> QED
  BY <1>1, <1>8, <1>9

\* A message that waits in the buffer is passed by no slice but its own: the
\* slice of an earlier start sentinel ends with the end sentinel of its message.
LEMMA SlicePasses ==
    ASSUME NEW q \in Seq(Tokens), NEW n \in 0..Len(q), NEW p \in Nat, NEW b \in Bounds(q, p),
           Piece(q, n), NEW m \in 1..MaxSent, NEW c \in p..(n - FrameLen), LiesAt(q, c, m)
    PROVE  b.last <= c \/ IsSlice(q, b, m)
<1>1. PICK f \in (p + 1)..Len(q) : f = b.first
  BY BoundsAre
<1>2. PICK l \in (p + 2)..Len(q) : l = b.last
  BY BoundsAre
<1>3. /\ f < l /\ IsStart(q[f]) /\ IsEnd(q[l]) /\ Len(q) \in Nat
      /\ \A i \in (p + 1)..(f - 1) : ~IsStart(q[i])
      /\ \A i \in (f + 1)..(l - 1) : ~IsEnd(q[i])
  BY <1>1, <1>2, BoundsAre
<1>4. \A k \in 1..FrameLen : q[c + k] = Token(m, k)
  BY DEF LiesAt
<1>5. c + 1 \in (p + 1)..n /\ c + FrameLen \in 1..n
  OBVIOUS
<1>6. IsStart(q[c + 1]) /\ IsEnd(q[c + FrameLen]) /\ q[c + 1][1] = m /\ q[c + 1][2] = 1
  <2>1. q[c + 1] = Token(m, 1) /\ q[c + FrameLen] = Token(m, FrameLen)
    BY <1>4
  <2> QED
    BY <2>1, TokenType DEF IsStart, IsEnd
<1>7. f <= c + 1
  BY <1>3, <1>5, <1>6
<1>8. CASE f = c + 1
  <2>1. l <= c + FrameLen
    BY <1>3, <1>5, <1>6, <1>8
  <2>2. PICK k \in 1..FrameLen : c + k = l
    <3>1. l - c \in 1..FrameLen /\ c + (l - c) = l
      BY <1>3, <1>8, <2>1
    <3> QED
      BY <3>1
  <2>3. k = FrameLen
    <3>1. q[l] = Token(m, k)
      BY <1>4, <2>2
    <3> QED
      BY <1>3, <3>1, TokenType DEF IsEnd
  <2>4. l = f - 1 + FrameLen /\ f - 1 = c
    BY <1>8, <2>2, <2>3
  <2>5. LiesAt(q, f - 1, m)
    BY <2>4
  <2>6. f \in 1..Len(q) /\ l \in f..Len(q)
    BY <1>3
  <2>7. SubSeq(q, f, l) = Frame(m)
    BY <2>4, <2>5, <2>6, SliceIs
  <2> QED
    BY <1>1, <1>2, <2>7 DEF IsSlice
<1>9. CASE f < c + 1
  <2>1. f \in 1..n /\ c + 1 \in 1..n
    BY <1>5, <1>9
  <2>2. Proper(q[f]) /\ q[f][2] = 1
    BY <1>3 DEF IsStart, Proper
  <2>3. f + FrameLen - 1 <= c
    <3> SUFFICES ASSUME ~ (f + FrameLen - 1 <= c) PROVE FALSE
      OBVIOUS
    <3>1. 1 + ((c + 1) - f) <= FrameLen
      BY <2>1
    <3>2. q[c + 1] = Token(q[f][1], 1 + ((c + 1) - f))
      BY <1>9, <2>1, <2>2, <3>1 DEF Piece
    <3>3. 1 = 1 + ((c + 1) - f)
      BY <1>6, <3>2, TokenType
    <3> QED
      BY <1>9, <3>3
  <2>4. PICK e \in 1..n : e = f + FrameLen - 1
    BY <2>1, <2>3
  <2>5. f < e /\ 1 + (e - f) = FrameLen /\ e <= c
    BY <2>3, <2>4
  <2>6. q[f][2] + (e - f) = FrameLen
    BY <2>2, <2>5
  <2>7. q[e] = Token(q[f][1], FrameLen)
    <3>1. q[f][2] + (e - f) <= FrameLen
      BY <2>6
    <3>2. \A x, y \in 1..n : x < y /\ Proper(q[x]) /\ q[x][2] + (y - x) <= FrameLen =>
             q[y] = Token(q[x][1], q[x][2] + (y - x))
      BY DEF Piece
    <3>3. q[e] = Token(q[f][1], q[f][2] + (e - f))
      BY <2>1, <2>2, <2>5, <3>1, <3>2
    <3> QED
      BY <2>6, <3>3
  <2>8. IsEnd(q[e])
    <3>1. q[e][1] = q[f][1] /\ q[e][2] = FrameLen
      BY <2>7, TokenType
    <3> QED
      BY <2>2, <3>1 DEF IsEnd, Proper
  <2>9. ~ (e \in (f + 1)..(l - 1))
    BY <1>3, <2>8
  <2> QED
    BY <1>2, <2>5, <2>9
<1> QED
  BY <1>7, <1>8, <1>9

LEMMA SliceKeepsFound ==
    ASSUME NEW q \in Seq(Tokens), NEW n \in 0..Len(q), NEW p \in Nat, NEW b \in Bounds(q, p),
           NEW g \in Seq(Seq(Tokens)), InRead(q, n, p, g),
           NEW F, F \subseteq 1..MaxSent, Found(q, n, p, g, F)
    PROVE  Found(q, n, b.last, Append(g, SubSeq(q, b.first, b.last)), F)
<1>1. PICK s : s = SubSeq(q, b.first, b.last)
  OBVIOUS
<1>2. b.first \in (p + 1)..Len(q) /\ b.last \in (p + 2)..Len(q) /\ b.first < b.last /\ Len(q) \in Nat
  BY BoundsAre
<1>3. b.first \in 1..Len(q) /\ b.last \in b.first..Len(q)
  BY <1>2
<1>4. s \in Seq(Tokens)
  BY <1>1, <1>3, SliceIs
<1>5. Intact(Append(g, s)) = Intact(g) \cup {m \in 1..MaxSent : Frame(m) = s}
  BY <1>4, AppendedSlices
<1>6. Piece(q, n) /\ Stale(q, n)
  BY DEF InRead
<1>7. ASSUME NEW m \in 1..MaxSent, Frame(m) = s PROVE m \in F
  <2>1. IsSlice(q, b, m)
    BY <1>1, <1>7 DEF IsSlice
  <2>2. LiesAt(q, b.first - 1, m) /\ b.first - 1 \in p..(n - FrameLen)
    BY <1>6, <2>1, IntactSlice
  <2>3. b.first - 1 \in 0..(n - FrameLen)
    BY <2>2
  <2> QED
    BY <2>2, <2>3 DEF Found
<1>8. ASSUME NEW m \in F \ Intact(Append(g, s))
      PROVE  \E c \in b.last..(n - FrameLen) : LiesAt(q, c, m)
  <2>1. m \in F \ Intact(g) /\ m \in 1..MaxSent /\ s # Frame(m)
    BY <1>5, <1>8
  <2>2. PICK c \in p..(n - FrameLen) : LiesAt(q, c, m)
    BY <2>1 DEF Found
  <2>3. ~IsSlice(q, b, m)
    BY <1>1, <2>1 DEF IsSlice
  <2>4. b.last <= c
    BY <1>6, <2>1, <2>2, <2>3, SlicePasses
  <2>5. c \in b.last..(n - FrameLen)
    BY <1>2, <2>4
  <2> QED
    BY <2>2, <2>5
<1>9. Intact(Append(g, s)) \subseteq F
  BY <1>5, <1>7 DEF Found
<1>10. \A m \in 1..MaxSent : \A c \in 0..(n - FrameLen) : LiesAt(q, c, m) => m \in F
  BY DEF Found
<1>11. Found(q, n, b.last, Append(g, s), F)
  BY <1>8, <1>9, <1>10 DEF Found
<1> QED
  BY <1>1, <1>11

-------------------------------------------------------------------------------
(* A read ends. *)

\* What a flush leaves, or no flush at the position 0, holds no slice.
LEMMA LeftIsStale ==
    ASSUME NEW q \in Seq(Tokens), NEW p \in Nat, Bounds(q, p) = {},
           NEW r, r = SubSeq(q, 2 * p + 1, Len(q)) \/ (r = q /\ p = 0)
    PROVE  r \in Seq(Tokens) /\ Stale(r, 0) /\ Elements(r) \subseteq Elements(q)
<1>1. PICK d \in Nat : d >= p /\ r \in Seq(Tokens) /\ \A a \in 1..Len(r) : r[a] = q[a + d] /\ a + d \in 1..Len(q)
  <2>1. CASE r = q /\ p = 0
    <3>1. 0 \in Nat /\ 0 >= p /\ \A a \in 1..Len(q) : a + 0 = a
      BY <2>1
    <3> QED
      BY <2>1, <3>1
  <2>2. CASE r = SubSeq(q, 2 * p + 1, Len(q))
    <3>1. PICK d \in Nat : d = 2 * p
      OBVIOUS
    <3>2. r = SubSeq(q, d + 1, Len(q)) /\ d >= p
      BY <2>2, <3>1
    <3>3. r \in Seq(Tokens) /\ \A a \in 1..Len(r) : r[a] = q[a + d] /\ a + d \in 1..Len(q)
      BY <3>2
    <3> QED
      BY <3>2, <3>3
  <2> QED
    BY <2>1, <2>2
<1>2. ASSUME NEW b \in (0 + 1)..Len(r), NEW a \in (0 + 1)..(b - 1)
      PROVE  ~ (IsStart(r[a]) /\ IsEnd(r[b]))
  <2>1. Len(r) \in Nat /\ Len(q) \in Nat
    BY <1>1
  <2>2. a \in 1..Len(r) /\ b \in 1..Len(r)
    BY <2>1
  <2>3. r[a] = q[a + d] /\ r[b] = q[b + d] /\ a + d \in 1..Len(q) /\ b + d \in 1..Len(q)
    BY <1>1, <2>2
  <2>4. a + d \in (p + 1)..Len(q) /\ b + d \in ((a + d) + 1)..Len(q)
    BY <1>1, <2>1, <2>3
  <2> QED
    BY <2>3, <2>4, NoBounds
<1>3. Stale(r, 0)
  BY <1>2 DEF Stale
<1>4. ASSUME NEW t \in Elements(r) PROVE t \in Elements(q)
  <2>1. PICK a \in 1..Len(r) : r[a] = t
    BY <1>1, ElementsType
  <2>2. q[a + d] = t /\ a + d \in 1..Len(q)
    BY <1>1, <2>1
  <2> QED
    BY <2>2, ElementsType
<1> QED
  BY <1>1, <1>3, <1>4

\* Nothing that was found waits any more.
LEMMA FoundEnds ==
    ASSUME NEW q \in Seq(Tokens), NEW n \in 0..Len(q), NEW p \in Nat, Bounds(q, p) = {},
           NEW g, NEW F, F \subseteq 1..MaxSent, Found(q, n, p, g, F)
    PROVE  Intact(g) = F
<1>1. ASSUME NEW m \in F \ Intact(g) PROVE FALSE
  <2>1. PICK c \in p..(n - FrameLen) : LiesAt(q, c, m)
    BY DEF Found
  <2>2. q[c + 1] = Token(m, 1) /\ q[c + FrameLen] = Token(m, FrameLen) /\ m \in 1..MaxSent
    BY <2>1 DEF LiesAt
  <2>3. IsStart(q[c + 1]) /\ IsEnd(q[c + FrameLen])
    BY <2>2, TokenType DEF IsStart, IsEnd
  <2>4. c + 1 \in (p + 1)..Len(q) /\ c + FrameLen \in ((c + 1) + 1)..Len(q)
    OBVIOUS
  <2> QED
    BY <2>3, <2>4, NoBounds
<1> QED
  BY <1>1 DEF Found

-------------------------------------------------------------------------------
(* The invariant of the stream. *)

HandedTypeOK == /\ got \in Seq(Seq(Tokens))
                /\ base \in 0..sent
                /\ pos \in 0..Len(buffer)
                /\ inOneRead \subseteq 1..sent
                /\ reading \in BOOLEAN /\ ok \in BOOLEAN /\ attached \in BOOLEAN

\* What was found and handed over, between two reads and during one.
ReadInv ==
    /\ ~reading => Stale(buffer, 0)
    /\ ~reading /\ attached => Intact(got) = inOneRead
    /\ reading => \E n \in 0..Len(buffer) :
          /\ InRead(buffer, n, pos, got)
          /\ attached => Found(buffer, n, pos, got, inOneRead)

StreamInv == /\ HandedTypeOK
             /\ Stream(wire, buffer, got, base, sent)
             /\ InOrder(got, base)
             /\ ReadInv
             /\ ~attached => wire = <<>> /\ buffer = <<>>

LEMMA EmptyIs ==
    /\ <<>> \in Seq(Tokens) /\ <<>> \in Seq(Seq(Tokens)) /\ Len(<<>>) = 0
    /\ Elements(<<>>) = {} /\ Intact(<<>>) = {}
    /\ Stale(<<>>, 0) /\ Piece(<<>>, 0) /\ Complete(<<>>)
    /\ \A lo : InOrder(<<>>, lo)
<1>1. <<>> \in Seq(Tokens) /\ <<>> \in Seq(Seq(Tokens)) /\ Len(<<>>) = 0 /\ DOMAIN <<>> = {}
  OBVIOUS
<1>2. Elements(<<>>) = {}
  BY <1>1 DEF Elements
<1> QED
  BY <1>1, <1>2 DEF Intact, Stale, Piece, Complete, InOrder

LEMMA InitStream == Init => StreamInv
<1> SUFFICES ASSUME Init PROVE StreamInv
  OBVIOUS
<1>1. /\ wire = <<>> /\ sent = 0 /\ buffer = <<>> /\ pos = 0 /\ reading = FALSE /\ ok = FALSE
      /\ attached = TRUE /\ base = 0 /\ got = <<>> /\ inOneRead = {}
  BY DEF Init
<1>2. HandedTypeOK /\ ReadInv /\ InOrder(got, base)
  <2>1. HandedTypeOK
    <3>1. got \in Seq(Seq(Tokens)) /\ pos \in 0..Len(buffer)
      BY <1>1, EmptyIs
    <3> QED
      BY <1>1, <3>1 DEF HandedTypeOK
  <2>2. Stale(buffer, 0) /\ Intact(got) = inOneRead /\ InOrder(got, base)
    BY <1>1, EmptyIs
  <2> QED
    BY <1>1, <2>1, <2>2 DEF ReadInv
<1>3. Stream(wire, buffer, got, base, sent)
  BY <1>1, EmptyIs DEF Stream
<1> QED
  BY <1>1, <1>2, <1>3 DEF StreamInv

LEMMA SendKeeps == IInv /\ StreamInv /\ Send => StreamInv'
<1> SUFFICES ASSUME IInv, StreamInv, Send PROVE StreamInv'
  OBVIOUS
<1>1. PICK i \in 1..MaxSent : i = sent + 1
  BY DEF Send, IInv, BufferTypeOK
<1>2. /\ sent' = i /\ wire' = wire \o Written(i) /\ buffer' = buffer /\ pos' = pos
      /\ reading' = reading /\ ok' = ok /\ attached' = attached /\ base' = base /\ got' = got
      /\ inOneRead' = inOneRead /\ attached
  BY <1>1 DEF Send
<1>3. wire \in Seq(Tokens) /\ buffer \in Seq(Tokens) /\ sent \in Nat /\ base \in Nat
  BY DEF IInv, BufferTypeOK, StreamInv, HandedTypeOK
<1>4. Stream(wire, buffer, got, base, sent)
  BY DEF StreamInv
<1>5. \A t \in Elements(wire) \cup Elements(buffer) : t \in Tokens /\ (Proper(t) => base < t[1] /\ t[1] < i)
  <2>1. \A t \in Elements(wire) \cup Elements(buffer) : t \in Tokens
    BY <1>3, ElementsType
  <2> QED
    BY <1>1, <1>3, <1>4, <2>1, TokenType DEF Stream
<1>6. /\ Piece(wire', Len(wire')) /\ Complete(wire')
      /\ \A t \in Elements(wire') : Proper(t) => t \in Elements(wire) \/ t[1] = i
  <2>1. Piece(wire, Len(wire)) /\ Complete(wire)
    BY <1>4 DEF Stream
  <2>2. \A t \in Elements(wire) : Proper(t) => t[1] < i
    BY <1>5
  <2>3. /\ Piece(wire \o Written(i), Len(wire \o Written(i))) /\ Complete(wire \o Written(i))
        /\ \A t \in Elements(wire \o Written(i)) : Proper(t) => t \in Elements(wire) \/ t[1] = i
    BY <1>3, <2>1, <2>2, AppendedStream
  <2> QED
    BY <1>2, <2>3
<1>7. \A t \in Elements(wire') \cup Elements(buffer) : Proper(t) => base < t[1] /\ t[1] <= i
  <2>1. base < i
    BY <1>1 DEF StreamInv, HandedTypeOK, IInv, BufferTypeOK
  <2>2. ASSUME NEW t \in Elements(wire'), Proper(t) PROVE base < t[1] /\ t[1] <= i
    <3>1. t \in Elements(wire) \/ t[1] = i
      BY <1>6, <2>2
    <3>2. CASE t[1] = i
      BY <2>1, <3>2
    <3>3. CASE t \in Elements(wire)
      <4>1. t[1] < i /\ base < t[1] /\ t[1] \in Nat
        BY <1>5, <2>2, <3>3, TokenType
      <4> QED
        BY <4>1
    <3> QED
      BY <3>1, <3>2, <3>3
  <2>3. ASSUME NEW t \in Elements(buffer), Proper(t) PROVE base < t[1] /\ t[1] <= i
    <3>1. t[1] < i /\ base < t[1] /\ t[1] \in Nat
      BY <1>5, <2>3, TokenType
    <3> QED
      BY <3>1
  <2> QED
    BY <2>2, <2>3
<1>8. ASSUME NEW t \in Elements(wire'), Proper(t)
      PROVE  /\ \A s \in Elements(buffer) : Proper(s) => Before(s, t)
             /\ \A m \in Intact(got) : m < t[1]
  <2>1. CASE t \in Elements(wire)
    BY <1>4, <1>8, <2>1 DEF Stream
  <2>2. CASE t[1] = i
    <3>1. \A m \in Intact(got) : m < i
      BY <1>1, <1>3, <1>4 DEF Stream, Intact
    <3>2. \A s \in Elements(buffer) : Proper(s) => s[1] < i
      BY <1>5
    <3> QED
      BY <2>2, <3>1, <3>2 DEF Before
  <2> QED
    BY <1>6, <1>8, <2>1, <2>2
<1>9. \A m \in Intact(got) : base < m /\ m <= i
  BY <1>1, <1>3, <1>4 DEF Stream, Intact
<1>10. Stream(wire', buffer, got, base, i)
  BY <1>6, <1>7, <1>8, <1>9 DEF Stream
<1>11. HandedTypeOK'
  BY <1>1, <1>2, <1>3 DEF StreamInv, HandedTypeOK
<1>12. ReadInv'
  BY <1>2 DEF StreamInv, ReadInv
<1>13. Stream(wire', buffer', got', base', sent')
  BY <1>2, <1>10
<1>14. InOrder(got', base')
  BY <1>2 DEF StreamInv
<1> QED
  BY <1>2, <1>11, <1>12, <1>13, <1>14 DEF StreamInv

LEMMA OnReadyReadKeeps == IInv /\ StreamInv /\ OnReadyRead => StreamInv'
<1> SUFFICES ASSUME IInv, StreamInv, OnReadyRead PROVE StreamInv'
  OBVIOUS
<1>1. PICK n \in 1..Len(wire) :
          /\ buffer' = Overwritten(buffer, SubSeq(wire, 1, n))
          /\ wire' = SubSeq(wire, n + 1, Len(wire))
          /\ inOneRead' = inOneRead \cup WholeIn(SubSeq(wire, 1, n))
  BY DEF OnReadyRead
<1>2. /\ attached /\ ~reading /\ reading' = TRUE /\ ok' = FALSE
      /\ sent' = sent /\ pos' = pos /\ attached' = attached /\ base' = base /\ got' = got /\ pos = 0
  BY DEF OnReadyRead, IInv, BoundedByOneRead
<1>3. wire \in Seq(Tokens) /\ buffer \in Seq(Tokens) /\ sent \in Nat /\ base \in Nat /\ sent <= MaxSent
  BY DEF IInv, BufferTypeOK, StreamInv, HandedTypeOK
<1>4. Stream(wire, buffer, got, base, sent) /\ Stale(buffer, 0) /\ Intact(got) = inOneRead
  BY <1>2 DEF StreamInv, ReadInv
<1>5. PICK q : q = Overwritten(buffer, SubSeq(wire, 1, n))
  OBVIOUS
<1>6. PICK v : v = SubSeq(wire, n + 1, Len(wire))
  OBVIOUS
<1>7. q \in Seq(Tokens) /\ n \in 0..Len(q) /\ Stream(v, q, got, base, sent) /\ InRead(q, n, 0, got)
  BY <1>3, <1>4, <1>5, <1>6, ReadBegins
<1>8. PICK data : data = SubSeq(wire, 1, n)
  OBVIOUS
<1>9. data \in Seq(Tokens) /\ Len(data) = n /\ \A a \in 1..n : data[a] = wire[a]
  BY <1>3, <1>8
<1>10. \A a \in 1..n : q[a] = wire[a] /\ q[a] \in Tokens
  <2>1. Places(buffer, wire, n, q, v)
    BY <1>3, <1>5, <1>6, ReadPlaces
  <2>2. \A a \in 1..n : wire[a] \in Tokens
    BY <1>3
  <2> QED
    BY <2>1, <2>2 DEF Places
<1>11. WholeIn(data) \subseteq 1..sent
  <2> SUFFICES ASSUME NEW m \in WholeIn(data) PROVE m \in 1..sent
    OBVIOUS
  <2>1. m \in 1..MaxSent /\ Elements(Frame(m)) \subseteq Elements(data)
    BY DEF WholeIn
  <2>2. Token(m, 1) \in Elements(Frame(m))
    BY DEF Elements, Frame
  <2>3. PICK a \in 1..n : data[a] = Token(m, 1)
    BY <1>9, <2>1, <2>2, ElementsType
  <2>4. a \in 1..Len(wire) /\ wire[a] = Token(m, 1)
    BY <1>3, <1>9, <2>3
  <2>5. Token(m, 1) \in Elements(wire)
    BY <1>3, <2>4, ElementsType
  <2>6. Proper(Token(m, 1)) /\ Token(m, 1)[1] = m
    BY <2>1, TokenType
  <2>7. m <= sent
    BY <1>4, <2>5, <2>6 DEF Stream
  <2> QED
    BY <1>3, <2>1, <2>7
<1>12. Found(q, n, 0, got, inOneRead \cup WholeIn(data))
  <2>1. inOneRead \subseteq 1..MaxSent
    BY <1>3 DEF StreamInv, HandedTypeOK
  <2>2. n \in Nat /\ Piece(q, n)
    BY <1>3, <1>7 DEF InRead
  <2> QED
    BY <1>4, <1>9, <1>10, <2>1, <2>2, FoundBegins
<1>13. buffer' = q /\ wire' = v /\ inOneRead' = inOneRead \cup WholeIn(data)
  BY <1>1, <1>5, <1>6, <1>8
<1>14. ReadInv'
  <2>1. n \in 0..Len(buffer') /\ InRead(buffer', n, pos', got') /\ Found(buffer', n, pos', got', inOneRead')
    BY <1>2, <1>7, <1>12, <1>13
  <2> QED
    BY <1>2, <2>1 DEF ReadInv
<1>15. HandedTypeOK'
  <2>1. pos' \in 0..Len(buffer')
    BY <1>2, <1>7, <1>13
  <2>2. inOneRead' \subseteq 1..sent'
    BY <1>2, <1>11, <1>13 DEF StreamInv, HandedTypeOK
  <2> QED
    BY <1>2, <2>1, <2>2 DEF StreamInv, HandedTypeOK
<1>16. Stream(wire', buffer', got', base', sent') /\ InOrder(got', base')
  BY <1>2, <1>7, <1>13 DEF StreamInv
<1> QED
  BY <1>2, <1>14, <1>15, <1>16 DEF StreamInv

LEMMA ReadDataKeeps == IInv /\ StreamInv /\ ReadData => StreamInv'
<1> SUFFICES ASSUME IInv, StreamInv, ReadData PROVE StreamInv'
  OBVIOUS
<1>1. PICK b \in Bounds(buffer, pos) :
          pos' = b.last /\ got' = Append(got, SubSeq(buffer, b.first, b.last))
  BY DEF ReadData
<1>2. /\ reading /\ reading' = reading /\ ok' = TRUE /\ wire' = wire /\ sent' = sent
      /\ buffer' = buffer /\ attached' = attached /\ base' = base /\ inOneRead' = inOneRead
  BY DEF ReadData
<1>3. /\ wire \in Seq(Tokens) /\ buffer \in Seq(Tokens) /\ sent \in Nat /\ base \in Nat
      /\ pos \in Nat /\ got \in Seq(Seq(Tokens)) /\ inOneRead \subseteq 1..MaxSent
  BY DEF IInv, BufferTypeOK, StreamInv, HandedTypeOK
<1>4. Stream(wire, buffer, got, base, sent) /\ InOrder(got, base)
  BY DEF StreamInv
<1>5. PICK n \in 0..Len(buffer) :
          /\ InRead(buffer, n, pos, got)
          /\ attached => Found(buffer, n, pos, got, inOneRead)
  BY <1>2 DEF StreamInv, ReadInv
<1>6. PICK s : s = SubSeq(buffer, b.first, b.last)
  OBVIOUS
<1>7. PICK g : g = Append(got, s)
  OBVIOUS
<1>8. /\ b.first \in 1..Len(buffer) /\ b.last \in b.first..Len(buffer) /\ b.last \in 0..Len(buffer)
  BY <1>3, BoundsAre
<1>9. s \in Seq(Tokens)
  BY <1>3, <1>6, <1>8, SliceIs
<1>10. g \in Seq(Seq(Tokens)) /\ Intact(g) = Intact(got) \cup {m \in 1..MaxSent : Frame(m) = s}
  BY <1>3, <1>7, <1>9, AppendedSlices
<1>11. /\ InRead(buffer, n, b.last, g)
       /\ \A m \in 1..MaxSent : s = Frame(m) => \A i \in Intact(got) : i < m
  BY <1>3, <1>5, <1>6, <1>7, SliceKeepsRead
<1>12. attached => Found(buffer, n, b.last, g, inOneRead)
  BY <1>3, <1>5, <1>6, <1>7, SliceKeepsFound
<1>13. ASSUME NEW m \in 1..MaxSent, Frame(m) = s
       PROVE  base < m /\ m <= sent /\ \A t \in Elements(wire) : Proper(t) => m < t[1]
  <2>1. IsSlice(buffer, b, m) /\ Piece(buffer, n) /\ Stale(buffer, n)
    BY <1>5, <1>6, <1>13 DEF IsSlice, InRead
  <2>2. buffer[b.last] = Token(m, FrameLen)
    BY <1>3, <1>5, <2>1, IntactSlice
  <2>3. b.last \in 1..Len(buffer)
    BY <1>3, <1>8
  <2>4. Token(m, FrameLen) \in Elements(buffer)
    BY <1>3, <2>2, <2>3, ElementsType
  <2>5. /\ Proper(Token(m, FrameLen)) /\ Token(m, FrameLen)[1] = m
        /\ Token(m, FrameLen)[2] = FrameLen
    BY TokenType
  <2>6. ASSUME NEW t \in Elements(wire), Proper(t) PROVE m < t[1]
    <3>1. Before(Token(m, FrameLen), t)
      BY <1>4, <2>4, <2>5, <2>6 DEF Stream
    <3>2. t \in Tokens
      BY <1>3, ElementsType
    <3> QED
      BY <2>5, <3>1, <3>2, TokenType DEF Before
  <2> QED
    BY <1>4, <2>4, <2>5, <2>6 DEF Stream
<1>14. Stream(wire, buffer, g, base, sent)
  BY <1>4, <1>10, <1>13 DEF Stream
<1>15. InOrder(g, base)
  <2>1. \A i \in Intact(got) : base < i
    BY <1>4 DEF Stream
  <2> QED
    BY <1>3, <1>4, <1>7, <1>9, <1>11, <2>1, SliceInOrder
<1>16. got' = g /\ pos' = b.last
  BY <1>1, <1>6, <1>7
<1>17. HandedTypeOK'
  <2>1. pos' \in 0..Len(buffer')
    BY <1>2, <1>8, <1>16
  <2> QED
    BY <1>2, <1>10, <1>16, <2>1 DEF StreamInv, HandedTypeOK
<1>18. ReadInv'
  <2>1. /\ n \in 0..Len(buffer') /\ InRead(buffer', n, pos', got')
        /\ attached' => Found(buffer', n, pos', got', inOneRead')
    BY <1>2, <1>11, <1>12, <1>16
  <2> QED
    BY <1>2, <2>1 DEF ReadInv
<1>19. Stream(wire', buffer', got', base', sent') /\ InOrder(got', base')
  BY <1>2, <1>14, <1>15, <1>16
<1> QED
  BY <1>2, <1>17, <1>18, <1>19 DEF StreamInv

LEMMA EndReadKeeps == IInv /\ StreamInv /\ EndRead => StreamInv'
<1> SUFFICES ASSUME IInv, StreamInv, EndRead PROVE StreamInv'
  OBVIOUS
<1>1. /\ reading /\ Bounds(buffer, pos) = {} /\ reading' = FALSE /\ wire' = wire /\ sent' = sent
      /\ ok' = ok /\ attached' = attached /\ base' = base /\ got' = got /\ inOneRead' = inOneRead
  BY DEF EndRead
<1>2. /\ wire \in Seq(Tokens) /\ buffer \in Seq(Tokens) /\ pos \in Nat
      /\ inOneRead \subseteq 1..MaxSent
  BY DEF IInv, BufferTypeOK, StreamInv, HandedTypeOK
<1>3. Stream(wire, buffer, got, base, sent) /\ InOrder(got, base)
  BY DEF StreamInv
<1>4. PICK n \in 0..Len(buffer) : attached => Found(buffer, n, pos, got, inOneRead)
  BY <1>1 DEF StreamInv, ReadInv
<1>5. PICK r : r = buffer'
  OBVIOUS
<1>6. /\ r = SubSeq(buffer, 2 * pos + 1, Len(buffer)) \/ (r = buffer /\ pos = 0)
      /\ pos' = 0
  <2>1. CASE ok \/ Len(buffer) > MaxBufferSize
    BY <1>5, <2>1 DEF EndRead, Flushed
  <2>2. CASE ~(ok \/ Len(buffer) > MaxBufferSize)
    BY <1>1, <1>5, <2>2 DEF EndRead, IInv, PositionFollowsSlices
  <2> QED
    BY <2>1, <2>2
<1>7. r \in Seq(Tokens) /\ Stale(r, 0) /\ Elements(r) \subseteq Elements(buffer)
  BY <1>1, <1>2, <1>6, LeftIsStale
<1>8. attached => Intact(got) = inOneRead
  BY <1>1, <1>2, <1>4, FoundEnds
<1>9. Stream(wire, r, got, base, sent)
  BY <1>3, <1>7 DEF Stream
<1>10. ReadInv'
  BY <1>1, <1>5, <1>7, <1>8 DEF ReadInv
<1>11. HandedTypeOK'
  <2>1. pos' \in 0..Len(r)
    BY <1>6, <1>7
  <2> QED
    BY <1>1, <1>5, <2>1 DEF StreamInv, HandedTypeOK
<1>12. ~attached => r = <<>>
  <2> SUFFICES ASSUME ~attached PROVE r = <<>>
    OBVIOUS
  <2>1. Elements(r) = {}
    BY <1>7, EmptyIs DEF StreamInv
  <2>2. ~ (1 \in 1..Len(r))
    BY <1>7, <2>1, ElementsType
  <2> QED
    BY <1>7, <2>2
<1>13. Stream(wire', buffer', got', base', sent') /\ InOrder(got', base')
  BY <1>1, <1>3, <1>5, <1>9
<1>14. ~attached' => wire' = <<>> /\ buffer' = <<>>
  BY <1>1, <1>5, <1>12 DEF StreamInv
<1> QED
  BY <1>10, <1>11, <1>13, <1>14 DEF StreamInv

LEMMA StopKeeps == IInv /\ StreamInv /\ Stop => StreamInv'
<1> SUFFICES ASSUME IInv, StreamInv, Stop PROVE StreamInv'
  OBVIOUS
<1>1. /\ attached' = FALSE /\ wire' = <<>> /\ buffer' = <<>> /\ pos' = 0
      /\ sent' = sent /\ reading' = reading /\ ok' = ok /\ base' = base /\ got' = got
      /\ inOneRead' = inOneRead
  BY DEF Stop
<1>2. PICK e : e = <<>>
  OBVIOUS
<1>3. /\ e \in Seq(Tokens) /\ Len(e) = 0 /\ Elements(e) = {}
      /\ Stale(e, 0) /\ Piece(e, 0) /\ Complete(e)
  BY <1>2, EmptyIs
<1>4. Stream(e, e, got, base, sent)
  BY <1>3 DEF Stream, StreamInv
<1>5. 0 \in 0..Len(e) /\ InRead(e, 0, 0, got)
  BY <1>3 DEF InRead
<1>6. ReadInv'
  BY <1>1, <1>2, <1>3, <1>5 DEF ReadInv
<1>7. HandedTypeOK'
  BY <1>1, <1>2, <1>5 DEF StreamInv, HandedTypeOK
<1>8. Stream(wire', buffer', got', base', sent') /\ InOrder(got', base')
  BY <1>1, <1>2, <1>4 DEF StreamInv
<1> QED
  BY <1>1, <1>6, <1>7, <1>8 DEF StreamInv

LEMMA ListenKeeps == IInv /\ StreamInv /\ Listen => StreamInv'
<1> SUFFICES ASSUME IInv, StreamInv, Listen PROVE StreamInv'
  OBVIOUS
<1>1. /\ attached' = TRUE /\ base' = sent /\ got' = <<>> /\ inOneRead' = {}
      /\ wire' = wire /\ sent' = sent /\ buffer' = buffer /\ pos' = pos /\ reading' = reading
      /\ ok' = ok /\ ~reading
  BY DEF Listen
<1>2. wire = <<>> /\ buffer = <<>>
  BY DEF Listen, StreamInv
<1>3. PICK e : e = <<>>
  OBVIOUS
<1>4. /\ e \in Seq(Seq(Tokens)) /\ Len(e) = 0 /\ Elements(e) = {} /\ Intact(e) = {}
      /\ Stale(e, 0) /\ Piece(e, 0) /\ Complete(e) /\ InOrder(e, sent)
  BY <1>3, EmptyIs
<1>5. Stream(e, e, e, sent, sent)
  BY <1>4 DEF Stream
<1>6. ReadInv'
  BY <1>1, <1>2, <1>3, <1>4 DEF ReadInv
<1>7. HandedTypeOK'
  <2>1. sent \in 0..sent
    BY DEF IInv, BufferTypeOK
  <2> QED
    BY <1>1, <1>3, <1>4, <2>1 DEF StreamInv, HandedTypeOK
<1>8. Stream(wire', buffer', got', base', sent') /\ InOrder(got', base')
  BY <1>1, <1>2, <1>3, <1>4, <1>5
<1> QED
  BY <1>1, <1>6, <1>7, <1>8 DEF StreamInv

LEMMA StreamInvariant == Spec => []StreamInv
<1>1. IInv /\ StreamInv /\ UNCHANGED vars => StreamInv'
  <2> SUFFICES ASSUME IInv, StreamInv, UNCHANGED vars PROVE StreamInv'
    OBVIOUS
  <2>1. /\ wire' = wire /\ sent' = sent /\ buffer' = buffer /\ pos' = pos /\ reading' = reading
        /\ ok' = ok /\ attached' = attached /\ base' = base /\ got' = got
        /\ inOneRead' = inOneRead
    BY DEF vars
  <2> QED
    BY <2>1 DEF StreamInv, HandedTypeOK, ReadInv
<1>2. IInv /\ StreamInv /\ [Next]_vars => StreamInv'
  BY <1>1, SendKeeps, OnReadyReadKeeps, ReadDataKeeps, EndReadKeeps, StopKeeps, ListenKeeps
     DEF Next
<1> QED
  BY <1>2, InitStream, InductiveInvariant, PTL DEF Spec

\* Every variable of the Transceiver has its type: the position stays in the
\* buffer, and only what was sent is ever found.
THEOREM TypeCorrect == Spec => []TypeOK
<1>1. IInv /\ StreamInv => TypeOK
  BY DEF IInv, BufferTypeOK, StreamInv, HandedTypeOK, TypeOK
<1> QED
  BY <1>1, InductiveInvariant, StreamInvariant, PTL

\* A message that arrives untouched arrives once, after all the earlier ones
\* that do and never in a later session, wherever readyRead cuts the stream: the
\* old data that onReadyRead() leaves behind a shorter read never completes one.
THEOREM HandedOverInOrder == Spec => []IntactInOrder
<1>1. StreamInv => IntactInOrder
  BY DEF StreamInv, InOrder, IntactInOrder
<1> QED
  BY <1>1, StreamInvariant, PTL

\* readData() hands over exactly the messages that one read held from end to
\* end: what is split between two reads is lost, and nothing else is.
THEOREM LostWhenSplit == Spec => []LostIffSplit
<1>1. StreamInv => LostIffSplit
  BY DEF StreamInv, ReadInv, Intact, LostIffSplit
<1> QED
  BY <1>1, StreamInvariant, PTL
===============================================================================
