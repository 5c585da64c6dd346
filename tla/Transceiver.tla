------------------------------ MODULE Transceiver ------------------------------
(***************************************************************************)
(* lib::Transceiver at the receiving end of a byte stream, and the framing *)
(* of lib::Message (src/lib/transceiver.cpp, src/lib/message.cpp).         *)
(*                                                                         *)
(* The stream is cut into tokens: the i-th message is a start sentinel, a  *)
(* header that tells the size and the types of the content, the content,   *)
(* and an end sentinel, and the sender puts garbage before and after it    *)
(* (TEST_GARBAGE_DATA).  A token stands for a run of bytes: reads, buffer  *)
(* positions and sizes count tokens.                                       *)
(***************************************************************************)
EXTENDS Naturals, Sequences, FiniteSets

CONSTANTS
    FrameLen,        \* tokens of a message: start, header, content..., end
    MaxSent,         \* bound: messages that the sender writes
    MaxBufferSize    \* cMaxBufferSize

ASSUME TransceiverAssumption ==
    /\ FrameLen \in Nat /\ FrameLen >= 3
    /\ MaxSent \in Nat
    /\ MaxBufferSize \in Nat

VARIABLES
    wire,      \* what was written to the device and not yet read from it
    sent,      \* how many messages were written
    buffer,    \* m_buffer
    pos,       \* its position
    reading,   \* whether onReadyRead() is in readData()
    ok,        \* what readData() will return
    attached,  \* whether a device and a callback are set
    base,      \* how many messages were written before this device
    got,       \* the slices handed to m_callback from this device
    largest,   \* the largest read so far
    inOneRead  \* the messages of this device that some read found whole

vars == <<wire, sent, buffer, pos, reading, ok, attached, base, got, largest, inOneRead>>

Garbage == <<0, 0>>

Token(i, k) == <<i, k>>

IsStart(t)  == t[1] > 0 /\ t[2] = 1
IsHeader(t) == t[1] > 0 /\ t[2] = 2
IsEnd(t)    == t[1] > 0 /\ t[2] = FrameLen

\* Message::toBytes: header, content, end sentinel.
Frame(i) == [k \in 1..FrameLen |-> Token(i, k)]

\* Transceiver::write.
Written(i) == <<Garbage>> \o Frame(i) \o <<Garbage>>

Elements(q) == {q[i] : i \in DOMAIN q}

\* Message::getBounds, from the 0-based position p on: the first start
\* sentinel and the first end sentinel after it; {} when there are none.
Bounds(data, p) ==
    {b \in [first : (p + 1)..Len(data), last : (p + 2)..Len(data)] :
        /\ IsStart(data[b.first])
        /\ \A i \in (p + 1)..(b.first - 1) : ~IsStart(data[i])
        /\ b.first < b.last /\ IsEnd(data[b.last])
        /\ \A i \in (b.first + 1)..(b.last - 1) : ~IsEnd(data[i])}

\* Message::fromBytes: a header follows the start sentinel, and an end
\* sentinel stands where the header says that the content ends.
WellFormed(slice) == /\ Len(slice) >= FrameLen
                     /\ IsHeader(slice[2])
                     /\ IsEnd(slice[FrameLen])

\* Mutant of Overwritten: the data is appended to what the buffer holds.
OverwrittenAtEnd(old, data) == old \o data

\* QBuffer::write at the position 0 replaces, it does not insert.
Overwritten(old, data) == data \o SubSeq(old, Len(data) + 1, Len(old))

-------------------------------------------------------------------------------
Init == /\ wire = <<>>
        /\ sent = 0
        /\ buffer = <<>>
        /\ pos = 0
        /\ reading = FALSE
        /\ ok = FALSE
        /\ attached = TRUE
        /\ base = 0
        /\ got = <<>>
        /\ largest = 0
        /\ inOneRead = {}

\* The peer's Transceiver::send.
Send == /\ attached /\ sent < MaxSent
        /\ sent' = sent + 1
        /\ wire' = wire \o Written(sent + 1)
        /\ UNCHANGED <<buffer, pos, reading, ok, attached, base, got, largest, inOneRead>>

\* The messages that lie in the bytes of one read from end to end.
WholeIn(read) == {i \in 1..MaxSent : Elements(Frame(i)) \subseteq Elements(read)}

\* onReadyRead(): what the device has is written over the buffer.
OnReadyRead ==
    /\ attached /\ ~reading
    /\ \E n \in 1..Len(wire) :
          /\ buffer' = Overwritten(buffer, SubSeq(wire, 1, n))
          /\ wire' = SubSeq(wire, n + 1, Len(wire))
          /\ largest' = IF n > largest THEN n ELSE largest
          /\ inOneRead' = inOneRead \cup WholeIn(SubSeq(wire, 1, n))
    /\ reading' = TRUE
    /\ ok' = FALSE
    /\ UNCHANGED <<sent, pos, attached, base, got>>

\* Mutant of ReadData: the position does not move past the slice.
ReadDataInPlace ==
    /\ reading
    /\ \E b \in Bounds(buffer, pos) : got' = Append(got, SubSeq(buffer, b.first, b.last))
    /\ ok' = TRUE
    /\ UNCHANGED <<wire, sent, buffer, pos, reading, attached, base, largest, inOneRead>>

\* One round of readData(): a slice is handed over.
ReadData ==
    /\ reading
    /\ \E b \in Bounds(buffer, pos) :
          /\ pos' = b.last
          /\ got' = Append(got, SubSeq(buffer, b.first, b.last))
    /\ ok' = TRUE
    /\ UNCHANGED <<wire, sent, buffer, reading, attached, base, largest, inOneRead>>

\* flush(): readAll() already starts at the position, and mid() skips as much
\* once more.
Flushed == SubSeq(buffer, 2 * pos + 1, Len(buffer))

\* Mutant of EndRead: the position survives a flush.
EndReadKeepingPosition ==
    /\ reading /\ Bounds(buffer, pos) = {}
    /\ buffer' = IF ok \/ Len(buffer) > MaxBufferSize THEN Flushed ELSE buffer
    /\ reading' = FALSE
    /\ UNCHANGED <<wire, sent, pos, ok, attached, base, got, largest, inOneRead>>

\* Mutant of EndRead: readData() returns after the first message.
EndReadEarly ==
    /\ reading /\ (ok \/ Bounds(buffer, pos) = {})
    /\ IF ok \/ Len(buffer) > MaxBufferSize
       THEN buffer' = Flushed /\ pos' = 0
       ELSE UNCHANGED <<buffer, pos>>
    /\ reading' = FALSE
    /\ UNCHANGED <<wire, sent, ok, attached, base, got, largest, inOneRead>>

\* readData() finds no more, and onReadyRead() may flush.
EndRead ==
    /\ reading /\ Bounds(buffer, pos) = {}
    /\ IF ok \/ Len(buffer) > MaxBufferSize
       THEN buffer' = Flushed /\ pos' = 0
       ELSE UNCHANGED <<buffer, pos>>
    /\ reading' = FALSE
    /\ UNCHANGED <<wire, sent, ok, attached, base, got, largest, inOneRead>>

\* stop(), between two reads or from within a callback: the device's data and
\* the buffer are gone, and a read that is going on finds nothing more.
Stop == /\ attached
        /\ reading => ok
        /\ attached' = FALSE
        /\ wire' = <<>>
        /\ buffer' = <<>>
        /\ pos' = 0
        /\ UNCHANGED <<sent, reading, ok, base, got, largest, inOneRead>>

\* listen() to a new device.
Listen == /\ ~attached /\ ~reading
          /\ attached' = TRUE
          /\ base' = sent
          /\ got' = <<>>
          /\ inOneRead' = {}
          /\ UNCHANGED <<wire, sent, buffer, pos, reading, ok, largest>>

Next == Send \/ OnReadyRead \/ ReadData \/ EndRead \/ Stop \/ Listen

Spec == Init /\ [][Next]_vars

-------------------------------------------------------------------------------
Tokens == (0..MaxSent) \X (0..FrameLen)

\* Every variable has its type.
TypeOK == /\ wire \in Seq(Tokens)
          /\ buffer \in Seq(Tokens)
          /\ got \in Seq(Seq(Tokens))
          /\ sent \in 0..MaxSent
          /\ base \in 0..sent
          /\ pos \in 0..Len(buffer)
          /\ largest \in Nat
          /\ inOneRead \subseteq 1..sent
          /\ {reading, ok, attached} \subseteq BOOLEAN

\* Wherever the reads end, a message that arrives untouched arrives once, and
\* after all the earlier ones that do.
IntactInOrder ==
    \A i, j \in DOMAIN got : \A m, n \in 1..MaxSent :
        i < j /\ got[i] = Frame(m) /\ got[j] = Frame(n) => base < m /\ m < n

\* However the reads cut the stream, the messages that are handed over
\* untouched are those that some read found whole, and no others: a message is
\* lost when, and only when, it is split.  (TcpLink takes this for granted.)
LostIffSplit ==
    attached /\ ~reading =>
        {m \in 1..MaxSent : Frame(m) \in Elements(got)} = inOneRead

\* The position is 0 between two reads, so that the buffer never grows beyond
\* the largest read: the limit cMaxBufferSize, whose flush() would drop nothing
\* at the position 0, is not what bounds it.
BoundedByOneRead == /\ ~reading => pos = 0
                    /\ Len(buffer) <= largest

\* Every slice that reaches processMessage() is a message of a known kind,
\* as Q_ASSERT(false) at its end says (communication_client.cpp:123).
KnownKind == \A i \in DOMAIN got : WellFormed(got[i])
===============================================================================
