------------------------------- MODULE Messages -------------------------------
(***************************************************************************)
(* Messages as objects (message.h, message.cpp, serializable.h and the     *)
(* serialization context, in src/lib): a class adds its fields to those    *)
(* above it, an object remembers references to its fields once it was      *)
(* written or read, a received message carries its content and the names   *)
(* of its classes, and as<T>() makes a T of them.  The bytes between       *)
(* sender and receiver are the subject of Transceiver; here a message      *)
(* arrives as it was sent.                                                 *)
(*                                                                         *)
(* A class may be derived by MessageOf, which makes it an heir, or plainly *)
(* (CouplingResponse), and may declare fields or not.  Both show in what   *)
(* its messages carry.                                                     *)
(***************************************************************************)
EXTENDS Naturals, Sequences, FiniteSets

CONSTANTS
    Objects,   \* places for objects; a place can be used again
    Values,    \* the values of a field
    Zero,      \* the value of a field that could not be read
    Classes,   \* the message classes; each stands for its own fields
    Root,      \* lib::Message, which declares none
    Lineage,   \* the classes from below Root to a class, its bases first
    Heirs,     \* the classes that are derived by MessageOf
    Declaring, \* the classes with SERIALIZABLE_FIELDS
    Fixed,     \* those among them whose field only constructors set
    Preset     \* what the constructors of a class set such a field to

ASSUME ClassAssumption ==
    /\ Zero \in Values
    /\ Root \in Classes
    /\ Heirs \subseteq Classes \ {Root}
    /\ Declaring \subseteq Classes \ {Root}
    /\ Preset \in [Classes -> [Classes -> Values]]
    /\ Lineage \in [Classes -> Seq(Classes \ {Root})]
    /\ Lineage[Root] = <<>>
    /\ \A c \in Classes \ {Root} : Lineage[c] # <<>> /\ Lineage[c][Len(Lineage[c])] = c
    /\ \A c \in Classes : \A i \in 1..Len(Lineage[c]) :
           Lineage[Lineage[c][i]] = SubSeq(Lineage[c], 1, i)

VARIABLES
    live,   \* the objects that exist
    obj,    \* what each of them holds
    data    \* the message that was sent last

vars == <<live, obj, data>>

\* What c is: it and its bases.
Bases(c) == {Lineage[c][i] : i \in 1..Len(Lineage[c])}

\* The names of the classes of c: collectIds() and addId().
Ids(c) == Bases(c) \cap Heirs

\* SERIALIZABLE_FIELDS goes on above the nearest heir, whose SerializableHeir is
\* the one in scope: of the classes from one heir to the next it finds only the
\* last that declares fields.
Adds(c, i) ==
    /\ Lineage[c][i] \in Declaring
    /\ \A j \in (i + 1)..Len(Lineage[c]) :
           Lineage[c][j] \in Declaring => \E h \in (i + 1)..j : Lineage[c][h] \in Heirs

Added(c) == {i \in 1..Len(Lineage[c]) : Adds(c, i)}

\* The elements of the sequence q at the places I, in their order.
Selected(q, I) ==
    [n \in 1..Cardinality(I) |-> q[CHOOSE i \in I : Cardinality(I \cap (1..i)) = n]]

\* initContextChain(): the classes that contribute fields to a class, base first.
Chain == [c \in Classes |-> Selected(Lineage[c], Added(c))]

Written(c) == {Chain[c][i] : i \in 1..Len(Chain[c])}

\* The fields of c that its messages do not carry.
Hidden(c) == (Bases(c) \cap Declaring) \ Written(c)

\* What the constructors of c may leave in its fields: a class may take the value
\* of a fixed field as an argument if its messages carry it.
Fields == [Classes -> Values]
FieldsOf(c) ==
    {f \in Fields : /\ \A k \in Classes \ (Bases(c) \cap Declaring) : f[k] = Zero
                   /\ \A k \in Hidden(c) \cap Fixed : f[k] = Preset[c][k]}

\* What a sender held; "nothing" has the class Root.
Meanings == [cls : Classes, field : Fields]

Nothing == [cls |-> Root, field |-> [k \in Classes |-> Zero]]

Object == [cls     : Classes,
           field   : Fields,                   \* those of its bases matter
           content : Seq(Values),              \* m_content
           ids     : SUBSET Classes,           \* m_typeIds
           bound   : BOOLEAN,                  \* whether m_serializer exists
           refs    : Seq(Objects \X Classes),  \* its references
           from    : Meanings]                 \* what was received with it

NewObject(c, f) == [cls |-> c, field |-> f, content |-> <<>>, ids |-> {},
                    bound |-> FALSE, refs |-> <<>>, from |-> Nothing]

Init == /\ live = {}
        /\ obj = [o \in Objects |-> NewObject(Root, Nothing.field)]
        /\ data = [ids |-> {}, content |-> <<>>, from |-> Nothing]

Put(o, x) == obj' = [obj EXCEPT ![o] = x]

-------------------------------------------------------------------------------
\* Mutant of References: the fields of a class come before those of its bases.
ReferencesDerivedFirst(o, c) ==
    [i \in 1..Len(Chain[c]) |-> <<o, Chain[c][Len(Chain[c]) + 1 - i]>>]

\* Initializer::add(), class by class.
References(o, c) == [i \in 1..Len(Chain[c]) |-> <<o, Chain[c][i]>>]

\* The object x at o with its references, made when they are first needed.
Bound(o, x) == IF x.bound THEN x
               ELSE [x EXCEPT !.bound = TRUE, !.refs = References(o, x.cls)]

\* The references of x to its field k.
Places(x, k) == {i \in 1..Len(x.refs) : x.refs[i][2] = k}

ValueAt(content, i, before) == IF i <= Len(content) THEN content[i]
                               ELSE IF i = Len(content) + 1 THEN Zero ELSE before

\* deserialize(): the content is read in the order of the references.  The first
\* field beyond its end becomes zero, and reading stops there.
ReadInto(x, content) ==
    [x EXCEPT !.field = [k \in Classes |->
        IF Places(x, k) = {} THEN x.field[k]
                             ELSE ValueAt(content, CHOOSE i \in Places(x, k) : TRUE, x.field[k])]]

\* loadContent()
Loaded(o, x, content) == ReadInto(Bound(o, [x EXCEPT !.content = content]), content)

\* An object of a class is constructed.  (Some fields are not initialized.)
Make(o, c) == /\ o \notin live /\ c \in Heirs
              /\ live' = live \cup {o}
              /\ \E f \in FieldsOf(c) : Put(o, NewObject(c, f))
              /\ UNCHANGED data

\* A field is assigned.
SetField(o, k, v) == /\ o \in live /\ k \in (Bases(obj[o].cls) \cap Declaring) \ Fixed
                     /\ Put(o, [obj[o] EXCEPT !.field[k] = v, !.from = Nothing])
                     /\ UNCHANGED <<live, data>>

\* The code sends only messages that it made itself, and whole copies.
Complete(o) == obj[o].cls # Root /\ obj[o].ids \in {{}, Ids(obj[o].cls)}

\* Message::toBytes: the names are collected once; the values are those that
\* the references lead to.
ToBytes(o) ==
    /\ o \in live /\ Complete(o)
    /\ LET x == [Bound(o, obj[o]) EXCEPT !.ids = Ids(obj[o].cls)]
       IN  /\ Put(o, x)
           /\ data' = [ids     |-> x.ids,
                       content |-> [i \in 1..Len(x.refs) |-> obj[x.refs[i][1]].field[x.refs[i][2]]],
                       from    |-> [cls |-> x.cls, field |-> x.field]]
    /\ UNCHANGED live

\* Message::fromBytes, by the constructor of a Message of no particular class.
Receive(o) ==
    /\ o \notin live /\ data.ids # {}
    /\ live' = live \cup {o}
    /\ Put(o, Loaded(o, [NewObject(Root, Nothing.field) EXCEPT !.ids = data.ids, !.from = data.from],
                     data.content))
    /\ UNCHANGED data

\* as<T>() of an object that is no T itself, with T = c: a new one is made of
\* the content, if the names say that it is a T.  When the content is too
\* short, the names are not taken over.
As(o, n, c) ==
    /\ o \in live /\ n \notin live
    /\ c \in Heirs \ Bases(obj[o].cls)
    /\ live' = live \cup {n}
    /\ \E f \in FieldsOf(c) :
          LET new == NewObject(c, f)
              read == Loaded(n, new, obj[o].content)
          IN  IF c \notin obj[o].ids THEN Put(n, new)
              ELSE IF Len(obj[o].content) < Len(Chain[c]) THEN Put(n, read)
              ELSE Put(n, [read EXCEPT !.ids = obj[o].ids, !.from = obj[o].from])
    /\ UNCHANGED data

\* Mutant of Copied: the references are shared.
CopiedSharing(x) == x

\* The copy of a SerializationContext has no references.
Copied(x) == [x EXCEPT !.bound = FALSE, !.refs = <<>>]

\* An object is copied into a new one, or assigned to one of its class.
Copy(o, n) == /\ o \in live /\ n # o
              /\ n \in live => obj[n].cls = obj[o].cls
              /\ live' = live \cup {n}
              /\ Put(n, Copied(obj[o]))
              /\ UNCHANGED data

\* It is moved: what the source is left with is up to the types of its members,
\* which may take over what the target had.
Move(o, n) ==
    /\ o \in live /\ n # o
    /\ n \in live => obj[n].cls = obj[o].cls
    /\ live' = live \cup {n}
    /\ \E f \in FieldsOf(obj[o].cls), content \in {<<>>, obj[n].content}, ids \in {{}, obj[n].ids} :
          /\ \A k \in Fixed : f[k] = obj[o].field[k]
          /\ obj' = [obj EXCEPT ![n] = Copied(obj[o]),
                               ![o] = [NewObject(obj[o].cls, f) EXCEPT !.content = content,
                                                                       !.ids = ids]]
    /\ UNCHANGED data

\* An object is destroyed, and another may be made in its place.
Destroy(o) == /\ o \in live
              /\ live' = live \ {o}
              /\ Put(o, NewObject(Root, Nothing.field))
              /\ UNCHANGED data

Next == \E o \in Objects :
            \/ ToBytes(o) \/ Receive(o) \/ Destroy(o)
            \/ \E c \in Classes : Make(o, c) \/ \E v \in Values : SetField(o, c, v)
            \/ \E n \in Objects :
                  \/ Copy(o, n) \/ Move(o, n)
                  \/ \E c \in Classes : As(o, n, c)

Spec == Init /\ [][Next]_vars

-------------------------------------------------------------------------------
\* Every variable has its type.
TypeOK == /\ live \subseteq Objects
          /\ obj \in [Objects -> Object]
          /\ data \in [ids : SUBSET Classes, content : Seq(Values), from : Meanings]

\* Whatever was copied, assigned, moved or destroyed after its references were
\* made: an object refers to its own fields and to no other's, to all that its
\* messages carry, in the order in which every receiver reads them.
OwnFields == \A o \in live : obj[o].bound => obj[o].refs = References(o, obj[o].cls)

\* A message that is read as any of its classes, from the message as it came or
\* from another reading of it, has the values that its sender had when it sent
\* it, in all fields that both classes write; as the class it was sent as, it has
\* them in the fixed fields, too, that were not sent.  is<T>() tells the classes
\* of the sender and no others.
ReadsBack ==
    \A o \in live :
        LET x == obj[o]
            sender == obj[o].from
        IN  sender.cls # Root =>
                /\ x.ids = Ids(sender.cls)
                /\ x.cls \in x.ids \cup {Root}
                /\ \A k \in Written(x.cls) \cap Written(sender.cls) : x.field[k] = sender.field[k]
                /\ x.cls = sender.cls =>
                       \A k \in Hidden(x.cls) \cap Fixed : x.field[k] = sender.field[k]
===============================================================================
