----------------------------- MODULE MessagesProofs -----------------------------
(***************************************************************************)
(* Proofs about Messages, for every tree of message classes, every set of  *)
(* values and every number of objects.                                     *)
(***************************************************************************)
EXTENDS Messages, FiniteSetTheorems, TLAPS

(* What the messages of a class carry. *)

\* The bases of a base are the front of the line.
LEMMA Prefix ==
    ASSUME NEW c \in Classes, NEW i \in 1..Len(Lineage[c])
    PROVE  /\ Lineage[c][i] \in Classes \ {Root}
           /\ Len(Lineage[Lineage[c][i]]) = i
           /\ \A j \in 1..i : Lineage[Lineage[c][i]][j] = Lineage[c][j]
<1>1. /\ Lineage[c] \in Seq(Classes \ {Root})
      /\ Lineage[Lineage[c][i]] = SubSeq(Lineage[c], 1, i)
  BY ClassAssumption
<1>2. Lineage[c][i] \in Classes \ {Root}
  BY <1>1
<1> QED
  BY <1>1, <1>2

\* No class is its own base.
LEMMA Injective ==
    ASSUME NEW c \in Classes, NEW i \in 1..Len(Lineage[c]), NEW j \in 1..Len(Lineage[c]),
           Lineage[c][i] = Lineage[c][j]
    PROVE  i = j
BY Prefix

\* The place of what stands at i, among the places I.
Rank(I, i) == Cardinality(I \cap (1..i))

\* What is selected from a sequence stands at the rank of its place, and nothing
\* else is selected.  The rank is an injection, and so a bijection.
LEMMA SelectedIs ==
    ASSUME NEW S, NEW q \in Seq(S), NEW I \in SUBSET (1..Len(q))
    PROVE  LET t == Selected(q, I)
           IN  /\ t \in Seq(S)
               /\ \A n \in 1..Len(t) : \E i \in I : Rank(I, i) = n /\ t[n] = q[i]
               /\ \A i \in I : Rank(I, i) \in 1..Len(t) /\ t[Rank(I, i)] = q[i]
<1> DEFINE c == Cardinality(I)
           rank == [i \in I |-> Rank(I, i)]
           t == Selected(q, I)
<1>1. /\ Len(q) \in Nat /\ I \subseteq 1..Len(q)
      /\ \A i \in I : q[i] \in S
  OBVIOUS
<1>2. IsFiniteSet(1..Len(q))
  BY <1>1, FS_Interval
<1>3. IsFiniteSet(I) /\ c \in Nat
  BY <1>1, <1>2, FS_Subset, FS_CardinalityType
<1>4. ASSUME NEW i \in I
      PROVE  rank[i] \in 1..c /\ IsFiniteSet(I \cap (1..i))
  <2>1. IsFiniteSet(I \cap (1..i)) /\ rank[i] <= c /\ rank[i] \in Nat
    BY <1>3, FS_Subset, FS_CardinalityType DEF Rank
  <2>2. i \in I \cap (1..i)
    BY <1>1
  <2>3. rank[i] # 0
    BY <2>1, <2>2, FS_EmptySet DEF Rank
  <2> QED
    BY <1>3, <2>1, <2>3
<1>5. ASSUME NEW i \in I, NEW j \in I, i < j
      PROVE  rank[i] # rank[j]
  <2>1. I \cap (1..i) \subseteq I \cap (1..j) /\ j \in I \cap (1..j) /\ j \notin I \cap (1..i)
    BY <1>1, <1>5
  <2>2. IsFiniteSet(I \cap (1..j))
    BY <1>4
  <2> QED
    BY <2>1, <2>2, FS_Subset DEF Rank
<1>6. \A i, j \in I : rank[i] = rank[j] => i = j
  <2>1. \A i, j \in I : i = j \/ i < j \/ j < i
    BY <1>1
  <2> QED
    BY <1>5, <2>1
<1>7. rank \in Injection(I, 1..c)
  BY <1>4, <1>6 DEF Injection, IsInjective
<1>8. IsFiniteSet(1..c) /\ Cardinality(1..c) = c
  BY <1>3, FS_Interval
<1>9. rank \in Surjection(I, 1..c)
  BY <1>7, <1>8, FS_Injection
<1>10. \A n \in 1..c : \E i \in I : rank[i] = n
  BY <1>9 DEF Surjection
<1> DEFINE place(n) == CHOOSE i \in I : Rank(I, i) = n
<1>11. \A n \in 1..c : place(n) \in I /\ rank[place(n)] = n
  BY <1>10
<1>12. t = [n \in 1..c |-> q[place(n)]]
  BY DEF Selected, Rank
<1>13. t \in Seq(S) /\ Len(t) = c
  <2> HIDE DEF rank, c, place, t
  <2>1. t \in [1..c -> S]
    BY <1>1, <1>11, <1>12
  <2> QED
    BY <1>3, <2>1
<1> HIDE DEF place, t
<1>14. ASSUME NEW i \in I
       PROVE  rank[i] \in 1..Len(t) /\ t[rank[i]] = q[i]
  <2>1. rank[i] \in 1..c
    BY <1>4
  <2>2. rank[place(rank[i])] = rank[i] /\ place(rank[i]) \in I
    BY <1>11, <2>1
  <2>3. place(rank[i]) = i
    BY <1>6, <2>2
  <2> HIDE DEF rank, c
  <2> QED
    BY <1>12, <1>13, <2>1, <2>3
<1>15. ASSUME NEW n \in 1..Len(t)
       PROVE  \E i \in I : Rank(I, i) = n /\ t[n] = q[i]
  <2>1. place(n) \in I /\ rank[place(n)] = n
    BY <1>11, <1>13
  <2>2. t[n] = q[place(n)]
    BY <1>12, <1>13
  <2> QED
    BY <2>1, <2>2
<1> QED
  BY <1>13, <1>14, <1>15 DEF t

\* A class that contributes stands in the chain at its rank.
LEMMA ChainIs ==
    ASSUME NEW c \in Classes
    PROVE  /\ Chain[c] \in Seq(Classes \ {Root})
           /\ \A n \in 1..Len(Chain[c]) :
                  \E i \in Added(c) : Rank(Added(c), i) = n /\ Chain[c][n] = Lineage[c][i]
           /\ \A i \in Added(c) : /\ Rank(Added(c), i) \in 1..Len(Chain[c])
                                   /\ Chain[c][Rank(Added(c), i)] = Lineage[c][i]
<1>1. Lineage[c] \in Seq(Classes \ {Root})
  BY ClassAssumption
<1>2. Added(c) \in SUBSET (1..Len(Lineage[c]))
  BY DEF Added
<1>3. Chain[c] = Selected(Lineage[c], Added(c))
  BY DEF Chain
<1> QED
  <2> DEFINE t == Selected(Lineage[c], Added(c))
  <2>1. /\ t \in Seq(Classes \ {Root})
        /\ \A n \in 1..Len(t) : \E i \in Added(c) : Rank(Added(c), i) = n /\ t[n] = Lineage[c][i]
        /\ \A i \in Added(c) : /\ Rank(Added(c), i) \in 1..Len(t)
                                /\ t[Rank(Added(c), i)] = Lineage[c][i]
    BY <1>1, <1>2, SelectedIs
  <2> HIDE DEF t
  <2>2. Chain[c] = t
    BY <1>3 DEF t
  <2> QED
    BY <2>1, <2>2

\* No class contributes twice.
LEMMA ChainInjective ==
    ASSUME NEW c \in Classes, NEW m \in 1..Len(Chain[c]), NEW n \in 1..Len(Chain[c]),
           Chain[c][m] = Chain[c][n]
    PROVE  m = n
<1>1. PICK i \in Added(c) : Rank(Added(c), i) = m /\ Chain[c][m] = Lineage[c][i]
  BY ChainIs
<1>2. PICK j \in Added(c) : Rank(Added(c), j) = n /\ Chain[c][n] = Lineage[c][j]
  BY ChainIs
<1>3. i \in 1..Len(Lineage[c]) /\ j \in 1..Len(Lineage[c])
  BY DEF Added
<1>4. i = j
  BY <1>1, <1>2, <1>3, Injective
<1> QED
  BY <1>1, <1>2, <1>4

LEMMA IdsType ==
    ASSUME NEW c \in Classes
    PROVE  /\ Ids(c) \subseteq Classes \ {Root}
           /\ Bases(c) \subseteq Classes \ {Root}
           /\ Written(c) \subseteq Bases(c)
           /\ c \in Heirs => c \in Ids(c)
           /\ Bases(Root) = {} /\ Ids(Root) = {}
           /\ Chain[Root] = <<>>
<1>1. Bases(c) \subseteq Classes \ {Root}
  BY Prefix DEF Bases
<1>2. ASSUME c \in Heirs PROVE c \in Ids(c)
  <2>1. /\ Lineage[c] \in Seq(Classes \ {Root})
        /\ Lineage[c] # <<>>
        /\ Lineage[c][Len(Lineage[c])] = c
    BY <1>2, ClassAssumption
  <2>2. Len(Lineage[c]) \in 1..Len(Lineage[c])
    BY <2>1
  <2> QED
    BY <1>2, <2>1, <2>2 DEF Ids, Bases
<1>3. Bases(Root) = {} /\ Added(Root) = {}
  BY ClassAssumption DEF Bases, Added
<1>4. Written(c) \subseteq Bases(c)
  <2>1. ASSUME NEW n \in 1..Len(Chain[c]) PROVE Chain[c][n] \in Bases(c)
    <3>1. PICK i \in Added(c) : Chain[c][n] = Lineage[c][i]
      BY ChainIs
    <3>2. i \in 1..Len(Lineage[c])
      BY DEF Added
    <3> QED
      BY <3>1, <3>2 DEF Bases
  <2> QED
    BY <2>1 DEF Written
<1>5. Chain[Root] = <<>>
  <2>1. Root \in Classes /\ Chain[Root] \in Seq(Classes \ {Root})
    BY ClassAssumption, ChainIs
  <2>2. ASSUME NEW n \in 1..Len(Chain[Root]) PROVE FALSE
    BY <1>3, <2>1, ChainIs
  <2> QED
    BY <2>1, <2>2
<1> QED
  BY <1>1, <1>2, <1>3, <1>4, <1>5 DEF Ids

\* Above a base that is an heir, a class adds what the base adds.
LEMMA AddedBelow ==
    ASSUME NEW c \in Classes, NEW t \in 1..Len(Lineage[c]), Lineage[c][t] \in Heirs,
           NEW i \in 1..t
    PROVE  LET d == Lineage[c][t]
           IN  /\ i \in 1..Len(Lineage[d]) /\ i \in 1..Len(Lineage[c])
               /\ Lineage[d][i] = Lineage[c][i]
               /\ i # t => (i \in Added(d) <=> i \in Added(c))
               /\ i \in Added(c) => i \in Added(d)
<1> DEFINE d == Lineage[c][t]
<1>1. /\ Len(Lineage[d]) = t
      /\ \A j \in 1..t : Lineage[d][j] = Lineage[c][j]
  BY Prefix
<1>2. Lineage[c] \in Seq(Classes)
  BY ClassAssumption
<1>3. Len(Lineage[c]) \in Nat /\ t <= Len(Lineage[c]) /\ t \in Nat
  BY <1>2
<1> HIDE DEF d
<1>4. ASSUME i \in Added(c) PROVE i \in Added(d)
  <2>1. ASSUME NEW j \in (i + 1)..t, Lineage[d][j] \in Declaring
        PROVE  \E h \in (i + 1)..j : Lineage[d][h] \in Heirs
    <3>1. j \in (i + 1)..Len(Lineage[c]) /\ j \in 1..t
      BY <1>3
    <3>2. Lineage[c][j] \in Declaring
      BY <1>1, <2>1, <3>1
    <3>3. PICK h \in (i + 1)..j : Lineage[c][h] \in Heirs
      BY <1>4, <3>1, <3>2 DEF Added, Adds
    <3>4. h \in 1..t
      BY <1>3
    <3> QED
      BY <1>1, <3>3, <3>4
  <2>2. Lineage[d][i] \in Declaring
    BY <1>1, <1>4 DEF Added, Adds
  <2> QED
    BY <1>1, <2>1, <2>2 DEF Added, Adds
<1>5. ASSUME i # t, i \in Added(d) PROVE i \in Added(c)
  <2>1. ASSUME NEW j \in (i + 1)..Len(Lineage[c]), Lineage[c][j] \in Declaring
        PROVE  \E h \in (i + 1)..j : Lineage[c][h] \in Heirs
    <3>1. CASE j <= t
      BY <1>1, <1>3, <1>5, <2>1, <3>1 DEF Added, Adds
    <3>2. CASE j > t
      <4>1. t \in (i + 1)..j
        BY <1>3, <1>5, <3>2
      <4> QED
        BY <4>1
    <3> QED
      BY <1>3, <3>1, <3>2
  <2> QED
    BY <1>1, <1>3, <1>5, <2>1 DEF Added, Adds
<1> QED
  BY <1>1, <1>3, <1>4, <1>5 DEF d

\* A field that a class and a base of it both write is at one place in both, and
\* the base writes no other field but its own.
LEMMA SamePlace ==
    ASSUME NEW c \in Classes, NEW d \in Ids(c), NEW n \in 1..Len(Chain[d])
    PROVE  /\ Chain[d][n] \in Written(c) => n \in 1..Len(Chain[c]) /\ Chain[c][n] = Chain[d][n]
           /\ Chain[d][n] \in Written(c) \cup {d}
<1>1. PICK t \in 1..Len(Lineage[c]) : d = Lineage[c][t] /\ d \in Heirs
  BY DEF Ids, Bases
<1>2. d \in Classes /\ Len(Lineage[d]) = t
  BY <1>1, Prefix
<1>3. PICK i \in Added(d) : Rank(Added(d), i) = n /\ Chain[d][n] = Lineage[d][i]
  BY <1>2, ChainIs
<1>4. i \in 1..t
  BY <1>2, <1>3 DEF Added
<1>5. /\ Lineage[d][i] = Lineage[c][i] /\ i \in 1..Len(Lineage[c])
      /\ i # t => i \in Added(c)
  BY <1>1, <1>3, <1>4, AddedBelow
<1>6. ASSUME i \in Added(c)
      PROVE  /\ n \in 1..Len(Chain[c]) /\ Chain[c][n] = Chain[d][n]
             /\ Chain[d][n] \in Written(c)
  <2>1. Added(c) \cap (1..i) = Added(d) \cap (1..i)
    <3>1. ASSUME NEW j \in 1..i PROVE j \in Added(c) <=> j \in Added(d)
      <4>1. j \in 1..t
        BY <1>4
      <4>2. j = t => j = i
        BY <1>4
      <4> QED
        BY <1>1, <1>3, <1>6, <4>1, <4>2, AddedBelow
    <3> QED
      BY <3>1
  <2>2. Rank(Added(c), i) = n
    BY <1>3, <2>1 DEF Rank
  <2> QED
    BY <1>3, <1>5, <1>6, <2>2, ChainIs DEF Written
<1>7. ASSUME Chain[d][n] \in Written(c) PROVE i \in Added(c)
  <2>1. PICK m \in 1..Len(Chain[c]) : Chain[c][m] = Chain[d][n]
    BY <1>7 DEF Written
  <2>2. PICK j \in Added(c) : Chain[c][m] = Lineage[c][j]
    BY ChainIs
  <2>3. j \in 1..Len(Lineage[c]) /\ Lineage[c][i] = Lineage[c][j]
    BY <1>3, <1>5, <2>1, <2>2 DEF Added
  <2> QED
    BY <1>5, <2>2, <2>3, Injective
<1>8. i = t => Chain[d][n] = d
  BY <1>1, <1>3, <1>5
<1> QED
  BY <1>5, <1>6, <1>7, <1>8

-------------------------------------------------------------------------------
(* Types. *)

LEMMA NothingType == Nothing \in Meanings /\ Nothing.cls = Root
BY ClassAssumption DEF Nothing, Meanings, Fields

LEMMA NewObjectType ==
    ASSUME NEW c \in Classes, NEW f \in Fields
    PROVE  NewObject(c, f) \in Object
BY NothingType DEF NewObject, Object

LEMMA ReferencesType ==
    ASSUME NEW c \in Classes, NEW o \in Objects
    PROVE  /\ References(o, c) \in Seq(Objects \X Classes)
           /\ Len(References(o, c)) = Len(Chain[c])
           /\ \A i \in 1..Len(Chain[c]) : References(o, c)[i] = <<o, Chain[c][i]>>
<1>1. Chain[c] \in Seq(Classes)
  BY ChainIs
<1>2. Len(Chain[c]) \in Nat
  BY <1>1
<1>3. \A i \in 1..Len(Chain[c]) : <<o, Chain[c][i]>> \in Objects \X Classes
  BY <1>1
<1> QED
  BY <1>2, <1>3 DEF References

LEMMA BoundType ==
    ASSUME NEW o \in Objects, NEW x \in Object
    PROVE  /\ Bound(o, x) \in Object
           /\ Bound(o, x).cls = x.cls
           /\ Bound(o, x).field = x.field
           /\ Bound(o, x).content = x.content
           /\ Bound(o, x).ids = x.ids
           /\ Bound(o, x).from = x.from
           /\ Bound(o, x).bound
           /\ x.bound => Bound(o, x) = x
           /\ ~x.bound => Bound(o, x).refs = References(o, x.cls)
BY ReferencesType DEF Bound, Object

LEMMA ReadIntoType ==
    ASSUME NEW x \in Object, NEW content \in Seq(Values)
    PROVE  /\ ReadInto(x, content) \in Object
           /\ ReadInto(x, content).cls = x.cls
           /\ ReadInto(x, content).content = x.content
           /\ ReadInto(x, content).ids = x.ids
           /\ ReadInto(x, content).from = x.from
           /\ ReadInto(x, content).bound = x.bound
           /\ ReadInto(x, content).refs = x.refs
<1> DEFINE F == [k \in Classes |->
                    IF Places(x, k) = {} THEN x.field[k]
                    ELSE ValueAt(content, CHOOSE i \in Places(x, k) : TRUE, x.field[k])]
<1>1. F \in Fields
  <2>1. ASSUME NEW i \in Nat \ {0}, NEW v \in Values PROVE ValueAt(content, i, v) \in Values
    BY ClassAssumption DEF ValueAt
  <2>2. ASSUME NEW k \in Classes, Places(x, k) # {}
        PROVE  (CHOOSE i \in Places(x, k) : TRUE) \in Nat \ {0}
    <3>1. (CHOOSE i \in Places(x, k) : TRUE) \in Places(x, k)
      BY <2>2
    <3>2. Len(x.refs) \in Nat
      BY DEF Object
    <3>3. Places(x, k) \subseteq Nat \ {0}
      BY <3>2 DEF Places
    <3> QED
      BY <3>1, <3>3
  <2>3. ASSUME NEW k \in Classes PROVE F[k] \in Values
    <3>1. CASE Places(x, k) = {}
      BY <3>1 DEF Object, Fields
    <3>2. CASE Places(x, k) # {}
      <4>1. F[k] = ValueAt(content, CHOOSE i \in Places(x, k) : TRUE, x.field[k])
        BY <3>2
      <4>2. x.field[k] \in Values
        BY DEF Object, Fields
      <4> QED
        BY <2>1, <2>2, <3>2, <4>1, <4>2
    <3> QED
      BY <3>1, <3>2
  <2> QED
    BY <2>3 DEF Fields
<1>2. ReadInto(x, content) = [x EXCEPT !.field = F]
  BY DEF ReadInto
<1> QED
  BY <1>1, <1>2 DEF Object

\* A value that was read through a reference of an object's own chain.
LEMMA ReadIntoOwn ==
    ASSUME NEW x \in Object, NEW o \in Objects, NEW content \in Seq(Values),
           x.refs = References(o, x.cls),
           NEW i \in 1..Len(Chain[x.cls]), i <= Len(content)
    PROVE  ReadInto(x, content).field[Chain[x.cls][i]] = content[i]
<1> DEFINE k == Chain[x.cls][i]
           j == CHOOSE j \in Places(x, k) : TRUE
<1>1. x.cls \in Classes /\ Chain[x.cls] \in Seq(Classes \ {Root})
  BY ChainIs DEF Object
<1>2. k \in Classes
  BY <1>1
<1>3. Places(x, k) = {i}
  <2>1. Len(x.refs) = Len(Chain[x.cls])
    BY <1>1, ReferencesType
  <2>2. \A n \in 1..Len(Chain[x.cls]) : x.refs[n] = <<o, Chain[x.cls][n]>>
    BY <1>1, ReferencesType
  <2>3. \A n \in 1..Len(x.refs) : x.refs[n][2] = Chain[x.cls][n]
    BY <2>1, <2>2
  <2>4. \A n \in 1..Len(x.refs) : Chain[x.cls][n] = k => n = i
    BY <1>1, <2>1, ChainInjective
  <2> QED
    BY <2>1, <2>3, <2>4 DEF Places
<1>4. j = i
  BY <1>3
<1>5. ReadInto(x, content).field[k] = ValueAt(content, j, x.field[k])
  <2>1. ReadInto(x, content).field[k] =
            IF Places(x, k) = {} THEN x.field[k] ELSE ValueAt(content, j, x.field[k])
    BY <1>2 DEF ReadInto, Object
  <2> QED
    BY <2>1, <1>3
<1> QED
  BY <1>4, <1>5 DEF ValueAt

\* A field that the class does not write is not read either.
LEMMA ReadIntoOther ==
    ASSUME NEW x \in Object, NEW o \in Objects, NEW content \in Seq(Values),
           x.refs = References(o, x.cls), NEW k \in Classes \ Written(x.cls)
    PROVE  ReadInto(x, content).field[k] = x.field[k]
<1>1. x.cls \in Classes /\ x.refs = References(o, x.cls)
  BY DEF Object
<1>2. ASSUME NEW n \in 1..Len(x.refs) PROVE x.refs[n][2] # k
  <2>1. n \in 1..Len(Chain[x.cls])
    BY <1>1, ReferencesType
  <2>2. x.refs[n] = <<o, Chain[x.cls][n]>>
    BY <1>1, <2>1, ReferencesType
  <2>3. x.refs[n][2] = Chain[x.cls][n]
    BY <2>2
  <2>4. Chain[x.cls][n] \in Written(x.cls)
    BY <2>1 DEF Written
  <2> QED
    BY <2>3, <2>4
<1>3. Places(x, k) = {}
  BY <1>2 DEF Places
<1> QED
  BY <1>3 DEF ReadInto, Object

LEMMA LoadedType ==
    ASSUME NEW o \in Objects, NEW x \in Object, NEW content \in Seq(Values), ~x.bound
    PROVE  /\ Loaded(o, x, content) \in Object
           /\ Loaded(o, x, content).cls = x.cls
           /\ Loaded(o, x, content).content = content
           /\ Loaded(o, x, content).ids = x.ids
           /\ Loaded(o, x, content).from = x.from
           /\ Loaded(o, x, content).bound
           /\ Loaded(o, x, content).refs = References(o, x.cls)
           /\ \A i \in 1..Len(Chain[x.cls]) :
                  i <= Len(content) => Loaded(o, x, content).field[Chain[x.cls][i]] = content[i]
           /\ \A k \in Classes \ Written(x.cls) : Loaded(o, x, content).field[k] = x.field[k]
<1> DEFINE y == [x EXCEPT !.content = content]
           z == Bound(o, y)
<1>1. /\ y \in Object /\ ~y.bound /\ y.cls = x.cls /\ y.ids = x.ids /\ y.from = x.from
      /\ y.content = content /\ y.field = x.field
  BY DEF Object
<1> HIDE DEF y
<1>2. /\ z \in Object /\ z.bound /\ z.cls = x.cls /\ z.ids = x.ids /\ z.from = x.from
      /\ z.content = content /\ z.refs = References(o, x.cls) /\ z.field = x.field
  BY <1>1, BoundType
<1>3. Loaded(o, x, content) = ReadInto(z, content)
  BY DEF Loaded, y
<1> HIDE DEF z
<1> QED
  BY <1>2, <1>3, ReadIntoType, ReadIntoOwn, ReadIntoOther

-------------------------------------------------------------------------------
(* The invariant. *)

ValuesOf(m) == [i \in 1..Len(Chain[m.cls]) |-> m.field[Chain[m.cls][i]]]

\* The fixed fields of c that its messages do not carry are what its constructors
\* have set them to.
Constructed(c, field) == \A k \in Hidden(c) \cap Fixed : field[k] = Preset[c][k]

\* What was received with a message that c reads from it into field.
Read(c, field, m) ==
    /\ c \in Ids(m.cls) \cup {Root}
    /\ \A k \in Written(c) \cap Written(m.cls) : field[k] = m.field[k]

\* What OwnFields and ReadsBack say of the object x at o, and that its content
\* is what its sender wrote.
Sound(o, x) ==
    /\ x.bound => x.refs = References(o, x.cls)
    /\ Constructed(x.cls, x.field)
    /\ x.from.cls # Root =>
          /\ x.ids = Ids(x.from.cls)
          /\ x.content = ValuesOf(x.from)
          /\ Read(x.cls, x.field, x.from)
          /\ Constructed(x.from.cls, x.from.field)

AllSound == \A o \in live : Sound(o, obj[o])

\* And so is the content of the message on its way.
Sent(d) == /\ d.from.cls # Root
           /\ d.ids = Ids(d.from.cls)
           /\ d.content = ValuesOf(d.from)
           /\ Constructed(d.from.cls, d.from.field)

DataSound == data.ids # {} => Sent(data)

IInv == TypeOK /\ AllSound /\ DataSound

LEMMA Initially == Init => IInv
<1> SUFFICES ASSUME Init PROVE IInv
  OBVIOUS
<1>1. Nothing.field \in Fields
  BY ClassAssumption DEF Nothing, Fields
<1>2. \A o \in Objects : NewObject(Root, Nothing.field) \in Object
  BY <1>1, NewObjectType, ClassAssumption
<1> QED
  BY <1>2, NothingType DEF Init, IInv, TypeOK, AllSound, DataSound

\* A step that puts a sound object in its place keeps the others sound.
LEMMA PutSound ==
    ASSUME TypeOK, AllSound, NEW o \in Objects, NEW x \in Object, Put(o, x),
           live' \subseteq live \cup {o}, o \in live' => Sound(o, x)
    PROVE  obj' \in [Objects -> Object] /\ live' \subseteq Objects /\ AllSound'
<1>1. \A n \in Objects : obj'[n] = IF n = o THEN x ELSE obj[n]
  BY DEF Put, TypeOK
<1>2. obj' \in [Objects -> Object]
  BY DEF Put, TypeOK
<1>3. ASSUME NEW n \in live' PROVE Sound(n, obj'[n])
  BY <1>1, <1>3 DEF AllSound, TypeOK
<1>4. live' \subseteq Objects
  BY DEF TypeOK
<1> QED
  BY <1>2, <1>3, <1>4 DEF AllSound, Sound

LEMMA DataUnchanged ==
    ASSUME IInv, UNCHANGED data, obj' \in [Objects -> Object], live' \subseteq Objects, AllSound'
    PROVE  IInv'
BY DEF IInv, TypeOK, DataSound, Sent

\* An object that was not received is sound as long as it is not bound.
LEMMA NewSound ==
    ASSUME NEW o \in Objects, NEW c \in Classes, NEW f \in FieldsOf(c)
    PROVE  f \in Fields /\ Sound(o, NewObject(c, f))
BY NothingType DEF Sound, NewObject, FieldsOf, Constructed

\* A Message of no particular class has no fields.
LEMMA NothingNew == Nothing.field \in FieldsOf(Root) /\ Root \in Classes
<1>1. Root \in Classes /\ Nothing.field \in Fields
  BY ClassAssumption, NothingType DEF Meanings
<1>2. Hidden(Root) = {}
  BY <1>1, IdsType DEF Hidden
<1> QED
  BY <1>1, <1>2 DEF FieldsOf, Nothing

LEMMA CopiedSound ==
    ASSUME NEW o \in Objects, NEW n \in Objects, NEW x \in Object, Sound(o, x)
    PROVE  Copied(x) \in Object /\ Sound(n, Copied(x))
<1> DEFINE y == Copied(x)
<1>1. /\ y \in Object /\ ~y.bound /\ y.cls = x.cls /\ y.field = x.field /\ y.content = x.content
      /\ y.ids = x.ids /\ y.from = x.from
  <2>1. <<>> \in Seq(Objects \X Classes)
    OBVIOUS
  <2>2. y = [x EXCEPT !.bound = FALSE, !.refs = <<>>]
    BY DEF Copied
  <2> QED
    BY <2>1, <2>2 DEF Object
<1> HIDE DEF y
<1>2. Sound(n, y)
  BY <1>1 DEF Sound
<1> QED
  BY <1>1, <1>2 DEF y

LEMMA ToBytesKeeps ==
    ASSUME IInv, NEW o \in Objects, ToBytes(o)
    PROVE  IInv'
<1> DEFINE old == obj[o]
           b == Bound(o, old)
           x == [b EXCEPT !.ids = Ids(old.cls)]
<1>1. /\ old \in Object /\ Sound(o, old) /\ o \in live /\ old.cls \in Classes
      /\ old.cls \in Classes \ {Root} /\ old.ids \in {{}, Ids(old.cls)}
  BY DEF IInv, TypeOK, AllSound, ToBytes, Complete, Object
<1>2. /\ b \in Object /\ b.cls = old.cls /\ b.field = old.field /\ b.content = old.content
      /\ b.from = old.from /\ b.bound /\ b.refs = References(o, old.cls)
  BY <1>1, BoundType DEF Sound
<1>3. Ids(old.cls) \subseteq Classes
  BY <1>1, IdsType
<1>4. /\ Put(o, x) /\ UNCHANGED live
      /\ data' = [ids     |-> x.ids,
                  content |-> [i \in 1..Len(x.refs) |-> obj[x.refs[i][1]].field[x.refs[i][2]]],
                  from    |-> [cls |-> x.cls, field |-> x.field]]
  BY DEF ToBytes
<1> HIDE DEF b
<1>5. /\ x \in Object /\ x.cls = old.cls /\ x.field = old.field /\ x.content = old.content
      /\ x.from = old.from /\ x.bound /\ x.refs = References(o, old.cls)
      /\ x.ids = Ids(old.cls)
  BY <1>2, <1>3 DEF Object
<1> HIDE DEF x, old
<1>6. Sound(o, x)
  <2>1. ASSUME x.from.cls # Root
        PROVE  x.ids = Ids(x.from.cls)
    <3>1. old.ids = Ids(old.from.cls) /\ old.cls \in Ids(old.from.cls)
      BY <1>1, <1>5, <2>1 DEF Sound, Read
    <3> QED
      BY <1>1, <1>5, <3>1
  <2> QED
    BY <1>1, <1>5, <2>1 DEF Sound
<1>7. obj' \in [Objects -> Object] /\ live' \subseteq Objects /\ AllSound'
  BY <1>4, <1>5, <1>6, PutSound DEF IInv
<1>8. data' \in [ids : SUBSET Classes, content : Seq(Values), from : Meanings] /\ DataSound'
  <2>1. /\ Len(x.refs) = Len(Chain[old.cls])
        /\ \A i \in 1..Len(Chain[old.cls]) : x.refs[i] = <<o, Chain[old.cls][i]>>
    <3>1. old.cls \in Classes /\ x.refs = References(o, old.cls)
      BY <1>1, <1>5
    <3> HIDE DEF x, old
    <3> QED
      BY <3>1, ReferencesType
  <2>2. Chain[old.cls] \in Seq(Classes)
    BY <1>1, ChainIs
  <2>3. old = obj[o] /\ old.field \in Fields
    BY <1>1 DEF old, Object
  <2>4. data'.from = [cls |-> old.cls, field |-> old.field]
    BY <1>4, <1>5
  <2>5. data'.content = ValuesOf(data'.from)
    BY <1>4, <2>1, <2>3, <2>4 DEF ValuesOf
  <2>6. ValuesOf(data'.from) \in Seq(Values)
    BY <2>2, <2>3, <2>4 DEF ValuesOf, Fields
  <2>7. data'.from \in Meanings
    BY <1>1, <2>3, <2>4 DEF Meanings
  <2>8. data'.ids = Ids(old.cls)
    BY <1>4, <1>5
  <2>9. data' \in [ids : SUBSET Classes, content : Seq(Values), from : Meanings]
    <3>1. data' = [ids |-> data'.ids, content |-> data'.content, from |-> data'.from]
      BY <1>4
    <3>2. data'.ids \in SUBSET Classes /\ data'.content \in Seq(Values)
      BY <1>3, <2>5, <2>6, <2>8
    <3> QED
      BY <2>7, <3>1, <3>2
  <2>10. data'.from.cls = old.cls /\ old.cls # Root
    BY <1>1, <2>4
  <2>11. Constructed(data'.from.cls, data'.from.field)
    BY <1>1, <2>4 DEF Sound
  <2>12. Sent(data')
    BY <2>5, <2>8, <2>10, <2>11 DEF Sent
  <2>13. DataSound'
    BY <2>12 DEF DataSound, Sent
  <2> QED
    BY <2>9, <2>13
<1> QED
  BY <1>7, <1>8 DEF IInv, TypeOK

LEMMA ReceiveKeeps ==
    ASSUME IInv, NEW o \in Objects, Receive(o)
    PROVE  IInv'
<1> DEFINE new == [NewObject(Root, Nothing.field) EXCEPT !.ids = data.ids, !.from = data.from]
           x == Loaded(o, new, data.content)
<1>1. /\ data.ids \subseteq Classes /\ data.content \in Seq(Values) /\ data.from \in Meanings
      /\ data.ids = Ids(data.from.cls) /\ data.content = ValuesOf(data.from)
      /\ Constructed(data.from.cls, data.from.field)
  BY DEF IInv, TypeOK, DataSound, Sent, Receive
<1>2. new \in Object /\ new.cls = Root /\ ~new.bound /\ new.ids = data.ids /\ new.from = data.from
  <2>1. NewObject(Root, Nothing.field) \in Object
    BY NewObjectType, NothingType, ClassAssumption DEF Meanings
  <2> QED
    BY <1>1, <2>1 DEF Object, NewObject
<1>3. Put(o, x) /\ live' = live \cup {o} /\ UNCHANGED data
  BY DEF Receive
<1> HIDE DEF new
<1>4. /\ x \in Object /\ x.cls = Root /\ x.ids = data.ids /\ x.from = data.from
      /\ x.content = data.content /\ x.refs = References(o, Root)
  BY <1>1, <1>2, LoadedType
<1> HIDE DEF x
<1>5. Sound(o, x)
  <2>1. Root \in Classes /\ Written(Root) = {} /\ Hidden(Root) = {}
    BY ClassAssumption, IdsType DEF Hidden
  <2> QED
    BY <1>1, <1>4, <2>1 DEF Sound, Constructed, Read
<1> QED
  BY <1>3, <1>4, <1>5, PutSound, DataUnchanged DEF IInv

\* A reading of a received message.
LEMMA AsKeeps ==
    ASSUME IInv, NEW o \in Objects, NEW n \in Objects, NEW c \in Classes, As(o, n, c)
    PROVE  IInv'
<1> DEFINE old == obj[o]
<1>1. old \in Object /\ Sound(o, old)
  BY DEF IInv, TypeOK, AllSound, As
<1>2. /\ old.content \in Seq(Values) /\ old.ids \subseteq Classes /\ old.from \in Meanings
      /\ old.from.cls \in Classes
  BY <1>1 DEF Object, Meanings
<1>3. live' = live \cup {n} /\ UNCHANGED data /\ c \in Heirs
  BY DEF As
<1>4. PICK f \in FieldsOf(c) :
          LET new == NewObject(c, f)
              read == Loaded(n, new, old.content)
          IN  IF c \notin old.ids THEN Put(n, new)
              ELSE IF Len(old.content) < Len(Chain[c]) THEN Put(n, read)
              ELSE Put(n, [read EXCEPT !.ids = old.ids, !.from = old.from])
  BY DEF As
<1> DEFINE new == NewObject(c, f)
           read == Loaded(n, new, old.content)
           full == [read EXCEPT !.ids = old.ids, !.from = old.from]
<1>5. /\ new \in Object /\ Sound(n, new) /\ new.cls = c /\ ~new.bound /\ new.from = Nothing
      /\ new.field = f
  BY NewObjectType, NewSound DEF NewObject
<1> HIDE DEF old
<1>6. /\ read \in Object /\ read.cls = c /\ read.bound /\ read.refs = References(n, c)
      /\ read.content = old.content /\ read.from = Nothing
      /\ \A i \in 1..Len(Chain[c]) : i <= Len(old.content) => read.field[Chain[c][i]] = old.content[i]
      /\ \A k \in Classes \ Written(c) : read.field[k] = f[k]
  BY <1>2, <1>5, LoadedType
<1>7. Constructed(c, read.field)
  <2>1. Hidden(c) \subseteq Classes \ Written(c)
    BY IdsType DEF Hidden
  <2> HIDE DEF read
  <2> QED
    BY <1>6, <2>1 DEF Constructed, FieldsOf
<1>8. CASE c \notin old.ids
  <2>1. Put(n, new)
    BY <1>4, <1>8
  <2> QED
    BY <1>3, <1>5, <2>1, PutSound, DataUnchanged DEF IInv
<1>9. CASE c \in old.ids /\ Len(old.content) < Len(Chain[c])
  <2>1. Put(n, read)
    BY <1>4, <1>9
  <2> HIDE DEF read
  <2>2. Sound(n, read)
    BY <1>6, <1>7, NothingType DEF Sound
  <2> QED
    BY <1>3, <1>6, <2>1, <2>2, PutSound, DataUnchanged DEF IInv
<1>10. CASE c \in old.ids /\ ~(Len(old.content) < Len(Chain[c]))
  <2>1. Put(n, full)
    BY <1>4, <1>10
  <2> HIDE DEF new, read
  <2>2. /\ full \in Object /\ full.cls = c /\ full.refs = References(n, c)
        /\ full.content = old.content /\ full.ids = old.ids /\ full.from = old.from
        /\ full.field = read.field
    BY <1>2, <1>6 DEF Object
  <2> HIDE DEF full
  <2>3. ASSUME old.from.cls # Root
        PROVE  Read(c, read.field, old.from)
    <3> DEFINE m == old.from
    <3>1. old.ids = Ids(m.cls) /\ old.content = ValuesOf(m) /\ m.cls \in Classes
      BY <1>1, <1>2, <2>3 DEF Sound
    <3>2. c \in Ids(m.cls)
      BY <1>10, <3>1
    <3>3. Chain[c] \in Seq(Classes) /\ Chain[m.cls] \in Seq(Classes)
      BY <3>1, ChainIs
    <3>4. ASSUME NEW k \in Written(c), k \in Written(m.cls) PROVE read.field[k] = m.field[k]
      <4>1. PICK i \in 1..Len(Chain[c]) : k = Chain[c][i]
        BY DEF Written
      <4>2. i \in 1..Len(Chain[m.cls]) /\ k = Chain[m.cls][i]
        BY <3>1, <3>2, <3>4, <4>1, SamePlace
      <4>3. old.content[i] = m.field[k] /\ Len(old.content) = Len(Chain[m.cls])
        BY <3>1, <3>3, <4>2 DEF ValuesOf
      <4>4. i <= Len(old.content)
        BY <3>3, <4>2, <4>3
      <4> QED
        BY <1>6, <4>1, <4>3, <4>4
    <3> QED
      BY <3>2, <3>4 DEF Read
  <2>4. Sound(n, full)
    BY <1>1, <1>7, <2>2, <2>3 DEF Sound
  <2> QED
    BY <1>3, <2>1, <2>2, <2>4, PutSound, DataUnchanged DEF IInv
<1> QED
  BY <1>8, <1>9, <1>10

LEMMA SetFieldKeeps ==
    ASSUME IInv, NEW o \in Objects, NEW k \in Classes, NEW v \in Values, SetField(o, k, v)
    PROVE  IInv'
<1> DEFINE old == obj[o]
           x == [old EXCEPT !.field[k] = v, !.from = Nothing]
<1>1. old \in Object /\ Sound(o, old)
  BY DEF IInv, TypeOK, AllSound, SetField
<1>2. Put(o, x) /\ UNCHANGED <<live, data>> /\ o \in live /\ k \notin Fixed
  BY DEF SetField
<1> HIDE DEF old
<1>3. /\ x \in Object /\ x.cls = old.cls /\ x.bound = old.bound /\ x.refs = old.refs
      /\ x.from.cls = Root
      /\ \A l \in Classes \ {k} : x.field[l] = old.field[l]
  BY <1>1, NothingType DEF Object, Fields
<1> HIDE DEF x
<1>4. Hidden(old.cls) \subseteq Classes /\ old.cls \in Classes
  <2>1. old.cls \in Classes
    BY <1>1 DEF Object
  <2> QED
    BY <2>1, IdsType DEF Hidden
<1>5. Constructed(x.cls, x.field)
  BY <1>1, <1>2, <1>3, <1>4 DEF Sound, Constructed
<1>6. Sound(o, x)
  BY <1>1, <1>3, <1>5 DEF Sound
<1> QED
  BY <1>2, <1>3, <1>6, PutSound, DataUnchanged DEF IInv

LEMMA MoveKeeps ==
    ASSUME IInv, NEW o \in Objects, NEW n \in Objects, Move(o, n)
    PROVE  IInv'
<1>1. obj[o] \in Object /\ Sound(o, obj[o]) /\ obj[o].cls \in Classes /\ obj[n] \in Object
  BY DEF IInv, TypeOK, AllSound, Move, Object
<1>2. PICK f \in FieldsOf(obj[o].cls), content \in {<<>>, obj[n].content}, ids \in {{}, obj[n].ids} :
          obj' = [obj EXCEPT ![n] = Copied(obj[o]),
                             ![o] = [NewObject(obj[o].cls, f) EXCEPT !.content = content,
                                                                     !.ids = ids]]
  BY DEF Move
<1> DEFINE new == NewObject(obj[o].cls, f)
           left == [new EXCEPT !.content = content, !.ids = ids]
<1>3. /\ Copied(obj[o]) \in Object /\ Sound(n, Copied(obj[o]))
      /\ left \in Object /\ Sound(o, left)
  <2>1. new \in Object /\ Sound(o, new) /\ ~new.bound /\ new.from.cls = Root
    BY <1>1, NewObjectType, NewSound, NothingType DEF NewObject
  <2>2. content \in Seq(Values) /\ ids \subseteq Classes
    <3>1. obj[n].content \in Seq(Values) /\ obj[n].ids \subseteq Classes
      BY <1>1 DEF Object
    <3>2. <<>> \in Seq(Values)
      OBVIOUS
    <3> HIDE DEF new, left
    <3> QED
      BY <3>1, <3>2
  <2> HIDE DEF new
  <2>3. /\ left \in Object /\ left.cls = new.cls /\ left.field = new.field
        /\ ~left.bound /\ left.from.cls = Root
    BY <2>1, <2>2 DEF Object
  <2> HIDE DEF left
  <2>4. Sound(o, left)
    BY <2>1, <2>3 DEF Sound
  <2> QED
    BY <1>1, <2>3, <2>4, CopiedSound
<1>4. n # o /\ live' = live \cup {n} /\ live \subseteq Objects /\ UNCHANGED data
      /\ obj \in [Objects -> Object]
  BY DEF Move, IInv, TypeOK
<1> HIDE DEF left
<1>5. /\ obj' \in [Objects -> Object]
      /\ obj'[n] = Copied(obj[o]) /\ obj'[o] = left
      /\ \A l \in Objects \ {n, o} : obj'[l] = obj[l]
  <2>1. obj' = [obj EXCEPT ![n] = Copied(obj[o]), ![o] = left]
    BY <1>2 DEF left
  <2> QED
    BY <1>3, <1>4, <2>1
<1>6. ASSUME NEW l \in live' PROVE Sound(l, obj'[l])
  BY <1>3, <1>4, <1>5 DEF IInv, AllSound
<1>7. AllSound'
  BY <1>6 DEF AllSound, Sound
<1> QED
  BY <1>4, <1>5, <1>7, DataUnchanged

\* Every step keeps the invariant.
LEMMA NextKeeps == IInv /\ [Next]_vars => IInv'
<1> SUFFICES ASSUME IInv, [Next]_vars PROVE IInv'
  OBVIOUS
<1>0. TypeOK /\ AllSound
  BY DEF IInv
<1>1. ASSUME NEW o \in Objects, Destroy(o) PROVE IInv'
  <2>1. Nothing.field \in Fields /\ Root \in Classes
    BY NothingType, NothingNew DEF Meanings
  <2>2. NewObject(Root, Nothing.field) \in Object
    BY <2>1, NewObjectType
  <2>3. Put(o, NewObject(Root, Nothing.field)) /\ live' = live \ {o} /\ UNCHANGED data
    BY <1>1 DEF Destroy
  <2> QED
    BY <1>0, <2>2, <2>3, PutSound, DataUnchanged
<1>2. ASSUME NEW o \in Objects, NEW c \in Classes, Make(o, c) PROVE IInv'
  <2>1. PICK f \in FieldsOf(c) : Put(o, NewObject(c, f))
    BY <1>2 DEF Make
  <2>2. live' = live \cup {o} /\ UNCHANGED data
    BY <1>2 DEF Make
  <2> QED
    BY <1>0, <2>1, <2>2, NewObjectType, NewSound, PutSound, DataUnchanged
<1>3. ASSUME NEW o \in Objects, NEW n \in Objects, Copy(o, n) PROVE IInv'
  <2>1. obj[o] \in Object /\ Sound(o, obj[o])
    BY <1>0, <1>3 DEF TypeOK, AllSound, Copy
  <2>2. Put(n, Copied(obj[o])) /\ live' = live \cup {n} /\ UNCHANGED data
    BY <1>3 DEF Copy
  <2> QED
    BY <1>0, <2>1, <2>2, CopiedSound, PutSound, DataUnchanged
<1>4. CASE UNCHANGED vars
  <2>1. UNCHANGED live /\ UNCHANGED obj /\ UNCHANGED data
    BY <1>4 DEF vars
  <2>2. obj' \in [Objects -> Object] /\ live' \subseteq Objects
    BY <1>0, <2>1 DEF TypeOK
  <2>3. AllSound'
    BY <1>0, <2>1 DEF AllSound, Sound
  <2> QED
    BY <2>1, <2>2, <2>3, DataUnchanged
<1>5. ASSUME Next PROVE IInv'
  <2>1. PICK o \in Objects :
            \/ ToBytes(o) \/ Receive(o) \/ Destroy(o)
            \/ \E c \in Classes : Make(o, c) \/ \E v \in Values : SetField(o, c, v)
            \/ \E n \in Objects :
                  \/ Copy(o, n) \/ Move(o, n)
                  \/ \E c \in Classes : As(o, n, c)
    BY <1>5 DEF Next
  <2>2. CASE ToBytes(o) \/ Receive(o) \/ Destroy(o)
    BY <1>1, <2>2, ToBytesKeeps, ReceiveKeeps
  <2>3. CASE \E c \in Classes : Make(o, c) \/ \E v \in Values : SetField(o, c, v)
    BY <1>2, <2>3, SetFieldKeeps
  <2>4. CASE \E n \in Objects : \/ Copy(o, n) \/ Move(o, n)
                              \/ \E c \in Classes : As(o, n, c)
    BY <1>3, <2>4, AsKeeps, MoveKeeps
  <2> QED
    BY <2>1, <2>2, <2>3, <2>4
<1> QED
  BY <1>4, <1>5

-------------------------------------------------------------------------------
LEMMA InductiveInvariant == Spec => []IInv
<1>1. Init => IInv
  BY Initially
<1>2. IInv /\ [Next]_vars => IInv'
  BY NextKeeps
<1> QED
  BY <1>1, <1>2, PTL DEF Spec

\* The objects keep their types.
THEOREM TypeCorrect == Spec => []TypeOK
<1>1. IInv => TypeOK
  BY DEF IInv
<1> QED
  BY <1>1, InductiveInvariant, PTL

\* An object that was copied, assigned, moved or made in the place of another
\* is written from its own fields, and read into them, in the order of its
\* classes (serialization_context.cpp:10-37).
THEOREM RefersToItself == Spec => []OwnFields
<1>1. IInv => OwnFields
  BY DEF IInv, AllSound, Sound, OwnFields
<1> QED
  BY <1>1, InductiveInvariant, PTL

\* Whatever class of its sender a message is read as, and however often, it has
\* the values that were sent, in all fields that both classes write
\* (message.h:59-106).
THEOREM EveryReadingIsTrue == Spec => []ReadsBack
<1>1. IInv => ReadsBack
  BY DEF IInv, AllSound, Sound, Read, Constructed, ReadsBack
<1> QED
  BY <1>1, InductiveInvariant, PTL

\* Which readings are false, in every hierarchy: a class that is an heir reads no
\* field that its sender did not write but its own last one, and that only if the
\* sender has another class below, plainly derived, that declares fields
\* (serializable.h:35-43; CouplingMessage and CouplingResponse, coupling.h:63).
THEOREM OnlyItsOwnIsMisread ==
    ASSUME NEW c \in Classes, NEW d \in Ids(c), NEW k \in Written(d) \ Written(c)
    PROVE  /\ k = d /\ Chain[d][Len(Chain[d])] = d
           /\ \E e \in (Bases(c) \cap Declaring) \ Heirs : d \in Bases(e) \ {e}
<1>1. PICK t \in 1..Len(Lineage[c]) : d = Lineage[c][t] /\ d \in Heirs
  BY DEF Ids, Bases
<1>2. d \in Classes /\ Len(Lineage[d]) = t /\ \A j \in 1..t : Lineage[d][j] = Lineage[c][j]
  BY <1>1, Prefix
<1>3. Lineage[c] \in Seq(Classes) /\ Len(Lineage[c]) \in Nat /\ t \in Nat /\ t <= Len(Lineage[c])
  <2>1. Lineage[c] \in Seq(Classes)
    BY ClassAssumption
  <2> QED
    BY <2>1
<1>4. PICK n \in 1..Len(Chain[d]) : k = Chain[d][n]
  BY DEF Written
<1>5. k = d
  BY <1>4, SamePlace
<1>6. PICK i \in Added(d) : Rank(Added(d), i) = n /\ k = Lineage[d][i]
  BY <1>2, <1>4, ChainIs
<1>7. i = t
  <2>1. i \in 1..t
    BY <1>2, <1>6 DEF Added
  <2>2. i \in 1..Len(Lineage[c]) /\ Lineage[c][i] = Lineage[c][t]
    BY <1>1, <1>2, <1>3, <1>5, <1>6, <2>1
  <2> QED
    BY <2>2, Injective
<1>8. Chain[d][Len(Chain[d])] = d
  <2>1. Chain[d] \in Seq(Classes)
    BY <1>2, ChainIs
  <2>2. Len(Chain[d]) \in 1..Len(Chain[d])
    BY <1>4, <2>1
  <2>3. PICK j \in Added(d) : /\ Rank(Added(d), j) = Len(Chain[d])
                              /\ Chain[d][Len(Chain[d])] = Lineage[d][j]
    BY <1>2, <2>2, ChainIs
  <2>4. j = t
    <3>1. j \in 1..t /\ t \in Added(d)
      BY <1>2, <1>6, <1>7, <2>3 DEF Added
    <3>2. IsFiniteSet(Added(d) \cap (1..t))
      <4>1. IsFiniteSet(1..t)
        BY <1>3, FS_Interval
      <4>2. Added(d) \cap (1..t) \subseteq 1..t
        OBVIOUS
      <4> QED
        BY <4>1, <4>2, FS_Subset
    <3>3. ASSUME j # t PROVE FALSE
      <4>1. /\ Added(d) \cap (1..j) \subseteq Added(d) \cap (1..t)
            /\ t \in Added(d) \cap (1..t) /\ t \notin Added(d) \cap (1..j)
        BY <1>3, <3>1, <3>3
      <4>2. /\ Rank(Added(d), j) <= Rank(Added(d), t) /\ Rank(Added(d), j) # Rank(Added(d), t)
            /\ Rank(Added(d), j) \in Nat /\ Rank(Added(d), t) \in Nat
        BY <3>2, <4>1, FS_Subset, FS_CardinalityType DEF Rank
      <4>3. Rank(Added(d), t) \in 1..Len(Chain[d])
        BY <1>2, <3>1, ChainIs
      <4> QED
        BY <2>1, <2>3, <4>2, <4>3
    <3> QED
      BY <3>3
  <2> QED
    BY <1>1, <1>2, <1>3, <2>3, <2>4
<1>9. t \notin Added(c)
  <2>1. ASSUME t \in Added(c) PROVE d \in Written(c)
    <3>1. /\ Rank(Added(c), t) \in 1..Len(Chain[c])
          /\ Chain[c][Rank(Added(c), t)] = d
      BY <1>1, <2>1, ChainIs
    <3> QED
      BY <3>1 DEF Written
  <2> QED
    BY <1>5, <2>1
<1>10. t \in Added(d) /\ d \in Declaring
  BY <1>2, <1>5, <1>6, <1>7 DEF Added, Adds
<1>11. PICK j \in (t + 1)..Len(Lineage[c]) :
          Lineage[c][j] \in Declaring /\ \A h \in (t + 1)..j : Lineage[c][h] \notin Heirs
  BY <1>1, <1>3, <1>9, <1>10 DEF Added, Adds
<1>12. Lineage[c][j] \in (Bases(c) \cap Declaring) \ Heirs
  BY <1>3, <1>11 DEF Bases
<1>13. d \in Bases(Lineage[c][j]) /\ d # Lineage[c][j]
  <2>1. j \in 1..Len(Lineage[c]) /\ t \in 1..j /\ t # j
    BY <1>3, <1>11
  <2>2. Len(Lineage[Lineage[c][j]]) = j /\ Lineage[Lineage[c][j]][t] = d
    BY <1>1, <2>1, Prefix
  <2>3. d # Lineage[c][j]
    BY <1>1, <2>1, Injective
  <2> QED
    BY <2>1, <2>2, <2>3 DEF Bases
<1> QED
  BY <1>5, <1>8, <1>12, <1>13
===============================================================================
