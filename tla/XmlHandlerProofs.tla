--------------------------- MODULE XmlHandlerProofs ---------------------------
(***************************************************************************)
(* What XmlHandler does for any documents, servers and places: its         *)
(* inductive invariant IInv, with that no alert is taken twice and that    *)
(* files of one name are events of one second, and what a call of append   *)
(* does to the buffers and the queue.                                      *)
(***************************************************************************)
EXTENDS XmlHandler, FiniteSetTheorems, SequenceTheorems, WellFoundedInduction, TLAPS

-----------------------------------------------------------------------------
(* HistoryItem *)

LEMMA ItemRemembered ==
  ASSUME NEW d \in Doc, NEW k \in DOMAIN Infos[d]
  PROVE  Item(d, k) \in Remembered
BY DEF Remembered

LEMMA RememberedSent ==
  ASSUME NEW x \in Remembered
  PROVE  x.sent \in Int
<1>1. PICK d \in Doc : \E k \in DOMAIN Infos[d] : x = Item(d, k)
  BY DEF Remembered
<1>2. x.sent = Sent[d]
  BY <1>1 DEF Item
<1> QED
  BY <1>2, IntakeConstants

\* Which of two alerts came first makes no difference.
LEMMA SameSymmetric ==
  ASSUME NEW x \in Remembered, NEW y \in Remembered, Same(x, y)
  PROVE  Same(y, x)
<1>1. x.sent \in Int /\ y.sent \in Int
  BY RememberedSent
<1>2. CASE x.id = y.id
  BY <1>2 DEF Same
<1>3. CASE x.event = y.event /\ x.sent - y.sent \in -900 .. 900
  <2> DEFINE a == x.sent
             b == y.sent
  <2>1. a \in Int /\ b \in Int /\ a - b \in -900 .. 900
    BY <1>1, <1>3
  <2> HIDE DEF a, b
  <2>2. b - a \in -900 .. 900
    BY <2>1
  <2> QED
    BY <1>3, <2>2 DEF Same, a, b
<1> QED
  BY <1>2, <1>3 DEF Same

\* x is basically the same as something in h.  A definition without variables, unlike
\* Seen, so that Seen and its prime are two uses of it.
Within(x, h) == \E i \in DOMAIN h : Same(x, h[i])

\* Repeats, of any history.
RepeatsIn(d, j, h) ==
  \/ \E l \in 1 .. j - 1 : Same(Item(d, j), Item(d, l))
  \/ \E i \in DOMAIN h : h[i].id # Ident[d] /\ Same(Item(d, j), h[i])

\* What was seen stays seen when something is remembered.
LEMMA Extended ==
  ASSUME history \in Seq(Remembered), NEW item \in Remembered,
         history' = Append(history, item)
  PROVE  /\ history' \in Seq(Remembered)
         /\ Range(history') = Range(history) \union {item}
         /\ \A x : Within(x, history) => Within(x, history')
         /\ Within(item, history')
<1>1. /\ history' \in Seq(Remembered)
      /\ Len(history') = Len(history) + 1
      /\ \A i \in 1 .. Len(history) : history'[i] = history[i]
      /\ history'[Len(history) + 1] = item
  BY AppendProperties
<1>2. Len(history) \in Nat
  BY LenProperties
<1>3. /\ DOMAIN history = 1 .. Len(history)
      /\ DOMAIN history' = 1 .. Len(history) + 1
  BY <1>1, LenProperties
<1>4. Range(history') = Range(history) \union {item}
  BY <1>1, <1>2, <1>3 DEF Range
<1>5. \A x : Within(x, history) => Within(x, history')
  BY <1>1, <1>2, <1>3 DEF Within
<1>6. Same(item, item)
  BY DEF Same
<1>7. Within(item, history')
  BY <1>1, <1>2, <1>3, <1>6 DEF Within
<1> QED
  BY <1>1, <1>4, <1>5, <1>7

-----------------------------------------------------------------------------
(* find_match *)

\* A set of natural numbers that is not empty has a smallest element.
LEMMA Smallest ==
  ASSUME NEW T \in SUBSET Nat, T # {}
  PROVE  \E m \in T : \A n \in T : m <= n
<1> DEFINE Less == {xy \in Nat \X Nat : xy[1] < xy[2]}
<1>1. OpToRel(<, Nat) = Less
  BY DEF OpToRel
<1>2. IsWellFoundedOn(Less, Nat)
  BY <1>1, NatLessThanWellFounded, Zenon
<1> HIDE DEF Less
<1>3. PICK m \in T : \A n \in T : <<n, m>> \notin Less
  BY <1>2, WFMin
<1>4. ASSUME NEW n \in T
      PROVE  m <= n
  <2>1. <<n, m>> \notin Less
    BY <1>3
  <2>2. ~(n < m)
    BY <2>1 DEF Less
  <2> QED
    BY <2>2
<1> QED
  BY <1>4

\* The ends of b up to i.
EndsUpTo(b, i) == {j \in Ends(b) : j <= i}

LEMMA EndsFinite ==
  ASSUME NEW b \in Seq(Piece)
  PROVE  /\ Ends(b) \subseteq 1 .. Len(b)
         /\ IsFiniteSet(Ends(b)) /\ Cardinality(Ends(b)) \in Nat
         /\ \A i : /\ IsFiniteSet(EndsUpTo(b, i))
                   /\ Cardinality(EndsUpTo(b, i)) \in Nat
<1>1. Len(b) \in Nat /\ DOMAIN b = 1 .. Len(b)
  BY LenProperties
<1>2. Ends(b) \subseteq 1 .. Len(b)
  BY <1>1 DEF Ends
<1>3. IsFiniteSet(1 .. Len(b))
  BY <1>1, FS_Interval
<1>4. ASSUME NEW T \in SUBSET (1 .. Len(b))
      PROVE  IsFiniteSet(T) /\ Cardinality(T) \in Nat
  BY <1>3, FS_Subset, FS_CardinalityType
<1>5. \A i : EndsUpTo(b, i) \in SUBSET (1 .. Len(b))
  BY <1>2 DEF EndsUpTo
<1> QED
  BY <1>2, <1>4, <1>5

\* A buffer has an n-th end for every n up to the number of its ends.
LEMMA EndExists ==
  ASSUME NEW b \in Seq(Piece), NEW n \in 1 .. Cardinality(Ends(b))
  PROVE  /\ EndNo(b, n) \in Ends(b)
         /\ Cardinality(EndsUpTo(b, EndNo(b, n))) = n
<1> DEFINE T == {i \in 1 .. Len(b) : Cardinality(EndsUpTo(b, i)) >= n}
<1>1. /\ Len(b) \in Nat
      /\ Ends(b) \subseteq 1 .. Len(b)
      /\ Cardinality(Ends(b)) \in Nat
      /\ \A i : IsFiniteSet(EndsUpTo(b, i)) /\ Cardinality(EndsUpTo(b, i)) \in Nat
  BY EndsFinite, LenProperties
<1>2. Len(b) \in T
  <2>1. EndsUpTo(b, Len(b)) = Ends(b)
    BY <1>1 DEF EndsUpTo
  <2>2. Ends(b) # {}
    BY <1>1, FS_EmptySet
  <2>3. Len(b) \in 1 .. Len(b)
    BY <1>1, <2>2
  <2> QED
    BY <1>1, <2>1, <2>3
<1>3. PICK m \in T : \A i \in T : m <= i
  <2>1. T \in SUBSET Nat /\ T # {}
    BY <1>1, <1>2
  <2> HIDE DEF T
  <2> QED
    BY <2>1, Smallest
<1>4. /\ m \in 1 .. Len(b)
      /\ Cardinality(EndsUpTo(b, m)) >= n
  BY <1>3
<1>5. Cardinality(EndsUpTo(b, m - 1)) < n
  <2>1. CASE m = 1
    <3>1. EndsUpTo(b, 0) = {}
      BY <1>1 DEF EndsUpTo
    <3> QED
      BY <2>1, <3>1, <1>1, FS_EmptySet
  <2>2. CASE m # 1
    <3>1. m - 1 \in 1 .. Len(b) /\ m - 1 \notin T
      BY <1>1, <1>3, <1>4, <2>2
    <3> QED
      BY <3>1, <1>1
  <2> QED
    BY <2>1, <2>2
<1>6. m \in Ends(b)
  <2> SUFFICES ASSUME m \notin Ends(b) PROVE FALSE
    OBVIOUS
  <2>1. EndsUpTo(b, m) = EndsUpTo(b, m - 1)
    BY <1>1, <1>4 DEF EndsUpTo
  <2> QED
    BY <2>1, <1>1, <1>4, <1>5
<1>7. Cardinality(EndsUpTo(b, m)) = Cardinality(EndsUpTo(b, m - 1)) + 1
  <2>1. EndsUpTo(b, m) = EndsUpTo(b, m - 1) \union {m} /\ m \notin EndsUpTo(b, m - 1)
    BY <1>1, <1>4, <1>6 DEF EndsUpTo
  <2> QED
    BY <2>1, <1>1, FS_AddElement
<1>8. Cardinality(EndsUpTo(b, m)) = n
  BY <1>1, <1>4, <1>5, <1>7
<1>9. \E i \in Ends(b) : Cardinality({j \in Ends(b) : j <= i}) = n
  BY <1>6, <1>8 DEF EndsUpTo
<1>10. n # 0
  BY <1>1
<1>11. EndNo(b, n) = CHOOSE i \in Ends(b) : Cardinality({j \in Ends(b) : j <= i}) = n
  BY <1>10, Zenon DEF EndNo
<1> QED
  BY <1>9, <1>11 DEF EndsUpTo

\* Behind the last end there is none.
LEMMA LastEnd ==
  ASSUME NEW b \in Seq(Piece), NEW i \in Ends(b)
  PROVE  i <= EndNo(b, Cardinality(Ends(b)))
<1> DEFINE n == Cardinality(Ends(b))
           e == EndNo(b, n)
<1>1. /\ Ends(b) \subseteq 1 .. Len(b) /\ Len(b) \in Nat
      /\ IsFiniteSet(Ends(b)) /\ n \in Nat
  BY EndsFinite, LenProperties
<1>2. n \in 1 .. n
  BY <1>1, FS_EmptySet
<1>3. e \in Ends(b) /\ Cardinality(EndsUpTo(b, e)) = n
  BY <1>2, EndExists
<1>4. EndsUpTo(b, e) = Ends(b)
  BY <1>1, <1>3, FS_Subset DEF EndsUpTo
<1> QED
  BY <1>1, <1>3, <1>4 DEF EndsUpTo

\* What is found in a buffer without an end, and in one with an end.
LEMMA FoundShape ==
  ASSUME NEW b \in Seq(Piece), NEW outcome \in Outcomes(b)
  PROVE  /\ \E n \in Nat :
              /\ Found(b, outcome).rest = After(b, n)
              /\ n > 0 => EndNo(b, n) \in Ends(b)
              /\ Found(b, outcome).new \in [1 .. n -> Range(Found(b, outcome).new)]
              /\ Ends(b) # {} => n > 0 /\ Found(b, outcome).new[1] = Match(b, 1)
              /\ Ends(b) = {} => n = 0
<1> DEFINE n == IF outcome = "left" THEN 1 ELSE Cardinality(Ends(b))
           new == [m \in 1 .. n |-> IF m > 1 /\ outcome = "mangled" THEN Mangled ELSE Match(b, m)]
<1>1. /\ Cardinality(Ends(b)) \in Nat
      /\ Ends(b) = {} <=> Cardinality(Ends(b)) = 0
  BY EndsFinite, FS_EmptySet
<1>2. /\ n \in Nat
      /\ n = 0 \/ n \in 1 .. Cardinality(Ends(b))
      /\ Ends(b) # {} => n > 0
      /\ Ends(b) = {} => n = 0
  BY <1>1 DEF Outcomes
<1>3. Found(b, outcome) = [new |-> new, rest |-> After(b, n)]
  BY DEF Found
<1>4. n > 0 => EndNo(b, n) \in Ends(b)
  BY <1>2, EndExists
<1> HIDE DEF n
<1>5. new \in [1 .. n -> Range(new)]
  BY DEF Range
<1>6. Ends(b) # {} => new[1] = Match(b, 1)
  BY <1>2
<1> HIDE DEF new
<1> QED
  BY <1>2, <1>3, <1>4, <1>5, <1>6

\* What is left of a buffer is its end.
LEMMA RestIsSuffix ==
  ASSUME NEW b \in Seq(Piece), NEW n \in Nat, n > 0 => EndNo(b, n) \in Ends(b)
  PROVE  \E e \in 0 .. Len(b) :
           /\ After(b, n) \in Seq(Piece)
           /\ Len(After(b, n)) = Len(b) - e
           /\ \A i \in 1 .. Len(b) - e : After(b, n)[i] = b[e + i]
           /\ n = 0 => After(b, n) = b
<1>1. Len(b) \in Nat /\ Ends(b) \subseteq 1 .. Len(b)
  BY EndsFinite, LenProperties
<1>2. EndNo(b, 0) = 0
  BY DEF EndNo
<1>3. PICK e \in 0 .. Len(b) : e = EndNo(b, n)
  BY <1>1, <1>2
<1>4. After(b, n) = SubSeq(b, e + 1, Len(b))
  BY <1>3 DEF After
<1>5. \A i \in e + 1 .. Len(b) : b[i] \in Piece
  BY <1>1, ElementOfSeq
<1>6. /\ After(b, n) \in Seq(Piece)
      /\ Len(After(b, n)) = IF e + 1 <= Len(b) THEN Len(b) - (e + 1) + 1 ELSE 0
      /\ \A i \in 1 .. Len(b) - (e + 1) + 1 : After(b, n)[i] = b[e + 1 + i - 1]
  BY <1>1, <1>4, <1>5, SubSeqProperties
<1>7. n = 0 => After(b, n) = b
  BY <1>2, SubSeqFull DEF After
<1>8. Len(After(b, n)) = Len(b) - e
  BY <1>1, <1>6
<1>9. ASSUME NEW i \in 1 .. Len(b) - e
      PROVE  After(b, n)[i] = b[e + i]
  <2>1. i \in 1 .. Len(b) - (e + 1) + 1 /\ e + 1 + i - 1 = e + i
    BY <1>1
  <2> QED
    BY <1>6, <2>1
<1> QED
  BY <1>6, <1>7, <1>8, <1>9

\* A chunk as AppendEnds puts it together.
Chunk(s, short, next) ==
  (IF s = None THEN <<>> ELSE <<End(s)>>) \o
  (IF short = None THEN <<>> ELSE Whole(short)) \o
  (IF next = None THEN <<>> ELSE <<Begin(next)>>)

\* At most one beginning is behind the last end of a chunk that ends a document.
LEMMA ChunkShape ==
  ASSUME NEW s \in Doc \union {None}, NEW short \in Doc \union {None},
         NEW next \in Doc \union {None}
  PROVE  /\ Chunk(s, short, next) \in Seq(Piece)
         /\ s # None => /\ Len(Chunk(s, short, next)) > 0
                        /\ Chunk(s, short, next)[1] = End(s)
                        /\ \E p \in 1 .. Len(Chunk(s, short, next)) :
                             /\ Chunk(s, short, next)[p].part = "end"
                             /\ Len(Chunk(s, short, next)) - p <= 1
<1> DEFINE a == IF s = None THEN <<>> ELSE <<End(s)>>
           b == IF short = None THEN <<>> ELSE Whole(short)
           c == IF next = None THEN <<>> ELSE <<Begin(next)>>
<1>1. a \in Seq(Piece) /\ b \in Seq(Piece) /\ c \in Seq(Piece)
  <2>1. \A d \in Doc : Begin(d) \in Piece /\ End(d) \in Piece
    BY DEF Piece
  <2>2. \A d \in Doc : /\ <<End(d)>> \in Seq(Piece)
                       /\ <<Begin(d)>> \in Seq(Piece)
                       /\ Whole(d) \in Seq(Piece)
    BY <2>1 DEF Whole
  <2>3. <<>> \in Seq(Piece)
    BY EmptySeq
  <2> QED
    BY <2>2, <2>3
<1>2. /\ s # None => Len(a) = 1 /\ a[1] = End(s)
      /\ \/ Len(b) = 0
         \/ Len(b) = 2 /\ b[2] = End(short)
      /\ Len(c) \in Nat /\ Len(c) <= 1
  <2>1. s # None => Len(a) = 1 /\ a[1] = End(s)
    OBVIOUS
  <2>2. Len(<<>>) = 0 /\ Len(Whole(short)) = 2 /\ Whole(short)[2] = End(short)
    BY EmptySeq DEF Whole
  <2>3. Len(<<Begin(next)>>) = 1
    OBVIOUS
  <2> QED
    BY <2>1, <2>2, <2>3
<1>3. Chunk(s, short, next) = (a \o b) \o c
  BY DEF Chunk
<1> HIDE DEF a, b, c
<1>4. /\ a \o b \in Seq(Piece)
      /\ Len(a \o b) = Len(a) + Len(b)
      /\ \A i \in 1 .. Len(a) + Len(b) :
           (a \o b)[i] = IF i <= Len(a) THEN a[i] ELSE b[i - Len(a)]
  BY <1>1, ConcatProperties
<1>5. /\ (a \o b) \o c \in Seq(Piece)
      /\ Len((a \o b) \o c) = Len(a \o b) + Len(c)
      /\ \A i \in 1 .. Len(a \o b) + Len(c) :
           ((a \o b) \o c)[i] = IF i <= Len(a \o b) THEN (a \o b)[i] ELSE c[i - Len(a \o b)]
  BY <1>1, <1>4, ConcatProperties
<1>6. ASSUME s # None
      PROVE  /\ Len((a \o b) \o c) > 0
             /\ ((a \o b) \o c)[1] = End(s)
             /\ \E p \in 1 .. Len((a \o b) \o c) :
                  /\ ((a \o b) \o c)[p].part = "end"
                  /\ Len((a \o b) \o c) - p <= 1
  <2>1. /\ Len(a) = 1 /\ a[1] = End(s)
        /\ Len(b) \in Nat /\ Len(c) \in Nat /\ Len(c) <= 1
    <3>1. Len(a) = 1 /\ a[1] = End(s)
      BY <1>2, <1>6
    <3>2. Len(b) \in Nat
      BY <1>1, LenProperties
    <3>3. Len(c) \in Nat /\ Len(c) <= 1
      BY <1>2
    <3> QED
      BY <3>1, <3>2, <3>3
  <2>2. ((a \o b) \o c)[1] = End(s) /\ Len((a \o b) \o c) = 1 + Len(b) + Len(c)
    BY <1>4, <1>5, <2>1
  <2>3. ((a \o b) \o c)[Len(a \o b)].part = "end"
    <3>1. ((a \o b) \o c)[Len(a \o b)] = (a \o b)[1 + Len(b)]
      BY <1>4, <1>5, <2>1
    <3>2. CASE Len(b) = 0
      BY <1>4, <2>1, <3>1, <3>2 DEF End
    <3>3. CASE Len(b) = 2 /\ b[2] = End(short)
      BY <1>4, <2>1, <3>1, <3>3 DEF End
    <3> QED
      BY <1>2, <3>2, <3>3
  <2>4. /\ Len(a \o b) \in 1 .. Len((a \o b) \o c)
        /\ Len((a \o b) \o c) - Len(a \o b) <= 1
    BY <1>4, <1>5, <2>1
  <2> QED
    BY <2>2, <2>3, <2>4, <2>1
<1> QED
  BY <1>3, <1>5, <1>6

-----------------------------------------------------------------------------
(* Names of files *)

\* Every resource has a name of its own, since its name has one extension more than
\* that of the resource before it.
LEMMA NamesDiffer ==
  ASSUME NEW d \in Doc, NEW k \in DOMAIN Infos[d],
         NEW r \in Audio(Infos[d][k]), NEW q \in Audio(Infos[d][k]), r < q
  PROVE  Name(d, Infos[d][k], r) # Name(d, Infos[d][k], q)
<1> DEFINE rs == Infos[d][k].resources
           UpTo(p) == {s \in Audio(Infos[d][k]) : s <= p}
<1>1. Len(rs) \in Nat /\ DOMAIN rs = 1 .. Len(rs)
  BY IntakeConstants
<1>2. Audio(Infos[d][k]) \subseteq 1 .. Len(rs)
  BY <1>1 DEF Audio
<1>3. IsFiniteSet(UpTo(q))
  <2>1. IsFiniteSet(1 .. Len(rs))
    BY <1>1, FS_Interval
  <2> QED
    BY <1>2, <2>1, FS_Subset
<1>4. UpTo(r) \in SUBSET UpTo(q) /\ UpTo(r) # UpTo(q)
  BY <1>1, <1>2
<1>5. /\ IsFiniteSet(UpTo(r))
      /\ Cardinality(UpTo(r)) # Cardinality(UpTo(q))
  BY <1>3, <1>4, FS_Subset
<1>6. Cardinality(UpTo(r)) \in Nat /\ Cardinality(UpTo(q)) \in Nat
  BY <1>3, <1>5, FS_CardinalityType
<1>7. 1 .. Cardinality(UpTo(r)) # 1 .. Cardinality(UpTo(q))
  BY <1>5, <1>6
<1>8. /\ DOMAIN Name(d, Infos[d][k], r)[3] = 1 .. Cardinality(UpTo(r))
      /\ DOMAIN Name(d, Infos[d][k], q)[3] = 1 .. Cardinality(UpTo(q))
  BY DEF Name
<1> QED
  BY <1>7, <1>8

\* The jobs of one info are named after it, and no two of them have one file.
LEMMA JobsOfInfo ==
  ASSUME NEW d \in Doc, NEW k \in DOMAIN Infos[d]
  PROVE  /\ \A j \in Jobs(d, k) : /\ j.item = Item(d, k)
                                  /\ j.file[2][1] = Sent[d]
                                  /\ j.file[2][2] = Language(Infos[d][k])
         /\ \A i, j \in Jobs(d, k) : i.file = j.file => i = j
<1> DEFINE info == Infos[d][k]
           job(r, dir, name) == [item |-> Item(d, k), resource |-> r, file |-> <<dir, name>>]
<1>1. CASE Audio(info) = {}
  <2>1. Jobs(d, k) = {job(0, "Storage", <<Sent[d], Language(info), <<".wav">>>>)}
    BY <1>1 DEF Jobs
  <2> QED
    BY <2>1
<1>2. CASE Audio(info) # {}
  <2> DEFINE of(r, dir) == job(IF dir = "." THEN r ELSE Uri(info, r), dir, Name(d, info, r))
  <2>1. ASSUME NEW j \in Jobs(d, k)
        PROVE  \E r \in Audio(info), dir \in {".", "Storage"} : j = of(r, dir)
    <3>1. \/ \E r \in Audio(info) : j = job(r, ".", Name(d, info, r))
          \/ \E r \in Audio(info) : j = job(Uri(info, r), "Storage", Name(d, info, r))
      BY <1>2, <2>1 DEF Jobs
    <3> QED
      BY <3>1
  <2>2. ASSUME NEW i \in Jobs(d, k), NEW j \in Jobs(d, k), i.file = j.file
        PROVE  i = j
    <3>1. PICK r \in Audio(info), dir \in {".", "Storage"} : i = of(r, dir)
      BY <2>1
    <3>2. PICK q \in Audio(info), loc \in {".", "Storage"} : j = of(q, loc)
      BY <2>1
    <3>3. dir = loc /\ Name(d, info, r) = Name(d, info, q)
      BY <2>2, <3>1, <3>2
    <3>4. r \in Nat /\ q \in Nat
      BY IntakeConstants DEF Audio
    <3>5. r = q
      <4>1. ~(r < q) /\ ~(q < r)
        BY <3>3, NamesDiffer
      <4> QED
        BY <3>4, <4>1
    <3> QED
      BY <3>1, <3>2, <3>3, <3>5
  <2>3. ASSUME NEW j \in Jobs(d, k)
        PROVE  /\ j.item = Item(d, k)
               /\ j.file[2][1] = Sent[d]
               /\ j.file[2][2] = Language(info)
    <3>1. PICK r \in Audio(info), dir \in {".", "Storage"} : j = of(r, dir)
      BY <2>1
    <3> QED
      BY <3>1 DEF Name
  <2> QED
    BY <2>2, <2>3
<1> QED
  BY <1>1, <1>2

-----------------------------------------------------------------------------
(* The invariant *)

LEMMA InvInit == Init => IInv
<1> SUFFICES ASSUME Init PROVE IInv
  OBVIOUS
<1> USE IntakeConstants DEF Init
<1>1. TypeOK
  BY EmptySeq DEF TypeOK
<1>2. DOMAIN history = {}
  OBVIOUS
<1>3. TakenDiffer /\ TakenInOrder
  BY <1>2 DEF TakenDiffer, TakenInOrder, Range
<1>4. LoopRemembered /\ JobsRemembered /\ FilesDiffer
  BY DEF LoopRemembered, JobsRemembered, FilesDiffer
<1>5. NoneTurnedAway /\ TakenStored /\ HandedNear
  BY <1>2 DEF NoneTurnedAway, TakenStored, HandedNear
<1> QED
  BY <1>1, <1>3, <1>4, <1>5 DEF IInv

\* What the steps that leave the history and the jobs alone have to show.
LEMMA HistoryKept ==
  ASSUME IInv, UNCHANGED <<setup, history, handed>>, stored \subseteq stored',
         TypeOK', LoopRemembered', NoneTurnedAway'
  PROVE  IInv'
<1>1. JobsRemembered' /\ TakenDiffer' /\ FilesDiffer'
  BY DEF IInv, JobsRemembered, TakenDiffer, FilesDiffer
<1>2. TakenInOrder'
  BY DEF IInv, TakenInOrder
<1>3. TakenStored' /\ HandedNear'
  BY DEF IInv, TakenStored, HandedNear, Covered
<1> QED
  BY <1>1, <1>2, <1>3 DEF IInv

\* What a call of append does to the buffer and the queue.
LEMMA Received ==
  ASSUME TypeOK, NEW h \in Host, NEW pieces \in Seq(Piece),
         FindAndProcess(h, buffer[h] \o pieces)
  PROVE  /\ buffer[h] \o pieces \in Seq(Piece)
         /\ \E outcome \in Outcomes(buffer[h] \o pieces) :
              LET found == Found(buffer[h] \o pieces, outcome)
                  q == matches \o found.new
              IN  /\ buffer' = [buffer EXCEPT ![h] = found.rest]
                  /\ found.rest \in Seq(Piece)
                  /\ q \in Seq(Range(q))
                  /\ Len(q) = Len(matches) + Len(found.new)
                  /\ Len(found.new) \in Nat
                  /\ \A i \in 1 .. Len(q) :
                       q[i] = IF i <= Len(matches) THEN matches[i] ELSE found.new[i - Len(matches)]
                  /\ ProcessMatches(q)
<1> DEFINE b == buffer[h] \o pieces
<1>1. b \in Seq(Piece)
  BY ConcatProperties DEF TypeOK
<1>2. PICK outcome \in Outcomes(b) :
        /\ buffer' = [buffer EXCEPT ![h] = Found(b, outcome).rest]
        /\ ProcessMatches(matches \o Found(b, outcome).new)
  BY DEF FindAndProcess
<1> DEFINE new == Found(b, outcome).new
<1> HIDE DEF b
<1>3. PICK n \in Nat :
        /\ Found(b, outcome).rest = After(b, n)
        /\ n > 0 => EndNo(b, n) \in Ends(b)
        /\ new \in [1 .. n -> Range(new)]
  BY <1>1, FoundShape
<1>4. Found(b, outcome).rest \in Seq(Piece)
  BY <1>1, <1>3, RestIsSuffix
<1> HIDE DEF new
<1> DEFINE S == Range(matches) \union Range(new)
<1>5. matches \in Seq(S) /\ new \in Seq(S)
  <2>1. new \in Seq(Range(new))
    BY <1>3
  <2> QED
    BY <2>1, SeqMonotonic DEF TypeOK
<1> HIDE DEF S
<1>6. /\ matches \o new \in Seq(S)
      /\ Len(matches \o new) = Len(matches) + Len(new)
      /\ Len(new) \in Nat
      /\ \A i \in 1 .. Len(matches) + Len(new) : (matches \o new)[i] =
           IF i <= Len(matches) THEN matches[i] ELSE new[i - Len(matches)]
  BY <1>5, ConcatProperties, LenProperties
<1>7. matches \o new \in Seq(Range(matches \o new))
  BY <1>6, SeqOfRange
<1> QED
  BY <1>1, <1>2, <1>4, <1>6, <1>7 DEF b, new

\* append only adds to what is stored and begins the loop at its first info.
LEMMA AppendKeeps ==
  ASSUME IInv, doing = None, UNCHANGED <<setup, history, past, handed>>,
         sending' \in [Host -> Doc \union {None}],
         NEW h \in Host, NEW pieces \in Seq(Piece), FindAndProcess(h, buffer[h] \o pieces), running
  PROVE  IInv'
<1>1. PICK q : q \in Seq(Range(q)) /\ ProcessMatches(q)
  BY Received DEF IInv
<1>2. buffer' \in [Host -> Seq(Piece)]
  <2>1. PICK rest \in Seq(Piece) : buffer' = [buffer EXCEPT ![h] = rest]
    BY Received DEF IInv
  <2> QED
    BY <2>1 DEF IInv, TypeOK
<1>3. matches' \in Seq(Range(matches'))
  BY <1>1, HeadTailProperties, SeqOfRange DEF ProcessMatches
<1>4. \/ UNCHANGED <<stored, doing, running>>
      \/ \E d \in Doc :
           \/ UNCHANGED <<stored, doing>> /\ running' = FALSE
           \/ /\ stored' = stored \union {Ident[d]}
              /\ UNCHANGED running
              /\ doing' = IF Status[d] = "Actual" THEN d ELSE None
  BY <1>1 DEF ProcessMatches, Handle
<1>5. /\ doing' \in Doc \union {None}
      /\ stored' \subseteq {Ident[d] : d \in Doc}
      /\ running' \in BOOLEAN
      /\ stored \subseteq stored'
  BY <1>4 DEF IInv, TypeOK
<1>6. past = 0
  BY DEF IInv, LoopRemembered
<1>7. LoopRemembered'
  <2>1. past' = 0
    BY <1>6
  <2>2. ASSUME doing' # None
        PROVE  Ident[doing'] \in stored' /\ Len(Infos[doing']) \in Nat
    <3>1. PICK d \in Doc : stored' = stored \union {Ident[d]} /\ doing' = d
      BY <1>4, <2>2
    <3> QED
      BY <3>1, IntakeConstants
  <2> QED
    BY <2>1, <2>2 DEF LoopRemembered
<1>8. TypeOK'
  BY <1>2, <1>3, <1>5 DEF IInv, TypeOK
<1>9. NoneTurnedAway'
  <2> SUFFICES ASSUME NEW d \in Doc, NEW k \in DOMAIN Infos[d],
                      Status[d] = "Actual", Ident[d] \in stored',
                      \A j \in 1 .. k : Covered(Infos[d][j])
               PROVE  \/ Seen(Item(d, k))
                      \/ \E j \in 1 .. k - 1 : Repeats(d, j)
                      \/ /\ doing' = d /\ past' < k
                         /\ \A j \in past' + 1 .. k : Item(d, j) \notin Range(history)
    BY DEF NoneTurnedAway, Covered, Seen, Repeats
  <2>1. CASE Ident[d] \in stored
    BY <2>1, IntakeConstants DEF IInv, NoneTurnedAway
  <2>2. CASE Ident[d] \notin stored
    <3>1. doing' = d
      BY <1>4, <2>2, IntakeConstants
    <3>2. past' < k
      BY <1>6, IntakeConstants
    <3>3. ASSUME NEW j, Item(d, j) \in Range(history)
          PROVE  FALSE
      BY <2>2, <3>3 DEF IInv, TakenStored, Range, Item
    <3> QED
      BY <3>1, <3>2, <3>3
  <2> QED
    BY <2>1, <2>2
<1> QED
  BY <1>5, <1>7, <1>8, <1>9, HistoryKept

\* A call of append that ends the process changes nothing else.
LEMMA ThrownKeeps ==
  ASSUME IInv, UNCHANGED <<setup, history, past, handed>>,
         sending' \in [Host -> Doc \union {None}], NEW b, Thrown(b)
  PROVE  IInv'
<1>1. UNCHANGED <<buffer, matches, stored, doing>> /\ running' = FALSE
  BY DEF Thrown
<1>2. TypeOK' /\ LoopRemembered'
  BY <1>1 DEF IInv, TypeOK, LoopRemembered, Seen
<1>3. NoneTurnedAway'
  BY <1>1 DEF IInv, NoneTurnedAway, Covered, Seen, Repeats
<1> QED
  BY <1>1, <1>2, <1>3, HistoryKept

LEMMA TakenKeeps ==
  ASSUME IInv, InfoTaken
  PROVE  IInv'
<1> DEFINE k == past + 1
           item == Item(doing, k)
<1>1. /\ doing \in Doc /\ past \in Nat
      /\ Len(Infos[doing]) \in Nat
      /\ DOMAIN Infos[doing] = 1 .. Len(Infos[doing])
      /\ k \in DOMAIN Infos[doing]
  BY IntakeConstants DEF IInv, TypeOK, InfoTaken
<1>2. /\ history \in Seq(Remembered)
      /\ item \in Remembered
      /\ history' = Append(history, item)
  BY <1>1, ItemRemembered DEF IInv, TypeOK, InfoTaken
<1>3. /\ history' \in Seq(Remembered)
      /\ Range(history') = Range(history) \union {item}
      /\ \A x : Within(x, history) => Within(x, history')
      /\ Within(item, history')
  BY <1>2, Extended
<1>4. \A x \in Range(history) : ~Same(item, x)
  BY <1>2 DEF InfoTaken, Seen, Range
<1>5. TypeOK'
  <2>1. running' \in BOOLEAN
    BY DEF IInv, TypeOK, InfoTaken
  <2>2. past' \in Nat /\ UNCHANGED <<setup, sending, buffer, matches, stored, doing>>
    BY <1>1 DEF InfoTaken
  <2> QED
    BY <1>3, <2>1, <2>2 DEF IInv, TypeOK
<1>6. LoopRemembered'
  <2>1. doing' = doing /\ past' = k
    BY DEF InfoTaken
  <2>2. past' \in 0 .. Len(Infos[doing'])
    BY <1>1, <2>1
  <2>3. ASSUME NEW j \in 1 .. k
        PROVE  Within(Item(doing, j), history')
    <3>1. CASE j = k
      BY <1>3, <3>1
    <3>2. CASE j \in 1 .. past
      BY <1>1, <1>3, <3>2 DEF IInv, LoopRemembered, Seen, Within
    <3> QED
      BY <1>1, <3>1, <3>2
  <2>4. doing' # None /\ Ident[doing'] \in stored'
    BY <1>1, IntakeConstants DEF InfoTaken, IInv, LoopRemembered
  <2>5. \A j \in 1 .. past' : Within(Item(doing', j), history')
    BY <2>1, <2>3 DEF Item
  <2> QED
    BY <2>2, <2>4, <2>5 DEF LoopRemembered, Seen, Within, Item
<1>7. TakenDiffer'
  <2> SUFFICES ASSUME NEW i \in DOMAIN history', NEW j \in DOMAIN history', i # j
               PROVE  ~Same(history'[i], history'[j])
    BY DEF TakenDiffer
  <2>1. /\ Len(history) \in Nat
        /\ DOMAIN history = 1 .. Len(history)
        /\ DOMAIN history' = 1 .. Len(history) + 1
        /\ \A n \in DOMAIN history : history'[n] = history[n] /\ history[n] \in Remembered
        /\ history'[Len(history) + 1] = item
    BY <1>2, AppendProperties, LenProperties, ElementOfSeq
  <2>2. ASSUME NEW n \in DOMAIN history
        PROVE  ~Same(item, history[n]) /\ ~Same(history[n], item)
    <3>1. history[n] \in Range(history) /\ history[n] \in Remembered
      BY <2>1 DEF Range
    <3>2. ~Same(item, history[n])
      BY <1>4, <3>1
    <3> QED
      BY <1>2, <3>1, <3>2, SameSymmetric
  <2>3. CASE i \in DOMAIN history /\ j \in DOMAIN history
    <3>1. ~Same(history[i], history[j])
      BY <2>3 DEF IInv, TakenDiffer
    <3> QED
      BY <2>1, <2>3, <3>1
  <2>4. CASE i = Len(history) + 1 /\ j \in DOMAIN history
    BY <2>1, <2>2, <2>4
  <2>5. CASE j = Len(history) + 1 /\ i \in DOMAIN history
    BY <2>1, <2>2, <2>5
  <2>6. \/ i \in DOMAIN history /\ j \in DOMAIN history
        \/ i = Len(history) + 1 /\ j \in DOMAIN history
        \/ j = Len(history) + 1 /\ i \in DOMAIN history
    BY <2>1
  <2> QED
    BY <2>3, <2>4, <2>5, <2>6
<1>8. handed' \subseteq handed \union Jobs(doing, k)
  BY DEF InfoTaken
<1>9. /\ \A j \in Jobs(doing, k) : /\ j.item = item
                                   /\ j.file[2][1] = item.sent
                                   /\ j.file[2][2] = item.language
      /\ \A i, j \in Jobs(doing, k) : i.file = j.file => i = j
  BY <1>1, JobsOfInfo DEF Item
<1>10. JobsRemembered'
  BY <1>3, <1>8, <1>9 DEF IInv, JobsRemembered
<1>11. ASSUME NEW i \in handed, NEW j \in Jobs(doing, k), i.file = j.file
       PROVE  i.item.sent = j.item.sent /\ i.item.event # j.item.event
  <2>1. /\ i.item \in Range(history)
        /\ i.item.sent = item.sent
        /\ i.item.language = item.language
    BY <1>9, <1>11 DEF IInv, JobsRemembered
  <2>2. ~Same(item, i.item)
    BY <1>4, <2>1
  <2>3. item.sent \in Int
    BY <1>2, RememberedSent
  <2>4. item.sent - i.item.sent \in -900 .. 900
    BY <2>1, <2>3
  <2> QED
    BY <1>9, <2>1, <2>2, <2>4 DEF Same
<1>12. FilesDiffer'
  BY <1>8, <1>9, <1>11 DEF IInv, FilesDiffer
<1>13. /\ Len(history) \in Nat
       /\ DOMAIN history = 1 .. Len(history)
       /\ DOMAIN history' = 1 .. Len(history) + 1
       /\ \A n \in DOMAIN history : history'[n] = history[n]
       /\ history'[Len(history) + 1] = item
  BY <1>2, AppendProperties, LenProperties
<1>14. TakenInOrder'
  <2> SUFFICES ASSUME NEW i \in DOMAIN history'
               PROVE  \E d \in Doc : \E l \in DOMAIN Infos[d] :
                        /\ history'[i] = Item(d, l)
                        /\ \A j \in 1 .. l - 1 : \E x \in 1 .. i - 1 : Same(Item(d, j), history'[x])
    BY DEF TakenInOrder
  <2>1. CASE i \in DOMAIN history
    <3>1. PICK d \in Doc : \E l \in DOMAIN Infos[d] :
            /\ history[i] = Item(d, l)
            /\ \A j \in 1 .. l - 1 : \E x \in 1 .. i - 1 : Same(Item(d, j), history[x])
      BY <2>1 DEF IInv, TakenInOrder
    <3>2. \A x \in 1 .. i - 1 : x \in DOMAIN history
      BY <1>13, <2>1
    <3> QED
      BY <1>13, <2>1, <3>1, <3>2
  <2>2. CASE i = Len(history) + 1
    <3>1. ASSUME NEW j \in 1 .. k - 1
          PROVE  \E x \in 1 .. i - 1 : Same(Item(doing, j), history'[x])
      <4>1. j \in 1 .. past
        BY <1>1
      <4>2. PICK x \in DOMAIN history : Same(Item(doing, j), history[x])
        BY <1>1, <4>1, IntakeConstants DEF IInv, LoopRemembered, Seen
      <4>3. x \in 1 .. i - 1
        BY <1>13, <2>2
      <4> QED
        BY <1>13, <4>2, <4>3
    <3> QED
      BY <1>1, <1>13, <2>2, <3>1
  <2> QED
    BY <1>13, <2>1, <2>2
<1>15. TakenStored'
  <2>1. item.id \in stored
    BY <1>1, IntakeConstants DEF IInv, LoopRemembered, Item
  <2>2. stored' = stored
    BY DEF InfoTaken
  <2> QED
    BY <1>13, <2>1, <2>2 DEF IInv, TakenStored
<1>16. HandedNear'
  <2>1. setup' = setup /\ Covered(Infos[doing][k])
    BY DEF InfoTaken
  <2> QED
    BY <1>1, <1>8, <2>1 DEF IInv, HandedNear, Covered
<1>17. NoneTurnedAway'
  <2>1. UNCHANGED <<setup, stored, doing>> /\ past' = k
    BY DEF InfoTaken
  <2> SUFFICES ASSUME NEW d \in Doc, NEW l \in DOMAIN Infos[d],
                      Status[d] = "Actual", Ident[d] \in stored,
                      \A j \in 1 .. l : Covered(Infos[d][j])
               PROVE  \/ Within(Item(d, l), history')
                      \/ \E j \in 1 .. l - 1 : RepeatsIn(d, j, history')
                      \/ /\ doing = d /\ k < l
                         /\ \A j \in k + 1 .. l : Item(d, j) \notin Range(history')
    BY <2>1 DEF NoneTurnedAway, Covered, Seen, Within, Repeats, RepeatsIn
  <2>2. /\ l \in Nat
        /\ \/ Within(Item(d, l), history)
           \/ \E j \in 1 .. l - 1 : RepeatsIn(d, j, history)
           \/ /\ doing = d /\ past < l
              /\ \A j \in past + 1 .. l : Item(d, j) \notin Range(history)
    BY IntakeConstants DEF IInv, NoneTurnedAway, Seen, Within, Repeats, RepeatsIn
  <2>3. CASE Within(Item(d, l), history)
    BY <1>3, <2>3
  <2>4. CASE \E j \in 1 .. l - 1 : RepeatsIn(d, j, history)
    BY <1>13, <2>4 DEF RepeatsIn
  <2>5. CASE /\ doing = d /\ past < l
             /\ \A j \in past + 1 .. l : Item(d, j) \notin Range(history)
    <3>1. CASE l = k
      BY <1>3, <2>5, <3>1
    <3>2. CASE \E j \in k + 1 .. l : Item(d, j) = item
      <4>1. PICK j \in k + 1 .. l : Item(d, j) = item
        BY <3>2
      <4>2. CASE j = l
        BY <1>3, <4>1, <4>2
      <4>3. CASE j # l
        <5>1. k \in 1 .. j - 1 /\ j \in 1 .. l - 1
          BY <1>1, <2>2, <4>3
        <5>2. Same(Item(d, j), Item(d, k))
          BY <2>5, <4>1 DEF Same
        <5> QED
          BY <5>1, <5>2 DEF RepeatsIn
      <4> QED
        BY <4>2, <4>3
    <3>3. CASE l # k /\ \A j \in k + 1 .. l : Item(d, j) # item
      <4>1. k < l
        BY <1>1, <2>2, <2>5, <3>3
      <4>2. \A j \in k + 1 .. l : j \in past + 1 .. l
        BY <1>1
      <4>3. \A j \in k + 1 .. l : Item(d, j) \notin Range(history')
        BY <1>3, <2>5, <3>3, <4>2
      <4> QED
        BY <2>5, <4>1, <4>3
    <3> QED
      BY <3>1, <3>2, <3>3
  <2> QED
    BY <2>2, <2>3, <2>4, <2>5
<1> QED
  BY <1>5, <1>6, <1>7, <1>10, <1>12, <1>14, <1>15, <1>16, <1>17 DEF IInv

\* When the loop ends early, it ends at an info that is not near or repeats another
\* one: the item it found the same is not of the same document, or is of an info
\* before.  Were it of one further on, something else the same would be remembered
\* before that one, since infos are taken in order.
LEMMA StopKeeps ==
  ASSUME IInv, InfoStops
  PROVE  NoneTurnedAway'
<1>1. UNCHANGED <<setup, history, stored>>
  BY DEF InfoStops
<1> SUFFICES ASSUME NEW d \in Doc, NEW l \in DOMAIN Infos[d],
                    Status[d] = "Actual", Ident[d] \in stored,
                    \A j \in 1 .. l : Covered(Infos[d][j])
             PROVE  \/ Seen(Item(d, l))
                    \/ \E j \in 1 .. l - 1 : Repeats(d, j)
  BY <1>1 DEF NoneTurnedAway, Covered, Seen, Repeats
<1>2. /\ l \in Nat /\ past \in Nat
      /\ Len(Infos[d]) \in Nat /\ DOMAIN Infos[d] = 1 .. Len(Infos[d])
  BY IntakeConstants DEF IInv, TypeOK
<1> SUFFICES ASSUME doing = d, past < l,
                    \A j \in past + 1 .. l : Item(d, j) \notin Range(history)
             PROVE  \/ Seen(Item(d, l))
                    \/ \E j \in 1 .. l - 1 : Repeats(d, j)
  BY DEF IInv, NoneTurnedAway
<1> DEFINE k == past + 1
<1>3. k \in 1 .. l /\ k \in DOMAIN Infos[d] /\ Covered(Infos[d][k])
  BY <1>2
<1>4. Seen(Item(d, k))
  BY <1>2, <1>3 DEF InfoStops
<1>5. CASE k = l
  BY <1>4, <1>5
<1>6. CASE k # l
  <2> SUFFICES Repeats(d, k)
    BY <1>2, <1>6
  <2>1. PICK i \in DOMAIN history : Same(Item(d, k), history[i])
    BY <1>4 DEF Seen
  <2>2. CASE history[i].id # Ident[d]
    BY <2>1, <2>2 DEF Repeats
  <2>3. CASE history[i].id = Ident[d]
    <3>1. PICK e \in Doc : \E m \in DOMAIN Infos[e] :
            /\ history[i] = Item(e, m)
            /\ \A j \in 1 .. m - 1 : \E x \in 1 .. i - 1 : Same(Item(e, j), history[x])
      BY DEF IInv, TakenInOrder
    <3>2. e = d
      BY <2>3, <3>1, IntakeConstants DEF Item
    <3>3. PICK m \in DOMAIN Infos[d] :
            /\ history[i] = Item(d, m)
            /\ \A j \in 1 .. m - 1 : \E x \in 1 .. i - 1 : Same(Item(d, j), history[x])
      BY <3>1, <3>2
    <3>4. CASE m \in 1 .. k - 1
      BY <2>1, <3>3, <3>4 DEF Repeats
    <3>5. CASE m \in k .. l
      BY <3>3, <3>5 DEF Range
    <3>6. CASE m > l
      <4>1. k \in 1 .. m - 1
        BY <1>2, <1>3, <3>6
      <4>2. PICK x \in 1 .. i - 1 : Same(Item(d, k), history[x])
        BY <3>3, <4>1
      <4>3. x \in DOMAIN history /\ x # i
        BY LenProperties DEF IInv, TypeOK
      <4>4. history[x].id # Ident[d]
        <5>1. ~Same(history[x], history[i])
          BY <4>3 DEF IInv, TakenDiffer
        <5> QED
          BY <2>1, <2>3, <4>2, <5>1 DEF Same
      <4> QED
        BY <4>2, <4>3, <4>4 DEF Repeats
    <3> QED
      BY <1>2, <3>4, <3>5, <3>6
  <2> QED
    BY <2>2, <2>3
<1> QED
  BY <1>5, <1>6

LEMMA InvStep == IInv /\ [Next]_vars => IInv'
<1> SUFFICES ASSUME IInv, [Next]_vars PROVE IInv'
  OBVIOUS
<1> USE IntakeConstants
<1>1. ASSUME NEW h \in Host, AppendMiddle(h) PROVE IInv'
  <2>1. UNCHANGED <<setup, history, past, handed>> /\ sending' \in [Host -> Doc \union {None}]
    BY <1>1 DEF AppendMiddle, Receive, IInv, TypeOK
  <2>2. <<>> \in Seq(Piece)
    BY EmptySeq
  <2>3. /\ doing = None /\ running
        /\ FindAndProcess(h, buffer[h] \o <<>>) \/ Thrown(buffer[h] \o <<>>)
    BY <1>1 DEF AppendMiddle, Receive
  <2> QED
    BY <2>1, <2>2, <2>3, AppendKeeps, ThrownKeeps
<1>2. ASSUME NEW h \in Host,
             NEW short \in (Short \intersect setup.sent) \union {None},
             NEW next \in setup.sent \union {None}, AppendEnds(h, short, next)
      PROVE  IInv'
  <2>1. next \in Doc \union {None}
    BY DEF IInv, TypeOK
  <2>2. UNCHANGED <<setup, history, past, handed>> /\ sending' \in [Host -> Doc \union {None}]
    BY <1>2, <2>1 DEF AppendEnds, Receive, IInv, TypeOK
  <2> DEFINE pieces == Chunk(sending[h], short, next)
  <2>3. /\ doing = None /\ running
        /\ FindAndProcess(h, buffer[h] \o pieces) \/ Thrown(buffer[h] \o pieces)
    BY <1>2 DEF AppendEnds, Chunk, Receive
  <2>4. Chunk(sending[h], short, next) \in Seq(Piece)
    <3>1. sending[h] \in Doc \union {None} /\ short \in Doc \union {None}
      BY DEF IInv, TypeOK
    <3> QED
      BY <2>1, <3>1, ChunkShape
  <2> QED
    BY <2>2, <2>3, <2>4, AppendKeeps, ThrownKeeps
<1>3. ASSUME NEW h \in Host, Cut(h) PROVE IInv'
  <2>1. UNCHANGED <<setup, history, handed, stored, doing, past>>
    BY <1>3 DEF Cut
  <2>2. TypeOK' /\ LoopRemembered'
    BY <1>3 DEF Cut, IInv, TypeOK, LoopRemembered, Seen
  <2>3. NoneTurnedAway'
    BY <2>1 DEF IInv, NoneTurnedAway, Covered, Seen, Repeats
  <2> QED
    BY <2>1, <2>2, <2>3, HistoryKept
<1>4. CASE InfoTaken
  BY <1>4, TakenKeeps
<1>5. CASE InfoStops
  <2>1. UNCHANGED <<setup, history, handed, stored>>
    BY <1>5 DEF InfoStops
  <2>2. TypeOK' /\ LoopRemembered'
    BY <1>5 DEF InfoStops, IInv, TypeOK, LoopRemembered
  <2> QED
    BY <1>5, <2>1, <2>2, HistoryKept, StopKeeps
<1>6. CASE UNCHANGED vars
  <2>1. UNCHANGED <<setup, history, handed, stored, doing, past>>
    BY <1>6 DEF vars
  <2>2. TypeOK' /\ LoopRemembered'
    BY <1>6 DEF vars, IInv, TypeOK, LoopRemembered, Seen
  <2>3. NoneTurnedAway'
    BY <2>1 DEF IInv, NoneTurnedAway, Covered, Seen, Repeats
  <2> QED
    BY <2>1, <2>2, <2>3, HistoryKept
<1> QED
  BY <1>1, <1>2, <1>3, <1>4, <1>5, <1>6 DEF Next, AppendChunk

\* Whatever documents the servers send, repeat and cut off, and in whatever chunks,
\* the inductive invariant holds always.
THEOREM InvariantHolds == Spec => []IInv
<1> QED
  BY InvInit, InvStep, PTL DEF Spec

\* No alert is taken twice: no two infos that were taken are basically the same
\* (xmlhandler.hpp:80-89).
THEOREM NothingTwice == Spec => []TakenDiffer
<1>1. IInv => TakenDiffer
  BY DEF IInv
<1> QED
  BY <1>1, InvariantHolds, PTL

\* Two jobs get one file only when they are different events of one second, although
\* the identifier is left out of the names (xmlhandler.cpp:152-153).
THEOREM NamesApart == Spec => []FilesDiffer
<1>1. IInv => FilesDiffer
  BY DEF IInv
<1> QED
  BY <1>1, InvariantHolds, PTL

-----------------------------------------------------------------------------
(* What a call of append does to the buffers and the queue *)

\* The calls of append are the only steps that touch a buffer or the queue.
LEMMA AppendOrNothing ==
  ASSUME IInv, [Next]_vars
  PROVE  \/ UNCHANGED <<buffer, matches>>
         \/ \E h \in Host, pieces \in Seq(Piece) :
              /\ FindAndProcess(h, buffer[h] \o pieces)
              /\ \/ pieces = <<>>
                 \/ \E short \in Doc \union {None}, next \in Doc \union {None} :
                      pieces = Chunk(sending[h], short, next)
<1>1. ASSUME NEW h \in Host, AppendMiddle(h)
      PROVE  Receive(h, <<>>) /\ <<>> \in Seq(Piece)
  BY <1>1, EmptySeq DEF AppendMiddle
<1>2. ASSUME NEW h \in Host,
             NEW short \in (Short \intersect setup.sent) \union {None},
             NEW next \in setup.sent \union {None}, AppendEnds(h, short, next)
      PROVE  /\ Receive(h, Chunk(sending[h], short, next))
             /\ Chunk(sending[h], short, next) \in Seq(Piece)
             /\ short \in Doc \union {None} /\ next \in Doc \union {None}
  <2>1. /\ sending[h] \in Doc \union {None}
        /\ short \in Doc \union {None} /\ next \in Doc \union {None}
    BY IntakeConstants DEF IInv, TypeOK
  <2>2. Chunk(sending[h], short, next) \in Seq(Piece)
    BY <2>1, ChunkShape
  <2> QED
    BY <1>2, <2>1, <2>2 DEF AppendEnds, Chunk
<1>3. CASE UNCHANGED <<buffer, matches>>
  BY <1>3
<1>4. CASE \E h \in Host : Cut(h)
  BY <1>4 DEF Cut
<1>5. CASE InfoTaken \/ InfoStops \/ UNCHANGED vars
  BY <1>5 DEF InfoTaken, InfoStops, vars
<1>6. CASE \E h \in Host : AppendChunk(h)
  <2>1. PICK h \in Host : AppendChunk(h)
    BY <1>6
  <2>2. CASE AppendMiddle(h)
    <3>1. FindAndProcess(h, buffer[h] \o <<>>) \/ UNCHANGED <<buffer, matches>>
      BY <1>1, <2>2 DEF Receive, Thrown
    <3> QED
      BY <1>1, <2>2, <3>1
  <2>3. CASE \E short \in (Short \intersect setup.sent) \union {None},
                next \in setup.sent \union {None} : AppendEnds(h, short, next)
    <3>1. PICK short \in (Short \intersect setup.sent) \union {None},
               next \in setup.sent \union {None} : AppendEnds(h, short, next)
      BY <2>3
    <3> DEFINE pieces == Chunk(sending[h], short, next)
    <3>2. /\ Receive(h, pieces) /\ pieces \in Seq(Piece)
          /\ short \in Doc \union {None} /\ next \in Doc \union {None}
      BY <1>2, <3>1
    <3>3. FindAndProcess(h, buffer[h] \o pieces) \/ UNCHANGED <<buffer, matches>>
      BY <3>2 DEF Receive, Thrown
    <3> QED
      BY <3>1, <3>2, <3>3
  <2> QED
    BY <2>1, <2>2, <2>3 DEF AppendChunk
<1> QED
  BY <1>4, <1>5, <1>6 DEF Next

\* The step behind QueueMovesOn.
LEMMA QueueStep ==
  ASSUME IInv, [Next]_vars, buffer' # buffer \/ matches' # matches,
         NEW i \in 2 .. Len(matches)
  PROVE  i - 1 \in DOMAIN matches' /\ matches'[i - 1] = matches[i]
<1>1. PICK h \in Host, pieces \in Seq(Piece) : FindAndProcess(h, buffer[h] \o pieces)
  BY AppendOrNothing
<1>2. PICK new, q :
        /\ q = matches \o new
        /\ q \in Seq(Range(q))
        /\ Len(q) = Len(matches) + Len(new)
        /\ Len(new) \in Nat
        /\ \A n \in 1 .. Len(q) :
             q[n] = IF n <= Len(matches) THEN matches[n] ELSE new[n - Len(matches)]
        /\ ProcessMatches(q)
  BY <1>1, Received DEF IInv
<1>3. Len(matches) \in Nat
  BY LenProperties DEF IInv, TypeOK
<1>4. i \in 1 .. Len(q) /\ q[i] = matches[i]
  BY <1>2, <1>3
<1>5. q # <<>>
  BY <1>4, EmptySeq
<1>6. matches' = Tail(q)
  BY <1>2, <1>5 DEF ProcessMatches
<1>7. /\ Tail(q) \in Seq(Range(q))
      /\ Len(Tail(q)) = Len(q) - 1
      /\ \A n \in 1 .. Len(Tail(q)) : Tail(q)[n] = q[n + 1]
  BY <1>2, <1>5, HeadTailProperties
<1>8. DOMAIN Tail(q) = 1 .. Len(Tail(q))
  BY <1>7, LenProperties
<1> QED
  BY <1>3, <1>4, <1>6, <1>7, <1>8

\* Every call of append takes each queued document one place forward, whatever it
\* adds (xmlhandler.cpp:31-33).
THEOREM QueuedMoveOn == Spec => QueueMovesOn
<1>1. IInv /\ [Next]_vars =>
        [ buffer' # buffer \/ matches' # matches =>
            \A i \in 2 .. Len(matches) :
              i - 1 \in DOMAIN matches' /\ matches'[i - 1] = matches[i] ]_vars
  BY QueueStep
<1> QED
  BY <1>1, InvariantHolds, PTL DEF Spec, QueueMovesOn

\* Behind the next end only the document being sent is left: what remains of a
\* buffer is the end of it, and the end of it is a chunk that ends a document.
LEMMA CutStep ==
  ASSUME IInv, [Next]_vars, NEW h \in Host,
         sending[h] # None, Ends(buffer[h]) = {}, buffer'[h] # buffer[h]
  PROVE  OpenBeginnings(buffer'[h]) <= 1
<1> DEFINE old == buffer[h]
<1>1. PICK g \in Host, pieces \in Seq(Piece) :
        /\ FindAndProcess(g, buffer[g] \o pieces)
        /\ \/ pieces = <<>>
           \/ \E short \in Doc \union {None}, next \in Doc \union {None} :
                pieces = Chunk(sending[g], short, next)
  BY AppendOrNothing
<1>2. old \in Seq(Piece) /\ sending[h] \in Doc /\ TypeOK
  BY DEF IInv, TypeOK
<1>3. PICK outcome \in Outcomes(buffer[g] \o pieces) :
        buffer' = [buffer EXCEPT ![g] = Found(buffer[g] \o pieces, outcome).rest]
  BY <1>1, <1>2, Received
<1>4. g = h
  BY <1>2, <1>3 DEF TypeOK
<1> DEFINE b == old \o pieces
<1>5. b \in Seq(Piece) /\ outcome \in Outcomes(b) /\ buffer'[h] = Found(b, outcome).rest
  BY <1>1, <1>2, <1>3, <1>4, ConcatProperties DEF TypeOK
<1> HIDE DEF old
<1>6. PICK n \in Nat : /\ Found(b, outcome).rest = After(b, n)
                       /\ n > 0 => EndNo(b, n) \in Ends(b)
                       /\ Ends(b) = {} => n = 0
  <2> HIDE DEF b
  <2> QED
    BY <1>5, FoundShape
<1>7. pieces # <<>>
  <2> SUFFICES ASSUME pieces = <<>> PROVE FALSE
    OBVIOUS
  <2>1. b = old
    BY <1>2, ConcatEmptySeq
  <2>2. Found(b, outcome).rest = b
    BY <1>5, <1>6, <2>1, RestIsSuffix DEF old
  <2> QED
    BY <1>5, <2>1, <2>2 DEF old
<1>8. PICK p \in 1 .. Len(pieces) : pieces[p].part = "end" /\ Len(pieces) - p <= 1
  <2>1. PICK short \in Doc \union {None}, next \in Doc \union {None} :
          pieces = Chunk(sending[h], short, next)
    BY <1>1, <1>4, <1>7
  <2>2. \E p \in 1 .. Len(Chunk(sending[h], short, next)) :
          /\ Chunk(sending[h], short, next)[p].part = "end"
          /\ Len(Chunk(sending[h], short, next)) - p <= 1
    BY <1>2, ChunkShape
  <2> QED
    BY <2>1, <2>2
<1>9. /\ Len(old) \in Nat /\ Len(pieces) \in Nat
      /\ Len(b) = Len(old) + Len(pieces)
      /\ b[Len(old) + p] = pieces[p]
  BY <1>2, <1>8, ConcatProperties, LenProperties
<1> HIDE DEF b
<1>10. PICK e \in 0 .. Len(b) :
         /\ After(b, n) \in Seq(Piece)
         /\ Len(After(b, n)) = Len(b) - e
         /\ \A i \in 1 .. Len(b) - e : After(b, n)[i] = b[e + i]
  BY <1>5, <1>6, RestIsSuffix
<1> DEFINE rest == After(b, n)
           open == {i \in DOMAIN rest : \A j \in i .. Len(rest) : rest[j].part = "begin"}
<1> HIDE DEF rest
<1>11. DOMAIN rest = 1 .. Len(rest) /\ Len(rest) = Len(b) - e
  BY <1>10, LenProperties DEF rest
<1>12. ASSUME NEW i \in open
       PROVE  i = Len(rest)
  <2> SUFFICES ASSUME i < Len(rest) PROVE FALSE
    <3>1. i \in 1 .. Len(rest) /\ Len(rest) \in Int
      BY <1>9, <1>11
    <3> QED
      BY <3>1
  <2> DEFINE j == Len(old) + p - e
  <2>1. j \in i .. Len(rest) /\ j \in 1 .. Len(b) - e /\ e + j = Len(old) + p
    BY <1>8, <1>9, <1>11
  <2>2. rest[j].part = "end"
    BY <1>8, <1>9, <1>10, <2>1 DEF rest
  <2> QED
    BY <2>1, <2>2
<1>13. open \subseteq {Len(rest)}
  BY <1>12
<1>14. Cardinality(open) <= 1
  <2> HIDE DEF open
  <2>1. IsFiniteSet({Len(rest)}) /\ Cardinality({Len(rest)}) = 1
    BY FS_Singleton
  <2>2. Cardinality(open) <= Cardinality({Len(rest)})
    BY <1>13, <2>1, FS_Subset
  <2> QED
    BY <2>1, <2>2
<1>15. OpenBeginnings(buffer'[h]) = Cardinality(open)
  BY <1>5, <1>6 DEF OpenBeginnings, rest
<1> QED
  BY <1>14, <1>15

\* What a lost connection leaves behind swallows one document and goes with it.
THEOREM OneLost == Spec => CutLosesOne
<1>1. IInv /\ [Next]_vars =>
        [ \A h \in Host :
            sending[h] # None /\ Ends(buffer[h]) = {} /\ buffer'[h] # buffer[h] =>
              OpenBeginnings(buffer'[h]) <= 1 ]_vars
  BY CutStep
<1> QED
  BY <1>1, InvariantHolds, PTL DEF Spec, CutLosesOne

\* A document that ends in a buffer with nothing else in it is the first that is found.
LEMMA FirstIsWhole ==
  ASSUME NEW d \in Doc, NEW pieces \in Seq(Piece), Len(pieces) > 0, pieces[1] = End(d)
  PROVE  LET b == <<Begin(d)>> \o pieces IN Ends(b) # {} /\ Match(b, 1) = Whole(d)
<1> DEFINE b == <<Begin(d)>> \o pieces
<1>1. Begin(d) \in Piece /\ End(d) \in Piece
  BY DEF Piece
<1>2. /\ b \in Seq(Piece)
      /\ Len(b) = 1 + Len(pieces)
      /\ Len(pieces) \in Nat
      /\ \A i \in 1 .. 1 + Len(pieces) : b[i] = IF i <= 1 THEN Begin(d) ELSE pieces[i - 1]
  <2>1. <<Begin(d)>> \in Seq(Piece) /\ Len(<<Begin(d)>>) = 1 /\ <<Begin(d)>>[1] = Begin(d)
    BY <1>1
  <2> QED
    BY <2>1, ConcatProperties, LenProperties
<1> HIDE DEF b
<1>3. b[1] = Begin(d) /\ b[2] = End(d) /\ DOMAIN b = 1 .. Len(b) /\ 2 \in 1 .. Len(b)
  BY <1>2, LenProperties
<1>4. 2 \in Ends(b) /\ 1 \notin Ends(b)
  BY <1>3 DEF Ends, Begin, End
<1>5. /\ IsFiniteSet(Ends(b)) /\ Ends(b) \subseteq 1 .. Len(b)
      /\ \A i : IsFiniteSet(EndsUpTo(b, i)) /\ Cardinality(EndsUpTo(b, i)) \in Nat
      /\ Cardinality(Ends(b)) \in Nat /\ Cardinality(Ends(b)) # 0
  BY <1>2, <1>4, EndsFinite, FS_EmptySet
<1>6. /\ EndNo(b, 1) \in Ends(b)
      /\ Cardinality(EndsUpTo(b, EndNo(b, 1))) = 1
  BY <1>2, <1>5, EndExists
<1>7. EndNo(b, 1) >= 2
  BY <1>3, <1>4, <1>5, <1>6
<1>8. 2 \in EndsUpTo(b, EndNo(b, 1)) /\ EndNo(b, 1) \in EndsUpTo(b, EndNo(b, 1))
  BY <1>3, <1>4, <1>5, <1>6, <1>7 DEF EndsUpTo
<1>9. EndNo(b, 1) = 2
  BY <1>5, <1>6, <1>8, FS_Singleton
<1>10. Match(b, 1) = SubSeq(b, 1, 2)
  <2>1. EndNo(b, 1 - 1) + 1 = 1
    BY DEF EndNo
  <2> QED
    BY <1>9, <2>1, Zenon DEF Match
<1>11. SubSeq(b, 1, 2) = Whole(d)
  <2>1. \A i \in 1 .. 2 : b[i] \in Piece
    BY <1>1, <1>3
  <2>2. /\ SubSeq(b, 1, 2) \in Seq(Piece)
        /\ Len(SubSeq(b, 1, 2)) = 2
        /\ \A i \in 1 .. 2 : SubSeq(b, 1, 2)[i] = b[i]
    BY <2>1, SubSeqProperties
  <2>3. Whole(d) \in Seq(Piece) /\ Len(Whole(d)) = 2
    BY <1>1 DEF Whole
  <2>4. \A i \in 1 .. 2 : SubSeq(b, 1, 2)[i] = Whole(d)[i]
    BY <1>3, <2>2 DEF Whole
  <2> QED
    BY <2>2, <2>3, <2>4, SeqEqual
<1> QED
  BY <1>4, <1>10, <1>11 DEF b

\* The step behind CleanDocumentTaken.
LEMMA CleanStep ==
  ASSUME IInv, [Next]_vars, NEW h \in Host, NEW d \in Doc,
         buffer[h] = <<Begin(d)>>, sending[h] = d, buffer'[h] # buffer[h]
  PROVE  \/ Whole(d) \in Range(matches')
         \/ Status[d] \in {"System", "missing"}
         \/ Ident[d] \in stored'
<1>1. PICK g \in Host, pieces \in Seq(Piece) :
        /\ FindAndProcess(g, buffer[g] \o pieces)
        /\ \/ pieces = <<>>
           \/ \E short \in Doc \union {None}, next \in Doc \union {None} :
                pieces = Chunk(sending[g], short, next)
  BY AppendOrNothing
<1>2. TypeOK
  BY DEF IInv
<1>3. PICK outcome, q :
        LET found == Found(buffer[g] \o pieces, outcome)
        IN  /\ outcome \in Outcomes(buffer[g] \o pieces)
            /\ buffer' = [buffer EXCEPT ![g] = found.rest]
            /\ buffer[g] \o pieces \in Seq(Piece)
            /\ q \in Seq(Range(q))
            /\ Len(q) = Len(matches) + Len(found.new)
            /\ Len(found.new) \in Nat
            /\ \A i \in 1 .. Len(q) :
                 q[i] = IF i <= Len(matches) THEN matches[i] ELSE found.new[i - Len(matches)]
            /\ ProcessMatches(q)
  BY <1>1, <1>2, Received
<1>4. g = h
  BY <1>2, <1>3 DEF TypeOK
<1> DEFINE b == <<Begin(d)>> \o pieces
           found == Found(b, outcome)
<1>5. pieces # <<>>
  <2> SUFFICES ASSUME pieces = <<>> PROVE FALSE
    OBVIOUS
  <2>1. b = <<Begin(d)>> /\ b \in Seq(Piece) /\ buffer'[h] = Found(b, outcome).rest
    BY <1>2, <1>3, <1>4, ConcatEmptySeq DEF TypeOK
  <2>2. Ends(b) = {}
    BY <2>1 DEF Ends, Begin
  <2>3. outcome \in Outcomes(b)
    BY <1>3, <1>4
  <2> HIDE DEF b
  <2>4. PICK n \in Nat : /\ Found(b, outcome).rest = After(b, n)
                         /\ n > 0 => EndNo(b, n) \in Ends(b)
                         /\ n = 0
    BY <2>1, <2>2, <2>3, FoundShape
  <2>5. Found(b, outcome).rest = b
    BY <2>1, <2>4, RestIsSuffix
  <2> QED
    BY <2>1, <2>5
<1>6. Len(pieces) > 0 /\ pieces[1] = End(d)
  <2>1. d # None
    BY IntakeConstants
  <2>2. PICK short \in Doc \union {None}, next \in Doc \union {None} :
          pieces = Chunk(d, short, next)
    BY <1>1, <1>4, <1>5
  <2> QED
    BY <2>1, <2>2, ChunkShape
<1>7. Ends(b) # {} /\ Match(b, 1) = Whole(d)
  BY <1>6, FirstIsWhole
<1>8. b \in Seq(Piece) /\ outcome \in Outcomes(b)
  BY <1>3, <1>4
<1>9. Len(found.new) > 0 /\ found.new[1] = Whole(d)
  <2> HIDE DEF b
  <2>1. PICK n \in Nat : /\ found.new \in [1 .. n -> Range(found.new)]
                         /\ n > 0 /\ found.new[1] = Match(b, 1)
    BY <1>7, <1>8, FoundShape
  <2>2. Len(found.new) = n
    BY <2>1
  <2> QED
    BY <1>7, <2>1, <2>2
<1>10. Len(matches) \in Nat
  BY <1>2, LenProperties DEF TypeOK
<1> DEFINE p == Len(matches) + 1
<1>11. p \in 1 .. Len(q) /\ q[p] = Whole(d)
  <2>1. Len(q) = Len(matches) + Len(found.new) /\ Len(found.new) \in Nat
    BY <1>3, <1>4
  <2>2. p \in 1 .. Len(q)
    BY <1>9, <1>10, <2>1
  <2>3. \A i \in 1 .. Len(q) :
          q[i] = IF i <= Len(matches) THEN matches[i] ELSE found.new[i - Len(matches)]
    BY <1>3, <1>4
  <2> HIDE DEF found
  <2>4. q[p] = found.new[p - Len(matches)] /\ p - Len(matches) = 1
    BY <1>10, <2>2, <2>3
  <2> QED
    BY <1>9, <2>2, <2>4
<1>12. q # <<>>
  BY <1>11, EmptySeq
<1>13. matches' = Tail(q) /\ Handle(Head(q))
  BY <1>3, <1>12 DEF ProcessMatches
<1>14. CASE p = 1
  <2>1. Handle(Whole(d))
    BY <1>11, <1>13, <1>14
  <2>2. \A e \in Doc : Whole(d) = Whole(e) => d = e
    BY DEF Whole, Begin
  <2> QED
    BY <2>1, <2>2 DEF Handle
<1>15. CASE p > 1
  <2>1. /\ Tail(q) \in Seq(Range(q))
        /\ Len(Tail(q)) = Len(q) - 1
        /\ \A n \in 1 .. Len(Tail(q)) : Tail(q)[n] = q[n + 1]
    BY <1>3, <1>12, HeadTailProperties
  <2>2. p - 1 \in 1 .. Len(Tail(q)) /\ Tail(q)[p - 1] = Whole(d)
    BY <1>10, <1>11, <1>15, <2>1
  <2>3. DOMAIN Tail(q) = 1 .. Len(Tail(q))
    BY <2>1, LenProperties
  <2> QED
    BY <1>13, <2>2, <2>3 DEF Range
<1> QED
  BY <1>10, <1>14, <1>15

\* A document that ends in a buffer with nothing else in it is processed at once or
\* queued, whatever comes behind it in the chunk, unless that ends the process
\* (xmlhandler.cpp:12-26).
THEOREM CleanTaken == Spec => CleanDocumentTaken
<1>1. IInv /\ [Next]_vars =>
        [ \A h \in Host, d \in Doc :
            buffer[h] = <<Begin(d)>> /\ sending[h] = d /\ buffer'[h] # buffer[h] =>
              \/ Whole(d) \in Range(matches')
              \/ Status[d] \in {"System", "missing"}
              \/ Ident[d] \in stored' ]_vars
  BY CleanStep
<1> QED
  BY <1>1, InvariantHolds, PTL DEF Spec, CleanDocumentTaken
=============================================================================
