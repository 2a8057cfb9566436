------------------------- MODULE SpeechToAirProofs -------------------------
(***************************************************************************)
(* What is completed holds its text, and what is played is heard in order  *)
(* and to its end: for any texts, recordings, voices and systems.          *)
(***************************************************************************)
EXTENDS SpeechToAir, SequenceTheorems, TLAPS

-----------------------------------------------------------------------------
(* Sequences *)

LEMMA Appended ==
  ASSUME NEW S, NEW s \in Seq(S), NEW x \in S
  PROVE  /\ Append(s, x) \in Seq(S) /\ Append(s, x) # <<>> /\ Append(s, x) # s
         /\ Len(Append(s, x)) = Len(s) + 1 /\ Append(s, x)[Len(Append(s, x))] = x
         /\ \A i \in 1 .. Len(s) : Append(s, x)[i] = s[i]
         /\ ToSet(Append(s, x)) = ToSet(s) \union {x}
         /\ IsInjective(s) /\ x \notin ToSet(s) => IsInjective(Append(s, x))
<1> DEFINE a == Append(s, x)
<1>1. /\ a \in Seq(S) /\ a # <<>> /\ Len(a) = Len(s) + 1 /\ Len(s) \in Nat
      /\ DOMAIN a = 1 .. Len(s) + 1 /\ DOMAIN s = 1 .. Len(s)
      /\ \A i \in 1 .. Len(s) : a[i] = s[i]
      /\ a[Len(s) + 1] = x
  BY AppendProperties, LenProperties
<1> HIDE DEF a
<1>2. ToSet(a) = ToSet(s) \union {x}
  <2>1. \A i \in 1 .. Len(s) + 1 : i \in 1 .. Len(s) \/ i = Len(s) + 1
    BY <1>1
  <2>2. \A i \in 1 .. Len(s) : i \in 1 .. Len(s) + 1
    BY <1>1
  <2>3. Len(s) + 1 \in 1 .. Len(s) + 1
    BY <1>1
  <2> QED
    BY <1>1, <2>1, <2>2, <2>3 DEF ToSet
<1>3. ASSUME IsInjective(s), x \notin ToSet(s) PROVE IsInjective(a)
  <2>1. \A i \in 1 .. Len(s) + 1 : i \in 1 .. Len(s) \/ i = Len(s) + 1
    BY <1>1
  <2>2. \A i \in 1 .. Len(s) : s[i] # x
    BY <1>1, <1>3 DEF ToSet
  <2>3. \A i, j \in 1 .. Len(s) : s[i] = s[j] => i = j
    BY <1>1, <1>3 DEF IsInjective
  <2> QED
    BY <1>1, <2>1, <2>2, <2>3 DEF IsInjective
<1>4. a # s /\ a[Len(a)] = x
  BY <1>1
<1> QED
  BY <1>1, <1>2, <1>3, <1>4 DEF a

LEMMA Taken ==
  ASSUME NEW S, NEW s \in Seq(S), s # <<>>
  PROVE  /\ Head(s) \in S /\ Head(s) = s[1] /\ Tail(s) \in Seq(S)
         /\ Len(s) \in Nat /\ Len(s) > 0 /\ Len(Tail(s)) = Len(s) - 1
         /\ \A i \in 1 .. Len(s) - 1 : Tail(s)[i] = s[i + 1]
         /\ ToSet(s) = {Head(s)} \union ToSet(Tail(s))
         /\ IsInjective(s) => IsInjective(Tail(s)) /\ Head(s) \notin ToSet(Tail(s))
<1>1. /\ Len(s) \in Nat \ {0} /\ DOMAIN s = 1 .. Len(s)
      /\ Head(s) \in S /\ Tail(s) \in Seq(S) /\ Len(Tail(s)) = Len(s) - 1
      /\ \A i \in 1 .. Len(Tail(s)) : Tail(s)[i] = s[i + 1]
      /\ DOMAIN Tail(s) = 1 .. Len(Tail(s))
  BY EmptySeq, LenProperties, HeadTailProperties
<1>2. Head(s) = s[1]
  OBVIOUS
<1> DEFINE t == Tail(s)
           h == Head(s)
           n == Len(s) - 1
<1>3. /\ n \in Nat /\ Len(t) = n /\ DOMAIN t = 1 .. n /\ DOMAIN s = 1 .. n + 1
      /\ \A i \in 1 .. n : t[i] = s[i + 1]
      /\ h = s[1]
  BY <1>1, <1>2
<1> HIDE DEF t, h, n
<1>4. /\ \A i \in 1 .. n : i + 1 \in 1 .. n + 1 /\ i + 1 # 1
      /\ \A i \in 1 .. n + 1 : i = 1 \/ (i - 1 \in 1 .. n /\ (i - 1) + 1 = i)
      /\ 1 \in 1 .. n + 1
  BY <1>3
<1>5. ToSet(s) = {h} \union ToSet(t)
  <2>1. \A y \in ToSet(s) : y \in {h} \union ToSet(t)
    <3> SUFFICES ASSUME NEW i \in 1 .. n + 1 PROVE s[i] = h \/ s[i] \in ToSet(t)
      BY <1>3 DEF ToSet
    <3>1. CASE i = 1
      BY <1>3, <3>1
    <3>2. CASE i # 1
      <4>1. i - 1 \in 1 .. n /\ t[i - 1] = s[i]
        BY <1>3, <1>4, <3>2
      <4> QED
        BY <1>3, <4>1 DEF ToSet
    <3> QED
      BY <3>1, <3>2
  <2>2. \A y \in {h} \union ToSet(t) : y \in ToSet(s)
    BY <1>3, <1>4 DEF ToSet
  <2> QED
    BY <2>1, <2>2
<1>6. ASSUME IsInjective(s) PROVE IsInjective(t) /\ h \notin ToSet(t)
  <2>1. \A i, j \in 1 .. n + 1 : s[i] = s[j] => i = j
    BY <1>3, <1>6 DEF IsInjective
  <2>2. \A i, j \in 1 .. n : t[i] = t[j] => i = j
    <3> SUFFICES ASSUME NEW i \in 1 .. n, NEW j \in 1 .. n, t[i] = t[j] PROVE i = j
      OBVIOUS
    <3>1. i + 1 = j + 1
      BY <1>3, <1>4, <2>1
    <3> QED
      BY <1>3, <3>1
  <2>3. \A i \in 1 .. n : t[i] # h
    BY <1>3, <1>4, <2>1
  <2> QED
    BY <1>3, <2>2, <2>3 DEF IsInjective, ToSet
<1> QED
  BY <1>1, <1>2, <1>5, <1>6 DEF t, h

LEMMA Contained ==
  ASSUME NEW S, NEW s \in Seq(S), NEW x
  PROVE  Contains(s, x) <=> x \in ToSet(s)
BY LenProperties DEF Contains, ToSet

LEMMA SubSeqIn ==
  ASSUME NEW S, NEW d \in Seq(S), NEW from \in Nat, NEW to \in Nat, from <= to, to <= Len(d)
  PROVE  SubSeq(d, from + 1, to) \in Seq(S) /\ Len(SubSeq(d, from + 1, to)) = to - from
<1>1. \A i \in from + 1 .. to : d[i] \in S
  <2>1. Len(d) \in Nat /\ \A i \in 1 .. Len(d) : d[i] \in S
    BY LenProperties
  <2> QED
    BY <2>1
<1>2. /\ SubSeq(d, from + 1, to) \in Seq(S)
      /\ Len(SubSeq(d, from + 1, to)) = IF from + 1 <= to THEN to - (from + 1) + 1 ELSE 0
  <2>1. from + 1 \in Int /\ to \in Int
    OBVIOUS
  <2> QED
    BY <1>1, <2>1, SubSeqProperties
<1>3. (IF from + 1 <= to THEN to - (from + 1) + 1 ELSE 0) = to - from
  OBVIOUS
<1> QED
  BY <1>2, <1>3

-----------------------------------------------------------------------------
(* The callback of the synthesiser *)

\* The first n pieces of text t.
Spoken(t, n) == [i \in 1 .. n |-> <<t, i>>]

LEMMA SpokenPieces ==
  ASSUME NEW t \in Text, NEW n \in Nat
  PROVE  /\ Spoken(t, n) \in Seq(Sound) /\ Len(Spoken(t, n)) = n
         /\ Append(Spoken(t, n), <<t, n + 1>>) = Spoken(t, n + 1)
<1>1. \A i \in 1 .. n + 1 : <<t, i>> \in Sound
  BY DEF Sound
<1>2. \A m \in Nat : m <= n + 1 => Spoken(t, m) \in Seq(Sound) /\ Len(Spoken(t, m)) = m
  <2> SUFFICES ASSUME NEW m \in Nat, m <= n + 1
               PROVE  Spoken(t, m) \in Seq(Sound) /\ Len(Spoken(t, m)) = m
    OBVIOUS
  <2>1. \A i \in 1 .. m : <<t, i>> \in Sound
    BY <1>1
  <2>2. Spoken(t, m) \in [1 .. m -> Sound]
    BY <2>1 DEF Spoken
  <2>3. Spoken(t, m) \in Seq(Sound)
    BY <2>2, SeqDef
  <2>4. Len(Spoken(t, m)) = m
    BY <2>2
  <2> QED
    BY <2>3, <2>4
<1> DEFINE s == Spoken(t, n)
           u == Spoken(t, n + 1)
           a == Append(s, <<t, n + 1>>)
<1>3. /\ s \in Seq(Sound) /\ Len(s) = n /\ u \in Seq(Sound) /\ Len(u) = n + 1
      /\ \A i \in 1 .. n : s[i] = <<t, i>>
      /\ \A i \in 1 .. n + 1 : u[i] = <<t, i>>
  BY <1>2 DEF Spoken
<1>4. <<t, n + 1>> \in Sound
  BY <1>1
<1> HIDE DEF s, u
<1>5. /\ a \in Seq(Sound) /\ Len(a) = n + 1 /\ a[n + 1] = <<t, n + 1>>
      /\ \A i \in 1 .. n : a[i] = s[i]
  BY <1>3, <1>4, AppendProperties
<1> HIDE DEF a
<1>6. \A i \in 1 .. n + 1 : a[i] = u[i]
  <2>1. \A i \in 1 .. n + 1 : i \in 1 .. n \/ i = n + 1
    OBVIOUS
  <2> QED
    BY <1>3, <1>5, <2>1
<1>7. a = u
  BY <1>3, <1>5, <1>6, SeqEqual
<1> QED
  BY <1>3, <1>7 DEF s, u, a

\* The callback has made a file of the first n pieces of t.  It has ended it, or leaves it
\* open.
Says(t, n) ==
  LET f == Filename[t]
  IN  /\ utterances # <<>> /\ t = Head(utterances)
      /\ DOMAIN disk' = DOMAIN disk /\ \A g \in File \ {f} : disk'[g] = disk[g]
      /\ disk'[f] = FileOf(disk'[f].head, disk'[f].header, Spoken(t, n))
      /\ \/ /\ utterances' = Tail(utterances)
            /\ delivered' = 0 /\ outfile' = NoFile /\ written' = 0
            /\ completed' = completed \/ completed' = Append(completed, t)
            /\ ~full => n = Buffers(t) /\ disk'[f].header = <<Header(t, n * PieceBytes)>>
         \/ /\ utterances' = utterances /\ completed' = completed
            /\ delivered' = n /\ outfile' = f /\ written' \in Nat
            /\ version > 12
            /\ ~full => written' = n * PieceBytes

\* What reaches the disk is a beginning of what was given to fwrite.
LEMMA ClosedHolds ==
  ASSUME NEW t \in Text, NEW k \in Nat, NEW header, NEW out \in Closed(header, Spoken(t, k))
  PROVE  /\ \E n \in Nat : out = FileOf(out.head, out.header, Spoken(t, n))
         /\ ~full => out = FileOf("format", <<header>>, Spoken(t, k))
<1>1. \A m \in Nat : Spoken(t, m) \in Seq(Sound) /\ Len(Spoken(t, m)) = m
  BY SpokenPieces
<1>2. Spoken(t, 0) = <<>>
  <2>1. 0 \in Nat
    OBVIOUS
  <2> QED
    BY <1>1, <2>1, EmptySeq
<1>3. ASSUME NEW m \in 0 .. k PROVE SubSeq(Spoken(t, k), 1, m) = Spoken(t, m) /\ m \in Nat
  <2> DEFINE s == Spoken(t, k)
             u == SubSeq(s, 1, m)
  <2>1. m \in Nat /\ m <= k /\ s \in Seq(Sound) /\ Len(s) = k /\ 0 \in Nat /\ 0 <= m
    BY <1>1
  <2>2. SubSeq(s, 0 + 1, m) \in Seq(Sound) /\ Len(SubSeq(s, 0 + 1, m)) = m - 0
    <3> HIDE DEF s
    <3> QED
      BY <2>1, SubSeqIn
  <2>3. u \in Seq(Sound) /\ Len(u) = m
    BY <2>1, <2>2
  <2>4. \A i \in 1 .. m : s[i] \in Sound /\ s[i] = <<t, i>>
    <3>1. \A i \in 1 .. m : i \in 1 .. k
      BY <2>1
    <3>2. \A i \in 1 .. k : s[i] \in Sound
      BY <2>1, LenProperties
    <3> QED
      BY <3>1, <3>2 DEF Spoken
  <2>5. \A i \in 1 .. m - 1 + 1 : u[i] = s[1 + i - 1]
    <3> HIDE DEF s
    <3>1. 1 \in Int /\ m \in Int /\ \A i \in 1 .. m : s[i] \in Sound
      BY <2>1, <2>4
    <3> QED
      BY <3>1, SubSeqProperties
  <2>6. \A i \in 1 .. m : u[i] = Spoken(t, m)[i]
    <3>1. m - 1 + 1 = m /\ \A i \in 1 .. m : 1 + i - 1 = i
      BY <2>1
    <3>2. \A i \in 1 .. m : Spoken(t, m)[i] = <<t, i>>
      BY DEF Spoken
    <3> HIDE DEF u, s
    <3> QED
      BY <2>4, <2>5, <3>1, <3>2
  <2> HIDE DEF u
  <2>7. u = Spoken(t, m)
    BY <1>1, <2>1, <2>3, <2>6, SeqEqual
  <2> QED
    BY <2>1, <2>7 DEF u
<1>4. CASE ~full
  BY <1>4 DEF Closed, FileOf
<1>5. CASE full
  <2>1. CASE out = FileOf("dummy", <<>>, <<>>)
    <3>1. 0 \in Nat /\ out = FileOf(out.head, out.header, Spoken(t, 0))
      BY <1>2, <2>1 DEF FileOf
    <3> QED
      BY <1>5, <3>1
  <2>2. ASSUME NEW m \in 0 .. k, out = FileOf("format", <<header>>, SubSeq(Spoken(t, k), 1, m))
        PROVE  \E n \in Nat : out = FileOf(out.head, out.header, Spoken(t, n))
    <3>1. m \in Nat /\ out = FileOf("format", <<header>>, Spoken(t, m))
      BY <1>3, <2>2
    <3>2. out = FileOf(out.head, out.header, Spoken(t, m))
      BY <3>1 DEF FileOf
    <3> QED
      BY <3>1, <3>2
  <2>3. Len(Spoken(t, k)) = k
    BY <1>1
  <2>4. \/ out = FileOf("dummy", <<>>, <<>>)
        \/ \E m \in 0 .. k : out = FileOf("format", <<header>>, SubSeq(Spoken(t, k), 1, m))
    BY <1>5, <2>3 DEF Closed
  <2> QED
    BY <1>5, <2>1, <2>2, <2>4
<1> QED
  BY <1>4, <1>5

LEMMA CallbackSays ==
  ASSUME SpeechTypes, OpenFileTells, AudioBufferCallback
  PROVE  \E t \in Text, n \in Nat : Says(t, n)
<1> DEFINE t == Head(utterances)
           f == Filename[t]
           last == delivered = Buffers(t)
           data == IF last THEN Before(f) ELSE Append(Before(f), <<t, delivered + 1>>)
           before == IF outfile = NoFile THEN 0 ELSE written
           k == IF last THEN delivered ELSE delivered + 1
<1>1. /\ utterances # <<>> /\ t \in Text /\ f \in File /\ f # NoFile /\ PieceBytes \in Nat
      /\ delivered \in Nat /\ version \in Nat /\ written \in Nat
  BY Taken, SpeechConstants, PlaybackConstants DEF AudioBufferCallback, SpeechTypes, File
\* What was there before.
<1>2. /\ Before(f) = Spoken(t, delivered)
      /\ before \in Nat /\ (~full => before = delivered * PieceBytes)
      /\ outfile = NoFile \/ (outfile = f /\ version > 12)
      /\ outfile = NoFile => delivered = 0
  <2>1. CASE outfile = NoFile
    <3>1. delivered = 0
      BY <2>1 DEF OpenFileTells
    <3>2. Spoken(t, 0) = <<>>
      <4>1. Spoken(t, 0) \in Seq(Sound) /\ Len(Spoken(t, 0)) = 0
        BY <1>1, SpokenPieces
      <4> QED
        BY <4>1, EmptySeq
    <3>3. Before(f) = <<>>
      BY <2>1 DEF Before
    <3>4. before = 0 /\ 0 = 0 * PieceBytes
      BY <1>1, <2>1
    <3> QED
      BY <2>1, <3>1, <3>2, <3>3, <3>4
  <2>2. CASE outfile # NoFile
    BY <1>1, <2>2 DEF OpenFileTells, Spoken, Before
  <2> QED
    BY <2>1, <2>2
<1>3. k \in Nat /\ data = Spoken(t, k)
  <2>1. Append(Spoken(t, delivered), <<t, delivered + 1>>) = Spoken(t, delivered + 1)
    BY <1>1, SpokenPieces
  <2> HIDE DEF last, t
  <2>2. CASE last
    BY <1>1, <1>2, <2>2
  <2>3. CASE ~last
    BY <1>1, <1>2, <2>1, <2>3
  <2> QED
    BY <2>2, <2>3
<1>4. /\ Callback(t, last)
      /\ utterances' = (IF last \/ version <= 12 THEN Tail(utterances) ELSE utterances)
      /\ delivered' = (IF last \/ version <= 12 THEN 0 ELSE delivered + 1)
  BY DEF AudioBufferCallback
<1>5. (IF outfile = NoFile THEN Filename[t] ELSE outfile) = f
  BY <1>2
<1>6. PICK returned \in {0, PieceBytes} :
        /\ ~full => returned = IF last THEN 0 ELSE PieceBytes
        /\ \/ /\ EndsFile(last)
              /\ \E out \in Closed(Header(t, before + returned), data) :
                   disk' = [disk EXCEPT ![f] = out]
              /\ written' = 0
              /\ outfile' = NoFile
              /\ \/ completed' = Append(completed, t)
                 \/ full /\ completed' = completed
           \/ /\ ~EndsFile(last)
              /\ disk' = [disk EXCEPT ![f] = FileOf("dummy", <<>>, data)]
              /\ written' = before + returned
              /\ outfile' = f
              /\ UNCHANGED completed
  BY <1>4, <1>5 DEF Callback
<1> DEFINE bytes == before + returned
<1>7. bytes \in Nat /\ (~full => bytes = k * PieceBytes)
  <2>1. bytes \in Nat
    BY <1>1, <1>2, <1>6
  <2>2. ASSUME ~full PROVE bytes = k * PieceBytes
    <3>1. CASE last
      <4>1. returned = 0 /\ before = delivered * PieceBytes /\ k = delivered
        BY <1>2, <1>6, <2>2, <3>1
      <4>2. before + 0 = before
        BY <1>2
      <4> QED
        BY <4>1, <4>2
    <3>2. CASE ~last
      <4>1. returned = PieceBytes /\ before = delivered * PieceBytes /\ k = delivered + 1
        BY <1>2, <1>6, <2>2, <3>2
      <4>2. (delivered + 1) * PieceBytes = delivered * PieceBytes + PieceBytes
        BY <1>1
      <4> QED
        BY <4>1, <4>2
    <3> QED
      BY <3>1, <3>2
  <2> QED
    BY <2>1, <2>2
\* It ends the file.
<1>8. CASE last \/ version <= 12
  <2>1. PICK out \in Closed(Header(t, bytes), data) :
          /\ disk' = [disk EXCEPT ![f] = out]
          /\ written' = 0 /\ outfile' = NoFile
          /\ completed' = completed \/ completed' = Append(completed, t)
    BY <1>6, <1>8 DEF EndsFile
  <2>2. ~full => k = Buffers(t)
    <3>1. CASE last
      BY <3>1
    <3>2. CASE version <= 12 /\ ~last
      <4>1. delivered = 0 /\ Buffers(t) = 1
        BY <1>1, <1>2, <3>2 DEF Buffers
      <4> QED
        BY <3>2, <4>1
    <3> QED
      BY <1>8, <3>1, <3>2
  <2> HIDE DEF f, last, data, bytes, k
  <2>3. f \in DOMAIN disk /\ \A g \in File \ {f} : disk'[g] = disk[g]
    BY <1>1, <2>1 DEF SpeechTypes
  <2>4. disk'[f] = out /\ DOMAIN disk' = DOMAIN disk
    BY <2>1, <2>3
  <2>5. /\ \E m \in Nat : out = FileOf(out.head, out.header, Spoken(t, m))
        /\ ~full => out = FileOf("format", <<Header(t, bytes)>>, Spoken(t, k))
    BY <1>1, <1>3, <2>1, ClosedHolds
  <2>6. PICK n \in Nat : /\ out = FileOf(out.head, out.header, Spoken(t, n))
                         /\ ~full => n = k
    BY <1>3, <2>5 DEF FileOf
  <2>7. ~full => n = Buffers(t) /\ out.header = <<Header(t, n * PieceBytes)>>
    <3> SUFFICES ASSUME ~full PROVE n = Buffers(t) /\ out.header = <<Header(t, n * PieceBytes)>>
      OBVIOUS
    <3>1. n = k /\ k = Buffers(t) /\ bytes = k * PieceBytes
      BY <1>7, <2>2, <2>6
    <3>2. out.header = <<Header(t, bytes)>>
      BY <2>5 DEF FileOf
    <3> QED
      BY <3>1, <3>2
  <2>8. utterances' = Tail(utterances) /\ delivered' = 0
    BY <1>4, <1>8
  <2> QED
    BY <1>1, <2>1, <2>3, <2>4, <2>6, <2>7, <2>8 DEF Says, f
\* It leaves it open.
<1>9. CASE ~(last \/ version <= 12)
  <2>1. /\ disk' = [disk EXCEPT ![f] = FileOf("dummy", <<>>, data)]
        /\ written' = bytes /\ outfile' = f /\ completed' = completed
    BY <1>6, <1>9 DEF EndsFile
  <2>2. k = delivered + 1 /\ version > 12
    BY <1>1, <1>9
  <2>3. utterances' = utterances /\ delivered' = k
    BY <1>4, <1>9, <2>2
  <2> HIDE DEF f, last, data, bytes, k
  <2>4. f \in DOMAIN disk /\ \A g \in File \ {f} : disk'[g] = disk[g]
    BY <1>1, <2>1 DEF SpeechTypes
  <2>5. disk'[f] = FileOf(disk'[f].head, disk'[f].header, Spoken(t, k)) /\ DOMAIN disk' = DOMAIN disk
    BY <1>3, <2>1, <2>4 DEF FileOf
  <2> QED
    BY <1>1, <1>3, <1>7, <2>1, <2>2, <2>3, <2>4, <2>5 DEF Says, f
<1> QED
  BY <1>8, <1>9

-----------------------------------------------------------------------------
(* The steps of the speech queue *)

\* AddText: a text that is nowhere is queued.
LEMMA AddTextKeeps ==
  ASSUME SpeechTypes, SpeechOnce, OpenFileTells, NEW t \in Text, AddText(t)
  PROVE  SpeechTypes' /\ SpeechOnce' /\ OpenFileTells'
<1>1. /\ queue' = Append(queue, t)
      /\ UNCHANGED <<disk, full, thread, taken, utterances, delivered, outfile, written, completed, held, version>>
  BY DEF AddText
<1>2. t \notin ToSet(queue) /\ t \notin ToSet(utterances) /\ t \notin ToSet(completed) /\ t # taken
  <2>1. ~Contains(queue, t) /\ ~Contains(utterances, t) /\ ~Contains(completed, t) /\ ~Contains(<<taken>>, t)
    BY DEF AddText, Enqueued
  <2>2. t # taken
    <3>1. Len(<<taken>>) = 1 /\ <<taken>>[1] = taken
      OBVIOUS
    <3> QED
      BY <2>1, <3>1 DEF Contains
  <2> QED
    BY <2>1, <2>2, Contained DEF SpeechTypes
<1>3. queue' \in Seq(Text) /\ ToSet(queue') = ToSet(queue) \union {t} /\ IsInjective(queue')
  BY <1>1, <1>2, Appended DEF SpeechTypes, SpeechOnce
<1>4. SpeechTypes'
  BY <1>1, <1>3 DEF SpeechTypes
<1>5. SpeechOnce'
  BY <1>1, <1>2, <1>3 DEF SpeechOnce
<1>6. OpenFileTells'
  BY <1>1 DEF OpenFileTells
<1> QED
  BY <1>4, <1>5, <1>6

\* TakeText: the oldest text is in nobody's hands but the thread's.
LEMMA TakeTextKeeps ==
  ASSUME SpeechTypes, SpeechOnce, OpenFileTells, TakeText
  PROVE  SpeechTypes' /\ SpeechOnce' /\ OpenFileTells'
<1>1. /\ queue # <<>> /\ queue' = Tail(queue) /\ taken' = Head(queue)
      /\ thread = "ready" /\ thread' = "writing"
      /\ UNCHANGED <<disk, full, utterances, delivered, outfile, written, completed, held, version>>
  BY DEF TakeText
<1>2. /\ queue' \in Seq(Text) /\ taken' \in Text /\ ToSet(queue) = {taken'} \union ToSet(queue')
      /\ IsInjective(queue') /\ taken' \notin ToSet(queue')
  BY <1>1, Taken DEF SpeechTypes, SpeechOnce
<1>3. taken' # NoText
  BY <1>2, SpeechConstants
<1>4. SpeechTypes'
  BY <1>1, <1>2 DEF SpeechTypes
<1>5. SpeechOnce'
  BY <1>1, <1>2, <1>3 DEF SpeechOnce
<1>6. OpenFileTells'
  BY <1>1 DEF OpenFileTells
<1> QED
  BY <1>4, <1>5, <1>6

\* WriteUtterance: it goes behind what the synthesiser speaks.
LEMMA WriteUtteranceKeeps ==
  ASSUME SpeechTypes, SpeechOnce, OpenFileTells, WriteUtterance
  PROVE  SpeechTypes' /\ SpeechOnce' /\ OpenFileTells'
<1>1. /\ utterances' = Append(utterances, taken) /\ taken' = NoText
      /\ thread = "writing" /\ thread' = "ready"
      /\ UNCHANGED <<disk, full, queue, delivered, outfile, written, completed, held, version>>
  BY DEF WriteUtterance
<1>2. taken \in Text
  BY <1>1 DEF SpeechTypes, SpeechOnce
<1>3. /\ utterances' \in Seq(Text) /\ utterances' # <<>>
      /\ ToSet(utterances') = ToSet(utterances) \union {taken} /\ IsInjective(utterances')
      /\ utterances # <<>> => Head(utterances') = Head(utterances)
  <2>1. utterances # <<>> => Head(utterances') = Head(utterances)
    BY <1>1, <1>2, HeadTailAppend DEF SpeechTypes
  <2> QED
    BY <1>1, <1>2, <2>1, Appended DEF SpeechTypes, SpeechOnce
<1>4. SpeechTypes'
  BY <1>1, <1>3 DEF SpeechTypes
<1>5. NoText \notin ToSet(queue) \union ToSet(utterances') \union ToSet(completed)
  <2>1. \A s \in Seq(Text) : NoText \notin ToSet(s)
    BY SpeechConstants, LenProperties DEF ToSet
  <2> QED
    BY <1>3, <2>1 DEF SpeechTypes
<1>6. SpeechOnce'
  BY <1>1, <1>3, <1>5 DEF SpeechOnce
<1>7. OpenFileTells'
  BY <1>1, <1>3 DEF OpenFileTells
<1> QED
  BY <1>4, <1>6, <1>7

\* The callback: an utterance that ends is the one that is completed.
LEMMA CallbackKeeps ==
  ASSUME SpeechTypes, SpeechOnce, OpenFileTells, AudioBufferCallback
  PROVE  SpeechTypes' /\ SpeechOnce' /\ OpenFileTells'
<1>1. PICK t \in Text, n \in Nat : Says(t, n)
  BY CallbackSays
<1>2. UNCHANGED <<full, queue, thread, taken, version>>
  BY DEF AudioBufferCallback
<1>3. /\ Filename[t] \in File /\ Filename[t] # NoFile /\ utterances # <<>> /\ t = Head(utterances)
      /\ 0 \in Nat
      /\ Spoken(t, n) \in Seq(Sound) /\ Len(Spoken(t, n)) = n
  <2>2. Filename[t] \in File /\ Filename[t] # NoFile
    BY SpeechConstants, PlaybackConstants DEF File
  <2>3. utterances # <<>> /\ t = Head(utterances)
    BY <1>1 DEF Says
  <2>4. 0 \in Nat
    OBVIOUS
  <2> QED
    BY <2>2, <2>3, <2>4, SpokenPieces
<1>4. /\ Tail(utterances) \in Seq(Text) /\ ToSet(utterances) = {t} \union ToSet(Tail(utterances))
      /\ IsInjective(Tail(utterances)) /\ t \notin ToSet(Tail(utterances))
  BY <1>3, Taken DEF SpeechTypes, SpeechOnce
<1>5. Append(completed, t) \in Seq(Text) /\ ToSet(Append(completed, t)) = ToSet(completed) \union {t}
  BY Appended DEF SpeechTypes
<1>6. disk'[Filename[t]].data = Spoken(t, n)
  BY <1>1 DEF Says, FileOf
<1>7. SpeechTypes'
  <2>1. DOMAIN disk' = File
    BY <1>1 DEF Says, SpeechTypes
  <2>2. ASSUME NEW f \in File
        PROVE  /\ disk'[f] = FileOf(disk'[f].head, disk'[f].header, disk'[f].data)
               /\ disk'[f].data \in Seq(Sound)
    <3>1. CASE f = Filename[t]
      BY <1>1, <1>3, <1>6, <3>1 DEF Says
    <3>2. CASE f # Filename[t]
      BY <1>1, <3>2 DEF Says, SpeechTypes
    <3> QED
      BY <3>1, <3>2
  <2>3. utterances' \in Seq(Text) /\ completed' \in Seq(Text)
    BY <1>1, <1>4, <1>5 DEF Says, SpeechTypes
  <2>4. delivered' \in Nat /\ written' \in Nat
    BY <1>1, <1>3 DEF Says
  <2>5. held' \in BOOLEAN
    BY DEF AudioBufferCallback
  <2> QED
    BY <1>2, <2>1, <2>2, <2>3, <2>4, <2>5 DEF SpeechTypes
<1>8. SpeechOnce'
  <2>1. CASE utterances' = utterances /\ completed' = completed
    BY <1>2, <2>1 DEF SpeechOnce
  <2>2. CASE utterances' = Tail(utterances) /\ completed' = completed
    BY <1>2, <1>4, <2>2 DEF SpeechOnce
  <2>3. CASE utterances' = Tail(utterances) /\ completed' = Append(completed, t)
    BY <1>2, <1>4, <1>5, <2>3 DEF SpeechOnce
  <2> QED
    BY <1>1, <2>1, <2>2, <2>3 DEF Says
<1>9. OpenFileTells'
  <2>1. CASE outfile' = NoFile
    <3>1. delivered' = 0
      BY <1>1, <1>3, <2>1 DEF Says
    <3> QED
      BY <2>1, <3>1 DEF OpenFileTells
  <2>2. CASE outfile' # NoFile
    <3>1. /\ utterances' = utterances /\ outfile' = Filename[t] /\ delivered' = n
          /\ version > 12 /\ (~full => written' = n * PieceBytes)
      BY <1>1, <2>2 DEF Says
    <3>2. disk'[outfile'].data = [i \in 1 .. n |-> <<t, i>>]
      BY <1>6, <3>1 DEF Spoken
    <3> QED
      BY <1>2, <1>3, <2>2, <3>1, <3>2 DEF OpenFileTells
  <2> QED
    BY <2>1, <2>2
<1> QED
  BY <1>7, <1>8, <1>9

\* Every step of the speech queue, with what it makes of the files.
LEMMA SpeechKeeps ==
  ASSUME SpeechTypes, SpeechOnce, OpenFileTells, SpeechNext
  PROVE  /\ SpeechTypes' /\ SpeechOnce' /\ OpenFileTells'
         /\ (disk' = disk /\ completed' = completed) \/ \E t \in Text, n \in Nat : Says(t, n)
<1>1. CASE \E t \in Text : AddText(t)
  BY <1>1, AddTextKeeps DEF AddText
<1>2. CASE TakeText
  BY <1>2, TakeTextKeeps DEF TakeText
<1>3. CASE WriteUtterance
  BY <1>3, WriteUtteranceKeeps DEF WriteUtterance
<1>4. CASE AudioBufferCallback
  BY <1>4, CallbackKeeps, CallbackSays
<1>5. CASE Signal \/ WaitForText \/ SpuriousWakeup \/ OpenFails \/ DiskFills
  <2>1. /\ UNCHANGED <<disk, queue, taken, utterances, delivered, outfile, written, completed, held, version>>
        /\ thread' = "writing" <=> thread = "writing"
        /\ ~full' => ~full
    BY <1>5 DEF Signal, WaitForText, SpuriousWakeup, OpenFails, DiskFills
  <2>2. SpeechTypes'
    BY <2>1 DEF SpeechTypes
  <2>3. SpeechOnce'
    BY <2>1 DEF SpeechOnce
  <2>4. OpenFileTells'
    BY <2>1 DEF OpenFileTells
  <2> QED
    BY <2>1, <2>2, <2>3, <2>4
<1> QED
  BY <1>1, <1>2, <1>3, <1>4, <1>5 DEF SpeechNext, SpeechStep

-----------------------------------------------------------------------------
(* Buffers that follow one another *)

LEMMA NothingEnqueued ==
  ASSUME NEW S, NEW d \in Seq(S), NEW from \in 0 .. Len(d)
  PROVE  /\ Player!Consecutive(d, from, <<>>, from)
         /\ \A to : Player!Consecutive(d, from, <<>>, to) => to = from
<1>1. Len(<<>>) = 0
  OBVIOUS
<1>2. \A i \in 1 .. 0 : FALSE
  OBVIOUS
<1> DEFINE at == [i \in 1 .. 0 + 1 |-> from]
<1>3. at \in [1 .. 0 + 1 -> 0 .. Len(d)] /\ at[1] = from /\ at[0 + 1] = from
  OBVIOUS
<1>4. Player!Consecutive(d, from, <<>>, from)
  BY <1>1, <1>2, <1>3 DEF Player!Consecutive
<1>5. 0 + 1 = 1
  OBVIOUS
<1>6. \A to : Player!Consecutive(d, from, <<>>, to) => to = from
  BY <1>1, <1>5 DEF Player!Consecutive
<1> QED
  BY <1>4, <1>6

LEMMA ConsecutiveEnds ==
  ASSUME NEW S, NEW d \in Seq(S), NEW q, Len(q) \in Nat, NEW from, NEW to,
         Player!Consecutive(d, from, q, to)
  PROVE  to \in 0 .. Len(d) /\ to <= Len(d)
<1>1. Len(q) + 1 \in 1 .. Len(q) + 1
  OBVIOUS
<1>2. to \in 0 .. Len(d)
  BY <1>1 DEF Player!Consecutive
<1> QED
  BY <1>2, LenProperties

LEMMA OneMoreEnqueued ==
  ASSUME NEW S, NEW d \in Seq(S), NEW q \in Seq(Seq(S)), NEW from \in Nat, NEW to \in Nat,
         NEW last \in Nat, Player!Consecutive(d, from, q, to), to <= last, last <= Len(d)
  PROVE  Player!Consecutive(d, from, Append(q, SubSeq(d, to + 1, last)), last)
<1>1. SubSeq(d, to + 1, last) \in Seq(S)
  BY SubSeqIn
<1> DEFINE b == SubSeq(d, to + 1, last)
           a == Append(q, b)
           n == Len(q)
<1>2. n \in Nat /\ Len(a) = n + 1 /\ a[n + 1] = b /\ \A i \in 1 .. n : a[i] = q[i]
  BY <1>1, Appended, LenProperties
<1>3. PICK at \in [1 .. n + 1 -> 0 .. Len(d)] :
        /\ at[1] = from
        /\ at[n + 1] = to
        /\ \A i \in 1 .. n : at[i] <= at[i + 1] /\ q[i] = SubSeq(d, at[i] + 1, at[i + 1])
  BY DEF Player!Consecutive
<1> DEFINE next == [i \in 1 .. (n + 1) + 1 |-> IF i = n + 2 THEN last ELSE at[i]]
<1>4. /\ \A i \in 1 .. n + 1 : i \in 1 .. (n + 1) + 1 /\ i # n + 2
      /\ \A i \in 1 .. n : i \in 1 .. n + 1 /\ i + 1 \in 1 .. n + 1
      /\ \A i \in 1 .. n + 1 : i \in 1 .. n \/ i = n + 1
      /\ \A i \in 1 .. (n + 1) + 1 : i \in 1 .. n + 1 \/ i = n + 2
      /\ n + 2 \in 1 .. (n + 1) + 1 /\ n + 2 = (n + 1) + 1 /\ 1 \in 1 .. n + 1
      /\ n + 1 \in 1 .. n + 1
  BY <1>2
<1>5. last \in 0 .. Len(d)
  BY LenProperties
<1>6. next \in [1 .. (n + 1) + 1 -> 0 .. Len(d)]
  BY <1>3, <1>4, <1>5
<1>7. next[n + 2] = last /\ \A i \in 1 .. n + 1 : next[i] = at[i]
  BY <1>4
<1> HIDE DEF a, b, n, next
<1>8. ASSUME NEW i \in 1 .. n + 1
      PROVE  next[i] <= next[i + 1] /\ a[i] = SubSeq(d, next[i] + 1, next[i + 1])
  <2>1. CASE i \in 1 .. n
    <3>1. next[i] = at[i] /\ next[i + 1] = at[i + 1] /\ a[i] = q[i]
      BY <1>2, <1>4, <1>7, <2>1
    <3> QED
      BY <1>3, <2>1, <3>1
  <2>2. CASE i = n + 1
    <3>1. next[i] = to /\ next[i + 1] = last /\ a[i] = b
      BY <1>2, <1>3, <1>4, <1>7, <2>2
    <3> QED
      BY <3>1 DEF b
  <2> QED
    BY <1>4, <2>1, <2>2
<1>9. next[1] = from /\ next[(n + 1) + 1] = last
  BY <1>3, <1>4, <1>7
<1>10. Player!Consecutive(d, from, a, last)
  BY <1>2, <1>6, <1>8, <1>9 DEF Player!Consecutive
<1> QED
  BY <1>10 DEF a, b

LEMMA OneLessEnqueued ==
  ASSUME NEW S, NEW d \in Seq(S), NEW q \in Seq(Seq(S)), q # <<>>, NEW from, NEW to,
         Player!Consecutive(d, from, q, to)
  PROVE  /\ from \in 0 .. Len(d)
         /\ \E m \in from .. Len(d) :
              Head(q) = SubSeq(d, from + 1, m) /\ Player!Consecutive(d, m, Tail(q), to)
<1> DEFINE t == Tail(q)
           n == Len(q) - 1
<1>1. /\ n \in Nat /\ Len(q) = n + 1 /\ Len(t) = n /\ Head(q) = q[1]
      /\ \A i \in 1 .. n : t[i] = q[i + 1]
  <2>1. /\ Len(q) \in Nat /\ Len(q) > 0 /\ Len(t) = Len(q) - 1 /\ Head(q) = q[1]
        /\ \A i \in 1 .. Len(q) - 1 : t[i] = q[i + 1]
    BY Taken
  <2> QED
    BY <2>1
<1>2. PICK at \in [1 .. (n + 1) + 1 -> 0 .. Len(d)] :
        /\ at[1] = from
        /\ at[(n + 1) + 1] = to
        /\ \A i \in 1 .. n + 1 : at[i] <= at[i + 1] /\ q[i] = SubSeq(d, at[i] + 1, at[i + 1])
  BY <1>1 DEF Player!Consecutive
<1> HIDE DEF n, t
<1>3. /\ \A i \in 1 .. n + 1 : i + 1 \in 1 .. (n + 1) + 1
      /\ \A i \in 1 .. n : i \in 1 .. n + 1 /\ i + 1 \in 1 .. n + 1
      /\ 1 \in 1 .. n + 1 /\ 1 \in 1 .. (n + 1) + 1 /\ n + 1 \in 1 .. n + 1 /\ 2 = 1 + 1
      /\ 2 \in 1 .. (n + 1) + 1
  BY <1>1
<1> DEFINE next == [i \in 1 .. n + 1 |-> at[i + 1]]
<1>4. next \in [1 .. n + 1 -> 0 .. Len(d)] /\ \A i \in 1 .. n + 1 : next[i] = at[i + 1]
  BY <1>2, <1>3
<1> HIDE DEF next
<1>5. next[1] = at[2] /\ next[n + 1] = to
  BY <1>2, <1>3, <1>4
<1>6. \A i \in 1 .. n : next[i] <= next[i + 1] /\ t[i] = SubSeq(d, next[i] + 1, next[i + 1])
  <2> SUFFICES ASSUME NEW i \in 1 .. n
               PROVE  next[i] <= next[i + 1] /\ t[i] = SubSeq(d, next[i] + 1, next[i + 1])
    OBVIOUS
  <2>1. next[i] = at[i + 1] /\ next[i + 1] = at[(i + 1) + 1] /\ t[i] = q[i + 1]
    BY <1>1, <1>3, <1>4
  <2> QED
    BY <1>2, <1>3, <2>1
<1>7. Player!Consecutive(d, at[2], t, to)
  BY <1>1, <1>4, <1>5, <1>6 DEF Player!Consecutive
<1>8. from \in 0 .. Len(d) /\ at[2] \in 0 .. Len(d) /\ from <= at[2] /\ q[1] = SubSeq(d, from + 1, at[2])
  BY <1>2, <1>3
<1>9. at[2] \in from .. Len(d)
  BY <1>8, LenProperties
<1> QED
  BY <1>1, <1>7, <1>8, <1>9 DEF t

\* FlattenSeq of up to three sequences.
Join(s, t) == s \o t

LEMMA Flattened ==
  ASSUME NEW S, NEW q \in Seq(S)
  PROVE  /\ Len(q) = 1 => FlattenSeq(q) = q[1]
         /\ Len(q) = 2 => FlattenSeq(q) = Join(q[1], q[2])
         /\ Len(q) = 3 => FlattenSeq(q) = Join(Join(q[1], q[2]), q[3])
<1> SUFFICES ASSUME Len(q) \in {1, 2, 3}
             PROVE  /\ Len(q) = 1 => FlattenSeq(q) = q[1]
                    /\ Len(q) = 2 => FlattenSeq(q) = Join(q[1], q[2])
                    /\ Len(q) = 3 => FlattenSeq(q) = Join(Join(q[1], q[2]), q[3])
  OBVIOUS
<1> DEFINE n == Len(q)
           Sums(f) == f = [i \in 1 .. n |-> IF i = 1 THEN q[i] ELSE Join(f[i - 1], q[i])]
           flatten == CHOOSE f : Sums(f)
<1>1. FlattenSeq(q) = flatten[n]
  <2>1. n # 0
    OBVIOUS
  <2> QED
    BY <2>1 DEF FlattenSeq, Join
<1>2. n \in {1, 2, 3}
  OBVIOUS
<1> HIDE DEF n
<1>3. Sums(flatten)
  <2> DEFINE g == [i \in 1 .. n |-> IF i = 1 THEN q[1] ELSE IF i = 2 THEN Join(q[1], q[2])
                                    ELSE Join(Join(q[1], q[2]), q[3])]
  <2>1. \A i \in 1 .. n : i = 1 \/ (i = 2 /\ 1 \in 1 .. n) \/ (i = 3 /\ 2 \in 1 .. n)
    BY <1>2
  <2>2. \A i \in 1 .. n : g[i] = IF i = 1 THEN q[i] ELSE Join(g[i - 1], q[i])
    <3> SUFFICES ASSUME NEW i \in 1 .. n PROVE g[i] = IF i = 1 THEN q[i] ELSE Join(g[i - 1], q[i])
      OBVIOUS
    <3>1. CASE i = 1
      BY <3>1
    <3>2. CASE i = 2 /\ 1 \in 1 .. n
      <4>1. i - 1 = 1
        BY <3>2
      <4> QED
        BY <3>2, <4>1
    <3>3. CASE i = 3 /\ 2 \in 1 .. n
      <4>1. i - 1 = 2 /\ i # 1
        BY <3>3
      <4> QED
        BY <3>3, <4>1
    <3> QED
      BY <2>1, <3>1, <3>2, <3>3
  <2>3. Sums(g)
    BY <2>2
  <2> HIDE DEF Sums
  <2> QED
    BY <2>3, Zenon
<1> HIDE DEF flatten
<1>4. \A i \in 1 .. n : flatten[i] = IF i = 1 THEN q[i] ELSE Join(flatten[i - 1], q[i])
  BY <1>3
<1> HIDE DEF Sums
<1>5. flatten[1] = q[1]
  <2>1. 1 \in 1 .. n
    BY <1>2
  <2> QED
    BY <1>4, <2>1
<1>6. n \in {2, 3} => flatten[2] = Join(q[1], q[2])
  <2>1. n \in {2, 3} => 2 \in 1 .. n /\ 2 - 1 = 1 /\ 2 # 1
    OBVIOUS
  <2> QED
    BY <1>4, <1>5, <2>1
<1>7. n = 3 => flatten[3] = Join(Join(q[1], q[2]), q[3])
  <2>1. n = 3 => 3 \in 1 .. n /\ 3 - 1 = 2 /\ 3 # 1
    OBVIOUS
  <2> QED
    BY <1>4, <1>6, <2>1
<1>8. /\ n = 1 => FlattenSeq(q) = q[1]
      /\ n = 2 => FlattenSeq(q) = Join(q[1], q[2])
      /\ n = 3 => FlattenSeq(q) = Join(Join(q[1], q[2]), q[3])
  BY <1>1, <1>5, <1>6, <1>7
<1> QED
  BY <1>8 DEF n

LEMMA Joined ==
  ASSUME NEW S, NEW s \in Seq(S), NEW t \in Seq(S), NEW u \in Seq(S)
  PROVE  Join(s, t) \in Seq(S) /\ Join(Join(s, t), u) = Join(s, Join(t, u))
BY ConcatProperties, ConcatAssociative DEF Join

\* What was heard and what waits to be is the beginning of the data.
LEMMA HeardAndWaiting ==
  ASSUME NEW S, NEW d \in Seq(S), NEW q \in Seq(Seq(S)), Len(q) <= 3, NEW from, NEW to,
         Player!Consecutive(d, from, q, to), from \in 0 .. Len(d)
  PROVE  SubSeq(d, 1, from) \o FlattenSeq(q) = SubSeq(d, 1, to)
<1> DEFINE n == Len(q)
<1>1. n \in {0, 1, 2, 3}
  <2>1. n \in Nat
    BY LenProperties
  <2> HIDE DEF n
  <2>2. \A k \in Nat : k <= 3 => k \in {0, 1, 2, 3}
    OBVIOUS
  <2>3. n <= 3
    BY DEF n
  <2> QED
    BY <2>1, <2>2, <2>3
<1>2. PICK at \in [1 .. n + 1 -> 0 .. Len(d)] :
        /\ at[1] = from
        /\ at[n + 1] = to
        /\ \A i \in 1 .. n : at[i] <= at[i + 1] /\ q[i] = SubSeq(d, at[i] + 1, at[i + 1])
  BY DEF Player!Consecutive
<1>3. Len(d) \in Nat
  BY LenProperties
<1> DEFINE Until(k) == SubSeq(d, 1, k)
\* One more buffer.
<1>4. ASSUME NEW i \in 1 .. n PROVE Join(Until(at[i]), q[i]) = Until(at[i + 1])
  <2>1. i \in 1 .. n + 1 /\ i + 1 \in 1 .. n + 1
    BY <1>1
  <2>2. at[i] \in 0 .. Len(d) /\ at[i + 1] \in at[i] .. Len(d) /\ q[i] = SubSeq(d, at[i] + 1, at[i + 1])
    <3> HIDE DEF n
    <3>1. at[i] \in 0 .. Len(d) /\ at[i + 1] \in 0 .. Len(d)
      BY <1>2, <2>1
    <3>2. at[i] <= at[i + 1] /\ q[i] = SubSeq(d, at[i] + 1, at[i + 1])
      BY <1>2
    <3> QED
      BY <1>3, <3>1, <3>2
  <2>3. 1 \in 1 .. Len(d) + 1 /\ at[i] \in 1 - 1 .. Len(d)
    BY <1>3, <2>2
  <2>4. SubSeq(d, 1, at[i]) \o SubSeq(d, at[i] + 1, at[i + 1]) = SubSeq(d, 1, at[i + 1])
    BY <2>2, <2>3, ConcatAdjacentSubSeq
  <2> QED
    BY <2>2, <2>4 DEF Join
<1>5. /\ \A i \in 1 .. n + 1 : Until(at[i]) \in Seq(S)
      /\ \A i \in 1 .. n : q[i] \in Seq(S)
  <2>1. \A k \in 0 .. Len(d) : Until(k) \in Seq(S)
    <3>1. \A k \in 0 .. Len(d) : SubSeq(d, 0 + 1, k) \in Seq(S)
      BY <1>3, SubSeqIn
    <3> QED
      BY <3>1
  <2>2. \A i \in 1 .. n : q[i] \in Seq(S)
    BY LenProperties
  <2> QED
    BY <1>2, <2>1, <2>2
<1>10. \A x, y, z \in Seq(S) : Join(x, y) \in Seq(S) /\ Join(Join(x, y), z) = Join(x, Join(y, z))
  BY Joined
<1> HIDE DEF n, Until
<1>6. CASE n = 0
  <2>1. FlattenSeq(q) = <<>>
    <3>1. q = <<>>
      BY <1>6, EmptySeq DEF n
    <3> QED
      BY <1>6, <3>1 DEF FlattenSeq, n
  <2>2. to = from /\ 1 \in 1 .. n + 1
    BY <1>2, <1>6
  <2>3. Until(from) \in Seq(S)
    BY <1>2, <1>5, <2>2
  <2>4. Until(from) \o <<>> = Until(from)
    BY <2>3, ConcatEmptySeq
  <2> QED
    BY <2>1, <2>2, <2>4 DEF Until
<1>7. CASE n = 1
  <2>1. FlattenSeq(q) = q[1]
    <3>1. Len(q) = 1
      BY <1>7 DEF n
    <3> QED
      BY <3>1, Flattened
  <2>2. Join(Until(at[1]), q[1]) = Until(at[1 + 1]) /\ n + 1 = 1 + 1
    BY <1>4, <1>7
  <2> QED
    BY <1>2, <2>1, <2>2 DEF Until, Join
<1>8. CASE n \in {2, 3}
  <2>1. 1 \in 1 .. n /\ 2 \in 1 .. n /\ 1 \in 1 .. n + 1 /\ 1 + 1 = 2 /\ 2 + 1 = 3
    BY <1>8
  <2>2. Join(Until(at[1]), q[1]) = Until(at[2]) /\ Join(Until(at[2]), q[2]) = Until(at[3])
    BY <1>4, <2>1
  <2>3. Until(at[1]) \in Seq(S) /\ q[1] \in Seq(S) /\ q[2] \in Seq(S)
    BY <1>5, <2>1
  <2>4. Join(Until(at[1]), Join(q[1], q[2])) = Until(at[3])
    <3>1. Join(Until(at[1]), Join(q[1], q[2])) = Join(Join(Until(at[1]), q[1]), q[2])
      <4>1. \A x, y, z \in Seq(S) : Join(x, Join(y, z)) = Join(Join(x, y), z)
        BY <1>10
      <4> QED
        BY <2>3, <4>1
    <3> QED
      BY <2>2, <3>1
  <2>5. CASE n = 2
    <3>1. FlattenSeq(q) = Join(q[1], q[2])
      <4>1. Len(q) = 2
        BY <2>5 DEF n
      <4> QED
        BY <4>1, Flattened
    <3>2. n + 1 = 3
      BY <2>5
    <3>3. Join(Until(from), FlattenSeq(q)) = Until(to)
      BY <1>2, <2>4, <3>1, <3>2
    <3> QED
      BY <3>3 DEF Until, Join
  <2>6. CASE n = 3
    <3>1. FlattenSeq(q) = Join(Join(q[1], q[2]), q[3])
      <4>1. Len(q) = 3
        BY <2>6 DEF n
      <4> QED
        BY <4>1, Flattened
    <3>2. n + 1 = 4 /\ 3 \in 1 .. n /\ 3 + 1 = 4
      BY <2>6
    <3>3. Join(Until(at[3]), q[3]) = Until(at[4]) /\ q[3] \in Seq(S)
      BY <1>4, <1>5, <3>2
    <3>4. Join(Until(at[1]), Join(Join(q[1], q[2]), q[3])) = Join(Join(Until(at[1]), Join(q[1], q[2])), q[3])
      <4>1. Join(q[1], q[2]) \in Seq(S)
        BY <1>10, <2>3
      <4>2. \A x, y, z \in Seq(S) : Join(x, Join(y, z)) = Join(Join(x, y), z)
        BY <1>10
      <4> QED
        BY <2>3, <3>3, <4>1, <4>2
    <3>5. Join(Until(from), FlattenSeq(q)) = Until(to)
      BY <1>2, <2>4, <3>1, <3>2, <3>3, <3>4
    <3> QED
      BY <3>5 DEF Until, Join
  <2> QED
    BY <1>8, <2>5, <2>6
<1> QED
  BY <1>1, <1>6, <1>7, <1>8

-----------------------------------------------------------------------------
(* The steps of the player *)

\* At the end of the file or before a packet that is too large, and only there, nothing is
\* read, unless no packet fits.
LEMMA PacketsRead ==
  ASSUME SpeechTypes, PlayerTypes, pc # "closed"
  PROVE  LET d == disk[file].data
             p == Player!ReadPacketData(numPkts)
         IN  /\ d \in Seq(Sound) /\ p \in Seq(Sound) /\ Len(p) \in Nat
             /\ pktPos <= Len(d) =>
                  /\ pktPos + Len(p) <= Len(d)
                  /\ p = SubSeq(d, pktPos + 1, pktPos + Len(p))
                  /\ p = <<>> /\ numPkts # 0 => pktPos = Len(d) \/ Player!TooLarge(d, pktPos)
                  /\ pktPos = Len(d) \/ Player!TooLarge(d, pktPos) => p = <<>>
<1> DEFINE d == disk[file].data
           l == Len(d)
           last == IF pktPos + numPkts <= l THEN pktPos + numPkts ELSE l
           k == last - pktPos
           p == [i \in 1 .. k |-> d[pktPos + i]]
           large == Player!TooLarge(d, pktPos)
<1>1. /\ file \in File /\ d \in Seq(Sound) /\ l \in Nat /\ \A i \in 1 .. l : d[i] \in Sound
      /\ pktPos \in Nat /\ numPkts \in Nat
  <2>1. file \in File /\ d \in Seq(Sound) /\ pktPos \in Nat /\ numPkts \in Nat
    BY DEF SpeechTypes, PlayerTypes
  <2> QED
    BY <2>1, LenProperties
<1>2. Player!ReadPacketData(numPkts) = IF large THEN <<>> ELSE p
  BY DEF Player!ReadPacketData
<1>6. \A S : <<>> \in Seq(S) /\ Len(<<>>) = 0
  BY EmptySeq
<1>7. large => pktPos < l
  BY DEF Player!TooLarge
<1> HIDE DEF d, l, large
\* Before a packet that is too large.
<1>8. CASE large
  <2>1. pktPos + 0 = pktPos /\ SubSeq(d, pktPos + 1, pktPos) = <<>>
    BY <1>1, SubSeqEmpty
  <2>2. pktPos <= l /\ pktPos # l
    BY <1>1, <1>7, <1>8
  <2> HIDE DEF p
  <2> QED
    BY <1>1, <1>2, <1>6, <1>8, <2>1, <2>2 DEF d, l, large
<1>3. \A i \in 1 .. k : pktPos + i \in 1 .. l
  BY <1>1
<1>4. CASE ~large /\ pktPos <= l
  <2>1. k \in Nat /\ pktPos + k <= l /\ (k = 0 /\ numPkts # 0 => pktPos = l) /\ (pktPos = l => k = 0)
    BY <1>1, <1>4
  <2> HIDE DEF k
  <2>2. p \in [1 .. k -> Sound]
    BY <1>1, <1>3
  <2>3. p \in Seq(Sound) /\ Len(p) = k
    BY <2>1, <2>2, SeqDef
  <2>4. p = SubSeq(d, pktPos + 1, pktPos + k)
    <3> DEFINE u == SubSeq(d, pktPos + 1, pktPos + k)
    <3>1. pktPos + k \in Nat /\ pktPos <= pktPos + k /\ (pktPos + k) - pktPos = k
      BY <1>1, <2>1
    <3>2. u \in Seq(Sound) /\ Len(u) = k
      BY <1>1, <2>1, <3>1, SubSeqIn DEF l
    <3>3. \A i \in 1 .. k : u[i] = d[pktPos + i]
      <4>1. \A i \in (pktPos + 1) .. (pktPos + k) : d[i] \in Sound
        BY <1>1, <2>1
      <4>2. \A i \in 1 .. (pktPos + k) - (pktPos + 1) + 1 : u[i] = d[(pktPos + 1) + i - 1]
        <5>1. pktPos + 1 \in Int /\ pktPos + k \in Int
          BY <1>1, <2>1
        <5> QED
          BY <4>1, <5>1, SubSeqProperties
      <4>3. (pktPos + k) - (pktPos + 1) + 1 = k /\ \A i \in Int : (pktPos + 1) + i - 1 = pktPos + i
        BY <1>1, <2>1
      <4> HIDE DEF u
      <4>4. \A i \in 1 .. k : u[i] = d[(pktPos + 1) + i - 1]
        BY <4>2, <4>3
      <4>5. \A i \in 1 .. k : i \in Int
        OBVIOUS
      <4> QED
        BY <4>3, <4>4, <4>5
    <3> HIDE DEF u
    <3>4. \A i \in 1 .. k : p[i] = u[i]
      BY <3>3
    <3>5. p = u
      BY <2>3, <3>2, <3>4, SeqEqual
    <3> QED
      BY <3>5 DEF u
  <2>5. p = <<>> <=> k = 0
    BY <2>3, EmptySeq
  <2> HIDE DEF p
  <2> QED
    BY <1>1, <1>2, <1>4, <2>1, <2>3, <2>4, <2>5 DEF d, l, large
<1>5. CASE ~large /\ ~(pktPos <= l)
  <2>1. 1 .. k = {}
    BY <1>1, <1>5
  <2>2. p = <<>>
    BY <2>1
  <2>3. <<>> \in Seq(Sound) /\ Len(<<>>) \in Nat
    BY EmptySeq
  <2> HIDE DEF p
  <2> QED
    BY <1>1, <1>2, <1>5, <2>2, <2>3 DEF d, l, large
<1> QED
  BY <1>4, <1>5, <1>8

\* Nothing is left that could be read.
AtEnd(d, at) == at = Len(d) \/ Player!TooLarge(d, at)

\* Callback: the buffers are still consecutive, and the end is the end.
LEMMA CallbackReads ==
  ASSUME SpeechTypes, PlayerTypes, pc # "closed", NEW q \in Seq(Seq(Sound)), Player!Callback(numPkts, q)
  PROVE  LET d == disk[file].data
         IN  /\ pktPos' \in Nat /\ enqueued' \in Seq(Seq(Sound)) /\ Len(enqueued') <= Len(q) + 1
             /\ pktPos <= Len(d) =>
                  /\ \A from \in Nat : Player!Consecutive(d, from, q, pktPos) =>
                       Player!Consecutive(d, from, enqueued', pktPos')
                  /\ (isDone /\ numPkts # 0 => AtEnd(d, pktPos)) =>
                       (isDone' /\ numPkts # 0 => AtEnd(d, pktPos'))
<1> DEFINE d == disk[file].data
           p == Player!ReadPacketData(numPkts)
<1>1. /\ d \in Seq(Sound) /\ p \in Seq(Sound) /\ Len(p) \in Nat /\ pktPos \in Nat /\ Len(q) \in Nat
      /\ Len(d) \in Nat
      /\ pktPos <= Len(d) =>
           /\ pktPos + Len(p) <= Len(d)
           /\ p = SubSeq(d, pktPos + 1, pktPos + Len(p))
           /\ p = <<>> /\ numPkts # 0 => AtEnd(d, pktPos)
           /\ AtEnd(d, pktPos) => p = <<>>
  <2>1. pktPos \in Nat /\ Len(q) \in Nat
    BY LenProperties DEF PlayerTypes
  <2> QED
    BY <2>1, PacketsRead, LenProperties DEF AtEnd
<1>2. \/ UNCHANGED <<pktPos, isDone>> /\ enqueued' = q
      \/ p # <<>> /\ enqueued' = Append(q, p) /\ pktPos' = pktPos + Len(p) /\ isDone' = isDone
      \/ p = <<>> /\ isDone' = TRUE /\ enqueued' = q /\ pktPos' = pktPos
  BY DEF Player!Callback
<1> HIDE DEF d, p
<1>3. CASE UNCHANGED <<pktPos, isDone>> /\ enqueued' = q
  BY <1>1, <1>3 DEF d
<1>4. CASE p # <<>> /\ enqueued' = Append(q, p) /\ pktPos' = pktPos + Len(p) /\ isDone' = isDone
  <2>1. enqueued' \in Seq(Seq(Sound)) /\ Len(enqueued') = Len(q) + 1
    BY <1>1, <1>4, Appended
  <2>2. ASSUME pktPos <= Len(d), NEW from \in Nat, Player!Consecutive(d, from, q, pktPos)
        PROVE  Player!Consecutive(d, from, enqueued', pktPos')
    <3>1. pktPos + Len(p) \in Nat /\ pktPos <= pktPos + Len(p)
      BY <1>1
    <3>2. Player!Consecutive(d, from, Append(q, SubSeq(d, pktPos + 1, pktPos + Len(p))), pktPos + Len(p))
      BY <1>1, <2>2, <3>1, OneMoreEnqueued
    <3> QED
      BY <1>1, <1>4, <2>2, <3>2
  <2>3. pktPos <= Len(d) /\ isDone /\ numPkts # 0 => ~AtEnd(d, pktPos)
    BY <1>1, <1>4
  <2>4. pktPos' \in Nat
    BY <1>1, <1>4
  <2>5. Len(enqueued') <= Len(q) + 1
    BY <1>1, <2>1
  <2> QED
    BY <1>4, <2>1, <2>2, <2>3, <2>4, <2>5 DEF d
<1>5. CASE p = <<>> /\ isDone' = TRUE /\ enqueued' = q /\ pktPos' = pktPos
  BY <1>1, <1>5 DEF d
<1> QED
  BY <1>2, <1>3, <1>4, <1>5

-----------------------------------------------------------------------------
(* The invariant holds *)

LEMMA InvInit == Init => IInv
<1> SUFFICES ASSUME Init PROVE IInv
  OBVIOUS
<1>1. /\ queue = <<>> /\ utterances = <<>> /\ completed = <<>> /\ taken = NoText /\ thread = "ready"
      /\ delivered = 0 /\ written = 0 /\ outfile = NoFile /\ version \in Version
      /\ held = FALSE /\ busy = FALSE /\ locked = FALSE
      /\ playlist = <<>> /\ pc = "closed" /\ file = NoPlay /\ numPkts = 0 /\ pktPos = 0
      /\ heard = <<>> /\ enqueued = <<>> /\ primed = 0
      /\ disk = [f \in File |-> IF f \in Recording THEN FileOf("format", <<>>, Content[f]) ELSE Absent]
  BY DEF Init, SpeechInit, Player!PlayerInit, File
<1>2. \A S : <<>> \in Seq(S) /\ Len(<<>>) = 0 /\ ToSet(<<>>) = {} /\ IsInjective(<<>>)
  BY EmptySeq DEF ToSet, IsInjective
<1>3. SpeechTypes
  <2>1. ASSUME NEW f \in File
        PROVE  /\ disk[f] = FileOf(disk[f].head, disk[f].header, disk[f].data)
               /\ disk[f].data \in Seq(Sound)
    <3>1. CASE f \in Recording
      <4>1. disk[f] = FileOf("format", <<>>, Content[f])
        BY <1>1, <3>1
      <4>2. Content[f] \in Seq(ToSet(Content[f])) /\ ToSet(Content[f]) \subseteq Sound
        BY <3>1, PlaybackConstants DEF Sound
      <4>3. Content[f] \in Seq(Sound)
        BY <4>2, SeqMonotonic
      <4> QED
        BY <4>1, <4>3 DEF FileOf
    <3>2. CASE f \notin Recording
      <4>1. disk[f] = FileOf("absent", <<>>, <<>>)
        BY <1>1, <3>2 DEF Absent
      <4> QED
        BY <1>2, <4>1 DEF FileOf
    <3> QED
      BY <3>1, <3>2
  <2>2. DOMAIN disk = File
    BY <1>1
  <2> QED
    BY <1>1, <1>2, <2>1, <2>2 DEF SpeechTypes
<1>4. PlayerTypes
  <2>1. busy \in BOOLEAN /\ locked \in BOOLEAN
    BY <1>1
  <2>2. /\ playlist \in Seq(File) /\ heard \in Seq(Sound) /\ enqueued \in Seq(Seq(Sound))
        /\ Len(enqueued) = 0
    BY <1>1, <1>2
  <2> QED
    BY <1>1, <2>1, <2>2 DEF PlayerTypes, Player!NBUFFERS
<1>5. SpeechOnce /\ OpenFileTells
  BY <1>1, <1>2 DEF SpeechOnce, OpenFileTells
<1>6. OnlyMadePlayed /\ PlayerFollows
  BY <1>1, <1>2 DEF OnlyMadePlayed, PlayerFollows
<1> QED
  BY <1>3, <1>4, <1>5, <1>6 DEF IInv, TypeOK

\* A file that was completed, or came otherwise, is not written again, if it is the only one of its name.
LEMMA MadeStays ==
  ASSUME SpeechTypes, SpeechOnce, NEW t \in Text, NEW n \in Nat, Says(t, n),
         NEW f \in File, Made(f), f \notin Overwritten
  PROVE  disk'[f] = disk[f]
<1>1. t \notin ToSet(completed)
  <2>1. t \in ToSet(utterances)
    BY Taken DEF Says, SpeechTypes
  <2> QED
    BY <2>1 DEF SpeechOnce
<1>2. f # Filename[t]
  <2> SUFFICES ASSUME f = Filename[t] PROVE FALSE
    OBVIOUS
  <2>1. CASE f \in Recording
    BY <2>1 DEF Overwritten
  <2>2. ASSUME NEW u \in ToSet(completed), Filename[u] = f PROVE FALSE
    <3>1. u \in Text
      BY LenProperties DEF SpeechTypes, ToSet
    <3>2. u \in Text \ {t}
      BY <1>1, <3>1
    <3> QED
      BY <2>2, <3>2 DEF Overwritten
  <2> QED
    BY <2>1, <2>2 DEF Made
<1> QED
  BY <1>2 DEF Says

LEMMA SpeakKeeps == IInv /\ Speak => IInv'
<1> SUFFICES ASSUME IInv, Speak PROVE IInv'
  OBVIOUS
<1>1. /\ SpeechTypes /\ PlayerTypes /\ SpeechOnce /\ OpenFileTells /\ OnlyMadePlayed /\ PlayerFollows
      /\ SpeechNext
      /\ UNCHANGED <<pc, file, numPkts, pktPos, isDone, primed, enqueued, lost, started, heard>>
  BY DEF IInv, TypeOK, Speak, player
<1>2. /\ SpeechTypes' /\ SpeechOnce' /\ OpenFileTells'
      /\ (disk' = disk /\ completed' = completed) \/ \E t \in Text, n \in Nat : Says(t, n)
  BY <1>1, SpeechKeeps
<1>3. /\ busy' \in BOOLEAN /\ locked' \in BOOLEAN
      /\ \/ completed' = completed /\ playlist' = playlist
         \/ \E t \in Text : /\ completed' = Append(completed, t)
                            /\ playlist' \in {playlist, Append(playlist, Filename[t])}
  <2>1. CASE UNCHANGED <<completed, held, playback>>
    BY <1>1, <2>1 DEF playback, PlayerTypes
  <2>2. CASE completed' # completed
    <3>1. PICK t \in Text : completed' = Append(completed, t)
      BY <1>2, <2>2 DEF Says
    <3>2. completed'[Len(completed')] = t
      BY <1>1, <3>1, Appended DEF SpeechTypes
    <3>3. OnComplete(Filename[t])
      BY <2>2, <3>2 DEF Speak
    <3>4. busy' \in BOOLEAN /\ locked' \in BOOLEAN /\ playlist' \in {playlist, Append(playlist, Filename[t])}
      BY <1>1, <3>3 DEF OnComplete, Push, playback, PlayerTypes
    <3> QED
      BY <3>1, <3>4
  <2> QED
    BY <2>1, <2>2 DEF Speak
<1>4. /\ ToSet(completed) \subseteq ToSet(completed')
      /\ playlist' \in Seq(File)
      /\ \A f \in ToSet(playlist') : f \in ToSet(playlist) \/ \E t \in ToSet(completed') : Filename[t] = f
  <2>1. CASE completed' = completed /\ playlist' = playlist
    BY <1>1, <2>1 DEF PlayerTypes
  <2>2. ASSUME NEW t \in Text, completed' = Append(completed, t),
               playlist' \in {playlist, Append(playlist, Filename[t])}
        PROVE  /\ ToSet(completed) \subseteq ToSet(completed')
               /\ playlist' \in Seq(File)
               /\ \A f \in ToSet(playlist') : f \in ToSet(playlist) \/ \E u \in ToSet(completed') : Filename[u] = f
    <3>1. Filename[t] \in File
      BY PlaybackConstants DEF File
    <3>2. ToSet(completed') = ToSet(completed) \union {t}
      BY <1>1, <2>2, Appended DEF SpeechTypes
    <3>3. playlist' \in Seq(File) /\ ToSet(playlist') \subseteq ToSet(playlist) \union {Filename[t]}
      <4>1. playlist \in Seq(File)
        BY <1>1 DEF PlayerTypes
      <4>2. /\ Append(playlist, Filename[t]) \in Seq(File)
            /\ ToSet(Append(playlist, Filename[t])) = ToSet(playlist) \union {Filename[t]}
        BY <3>1, <4>1, Appended
      <4> QED
        BY <2>2, <4>1, <4>2
    <3> QED
      BY <3>2, <3>3
  <2> QED
    BY <1>3, <2>1, <2>2
<1>5. PlayerTypes'
  BY <1>1, <1>3, <1>4 DEF PlayerTypes
<1>6. OnlyMadePlayed'
  BY <1>1, <1>4 DEF OnlyMadePlayed, Made
<1>7. PlayerFollows'
  <2> SUFFICES ASSUME file \notin Overwritten \union {NoPlay}
               PROVE  (Player!BuffersFollow /\ Player!DoneAtEnd)'
    BY <1>1 DEF PlayerFollows
  <2>1. disk'[file] = disk[file]
    <3>1. file \in File /\ Made(file)
      BY <1>1 DEF PlayerTypes, OnlyMadePlayed
    <3> QED
      BY <1>1, <1>2, <3>1, MadeStays
  <2>2. Player!BuffersFollow /\ Player!DoneAtEnd
    BY <1>1 DEF PlayerFollows
  <2> QED
    BY <1>1, <2>1, <2>2 DEF Player!BuffersFollow, Player!DoneAtEnd
<1> QED
  BY <1>2, <1>5, <1>6, <1>7 DEF IInv, TypeOK

LEMMA PushRecordingKeeps == IInv /\ (\E r \in Recording : PushRecording(r)) => IInv'
<1> SUFFICES ASSUME IInv, NEW r \in Recording, PushRecording(r) PROVE IInv'
  OBVIOUS
<1>1. /\ SpeechTypes /\ PlayerTypes /\ SpeechOnce /\ OpenFileTells /\ OnlyMadePlayed /\ PlayerFollows
      /\ playlist' \in {playlist, Append(playlist, r)} /\ UNCHANGED <<disk, spoken, player>>
      /\ busy' \in BOOLEAN /\ locked' \in BOOLEAN
  BY DEF IInv, TypeOK, PushRecording, Push, PlayerTypes
<1>2. playlist' \in Seq(File) /\ ToSet(playlist') \subseteq ToSet(playlist) \union {r}
  <2>1. r \in File
    BY PlaybackConstants DEF File
  <2>2. playlist \in Seq(File)
    BY <1>1 DEF PlayerTypes
  <2>3. /\ Append(playlist, r) \in Seq(File)
        /\ ToSet(Append(playlist, r)) = ToSet(playlist) \union {r}
    BY <2>1, <2>2, Appended
  <2> QED
    BY <1>1, <2>2, <2>3
<1>3. SpeechTypes' /\ SpeechOnce' /\ OpenFileTells'
  BY <1>1 DEF SpeechTypes, SpeechOnce, OpenFileTells, spoken
<1>4. PlayerTypes'
  BY <1>1, <1>2 DEF PlayerTypes, player
<1>5. OnlyMadePlayed'
  BY <1>1, <1>2 DEF OnlyMadePlayed, Made, player, spoken
<1>6. PlayerFollows'
  BY <1>1 DEF PlayerFollows, Player!BuffersFollow, Player!DoneAtEnd, player
<1> QED
  BY <1>3, <1>4, <1>5, <1>6 DEF IInv, TypeOK

\* At least 256 bytes, and so many packets.
LEMMA PacketsFit ==
  ASSUME NEW f \in File
  PROVE  Player!NumPktsToRead(Packets[f]) \in Nat
<1> DEFINE m == Packets[f]
           size == IF m.frames # 0 THEN (m.rate * m.maxPkt) \div m.frames
                   ELSE IF 1024 > m.maxPkt THEN 1024 ELSE m.maxPkt
           buf == Player!BufSize(m)
<1>1. m.rate \in Nat /\ m.frames \in Nat /\ m.maxPkt \in Nat /\ m.maxPkt # 0
  <2>1. Packets[f] \in [rate : Nat, frames : Nat, maxPkt : Nat \ {0}]
    BY PlaybackConstants DEF File
  <2> QED
    BY <2>1
<1>2. \A a, b \in Nat : (a * b \in Nat) /\ (b # 0 => a \div b \in Nat)
  OBVIOUS
<1>3. size \in Nat
  BY <1>1, <1>2
<1>4. buf \in {1024, 256, size}
  BY DEF Player!BufSize
<1>5. buf \in Nat
  BY <1>3, <1>4
<1> HIDE DEF buf
<1>6. buf \div m.maxPkt \in Nat
  BY <1>1, <1>2, <1>5
<1> QED
  BY <1>6 DEF Player!NumPktsToRead, buf

LEMMA PlayKeeps == IInv /\ Play => IInv'
<1> SUFFICES ASSUME IInv, Play PROVE IInv'
  OBVIOUS
<1>1. /\ SpeechTypes /\ PlayerTypes /\ SpeechOnce /\ OpenFileTells /\ OnlyMadePlayed /\ PlayerFollows
      /\ playlist # <<>> /\ playlist' = Tail(playlist) /\ UNCHANGED <<disk, spoken>>
      /\ pc = "closed" /\ UNCHANGED <<busy, locked>>
      /\ Player!Opens(Head(playlist)) \/ Player!OpenFails(Head(playlist))
  BY DEF IInv, TypeOK, Play, Player!Opens, Player!OpenFails
<1>2. /\ Head(playlist) \in File /\ playlist' \in Seq(File)
      /\ ToSet(playlist) = {Head(playlist)} \union ToSet(playlist')
  BY <1>1, Taken DEF PlayerTypes
<1>3. SpeechTypes' /\ SpeechOnce' /\ OpenFileTells'
  BY <1>1 DEF SpeechTypes, SpeechOnce, OpenFileTells, spoken
<1>4. \A f : Made(f)' <=> Made(f)
  BY <1>1 DEF Made, spoken
<1>5. CASE Player!OpenFails(Head(playlist))
  <2>1. UNCHANGED player
    BY <1>5 DEF Player!OpenFails, player
  <2>2. PlayerTypes'
    BY <1>1, <1>2, <2>1 DEF PlayerTypes, player
  <2>3. OnlyMadePlayed'
    BY <1>1, <1>2, <1>4, <2>1 DEF OnlyMadePlayed, player
  <2>4. PlayerFollows'
    BY <1>1, <2>1 DEF PlayerFollows, Player!BuffersFollow, Player!DoneAtEnd, player
  <2> QED
    BY <1>3, <2>2, <2>3, <2>4 DEF IInv, TypeOK
<1>6. CASE Player!Opens(Head(playlist))
  <2>1. /\ pc' = "priming" /\ file' = Head(playlist) /\ numPkts' = Player!NumPktsToRead(Packets[Head(playlist)])
        /\ pktPos' = 0 /\ isDone' = FALSE /\ primed' = 0 /\ enqueued' = <<>> /\ heard' = <<>>
    BY <1>6 DEF Player!Opens
  <2>2. file' \in File /\ file' # NoPlay /\ numPkts' \in Nat
    BY <1>2, <2>1, PacketsFit, PlaybackConstants DEF File
  <2>3. \A S : <<>> \in Seq(S) /\ Len(<<>>) = 0
    BY EmptySeq
  <2>4. PlayerTypes'
    BY <1>1, <1>2, <2>1, <2>2, <2>3 DEF PlayerTypes, Player!NBUFFERS
  <2>5. OnlyMadePlayed'
    BY <1>1, <1>2, <1>4, <2>1 DEF OnlyMadePlayed
  <2>6. PlayerFollows'
    <3> DEFINE d == disk'[file'].data
    <3>1. d \in Seq(Sound) /\ Len(d) \in Nat /\ 0 \in 0 .. Len(d)
      <4>1. d \in Seq(Sound)
        BY <1>3, <2>2 DEF SpeechTypes
      <4> QED
        BY <4>1, LenProperties
    <3>2. Player!Consecutive(d, 0, <<>>, 0)
      BY <3>1, NothingEnqueued
    <3>3. SubSeq(d, 1, 0) = <<>>
      BY SubSeqEmpty
    <3>4. Player!BuffersFollow'
      BY <2>1, <2>3, <3>1, <3>2, <3>3 DEF Player!BuffersFollow
    <3>5. Player!DoneAtEnd'
      BY <2>1 DEF Player!DoneAtEnd
    <3> QED
      BY <3>4, <3>5 DEF PlayerFollows
  <2> QED
    BY <1>3, <2>4, <2>5, <2>6 DEF IInv, TypeOK
<1> QED
  BY <1>1, <1>5, <1>6

LEMMA PlayingKeeps == IInv /\ Playing => IInv'
<1> SUFFICES ASSUME IInv, Playing PROVE IInv'
  OBVIOUS
<1>1. /\ SpeechTypes /\ PlayerTypes /\ SpeechOnce /\ OpenFileTells /\ OnlyMadePlayed /\ PlayerFollows
      /\ UNCHANGED <<disk, spoken, playlist, busy, locked>> /\ Player!PlayerStep
  BY DEF IInv, TypeOK, Playing, playback, Player!PlayerStep, Player!Prime, Player!AllocateFails, Player!Start,
         Player!BufferPlayed, Player!LoopEnds, Player!FlushEnds, Player!Return
<1>2. SpeechTypes' /\ SpeechOnce' /\ OpenFileTells'
  BY <1>1 DEF SpeechTypes, SpeechOnce, OpenFileTells, spoken
<1>3. \A f : Made(f)' <=> Made(f)
  BY <1>1 DEF Made, spoken
<1>4. CASE Player!AllocateFails \/ Player!FlushEnds
  <2>1. /\ pc' = "closed" /\ file' = NoPlay /\ numPkts' = 0 /\ pktPos' = 0 /\ primed' = 0
        /\ enqueued' = <<>> /\ heard' = <<>>
    BY <1>4 DEF Player!AllocateFails, Player!FlushEnds, Player!Return
  <2>2. \A S : <<>> \in Seq(S) /\ Len(<<>>) = 0
    BY EmptySeq
  <2>3. PlayerTypes'
    BY <1>1, <2>1, <2>2 DEF PlayerTypes, Player!NBUFFERS
  <2>4. OnlyMadePlayed' /\ PlayerFollows'
    BY <1>1, <1>3, <2>1 DEF OnlyMadePlayed, PlayerFollows
  <2> QED
    BY <1>2, <2>3, <2>4 DEF IInv, TypeOK
\* The file stays open.
<1>5. CASE Player!Prime \/ Player!Start \/ Player!BufferPlayed \/ Player!LoopEnds
  <2>1. /\ pc # "closed" /\ pc' # "closed" /\ pc' \in {"priming", "running", "flushing"}
        /\ file' = file /\ numPkts' = numPkts /\ file # NoPlay
    BY <1>1, <1>5 DEF Player!Prime, Player!Start, Player!BufferPlayed, Player!LoopEnds, PlayerTypes
  <2>2. OnlyMadePlayed'
    BY <1>1, <1>3, <2>1 DEF OnlyMadePlayed
  <2> DEFINE d == disk[file].data
  <2>3. d \in Seq(Sound) /\ Len(d) \in Nat
    <3>1. d \in Seq(Sound)
      BY <1>1, <2>1 DEF SpeechTypes, PlayerTypes
    <3> QED
      BY <3>1, LenProperties
  <2>4. CASE Player!Start \/ Player!LoopEnds
    <3>1. UNCHANGED <<primed, enqueued, heard, pktPos, isDone>> /\ (pc' = "flushing" => isDone) /\ pc' # "priming"
      BY <2>4 DEF Player!Start, Player!LoopEnds
    <3>2. PlayerTypes'
      BY <1>1, <2>1, <3>1 DEF PlayerTypes
    <3>3. PlayerFollows'
      BY <1>1, <2>1, <3>1 DEF PlayerFollows, Player!BuffersFollow, Player!DoneAtEnd
    <3> QED
      BY <1>2, <2>2, <3>2, <3>3 DEF IInv, TypeOK
  <2>5. CASE Player!Prime
    <3>1. /\ pc = "priming" /\ pc' = pc /\ primed < Player!NBUFFERS /\ primed' = primed + 1
          /\ Player!Callback(numPkts, enqueued) /\ heard' = heard /\ isDone' \in {isDone, TRUE}
      BY <2>5 DEF Player!Prime, Player!Callback
    <3>2. enqueued \in Seq(Seq(Sound)) /\ Len(enqueued) \in Nat /\ heard \in Seq(Sound) /\ Len(heard) \in Nat
      BY <1>1, LenProperties DEF PlayerTypes
    <3>3. /\ pktPos' \in Nat /\ enqueued' \in Seq(Seq(Sound)) /\ Len(enqueued') <= Len(enqueued) + 1
          /\ pktPos <= Len(d) =>
               /\ \A from \in Nat : Player!Consecutive(d, from, enqueued, pktPos) =>
                    Player!Consecutive(d, from, enqueued', pktPos')
               /\ (isDone /\ numPkts # 0 => AtEnd(d, pktPos)) =>
                    (isDone' /\ numPkts # 0 => AtEnd(d, pktPos'))
      BY <1>1, <2>1, <3>1, <3>2, CallbackReads
    <3>4. PlayerTypes'
      <4>1. Len(enqueued) <= primed /\ primed \in 0 .. 3 /\ primed < 3
        BY <1>1, <3>1 DEF PlayerTypes, Player!NBUFFERS
      <4>2. Len(enqueued') \in Nat
        BY <3>3, LenProperties
      <4>3. primed' \in 0 .. 3 /\ Len(enqueued') <= primed' /\ Len(enqueued') <= 3
        BY <3>1, <3>2, <3>3, <4>1, <4>2
      <4> QED
        BY <1>1, <2>1, <3>1, <3>3, <4>3 DEF PlayerTypes, Player!NBUFFERS
    <3>5. PlayerFollows'
      <4> SUFFICES ASSUME file \notin Overwritten \union {NoPlay}
                   PROVE  (Player!BuffersFollow /\ Player!DoneAtEnd)'
        BY <2>1 DEF PlayerFollows
      <4>1. Player!BuffersFollow /\ Player!DoneAtEnd
        BY <1>1 DEF PlayerFollows
      <4>2. pktPos <= Len(d)
        BY <2>3, <3>2, <4>1, ConsecutiveEnds DEF Player!BuffersFollow
      <4>3. Player!BuffersFollow'
        BY <1>1, <2>1, <3>1, <3>2, <3>3, <4>1, <4>2 DEF Player!BuffersFollow
      <4>4. Player!DoneAtEnd'
        BY <1>1, <2>1, <3>1, <3>3, <4>1, <4>2 DEF Player!DoneAtEnd, AtEnd
      <4> QED
        BY <4>3, <4>4
    <3> QED
      BY <1>2, <2>2, <3>4, <3>5 DEF IInv, TypeOK
  <2>6. CASE Player!BufferPlayed
    <3> DEFINE q == Tail(enqueued)
    <3>1. /\ enqueued # <<>> /\ pc' = pc /\ pc # "priming" /\ primed' = primed
          /\ Player!Callback(numPkts, q) /\ heard' = heard \o Head(enqueued)
          /\ isDone' \in {isDone, TRUE}
      BY <2>6 DEF Player!BufferPlayed, Player!Callback
    <3>2. /\ enqueued \in Seq(Seq(Sound)) /\ q \in Seq(Seq(Sound)) /\ Head(enqueued) \in Seq(Sound)
          /\ Len(q) \in Nat /\ Len(enqueued) = Len(q) + 1
      <4>1. enqueued \in Seq(Seq(Sound))
        BY <1>1 DEF PlayerTypes
      <4>2. /\ q \in Seq(Seq(Sound)) /\ Head(enqueued) \in Seq(Sound)
            /\ Len(enqueued) \in Nat /\ Len(enqueued) > 0 /\ Len(q) = Len(enqueued) - 1
        BY <3>1, <4>1, Taken
      <4> QED
        BY <4>1, <4>2
    <3> HIDE DEF q
    <3>3. /\ pktPos' \in Nat /\ enqueued' \in Seq(Seq(Sound)) /\ Len(enqueued') <= Len(q) + 1
          /\ pktPos <= Len(d) =>
               /\ \A from \in Nat : Player!Consecutive(d, from, q, pktPos) =>
                    Player!Consecutive(d, from, enqueued', pktPos')
               /\ (isDone /\ numPkts # 0 => AtEnd(d, pktPos)) =>
                    (isDone' /\ numPkts # 0 => AtEnd(d, pktPos'))
      BY <1>1, <2>1, <3>1, <3>2, CallbackReads
    <3>4. PlayerTypes'
      <4>1. heard' \in Seq(Sound)
        BY <1>1, <3>1, <3>2, ConcatProperties DEF PlayerTypes
      <4>2. Len(enqueued') \in Nat
        BY <3>3, LenProperties
      <4>3. Len(enqueued') <= 3
        BY <1>1, <3>2, <3>3, <4>2 DEF PlayerTypes, Player!NBUFFERS
      <4> QED
        BY <1>1, <2>1, <3>1, <3>3, <4>1, <4>3 DEF PlayerTypes, Player!NBUFFERS
    <3>5. PlayerFollows'
      <4> SUFFICES ASSUME file \notin Overwritten \union {NoPlay}
                   PROVE  (Player!BuffersFollow /\ Player!DoneAtEnd)'
        BY <2>1 DEF PlayerFollows
      <4>1. Player!BuffersFollow /\ Player!DoneAtEnd
        BY <1>1 DEF PlayerFollows
      <4>2. pktPos <= Len(d)
        BY <2>3, <3>2, <4>1, ConsecutiveEnds DEF Player!BuffersFollow
      <4> DEFINE h == Len(heard)
      <4>3. /\ h \in 0 .. Len(d) /\ heard = SubSeq(d, 1, h)
            /\ \E m \in h .. Len(d) :
                 Head(enqueued) = SubSeq(d, h + 1, m) /\ Player!Consecutive(d, m, q, pktPos)
        BY <2>3, <3>1, <3>2, <4>1, OneLessEnqueued DEF Player!BuffersFollow, q
      <4>4. PICK m \in h .. Len(d) : Head(enqueued) = SubSeq(d, h + 1, m) /\ Player!Consecutive(d, m, q, pktPos)
        BY <4>3
      <4> HIDE DEF h
      <4>5. heard' = SubSeq(d, 1, m) /\ Len(heard') = m /\ m \in Nat /\ m <= Len(d)
        <5>1. SubSeq(d, 1, h) \o SubSeq(d, h + 1, m) = SubSeq(d, 1, m)
          <6>1. 1 \in 1 .. Len(d) + 1 /\ h \in 1 - 1 .. Len(d)
            BY <2>3, <4>3
          <6> QED
            BY <2>3, <6>1, ConcatAdjacentSubSeq
        <5>2. m \in Nat /\ m <= Len(d) /\ 0 \in Nat /\ 0 <= m /\ 0 + 1 = 1 /\ m - 0 = m
          BY <2>3, <4>3
        <5>3. Len(SubSeq(d, 0 + 1, m)) = m - 0
          BY <2>3, <5>2, SubSeqIn
        <5> QED
          BY <3>1, <4>3, <4>4, <5>1, <5>2, <5>3
      <4>6. Player!Consecutive(d, m, enqueued', pktPos')
        BY <3>3, <4>2, <4>4, <4>5
      <4>7. Player!BuffersFollow'
        BY <1>1, <2>1, <4>5, <4>6 DEF Player!BuffersFollow
      <4>8. Player!DoneAtEnd'
        BY <1>1, <2>1, <3>1, <3>3, <4>1, <4>2 DEF Player!DoneAtEnd, AtEnd
      <4> QED
        BY <4>7, <4>8
    <3> QED
      BY <1>2, <2>2, <3>4, <3>5 DEF IInv, TypeOK
  <2> QED
    BY <1>5, <2>4, <2>5, <2>6
<1> QED
  BY <1>1, <1>4, <1>5 DEF Player!PlayerStep

\* OnFinish: only mut_ is locked.
LEMMA OnFinishKeeps == IInv /\ OnFinish => IInv'
<1> SUFFICES ASSUME IInv, OnFinish PROVE IInv'
  OBVIOUS
<1>1. UNCHANGED <<disk, playlist, busy>> /\ UNCHANGED spoken /\ UNCHANGED player /\ locked' = TRUE
  BY DEF OnFinish
<1>2. SpeechTypes' /\ SpeechOnce' /\ OpenFileTells'
  BY <1>1 DEF IInv, TypeOK, SpeechTypes, SpeechOnce, OpenFileTells, spoken
<1>3. PlayerTypes'
  BY <1>1 DEF IInv, TypeOK, PlayerTypes, player
<1>4. OnlyMadePlayed' /\ PlayerFollows'
  BY <1>1 DEF IInv, OnlyMadePlayed, Made, PlayerFollows, Player!BuffersFollow, Player!DoneAtEnd,
              player, spoken
<1> QED
  BY <1>2, <1>3, <1>4 DEF IInv, TypeOK

LEMMA InvStep == IInv /\ [Next]_vars => IInv'
<1>1. CASE Speak
  BY <1>1, SpeakKeeps
<1>2. CASE Play
  BY <1>2, PlayKeeps
<1>3. CASE Playing
  BY <1>3, PlayingKeeps
<1>4. CASE \E r \in Recording : PushRecording(r)
  BY <1>4, PushRecordingKeeps
<1>5. ASSUME UNCHANGED vars, IInv PROVE IInv'
  <2>1. UNCHANGED <<disk, playlist, busy, locked>> /\ UNCHANGED spoken /\ UNCHANGED player
    BY <1>5 DEF vars, playback
  <2>2. SpeechTypes' /\ SpeechOnce' /\ OpenFileTells'
    BY <1>5, <2>1 DEF IInv, TypeOK, SpeechTypes, SpeechOnce, OpenFileTells, spoken
  <2>3. PlayerTypes'
    BY <1>5, <2>1 DEF IInv, TypeOK, PlayerTypes, player
  <2>4. OnlyMadePlayed'
    BY <1>5, <2>1 DEF IInv, OnlyMadePlayed, Made, player, spoken
  <2>5. PlayerFollows'
    BY <1>5, <2>1 DEF IInv, PlayerFollows, Player!BuffersFollow, Player!DoneAtEnd, player
  <2> QED
    BY <2>2, <2>3, <2>4, <2>5 DEF IInv, TypeOK
<1>6. CASE OnFinish
  BY <1>6, OnFinishKeeps
<1> QED
  BY <1>1, <1>2, <1>3, <1>4, <1>5, <1>6 DEF Next

\* What is spoken and played is what the threads, the synthesiser and the buffers make it
\* to be, in every reachable state (macttsqueue.mm:47-130, playbackutil.hpp:80-185).
THEOREM InvariantHolds == Spec => []IInv
<1> QED
  BY InvInit, InvStep, PTL DEF Spec

-----------------------------------------------------------------------------
(* What is heard *)

\* A file that is played is heard from its beginning, with nothing left out or repeated,
\* and what waits in the buffers comes next, whichever calls of the player fail
\* (playbackutil.hpp:80-128), for any file but those written twice.
THEOREM HeardInOrder == Spec => []PlayedInOrder
<1>1. IInv => PlayedInOrder
  <2> SUFFICES ASSUME IInv, file \notin Overwritten \union {NoPlay} PROVE Player!PlayedInOrder
    BY DEF PlayedInOrder
  <2> DEFINE d == disk[file].data
             h == Len(heard)
  <2>1. /\ d \in Seq(Sound) /\ Len(d) \in Nat /\ heard \in Seq(Sound) /\ h \in Nat
        /\ enqueued \in Seq(Seq(Sound)) /\ Len(enqueued) <= 3
    <3>1. file \in File
      BY DEF IInv, TypeOK, PlayerTypes
    <3>2. d \in Seq(Sound) /\ heard \in Seq(Sound)
      BY <3>1 DEF IInv, TypeOK, SpeechTypes, PlayerTypes
    <3> QED
      BY <3>2, LenProperties DEF IInv, TypeOK, PlayerTypes, Player!NBUFFERS
  <2>2. h <= Len(d) /\ heard = SubSeq(d, 1, h) /\ Player!Consecutive(d, h, enqueued, pktPos)
    BY DEF IInv, PlayerFollows, Player!BuffersFollow
  <2> HIDE DEF d, h
  <2>3. h \in 0 .. Len(d)
    BY <2>1, <2>2
  <2>4. SubSeq(d, 1, h) \o FlattenSeq(enqueued) = SubSeq(d, 1, pktPos)
    BY <2>1, <2>2, <2>3, HeardAndWaiting
  <2>5. SubSeq(heard, 1, h) = heard
    BY <2>1, SubSeqFull DEF h
  <2>6. Player!IsPrefix(heard, d)
    BY <2>2, <2>5 DEF Player!IsPrefix, h
  <2>7. heard \o Player!FlattenSeq(enqueued) = SubSeq(d, 1, pktPos)
    <3>1. Player!FlattenSeq(enqueued) = FlattenSeq(enqueued)
      BY Zenon DEF Player!FlattenSeq, FlattenSeq
    <3> QED
      BY <2>2, <2>4, <3>1
  <2> QED
    BY <2>6, <2>7 DEF Player!PlayedInOrder, d
<1> QED
  BY <1>1, InvariantHolds, PTL

\* When OpenFile gets to its end the whole file was heard, if the output started, every
\* packet fits a buffer and READ_BYTES, and the flush is long enough for two buffers
\* (playbackutil.hpp:46-59, :80-94, :169-200).
THEOREM HeardToItsEnd == Spec => PlayedWhole
<1>1. IInv /\ [Next]_vars => [file \notin Overwritten => Player!PlayedToItsEnd]_player
  <2> SUFFICES ASSUME IInv, [Next]_vars, file \notin Overwritten,
                      pc = "flushing", pc' = "closed", started, numPkts # 0,
                      ToSet(disk[file].data) \intersect Large = {},
                      ~Player!Slow(Packets[file])
               PROVE  heard = disk[file].data
    BY DEF Player!PlayedToItsEnd, Player!ToSet, ToSet
  <2>1. Player!FlushEnds
    <3>1. pc' # pc
      OBVIOUS
    <3>2. ~Speak /\ (\A r \in Recording : ~PushRecording(r)) /\ ~OnFinish /\ ~UNCHANGED vars
      BY <3>1 DEF Speak, PushRecording, OnFinish, vars, player
    <3>3. ~Play
      BY DEF Play, Player!Opens, Player!OpenFails
    <3>4. Playing
      BY <3>2, <3>3 DEF Next
    <3> QED
      BY <3>4 DEF Playing, Player!PlayerStep, Player!Prime, Player!AllocateFails, Player!Start,
                  Player!BufferPlayed, Player!LoopEnds
  <2>2. enqueued = <<>>
    BY <2>1 DEF Player!FlushEnds
  <2> DEFINE d == disk[file].data
             h == Len(heard)
  <2>3. file \in File /\ file # NoPlay
    BY DEF IInv, TypeOK, PlayerTypes
  <2>4. d \in Seq(Sound) /\ Len(d) \in Nat /\ heard \in Seq(Sound) /\ h \in Nat
    <3>1. d \in Seq(Sound) /\ heard \in Seq(Sound)
      BY <2>3 DEF IInv, TypeOK, SpeechTypes, PlayerTypes
    <3> QED
      BY <3>1, LenProperties
  <2>5. /\ h <= Len(d) /\ heard = SubSeq(d, 1, h) /\ Player!Consecutive(d, h, <<>>, pktPos)
        /\ pktPos = Len(d)
    <3>1. ~Player!TooLarge(d, pktPos)
      <4>1. pktPos \in Nat
        BY DEF IInv, TypeOK, PlayerTypes
      <4> HIDE DEF d
      <4>2. pktPos < Len(d) => pktPos + 1 \in 1 .. Len(d)
        BY <2>4, <4>1
      <4>3. \A i \in 1 .. Len(d) : d[i] \notin Large
        BY <2>4 DEF ToSet, d
      <4> QED
        BY <4>2, <4>3 DEF Player!TooLarge
    <3> QED
      BY <2>2, <2>3, <3>1 DEF IInv, PlayerFollows, Player!BuffersFollow, Player!DoneAtEnd
  <2> HIDE DEF d, h
  <2>6. h = Len(d)
    <3>1. h \in 0 .. Len(d)
      BY <2>4, <2>5
    <3> QED
      BY <2>4, <2>5, <3>1, NothingEnqueued
  <2>7. SubSeq(d, 1, Len(d)) = d
    BY <2>4, SubSeqFull
  <2> QED
    BY <2>5, <2>6, <2>7 DEF d
<1> QED
  BY <1>1, InvariantHolds, PTL DEF Spec, PlayedWhole

-----------------------------------------------------------------------------
(* What is completed *)

\* The setters, in the order the callback calls them, leave a header that is consistent.
LEMMA HeaderDescribes ==
  ASSUME NEW v \in Version, NEW t \in Text, v = version, NEW n \in Nat,
         Format[v][t] # NoFormat, Format[v][t].channels = 1
  PROVE  Wav!Describes(Header(t, n), Format[v][t], n)
<1> DEFINE f == Format[v][t]
<1>1. f.sampleRate \in Nat /\ f.bits \in {16, 32} /\ f.channels = 1
  <2>1. f \in [sampleRate : Nat, channels : Nat, bits : {16, 32}]
    BY SpeechConstants
  <2> QED
    BY <2>1
<1> DEFINE h0 == Wav!New(v)
           h1 == Wav!SetPcmDataSize(h0, n)
           h2 == Wav!SetSampleRate(h1, f.sampleRate)
           h3 == Wav!SetNumChannels(h2, f.channels)
           h4 == Wav!SetBitsPerSample(h3, f.bits)
<1>2. Header(t, n) = h4
  BY DEF Header
<1> DEFINE Field == {"audioFormat", "bitsPerSample", "numChannels", "sampleRate",
                     "bytesPerSec", "blockAlign", "pcmDataSize", "chunkSize"}
<1>3. DOMAIN h0 = Field
  BY DEF Wav!New
<1> HIDE DEF h0
<1>4. DOMAIN h1 = Field /\ h1.pcmDataSize = n /\ h1.chunkSize = n + 36
  BY <1>3 DEF Wav!SetPcmDataSize
<1> HIDE DEF h1
<1>5. DOMAIN h2 = Field /\ h2.pcmDataSize = n /\ h2.chunkSize = n + 36 /\ h2.sampleRate = f.sampleRate
  BY <1>4 DEF Wav!SetSampleRate
<1> HIDE DEF h2
<1>6. /\ DOMAIN h3 = Field /\ h3.pcmDataSize = n /\ h3.chunkSize = n + 36
      /\ h3.sampleRate = f.sampleRate /\ h3.numChannels = f.channels
  BY <1>5 DEF Wav!SetNumChannels
<1> HIDE DEF h3
<1>7. /\ h4.pcmDataSize = n /\ h4.chunkSize = n + 36
      /\ h4.sampleRate = f.sampleRate /\ h4.numChannels = f.channels
      /\ h4.bitsPerSample = f.bits /\ h4.blockAlign = f.bits \div 8
      /\ h4.bytesPerSec = (f.bits \div 8) * f.sampleRate
      /\ h4.audioFormat = IF f.bits = 32 THEN 3 ELSE 1
  <2>1. CASE f.bits = 16
    BY <1>6, <2>1 DEF Wav!SetBitsPerSample
  <2>2. CASE f.bits = 32
    BY <1>6, <2>2 DEF Wav!SetBitsPerSample
  <2> QED
    BY <1>1, <2>1, <2>2
<1> HIDE DEF h4
<1>8. f.bits \div 8 \in Nat
  BY <1>1
<1>9. f.channels * (f.bits \div 8) = f.bits \div 8
  BY <1>1, <1>8
<1>10. (f.bits \div 8) * f.sampleRate = f.sampleRate * (f.bits \div 8)
  BY <1>1, <1>8
<1> QED
  BY <1>2, <1>7, <1>9, <1>10 DEF Wav!Describes

\* The file onComplete is called for holds its text in order from the beginning, and unless
\* the disk is full all of it, behind a header that tells of just that
\* (macttsqueue.mm:87-130, wavheader.h:44-58).
THEOREM CompletedHolds == Spec => CompletedWhole
<1> DEFINE Holds ==
      LET t == completed'[Len(completed')]
          out == disk'[Filename[t]]
          format == Format[version][t]
      IN  /\ out.data = [i \in 1 .. Len(out.data) |-> <<t, i>>]
          /\ ~full =>
               /\ Len(out.data) = Buffers(t)
               /\ format # NoFormat /\ format.channels = 1 =>
                    Wav!Describes(out.header[1], format, Len(out.data) * PieceBytes)
<1>1. IInv /\ [Next]_vars => [completed' # completed => Holds]_completed
  <2> SUFFICES ASSUME IInv, [Next]_vars, completed' # completed PROVE Holds
    OBVIOUS
  <2>1. SpeechTypes /\ SpeechOnce /\ OpenFileTells /\ SpeechNext
    <3>1. ~Play /\ ~Playing /\ ~OnFinish /\ (\A r \in Recording : ~PushRecording(r)) /\ ~UNCHANGED vars
      BY DEF Play, Playing, OnFinish, PushRecording, vars, spoken
    <3> QED
      BY <3>1 DEF IInv, TypeOK, Next, Speak
  <2>2. PICK t \in Text, n \in Nat : Says(t, n)
    BY <2>1, SpeechKeeps
  <2> DEFINE out == disk'[Filename[t]]
  <2>3. /\ completed' = Append(completed, t)
        /\ out = FileOf(out.head, out.header, Spoken(t, n))
        /\ ~full => n = Buffers(t) /\ out.header = <<Header(t, n * PieceBytes)>>
    BY <2>2 DEF Says
  <2>4. completed'[Len(completed')] = t
    BY <2>1, <2>3, Appended DEF SpeechTypes
  <2>5. /\ out.data = Spoken(t, n) /\ Len(Spoken(t, n)) = n
        /\ ~full => out.header[1] = Header(t, n * PieceBytes)
    <3>1. FileOf(out.head, out.header, Spoken(t, n)).data = Spoken(t, n)
      BY DEF FileOf
    <3>2. Len(Spoken(t, n)) = n
      BY SpokenPieces
    <3> QED
      BY <2>3, <3>1, <3>2
  <2>6. Format[version][t] # NoFormat /\ Format[version][t].channels = 1 =>
          Wav!Describes(Header(t, n * PieceBytes), Format[version][t], n * PieceBytes)
    <3>1. n * PieceBytes \in Nat /\ version \in Version
      BY <2>1, SpeechConstants DEF SpeechTypes
    <3> QED
      BY <3>1, HeaderDescribes
  <2> HIDE DEF out
  <2>7. out.data = [i \in 1 .. Len(out.data) |-> <<t, i>>] /\ Len(out.data) = n
    BY <2>5 DEF Spoken
  <2> QED
    BY <2>3, <2>4, <2>5, <2>6, <2>7 DEF out
<1> QED
  BY <1>1, InvariantHolds, PTL DEF Spec, CompletedWhole
=============================================================================
