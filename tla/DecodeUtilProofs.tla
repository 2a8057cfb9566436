-------------------------- MODULE DecodeUtilProofs --------------------------
(***************************************************************************)
(* The decoder writes what was encoded, for every text that is padded as   *)
(* it should be.                                                           *)
(***************************************************************************)
EXTENDS DecodeUtil, FiniteSetTheorems, SequenceTheorems, TLAPS

\* A digit is the sum of its bits.
LEMMA SixBits ==
  ASSUME NEW v \in 0 .. 63
  PROVE  v = 32 * ((v \div 32) % 2) + 16 * ((v \div 16) % 2) + 8 * ((v \div 8) % 2)
             + 4 * ((v \div 4) % 2) + 2 * ((v \div 2) % 2) + ((v \div 1) % 2)
OBVIOUS

LEMMA HighBits ==
  ASSUME NEW v \in 0 .. 63
  PROVE  /\ v \div 16 = 2 * ((v \div 32) % 2) + ((v \div 16) % 2)
         /\ v \div 4 = 8 * ((v \div 32) % 2) + 4 * ((v \div 16) % 2) + 2 * ((v \div 8) % 2) + ((v \div 4) % 2)
         /\ v % 16 = 8 * ((v \div 8) % 2) + 4 * ((v \div 4) % 2) + 2 * ((v \div 2) % 2) + ((v \div 1) % 2)
         /\ v % 4 = 2 * ((v \div 2) % 2) + ((v \div 1) % 2)
OBVIOUS

\* Where the bits of three bytes are in four characters.
LEMMA BitAt ==
  ASSUME NEW text, NEW k \in Nat
  PROVE  /\ Bit(text, 24 * k) = (text[4 * k + 1] \div 32) % 2
         /\ Bit(text, 24 * k + 1) = (text[4 * k + 1] \div 16) % 2
         /\ Bit(text, 24 * k + 2) = (text[4 * k + 1] \div 8) % 2
         /\ Bit(text, 24 * k + 3) = (text[4 * k + 1] \div 4) % 2
         /\ Bit(text, 24 * k + 4) = (text[4 * k + 1] \div 2) % 2
         /\ Bit(text, 24 * k + 5) = (text[4 * k + 1] \div 1) % 2
         /\ Bit(text, 24 * k + 6) = (text[4 * k + 2] \div 32) % 2
         /\ Bit(text, 24 * k + 7) = (text[4 * k + 2] \div 16) % 2
         /\ Bit(text, 24 * k + 8) = (text[4 * k + 2] \div 8) % 2
         /\ Bit(text, 24 * k + 9) = (text[4 * k + 2] \div 4) % 2
         /\ Bit(text, 24 * k + 10) = (text[4 * k + 2] \div 2) % 2
         /\ Bit(text, 24 * k + 11) = (text[4 * k + 2] \div 1) % 2
         /\ Bit(text, 24 * k + 12) = (text[4 * k + 3] \div 32) % 2
         /\ Bit(text, 24 * k + 13) = (text[4 * k + 3] \div 16) % 2
         /\ Bit(text, 24 * k + 14) = (text[4 * k + 3] \div 8) % 2
         /\ Bit(text, 24 * k + 15) = (text[4 * k + 3] \div 4) % 2
         /\ Bit(text, 24 * k + 16) = (text[4 * k + 3] \div 2) % 2
         /\ Bit(text, 24 * k + 17) = (text[4 * k + 3] \div 1) % 2
         /\ Bit(text, 24 * k + 18) = (text[4 * k + 4] \div 32) % 2
         /\ Bit(text, 24 * k + 19) = (text[4 * k + 4] \div 16) % 2
         /\ Bit(text, 24 * k + 20) = (text[4 * k + 4] \div 8) % 2
         /\ Bit(text, 24 * k + 21) = (text[4 * k + 4] \div 4) % 2
         /\ Bit(text, 24 * k + 22) = (text[4 * k + 4] \div 2) % 2
         /\ Bit(text, 24 * k + 23) = (text[4 * k + 4] \div 1) % 2
BY DEF Bit

\* Three bytes are made of four characters.
LEMMA ByteAt ==
  ASSUME NEW text, NEW k \in Nat
  PROVE  /\ text[4 * k + 1] \in 0 .. 63 /\ text[4 * k + 2] \in 0 .. 63 =>
              Byte(text, 3 * k + 1) = text[4 * k + 1] * 4 + text[4 * k + 2] \div 16
         /\ text[4 * k + 2] \in 0 .. 63 /\ text[4 * k + 3] \in 0 .. 63 =>
              Byte(text, 3 * k + 2) = (text[4 * k + 2] % 16) * 16 + text[4 * k + 3] \div 4
         /\ text[4 * k + 3] \in 0 .. 63 /\ text[4 * k + 4] \in 0 .. 63 =>
              Byte(text, 3 * k + 3) = (text[4 * k + 3] % 4) * 64 + text[4 * k + 4]
<1> DEFINE a == text[4 * k + 1]
           b == text[4 * k + 2]
           c == text[4 * k + 3]
           d == text[4 * k + 4]
<1>1. /\ 8 * (3 * k + 1) - 8 = 24 * k /\ 8 * (3 * k + 1) - 7 = 24 * k + 1
      /\ 8 * (3 * k + 1) - 6 = 24 * k + 2 /\ 8 * (3 * k + 1) - 5 = 24 * k + 3
      /\ 8 * (3 * k + 1) - 4 = 24 * k + 4 /\ 8 * (3 * k + 1) - 3 = 24 * k + 5
      /\ 8 * (3 * k + 1) - 2 = 24 * k + 6 /\ 8 * (3 * k + 1) - 1 = 24 * k + 7
  OBVIOUS
<1>2. Byte(text, 3 * k + 1) =
        ((a \div 32) % 2) * 128 + ((a \div 16) % 2) * 64 + ((a \div 8) % 2) * 32 + ((a \div 4) % 2) * 16
        + ((a \div 2) % 2) * 8 + ((a \div 1) % 2) * 4 + ((b \div 32) % 2) * 2 + ((b \div 16) % 2)
  BY <1>1, BitAt DEF Byte
<1>3. /\ 8 * (3 * k + 2) - 8 = 24 * k + 8 /\ 8 * (3 * k + 2) - 7 = 24 * k + 9
      /\ 8 * (3 * k + 2) - 6 = 24 * k + 10 /\ 8 * (3 * k + 2) - 5 = 24 * k + 11
      /\ 8 * (3 * k + 2) - 4 = 24 * k + 12 /\ 8 * (3 * k + 2) - 3 = 24 * k + 13
      /\ 8 * (3 * k + 2) - 2 = 24 * k + 14 /\ 8 * (3 * k + 2) - 1 = 24 * k + 15
  OBVIOUS
<1>4. Byte(text, 3 * k + 2) =
        ((b \div 8) % 2) * 128 + ((b \div 4) % 2) * 64 + ((b \div 2) % 2) * 32 + ((b \div 1) % 2) * 16
        + ((c \div 32) % 2) * 8 + ((c \div 16) % 2) * 4 + ((c \div 8) % 2) * 2 + ((c \div 4) % 2)
  BY <1>3, BitAt DEF Byte
<1>5. /\ 8 * (3 * k + 3) - 8 = 24 * k + 16 /\ 8 * (3 * k + 3) - 7 = 24 * k + 17
      /\ 8 * (3 * k + 3) - 6 = 24 * k + 18 /\ 8 * (3 * k + 3) - 5 = 24 * k + 19
      /\ 8 * (3 * k + 3) - 4 = 24 * k + 20 /\ 8 * (3 * k + 3) - 3 = 24 * k + 21
      /\ 8 * (3 * k + 3) - 2 = 24 * k + 22 /\ 8 * (3 * k + 3) - 1 = 24 * k + 23
  OBVIOUS
<1>6. Byte(text, 3 * k + 3) =
        ((c \div 2) % 2) * 128 + ((c \div 1) % 2) * 64 + ((d \div 32) % 2) * 32 + ((d \div 16) % 2) * 16
        + ((d \div 8) % 2) * 8 + ((d \div 4) % 2) * 4 + ((d \div 2) % 2) * 2 + ((d \div 1) % 2)
  BY <1>5, BitAt DEF Byte
<1> HIDE DEF a, b, c, d
<1>7. ASSUME a \in 0 .. 63, b \in 0 .. 63 PROVE Byte(text, 3 * k + 1) = a * 4 + b \div 16
  <2>1. /\ a = 32 * ((a \div 32) % 2) + 16 * ((a \div 16) % 2) + 8 * ((a \div 8) % 2)
             + 4 * ((a \div 4) % 2) + 2 * ((a \div 2) % 2) + ((a \div 1) % 2)
        /\ b \div 16 = 2 * ((b \div 32) % 2) + ((b \div 16) % 2)
    BY <1>7, SixBits, HighBits
  <2> QED
    BY <1>2, <1>7, <2>1
<1>8. ASSUME b \in 0 .. 63, c \in 0 .. 63 PROVE Byte(text, 3 * k + 2) = (b % 16) * 16 + c \div 4
  <2>1. /\ b % 16 = 8 * ((b \div 8) % 2) + 4 * ((b \div 4) % 2) + 2 * ((b \div 2) % 2) + ((b \div 1) % 2)
        /\ c \div 4 = 8 * ((c \div 32) % 2) + 4 * ((c \div 16) % 2) + 2 * ((c \div 8) % 2) + ((c \div 4) % 2)
    BY <1>8, HighBits
  <2> QED
    BY <1>4, <1>8, <2>1
<1>9. ASSUME c \in 0 .. 63, d \in 0 .. 63 PROVE Byte(text, 3 * k + 3) = (c % 4) * 64 + d
  <2>1. /\ c % 4 = 2 * ((c \div 2) % 2) + ((c \div 1) % 2)
        /\ d = 32 * ((d \div 32) % 2) + 16 * ((d \div 16) % 2) + 8 * ((d \div 8) % 2)
             + 4 * ((d \div 4) % 2) + 2 * ((d \div 2) % 2) + ((d \div 1) % 2)
    BY <1>9, SixBits, HighBits
  <2> QED
    BY <1>6, <1>9, <2>1
<1> QED
  BY <1>7, <1>8, <1>9 DEF a, b, c, d

\* A clean text is digits, and up to two signs that are none at the end.
LEMMA CleanShape ==
  ASSUME NEW text \in Text, Clean(text)
  PROVE  \E q \in Nat, p \in 0 .. 2 :
           /\ Len(text) = 4 * q /\ p <= 4 * q /\ Padding(text) = p
           /\ \A i \in 1 .. (4 * q - p) : text[i] \in 0 .. 63
           /\ \A i \in (4 * q - p + 1) .. (4 * q) : text[i] = -1
<1> DEFINE L == Len(text)
           gaps == {i \in DOMAIN text : text[i] = -1}
<1>1. L \in Nat /\ DOMAIN text = 1 .. L /\ \A i \in 1 .. L : text[i] \in -2 .. 63
  BY LenProperties, ElementOfSeq DEF Text
<1>2. /\ L % 4 = 0
      /\ \A i \in 1 .. L : text[i] >= 0 \/ (text[i] = -1 /\ i >= L - 1)
      /\ L > 1 /\ text[L - 1] = -1 => text[L] = -1
  BY <1>1 DEF Clean
<1>3. Padding(text) = Cardinality(gaps) /\ gaps = {i \in 1 .. L : text[i] = -1}
  BY <1>1 DEF Padding
<1> HIDE DEF gaps, L
<1>4. PICK q \in Nat : L = 4 * q
  <2>1. L = 4 * (L \div 4) /\ L \div 4 \in Nat
    BY <1>1, <1>2
  <2> QED
    BY <2>1
<1>5. ASSUME NEW i \in 1 .. L PROVE text[i] \in 0 .. 63 \/ (text[i] = -1 /\ (i = L \/ i = L - 1))
  <2>1. text[i] \in -2 .. 63 /\ (text[i] >= 0 \/ (text[i] = -1 /\ i >= L - 1))
    BY <1>1, <1>2
  <2>2. i \in Int /\ i <= L
    BY <1>1
  <2>3. text[i] \in Int /\ -2 <= text[i] /\ text[i] <= 63
    BY <2>1
  <2>4. CASE text[i] >= 0
    BY <2>3, <2>4
  <2>5. CASE text[i] = -1 /\ i >= L - 1
    BY <1>1, <2>2, <2>5
  <2> QED
    BY <2>1, <2>4, <2>5
<1> DEFINE Shape(p) == /\ p <= 4 * q /\ Padding(text) = p
                       /\ \A i \in 1 .. (4 * q - p) : text[i] \in 0 .. 63
                       /\ \A i \in (4 * q - p + 1) .. (4 * q) : text[i] = -1
<1>6. ASSUME L = 0 \/ text[L] # -1 PROVE Shape(0)
  <2>1. ASSUME NEW i \in 1 .. L PROVE text[i] \in 0 .. 63
    <3>1. text[i] \in 0 .. 63 \/ (text[i] = -1 /\ (i = L \/ i = L - 1))
      BY <1>5
    <3>2. L \in Nat /\ L # 0 /\ L > 1 /\ text[L] # -1
      BY <1>1, <1>4, <1>6
    <3>3. text[L - 1] # -1
      BY <1>2, <3>2
    <3> QED
      BY <3>1, <3>2, <3>3
  <2>2. gaps = {}
    BY <1>3, <2>1
  <2>3. Padding(text) = 0
    BY <1>3, <2>2, FS_EmptySet
  <2> QED
    BY <1>4, <2>1, <2>3
<1>7. ASSUME L # 0, text[L] = -1, text[L - 1] # -1 PROVE Shape(1)
  <2>1. ASSUME NEW i \in 1 .. L PROVE text[i] \in 0 .. 63 \/ i = L
    BY <1>1, <1>5, <1>7
  <2>2. L \in 1 .. L
    BY <1>1, <1>7
  <2>3. gaps = {L}
    BY <1>3, <1>7, <2>1, <2>2
  <2>4. Padding(text) = 1
    BY <1>3, <2>3, FS_Singleton
  <2>5. \A i \in 1 .. (4 * q - 1) : text[i] \in 0 .. 63
    BY <1>4, <2>1
  <2>6. \A i \in (4 * q - 1 + 1) .. (4 * q) : text[i] = -1
    BY <1>4, <1>7
  <2> QED
    BY <1>1, <1>4, <1>7, <2>4, <2>5, <2>6
<1>8. ASSUME L # 0, text[L] = -1, text[L - 1] = -1 PROVE Shape(2)
  <2>1. ASSUME NEW i \in 1 .. L PROVE text[i] \in 0 .. 63 \/ i = L \/ i = L - 1
    BY <1>1, <1>5, <1>8
  <2>2. L \in 1 .. L /\ L - 1 \in 1 .. L /\ L > 2 /\ L - 1 # L
    BY <1>1, <1>4, <1>8
  <2>3. gaps = {L - 1} \union {L}
    BY <1>3, <1>8, <2>1, <2>2
  <2>4. Padding(text) = 2
    <3>1. IsFiniteSet({L - 1}) /\ Cardinality({L - 1}) = 1 /\ L \notin {L - 1}
      BY <2>2, FS_Singleton
    <3>2. Cardinality({L - 1} \union {L}) = 1 + 1
      BY <3>1, FS_AddElement
    <3> QED
      BY <1>3, <2>3, <3>2
  <2>5. \A i \in 1 .. (4 * q - 2) : text[i] \in 0 .. 63
    BY <1>4, <2>1
  <2>6. \A i \in (4 * q - 2 + 1) .. (4 * q) : text[i] = -1
    BY <1>4, <1>8
  <2> QED
    BY <1>1, <1>4, <2>2, <2>4, <2>5, <2>6
<1>9. \E p \in 0 .. 2 : Shape(p)
  BY <1>6, <1>7, <1>8
<1> QED
  BY <1>4, <1>9 DEF L

LEMMA QuadAt ==
  ASSUME NEW text \in Text, NEW q \in Nat, Len(text) = 4 * q, NEW k \in 0 .. (q - 1)
  PROVE  \A j \in 1 .. 4 : Quad(text, k + 1)[j] = text[4 * k + j]
<1> DEFINE m == 4 * (k + 1) - 3
           n == 4 * (k + 1)
<1>1. m \in Int /\ n \in Int /\ m = 4 * k + 1 /\ n = 4 * k + 4 /\ n - m + 1 = 4 /\ m .. n \subseteq 1 .. 4 * q
  OBVIOUS
<1> HIDE DEF m, n
<1>2. \A i \in m .. n : text[i] \in -2 .. 63
  BY <1>1, ElementOfSeq DEF Text
<1>3. \A j \in 1 .. (n - m + 1) : SubSeq(text, m, n)[j] = text[m + j - 1]
  BY <1>1, <1>2, SubSeqProperties
<1>4. \A j \in 1 .. 4 : m + j - 1 = 4 * k + j
  BY <1>1
<1> QED
  BY <1>1, <1>3, <1>4 DEF Quad, m, n

\* Only the last two characters of a clean text are no digits.
LEMMA CleanQuad ==
  ASSUME NEW text, NEW q \in Nat, NEW p \in 0 .. 2, NEW k \in 0 .. (q - 1),
         \A i \in 1 .. (4 * q - p) : text[i] \in 0 .. 63,
         \A i \in (4 * q - p + 1) .. (4 * q) : text[i] = -1
  PROVE  /\ text[4 * k + 1] \in 0 .. 63 /\ text[4 * k + 2] \in 0 .. 63
         /\ k = q - 1 /\ p = 2 => text[4 * k + 3] = -1
         /\ ~(k = q - 1 /\ p = 2) => text[4 * k + 3] \in 0 .. 63
         /\ k = q - 1 /\ p # 0 => text[4 * k + 4] = -1
         /\ ~(k = q - 1 /\ p # 0) => text[4 * k + 4] \in 0 .. 63
<1>1. 4 * k + 1 \in 1 .. (4 * q - p) /\ 4 * k + 2 \in 1 .. (4 * q - p)
  OBVIOUS
<1>2. IF k = q - 1 /\ p = 2 THEN 4 * k + 3 \in (4 * q - p + 1) .. (4 * q) ELSE 4 * k + 3 \in 1 .. (4 * q - p)
  OBVIOUS
<1>3. IF k = q - 1 /\ p # 0 THEN 4 * k + 4 \in (4 * q - p + 1) .. (4 * q) ELSE 4 * k + 4 \in 1 .. (4 * q - p)
  OBVIOUS
<1> QED
  BY <1>1, <1>2, <1>3

\* Every quadruple of a clean text is written, in its place.
LEMMA CleanWritten ==
  ASSUME NEW text \in Text, Clean(text), NEW q \in Nat, NEW p \in 0 .. 2,
         Len(text) = 4 * q, p <= 4 * q,
         \A i \in 1 .. (4 * q - p) : text[i] \in 0 .. 63,
         \A i \in (4 * q - p + 1) .. (4 * q) : text[i] = -1
  PROVE  /\ DOMAIN DecodeAndWrite(text) = 1 .. 3 * q /\ Len(DecodeAndWrite(text)) = 3 * q
         /\ \A k \in 0 .. (q - 1), r \in 0 .. 2 :
              DecodeAndWrite(text)[3 * k + r + 1] = Bytes(Quad(text, k + 1))[r + 1]
<1>1. Len(text) % 4 = 0 /\ Len(text) \div 4 = q /\ (Len(text) * 3) \div 4 = 3 * q
  OBVIOUS
<1>2. Decoded(text) = 1 .. q
  <2>1. ASSUME NEW i \in 1 .. q PROVE ~Skipped(Quad(text, i))
    <3> DEFINE k == i - 1
    <3>1. k \in 0 .. (q - 1) /\ i = k + 1
      OBVIOUS
    <3> HIDE DEF k
    <3>2. \A j \in 1 .. 4 : Quad(text, i)[j] = text[4 * k + j]
      BY <3>1, QuadAt
    <3>3. /\ text[4 * k + 1] \in 0 .. 63 /\ text[4 * k + 2] \in 0 .. 63
          /\ text[4 * k + 3] \in 0 .. 63 \/ text[4 * k + 3] = -1
          /\ text[4 * k + 4] \in 0 .. 63 \/ text[4 * k + 4] = -1
      BY <3>1, CleanQuad
    <3>6. /\ Quad(text, i)[1] = text[4 * k + 1] /\ Quad(text, i)[2] = text[4 * k + 2]
          /\ Quad(text, i)[3] = text[4 * k + 3] /\ Quad(text, i)[4] = text[4 * k + 4]
      BY <3>2
    <3> DEFINE a == text[4 * k + 1]
               b == text[4 * k + 2]
               c == text[4 * k + 3]
               d == text[4 * k + 4]
    <3>7. /\ Quad(text, i)[1] = a /\ Quad(text, i)[2] = b /\ Quad(text, i)[3] = c /\ Quad(text, i)[4] = d
          /\ a \in 0 .. 63 /\ b \in 0 .. 63 /\ (c \in 0 .. 63 \/ c = -1) /\ (d \in 0 .. 63 \/ d = -1)
      BY <3>3, <3>6
    <3> HIDE DEF a, b, c, d
    <3> DEFINE Padded == -1 .. 63
    <3>0. /\ -1 \in Padded /\ \A x \in 0 .. 63 : x \in Padded
          /\ \A x \in Padded : x \in Int /\ x >= -1
      OBVIOUS
    <3> HIDE DEF Padded
    <3>13. c \in Padded /\ d \in Padded
      BY <3>0, <3>7, Zenon
    <3>8. a \in Int /\ b \in Int /\ a >= 0 /\ b >= 0
      BY <3>7
    <3>9. c \in Int /\ c >= -1
      BY <3>0, <3>13
    <3>10. d \in Int /\ d >= -1
      BY <3>0, <3>13
    <3>11. ~(a < 0) /\ ~(b < 0) /\ ~(c < -1) /\ ~(d < -1)
      BY <3>8, <3>9, <3>10
    <3> QED
      BY <3>7, <3>11 DEF Skipped
  <2> QED
    BY <1>1, <2>1 DEF Decoded
<1>3. ASSUME NEW i \in 1 .. q PROVE Before(text, i) = i - 1
  <2>1. {k \in Decoded(text) : k < i} = 1 .. (i - 1)
    BY <1>2
  <2>2. Cardinality(1 .. (i - 1)) = IF 1 > i - 1 THEN 0 ELSE (i - 1) - 1 + 1
    BY FS_Interval
  <2>3. (IF 1 > i - 1 THEN 0 ELSE (i - 1) - 1 + 1) = i - 1
    OBVIOUS
  <2> QED
    BY <2>1, <2>2, <2>3 DEF Before
<1> DEFINE From(n) == {i \in Decoded(text) : Before(text, i) = (n - 1) \div 3}
           body(n) == IF From(n) = {} THEN Stray
                      ELSE Bytes(Quad(text, CHOOSE i \in From(n) : TRUE))[((n - 1) % 3) + 1]
<1>4. DecodeAndWrite(text) = [n \in 1 .. 3 * q |-> body(n)]
  BY <1>1 DEF DecodeAndWrite
<1>5. ASSUME NEW k \in 0 .. (q - 1), NEW r \in 0 .. 2
      PROVE  body(3 * k + r + 1) = Bytes(Quad(text, k + 1))[r + 1]
  <2> DEFINE n == 3 * k + r + 1
  <2>1. (n - 1) \div 3 = k /\ ((n - 1) % 3) + 1 = r + 1
    OBVIOUS
  <2> HIDE DEF n
  <2>2. From(n) = {k + 1}
    BY <1>2, <1>3, <2>1
  <2> HIDE DEF From
  <2>3. (CHOOSE i \in From(n) : TRUE) = k + 1
    BY <2>2
  <2>4. body(n) = Bytes(Quad(text, k + 1))[r + 1]
    BY <2>1, <2>2, <2>3
  <2> QED
    BY <2>4 DEF n
<1>6. \A k \in 0 .. (q - 1), r \in 0 .. 2 : 3 * k + r + 1 \in 1 .. 3 * q
  OBVIOUS
<1> HIDE DEF body
<1>7. DecodeAndWrite(text) \in Seq({body(n) : n \in 1 .. 3 * q})
  <2>1. 3 * q \in Nat
    OBVIOUS
  <2> DEFINE S == {body(n) : n \in 1 .. 3 * q}
  <2>2. [n \in 1 .. 3 * q |-> body(n)] \in [1 .. 3 * q -> S]
    OBVIOUS
  <2> HIDE DEF S
  <2>3. [n \in 1 .. 3 * q |-> body(n)] \in Seq(S)
    BY <2>1, <2>2, SeqDef
  <2> QED
    BY <1>4, <2>3 DEF S
<1>8. DOMAIN DecodeAndWrite(text) = 1 .. 3 * q
  BY <1>4
<1>9. Len(DecodeAndWrite(text)) = 3 * q
  <2>1. Len(DecodeAndWrite(text)) \in Nat /\ DOMAIN DecodeAndWrite(text) = 1 .. Len(DecodeAndWrite(text))
    BY <1>7, LenProperties
  <2> DEFINE l == Len(DecodeAndWrite(text))
  <2>2. l \in Nat /\ 1 .. l = 1 .. 3 * q
    BY <1>8, <2>1
  <2> HIDE DEF l
  <2>3. l = 3 * q
    <3>1. l > 0 => l \in 1 .. 3 * q
      BY <2>2
    <3>2. 3 * q > 0 => 3 * q \in 1 .. l
      BY <2>2
    <3> QED
      BY <2>2, <3>1, <3>2
  <2> QED
    BY <2>3 DEF l
<1> QED
  BY <1>4, <1>5, <1>6, <1>8, <1>9

\* Whatever is encoded, the decoder writes it, byte for byte, with a zero for each "=".
THEOREM DecodesAll == \A text \in Text : DecodesWhatWasEncoded(text)
<1> SUFFICES ASSUME NEW text \in Text, Clean(text)
             PROVE  /\ Len(DecodeAndWrite(text)) = Len(Encoded(text)) + Padding(text)
                    /\ \A n \in DOMAIN DecodeAndWrite(text) :
                         DecodeAndWrite(text)[n] = IF n \in DOMAIN Encoded(text) THEN Encoded(text)[n] ELSE 0
  BY DEF DecodesWhatWasEncoded, WhatWasEncoded
<1>1. PICK q \in Nat, p \in 0 .. 2 :
        /\ Len(text) = 4 * q /\ p <= 4 * q /\ Padding(text) = p
        /\ \A i \in 1 .. (4 * q - p) : text[i] \in 0 .. 63
        /\ \A i \in (4 * q - p + 1) .. (4 * q) : text[i] = -1
  BY CleanShape
<1> DEFINE w == DecodeAndWrite(text)
           e == Encoded(text)
<1>2. /\ DOMAIN w = 1 .. 3 * q /\ Len(w) = 3 * q
      /\ \A k \in 0 .. (q - 1), r \in 0 .. 2 : w[3 * k + r + 1] = Bytes(Quad(text, k + 1))[r + 1]
  BY <1>1, CleanWritten
<1>3. ((4 * q - p) * 6) \div 8 = 3 * q - p /\ 3 * q - p \in Nat
  BY <1>1
<1>4. e = [b \in 1 .. (3 * q - p) |-> Byte(text, b)]
  BY <1>1, <1>3 DEF Encoded
<1>5. DOMAIN e = 1 .. (3 * q - p) /\ Len(e) = 3 * q - p
  BY <1>3, <1>4
<1> HIDE DEF w, e
<1>6. ASSUME NEW k \in 0 .. (q - 1), NEW r \in 0 .. 2
      PROVE  w[3 * k + r + 1] = IF 3 * k + r + 1 \in 1 .. (3 * q - p) THEN Byte(text, 3 * k + r + 1) ELSE 0
  <2> DEFINE a == text[4 * k + 1]
             b == text[4 * k + 2]
             c == text[4 * k + 3]
             d == text[4 * k + 4]
  <2>0. \A j \in 1 .. 4 : Quad(text, k + 1)[j] = text[4 * k + j]
    BY <1>1, QuadAt
  <2>1. /\ Quad(text, k + 1)[1] = a /\ Quad(text, k + 1)[2] = b
        /\ Quad(text, k + 1)[3] = c /\ Quad(text, k + 1)[4] = d
    BY <2>0
  <2>2. a \in 0 .. 63 /\ b \in 0 .. 63
    BY <1>1, CleanQuad
  <2>3. (k = q - 1 /\ p = 2 => c = -1) /\ (~(k = q - 1 /\ p = 2) => c \in 0 .. 63)
    BY <1>1, CleanQuad
  <2>4. (k = q - 1 /\ p # 0 => d = -1) /\ (~(k = q - 1 /\ p # 0) => d \in 0 .. 63)
    BY <1>1, CleanQuad
  <2>5. /\ Byte(text, 3 * k + 1) = a * 4 + b \div 16
        /\ c \in 0 .. 63 => Byte(text, 3 * k + 2) = (b % 16) * 16 + c \div 4
        /\ c \in 0 .. 63 /\ d \in 0 .. 63 => Byte(text, 3 * k + 3) = (c % 4) * 64 + d
    BY <2>2, ByteAt
  <2>6. Bytes(Quad(text, k + 1)) = <<a * 4 + b \div 16,
                                     IF c >= 0 THEN (b % 16) * 16 + c \div 4 ELSE 0,
                                     IF d >= 0 THEN (c % 4) * 64 + d ELSE 0>>
    BY <2>1 DEF Bytes
  <2> HIDE DEF a, b, c, d
  <2>7. CASE r = 0
    <3>1. 3 * k + r + 1 = 3 * k + 1 /\ 3 * k + 1 \in 1 .. (3 * q - p)
      BY <1>1, <2>7
    <3>2. w[3 * k + r + 1] = a * 4 + b \div 16
      BY <1>2, <2>6, <2>7
    <3> QED
      BY <2>5, <3>1, <3>2
  <2>8. CASE r = 1
    <3>1. 3 * k + r + 1 = 3 * k + 2
      BY <2>8
    <3>2. w[3 * k + r + 1] = IF c >= 0 THEN (b % 16) * 16 + c \div 4 ELSE 0
      BY <1>2, <2>6, <2>8
    <3>3. CASE k = q - 1 /\ p = 2
      BY <2>3, <3>1, <3>2, <3>3
    <3>4. CASE ~(k = q - 1 /\ p = 2)
      <4>1. 3 * k + 2 \in 1 .. (3 * q - p)
        BY <3>4
      <4> QED
        BY <2>3, <2>5, <3>1, <3>2, <3>4, <4>1
    <3> QED
      BY <3>3, <3>4
  <2>9. CASE r = 2
    <3>1. 3 * k + r + 1 = 3 * k + 3
      BY <2>9
    <3>2. w[3 * k + r + 1] = IF d >= 0 THEN (c % 4) * 64 + d ELSE 0
      BY <1>2, <2>6, <2>9
    <3>3. CASE k = q - 1 /\ p # 0
      BY <2>4, <3>1, <3>2, <3>3
    <3>4. CASE ~(k = q - 1 /\ p # 0)
      <4>1. 3 * k + 3 \in 1 .. (3 * q - p) /\ c \in 0 .. 63 /\ d \in 0 .. 63
        BY <2>3, <2>4, <3>4
      <4> QED
        BY <2>5, <3>1, <3>2, <4>1
    <3> QED
      BY <3>3, <3>4
  <2> QED
    BY <2>7, <2>8, <2>9
<1>7. ASSUME NEW n \in 1 .. 3 * q
      PROVE  w[n] = IF n \in 1 .. (3 * q - p) THEN Byte(text, n) ELSE 0
  <2> DEFINE k == (n - 1) \div 3
             r == (n - 1) % 3
  <2>1. k \in 0 .. (q - 1) /\ r \in 0 .. 2 /\ n = 3 * k + r + 1
    OBVIOUS
  <2> HIDE DEF k, r
  <2> QED
    BY <1>6, <2>1
<1>8. Len(w) = Len(e) + p
  BY <1>2, <1>5
<1> QED
  BY <1>1, <1>2, <1>4, <1>5, <1>7, <1>8 DEF w, e
=============================================================================
