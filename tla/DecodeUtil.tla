----------------------------- MODULE DecodeUtil -----------------------------
(***************************************************************************)
(* decode_and_write (libs/decodeutil): Base64 text as the sequence of what *)
(* its characters are in the table: 0 .. 63, -1 for "=", -2 for the rest.  *)
(***************************************************************************)
EXTENDS Integers, Sequences, FiniteSets

CONSTANTS Absent,  \* what is in a file that is not there: nothing is written
          Stray    \* a byte that was never assigned

Text == Seq(-2 .. 63)

Quad(text, i) == SubSeq(text, 4 * i - 3, 4 * i)

\* Mutant: padding is skipped as foreign.
SkippedPadding(v) == \E i \in 1 .. 4 : v[i] < 0

\* A quadruple with a foreign character, or padding where none can be.
Skipped(v) == v[1] < 0 \/ v[2] < 0 \/ v[3] < -1 \/ v[4] < -1

\* The three bytes of one quadruple; -1 & 3 is 3.
Bytes(v) ==
  <<v[1] * 4 + v[2] \div 16,
    IF v[3] >= 0 THEN (v[2] % 16) * 16 + v[3] \div 4 ELSE 0,
    IF v[4] >= 0 THEN (v[3] % 4) * 64 + v[4] ELSE 0>>

\* The quadruples that are written, and how many of them are before the i-th.
Decoded(text) == {i \in 1 .. Len(text) \div 4 : ~Skipped(Quad(text, i))}
Before(text, i) == Cardinality({k \in Decoded(text) : k < i})

\* The contents of the file: outputSize bytes, whatever was skipped.
DecodeAndWrite(text) ==
  LET outputSize == (Len(text) * 3) \div 4
      From(n) == {i \in Decoded(text) : Before(text, i) = (n - 1) \div 3}
  IN  IF Len(text) % 4 # 0 THEN Absent
      ELSE [n \in 1 .. outputSize |->
             IF From(n) = {} THEN Stray
             ELSE Bytes(Quad(text, CHOOSE i \in From(n) : TRUE))[((n - 1) % 3) + 1]]

-----------------------------------------------------------------------------
\* Padded as it should be, with no other characters.
Clean(text) ==
  /\ Len(text) % 4 = 0
  /\ \A i \in DOMAIN text : text[i] >= 0 \/ (text[i] = -1 /\ i >= Len(text) - 1)
  /\ Len(text) > 1 /\ text[Len(text) - 1] = -1 => text[Len(text)] = -1

Padding(text) == Cardinality({i \in DOMAIN text : text[i] = -1})

\* Base64 (RFC 4648): a text is a row of bits, six of each character, which is cut into
\* bytes; "=" stands for the bytes that are missing at the end.
Bit(text, n) == (text[n \div 6 + 1] \div <<32, 16, 8, 4, 2, 1>>[(n % 6) + 1]) % 2

Byte(text, b) ==
  Bit(text, 8*b - 8) * 128 + Bit(text, 8*b - 7) * 64 + Bit(text, 8*b - 6) * 32 + Bit(text, 8*b - 5) * 16
  + Bit(text, 8*b - 4) * 8 + Bit(text, 8*b - 3) * 4 + Bit(text, 8*b - 2) * 2 + Bit(text, 8*b - 1)

Encoded(text) == [b \in 1 .. ((Len(text) - Padding(text)) * 6) \div 8 |-> Byte(text, b)]

\* w is what was encoded, with a zero for each "=".
WhatWasEncoded(w, text) ==
  LET e == Encoded(text)
  IN  /\ Len(w) = Len(e) + Padding(text)
      /\ \A n \in DOMAIN w : w[n] = IF n \in DOMAIN e THEN e[n] ELSE 0

DecodesWhatWasEncoded(text) == Clean(text) => WhatWasEncoded(DecodeAndWrite(text), text)
=============================================================================
