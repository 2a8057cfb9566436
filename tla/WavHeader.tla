------------------------------ MODULE WavHeader ------------------------------
(***************************************************************************)
(* The header of a WAV file (libs/macttsqueue/wavheader.h): the fields     *)
(* that depend on something.  A spoken alert is far from the 2^32 bytes    *)
(* its fields can hold.                                                    *)
(***************************************************************************)
EXTENDS Integers

\* The constructor, with the defaults of the fields.
New(majorVersion) ==
  [audioFormat |-> IF majorVersion = 13 THEN 1 ELSE 3,
   bitsPerSample |-> IF majorVersion = 13 THEN 16 ELSE 32,
   numChannels |-> 1, sampleRate |-> 22050,
   bytesPerSec |-> 4 * 22050, blockAlign |-> 4,
   pcmDataSize |-> 0, chunkSize |-> 0]

SetNumChannels(h, n) == [h EXCEPT !.numChannels = n]
SetSampleRate(h, n) == [h EXCEPT !.sampleRate = n]

\* Mutant: bytesPerSec keeps its default.
SetBitsOnly(h, n) ==
  [h EXCEPT !.bitsPerSample = n,
            !.blockAlign = n \div 8,
            !.audioFormat = CASE n = 32 -> 3 [] n = 16 -> 1 [] OTHER -> h.audioFormat]

SetBitsPerSample(h, n) ==
  [h EXCEPT !.bitsPerSample = n,
            !.blockAlign = n \div 8,
            !.bytesPerSec = (n \div 8) * h.sampleRate,
            !.audioFormat = CASE n = 32 -> 3 [] n = 16 -> 1 [] OTHER -> h.audioFormat]

SetPcmDataSize(h, n) == [h EXCEPT !.pcmDataSize = n, !.chunkSize = n + 36]

-----------------------------------------------------------------------------
(* What the header of a file is meant to say (the WAVE format). *)

\* h is consistent with itself and tells of size bytes in the format f.
Describes(h, f, size) ==
  /\ h.pcmDataSize = size
  /\ h.chunkSize = size + 36
  /\ h.sampleRate = f.sampleRate
  /\ h.numChannels = f.channels
  /\ h.bitsPerSample = f.bits
  /\ h.audioFormat = (IF f.bits = 32 THEN 3 ELSE 1)
  /\ h.blockAlign = f.channels * (f.bits \div 8)
  /\ h.bytesPerSec = f.sampleRate * h.blockAlign
=============================================================================
