---------------------------- MODULE MCSpeechToAir ----------------------------
(* Instance of SpeechToAir for TLC. *)
EXTENDS SpeechToAir

MCFilename == [t \in Text |-> IF t = "english" THEN "english.wav" ELSE "french.wav"]

LOCAL Voice(channels, bits) == [sampleRate |-> 22050, channels |-> channels, bits |-> bits]

MCFormat == [v \in Version |-> [t \in Text |->
  CASE t = "english" -> Voice(1, IF v = 13 THEN 16 ELSE 32)
    [] t = "french" -> IF v = 14 THEN Voice(2, 32) ELSE NoFormat]]

MCPieces == [t \in Text |-> IF t = "english" THEN 2 ELSE 1]
MCSources == {{"english", "french"}, {"english", "narrow.mp3"}, {"narrow.mp3", "wide.mp3"},
              {"slow.mp3", "free.caf"}}
MCContent == [r \in Recording |-> [i \in 1 .. (IF r = "narrow.mp3" THEN 4 ELSE 2) |-> <<r, i>>]]
MCLarge == {<<"free.caf", 2>>}

\* wide.mp3 may have packets that are larger than a buffer; slow.mp3 has 8 kbit/s; the packets
\* of free.caf have no fixed number of frames; a packet of a WAV file stands for the
\* 256 frames that are read at a time.
MCPackets == [f \in {"english.wav", "french.wav"} \union Recording |->
  CASE f = "narrow.mp3" -> [rate |-> 44100, frames |-> 1152, maxPkt |-> 418]
    [] f = "wide.mp3" -> [rate |-> 44100, frames |-> 1152, maxPkt |-> 1045]
    [] f = "slow.mp3" -> [rate |-> 8000, frames |-> 576, maxPkt |-> 72]
    [] f = "free.caf" -> [rate |-> 44100, frames |-> 0, maxPkt |-> 1500]
    [] OTHER -> [rate |-> 86, frames |-> 1, maxPkt |-> 1024]]
=============================================================================
