----------------------------- MODULE MCPBQueue -----------------------------
(* Instance of PBQueue for TLC. *)
EXTENDS PBQueue

\* A synthesised alert and a downloaded one (xmlhandler.cpp:153, :213).
MCAlert == {"speech.wav", "download.mp3"}
MCSuffix == [a \in MCAlert |-> IF a = "speech.wav" THEN ".wav" ELSE ".mp3"]
=============================================================================
