------------------------------ MODULE MCStorage ------------------------------
(* Instance of Storage for TLC: a report is downloaded under the name the    *)
(* encoded speech of the fire gets.                                           *)
EXTENDS Storage

MCTarget == [d \in Download |-> IF d = "report" THEN "fire.mp3" ELSE "quake.mp3"]
MCWav == [n \in Speech |-> IF n = "fire" THEN "fire.wav" ELSE "flood.wav"]
MCMp3 == [n \in Speech |-> IF n = "fire" THEN "fire.mp3" ELSE "flood.mp3"]
MCSuffixed == [d \in Date |-> IF d = "today" THEN "today_1" ELSE "tomorrow_1"]

LOCAL Occurs(ds, ss, ts, most, q) ==
  [downloads |-> ds, speeches |-> ss, texts |-> ts, dates |-> Date, moves |-> most, quit |-> q]

MCSetup == {
  Occurs({"report"}, {"fire"}, {}, 0, FALSE),
  Occurs({"warning"}, {"flood"}, {}, 1, FALSE),
  Occurs({"report", "warning"}, {}, {}, 2, FALSE),
  Occurs({}, {"flood"}, {}, 2, TRUE),
  Occurs({}, {"fire", "flood"}, {}, 0, TRUE),
  Occurs(Download, {}, {}, 0, TRUE),
  Occurs({"warning"}, {}, Base64, 0, FALSE)}

\* Text with padding, with foreign characters, and cut off.
MCBase64 == {<<1, 63, 2, 62, 33, 16, -1, -1>>, <<1, -2, 2, 63, 33, 17, 44, -1>>, <<1, 2, 3>>}
=============================================================================
