------------------------------ MODULE EncQueue ------------------------------
(***************************************************************************)
(* The encoder queue (libs/encoderQueue) with the callbacks main gives it  *)
(* (main.mm:41-83): Encode makes an .mp3 file of a .wav file, OnFinish     *)
(* deletes the .wav files of the batch.                                    *)
(*                                                                         *)
(* OnFinish runs with mut_ held and GetHistory locks it: see PBQueue.      *)
(* Recursive is what would happen if mut_ could be locked again.           *)
(***************************************************************************)
EXTENDS Sequences, SequencesExt

CONSTANTS
  Speech,     \* names of speech files
  NoItem,
  Wav, Mp3,   \* Wav[n], Mp3[n]: the files n.wav and n.mp3 in Storage
  Absent, Empty

Queue == INSTANCE WorkQueue

VARIABLES
  disk,       \* the files, as in DWQueue
  full,       \* no more data fits on the disk
  encq,       \* the queue
  opened,     \* the .mp3 file is open in Encode
  recursive,  \* mut_ is recursive
  encoding    \* FALSE: Encode was given a file that is not there

encoder == <<encq, opened, recursive, encoding>>

EncodeInit ==
  /\ encq = Queue!New
  /\ opened = FALSE
  /\ recursive \in BOOLEAN
  /\ encoding = TRUE

\* OnFinish has not returned: mut_ is held for ever.
Stuck == encq.worker = "stuck"

PushWav(n) ==
  /\ encoding
  /\ ~encq.quit
  /\ ~Stuck
  /\ n \notin ToSet(encq.queue) \union ToSet(encq.history)
  /\ encq' = Queue!Push(encq, n)
  /\ UNCHANGED <<disk, full, opened, recursive, encoding>>

EncodeHandler ==
  /\ encoding
  /\ \/ Queue!CanWait(encq) /\ encq' = Queue!Wait(encq)
     \/ Queue!CanTake(encq) /\ encq' = Queue!Take(encq)
     \/ Queue!CanEnd(encq) /\ encq' = Queue!End(encq)
     \/ encq.worker = "finish" /\ encq.queue # <<>> /\ encq' = Queue!Next(encq)
  /\ UNCHANGED <<disk, full, opened, recursive, encoding>>

\* Encode opens both files.
EncodeOpens ==
  /\ encoding
  /\ encq.worker = "working" /\ ~opened
  /\ disk[Wav[encq.item]] # Absent
  /\ disk' = [disk EXCEPT ![Mp3[encq.item]] = Empty]
  /\ opened' = TRUE
  /\ UNCHANGED <<full, encq, recursive, encoding>>

\* The .wav file is gone, and a null file is read from.
EncodeMisses ==
  /\ encoding
  /\ encq.worker = "working" /\ ~opened
  /\ disk[Wav[encq.item]] = Absent
  /\ encoding' = FALSE
  /\ UNCHANGED <<disk, full, encq, opened, recursive>>

\* The audio is encoded and c written to the file that was opened; what does not fit
\* is lost.  The file may have been moved: Storage says where it is.
EncodeWrites(c) ==
  /\ encoding
  /\ encq.worker = "working" /\ opened
  /\ c = [disk[Wav[encq.item]] EXCEPT !.whole = @ /\ ~full]
  /\ opened' = FALSE
  /\ encq' = [encq EXCEPT !.worker = "finish"]
  /\ UNCHANGED <<full, recursive, encoding>>

\* Mutant: the .wav files are deleted whether there is an .mp3 file or not.
DeletesAlways(n) == TRUE

Deletes(n) == disk[Mp3[n]] # Absent

\* OnFinish deletes the .wav files whose .mp3 file exists, one of them perhaps not
\* successfully.
FinishDeletes ==
  /\ encoding
  /\ encq.worker = "finish" /\ encq.queue = <<>>
  /\ recursive
  /\ \E gone \in SUBSET {n \in ToSet(encq.history) : Deletes(n)} :
       disk' = [f \in DOMAIN disk |-> IF \E n \in gone : f = Wav[n] THEN Absent ELSE disk[f]]
  /\ encq' = Queue!Next(encq)
  /\ UNCHANGED <<full, opened, recursive, encoding>>

FinishBlocks ==
  /\ encoding
  /\ encq.worker = "finish" /\ encq.queue = <<>>
  /\ ~recursive
  /\ encq' = [encq EXCEPT !.worker = "stuck"]
  /\ UNCHANGED <<disk, full, opened, recursive, encoding>>

QuitEncoder ==
  /\ encoding
  /\ ~encq.quit
  /\ ~Stuck
  /\ encq' = Queue!Quit(encq)
  /\ UNCHANGED <<disk, full, opened, recursive, encoding>>

EncodeStep == EncodeHandler \/ EncodeOpens \/ EncodeMisses \/ FinishDeletes \/ FinishBlocks
=============================================================================
