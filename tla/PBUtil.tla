-------------------------------- MODULE PBUtil --------------------------------
(***************************************************************************)
(* The audio player (libs/playbackqueue/playbackutil.hpp).  OpenFile plays *)
(* one file and returns: it fills three buffers, starts the output, and    *)
(* lets the run loop of its thread call Callback for each buffer that was  *)
(* played, until a callback has set isDone_.                               *)
(*                                                                         *)
(* External: AudioFile and AudioQueue.  Any call may fail.  Buffers are    *)
(* played in the order they were enqueued.  Packet descriptions are taken  *)
(* to do no harm behind the one that pktDesc_ has room for, where          *)
(* numPktsToRead_ is larger (playbackutil.hpp:86-94, :162).                *)
(***************************************************************************)
EXTENDS Integers, Sequences, SequencesExt

CONSTANTS
  Packets,   \* Packets[f]: [rate, frames, maxPkt] of file f (mSampleRate,
             \* mFramesPerPacket, kAudioFilePropertyPacketSizeUpperBound)
  Large,     \* the packets that are larger than READ_BYTES
  NoPlay     \* no file is open

VARIABLES
  store,     \* the files on the disk, as in TextToSpeechQueue
  alive,     \* FALSE: the process has ended
  pc,        \* where OpenFile is: "closed", "priming", "running" or "flushing"
  file,      \* its argument
  numPkts,   \* numPktsToRead_
  pktPos,    \* pktPos_
  isDone,    \* isDone_
  primed,    \* buffers allocated so far
  enqueued,  \* the buffers in the AudioQueue: each a sequence of packets
  lost,      \* buffers a failing call has left outside of the AudioQueue
  started,   \* AudioQueueStart was successful
  heard      \* the packets of the file played so far

player == <<pc, file, numPkts, pktPos, isDone, primed, enqueued, lost, started, heard>>

NBUFFERS == 3
READ_BYTES == 1024
LOOP == 1        \* LOOP_DURATION and LOOP_FLUSH_DURATION, in quarters of a second
LOOP_FLUSH == 8

PlayerInit ==
  /\ pc = "closed"
  /\ file = NoPlay
  /\ numPkts = 0
  /\ pktPos = 0
  /\ isDone = FALSE
  /\ primed = 0
  /\ enqueued = <<>>
  /\ lost = 0
  /\ started = FALSE
  /\ heard = <<>>

-----------------------------------------------------------------------------
(* CalculateBytesForDuration *)

\* The size of a buffer for one second of audio, between 256 and 1024 bytes.
BufSize(p) ==
  LET size == IF p.frames # 0 THEN (p.rate * p.maxPkt) \div p.frames
              ELSE IF 1024 > p.maxPkt THEN 1024 ELSE p.maxPkt
  IN  IF size > 1024 /\ size > p.maxPkt THEN 1024
      ELSE IF size < 256 THEN 256
      ELSE size

\* The packets that are read into it.
NumPktsToRead(p) == BufSize(p) \div p.maxPkt

-----------------------------------------------------------------------------
(* Callback *)

\* AudioFileReadPacketData is at a packet for which READ_BYTES are not enough.
TooLarge(data, at) == at < Len(data) /\ data[at + 1] \in Large

\* AudioFileReadPacketData: the next n packets, or those that are left.  A file with
\* packets that are too large has n <= 1.
ReadPacketData(n) ==
  LET data == store[file].data
      last == IF pktPos + n <= Len(data) THEN pktPos + n ELSE Len(data)
  IN  IF TooLarge(data, pktPos) THEN <<>>
      ELSE [i \in 1 .. last - pktPos |-> data[pktPos + i]]

\* Mutant: the position is advanced before the buffer is enqueued.
CallbackAdvancesFirst(n, q) ==
  LET packets == ReadPacketData(n)
  IN  \/ /\ UNCHANGED <<pktPos, isDone>>
         /\ enqueued' = q
         /\ lost' = lost + 1
      \/ /\ packets # <<>>
         /\ pktPos' = pktPos + Len(packets)
         /\ \/ enqueued' = Append(q, packets) /\ UNCHANGED lost
            \/ enqueued' = q /\ lost' = lost + 1
         /\ UNCHANGED isDone
      \/ /\ packets = <<>>
         /\ isDone' = TRUE
         /\ enqueued' = q
         /\ UNCHANGED <<pktPos, lost>>

\* Mutant: at the end of the file only the output is told to stop.
CallbackNotDone(n, q) ==
  LET packets == ReadPacketData(n)
  IN  /\ enqueued' = IF packets = <<>> THEN q ELSE Append(q, packets)
      /\ pktPos' = pktPos + Len(packets)
      /\ UNCHANGED <<isDone, lost>>

\* Up to n packets are read into a buffer that is then enqueued behind q, or the output is
\* told to stop at the end of the file.  An error of any of the three calls leaves the
\* buffer where it is, and everything else as it was.
Callback(n, q) ==
  LET packets == ReadPacketData(n)
  IN  \/ /\ UNCHANGED <<pktPos, isDone>>
         /\ enqueued' = q
         /\ lost' = lost + 1
      \/ /\ packets # <<>>
         /\ enqueued' = Append(q, packets)
         /\ pktPos' = pktPos + Len(packets)
         /\ UNCHANGED <<isDone, lost>>
      \/ /\ packets = <<>>
         /\ isDone' = TRUE
         /\ enqueued' = q
         /\ UNCHANGED <<pktPos, lost>>

-----------------------------------------------------------------------------
(* OpenFile *)

\* f cannot be opened, or a call before the first buffer fails: what was opened
\* stays open, and nothing was played.
OpenFails(f) ==
  /\ pc = "closed"
  /\ UNCHANGED <<store, pc, file, numPkts, pktPos, isDone, primed, enqueued, lost, started, heard>>

Opens(f) ==
  /\ pc = "closed"
  /\ store[f].head = "format"
  /\ pc' = "priming"
  /\ file' = f
  /\ numPkts' = NumPktsToRead(Packets[f])
  /\ pktPos' = 0
  /\ isDone' = FALSE
  /\ primed' = 0
  /\ enqueued' = <<>>
  /\ lost' = 0
  /\ started' = FALSE
  /\ heard' = <<>>
  /\ UNCHANGED store

\* The next buffer is allocated and filled.
Prime ==
  /\ pc = "priming"
  /\ primed < NBUFFERS
  /\ primed' = primed + 1
  /\ Callback(numPkts, enqueued)
  /\ UNCHANGED <<store, pc, file, numPkts, started, heard>>

\* OpenFile returns.  With an error it leaves the player as it is, which the
\* next OpenFile does not look at.
Return ==
  /\ pc' = "closed"
  /\ file' = NoPlay
  /\ numPkts' = 0
  /\ pktPos' = 0
  /\ isDone' = FALSE
  /\ primed' = 0
  /\ enqueued' = <<>>
  /\ lost' = 0
  /\ started' = FALSE
  /\ heard' = <<>>
  /\ UNCHANGED store

AllocateFails ==
  /\ pc = "priming"
  /\ primed < NBUFFERS
  /\ Return

\* AudioQueueStart, whose failure is only logged.
Start ==
  /\ pc = "priming"
  /\ primed = NBUFFERS
  /\ started' \in BOOLEAN
  /\ pc' = "running"
  /\ UNCHANGED <<store, file, numPkts, pktPos, isDone, primed, enqueued, lost, heard>>

\* The run loop: the oldest buffer has been played, and comes back.
BufferPlayed ==
  /\ pc \in {"running", "flushing"}
  /\ started
  /\ enqueued # <<>>
  /\ heard' = heard \o Head(enqueued)
  /\ Callback(numPkts, Tail(enqueued))
  /\ UNCHANGED <<store, pc, file, numPkts, primed, started>>

LoopEnds ==
  /\ pc = "running"
  /\ isDone
  /\ pc' = "flushing"
  /\ UNCHANGED <<store, file, numPkts, pktPos, isDone, primed, enqueued, lost, started, heard>>

\* Mutant: there is no flush.
FlushNone ==
  /\ pc = "flushing"
  /\ Return

\* The two buffers that may be enqueued when the flush begins last about as long as it:
\* no more than a turn of the loop is left for the delay of the output, or their
\* duration is not known (mFramesPerPacket is 0).
Slow(p) == p.frames = 0 \/ 4 * 2 * NumPktsToRead(p) * p.frames > (LOOP_FLUSH - LOOP) * p.rate

\* The flush is over.  AudioQueueStop may fail, which makes no difference to what is heard.
FlushEnds ==
  /\ pc = "flushing"
  /\ started /\ ~Slow(Packets[file]) => enqueued = <<>>
  /\ Return

PlayerStep == Prime \/ AllocateFails \/ Start \/ BufferPlayed \/ LoopEnds \/ FlushEnds

\* OpenFile and its run loop go on as long as the process does.
PlayerFairness ==
  /\ WF_<<store, player>>(alive /\ Prime)
  /\ WF_<<store, player>>(alive /\ Start)
  /\ WF_<<store, player>>(alive /\ BufferPlayed)
  /\ WF_<<store, player>>(alive /\ LoopEnds)
  /\ WF_<<store, player>>(alive /\ FlushEnds)

-----------------------------------------------------------------------------
(* Properties *)

\* Whichever calls fail, what is heard of a file and what waits to be heard is its
\* beginning, with no packet left out or repeated: a buffer that could not be
\* enqueued is read again into the next (playbackutil.hpp:80-128).
PlayedInOrder ==
  /\ IsPrefix(heard, store[file].data)
  /\ pc # "closed" => heard \o FlattenSeq(enqueued) = SubSeq(store[file].data, 1, pktPos)

\* OpenFile only gets to its end when the whole file was heard.  Excepted: the output did
\* not start; one packet may be larger than a buffer, or one is larger than READ_BYTES:
\* then no packet is read there, and the file is taken to be at its end
\* (playbackutil.hpp:46-59, :84-94, :116-127); and recordings of about 8 kbit/s or
\* less, where the flush may be over before the last two buffers are heard (:186).
PlayedToItsEnd ==
  /\ pc = "flushing" /\ pc' = "closed" /\ started /\ numPkts # 0
  /\ ToSet(store[file].data) \intersect Large = {} /\ ~Slow(Packets[file])
  => heard = store[file].data

\* The buffers hold what is between two positions of data: each begins where the one before
\* it ends.
Consecutive(data, from, buffers, to) ==
  LET n == Len(buffers)
  IN  \E at \in [1 .. n + 1 -> 0 .. Len(data)] :
        /\ at[1] = from
        /\ at[n + 1] = to
        /\ \A i \in 1 .. n : at[i] <= at[i + 1] /\ buffers[i] = SubSeq(data, at[i] + 1, at[i + 1])

\* What was heard is followed by the buffers, up to pktPos_.
BuffersFollow ==
  LET data == store[file].data
  IN  /\ Len(heard) <= Len(data)
      /\ heard = SubSeq(data, 1, Len(heard))
      /\ Consecutive(data, Len(heard), enqueued, pktPos)

\* OpenFile only leaves its loop when a callback found nothing left it could read.
DoneAtEnd ==
  /\ isDone /\ numPkts # 0 =>
       pktPos = Len(store[file].data) \/ TooLarge(store[file].data, pktPos)
  /\ pc = "flushing" => isDone

\* Nothing is going to set isDone_: all three buffers were lost to errors, or the output
\* did not start before the end of the file was seen (playbackutil.hpp:180-185).
Hung == lost = NBUFFERS \/ (pc = "running" /\ ~started /\ ~isDone)

\* OpenFile returns, unless it hangs, where the relay stays set, or the process ends.
OpenFileReturns == (pc # "closed") ~> (pc = "closed" \/ Hung \/ ~alive)
=============================================================================
