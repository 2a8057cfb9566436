-------------------------- MODULE TextToSpeechQueue --------------------------
(***************************************************************************)
(* The speech queue (libs/macttsqueue).  The io thread adds texts and      *)
(* signals; a thread of its own takes them one by one and hands them to    *)
(* the synthesiser without waiting for it; the synthesiser calls           *)
(* audioBufferCallback with one piece of audio after the other, one        *)
(* utterance at a time, and the callback makes a file of them.             *)
(*                                                                         *)
(* External: the synthesiser.  It says every text to the end.  Up to       *)
(* macOS 12 it delivers the whole audio in one buffer, later on in several *)
(* and an empty one at the end.  And stdio, which keeps what is written in *)
(* a buffer: of a file that is open disk[f] has all that was given to      *)
(* fwrite, and with a full disk it shows in the end what reached it.       *)
(***************************************************************************)
EXTENDS Integers, Sequences, SequencesExt

CONSTANTS
  Text,        \* the texts to speak
  NoText,      \* not a text
  Filename,    \* Filename[t]: the file t is to be spoken into
  Format,      \* Format[v][t]: [sampleRate, channels, bits] of the voice of t on system v,
               \* or NoFormat: format is nil
  NoFormat,
  Pieces,      \* Pieces[t]: the number of buffers its audio comes in after macOS 12
  PieceBytes,  \* the size of one of them
  Version,     \* the systems it may run on, 12 or later
  NoFile       \* _outfile is null

\* The synthesiser has samples of 16 or 32 bits.  A file name may be that of several texts.
ASSUME SpeechConstants ==
  /\ NoText \notin Text
  /\ PieceBytes \in Nat
  /\ \A t \in Text : Filename[t] # NoFile /\ Pieces[t] \in Nat
  /\ \A v \in Version : v \in Nat
  /\ \A v \in Version, t \in Text : Format[v][t] # NoFormat =>
       /\ Format[v][t] \in [sampleRate : Nat, channels : Nat, bits : {16, 32}]

Wav == INSTANCE WavHeader

VARIABLES
  disk,        \* the files: disk[f] has a head, and pieces of audio behind it
  full,        \* TRUE: no more data fits on the disk, from then on
  caller,      \* the io thread: "idle", or "signal": the lock is released, not yet signalled
  queue,       \* _queue
  thread,      \* startProcessingQueue: "ready" to look, "waiting", or "writing"
  taken,       \* the text it took
  utterances,  \* the synthesiser's own queue
  delivered,   \* the pieces of the first of them delivered so far
  outfile,     \* _outfile and _filename
  written,     \* _pcmBytesWritten
  completed,   \* the texts onComplete was called for
  held,        \* TRUE: onComplete was called and does not return
  alive,       \* FALSE: fwrite was called with a null file
  version      \* _majorVersion of the system

spoken == <<full, caller, queue, thread, taken, utterances, delivered,
            outfile, written, completed, held, alive, version>>

\* A file: what is in front of the audio (a header, or a dummy or nothing), and the audio.
FileOf(head, header, data) == [head |-> head, header |-> header, data |-> data]
Absent == FileOf("absent", <<>>, <<>>)

SpeechInit ==
  /\ full = FALSE
  /\ caller = "idle"
  /\ queue = <<>>
  /\ thread = "ready"
  /\ taken = NoText
  /\ utterances = <<>>
  /\ delivered = 0
  /\ outfile = NoFile
  /\ written = 0
  /\ completed = <<>>
  /\ held = FALSE
  /\ alive = TRUE
  /\ version \in Version

-----------------------------------------------------------------------------
(* enqueueText *)

Enqueued(t) == \E s \in {queue, utterances, completed, <<taken>>} : Contains(s, t)

\* Each text is spoken once, since each alert is taken once.
AddText(t) ==
  /\ alive
  /\ caller = "idle"
  /\ ~Enqueued(t)
  /\ queue' = Append(queue, t)
  /\ caller' = "signal"
  /\ UNCHANGED <<disk, full, thread, taken, utterances, delivered, outfile, written, completed, held, alive, version>>

\* Mutant: nobody is signalled.
SignalNobody ==
  /\ alive
  /\ caller = "signal"
  /\ caller' = "idle"
  /\ UNCHANGED <<disk, full, queue, thread, taken, utterances, delivered, outfile, written, completed, held, alive, version>>

Signal ==
  /\ alive
  /\ caller = "signal"
  /\ caller' = "idle"
  /\ thread' = IF thread = "waiting" THEN "ready" ELSE thread
  /\ UNCHANGED <<disk, full, queue, taken, utterances, delivered, outfile, written, completed, held, alive, version>>

-----------------------------------------------------------------------------
(* startProcessingQueue *)

WaitForText ==
  /\ alive
  /\ thread = "ready"
  /\ queue = <<>>
  /\ thread' = "waiting"
  /\ UNCHANGED <<disk, full, caller, queue, taken, utterances, delivered, outfile, written, completed, held, alive, version>>

SpuriousWakeup ==
  /\ alive
  /\ thread = "waiting"
  /\ thread' = "ready"
  /\ UNCHANGED <<disk, full, caller, queue, taken, utterances, delivered, outfile, written, completed, held, alive, version>>

TakeText ==
  /\ alive
  /\ thread = "ready"
  /\ queue # <<>>
  /\ taken' = Head(queue)
  /\ queue' = Tail(queue)
  /\ thread' = "writing"
  /\ UNCHANGED <<disk, full, caller, utterances, delivered, outfile, written, completed, held, alive, version>>

WriteUtterance ==
  /\ alive
  /\ thread = "writing"
  /\ utterances' = Append(utterances, taken)
  /\ taken' = NoText
  /\ thread' = "ready"
  /\ UNCHANGED <<disk, full, caller, queue, delivered, outfile, written, completed, held, alive, version>>

-----------------------------------------------------------------------------
(* audioBufferCallback *)

\* The audio in the file the callback writes to, which is truncated when it is opened.
Before(f) == IF outfile = NoFile THEN <<>> ELSE disk[f].data

\* The header for t with n bytes behind it.
Header(t, n) ==
  LET h == Wav!SetPcmDataSize(Wav!New(version), n)
      f == Format[version][t]
  IN  IF f = NoFormat THEN h
      ELSE Wav!SetBitsPerSample(
             Wav!SetNumChannels(Wav!SetSampleRate(h, f.sampleRate), f.channels), f.bits)

\* Mutant: every version ends a file with every buffer.
EndsFileAlways(last) == TRUE

\* Does the buffer, the empty one if last, end the file.
EndsFile(last) == version <= 12 \/ last

\* What is on the disk of a file that was given a header and data: all of it, or with a
\* full disk a beginning, perhaps without the header, and then with no audio one can get at.
Closed(header, data) ==
  IF ~full THEN {FileOf("format", <<header>>, data)}
  ELSE {FileOf("dummy", <<>>, <<>>)} \union
       {FileOf("format", <<header>>, SubSeq(data, 1, n)) : n \in 0 .. Len(data)}

\* What is said of the next piece, the empty one if last: the file is opened, with a
\* dummy header, unless it is; the piece is written, and what fwrite returns is counted;
\* then the header is written over the dummy, the file closed and onComplete called.
\* With a full disk fwrite may return less, that of the header too.
Callback(t, last) ==
  LET f == IF outfile = NoFile THEN Filename[t] ELSE outfile
      data == IF last THEN Before(f) ELSE Append(Before(f), <<t, delivered + 1>>)
  IN  \E returned \in IF last THEN {0} ELSE IF full THEN {0, PieceBytes} ELSE {PieceBytes} :
        LET n == (IF outfile = NoFile THEN 0 ELSE written) + returned
        IN  \/ /\ EndsFile(last)
               /\ \E file \in Closed(Header(t, n), data) : disk' = [disk EXCEPT ![f] = file]
               /\ written' = 0
               /\ outfile' = NoFile
               /\ \/ completed' = Append(completed, t)
                  \/ full /\ completed' = completed
            \/ /\ ~EndsFile(last)
               /\ disk' = [disk EXCEPT ![f] = FileOf("dummy", <<>>, data)]
               /\ written' = n
               /\ outfile' = f
               /\ UNCHANGED completed

\* The buffers with audio the synthesiser delivers for t.
Buffers(t) == IF version <= 12 THEN 1 ELSE Pieces[t]

\* While a callback has not returned there is no other.
AudioBufferCallback ==
  /\ alive
  /\ ~held
  /\ utterances # <<>>
  /\ LET t == Head(utterances)
         last == delivered = Buffers(t)
         ends == last \/ version <= 12
     IN  /\ Callback(t, last)
         /\ utterances' = IF ends THEN Tail(utterances) ELSE utterances
         /\ delivered' = IF ends THEN 0 ELSE delivered + 1
  /\ held' \in BOOLEAN
  /\ held' => completed' # completed
  /\ UNCHANGED <<full, caller, queue, thread, taken, alive, version>>

\* A file cannot be opened, and the dummy header is written to null.
OpenFails ==
  /\ alive
  /\ full
  /\ utterances # <<>>
  /\ ~held
  /\ outfile = NoFile
  /\ alive' = FALSE
  /\ UNCHANGED <<disk, full, caller, queue, thread, taken, utterances, delivered, outfile, written, completed, held, version>>

DiskFills ==
  /\ ~full
  /\ full' = TRUE
  /\ UNCHANGED <<disk, caller, queue, thread, taken, utterances, delivered, outfile, written, completed, held, alive, version>>

SpeechStep == Signal \/ TakeText \/ WriteUtterance \/ AudioBufferCallback \/ WaitForText

SpeechNext ==
  \/ \E t \in Text : AddText(t)
  \/ SpeechStep \/ SpuriousWakeup
  \/ OpenFails \/ DiskFills

\* The threads go on, and the synthesiser delivers as long as its callback returns.
SpeechFairness ==
  /\ WF_<<disk, spoken>>(Signal)
  /\ WF_<<disk, spoken>>(TakeText)
  /\ WF_<<disk, spoken>>(WriteUtterance)
  /\ WF_<<disk, spoken>>(AudioBufferCallback)

-----------------------------------------------------------------------------
(* Properties *)

\* The file onComplete is called for holds the audio of its text, all of it and
\* nothing else, in order, behind a header that tells of just that.  With a full disk
\* there may be only the first part of the audio or nothing, and nothing is said of the
\* header: onComplete is called whenever stdio took it.  Excepted: nil as format, where
\* the defaults are hoped to fit, and several channels, which blockAlign leaves out
\* (macttsqueue.mm:87-130, wavheader.h:44-58).
CompletedWhole ==
  [][ completed' # completed =>
        LET t == completed'[Len(completed')]
            file == disk'[Filename[t]]
            format == Format[version][t]
        IN  /\ file.data = [i \in 1 .. Len(file.data) |-> <<t, i>>]
            /\ ~full =>
                 /\ Len(file.data) = Buffers(t)
                 /\ format # NoFormat /\ format.channels = 1 =>
                      Wav!Describes(file.header[1], format, Len(file.data) * PieceBytes) ]_completed

\* A text is in one place at a time, once, from the queue to onComplete.
SpeechOnce ==
  /\ IsInjective(queue) /\ IsInjective(utterances)
  /\ ToSet(queue) \intersect (ToSet(utterances) \union ToSet(completed) \union {taken}) = {}
  /\ ToSet(utterances) \intersect (ToSet(completed) \union {taken}) = {}
  /\ taken \notin ToSet(completed)
  /\ thread = "writing" <=> taken # NoText

\* A file that is open is that of the first utterance, and was given what was delivered of it.
OpenFileTells ==
  IF outfile = NoFile THEN delivered = 0
  ELSE LET t == Head(utterances)
       IN  /\ utterances # <<>>
           /\ version > 12
           /\ outfile = Filename[t]
           /\ disk[outfile].data = [i \in 1 .. delivered |-> <<t, i>>]
           /\ ~full => written = delivered * PieceBytes

\* A text that is enqueued is handed on in the end, although startProcessingQueue is
\* signalled only after the lock is released (macttsqueue.mm:47-60) and texts
\* are taken while others are spoken, unless the disk is full or onComplete does not
\* return: once the playback queue has deadlocked (main.mm:120) its Push never
\* does (:176), and the texts behind are not spoken.
SpokenInTheEnd ==
  \A t \in Text : (Contains(queue, t)) ~> (Contains(completed, t) \/ full \/ held)
=============================================================================
