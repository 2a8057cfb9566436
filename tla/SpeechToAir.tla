----------------------------- MODULE SpeechToAir -----------------------------
(***************************************************************************)
(* From text to air: the speech queue and the audio player, which share    *)
(* the disk.  onComplete pushes a file to the playback queue, of which     *)
(* only the order and what blocks it are kept here (PBQueue has the rest), *)
(* and the playback queue opens one file after the other                   *)
(* (main.mm:113-130, :174-177).                                            *)
(***************************************************************************)
EXTENDS TextToSpeechQueue

CONSTANTS
  Recording,  \* audio files that came otherwise, with Packets of them and of the speeches
  Packets,
  Content,    \* Content[r]: the packets of recording r
  Large,
  Sources,    \* bound: the sets of texts and recordings that come in one behaviour
  NoPlay

\* Packets have a size, and those of a recording are in some order.
ASSUME PlaybackConstants ==
  /\ Recording \subseteq DOMAIN Packets /\ \A t \in Text : Filename[t] \in DOMAIN Packets
  /\ NoPlay \notin DOMAIN Packets
  /\ \A f \in DOMAIN Packets : Packets[f] \in [rate : Nat, frames : Nat, maxPkt : Nat \ {0}]
  /\ \A r \in Recording : Content[r] \in Seq(ToSet(Content[r]))

VARIABLES
  sources,   \* the texts and recordings that come
  playlist,  \* the queue of the playback queue
  busy,      \* its busy_
  locked,    \* its mut_ is held for ever
  pc, file, numPkts, pktPos, isDone, primed, enqueued, lost,
          started, heard

Player == INSTANCE PBUtil WITH store <- disk

player == <<pc, file, numPkts, pktPos, isDone, primed, enqueued, lost, started, heard>>
playback == <<playlist, busy, locked>>
vars == <<sources, disk, spoken, playback, player>>

\* Packets larger than READ_BYTES are only in files that may have such.
ASSUME LargeConstant ==
  \A r \in Recording : ToSet(Content[r]) \intersect Large # {} =>
    Packets[r].maxPkt > Player!READ_BYTES

Init ==
  /\ sources \in Sources
  /\ disk = [f \in DOMAIN Packets |->
       IF f \in Recording THEN FileOf("format", <<>>, Content[f]) ELSE Absent]
  /\ SpeechInit
  /\ playlist = <<>>
  /\ busy = FALSE
  /\ locked = FALSE
  /\ Player!PlayerInit

\* playbackQueue.Push.  The first of a batch plays the siren, under mut_: OpenFile may
\* hang (playbackutil.hpp:180-185).
Push(f) ==
  /\ ~locked
  /\ \/ playlist' = Append(playlist, f) /\ busy' = TRUE /\ UNCHANGED locked
     \/ ~busy /\ locked' = TRUE /\ UNCHANGED <<playlist, busy>>

\* ttsq->onComplete, which does not return when mut_ is held.
OnComplete(f) ==
  \/ Push(f) /\ held' = locked'
  \/ locked /\ held' = TRUE /\ UNCHANGED playback

Speak ==
  /\ SpeechNext
  /\ ToSet(queue') \subseteq sources
  /\ \/ UNCHANGED <<completed, held, playback>>
     \/ /\ completed' # completed
        /\ OnComplete(Filename[completed'[Len(completed')]])
  /\ UNCHANGED player

\* Another source pushes a recording, each once.
PushRecording(r) ==
  /\ alive
  /\ r \in sources
  /\ r \notin {file} \union ToSet(playlist)
  /\ \A i \in DOMAIN completed : r # Filename[completed[i]]
  /\ Push(r)
  /\ UNCHANGED <<disk, spoken, player>>

\* playbackQueue.Play
Play ==
  /\ alive /\ ~locked
  /\ playlist # <<>>
  /\ Player!Opens(Head(playlist)) \/ Player!OpenFails(Head(playlist))
  /\ playlist' = Tail(playlist)
  /\ UNCHANGED <<spoken, busy, locked>>

Playing ==
  /\ alive
  /\ Player!PlayerStep
  /\ UNCHANGED <<spoken, playback>>

\* playbackQueue.OnFinish, with mut_ locked, asks for the history, under mut_.
OnFinish ==
  /\ alive /\ ~locked
  /\ busy /\ playlist = <<>> /\ pc = "closed"
  /\ locked' = TRUE
  /\ UNCHANGED <<disk, spoken, playlist, busy, player>>

Next ==
  /\ Speak \/ Play \/ Playing \/ OnFinish \/ \E r \in Recording : PushRecording(r)
  /\ UNCHANGED sources

Spec ==
  /\ Init
  /\ [][Next]_vars
  /\ SpeechFairness
  /\ Player!PlayerFairness

-----------------------------------------------------------------------------
\* Names of more than one file: of two texts of one second and language, or of a text
\* and a recording (xmlhandler.cpp:152-153).  The file may be written anew while it is played.
Overwritten ==
  {Filename[t] : t \in {u \in Text :
     Filename[u] \in Recording \/ \E s \in Text \ {u} : Filename[s] = Filename[u]}}

PlayedInOrder == file \notin Overwritten \union {NoPlay} => Player!PlayedInOrder
PlayedWhole == [][file \notin Overwritten => Player!PlayedToItsEnd]_player
OpenFileReturns == Player!OpenFileReturns

-----------------------------------------------------------------------------
(* The invariant that is inductive *)

File == DOMAIN Packets
Sound == (UNION {ToSet(Content[r]) : r \in Recording}) \union (Text \X Nat)

SpeechTypes ==
  /\ DOMAIN disk = File
  /\ \A f \in File : /\ disk[f] = FileOf(disk[f].head, disk[f].header, disk[f].data)
                      /\ disk[f].data \in Seq(Sound)
  /\ queue \in Seq(Text) /\ utterances \in Seq(Text) /\ completed \in Seq(Text)
  /\ taken \in Text \union {NoText}
  /\ delivered \in Nat /\ written \in Nat
  /\ held \in BOOLEAN /\ version \in Version

PlayerTypes ==
  /\ playlist \in Seq(File) /\ busy \in BOOLEAN /\ locked \in BOOLEAN
  /\ pc \in {"closed", "priming", "running", "flushing"}
  /\ file \in File \union {NoPlay} /\ (file = NoPlay <=> pc = "closed")
  /\ numPkts \in Nat /\ pktPos \in Nat
  /\ heard \in Seq(Sound)
  /\ enqueued \in Seq(Seq(Sound)) /\ Len(enqueued) <= Player!NBUFFERS
  /\ primed \in 0 .. Player!NBUFFERS /\ (pc = "priming" => Len(enqueued) <= primed)

TypeOK == SpeechTypes /\ PlayerTypes

\* What is played, or to be, has been completed or came otherwise.
Made(f) == f \in Recording \/ \E t \in ToSet(completed) : Filename[t] = f

OnlyMadePlayed == \A f \in ToSet(playlist) \union ({file} \ {NoPlay}) : Made(f)

PlayerFollows ==
  file \notin Overwritten \union {NoPlay} => Player!BuffersFollow /\ Player!DoneAtEnd

IInv ==
  /\ TypeOK
  /\ SpeechOnce
  /\ OpenFileTells
  /\ OnlyMadePlayed
  /\ PlayerFollows
=============================================================================
