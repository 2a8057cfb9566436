------------------------------- MODULE Storage -------------------------------
(***************************************************************************)
(* The files of the program and the workers that share them: downloads     *)
(* arrive, embedded audio is decoded, speech is encoded and deleted, and   *)
(* the daily task moves files away and has them archived.                  *)
(*                                                                         *)
(* The daily task asks main's waiter first (main.mm:199-235), which looks  *)
(* at the histories of the encoder and of the downloads one after the      *)
(* other.                                                                  *)
(***************************************************************************)
EXTENDS Integers, Sequences, SequencesExt, DecodeUtil

CONSTANTS
  Download, Target, Speech, Date, Suffixed, Wav, Mp3, NoItem, Empty,
  Base64,  \* texts of embedded audio
  Setup    \* bound: what occurs together: downloads, speeches, texts, dates, how often
           \* the task moves files, and whether the queues are destroyed (quit)

\* The names of a speech differ in their extension, and those of two speeches before it
\* (main.mm:47).  The downloads are .mp3 files: a .wav file would be encoded and deleted
\* as those of the speeches are.
ASSUME StorageConstants ==
  /\ \A m, n \in Speech : (Wav[m] = Wav[n] \/ Mp3[m] = Mp3[n] => m = n) /\ Wav[m] # Mp3[n]
  /\ \A d \in Download, n \in Speech : Target[d] # Wav[n] /\ d # n
  /\ \A a \in Download \union Speech : a # "page"
  /\ \A d \in Download : Target[d] # "embedded"
  /\ NoItem \notin {"audio", "page", "nothing"}
  /\ \A t \in Base64 : t \in Text
  /\ \A s \in Setup : /\ s.downloads \subseteq Download /\ s.speeches \subseteq Speech
                     /\ s.texts \subseteq Base64 /\ s.dates \subseteq Date

VARIABLES
  setup,  \* what occurs
  disk, full, dwq, fetched, asked, handed, running, encq, opened, recursive,
  encoding, arcq, dirs, zips, left,
  moves,  \* how often the task has moved files
  task    \* the daily task: "idle", "encoder" was seen idle, or both were: "move"

D == INSTANCE DWQueue
E == INSTANCE EncQueue
A == INSTANCE ArchiveQueue
Queue == INSTANCE WorkQueue

downloads == <<dwq, fetched, asked, handed, running>>
encoder == <<encq, opened, recursive, encoding>>
archive == <<arcq, dirs, zips, left>>
vars == <<setup, disk, full, downloads, encoder, archive, moves, task>>

Files == {Target[d] : d \in Download} \union {Wav[n] : n \in Speech} \union {Mp3[n] : n \in Speech}

\* What a file holds that is not empty.
Held == [audio : Download \union Speech \union {"page"}, whole : BOOLEAN]

\* No file and nothing in one are told from what a file, a directory or an archive holds.
ASSUME AbsentConstants ==
  /\ Absent # Empty /\ Absent \notin Held /\ Empty \notin Held
  /\ \A F \in SUBSET Files : Absent \notin [F -> Held \union {Empty}]
  /\ \A Z \in SUBSET (Held \union {Empty}) : Absent # Z

\* The speech files have been made; nothing was downloaded yet.
Init ==
  /\ setup \in Setup
  /\ disk = [f \in Files |->
       IF \E n \in Speech : f = Wav[n] THEN [audio |-> CHOOSE n \in Speech : f = Wav[n], whole |-> TRUE]
       ELSE Absent]
  /\ full = FALSE
  /\ D!DownloadInit
  /\ E!EncodeInit
  /\ A!ArchiveInit
  /\ moves = 0
  /\ task = "idle"

\* What is in the file that was to hold the bytes of text: with a full disk perhaps only the
\* first of them or none, since no call is looked at.
Reached(text) ==
  LET w == DecodeAndWrite(text)
  IN  IF full /\ w # Absent THEN {SubSeq(w, 1, n) : n \in 0 .. Len(w)} ELSE {w}

\* decodeToFile: in the working directory, and pushed whatever became of it.  When the file
\* cannot be opened the bytes are written to null, which ends the process.
DecodeToFile(text) ==
  /\ running
  /\ \A h \in handed : h.file # "embedded"
  /\ \/ /\ \E w \in Reached(text) :
             handed' = handed \union {[file |-> "embedded", content |-> [text |-> text, bytes |-> w]]}
        /\ UNCHANGED running
     \/ /\ DecodeAndWrite(text) # Absent
        /\ running' = FALSE
        /\ UNCHANGED handed
  /\ UNCHANGED <<disk, full, dwq, fetched, asked, encoder, archive, moves, task>>

\* A played file that is a .wav is pushed to the encoder.
Played(n) ==
  /\ disk[Wav[n]] # Absent
  /\ E!PushWav(n)
  /\ UNCHANGED <<downloads, archive, moves, task>>

\* The encoder writes to the file it opened, which may have been moved to a directory,
\* or archived and removed.
EncodeWrites ==
  /\ \E c \in [audio : Speech, whole : BOOLEAN] :
       /\ E!EncodeWrites(c)
       /\ LET f == Mp3[encq.item]
              moved == {d \in A!Directory : dirs[d] # Absent /\ f \in DOMAIN dirs[d] /\ dirs[d][f] = Empty}
          IN  \/ /\ disk[f] # Absent
                 /\ disk' = [disk EXCEPT ![f] = c]
                 /\ UNCHANGED dirs
              \/ /\ disk[f] = Absent
                 /\ dirs' = [d \in DOMAIN dirs |->
                      IF d \in moved THEN [dirs[d] EXCEPT ![f] = c] ELSE dirs[d]]
                 /\ UNCHANGED disk
  /\ UNCHANGED <<downloads, arcq, zips, left, moves, task>>

\* The waiter asks the encoder queue, whose GetHistory blocks if OnFinish does.
AskEncoder ==
  /\ task = "idle"
  /\ moves < setup.moves
  /\ encq.worker # "stuck"
  /\ encq.history = <<>>
  /\ task' = "encoder"
  /\ UNCHANGED <<disk, full, downloads, encoder, archive, moves>>

AskDownloads ==
  /\ task = "encoder"
  /\ task' = IF dwq.history = <<>> THEN "move" ELSE "idle"
  /\ UNCHANGED <<disk, full, downloads, encoder, archive, moves>>

\* The task moves all the .mp3 files there are.
Task ==
  /\ task = "move"
  /\ moves' = moves + 1
  /\ \E d \in setup.dates : A!MoveFiles(Files \ {Wav[n] : n \in Speech}, d)
  /\ task' = "idle"
  /\ UNCHANGED <<downloads, encoder>>

DiskFills ==
  /\ ~full
  /\ full' = TRUE
  /\ UNCHANGED <<disk, downloads, encoder, archive, moves, task>>

Downloads ==
  /\ \/ \E d \in setup.downloads : D!PushDownload(d)
     \/ D!DownloadStep
     \/ setup.quit /\ D!QuitDownloads
  /\ UNCHANGED <<encoder, archive, moves, task>>

Encoding ==
  \/ /\ E!EncodeStep \/ (setup.quit /\ E!QuitEncoder)
     /\ UNCHANGED <<downloads, archive, moves, task>>
  \/ EncodeWrites

Archiving ==
  /\ A!ArchiveStep \/ (setup.quit /\ A!QuitArchive)
  /\ UNCHANGED <<downloads, encoder, moves, task>>

Next ==
  /\ \/ Downloads
     \/ \E t \in setup.texts : DecodeToFile(t)
     \/ \E n \in setup.speeches : Played(n)
     \/ Encoding \/ Archiving
     \/ AskEncoder \/ AskDownloads \/ Task \/ DiskFills
  /\ UNCHANGED setup

Spec == Init /\ [][Next]_vars /\ D!DownloadFairness

-----------------------------------------------------------------------------
(* Properties *)

Whole(a) == [audio |-> a, whole |-> TRUE]

OnDisk(a) == \E f \in Files : disk[f] = Whole(a)
InDirectory(a, d) == dirs[d] # Absent /\ \E f \in DOMAIN dirs[d] : dirs[d][f] = Whole(a)
Archived(a) == \E d \in A!Directory : zips[d] # Absent /\ Whole(a) \in zips[d]

Kept(a) == OnDisk(a) \/ (\E d \in A!Directory : InDirectory(a, d)) \/ Archived(a)

\* The .mp3 file of a download, or of a speech that was encoded.
Mp3Of(a) == IF a \in Download THEN Target[a] ELSE Mp3[a]

\* What has the same name as something else but for the extension.
Shared == {a \in Download \union Speech :
  \E b \in Download \union Speech : b # a /\ Mp3Of(b) = Mp3Of(a)}

\* Audio that is on the disk stays there, as it came, encoded, moved or archived,
\* whatever fails, and although the task may move an .mp3 file that is being
\* made: except that a full disk makes encoded or archived copies short and the originals are
\* deleted all the same (main.mm:77, zipArchiver.cpp:138), that an
\* .mp3 file is overwritten by another one of its name (main.mm:47, xmlhandler.cpp:152-153),
\* and that a second archive of one day overwrites the first, whose
\* directory is gone (archiveQueue.cpp:57, zipArchiver.cpp:52).
AudioKept ==
  [][ \A a \in Download \union Speech :
        Kept(a) /\ ~Kept(a)' =>
          \/ full
          \/ a \in Shared
          \/ \E d \in A!Directory : zips[d] # Absent /\ zips'[d] = {} ]_vars

\* Unless the disk is full a file that is pushed to be played holds the whole body of a
\* response that is not empty, though it may be an error page, whose status nobody looks at;
\* or of embedded audio what was encoded, with a zero for each "=".  Excepted are texts
\* with other characters, of which a part is written or nothing, and pushed all the same.  With
\* a full disk anything is: what fwrite and fclose return tells nothing, or is not looked at
\* (downloadqueue.cpp:101-106, decodeutil.cpp:14-53, main.mm:154).
HandedOn ==
  ~full =>
    \A h \in handed :
      IF h.file = "embedded"
      THEN Clean(h.content.text) => WhatWasEncoded(h.content.bytes, h.content.text)
      ELSE h.content # Empty /\ h.content.whole

DownloadsMoveOn == D!DownloadsMoveOn

\* The waiter goes by the histories: a worker at a file has it in its history, for
\* as long as it has not finished, and a worker with nothing to do has an empty one.
HistoriesTellWork == \A q \in {dwq, encq, arcq} : Queue!HistoryTellsWork(q)

-----------------------------------------------------------------------------
(* The invariant that is inductive *)

TypeOK ==
  /\ setup \in Setup
  /\ disk \in [Files -> Held \union {Absent, Empty}]
  /\ full \in BOOLEAN
  /\ Queue!Consistent(dwq, Download) /\ Queue!Once(dwq)
  /\ Queue!Consistent(encq, Speech)
  /\ Queue!Consistent(arcq, A!Directory) /\ Queue!Once(arcq)
  /\ fetched \in {NoItem, "audio", "page", "nothing"}
  /\ asked \subseteq Download
  /\ opened \in BOOLEAN
  /\ dirs \in [A!Directory -> {dirs[d] : d \in A!Directory}]
  /\ \A d \in A!Directory : dirs[d] # Absent =>
       DOMAIN dirs[d] \subseteq Files /\ dirs[d] \in [DOMAIN dirs[d] -> Held \union {Empty}]
  /\ zips \in [A!Directory -> {Absent} \union SUBSET (Held \union {Empty})]

\* What has not been downloaded is not on the disk.
DownloadsNew ==
  \A d \in Download :
    /\ Queue!Pending(dwq, d) => d \in asked
    /\ d \notin asked \/ Queue!Pending(dwq, d) => ~OnDisk(d)

\* What is whole is in a file of its own name.  Nothing but the encoder writes an .mp3
\* file of a speech, which is whole when it is not being made.
FilesTellAudio ==
  /\ \A n \in Speech : disk[Wav[n]] \in {Absent, Whole(n)}
  /\ \A a \in (Download \union Speech) \ Shared : \A f \in Files :
       disk[f] = Whole(a) => f = Mp3Of(a) \/ (a \in Speech /\ f = Wav[a])
  /\ opened => encq.worker = "working" /\ disk[Wav[encq.item]] # Absent
  /\ \A n \in Speech \ Shared :
       /\ ~full => disk[Mp3[n]] \in {Absent, Empty, Whole(n)}
       /\ disk[Mp3[n]] = Empty => opened /\ encq.item = n

\* The directories that are queued exist, and so does the archive being made of one.
DirectoriesExist ==
  /\ \A d \in A!Directory : Queue!Pending(arcq, d) => dirs[d] # Absent
  /\ arcq.worker = "adding" => zips[arcq.item] # Absent /\ left \subseteq DOMAIN dirs[arcq.item]

\* a is in the directory being archived, and not in the archive yet.
Left(a) == \E f \in left : dirs[arcq.item][f] = Whole(a)

\* What is kept is not only in the part of a directory that has been archived, whose
\* files may have been written after they were.
KeptSafely ==
  arcq.worker = "adding" /\ ~full =>
    \A a \in (Download \union Speech) \ Shared : Kept(a) =>
      \/ OnDisk(a) \/ Archived(a) \/ Left(a)
      \/ \E d \in A!Directory \ {arcq.item} : InDirectory(a, d)

\* Until the disk is full what is handed on is all that was received or decoded.
HandedWhole ==
  ~full =>
    \A h \in handed :
      /\ h.file # "embedded" => h.content # Empty /\ h.content.whole
      /\ h.file = "embedded" =>
           h.content.text \in Base64 /\ h.content.bytes = DecodeAndWrite(h.content.text)

IInv ==
  /\ TypeOK
  /\ DownloadsNew
  /\ FilesTellAudio
  /\ DirectoriesExist
  /\ KeptSafely
  /\ HandedWhole
=============================================================================
