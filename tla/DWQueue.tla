------------------------------- MODULE DWQueue -------------------------------
(***************************************************************************)
(* The download queue (libs/downloadqueue): the io thread pushes, the      *)
(* worker downloads one file after the other over blocking calls without a *)
(* timeout, writes it and hands it to the playback queue (main.mm:144-147, *)
(* :158-163).                                                              *)
(***************************************************************************)
EXTENDS Sequences, SequencesExt

CONSTANTS
  Download,   \* what is downloaded
  Target,     \* Target[d]: filename_ of d
  NoItem,
  Absent, Empty  \* what is in a file that does not exist, or has nothing in it

Queue == INSTANCE WorkQueue

VARIABLES
  disk,      \* the files of Storage, and what is in them: [audio, whole]
  full,      \* no more data fits on the disk
  dwq,       \* the queue
  fetched,   \* what the worker has got: NoItem, "audio", "page": an error page, or "nothing"
  asked,     \* the downloads asked for so far
  handed,    \* the files pushed to the playback queue, and what was in them then
  running    \* FALSE: an exception of the worker has ended the process

downloads == <<dwq, fetched, asked, handed, running>>

DownloadInit ==
  /\ dwq = Queue!New
  /\ fetched = NoItem
  /\ asked = {}
  /\ handed = {}
  /\ running = TRUE

Content(audio, whole) == [audio |-> audio, whole |-> whole]

\* Each alert is downloaded once.
PushDownload(d) ==
  /\ running
  /\ ~dwq.quit
  /\ d \notin asked
  /\ asked' = asked \union {d}
  /\ dwq' = Queue!Push(dwq, d)
  /\ UNCHANGED <<disk, full, fetched, handed, running>>

\* The next step of the worker between two files.
DownloadHandler ==
  /\ running
  /\ \/ Queue!CanWait(dwq) /\ dwq' = Queue!Wait(dwq)
     \/ Queue!CanTake(dwq) /\ dwq' = Queue!Take(dwq)
     \/ Queue!CanEnd(dwq) /\ dwq' = Queue!End(dwq)
     \/ dwq.worker = "finish" /\ dwq' = Queue!Next(dwq)
  /\ UNCHANGED <<disk, full, fetched, asked, handed, running>>

\* A response is read.  Its status is not looked at.
Fetch ==
  /\ running
  /\ dwq.worker = "working"
  /\ fetched = NoItem
  /\ fetched' \in {"audio", "page", "nothing"}
  /\ UNCHANGED <<disk, full, dwq, asked, handed, running>>

\* The lookup, the connection or the transfer fails, which throws.
FetchThrows ==
  /\ running
  /\ dwq.worker = "working"
  /\ fetched = NoItem
  /\ running' = FALSE
  /\ UNCHANGED <<disk, full, dwq, fetched, asked, handed>>

\* The name of the server is refused before, or the shutdown of the connection fails
\* after the transfer, or the file cannot be opened: the download is given up.
GiveUp ==
  /\ running
  /\ dwq.worker = "working"
  /\ dwq' = [dwq EXCEPT !.worker = "finish"]
  /\ fetched' = NoItem
  /\ UNCHANGED <<disk, full, asked, handed, running>>

\* The body of the response.
Body ==
  IF fetched = "nothing" THEN Empty
  ELSE Content(IF fetched = "page" THEN "page" ELSE dwq.item, TRUE)

\* What is in the file when it has been written and closed, neither of which is looked at:
\* with a full disk perhaps a part, or nothing.
Written ==
  IF full /\ Body # Empty THEN {Body, Content(Body.audio, FALSE), Empty} ELSE {Body}

\* OnDownload, which pushes the file, or never returns because the playback queue is locked.
OnDownload(f, c) ==
  \/ /\ handed' = handed \union {[file |-> f, content |-> c]}
     /\ dwq' = [dwq EXCEPT !.worker = "finish"]
  \/ /\ UNCHANGED handed
     /\ dwq' = [dwq EXCEPT !.worker = "stuck"]

\* Mutant: what fwrite returns is not looked at.
StoreUnchecked ==
  /\ running
  /\ dwq.worker = "working"
  /\ fetched # NoItem
  /\ \E c \in Written :
       /\ disk' = [disk EXCEPT ![Target[dwq.item]] = c]
       /\ OnDownload(Target[dwq.item], c)
  /\ fetched' = NoItem
  /\ UNCHANGED <<full, asked, running>>

\* The body is written and the file handed on unless fwrite took nothing.  It takes what fits
\* its buffer although the disk is full.
Store ==
  /\ running
  /\ dwq.worker = "working"
  /\ fetched # NoItem
  /\ \E c \in Written :
       /\ disk' = [disk EXCEPT ![Target[dwq.item]] = c]
       /\ \/ Body # Empty /\ OnDownload(Target[dwq.item], c)
          \/ /\ c = Empty
             /\ dwq' = [dwq EXCEPT !.worker = "finish"]
             /\ UNCHANGED handed
  /\ fetched' = NoItem
  /\ UNCHANGED <<full, asked, running>>

QuitDownloads ==
  /\ running
  /\ ~dwq.quit
  /\ dwq' = Queue!Quit(dwq)
  /\ UNCHANGED <<disk, full, fetched, asked, handed, running>>

DownloadStep == DownloadHandler \/ Fetch \/ FetchThrows \/ GiveUp \/ Store

DownloadFairness ==
  /\ WF_<<disk, full, downloads>>(DownloadHandler)
  /\ WF_<<disk, full, downloads>>(Store)

-----------------------------------------------------------------------------
(* Properties *)

Waits(d) == d \in ToSet(dwq.queue)
AtNetwork == dwq.worker = "working" /\ fetched = NoItem

\* A download is taken in its turn, however the ones before it end.  What may keep it
\* waiting is a server that is silent in the middle of one before it: no
\* call has a timeout (downloadqueue.cpp:84-91, :122-137); the
\* destructor or an exception of another download; and the hand-over of one before it, which
\* never returns once the playback queue has deadlocked (main.mm:120, :146).
DownloadsMoveOn ==
  []<>~AtNetwork =>
    \A d \in Download :
      Waits(d) ~> (~Waits(d) \/ dwq.quit \/ ~running \/ dwq.worker = "stuck")
=============================================================================
