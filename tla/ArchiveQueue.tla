---------------------------- MODULE ArchiveQueue ----------------------------
(***************************************************************************)
(* The archive queue and the archiver (libs/archiveQueue).  MoveFiles      *)
(* moves files into a new directory, Push queues the directory, and the    *)
(* worker makes a .zip of it and removes it.  Nothing in the program calls *)
(* the first two yet: here the daily task does, as main.mm:242-243 has it  *)
(* planned.                                                                *)
(***************************************************************************)
EXTENDS Sequences, SequencesExt

CONSTANTS
  Date,       \* directories the files of a day are to be moved to, and
  Suffixed,   \* Suffixed[d]: what it is to be with a suffix
  NoItem,
  Absent, Empty

Queue == INSTANCE WorkQueue

VARIABLES
  disk,      \* the files of Storage, as in DWQueue
  full,      \* no more data fits on the disk
  arcq,      \* the queue
  dirs,      \* dirs[d]: what the files in directory d hold, or Absent
  zips,      \* zips[d]: what the files in d.zip hold, or Absent
  left       \* the files of the directory that are not in the archive yet

archive == <<arcq, dirs, zips, left>>

Directory == Date \union {Suffixed[d] : d \in Date}

ArchiveInit ==
  /\ arcq = Queue!New
  /\ dirs = [d \in Directory |-> Absent]
  /\ zips = [d \in Directory |-> Absent]
  /\ left = {}

\* The directory with the first suffix that is new.
NewDirectory(d) == IF dirs[d] = Absent THEN d ELSE Suffixed[d]

\* MoveFiles moves those of the files that can be moved to a new directory, which it
\* removes again if there are none; then the directory is queued.
MoveFiles(files, d) ==
  LET new == NewDirectory(d)
  IN  /\ ~arcq.quit
      /\ dirs[new] = Absent  \* bound: one suffix
      /\ \E moved \in SUBSET {f \in files : disk[f] # Absent} :
           IF moved = {} THEN UNCHANGED <<disk, dirs, arcq>>
           ELSE /\ disk' = [f \in DOMAIN disk |-> IF f \in moved THEN Absent ELSE disk[f]]
                /\ dirs' = [dirs EXCEPT ![new] = [f \in moved |-> disk[f]]]
                /\ arcq' = Queue!Push(arcq, new)
      /\ UNCHANGED <<full, zips, left>>

\* The next step of the worker between two directories.
ArchiveHandler ==
  /\ \/ Queue!CanWait(arcq) /\ arcq' = Queue!Wait(arcq)
     \/ Queue!CanTake(arcq) /\ arcq' = Queue!Take(arcq)
     \/ Queue!CanEnd(arcq) /\ arcq' = Queue!End(arcq)
     \/ arcq.worker = "finish" /\ arcq' = Queue!Next(arcq)
  /\ UNCHANGED <<disk, full, dirs, zips, left>>

\* CompressDirectoryToZip: the archive is opened, and emptied if there was one.
CompressOpens ==
  /\ arcq.worker = "working"
  /\ zips' = [zips EXCEPT ![arcq.item] = {}]
  /\ left' = DOMAIN dirs[arcq.item]
  /\ arcq' = [arcq EXCEPT !.worker = "adding"]
  /\ UNCHANGED <<disk, full, dirs>>

\* The archive cannot be created or opened.
CompressFails ==
  /\ arcq.worker = "working"
  /\ arcq' = [arcq EXCEPT !.worker = "finish"]
  /\ UNCHANGED <<disk, full, dirs, zips, left>>

\* AddEntryToArchive, which does not look at what becomes of the data.
AddEntry(f) ==
  /\ arcq.worker = "adding"
  /\ f \in left
  /\ left' = left \ {f}
  /\ LET c == dirs[arcq.item][f]
     IN  zips' = [zips EXCEPT ![arcq.item] =
           @ \union {IF full /\ c # Empty THEN [c EXCEPT !.whole = FALSE] ELSE c}]
  /\ UNCHANGED <<disk, full, arcq, dirs>>

\* Mutant: the directory is removed all the same.
AddEntryFailsRemoves ==
  /\ arcq.worker = "adding"
  /\ left # {}
  /\ left' = {}
  /\ dirs' = [dirs EXCEPT ![arcq.item] = Absent]
  /\ arcq' = [arcq EXCEPT !.worker = "finish"]
  /\ UNCHANGED <<disk, full, zips>>

\* An entry cannot be read or its header written: the directory stays.
AddEntryFails ==
  /\ arcq.worker = "adding"
  /\ left # {}
  /\ left' = {}
  /\ arcq' = [arcq EXCEPT !.worker = "finish"]
  /\ UNCHANGED <<disk, full, dirs, zips>>

\* The archive is closed and the directory removed.
CompressEnds ==
  /\ arcq.worker = "adding"
  /\ left = {}
  /\ dirs' = [dirs EXCEPT ![arcq.item] = Absent]
  /\ arcq' = [arcq EXCEPT !.worker = "finish"]
  /\ UNCHANGED <<disk, full, zips, left>>

QuitArchive ==
  /\ ~arcq.quit
  /\ arcq' = Queue!Quit(arcq)
  /\ UNCHANGED <<disk, full, dirs, zips, left>>

ArchiveStep ==
  \/ ArchiveHandler \/ CompressOpens \/ CompressFails
  \/ \E f \in left : AddEntry(f)
  \/ AddEntryFails \/ CompressEnds
=============================================================================
