------------------------------- MODULE MsLogger -------------------------------
(***************************************************************************)
(* The logger (libs/mslogger/mslogger.hpp): messages gather in a buffer,   *)
(* which is written to a file of the day when it is full and at the end.   *)
(* Every call holds mutBuffer_, so that each is one step.  The text is the *)
(* sequence of the characters logged, and a character is its place in it,  *)
(* so that one that is lost, doubled or displaced shows.                   *)
(***************************************************************************)
EXTENDS Integers, Sequences, FiniteSets, SequencesExt, FiniteSetsExt, Functions

CONSTANTS
  BufferSizes,   \* what presize_buffer and set_bufferSize may be called with
  LogrotateSize, \* DEFAULT_LOGROTATE_SIZE
  Lengths,       \* of messages
  MaxText,       \* bound: characters logged
  Days,          \* bound: days
  NoFile

ASSUME LoggerAssumption ==
  /\ BufferSizes \subseteq Nat \ {0}
  /\ Lengths \subseteq Nat \ {0}
  /\ {LogrotateSize, MaxText, Days} \subseteq Nat

VARIABLES
  day,       \* the date
  full,      \* nothing more fits on the disk
  files,     \* the log files there are, by date and number: their text
  logged,    \* the number of characters logged so far
  up,        \* between the constructor and the destructor
  size,      \* bufferSize_
  out        \* the rest of the logger: its buffer_, fileindex_, filepath_, the
             \* file that file_ has open and whether a write to it has failed

vars == <<day, full, files, logged, up, size, out>>

NewLogger(d) ==
  [buffer |-> <<>>, fileindex |-> 1, filepath |-> <<d, 1>>, file |-> NoFile, bad |-> FALSE]

Init ==
  /\ day = 1 /\ full = FALSE /\ logged = 0 /\ up = FALSE
  /\ files = [k \in {} |-> <<>>]
  /\ size \in BufferSizes
  /\ out = NewLogger(1)
-----------------------------------------------------------------------------
(* Writing, as operators on a record of files and out: o.files, o.out. *)

TooLarge(fs, k) == k \in DOMAIN fs /\ Len(fs[k]) > LogrotateSize

\* Mutant: one file for ever.
RotateNever(o) == o

\* The loop of write_to_file: while the file named is there and too large, the next
\* number, with the date of now.
Rotate(o) ==
  IF ~TooLarge(o.files, o.out.filepath) THEN o
  ELSE LET n == Min({i \in o.out.fileindex + 1 .. o.out.fileindex + 1 + Cardinality(DOMAIN o.files) :
                       ~TooLarge(o.files, <<day, i>>)})
       IN  [o EXCEPT !.out.fileindex = n, !.out.filepath = <<day, n>>]

\* The file is opened if it is not there or none is open.  A file that is there is not
\* opened while another one still is.  file_ then is as good as new.
Ready(o) ==
  LET k == o.out.filepath
  IN  IF k \in DOMAIN o.files /\ o.out.file # NoFile THEN o
      ELSE [files |-> IF k \in DOMAIN o.files THEN o.files ELSE (k :> <<>>) @@ o.files,
            out   |-> [o.out EXCEPT !.file = k, !.bad = FALSE]]

\* The buffer goes to the open file, and is gone if that fails; after that file_ is bad
\* and takes nothing.  (The second check of the size is of a file that has just been
\* found small enough, or made.)
WriteToFile(o) ==
  LET r == Ready(Rotate(o))
      k == r.out.file
  IN  IF full \/ r.out.bad THEN [r EXCEPT !.out.bad = TRUE]
      ELSE IF k \in DOMAIN r.files THEN [r EXCEPT !.files[k] = @ \o r.out.buffer]
      ELSE r

\* Mutant: the put pointer stays where it is if the file is new.
SyncKeeps(o) ==
  LET w == WriteToFile(o)
  IN  IF w.out.file = o.out.file THEN [w EXCEPT !.out.buffer = <<>>] ELSE w

Sync(o) == [WriteToFile(o) EXCEPT !.out.buffer = <<>>]

\* Mutant: the character there was no room for is forgotten.
SputcForgets(o, c) ==
  IF Len(o.out.buffer) < size THEN [o EXCEPT !.out.buffer = Append(@, c)] ELSE Sync(o)

\* sputc, with overflow.
Sputc(o, c) ==
  IF Len(o.out.buffer) < size THEN [o EXCEPT !.out.buffer = Append(@, c)]
  ELSE [Sync(o) EXCEPT !.out.buffer = <<c>>]

\* All at once if it fits, else character by character.
Xsputn(o, text) ==
  IF size - Len(o.out.buffer) >= Len(text) THEN [o EXCEPT !.out.buffer = @ \o text]
  ELSE FoldLeft(Sputc, o, text)

Become(o) == files' = o.files /\ out' = o.out

Now == [files |-> files, out |-> out]
-----------------------------------------------------------------------------
(* The calls. *)

\* The constructor, at the first message, after any presize_buffer.
Construct ==
  /\ ~up
  /\ up' = TRUE
  /\ size' \in BufferSizes
  /\ out' = NewLogger(day)
  /\ UNCHANGED <<day, full, files, logged>>

LogToFile(n) ==
  /\ up
  /\ logged + n <= MaxText
  /\ logged' = logged + n
  /\ Become(Xsputn(Now, [i \in 1..n |-> logged + i]))
  /\ UNCHANGED <<day, full, up, size>>

\* set_bufferSize, which does nothing for a smaller size.  The text is copied to the new
\* buffer, but what is put next goes to the start of it.
SetBufferSize(bs) ==
  /\ up
  /\ bs >= size
  /\ size' = bs
  /\ out' = [out EXCEPT !.buffer = <<>>]
  /\ UNCHANGED <<day, full, files, logged, up>>

\* Mutant: the end does not write.
DestructSilently ==
  /\ up
  /\ up' = FALSE
  /\ UNCHANGED <<day, full, files, logged, size, out>>

\* The destructor, when the program ends.
Destruct ==
  /\ up
  /\ up' = FALSE
  /\ IF out.buffer # <<>> THEN Become(Sync(Now)) ELSE UNCHANGED <<files, out>>
  /\ UNCHANGED <<day, full, logged, size>>

\* The program is brought down, by an exception nobody catches or from outside.
Crash ==
  /\ up
  /\ up' = FALSE
  /\ out' = NewLogger(day)
  /\ UNCHANGED <<day, full, files, logged, size>>

\* A log file is removed.
RemoveLog(k) ==
  /\ files' = Restrict(files, DOMAIN files \ {k})
  /\ UNCHANGED <<day, full, logged, up, size, out>>

Midnight ==
  /\ day < Days
  /\ day' = day + 1
  /\ UNCHANGED <<full, files, logged, up, size, out>>

DiskFills ==
  /\ full' = ~full
  /\ UNCHANGED <<day, files, logged, up, size, out>>

Next ==
  \/ Construct
  \/ \E n \in Lengths : LogToFile(n)
  \/ \E bs \in BufferSizes : SetBufferSize(bs)
  \/ Destruct \/ Crash
  \/ \E k \in DOMAIN files : RemoveLog(k)
  \/ Midnight \/ DiskFills

Spec == Init /\ [][Next]_vars
-----------------------------------------------------------------------------
TextOf(fs) == UNION {Range(fs[k]) : k \in DOMAIN fs}

Increasing(s) == \A i, j \in DOMAIN s : i < j => s[i] < s[j]

\* No character is written twice, those of a file are in the order in which they were
\* logged, and those in the buffer come after all of them.
OnceInOrder ==
  /\ \A k \in DOMAIN files :
       /\ Increasing(files[k])
       /\ \A l \in DOMAIN files \ {k} : Range(files[k]) \cap Range(files[l]) = {}
  /\ Increasing(out.buffer)
  /\ up => \A c \in TextOf(files), i \in DOMAIN out.buffer : c < out.buffer[i]

\* What is logged is on disk or in the buffer, in order and once, whatever the length of
\* the message, and all of it is on disk once the logger is destroyed (log_to_file,
\* xsputn, overflow, sync, the destructor).  The exceptions are the file that has
\* been removed, the buffer at a crash, the buffer when set_bufferSize finds it in use,
\* and everything from the first write that fails until a file is opened anew, or
\* from the removal of a file that is written to although it is no longer the one named.
LogKept ==
  [][ LET lost == (TextOf(files) \union Range(out.buffer) \union logged + 1 .. logged')
                    \ (TextOf(files') \union IF up' THEN Range(out'.buffer) ELSE {})
      IN  /\ OnceInOrder'
          /\ \/ lost = {}
             \/ out'.bad
             \/ out'.file # NoFile /\ out'.file \notin DOMAIN files'
             \/ lost = Range(out.buffer) /\ (Crash \/ \E bs \in BufferSizes : SetBufferSize(bs))
             \/ \E k \in DOMAIN files : RemoveLog(k) /\ lost = Range(files[k]) ]_vars

\* A file grows to no more than the limit and one buffer, over midnights, restarts and
\* removals too (write_to_file).  The exception is a file that stays open because the
\* one named next already exists, which is named but never opened.
Rotates ==
  [][ \A k \in DOMAIN files' :
        Len(files'[k]) > (IF k \in DOMAIN files THEN Len(files[k]) ELSE 0)
        => \/ Len(files'[k]) <= LogrotateSize + size
           \/ out'.file = k /\ out'.filepath # k ]_vars
=============================================================================
