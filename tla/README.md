# MacCapster in TLA+

MacCapster is the receiver of a radio station for public alerts in the Common
Alerting Protocol. It listens to two alert servers, filters what they send by
area and by what was seen before, turns the text of an alert into speech (or
takes the audio that comes with it, or downloads it), switches the station from
its own programme to the alert with a relay, plays a siren and the alert, and
switches back. Afterwards it encodes the audio and, once a day, is meant to
archive it. This directory models the whole of that path, from the chunks of
text a server sends to the loudspeaker and to the archived file, checks it with
TLC and proves part of it with TLAPS.

## The system

| Component | State | Operations | Talks to |
|---|---|---|---|
| `Client` (2 objects) | `tcpSocket_`, `pmxTimer_`, its endpoint, a receive buffer | `DoResolve`, `DoConnect`, `DoRead`, `OnTimeout`, `DoDisconnect`, `DoWait` | asio; `appendXml` |
| `XmlHandler` | `fullBuffer_` per host, `matches_`, the static `history_` | `append`, `find_match`, `process_matches`, `check_update_history` | area test, decoder, downloads, speech, files |
| `GeoUtil`, `decode_and_write` | polygon and station / none | `is_inside` / Base64 decoding | called by `XmlHandler` |
| `TextToSpeechQueue` | queue, "speaking" flag, audio file | `enqueueText`, buffer callback | `PBQueue::Push` when done |
| `DWQueue` | queue, history, busy, quit | `Push`, `Handler`, `Download`, `SecureDownload` | `PBQueue::Push` when done |
| `PBQueue` | queue, history, busy, quit | `Push`, `Handler`, `GetHistory` | relay, `PBUtil`, `EncQueue::Push` |
| `PBUtil` | audio queue, three buffers, `pktPos_`, `isDone_` | `OpenFile`, `Callback` | called by `PBQueue` |
| `RS232Util` | serial port | `set_pin`, `clear_pin` | hardware |
| `EncQueue` | queue, history, busy, quit | `Push`, `Handler`, `GetHistory` | files |
| `DailyWorker` | `scheduleTime_`, `reset_`, `quit_`, next time | `Handler`, `SetScheduleTime` | looks at all queues |
| `ArchiveQueue`, `ZipArchiver` | queue; none | `Push`, `Handler`; `CompressDirectoryToZip` | files (not wired up yet) |
| `MsLogger` | line buffer, log file | stream operations, rotation | every component |

Threads: the main thread (the run loop of the application), one io thread for both
clients and everything `XmlHandler` does (`main.mm:269`), one worker per queue,
the scheduler's worker, and the callback threads of the speech synthesiser and the
audio player. The queues are fed by one another's threads: `PBQueue::Push` is
called by the io thread (audio that came with the alert), by the download worker
and by the speech callback, and may play the siren on any of them.

What is hard to get right, and hard to test:

* the relay is set inside `Push` and cleared inside `OnFinish`, on different
  threads, and everything between them must be on the air (`PBQueue`);
* the callbacks run with the queue's mutex held (`PBQueue`, `EncQueue`);
* the timer closes a socket that belongs to a chain of asynchronous operations,
  and restarting it aborts the waits on it (`Client`);
* `DoWait` blocks the thread of both clients (`Client`);
* the schedule is changed by two threads without a lock, once from within the
  task (`DailyWorker`);
* alerts arrive in arbitrary chunks and are lost in the middle (`XmlHandler`);
* several steps (decode, download, encode, archive) go on after a failure;
* the worker of the playback queue locks its own mutex after the first batch (`main.mm:120`), and from
  then on blocks whoever pushes or asks for the history: the io thread, the download worker, the
  synthesiser's callback, the daily task. Every module whose thread calls the playback queue lets it block there.

`PROJECT.json` lists every component and every hazard with its line.

## The modules

### `Broadcast`: what a listener is promised

No threads, locks or files: the station carries its regular programme, then one
siren to its end, then the alerts in order one at a time, and the regular
programme again only when none is left.

### `PBQueue`, `MCPBQueue`, `PBQueueProofs`: the playback queue

One action per critical section, because nothing outside a thread can tell what
happens inside one; sections that block or play while holding `mut_` are split
where they do, and keep `mutex` in between: `Push` while the siren plays
(`PushPlayFirst`, `PushSirenEnds`), and `Handler` while `OnFinish` runs
(`WorkerRelock`, `FinishClearRelay`, `FinishHandOver`). `busy_` and `quit_` are
atomics, but are only written as the actions say. `worker` and `push[p]` say where a
thread is; `waiting` is inside `cond_.wait`, `woken` has been notified (or woke up
by itself) and needs `mut_` again. `GetHistory` is a lock that `FinishHandOver`
must get. `OpenFile` may never come back from the siren or a file (`SirenHangs`, `FileHangs`; `PBUtil` has why).

The source's `mut_` is a `std::mutex`: locked by its owner it blocks for ever (the
behaviour of the platform's normal mutex; formally it is undefined). That is
`RecursiveMutex = FALSE`. `TRUE` is a what-if, which makes everything that comes
after `GetHistory`, and any second batch, reachable.

`Abstract` maps this state to `Broadcast`: the programme is regular while the relay
is clear, siren while a `Push` plays it, alerts otherwise.

### `Client`, `ClientProofs`: the connections

Both clients share one sequence `ready` of completion handlers, which is run from
the front, as one thread running an `io_context` does. An asynchronous operation is
`op[c]` while the system works on it and an element of `ready` when it has
completed; closing the socket completes it with an error. `waits[c]` counts the
pending `async_wait`s; `expires_from_now` moves them all to `ready`, aborted;
`Expire` moves them there without error. Each handler is one action. Time passes
between any two actions and during `DoWait`. A thread that does not return from `appendXml` is one that does not
take the handler at the front of `ready` (`Appending`).

### `DailyWorker`, `DailyWorkerProofs`: the schedule

The time of day and the time left until `nextExecutionTime` replace the clock, so
that the model is finite without a last day. `Test` and `Block` split the wait:
what is notified between them is lost. `SetScheduleTime` is four steps for main,
so that the worker can read a `scheduleTime_` of which only a part is written (`Torn`), and
one for `DoTask`, which runs on the worker itself. `waiter_()` returns anything, or waits for the mutex of
the playback queue, perhaps for ever (`WaiterBlocks`), with `DailyWorker`'s own locked.

### `XmlHandler`, `GeoUtil`, `AlertIntake`, `MCXmlHandler`: the intake

Text is abstracted to what `find_match` looks for: a document is two pieces, its
beginning and its end, and a chunk (`AppendChunk`) holds the end of the document
being sent, perhaps a short one as a whole, and the beginning of the next, or text
from the middle. A call of `append` runs on the io thread to its end, and is one action
up to the loop over the `<info>` elements of the one document it processes; each round of the
loop is an action of its own (`InfoTaken`, `InfoStops`), during which `doing` keeps
`append` from being called again. `Cut` is the connection lost in the middle of a
document, which leaves its beginning in `fullBuffer_`.

`find_match` erases the buffer under its iterator. The first match of a call is
right; a second one is `"found"`, some characters off (`"mangled"`) or not found
(`"left"`), whichever the memory makes it (`Outcomes`), or behind the end of the text, which throws
(`Thrown`). A missing mandatory element throws too, at once in a document, and in a resource (`Faulty`) when the
history has the info already; both end the process (`running`).

An `<area>` is the sequence of its polygons, which may be empty (a circle): only the first of each counts (`Covered`).

The variable `uri` outlives the round of the loop over the resources that set it: a resource
without a uri of its own is downloaded from that of the one before (`Uri`).

`GeoUtil` is the area test, on points in tenths of a degree. The model computes exactly, the source in floats, in which a
tenth is rounded and the rays end 100 000 degrees away: for a station level with a corner to within about 0.00001
of a degree, or just at the tolerance from a side, the source may decide otherwise. `Encloses` is the reference it is compared with, the usual rule of half-open sides.
`AlertIntake` joins the two: `AreaConstants` makes `Inside` of the intake what `IsInside` says of the polygons.
`MCXmlHandler` has 36 places, around and inside
a triangle and an L, on their sides, near them and level with their corners.

### `WavHeader`, `TextToSpeechQueue`, `PBUtil`, `SpeechToAir`: from text to air

`TextToSpeechQueue` has the io thread (`AddText`, `Signal`: the lock is released
between the two), the thread of `startProcessingQueue`, and `AudioBufferCallback`. The
synthesiser is external: it says every text to the end, in one buffer up to macOS
12, in several and an empty one at the end later on. `WavHeader` computes the fields of the header with
the setters in the order in which they are called; `Describes` is what a header must say.
A file is named after a second and a language, so that two texts, or a text and a recording, may share
one (`FilesDiffer` says which do); such a file may be written anew while it is played (`Overwritten`).
What is given to `fwrite` goes to a buffer of stdio, and its count says nothing of the disk: what reached a full disk shows when the
file is closed (`Closed`), and `onComplete` may be called for a file without a header.

`PBUtil` is `OpenFile`: three buffers are primed, the output is started, and the run
loop calls `Callback` for each buffer that was played. Any call of AudioFile and AudioQueue may fail;
buffers are played in their order. `Callback` asks for 1024 bytes at most whatever the size of the buffer (`READ_BYTES`,
`TooLarge`): from a packet that is larger on, nothing is read. The final two seconds are enough for the two buffers that may be enqueued
by then, except at about 8 kbit/s and less (`Slow`). `pktDesc_` has room for one packet description (`playbackutil.hpp:162`)
where more packets are read; the model takes the others to do no harm. A packet of a WAV file stands for the 256 frames read at a time.

`SpeechToAir` composes both on one disk: `onComplete` pushes to a playlist, from which
the player takes file after file, whatever else is pushed to it. Of `PBQueue`
only the order is kept here, and what blocks it: `OnFinish` locks it for ever, a siren that hangs may (`Push`), and then `onComplete` never
returns (`held`). A packet is a pair of what it is of and its number, so that one that is
lost, doubled or displaced shows.

### `WorkQueue`, `DWQueue`, `EncQueue`, `ArchiveQueue`, `DecodeUtil`, `Storage`: the files

The download, encoder and archive queues are the same loop; `WorkQueue` has it as
operators on a record (`Push`, `Wait`, `Take`, `Next`, `End`, `Quit`), and each queue adds
what it does with an item. `DWQueue` fetches a body over calls that block, throw or
give up, and writes it; with a full disk a part of it or nothing reaches the disk, whatever `fwrite` returned (`Written`), and
`OnDownload` may never return (`"stuck"`). `EncQueue` opens an .mp3 file, later writes it, and deletes
the .wav files of the batch in `OnFinish`, which blocks or, if `mut_` were
recursive, does not; `ArchiveQueue` moves files into a new directory, adds them to an
archive one by one and removes the directory. `DecodeUtil` is Base64 as an operator, without recursion: the
quadruple that the n-th byte comes from is the one with as many written before it. It is compared
with the definition of RFC 4648, as a row of bits cut into bytes.

`Storage` composes them on one disk that may fill up at any time, together with the
daily task, which asks the waiter first. Embedded audio is decoded into a file of which a full disk may take a part or nothing
(`Reached`), and is pushed all the same; when the file cannot be opened at all, writing to null ends the process. Two things in it are not wired up in
the program: no .wav file reaches the encoder (run `playback_wav` shows why), and
the task does not yet move files (`main.mm:242-243` says that it will). The model
does both, so that what the parts do to one another's files is checked before it happens.

### `MsLogger`: the log

Every call holds `mutBuffer_` and is one action. The text is the sequence of the
characters logged, so that one that is lost, doubled or displaced shows. The writing
is operators on the files and the logger (`Xsputn`, `Sputc`, `Sync`, `WriteToFile`,
`Rotate`), and the calls are the actions, between which days pass, files are
removed, the disk fills up and empties, and the program crashes and starts again. A
write either takes the whole buffer or nothing of it. The second look at
the size in `write_to_file` is at a file found small enough or made just before, so
that it changes nothing. There is one level: the program logs to one only. A missing file that
cannot be created makes `file_size` throw, which is `Crash`.

## The runs

| Run | Shows | Result |
|---|---|---|
| `playback_code` | the queue as it is: exclusive player, relay in step, no lost wakeup, `Broadcast` implemented, regular programme resumed | passes |
| `playback_batches` | several batches, were `mut_` recursive: history kept apart, every file aired, destructor returns | passes |
| `playback_onfinish` | history is cleared after `OnFinish` (`playbackqueue.hpp:33`) | violated: the worker locks its own mutex |
| `playback_wav` | WAV files are handed to the encoder (`main.mm:119`) | violated: `".wav"` is compared with `"wav"` |
| `client_chain` | one chain per client, no unattended read, silence noticed with one wait | passes |
| `client_silence` | silence is noticed (`client.cpp:106-110`) | violated: two waits abort each other for ever |
| `daily_schedule` | never twice for one time, schedule settles, task keeps running, destructor returns | passes |
| `daily_once` | once a day at the scheduled time (`dailyworker.hpp:10`) | violated: a reset is lost, and DoTask's schedule comes a round late |
| `intake` | no alert twice, none that is near turned away and none elsewhere aired, one document lost to a cut at most, the queue of matches moves on | passes |
| `speech` | a speech file is whole and its header right, every text is spoken, a file is played whole and in order, `OpenFile` returns or hangs as named | passes |
| `storage` | no audio is lost between the disk, the encoder and the archive, what is handed on holds something, histories tell who works, downloads move on | passes |
| `logger` | the log is kept once and in order, files are rotated | passes |

Every property of a passing run has a mutant in `PROJECT.json`: the definitions
marked "Mutant" in the modules are plausible bugs, each of which breaks it.

Bounds, and why they are enough:

* `PBQueue`: three callers (there are three kinds), two files (a speech and a
  download, which differ only in their suffix), and `MaxBatch` files in one batch, 4
  (3 in the violated runs): more files than callers, so that one caller pushes twice into a batch
  that others join. The proofs need none of them.
* `Client`: two clients (the program has two), a heartbeat of two ticks and a pause
  of one (a pause can eat up part of a heartbeat, and two pauses all of it),
  `MaxDrops` read errors per client, 1; failed lookups, failed connects and timeouts
  are not bounded. The violated run needs one client only.
* `DailyWorker`: a day of six ticks, a postponement of one, three different times and two
  torn ones (with hours of three ticks, the hour or the minute of the start time alone); the scheduler starts at any time of day. Nothing else is bounded.
* `XmlHandler`: two servers (the program has two), three pieces in a buffer and two documents waiting: what
  a cut leaves, the document being sent and the next. Eight documents: a heartbeat, a
  test, one without a mandatory element, one with a faulty resource, and alerts with one to four infos, the
  same event at 0, 600 and 1200 seconds ("the same" is 15 minutes, so that it is not transitive),
  languages, resources, and areas with one polygon, two and none. Not all at once: `Setup` says which are sent where:
  those with polygons at each of the 36 places, which include an L that alone decides, and the corners. 269 578 states.
* `SpeechToAir`: two texts, one in two buffers and one in one, in voices of 16 and 32 bits, mono,
  stereo or without a format, by system; four recordings, with packets that fit a buffer, that do not, at 8 kbit/s, and
  with a packet of more than 1024 bytes in a larger buffer; files of one to four packets, against three buffers
  of one or two packets; systems 12 to 14. `Sources` says which of them come together. 250 254 states.
* `Storage`: two downloads (an .mp3 each, as only those are moved), two speeches, one of which shares its name with a download, one date, up to two
  moves, so that one directory is archived and the next is made under the same name; embedded texts with padding, with foreign characters and cut off.
  `Setup` again says what occurs together. 926 693 states.
* `MsLogger`: buffers of two or three characters, messages of one (fits) and four (fits none), a limit of one character,
  eight characters in all, two days. 412 004 states.

Fairness, and why the code justifies it:

* `PBQueue`: each thread that can go on does, a file and the siren end unless they hang, and a mutex
  released again and again is obtained in the end (strong fairness). Nobody has to
  push or to destroy the queue.
* `Client`: the io thread runs unless `appendXml` does not return, time passes, lookups and connects end, well or
  badly; expired waits are noticed. A server need not send, accept or close.
* `DailyWorker`: both threads run, but for a worker that is blocked in `waiter_()`, which may stay there; time passes however
  often the worker wakes up for nothing (strong fairness of `Tick`).
* `SpeechToAir`: the thread of the speech queue goes on, the synthesiser delivers as long as its callback returns, and
  what the player has enqueued is played if the output started, as long as the process lives; nothing is assumed of calls that may fail.
* `Storage`: the download worker goes on, unless its push to the playback queue never returns. A server need not answer: `DownloadsMoveOn`
  is about those that do, since no call has a timeout.

Deadlock is checked for `Client`. The others may stop: the playback queue does (that
is a finding), a broken document or a failing download ends the process, queues end with their destructors,
and texts, downloads and characters run out. There, the liveness properties say what must
not get stuck.

## What the properties except

A property of a passing run says what holds; where it names an exception, the
exception is something the code does, and without it TLC finds the property violated.
The exceptions, and the conditions of the properties that go with them:

* Two events of one second and language share a file (`FilesDiffer`).
* A second document that ends in one chunk may be mangled or left, since the buffer is erased under
  the iterator; it is also processed only with the next chunk (`CleanDocumentTaken`, `QueueMovesOn`). A document
  that was left is one call behind, and so is everything after it: a buffer with an end in it is
  excepted from `CutLosesOne`. (No buffer of three pieces shows this; the proof did.)
* An info that is elsewhere, or repeats one of its own document or of another, ends the loop for those that follow, so that an
  alert is dropped in its later languages; of an area only the first polygon counts, and what encloses the station in another one or in a circle
  is not looked at (`HandedWhenInside`).
* A station level with a corner of a polygon is misjudged, in or out (`HandedWhenInside`,
  `NotHandedElsewhere`).
* A nil format, and several channels, make a header that need not fit; a full disk leaves a part of the audio or none, with or without
  a header, and `onComplete` may be called all the same (`CompletedWhole`).
* A packet larger than a buffer, or than the 1024 bytes asked for, makes the player take the file to be at its end; and the
  flush is too short for two buffers at 8 kbit/s (`PlayedWhole`). An output that does not start, or three buffers lost to errors,
  leave `OpenFile` waiting (`OpenFileReturns`) and the relay set; nothing is aired any more, and the destructor of the playback queue waits
  for its worker (`ReturnsToRegular`, `PushedIsAired`, `TeardownCompletes`).
* Once the playback queue is locked for ever (`main.mm:120`), the io thread, the synthesiser's callback, the download worker and the daily task
  stop at their next call of it (`SilenceDetectedByOneWait`, `SpokenInTheEnd`, `DownloadsMoveOn`, `TaskKeepsRunning`,
  `ShutdownCompletes`).
* A file whose name is used twice may change while it is played (`PlayedInOrder`, `PlayedWhole`).
* A full disk shortens the encoded or archived copies, and the originals are deleted all the same;
  a download and the encoded form of a speech of the same name overwrite one
  another; a second archive of a day overwrites the first (`AudioKept`).
* An error page is handed on as audio, since the status of a response is not looked at; texts with characters outside of Base64 are decoded
  in part; and with a full disk a file is handed on with a part of its contents or none (`HandedOn`).
* The logger loses its buffer after a failed write, at a crash, and when `set_bufferSize` finds text in it; it
  goes on writing to a file that was removed or is too large when the one named next exists (`LogKept`,
  `Rotates`).

Two consequences worth knowing, which no document excludes: destroying the
playback queue with files queued drops them and leaves the relay set
(`ReturnsToRegular` says "or quit"), and destroying the scheduler takes until the
next execution time.

## The proofs

`PBQueueProofs`, for any set of callers, any set of files, any bound, recursive mutex or not:

* `InvariantHolds`: `Spec => []IInv`. `IInv` is the conjunction of the types, of who
  holds `mut_` (`MutexOwner`), of what `busy_` spans (`BusyWhilePlaying`), of what
  stays true through a critical section that blocks (`SectionsKept`), of who may be
  inside a call (`CallsInProgress`), and of the four properties. These are not
  inductive on their own: that the relay and the batch agree (`RelayTracksBatch`) needs
  that nobody pushes between the test of the empty queue and `clear_pin`, which is
  `MutexOwner` and `SectionsKept`; that the player is exclusive needs that `busy_` covers
  the time the worker plays unlocked, which is `BusyWhilePlaying`.
* `SafetyHolds`: the four properties, from it.
* `ImplementsBroadcast`: `Spec => Abstract!Spec`. Each `Push` that opens a batch is
  `RaiseAlarm` and then `SirenOver`, one that joins is `Submit`, `WorkerTake` is `Begin`,
  `WorkerPlayed` is `End`, `FinishClearRelay` is `Release`; every other step changes
  nothing a listener can hear.

`ClientProofs`, for any number of clients, any heartbeat and pause, any bound on read errors:

* `InvariantHolds`: `Spec => []IInv`. `ChainUnique` is inductive with the types: a
  handler of the chain is the one thing its client has in hand, so it may start the
  next; a handler of the timer must not start anything, and turns an operation
  under way into its completion when it closes the socket. `Watched` is not: the read
  that follows the arrival of data needs the wait that was pending before, so
  `OpenAttended` says that an open connection stays attended while its data waits in
  `ready`, and that what is read from is open.
* `SafetyHolds`: `ChainUnique` and `Watched`, from it.
* `Has` and `Once` (some, exactly one handler of a kind is in a sequence) are described
  by lemmas along `Append`, `\o` and `Tail`, and `HandlerKeeps` says once what all handlers
  have in common: they take the head of `ready`, change their own client, and append
  handlers of their own.

`DailyWorkerProofs`, for any length of a day, any postponement, any times and any torn reads of them:

* `InvariantHolds`: `Spec => []IInv`. `TaskOnceAtATime` needs that whoever is about to run
  the task has moved on to a later time (`MovedOn`), and that between a run and the
  next tick only a reset leads out of the wait, which is still set when the worker
  decides (`RestAfterTask`).
* `OnceAtATime`: `TaskOnceAtATime`, from it.

`XmlHandlerProofs`, for any servers, documents, polygons, places and bounds:

* `InvariantHolds`: `Spec => []IInv`. `TakenDiffer` is inductive with the types, since an info is compared with the
  whole history before it is added, and `Same` is symmetric. What was taken of a document was taken in its order
  (`TakenInOrder`), since the loop is past nothing that is not remembered (`LoopRemembered`). `FilesDiffer`
  needs that files are named after remembered infos (`JobsRemembered`): two files of one name are of
  one second, so within 15 minutes, and two infos that were both taken are then different events. Within one info the resources have names
  of different length (`NamesDiffer`).
* `NothingTwice`, `NamesApart`: the two properties, from it.

The three action properties of the buffer hold of every step, whatever the state, but for the types of the
buffers (`XmlHandlerProofs`, too):

* `QueuedMoveOn`: a call of `append` adds to the back of `matches_` and takes one from the front.
* `OneLost`: `Found` erases up to the last end of a buffer in which no end was left over; of what remains,
  only the document being sent has begun. The proof fails for a buffer with an end left over
  in it, rightly so; this is how the exception of `CutLosesOne` was found.
* `CleanTaken`: the first match of a call is right, and is queued or processed.

`AlertIntakeProofs`, for any polygons with corners on the globe and any station:

* `InsideDecides`: `IsInside` agrees with `Encloses`, near sides apart, for a station that is not level with a
  corner. Both count the sides that satisfy a condition, so it is enough that the
  conditions agree for each side (`CrossingCounts`), where the signs of products decide; the ray ends far enough
  away because `Point` bounds the coordinates.
* `TakenWhenInside`, `NothingFromElsewhere`: with `NoneTurnedAway`, `HandedNear` and `TakenStored`, the conjuncts of `IInv` that
  speak of `Covered`.

`DecodeUtilProofs`, for texts of any length:

* `DecodesAll`: in a clean text no quadruple is skipped, so the i-th is written with i - 1
  before it (a cardinality), byte n comes from quadruple (n - 1) div 3, and the bits of the four
  characters are those of its three bytes (arithmetic, by cases of n mod 3).

`StorageProofs`, for any downloads, speeches, names, texts and dates:

* `InvariantHolds`: `Spec => []IInv`. Besides the types, with what each queue's worker has in hand (`Consistent`), `IInv` says that
  the files hold what their names say (`FilesTellAudio`, but for `Shared`), that nothing is there yet of a download
  that is pending (`DownloadsNew`), which directories exist when
  (`DirectoriesExist`), and that what is kept is not only in the part of a directory that has been archived already
  (`KeptSafely`). The last is what makes the removal of a directory safe, and holds although the encoder
  may write to a file in it after that file was archived: as long as it does, the .wav is still there.
* `AudioIsKept`: by cases of the steps (`KeptStep`): each that takes a file away or writes over it has put its
  contents somewhere else, or finds nothing whole in it. What is left are the three exceptions of the property.
* `HistoriesTell`: the history is cleared only when the queue is empty, and a worker that waits has neither
  (`Consistent`, for all three queues at once by the lemmas about `WorkQueue`).
* `HandedOnHolds`: until the disk is full, what is handed on is the whole body of a download, or all the bytes that were decoded
  (`HandedWhole`); that these are what was encoded is `DecodesAll`.

`SpeechToAirProofs`, for any texts, voices, systems, recordings and packets:

* `InvariantHolds`: `Spec => []IInv`. `SpeechOnce` says that a text is in one place at a time, `OpenFileTells` what the
  open file holds, `OnlyMadePlayed` that only finished files are in the playlist, and `PlayerFollows` that
  the buffers are consecutive parts of the file (`Consecutive`) and `isDone_` is only set at its end. The two halves need one
  another: the buffers stay parts of the file only because the synthesiser no longer writes to a file that is
  played, which is `OnlyMadePlayed` with `SpeechOnce`, and fails for a file whose name is used twice (`Overwritten`).
* `CompletedHolds`: `CallbackSays` says what any callback does, as "t has been said up to n"
  (`Says`), and `ClosedHolds` what is on the disk of it when the file is closed; the header is followed through the setters in the order of their calls (`HeaderDescribes`).
* `HeardInOrder`: consecutive parts joined are one part. `FlattenSeq` is recursive, but there are at
  most three buffers, so that it is unfolded by cases (`Flattened`, `HeardAndWaiting`).
* `HeardToItsEnd`: at the end of a flush that is long enough nothing is enqueued, so what was heard ends at `pktPos_`, and `isDone_`
  was set there: at the end of the file, or at a packet that is too large to be read (`DoneAtEnd`, `AtEnd`).

`PBQueueProofs` and `ClientProofs` also state each property that their `SafetyHolds` combines as a theorem of
its own (`OnePlayer`, `WakeupsKept`, `HistoryKept`; `ReadsWatched`).

The proofs assume what the modules' `ASSUME`s say, and TLC evaluates those on the instances: the threads are distinct;
`NoAlert` is not an alert; the times are positive and times of day lie within a day; no two documents have one
identifier; polygons lie on the globe; speeches have names of their own, which no download has but for the
extension; nothing that stands for a missing file is the contents of one; voices have 16 or 32 bits; packets have a size.

The inductive invariants of `Storage` and `SpeechToAir` are not invariants of their runs, which check the
properties themselves; TLC finds both to hold on the same instances.

What stays with TLC: liveness (`ReturnsToRegular`, `PushedIsAired`, `TeardownCompletes`, `SilenceDetectedByOneWait`, `ScheduleSettles`,
`TaskKeepsRunning`, `ShutdownCompletes`, `SpokenInTheEnd`, `OpenFileReturns`, `DownloadsMoveOn`), which rests on fairness, for which the prover here
has no rules; and, so far, the logger (`LogKept`, `Rotates`), where a message that does not fit is folded over
its characters.

## Plan

1. `Broadcast`, `PBQueue`, `Client`, `DailyWorker` and their proofs: done.
2. `XmlHandler` with `GeoUtil`, and their proofs: done.
3. `TextToSpeechQueue` with the header, and `PBUtil`: done, composed in `SpeechToAir`; proved.
4. `DWQueue`, `EncQueue`, `ArchiveQueue`, Base64: done, composed in `Storage`; proved.
5. `MsLogger`: done.
6. To prove next: `LogKept` and `Rotates` for any sizes and lengths, with the loop over the characters of a message
   as a function and an invariant of its rounds.

## Not modelled

* The codecs (`aacencoder.hpp`, `mpegencoder.hpp`, `encoderFactory.hpp`): signal processing by libraries;
  `EncQueue` has the files they open and write.
* The GUI (an empty window) and the mock server (a test double).
* The start of a worker before the members declared after it exist (`playbackqueue.hpp:18`): it comes before the `Init` of
  every module.
* `GetHistory` of the download queue returns a reference to a vector that another thread changes: a torn
  vector has no value to give it; `Storage` reads the history as of one instant.
* Opening, locking and closing the serial port; a pin is set or clear (`relay` in `PBQueue`).
* The settings, the paths and the exit of the program; the text of a `<polygon>`, which `GeoUtil` gets as points;
  daylight saving; `stopProcessingQueue` and `DoReconnect`, which nothing calls.
