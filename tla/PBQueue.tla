------------------------------- MODULE PBQueue -------------------------------
(***************************************************************************)
(* The playback queue (libs/playbackqueue) with the three callbacks main   *)
(* gives it (main.mm:111-130): PlayFirst sets the relay and plays the      *)
(* siren, Play plays one file, OnFinish clears the relay and hands the     *)
(* batch over to the encoder queue.                                        *)
(*                                                                         *)
(* Threads: the queue's own worker (Handler) and the callers of Push: the  *)
(* network thread (embedded audio), the download worker and the speech     *)
(* synthesiser's callback thread.                                          *)
(*                                                                         *)
(* A critical section that neither blocks nor plays is one action; one     *)
(* that does (the siren in Push, OnFinish in Handler) keeps mut_ across    *)
(* several.                                                                *)
(***************************************************************************)
EXTENDS Naturals, Sequences, FiniteSets

CONSTANTS
  Pusher,          \* threads that call Push
  Worker,          \* workerThread_
  Nobody,          \* the owner of a free mutex
  Alert,           \* audio files handed to Push
  NoAlert,         \* the worker plays nothing
  Suffix,          \* Suffix[a]: the tail of a's name from its last '.' on
  RecursiveMutex,  \* FALSE: std::mutex, as in the source.  TRUE: what would
                   \* happen if mut_ could be locked again by its owner
  MaxBatch         \* bound: files of one batch, queued or played or being pushed

ASSUME ThreadsDistinct ==
  /\ Worker \notin Pusher
  /\ Nobody \notin Pusher \union {Worker}

ASSUME PlaybackConstants ==
  /\ NoAlert \notin Alert
  /\ RecursiveMutex \in BOOLEAN
  /\ MaxBatch \in Nat

VARIABLES
  mutex,    \* owner of mut_
  queue,    \* queue_
  busy,     \* busy_
  quit,     \* quit_
  history,  \* history_: the files of the current batch taken so far
  push,     \* push[p]: where p is inside Push
  file,     \* file[p]: the argument of p's Push
  worker,   \* where the worker is inside Handler
  airing,   \* the file the worker plays
  relay,    \* DTR pin of the relay: TRUE puts the player on the air
  encoder,  \* files OnFinish has handed to encoderQueue.Push
  owner     \* progress of ~PBQueue

vars == <<mutex, queue, busy, quit, history, push, file, worker, airing,
          relay, encoder, owner>>

-----------------------------------------------------------------------------
(* The mutex and the condition variable. *)

CanLock(t) == mutex = Nobody \/ (RecursiveMutex /\ mutex = t)

\* Mutant: the notify is forgotten.
NoNotify == UNCHANGED worker

\* cond_.notify_one(): only the worker ever waits on cond_.
NotifyOne == worker' = IF worker = "waiting" THEN "woken" ELSE worker

-----------------------------------------------------------------------------
Init ==
  /\ mutex = Nobody
  /\ queue = <<>>
  /\ busy = FALSE
  /\ quit = FALSE
  /\ history = <<>>
  /\ push = [p \in Pusher |-> "idle"]
  /\ file = [p \in Pusher |-> NoAlert]
  /\ worker = "start"
  /\ airing = NoAlert
  /\ relay = FALSE
  /\ encoder = {}
  /\ owner = "alive"

-----------------------------------------------------------------------------
(* Push *)

\* p calls Push(a) and goes for the lock.  A caller outside the bound waits
\* for the batch to end; the queue itself has no limit.
PushCall(p, a) ==
  /\ owner = "alive"
  /\ push[p] = "idle"
  /\ Len(queue) + Len(history) + Cardinality({r \in Pusher : push[r] # "idle"}) < MaxBatch
  /\ push' = [push EXCEPT ![p] = "lock"]
  /\ file' = [file EXCEPT ![p] = a]
  /\ UNCHANGED <<mutex, queue, busy, quit, history, worker, airing, relay, encoder, owner>>

\* Mutant: a batch is taken to be over when its last file is taken.
OpensBatchIgnoresBusy == queue = <<>>

\* Nothing is queued and nothing is playing: this push opens a batch.
OpensBatch == queue = <<>> /\ ~busy

\* Mutant: the siren is played with mut_ released.
PushPlayFirstUnlocked(p) ==
  /\ push[p] = "lock"
  /\ CanLock(p)
  /\ OpensBatch
  /\ relay' = TRUE
  /\ push' = [push EXCEPT ![p] = "siren"]
  /\ UNCHANGED <<mutex, queue, busy, quit, history, file, worker, airing, encoder, owner>>

\* PlayFirst: set the relay and play the siren on the caller's own thread,
\* with mut_ held.
PushPlayFirst(p) ==
  /\ push[p] = "lock"
  /\ CanLock(p)
  /\ OpensBatch
  /\ mutex' = p
  /\ relay' = TRUE
  /\ push' = [push EXCEPT ![p] = "siren"]
  /\ UNCHANGED <<queue, busy, quit, history, file, worker, airing, encoder, owner>>

\* The rest of Push: queue the file, notify, release mut_, return.
Enqueue(p) ==
  /\ queue' = Append(queue, file[p])
  /\ NotifyOne
  /\ push' = [push EXCEPT ![p] = "idle"]
  /\ file' = [file EXCEPT ![p] = NoAlert]
  /\ UNCHANGED <<busy, quit, history, airing, relay, encoder, owner>>

PushJoinsBatch(p) ==
  /\ push[p] = "lock"
  /\ CanLock(p)
  /\ ~OpensBatch
  /\ Enqueue(p)
  /\ UNCHANGED mutex

\* The siren never ends: OpenFile waits for the end of a player that did not
\* start or that lost its buffers, with mut_ held.
SirenHangs(p) ==
  /\ push[p] = "siren"
  /\ push' = [push EXCEPT ![p] = "hung"]
  /\ UNCHANGED <<mutex, queue, busy, quit, history, file, worker, airing, relay, encoder, owner>>

PushSirenEnds(p) ==
  /\ push[p] = "siren"
  /\ Enqueue(p)
  /\ mutex' = Nobody

-----------------------------------------------------------------------------
(* Handler *)

\* The first lock of the thread, and the relock inside cond_.wait.
WorkerLock ==
  /\ worker \in {"start", "woken"}
  /\ CanLock(Worker)
  /\ mutex' = Worker
  /\ worker' = "test"
  /\ UNCHANGED <<queue, busy, quit, history, push, file, airing, relay, encoder, owner>>

\* Mutant: the predicate does not test quit_.
WaitOverIgnoresQuit == ~busy /\ queue # <<>>

\* The predicate of cond_.wait.
WaitOver == ~busy /\ (queue # <<>> \/ quit)

WorkerWait ==
  /\ worker = "test"
  /\ ~WaitOver
  /\ worker' = "waiting"
  /\ mutex' = Nobody
  /\ UNCHANGED <<queue, busy, quit, history, push, file, airing, relay, encoder, owner>>

SpuriousWakeup ==
  /\ worker = "waiting"
  /\ worker' = "woken"
  /\ UNCHANGED <<mutex, queue, busy, quit, history, push, file, airing, relay, encoder, owner>>

\* Take the oldest file, mark the queue busy, record it and play it unlocked.
WorkerTake ==
  /\ worker = "test"
  /\ WaitOver
  /\ queue # <<>> /\ ~quit
  /\ airing' = Head(queue)
  /\ queue' = Tail(queue)
  /\ busy' = TRUE
  /\ history' = Append(history, Head(queue))
  /\ mutex' = Nobody
  /\ worker' = "playing"
  /\ UNCHANGED <<quit, push, file, relay, encoder, owner>>

\* A file never ends, as a siren may not: the worker stays in Play.
FileHangs ==
  /\ worker = "playing"
  /\ worker' = "hung"
  /\ UNCHANGED <<mutex, queue, busy, quit, history, push, file, airing, relay, encoder, owner>>

\* Mutant: busy_ is cleared before mut_ is taken again.
WorkerPlayedClearsBusy ==
  /\ worker = "playing"
  /\ airing' = NoAlert
  /\ busy' = FALSE
  /\ worker' = "relock"
  /\ UNCHANGED <<mutex, queue, quit, history, push, file, relay, encoder, owner>>

\* Play returns; the worker is still busy_ until it holds mut_ again.
WorkerPlayed ==
  /\ worker = "playing"
  /\ airing' = NoAlert
  /\ worker' = "relock"
  /\ UNCHANGED <<mutex, queue, busy, quit, history, push, file, relay, encoder, owner>>

\* Mutant: busy_ is not cleared.
WorkerRelockKeepsBusy ==
  /\ worker = "relock"
  /\ CanLock(Worker)
  /\ mutex' = Worker
  /\ worker' = IF queue = <<>> THEN "finish" ELSE "test"
  /\ UNCHANGED <<queue, busy, quit, history, push, file, airing, relay, encoder, owner>>

\* Mutant: OnFinish is called after every file.
WorkerRelockFinishes ==
  /\ worker = "relock"
  /\ CanLock(Worker)
  /\ mutex' = Worker
  /\ busy' = FALSE
  /\ worker' = "finish"
  /\ UNCHANGED <<queue, quit, history, push, file, airing, relay, encoder, owner>>

WorkerRelock ==
  /\ worker = "relock"
  /\ CanLock(Worker)
  /\ mutex' = Worker
  /\ busy' = FALSE
  /\ worker' = IF queue = <<>> THEN "finish" ELSE "test"
  /\ UNCHANGED <<queue, quit, history, push, file, airing, relay, encoder, owner>>

\* OnFinish, first statement: the station goes back to its own programme.
FinishClearRelay ==
  /\ worker = "finish"
  /\ relay' = FALSE
  /\ worker' = "getHistory"
  /\ UNCHANGED <<mutex, queue, busy, quit, history, push, file, airing, encoder, owner>>

\* The test OnFinish applies to a name: its tail from the last '.' on, dot
\* included, against the two bare extensions.
ToEncode(a) == Suffix[a] \in {"WAV", "wav"}

\* Mutant: history_ is not cleared.
FinishKeepsHistory ==
  /\ worker = "getHistory"
  /\ CanLock(Worker)
  /\ encoder' = encoder \union {history[i] : i \in {j \in DOMAIN history : ToEncode(history[j])}}
  /\ worker' = "test"
  /\ UNCHANGED <<mutex, queue, busy, quit, history, push, file, airing, relay, owner>>

\* OnFinish, second statement: GetHistory locks mut_, which Handler holds.
\* Past it, the files to encode are pushed and Handler clears history_.
FinishHandOver ==
  /\ worker = "getHistory"
  /\ CanLock(Worker)
  /\ encoder' = encoder \union {history[i] : i \in {j \in DOMAIN history : ToEncode(history[j])}}
  /\ history' = <<>>
  /\ worker' = "test"
  /\ UNCHANGED <<mutex, queue, busy, quit, push, file, airing, relay, owner>>

\* quit_ ends the loop, whatever is queued.
WorkerQuit ==
  /\ worker = "test"
  /\ quit
  /\ worker' = "done"
  /\ mutex' = Nobody
  /\ UNCHANGED <<queue, busy, quit, history, push, file, airing, relay, encoder, owner>>

-----------------------------------------------------------------------------
(* ~PBQueue, when no caller is inside Push. *)

Destroy ==
  /\ owner = "alive"
  /\ \A p \in Pusher : push[p] = "idle"
  /\ mutex = Nobody
  /\ quit' = TRUE
  /\ NotifyOne
  /\ owner' = "joining"
  /\ UNCHANGED <<mutex, queue, busy, history, push, file, airing, relay, encoder>>

Join ==
  /\ owner = "joining"
  /\ worker = "done"
  /\ owner' = "gone"
  /\ UNCHANGED <<mutex, queue, busy, quit, history, push, file, worker, airing, relay, encoder>>

-----------------------------------------------------------------------------
PushStep(p) ==
  \/ PushPlayFirst(p)
  \/ PushJoinsBatch(p)
  \/ PushSirenEnds(p)

WorkerStep ==
  \/ WorkerLock
  \/ WorkerWait
  \/ WorkerTake
  \/ WorkerPlayed
  \/ WorkerRelock
  \/ FinishClearRelay
  \/ FinishHandOver
  \/ WorkerQuit

Next ==
  \/ \E p \in Pusher : PushStep(p) \/ SirenHangs(p) \/ (\E a \in Alert : PushCall(p, a))
  \/ WorkerStep
  \/ FileHangs
  \/ SpuriousWakeup
  \/ Destroy
  \/ Join

Spec == Init /\ [][Next]_vars

\* Every thread that can run does, and the mutex starves no thread for ever.
\* A file or the siren ends unless it hangs.  Nobody has to call Push or the
\* destructor.
FairSpec ==
  /\ Spec
  /\ \A p \in Pusher : SF_vars(PushStep(p))
  /\ SF_vars(WorkerStep)
  /\ WF_vars(Join)
-----------------------------------------------------------------------------
(* Safety *)

TypeOK ==
  /\ mutex \in Pusher \union {Worker, Nobody}
  /\ queue \in Seq(Alert)
  /\ busy \in BOOLEAN
  /\ quit \in BOOLEAN
  /\ history \in Seq(Alert)
  /\ push \in [Pusher -> {"idle", "lock", "siren", "hung"}]
  /\ file \in [Pusher -> Alert \union {NoAlert}]
  /\ worker \in {"start", "test", "waiting", "woken", "playing", "hung", "relock",
                 "finish", "getHistory", "done"}
  /\ airing \in Alert \union {NoAlert}
  /\ relay \in BOOLEAN
  /\ encoder \subseteq Alert
  /\ owner \in {"alive", "joining", "gone"}

\* A thread is inside OpenFile, with the siren or with a file.
InSiren(p) == push[p] \in {"siren", "hung"}
SirenSounding == \E p \in Pusher : InSiren(p)
InPlay == worker \in {"playing", "hung"}

WorkerInside == worker \in {"test", "finish", "getHistory"}

\* mut_ is held by exactly the thread that is inside a critical section.
MutexOwner ==
  /\ (mutex = Worker) <=> WorkerInside
  /\ \A p \in Pusher : (mutex = p) <=> InSiren(p)

\* busy_ spans the playing of a file up to the relock after it.
BusyWhilePlaying ==
  /\ busy <=> InPlay \/ worker = "relock"
  /\ (airing # NoAlert) <=> InPlay

\* What holds for the length of a critical section because mut_ is kept.
SectionsKept ==
  /\ worker \in {"finish", "getHistory"} => queue = <<>>
  /\ SirenSounding => queue = <<>> /\ ~busy

\* A push under way carries a file, and the destructor runs after them all.
CallsInProgress ==
  /\ \A p \in Pusher : (push[p] = "idle") <=> (file[p] = NoAlert)
  /\ quit <=> owner # "alive"
  /\ quit => \A p \in Pusher : push[p] = "idle"
  /\ worker = "done" => quit

\* The player that PBUtil shares between the siren (run by whichever thread
\* opened the batch) and the files (run by the worker) has one user at a time,
\* although only the siren is played with mut_ held: OpenFile is not
\* re-entrant (playbackutil.hpp:130-200).
PlayerExclusive ==
  /\ \A p, r \in Pusher : InSiren(p) /\ InSiren(r) => p = r
  /\ SirenSounding => ~InPlay

\* The station is taken off its own programme exactly while an alert is
\* sounding, queued or not yet accounted for: main.mm:113-118 sets and clears
\* the pin from two threads, at Push (playbackqueue.cpp:36) and at OnFinish (:24).
RelayTracksBatch ==
  relay <=> \/ SirenSounding
            \/ queue # <<>>
            \/ busy
            \/ worker = "finish"

\* The worker never sleeps on cond_ while its predicate is true: each write
\* that can make it true is followed by a notify that reaches the worker
\* (playbackqueue.cpp:9-11, :37-38, :45-46), although busy_ falls without one (:21).
NoLostWakeup == worker = "waiting" => ~WaitOver

\* history_ never reaches into the next batch: whenever a Push would open
\* one, the record of the last has been handed over and cleared
\* (playbackqueue.cpp:22-26, :36).
HistoryOfThisBatch ==
  history # <<>> => relay \/ worker = "getHistory"

\* The invariant that is inductive.
IInv ==
  /\ TypeOK
  /\ MutexOwner
  /\ BusyWhilePlaying
  /\ SectionsKept
  /\ CallsInProgress
  /\ PlayerExclusive
  /\ RelayTracksBatch
  /\ NoLostWakeup
  /\ HistoryOfThisBatch

-----------------------------------------------------------------------------
(* Refinement: what the listeners of the station hear. *)

Abstract == INSTANCE Broadcast WITH
  programme <- IF ~relay THEN "regular" ELSE IF SirenSounding THEN "siren" ELSE "alerts",
  pending   <- queue,
  current   <- airing

\* The threads of the queue and of its callers implement the listener's
\* view: one siren per batch and to its end before any alert, alerts one at a
\* time in the order of Push, the regular programme back only after the last.
ListenerSpec == Abstract!Spec

-----------------------------------------------------------------------------
(* Liveness, under FairSpec *)

\* OpenFile does not return: it loops until the end of a file of which no
\* buffer comes back any more (playbackutil.hpp:180-185).
PlayerHung == worker = "hung" \/ \E p \in Pusher : push[p] = "hung"

\* Once set, the relay is cleared again (OnFinish is reached), however the
\* pushes of a batch interleave with the worker (playbackqueue.cpp:22-24).
\* Two things leave it set: the destructor, which cuts the batch short, and a
\* siren or a file that never ends.
ReturnsToRegular == relay ~> (~relay \/ quit \/ PlayerHung)

\* A file handed to Push is put on the air unless the queue is destroyed or a
\* file or the siren before it never ends: no caller is left in front of mut_
\* and no queued file is left behind (playbackqueue.cpp:19, :32-39).
PushedIsAired ==
  \A p \in Pusher, a \in Alert :
    (push[p] = "lock" /\ file[p] = a) ~> (airing = a \/ quit \/ PlayerHung)

\* "It is cleared after calling OnFinish()" (playbackqueue.hpp:33): once
\* OnFinish has begun, history_ becomes empty.
HistoryCleared == (worker = "finish") ~> (history = <<>>)

\* "convert all these WAV files into MP3 or AAC" (main.mm:119): when OnFinish
\* is over, every WAV file of the batch has been pushed to the encoder.
IsWav(a) == Suffix[a] \in {".wav", ".WAV"}
WavsEncoded ==
  [][ worker = "getHistory" /\ worker' # "getHistory"
      => \A i \in DOMAIN history : IsWav(history[i]) => history[i] \in encoder' ]_vars

\* The destructor returns: quit_ reaches the worker wherever it is, even when
\* alerts are still queued (playbackqueue.cpp:41-49).  It joins for ever a
\* worker whose file never ends.
TeardownCompletes == (owner = "joining") ~> (owner = "gone" \/ worker = "hung")
=============================================================================
