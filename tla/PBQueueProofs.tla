--------------------------- MODULE PBQueueProofs ---------------------------
(***************************************************************************)
(* What PBQueue does for any set of callers, any files and any bound:      *)
(* its inductive invariant IInv, the safety properties that follow from    *)
(* it, and that it implements Broadcast, the listeners' view.              *)
(***************************************************************************)
EXTENDS PBQueue, SequenceTheorems, TLAPS

\* A queue that something was appended to is not empty, and stays a queue.
LEMMA Appended ==
  ASSUME NEW q \in Seq(Alert), NEW a \in Alert
  PROVE  Append(q, a) \in Seq(Alert) /\ Append(q, a) # <<>>
BY AppendProperties, EmptySeq

\* Taking the head off a queue yields an alert and a queue.
LEMMA Taken ==
  ASSUME NEW q \in Seq(Alert), q # <<>>
  PROVE  Head(q) \in Alert /\ Tail(q) \in Seq(Alert)
BY HeadTailProperties

-----------------------------------------------------------------------------
\* Init establishes the invariant.
LEMMA InvInit == Init => IInv
<1> SUFFICES ASSUME Init PROVE IInv
  OBVIOUS
<1> USE ThreadsDistinct, PlaybackConstants DEF Init
<1>1. TypeOK
  BY EmptySeq DEF TypeOK
<1>2. MutexOwner /\ PlayerExclusive
  BY DEF MutexOwner, WorkerInside, PlayerExclusive, SirenSounding, InSiren, InPlay
<1>3. BusyWhilePlaying /\ SectionsKept /\ CallsInProgress
  BY DEF BusyWhilePlaying, SectionsKept, CallsInProgress, SirenSounding, InSiren, InPlay
<1>4. RelayTracksBatch /\ NoLostWakeup /\ HistoryOfThisBatch
  BY DEF RelayTracksBatch, NoLostWakeup, HistoryOfThisBatch, SirenSounding, InSiren, InPlay
<1> QED
  BY <1>1, <1>2, <1>3, <1>4 DEF IInv

\* Every step of the queue, of its callers and of its owner keeps it.
LEMMA InvStep == IInv /\ [Next]_vars => IInv'
<1> SUFFICES ASSUME IInv, [Next]_vars PROVE IInv'
  OBVIOUS
<1> USE ThreadsDistinct, PlaybackConstants DEF IInv
<1>1. ASSUME NEW p \in Pusher, NEW a \in Alert, PushCall(p, a)
       PROVE  IInv'
  <2> USE <1>1 DEF PushCall
  <2>1. TypeOK'
    BY DEF TypeOK
  <2>2. (MutexOwner /\ PlayerExclusive)'
    BY DEF MutexOwner, PlayerExclusive, WorkerInside, SirenSounding, InSiren, InPlay, SectionsKept, BusyWhilePlaying, CallsInProgress, TypeOK
  <2>3. (BusyWhilePlaying /\ SectionsKept)'
    BY DEF BusyWhilePlaying, SectionsKept, MutexOwner, WorkerInside, SirenSounding, InSiren, InPlay, TypeOK
  <2>4. CallsInProgress'
    BY DEF CallsInProgress, TypeOK
  <2>5. (RelayTracksBatch /\ NoLostWakeup /\ HistoryOfThisBatch)'
    BY DEF RelayTracksBatch, NoLostWakeup, HistoryOfThisBatch, WaitOver, SirenSounding, InSiren, InPlay, BusyWhilePlaying, SectionsKept, MutexOwner, WorkerInside, CallsInProgress, TypeOK
  <2> QED
    BY <2>1, <2>2, <2>3, <2>4, <2>5
<1>2. ASSUME NEW p \in Pusher, PushPlayFirst(p)
       PROVE  IInv'
  <2> USE <1>2 DEF PushPlayFirst, CanLock, OpensBatch
  <2>1. TypeOK'
    BY DEF TypeOK
  <2>2. (MutexOwner /\ PlayerExclusive)'
    BY DEF MutexOwner, PlayerExclusive, WorkerInside, SirenSounding, InSiren, InPlay, SectionsKept, BusyWhilePlaying, CallsInProgress, TypeOK
  <2>3. (BusyWhilePlaying /\ SectionsKept)'
    BY DEF BusyWhilePlaying, SectionsKept, MutexOwner, WorkerInside, SirenSounding, InSiren, InPlay, TypeOK
  <2>4. CallsInProgress'
    BY DEF CallsInProgress, TypeOK
  <2>5. (RelayTracksBatch /\ NoLostWakeup /\ HistoryOfThisBatch)'
    BY DEF RelayTracksBatch, NoLostWakeup, HistoryOfThisBatch, WaitOver, SirenSounding, InSiren, InPlay, BusyWhilePlaying, SectionsKept, MutexOwner, WorkerInside, CallsInProgress, TypeOK
  <2> QED
    BY <2>1, <2>2, <2>3, <2>4, <2>5
<1>3. ASSUME NEW p \in Pusher, PushJoinsBatch(p)
       PROVE  IInv'
  <2> USE <1>3 DEF PushJoinsBatch, Enqueue, NotifyOne, CanLock, OpensBatch
  <2>0. file[p] \in Alert
    BY DEF TypeOK, CallsInProgress
  <2>a. Append(queue, file[p]) \in Seq(Alert) /\ Append(queue, file[p]) # <<>>
    BY <2>0, Appended DEF TypeOK
  <2>1. TypeOK'
    BY <2>a DEF TypeOK
  <2>2. (MutexOwner /\ PlayerExclusive)'
    BY <2>a DEF MutexOwner, PlayerExclusive, WorkerInside, SirenSounding, InSiren, InPlay, SectionsKept, BusyWhilePlaying, CallsInProgress, TypeOK
  <2>3. (BusyWhilePlaying /\ SectionsKept)'
    BY <2>a DEF BusyWhilePlaying, SectionsKept, MutexOwner, WorkerInside, SirenSounding, InSiren, InPlay, TypeOK
  <2>4. CallsInProgress'
    BY <2>a DEF CallsInProgress, TypeOK
  <2>5. (RelayTracksBatch /\ NoLostWakeup /\ HistoryOfThisBatch)'
    BY <2>a DEF RelayTracksBatch, NoLostWakeup, HistoryOfThisBatch, WaitOver, SirenSounding, InSiren, InPlay, BusyWhilePlaying, SectionsKept, MutexOwner, WorkerInside, CallsInProgress, TypeOK
  <2> QED
    BY <2>1, <2>2, <2>3, <2>4, <2>5
<1>4. ASSUME NEW p \in Pusher, PushSirenEnds(p)
       PROVE  IInv'
  <2> USE <1>4 DEF PushSirenEnds, Enqueue, NotifyOne
  <2>0. file[p] \in Alert
    BY DEF TypeOK, CallsInProgress
  <2>a. Append(queue, file[p]) \in Seq(Alert) /\ Append(queue, file[p]) # <<>>
    BY <2>0, Appended DEF TypeOK
  <2>1. TypeOK'
    BY <2>a DEF TypeOK
  <2>2. (MutexOwner /\ PlayerExclusive)'
    BY <2>a DEF MutexOwner, PlayerExclusive, WorkerInside, SirenSounding, InSiren, InPlay, SectionsKept, BusyWhilePlaying, CallsInProgress, TypeOK
  <2>3. (BusyWhilePlaying /\ SectionsKept)'
    BY <2>a DEF BusyWhilePlaying, SectionsKept, MutexOwner, WorkerInside, SirenSounding, InSiren, InPlay, TypeOK
  <2>4. CallsInProgress'
    BY <2>a DEF CallsInProgress, TypeOK
  <2>5. (RelayTracksBatch /\ NoLostWakeup /\ HistoryOfThisBatch)'
    BY <2>a DEF RelayTracksBatch, NoLostWakeup, HistoryOfThisBatch, WaitOver, SirenSounding, InSiren, InPlay, BusyWhilePlaying, SectionsKept, MutexOwner, WorkerInside, CallsInProgress, TypeOK
  <2> QED
    BY <2>1, <2>2, <2>3, <2>4, <2>5
<1>5. CASE WorkerLock
  <2> USE <1>5 DEF WorkerLock, CanLock
  <2>1. TypeOK'
    BY DEF TypeOK
  <2>2. (MutexOwner /\ PlayerExclusive)'
    BY DEF MutexOwner, PlayerExclusive, WorkerInside, SirenSounding, InSiren, InPlay, SectionsKept, BusyWhilePlaying, CallsInProgress, TypeOK
  <2>3. (BusyWhilePlaying /\ SectionsKept)'
    BY DEF BusyWhilePlaying, SectionsKept, MutexOwner, WorkerInside, SirenSounding, InSiren, InPlay, TypeOK
  <2>4. CallsInProgress'
    BY DEF CallsInProgress, TypeOK
  <2>5. (RelayTracksBatch /\ NoLostWakeup /\ HistoryOfThisBatch)'
    BY DEF RelayTracksBatch, NoLostWakeup, HistoryOfThisBatch, WaitOver, SirenSounding, InSiren, InPlay, BusyWhilePlaying, SectionsKept, MutexOwner, WorkerInside, CallsInProgress, TypeOK
  <2> QED
    BY <2>1, <2>2, <2>3, <2>4, <2>5
<1>6. CASE WorkerWait
  <2> USE <1>6 DEF WorkerWait, WaitOver
  <2>1. TypeOK'
    BY DEF TypeOK
  <2>2. (MutexOwner /\ PlayerExclusive)'
    BY DEF MutexOwner, PlayerExclusive, WorkerInside, SirenSounding, InSiren, InPlay, SectionsKept, BusyWhilePlaying, CallsInProgress, TypeOK
  <2>3. (BusyWhilePlaying /\ SectionsKept)'
    BY DEF BusyWhilePlaying, SectionsKept, MutexOwner, WorkerInside, SirenSounding, InSiren, InPlay, TypeOK
  <2>4. CallsInProgress'
    BY DEF CallsInProgress, TypeOK
  <2>5. (RelayTracksBatch /\ NoLostWakeup /\ HistoryOfThisBatch)'
    BY DEF RelayTracksBatch, NoLostWakeup, HistoryOfThisBatch, WaitOver, SirenSounding, InSiren, InPlay, BusyWhilePlaying, SectionsKept, MutexOwner, WorkerInside, CallsInProgress, TypeOK
  <2> QED
    BY <2>1, <2>2, <2>3, <2>4, <2>5
<1>7. CASE WorkerTake
  <2> USE <1>7 DEF WorkerTake, WaitOver
  <2>a. /\ Head(queue) \in Alert /\ Tail(queue) \in Seq(Alert)
        /\ Append(history, Head(queue)) \in Seq(Alert)
    BY Taken, Appended DEF TypeOK
  <2>1. TypeOK'
    BY <2>a DEF TypeOK
  <2>2. (MutexOwner /\ PlayerExclusive)'
    BY <2>a DEF MutexOwner, PlayerExclusive, WorkerInside, SirenSounding, InSiren, InPlay, SectionsKept, BusyWhilePlaying, CallsInProgress, TypeOK
  <2>3. (BusyWhilePlaying /\ SectionsKept)'
    BY <2>a DEF BusyWhilePlaying, SectionsKept, MutexOwner, WorkerInside, SirenSounding, InSiren, InPlay, TypeOK
  <2>4. CallsInProgress'
    BY <2>a DEF CallsInProgress, TypeOK
  <2>5. (RelayTracksBatch /\ NoLostWakeup /\ HistoryOfThisBatch)'
    BY <2>a DEF RelayTracksBatch, NoLostWakeup, HistoryOfThisBatch, WaitOver, SirenSounding, InSiren, InPlay, BusyWhilePlaying, SectionsKept, MutexOwner, WorkerInside, CallsInProgress, TypeOK
  <2> QED
    BY <2>1, <2>2, <2>3, <2>4, <2>5
<1>8. CASE WorkerPlayed
  <2> USE <1>8 DEF WorkerPlayed
  <2>1. TypeOK'
    BY DEF TypeOK
  <2>2. (MutexOwner /\ PlayerExclusive)'
    BY DEF MutexOwner, PlayerExclusive, WorkerInside, SirenSounding, InSiren, InPlay, SectionsKept, BusyWhilePlaying, CallsInProgress, TypeOK
  <2>3. (BusyWhilePlaying /\ SectionsKept)'
    BY DEF BusyWhilePlaying, SectionsKept, MutexOwner, WorkerInside, SirenSounding, InSiren, InPlay, TypeOK
  <2>4. CallsInProgress'
    BY DEF CallsInProgress, TypeOK
  <2>5. (RelayTracksBatch /\ NoLostWakeup /\ HistoryOfThisBatch)'
    BY DEF RelayTracksBatch, NoLostWakeup, HistoryOfThisBatch, WaitOver, SirenSounding, InSiren, InPlay, BusyWhilePlaying, SectionsKept, MutexOwner, WorkerInside, CallsInProgress, TypeOK
  <2> QED
    BY <2>1, <2>2, <2>3, <2>4, <2>5
<1>9. CASE WorkerRelock
  <2> USE <1>9 DEF WorkerRelock, CanLock
  <2>1. TypeOK'
    BY DEF TypeOK
  <2>2. (MutexOwner /\ PlayerExclusive)'
    BY DEF MutexOwner, PlayerExclusive, WorkerInside, SirenSounding, InSiren, InPlay, SectionsKept, BusyWhilePlaying, CallsInProgress, TypeOK
  <2>3. (BusyWhilePlaying /\ SectionsKept)'
    BY DEF BusyWhilePlaying, SectionsKept, MutexOwner, WorkerInside, SirenSounding, InSiren, InPlay, TypeOK
  <2>4. CallsInProgress'
    BY DEF CallsInProgress, TypeOK
  <2>5. (RelayTracksBatch /\ NoLostWakeup /\ HistoryOfThisBatch)'
    BY DEF RelayTracksBatch, NoLostWakeup, HistoryOfThisBatch, WaitOver, SirenSounding, InSiren, InPlay, BusyWhilePlaying, SectionsKept, MutexOwner, WorkerInside, CallsInProgress, TypeOK
  <2> QED
    BY <2>1, <2>2, <2>3, <2>4, <2>5
<1>10. CASE FinishClearRelay
  <2> USE <1>10 DEF FinishClearRelay
  <2>1. TypeOK'
    BY DEF TypeOK
  <2>2. (MutexOwner /\ PlayerExclusive)'
    BY DEF MutexOwner, PlayerExclusive, WorkerInside, SirenSounding, InSiren, InPlay, SectionsKept, BusyWhilePlaying, CallsInProgress, TypeOK
  <2>3. (BusyWhilePlaying /\ SectionsKept)'
    BY DEF BusyWhilePlaying, SectionsKept, MutexOwner, WorkerInside, SirenSounding, InSiren, InPlay, TypeOK
  <2>4. CallsInProgress'
    BY DEF CallsInProgress, TypeOK
  <2>5. (RelayTracksBatch /\ NoLostWakeup /\ HistoryOfThisBatch)'
    BY DEF RelayTracksBatch, NoLostWakeup, HistoryOfThisBatch, WaitOver, SirenSounding, InSiren, InPlay, BusyWhilePlaying, SectionsKept, MutexOwner, WorkerInside, CallsInProgress, TypeOK
  <2> QED
    BY <2>1, <2>2, <2>3, <2>4, <2>5
<1>11. CASE FinishHandOver
  <2> USE <1>11 DEF FinishHandOver, CanLock
  <2>a. <<>> \in Seq(Alert) /\ \A i \in DOMAIN history : history[i] \in Alert
    BY EmptySeq, LenProperties, ElementOfSeq DEF TypeOK
  <2>1. TypeOK'
    BY <2>a DEF TypeOK
  <2>2. (MutexOwner /\ PlayerExclusive)'
    BY <2>a DEF MutexOwner, PlayerExclusive, WorkerInside, SirenSounding, InSiren, InPlay, SectionsKept, BusyWhilePlaying, CallsInProgress, TypeOK
  <2>3. (BusyWhilePlaying /\ SectionsKept)'
    BY <2>a DEF BusyWhilePlaying, SectionsKept, MutexOwner, WorkerInside, SirenSounding, InSiren, InPlay, TypeOK
  <2>4. CallsInProgress'
    BY <2>a DEF CallsInProgress, TypeOK
  <2>5. (RelayTracksBatch /\ NoLostWakeup /\ HistoryOfThisBatch)'
    BY <2>a DEF RelayTracksBatch, NoLostWakeup, HistoryOfThisBatch, WaitOver, SirenSounding, InSiren, InPlay, BusyWhilePlaying, SectionsKept, MutexOwner, WorkerInside, CallsInProgress, TypeOK
  <2> QED
    BY <2>1, <2>2, <2>3, <2>4, <2>5
<1>12. CASE WorkerQuit
  <2> USE <1>12 DEF WorkerQuit
  <2>1. TypeOK'
    BY DEF TypeOK
  <2>2. (MutexOwner /\ PlayerExclusive)'
    BY DEF MutexOwner, PlayerExclusive, WorkerInside, SirenSounding, InSiren, InPlay, SectionsKept, BusyWhilePlaying, CallsInProgress, TypeOK
  <2>3. (BusyWhilePlaying /\ SectionsKept)'
    BY DEF BusyWhilePlaying, SectionsKept, MutexOwner, WorkerInside, SirenSounding, InSiren, InPlay, TypeOK
  <2>4. CallsInProgress'
    BY DEF CallsInProgress, TypeOK
  <2>5. (RelayTracksBatch /\ NoLostWakeup /\ HistoryOfThisBatch)'
    BY DEF RelayTracksBatch, NoLostWakeup, HistoryOfThisBatch, WaitOver, SirenSounding, InSiren, InPlay, BusyWhilePlaying, SectionsKept, MutexOwner, WorkerInside, CallsInProgress, TypeOK
  <2> QED
    BY <2>1, <2>2, <2>3, <2>4, <2>5
<1>13. CASE SpuriousWakeup
  <2> USE <1>13 DEF SpuriousWakeup
  <2>1. TypeOK'
    BY DEF TypeOK
  <2>2. (MutexOwner /\ PlayerExclusive)'
    BY DEF MutexOwner, PlayerExclusive, WorkerInside, SirenSounding, InSiren, InPlay, SectionsKept, BusyWhilePlaying, CallsInProgress, TypeOK
  <2>3. (BusyWhilePlaying /\ SectionsKept)'
    BY DEF BusyWhilePlaying, SectionsKept, MutexOwner, WorkerInside, SirenSounding, InSiren, InPlay, TypeOK
  <2>4. CallsInProgress'
    BY DEF CallsInProgress, TypeOK
  <2>5. (RelayTracksBatch /\ NoLostWakeup /\ HistoryOfThisBatch)'
    BY DEF RelayTracksBatch, NoLostWakeup, HistoryOfThisBatch, WaitOver, SirenSounding, InSiren, InPlay, BusyWhilePlaying, SectionsKept, MutexOwner, WorkerInside, CallsInProgress, TypeOK
  <2> QED
    BY <2>1, <2>2, <2>3, <2>4, <2>5
<1>14. CASE Destroy
  <2> USE <1>14 DEF Destroy, NotifyOne
  <2>1. TypeOK'
    BY DEF TypeOK
  <2>2. (MutexOwner /\ PlayerExclusive)'
    BY DEF MutexOwner, PlayerExclusive, WorkerInside, SirenSounding, InSiren, InPlay, SectionsKept, BusyWhilePlaying, CallsInProgress, TypeOK
  <2>3. (BusyWhilePlaying /\ SectionsKept)'
    BY DEF BusyWhilePlaying, SectionsKept, MutexOwner, WorkerInside, SirenSounding, InSiren, InPlay, TypeOK
  <2>4. CallsInProgress'
    BY DEF CallsInProgress, TypeOK
  <2>5. (RelayTracksBatch /\ NoLostWakeup /\ HistoryOfThisBatch)'
    BY DEF RelayTracksBatch, NoLostWakeup, HistoryOfThisBatch, WaitOver, SirenSounding, InSiren, InPlay, BusyWhilePlaying, SectionsKept, MutexOwner, WorkerInside, CallsInProgress, TypeOK
  <2> QED
    BY <2>1, <2>2, <2>3, <2>4, <2>5
<1>15. CASE Join
  <2> USE <1>15 DEF Join
  <2>1. TypeOK'
    BY DEF TypeOK
  <2>2. (MutexOwner /\ PlayerExclusive)'
    BY DEF MutexOwner, PlayerExclusive, WorkerInside, SirenSounding, InSiren, InPlay, SectionsKept, BusyWhilePlaying, CallsInProgress, TypeOK
  <2>3. (BusyWhilePlaying /\ SectionsKept)'
    BY DEF BusyWhilePlaying, SectionsKept, MutexOwner, WorkerInside, SirenSounding, InSiren, InPlay, TypeOK
  <2>4. CallsInProgress'
    BY DEF CallsInProgress, TypeOK
  <2>5. (RelayTracksBatch /\ NoLostWakeup /\ HistoryOfThisBatch)'
    BY DEF RelayTracksBatch, NoLostWakeup, HistoryOfThisBatch, WaitOver, SirenSounding, InSiren, InPlay, BusyWhilePlaying, SectionsKept, MutexOwner, WorkerInside, CallsInProgress, TypeOK
  <2> QED
    BY <2>1, <2>2, <2>3, <2>4, <2>5
<1>16. CASE UNCHANGED vars
  <2> USE <1>16 DEF vars
  <2>1. TypeOK'
    BY DEF TypeOK
  <2>2. (MutexOwner /\ PlayerExclusive)'
    BY DEF MutexOwner, PlayerExclusive, WorkerInside, SirenSounding, InSiren, InPlay, SectionsKept, BusyWhilePlaying, CallsInProgress, TypeOK
  <2>3. (BusyWhilePlaying /\ SectionsKept)'
    BY DEF BusyWhilePlaying, SectionsKept, MutexOwner, WorkerInside, SirenSounding, InSiren, InPlay, TypeOK
  <2>4. CallsInProgress'
    BY DEF CallsInProgress, TypeOK
  <2>5. (RelayTracksBatch /\ NoLostWakeup /\ HistoryOfThisBatch)'
    BY DEF RelayTracksBatch, NoLostWakeup, HistoryOfThisBatch, WaitOver, SirenSounding, InSiren, InPlay, BusyWhilePlaying, SectionsKept, MutexOwner, WorkerInside, CallsInProgress, TypeOK
  <2> QED
    BY <2>1, <2>2, <2>3, <2>4, <2>5
<1>17. ASSUME NEW p \in Pusher, SirenHangs(p)
       PROVE  IInv'
  <2> USE <1>17 DEF SirenHangs
  <2>1. TypeOK'
    BY DEF TypeOK
  <2>2. (MutexOwner /\ PlayerExclusive)'
    BY DEF MutexOwner, PlayerExclusive, WorkerInside, SirenSounding, InSiren, InPlay, SectionsKept, BusyWhilePlaying, CallsInProgress, TypeOK
  <2>3. (BusyWhilePlaying /\ SectionsKept)'
    BY DEF BusyWhilePlaying, SectionsKept, MutexOwner, WorkerInside, SirenSounding, InSiren, InPlay, TypeOK
  <2>4. CallsInProgress'
    BY DEF CallsInProgress, TypeOK
  <2>5. (RelayTracksBatch /\ NoLostWakeup /\ HistoryOfThisBatch)'
    BY DEF RelayTracksBatch, NoLostWakeup, HistoryOfThisBatch, WaitOver, SirenSounding, InSiren, InPlay, BusyWhilePlaying, SectionsKept, MutexOwner, WorkerInside, CallsInProgress, TypeOK
  <2> QED
    BY <2>1, <2>2, <2>3, <2>4, <2>5
<1>18. CASE FileHangs
  <2> USE <1>18 DEF FileHangs
  <2>1. TypeOK'
    BY DEF TypeOK
  <2>2. (MutexOwner /\ PlayerExclusive)'
    BY DEF MutexOwner, PlayerExclusive, WorkerInside, SirenSounding, InSiren, InPlay, SectionsKept, BusyWhilePlaying, CallsInProgress, TypeOK
  <2>3. (BusyWhilePlaying /\ SectionsKept)'
    BY DEF BusyWhilePlaying, SectionsKept, MutexOwner, WorkerInside, SirenSounding, InSiren, InPlay, TypeOK
  <2>4. CallsInProgress'
    BY DEF CallsInProgress, TypeOK
  <2>5. (RelayTracksBatch /\ NoLostWakeup /\ HistoryOfThisBatch)'
    BY DEF RelayTracksBatch, NoLostWakeup, HistoryOfThisBatch, WaitOver, SirenSounding, InSiren, InPlay, BusyWhilePlaying, SectionsKept, MutexOwner, WorkerInside, CallsInProgress, TypeOK
  <2> QED
    BY <2>1, <2>2, <2>3, <2>4, <2>5
<1> QED
  BY <1>1, <1>2, <1>3, <1>4, <1>5, <1>6, <1>7, <1>8, <1>9, <1>10, <1>11, <1>12, <1>13, <1>14, <1>15, <1>16, <1>17, <1>18 DEF Next, PushStep, WorkerStep

-----------------------------------------------------------------------------
\* For any callers, files and bound, with or without a destructor, and whether
\* or not mut_ can be locked twice: the inductive invariant holds always.
THEOREM InvariantHolds == Spec => []IInv
BY InvInit, InvStep, PTL DEF Spec

\* The mutex, the condition variable and busy_ keep the shared player to one
\* thread at a time, the relay in step with the batch, no wakeup lost and the
\* record of one batch out of the next, for any number of callers.
THEOREM SafetyHolds ==
  Spec => [](PlayerExclusive /\ RelayTracksBatch /\ NoLostWakeup /\ HistoryOfThisBatch)
<1>1. IInv => PlayerExclusive /\ RelayTracksBatch /\ NoLostWakeup /\ HistoryOfThisBatch
  BY DEF IInv
<1> QED
  BY <1>1, InvariantHolds, PTL

\* The shared player is never used by two threads, nor by one for the siren and
\* by the worker for a file (playbackqueue.cpp:19, :36).
THEOREM OnePlayer == Spec => []PlayerExclusive
<1> QED
  BY SafetyHolds, PTL

\* A worker that waits has nothing to do, although busy_ is cleared without a notify
\* (playbackqueue.cpp:9-25).
THEOREM WakeupsKept == Spec => []NoLostWakeup
<1> QED
  BY SafetyHolds, PTL

\* The history is that of the batch on the air, however the callers come and go
\* (playbackqueue.cpp:14-27).
THEOREM HistoryKept == Spec => []HistoryOfThisBatch
<1> QED
  BY SafetyHolds, PTL

-----------------------------------------------------------------------------
(* Refinement *)

LEMMA RefinesInit == Init => Abstract!Init
BY DEF Init, Abstract!Init

\* While a file plays or mut_ is the worker's, no siren sounds: the programme
\* is "alerts" wherever the relay is set.
LEMMA WorkerNeverUnderSiren ==
  ASSUME IInv, worker \in {"test", "finish", "getHistory", "playing", "hung", "relock"}
  PROVE  ~SirenSounding
BY ThreadsDistinct DEF IInv, MutexOwner, WorkerInside, BusyWhilePlaying, SectionsKept,
                       SirenSounding, InSiren, InPlay

\* Each step is a step of the listener's view or changes nothing in it.
LEMMA RefinesStep == IInv /\ IInv' /\ [Next]_vars => [Abstract!Next]_(Abstract!bvars)
<1> SUFFICES ASSUME IInv, IInv', [Next]_vars
             PROVE  [Abstract!Next]_(Abstract!bvars)
  OBVIOUS
<1> USE ThreadsDistinct, PlaybackConstants DEF Abstract!bvars
\* Steps that change neither the relay, nor the queue, nor what is aired.
<1>1. ASSUME UNCHANGED <<relay, queue, airing>>, SirenSounding' <=> SirenSounding
      PROVE  UNCHANGED Abstract!bvars
  BY <1>1
<1>2. ASSUME NEW p \in Pusher, NEW a \in Alert, PushCall(p, a)
      PROVE  UNCHANGED Abstract!bvars
  <2>1. SirenSounding' <=> SirenSounding
    BY <1>2 DEF PushCall, SirenSounding, InSiren, InPlay, IInv, TypeOK
  <2> QED
    BY <1>1, <1>2, <2>1 DEF PushCall
<1>3. ASSUME NEW p \in Pusher, PushPlayFirst(p)
      PROVE  Abstract!RaiseAlarm
  <2>1. ~relay /\ queue = <<>> /\ relay'
    BY <1>3 DEF PushPlayFirst, OpensBatch, CanLock, IInv, TypeOK, MutexOwner, WorkerInside,
                RelayTracksBatch, SirenSounding, InSiren, InPlay
  <2>2. SirenSounding'
    BY <1>3 DEF PushPlayFirst, SirenSounding, InSiren, InPlay, IInv, TypeOK
  <2> QED
    BY <1>3, <2>1, <2>2 DEF PushPlayFirst, Abstract!RaiseAlarm
<1>4. ASSUME NEW p \in Pusher, PushJoinsBatch(p)
      PROVE  Abstract!Submit(file[p])
  <2>1. relay /\ relay' /\ ~SirenSounding
    BY <1>4 DEF PushJoinsBatch, Enqueue, OpensBatch, CanLock, IInv, TypeOK, MutexOwner,
                SectionsKept, RelayTracksBatch, SirenSounding, InSiren, InPlay
  <2>2. ~SirenSounding'
    BY <1>4, <2>1 DEF PushJoinsBatch, Enqueue, SirenSounding, InSiren, InPlay, IInv, TypeOK
  <2> QED
    BY <1>4, <2>1, <2>2 DEF PushJoinsBatch, Enqueue, Abstract!Submit
<1>5. ASSUME NEW p \in Pusher, PushSirenEnds(p)
      PROVE  Abstract!SirenOver(file[p])
  <2>1. relay /\ relay' /\ SirenSounding
    BY <1>5 DEF PushSirenEnds, Enqueue, IInv, RelayTracksBatch, SirenSounding, InSiren, InPlay
  <2>2. ~SirenSounding'
    BY <1>5 DEF PushSirenEnds, Enqueue, SirenSounding, InSiren, InPlay, IInv, TypeOK, PlayerExclusive
  <2> QED
    BY <1>5, <2>1, <2>2 DEF PushSirenEnds, Enqueue, Abstract!SirenOver
<1>6. CASE WorkerTake
  <2>1. relay /\ relay' /\ ~SirenSounding /\ ~SirenSounding'
    BY <1>6, WorkerNeverUnderSiren DEF WorkerTake, IInv, RelayTracksBatch, SirenSounding, InSiren, InPlay
  <2>2. airing = NoAlert
    BY <1>6 DEF WorkerTake, IInv, BusyWhilePlaying, InPlay
  <2> QED
    BY <1>6, <2>1, <2>2 DEF WorkerTake, Abstract!Next, Abstract!Begin
<1>7. CASE WorkerPlayed
  <2>1. airing # NoAlert
    BY <1>7 DEF WorkerPlayed, IInv, BusyWhilePlaying, InPlay
  <2>2. SirenSounding' <=> SirenSounding
    BY <1>7 DEF WorkerPlayed, SirenSounding, InSiren, InPlay
  <2> QED
    BY <1>7, <2>1, <2>2 DEF WorkerPlayed, Abstract!Next, Abstract!End
<1>8. CASE FinishClearRelay
  <2>1. relay /\ ~relay' /\ ~SirenSounding /\ queue = <<>> /\ airing = NoAlert
    BY <1>8, WorkerNeverUnderSiren
       DEF FinishClearRelay, IInv, RelayTracksBatch, SectionsKept, BusyWhilePlaying
  <2> QED
    BY <1>8, <2>1 DEF FinishClearRelay, Abstract!Next, Abstract!Release
<1>11. ASSUME NEW p \in Pusher, SirenHangs(p)
       PROVE  UNCHANGED Abstract!bvars
  <2>1. SirenSounding' <=> SirenSounding
    BY <1>11 DEF SirenHangs, SirenSounding, InSiren, IInv, TypeOK
  <2> QED
    BY <1>1, <1>11, <2>1 DEF SirenHangs
<1>9. CASE \/ FileHangs \/ WorkerLock \/ WorkerWait \/ WorkerRelock \/ FinishHandOver \/ WorkerQuit
           \/ SpuriousWakeup \/ Destroy \/ Join \/ UNCHANGED vars
  <2>1. UNCHANGED <<relay, queue, airing, push>>
    BY <1>9 DEF FileHangs, WorkerLock, WorkerWait, WorkerRelock, FinishHandOver, WorkerQuit,
                SpuriousWakeup, Destroy, Join, vars
  <2>2. SirenSounding' <=> SirenSounding
    BY <2>1 DEF SirenSounding, InSiren, InPlay
  <2> QED
    BY <1>1, <2>1, <2>2
<1>10. ASSUME NEW p \in Pusher, PushStep(p)
       PROVE  Abstract!Next
  <2>1. push[p] # "idle" => file[p] \in Alert
    BY DEF IInv, TypeOK, CallsInProgress
  <2>2. CASE PushPlayFirst(p)
    BY <1>3, <2>2 DEF Abstract!Next
  <2>3. CASE PushJoinsBatch(p)
    BY <1>4, <2>1, <2>3 DEF PushJoinsBatch, Abstract!Next
  <2>4. CASE PushSirenEnds(p)
    BY <1>5, <2>1, <2>4 DEF PushSirenEnds, Abstract!Next
  <2> QED
    BY <1>10, <2>2, <2>3, <2>4 DEF PushStep
<1> QED
  BY <1>2, <1>6, <1>7, <1>8, <1>9, <1>10, <1>11 DEF Next, WorkerStep

\* The queue with its callers implements the listener's view: one siren per
\* batch, to its end before any alert, the alerts one at a time in the order
\* of Push, and the regular programme only after the last of them.
THEOREM ImplementsBroadcast == Spec => ListenerSpec
<1>1. IInv /\ IInv' /\ [Next]_vars => [Abstract!Next]_(Abstract!bvars)
  BY RefinesStep
<1> QED
  BY RefinesInit, <1>1, InvariantHolds, PTL DEF Spec, ListenerSpec, Abstract!Spec
=============================================================================
