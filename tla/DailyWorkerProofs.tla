------------------------- MODULE DailyWorkerProofs -------------------------
(***************************************************************************)
(* What DailyWorker does for any length of a day, any postponement and any *)
(* times of the task.                                                      *)
(***************************************************************************)
EXTENDS DailyWorker, Integers, TLAPS

\* The next execution is later than now, and at most a day later.
LEMMA NextExecutionLater ==
  ASSUME TypeOK
  PROVE  NextExecution \in 1..Day
<1> DEFINE d == (schedule + Day - tod) % Day
<1>1. schedule \in 0..(Day - 1) /\ tod \in 0..(Day - 1) /\ Day \in Nat \ {0}
  BY ScheduleConstants DEF TypeOK
<1>2. schedule + Day - tod \in Int
  BY <1>1
<1>3. d \in 0..(Day - 1)
  BY <1>1, <1>2
<1> HIDE DEF d
<1>4. (IF d = 0 THEN Day ELSE d) \in 1..Day
  BY <1>1, <1>3
<1> QED
  BY <1>4 DEF NextExecution, d

\* Tasks counted, and times, stay in their ranges.
LEMMA TypeStep == TypeOK /\ [Next]_vars => TypeOK'
<1> SUFFICES ASSUME TypeOK, [Next]_vars PROVE TypeOK'
  OBVIOUS
<1> DEFINE n == NextExecution
<1>0. n \in 1..Day
  BY NextExecutionLater
<1> HIDE DEF n
<1> USE ScheduleConstants DEF TypeOK
<1>1. CASE Start
  BY <1>0, <1>1 DEF Start, n
<1>2. CASE Loop \/ Test \/ Block \/ Timeout \/ SpuriousWakeup \/ WaiterBlocks
  BY <1>2 DEF Loop, Test, Block, Timeout, SpuriousWakeup, WaiterBlocks
<1>3. CASE Postpone
  BY <1>3 DEF Postpone
<1>4. CASE Reschedule
  <2>1. left' = n
    BY <1>4 DEF Reschedule, n
  <2>2. left' \in 0..Day
    BY <1>0, <2>1
  <2> QED
    BY <1>4, <2>2 DEF Reschedule
<1>5. CASE Decide \/ Task
  <2>1. CASE Decide
    BY <2>1 DEF Decide
  <2>2. CASE Task
    <3>1. today' \in 0..2
      BY <2>2 DEF Task
    <3> QED
      BY <2>2, <3>1 DEF Task
  <2> QED
    BY <1>5, <2>1, <2>2
<1>6. CASE SetScheduleTime
  BY <1>6 DEF SetScheduleTime, TearSchedule, SetSchedule, SetReset, Notify, Wake
<1>7. CASE Tick
  <2>1. tod + 1 \in Int /\ Day \in Nat \ {0}
    OBVIOUS
  <2>2. tod' \in 0..(Day - 1)
    BY <1>7, <2>1 DEF Tick
  <2>3. left' \in 0..Day /\ today' \in 0..2
    BY <1>7 DEF Tick
  <2> QED
    BY <1>7, <2>2, <2>3 DEF Tick
<1>8. CASE Destroy \/ Join
  BY <1>8 DEF Destroy, Join, Wake
<1>9. CASE UNCHANGED vars
  BY <1>9 DEF vars
<1> QED
  BY <1>1, <1>2, <1>3, <1>4, <1>5, <1>6, <1>7, <1>8, <1>9 DEF Next, WorkerStep

LEMMA InvInit == Init => IInv
<1> SUFFICES ASSUME Init PROVE IInv
  OBVIOUS
<1>1. left \in 0..Day /\ today \in 0..2
  BY ScheduleConstants DEF Init
<1>2. TypeOK
  BY <1>1 DEF Init, TypeOK
<1> QED
  BY <1>2 DEF Init, IInv, TaskOnceAtATime, MovedOn, RestAfterTask

LEMMA InvStep == IInv /\ [Next]_vars => IInv'
<1> SUFFICES ASSUME IInv, [Next]_vars PROVE IInv'
  OBVIOUS
<1>1. TypeOK /\ TypeOK' /\ Delay > 0
  BY TypeStep, ScheduleConstants DEF IInv
<1>2. SUFFICES TaskOnceAtATime' /\ MovedOn' /\ RestAfterTask'
  BY <1>1 DEF IInv
<1> USE DEF IInv, TaskOnceAtATime, MovedOn, RestAfterTask
<1>3. CASE Start
  <2>1. left' > 0
    BY <1>1, <1>3, NextExecutionLater DEF Start
  <2> QED
    BY <1>3, <2>1 DEF Start
<1>4. CASE Loop \/ Test \/ Block \/ Timeout \/ SpuriousWakeup \/ WaiterBlocks
  <2>1. CASE Loop
    BY <2>1 DEF Loop
  <2>2. CASE Test
    <3>1. ran => left > 0
      OBVIOUS
    <3>2. ran => left # 0
      BY <1>1, <3>1 DEF TypeOK
    <3> QED
      BY <2>2, <3>1, <3>2 DEF Test
  <2>3. CASE Block \/ Timeout \/ SpuriousWakeup \/ WaiterBlocks
    BY <2>3 DEF Block, Timeout, SpuriousWakeup, WaiterBlocks
  <2> QED
    BY <1>4, <2>1, <2>2, <2>3
<1>5. CASE Postpone
  BY <1>1, <1>5 DEF Postpone
<1>6. CASE Reschedule
  <2>1. left' > 0
    BY <1>1, <1>6, NextExecutionLater DEF Reschedule
  <2> QED
    BY <1>6, <2>1 DEF Reschedule
<1>7. CASE Decide \/ Task
  BY <1>7 DEF Decide, Task
<1>8. CASE SetScheduleTime
  BY <1>8 DEF SetScheduleTime, TearSchedule, SetSchedule, SetReset, Notify, Wake
<1>9. CASE Tick
  BY <1>9 DEF Tick
<1>10. CASE Destroy \/ Join
  BY <1>10 DEF Destroy, Join, Wake
<1>11. CASE UNCHANGED vars
  BY <1>11 DEF vars
<1> QED
  BY <1>3, <1>4, <1>5, <1>6, <1>7, <1>8, <1>9, <1>10, <1>11 DEF Next, WorkerStep

\* The scheduler keeps the inductive invariant, whenever main and the task set
\* the schedule and however often the worker wakes up for nothing.
THEOREM InvariantHolds == Spec => []IInv
<1> QED
  BY InvInit, InvStep, PTL DEF Spec

\* The task never runs twice at one point in time: the next time is computed
\* before it runs, is never now, and only a reset, which sends the worker back
\* to waiting, ends the wait before time passes (dailyworker.hpp:72-78, :98-99).
THEOREM OnceAtATime == Spec => []TaskOnceAtATime
<1>1. IInv => TaskOnceAtATime
  BY DEF IInv
<1> QED
  BY <1>1, InvariantHolds, PTL
=============================================================================
