----------------------------- MODULE DailyWorker -----------------------------
(***************************************************************************)
(* The scheduler of the daily task (libs/dailyworker) as main uses it      *)
(* (main.mm:199-245): the worker runs Handler, main calls SetScheduleTime  *)
(* once while the worker may already be running, DoTask calls it again     *)
(* from within Handler, and the destructor stops the worker.               *)
(*                                                                         *)
(* Time is the time of day and the time left until nextExecutionTime, in   *)
(* ticks.  The threads are prompt: time passes only while the worker       *)
(* sleeps or is blocked and main is not inside SetScheduleTime.            *)
(*                                                                         *)
(* waiter_() finds the other queues busy or not, arbitrarily.  To look it   *)
(* takes the mutex of each: the playback queue's is held while the siren   *)
(* sounds and, after the first batch, for ever (PBQueue), so that waiter_() *)
(* may take its time or never return, with mut_ of the scheduler held.     *)
(* The object is taken to be constructed before its thread looks at it.    *)
(***************************************************************************)
EXTENDS Naturals

CONSTANTS
  Day,          \* ticks in 24 hours
  Delay,        \* ticks in the 30 seconds of a postponement
  DefaultTime,  \* initial scheduleTime_
  StartTime,    \* what main passes to SetScheduleTime
  TaskTime,     \* what DoTask passes to it
  Torn          \* what scheduleTime_ can look like while main writes it

ASSUME ScheduleConstants ==
  /\ Day \in Nat \ {0}
  /\ Delay \in 1..Day
  /\ {DefaultTime, StartTime, TaskTime} \union Torn \subseteq 0..(Day - 1)

VARIABLES
  tod,        \* the time of day
  left,       \* ticks until nextExecutionTime; 0 when it has come
  schedule,   \* scheduleTime_
  reset,      \* reset_
  quit,       \* quit_
  worker,     \* where the worker is inside Handler
  main,       \* where main is inside SetScheduleTime
  postponed,  \* nextExecutionTime is a postponement, not a scheduled time
  ran,        \* DoTask has run at this very time
  today       \* DoTasks run since midnight, counted up to 2

vars == <<tod, left, schedule, reset, quit, worker, main, postponed, ran, today>>

Init ==
  /\ tod \in 0..(Day - 1)
  /\ left = 0
  /\ schedule = DefaultTime
  /\ reset = FALSE
  /\ quit = FALSE
  /\ worker = "start"
  /\ main = "set"
  /\ postponed = FALSE
  /\ ran = FALSE
  /\ today = 0

-----------------------------------------------------------------------------
\* Mutant: a time that is just now counts as still to come.
NextExecutionMayBeNow == (schedule + Day - tod) % Day

\* Mutant: a day is always added.
NextExecutionTomorrow == schedule + Day - tod

\* GetNextExecutionTimePoint: the next time the clock shows scheduleTime_,
\* tomorrow if that is now.
NextExecution == LET d == (schedule + Day - tod) % Day IN IF d = 0 THEN Day ELSE d

Tick ==
  /\ main \notin {"set", "setting", "reset", "notify"}
  /\ \/ worker = "waiting" /\ left > 0
     \/ worker = "blocked"
  /\ tod' = (tod + 1) % Day
  /\ left' = IF left > 0 THEN left - 1 ELSE 0
  /\ ran' = FALSE
  /\ today' = IF tod' = 0 THEN 0 ELSE today
  /\ UNCHANGED <<schedule, reset, quit, worker, main, postponed>>

-----------------------------------------------------------------------------
(* Handler *)

Start ==
  /\ worker = "start"
  /\ left' = NextExecution
  /\ worker' = "loop"
  /\ UNCHANGED <<tod, schedule, reset, quit, main, postponed, ran, today>>

\* Mutant: reset_ is not cleared.
LoopKeepsReset ==
  /\ worker = "loop"
  /\ worker' = IF quit THEN "done" ELSE "test"
  /\ UNCHANGED <<tod, left, schedule, reset, quit, main, postponed, ran, today>>

\* Mutant: the loop does not test quit_.
LoopIgnoresQuit ==
  /\ worker = "loop"
  /\ worker' = "test"
  /\ reset' = FALSE
  /\ UNCHANGED <<tod, left, schedule, quit, main, postponed, ran, today>>

\* while (!quit_): take mut_, forget any reset so far.
Loop ==
  /\ worker = "loop"
  /\ worker' = IF quit THEN "done" ELSE "test"
  /\ reset' = IF quit THEN reset ELSE FALSE
  /\ UNCHANGED <<tod, left, schedule, quit, main, postponed, ran, today>>

\* The predicate of wait_until; false, it is followed by the actual wait.
Test ==
  /\ worker = "test"
  /\ worker' = IF reset \/ left = 0 THEN "check" ELSE "blocking"
  /\ UNCHANGED <<tod, left, schedule, reset, quit, main, postponed, ran, today>>

\* What is notified before this is lost: only the timeout ends the wait.
Block ==
  /\ worker = "blocking"
  /\ worker' = "waiting"
  /\ UNCHANGED <<tod, left, schedule, reset, quit, main, postponed, ran, today>>

Timeout ==
  /\ worker = "waiting"
  /\ left = 0
  /\ worker' = "test"
  /\ UNCHANGED <<tod, left, schedule, reset, quit, main, postponed, ran, today>>

SpuriousWakeup ==
  /\ worker = "waiting"
  /\ worker' = "test"
  /\ UNCHANGED <<tod, left, schedule, reset, quit, main, postponed, ran, today>>

\* waiter_() waits for the mutex of the playback queue.
WaiterBlocks ==
  /\ worker = "check"
  /\ worker' = "blocked"
  /\ UNCHANGED <<tod, left, schedule, reset, quit, main, postponed, ran, today>>

\* waiter_() found some queue busy: try again in 30 seconds.
Postpone ==
  /\ worker \in {"check", "blocked"}
  /\ left' = Delay
  /\ postponed' = TRUE
  /\ worker' = "loop"
  /\ UNCHANGED <<tod, schedule, reset, quit, main, ran, today>>

\* Mutant: the next time is taken to be a day from now.
RescheduleInADay ==
  /\ worker \in {"check", "blocked"}
  /\ postponed' = FALSE
  /\ left' = Day
  /\ worker' = "decide"
  /\ UNCHANGED <<tod, schedule, reset, quit, main, ran, today>>

\* waiter_() found the queues idle: compute the next time.
Reschedule ==
  /\ worker \in {"check", "blocked"}
  /\ left' = NextExecution
  /\ postponed' = FALSE
  /\ worker' = "decide"
  /\ UNCHANGED <<tod, schedule, reset, quit, main, ran, today>>

\* A new schedule: back to waiting.  Else it is time for the task.
Decide ==
  /\ worker = "decide"
  /\ worker' = IF reset THEN "loop" ELSE "task"
  /\ UNCHANGED <<tod, left, schedule, reset, quit, main, postponed, ran, today>>

\* DoTask sets the schedule from within the worker: its notify finds nobody.
Task ==
  /\ worker = "task"
  /\ schedule' = TaskTime
  /\ reset' = TRUE
  /\ ran' = TRUE
  /\ today' = IF today = 0 THEN 1 ELSE 2
  /\ worker' = "loop"
  /\ UNCHANGED <<tod, left, quit, main, postponed>>

-----------------------------------------------------------------------------
(* main *)

\* SetScheduleTime holds no lock: the hour of scheduleTime_ can be seen without
\* the minute, or the minute without the hour.
TearSchedule ==
  /\ main = "set"
  /\ schedule' \in Torn
  /\ main' = "setting"
  /\ UNCHANGED <<tod, left, reset, quit, worker, postponed, ran, today>>

\* scheduleTime_ is written; reset_ is set after it.
SetSchedule ==
  /\ main = "setting"
  /\ schedule' = StartTime
  /\ main' = "reset"
  /\ UNCHANGED <<tod, left, reset, quit, worker, postponed, ran, today>>

SetReset ==
  /\ main = "reset"
  /\ reset' = TRUE
  /\ main' = "notify"
  /\ UNCHANGED <<tod, left, schedule, quit, worker, postponed, ran, today>>

Wake == worker' = IF worker = "waiting" THEN "test" ELSE worker

Notify ==
  /\ main = "notify"
  /\ Wake
  /\ main' = "running"
  /\ UNCHANGED <<tod, left, schedule, reset, quit, postponed, ran, today>>

\* The destructor gets mut_ when the worker does not hold it.
Destroy ==
  /\ main = "running"
  /\ worker \in {"start", "loop", "waiting"}
  /\ quit' = TRUE
  /\ Wake
  /\ main' = "joining"
  /\ UNCHANGED <<tod, left, schedule, reset, postponed, ran, today>>

Join ==
  /\ main = "joining"
  /\ worker = "done"
  /\ main' = "gone"
  /\ UNCHANGED <<tod, left, schedule, reset, quit, worker, postponed, ran, today>>

-----------------------------------------------------------------------------
WorkerStep ==
  \/ Start \/ Loop \/ Test \/ Block \/ Timeout
  \/ Postpone \/ Reschedule \/ Decide \/ Task

SetScheduleTime == TearSchedule \/ SetSchedule \/ SetReset \/ Notify

Next ==
  \/ WorkerStep \/ WaiterBlocks \/ SpuriousWakeup \/ Tick
  \/ SetScheduleTime \/ Destroy \/ Join

Spec == Init /\ [][Next]_vars

\* The threads run, but for a worker blocked in waiter_(), which may stay there;
\* time passes however often the worker wakes up spuriously.  The destructor
\* need not be called.
FairSpec ==
  /\ Spec
  /\ WF_vars(worker # "blocked" /\ WorkerStep)
  /\ WF_vars(SetScheduleTime)
  /\ SF_vars(Tick)
  /\ WF_vars(Join)

-----------------------------------------------------------------------------
TypeOK ==
  /\ tod \in 0..(Day - 1)
  /\ left \in 0..Day
  /\ schedule \in {DefaultTime, StartTime, TaskTime} \union Torn
  /\ reset \in BOOLEAN
  /\ quit \in BOOLEAN
  /\ worker \in {"start", "loop", "test", "blocking", "waiting", "check",
                 "blocked", "decide", "task", "done"}
  /\ main \in {"set", "setting", "reset", "notify", "running", "joining", "gone"}
  /\ postponed \in BOOLEAN
  /\ ran \in BOOLEAN
  /\ today \in 0..2

\* The task never runs twice for one point in time, although the next time is
\* computed at the very time that was waited for, and although DoTask itself
\* sets reset_ (dailyworker.hpp:72-78, :98-99).
TaskOnceAtATime == worker = "task" => ~ran

\* What keeps it so: whoever is about to run the task has moved on to a later
\* time, and once it has run, only a reset leads out of the wait before time
\* passes; it is still set when the worker decides.
MovedOn == worker \in {"decide", "task"} => left > 0
RestAfterTask == ran => left > 0 /\ (worker \in {"check", "blocked", "decide"} => reset)

\* The invariant that is inductive.
IInv == TypeOK /\ TaskOnceAtATime /\ MovedOn /\ RestAfterTask

\* A change of schedule takes effect in the end, though SetScheduleTime holds
\* no lock and its reset_ and its notify can both be lost (dailyworker.hpp:59,
\* :72, :108-116): from some time on the worker sleeps until the scheduled
\* time, or for a postponement.
ScheduleSettles ==
  <>[](worker = "waiting" => postponed \/ (tod + left) % Day = schedule)

\* The task keeps being run unless the queues are found busy for ever, the
\* scheduler is destroyed or waiter_() never gets its answer from the playback
\* queue: reset_ does not send the worker round for good, and a slow waiter_()
\* only makes the task late or puts it off by a day (dailyworker.hpp:56-79,
\* main.mm:218).
TaskKeepsRunning ==
  <>[](~postponed /\ ~quit) => []<>(worker = "task") \/ <>[](worker = "blocked")

\* A destructor that got mut_ returns, if only when the next time has come, the
\* predicate of the wait not looking at quit_ (dailyworker.hpp:42-50, :61-65);
\* unless the worker is blocked in waiter_() then and stays so (main.mm:218).
ShutdownCompletes ==
  (main = "joining") ~> (main = "gone" \/ [](worker = "blocked"))

\* "DailyWorker executes DoTask() once a day at the scheduleTime_"
\* (dailyworker.hpp:10).
OncePerDay == today <= 1
=============================================================================
