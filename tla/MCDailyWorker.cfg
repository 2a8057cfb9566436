SPECIFICATION FairSpec
CONSTANTS
  Day = 6
  Delay = 1
  DefaultTime = 0
  StartTime = 4
  TaskTime = 5
  Torn = {1, 3}
INVARIANT IInv
INVARIANT TaskOnceAtATime
PROPERTY ScheduleSettles
PROPERTY TaskKeepsRunning
PROPERTY ShutdownCompletes
\* ~DailyWorker ends the worker.
CHECK_DEADLOCK FALSE
