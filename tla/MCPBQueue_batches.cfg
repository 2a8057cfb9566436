SPECIFICATION FairSpec
CONSTANTS
  Pusher = {net, dwn, tts}
  Worker = worker
  Nobody = nobody
  NoAlert = NoAlert
  Alert <- MCAlert
  Suffix <- MCSuffix
  RecursiveMutex = TRUE
  MaxBatch = 4
INVARIANT IInv
INVARIANT HistoryOfThisBatch
PROPERTY ListenerSpec
PROPERTY PushedIsAired
PROPERTY TeardownCompletes
\* The source's queue blocks itself after one batch, and ~PBQueue stops it.
CHECK_DEADLOCK FALSE
