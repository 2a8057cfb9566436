SPECIFICATION FairSpec
CONSTANTS
  Pusher = {net, dwn, tts}
  Worker = worker
  Nobody = nobody
  NoAlert = NoAlert
  Alert <- MCAlert
  Suffix <- MCSuffix
  RecursiveMutex = FALSE
  MaxBatch = 4
INVARIANT PlayerExclusive
INVARIANT RelayTracksBatch
INVARIANT NoLostWakeup
PROPERTY ListenerSpec
PROPERTY ReturnsToRegular
\* The source's queue blocks itself after one batch, and ~PBQueue stops it.
CHECK_DEADLOCK FALSE
