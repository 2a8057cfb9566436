SPECIFICATION Spec
CONSTANTS
  Pusher = {net, dwn, tts}
  Worker = worker
  Nobody = nobody
  NoAlert = NoAlert
  Alert <- MCAlert
  Suffix <- MCSuffix
  RecursiveMutex = TRUE
  MaxBatch = 3
PROPERTY WavsEncoded
\* The source's queue blocks itself after one batch, and ~PBQueue stops it.
CHECK_DEADLOCK FALSE
