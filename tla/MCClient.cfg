SPECIFICATION FairSpec
CONSTANTS
  Conn = {c1, c2}
  Heartbeat = 2
  Pause = 1
  MaxDrops = 1
INVARIANT IInv
INVARIANT ChainUnique
INVARIANT Watched
PROPERTY SilenceDetectedByOneWait
