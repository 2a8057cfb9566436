SPECIFICATION FairSpec
CONSTANTS
  Conn = {c1}
  Heartbeat = 2
  Pause = 1
  MaxDrops = 1
PROPERTY SilenceDetected
