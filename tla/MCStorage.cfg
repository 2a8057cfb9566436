SPECIFICATION Spec
CONSTANTS
  Speech = {"fire", "flood"}
  Date = {"today"}
  NoItem = NoItem
  Absent = Absent
  Empty = Empty
  Stray = Stray
  Setup <- MCSetup
  Download = {"report", "warning"}
  Target <- MCTarget
  Suffixed <- MCSuffixed
  Wav <- MCWav
  Mp3 <- MCMp3
  Base64 <- MCBase64
PROPERTY AudioKept
INVARIANT HandedOn
INVARIANT HistoriesTellWork
PROPERTY DownloadsMoveOn
CHECK_DEADLOCK FALSE
