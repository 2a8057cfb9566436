SPECIFICATION Spec
CONSTANTS
  BufferSizes = {2, 3}
  LogrotateSize = 1
  Lengths = {1, 4}
  MaxText = 8
  Days = 2
  NoFile = NoFile
PROPERTY LogKept
PROPERTY Rotates
CHECK_DEADLOCK FALSE
