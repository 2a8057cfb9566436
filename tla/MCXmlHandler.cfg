SPECIFICATION Spec
CONSTANTS
  Host = {h1, h2}
  None = None
  Doc <- MCDoc
  Short <- MCShort
  Status <- MCStatus
  Ident <- MCIdent
  Sent <- MCSent
  Infos <- MCInfos
  Setup <- MCSetup
  Inside <- MCInside
  Area <- MCArea
  MaxBuffer = 3
  MaxQueue = 2
SYMMETRY Symmetry
INVARIANT TakenDiffer
INVARIANT FilesDiffer
INVARIANT IInv
INVARIANT HandedWhenInside
INVARIANT NotHandedElsewhere
PROPERTY CleanDocumentTaken
PROPERTY CutLosesOne
PROPERTY QueueMovesOn
\* A document without a mandatory element ends the process.
CHECK_DEADLOCK FALSE
