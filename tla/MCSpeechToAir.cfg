SPECIFICATION Spec
CONSTANTS
  Text = {"english", "french"}
  NoText = NoText
  NoFile = NoFile
  NoFormat = NoFormat
  NoPlay = NoPlay
  PieceBytes = 1024
  Version = {12, 13, 14}
  Recording = {"narrow.mp3", "wide.mp3", "slow.mp3", "free.caf"}
  Filename <- MCFilename
  Format <- MCFormat
  Pieces <- MCPieces
  Content <- MCContent
  Packets <- MCPackets
  Large <- MCLarge
  Sources <- MCSources
PROPERTY CompletedWhole
PROPERTY SpokenInTheEnd
INVARIANT PlayedInOrder
PROPERTY PlayedWhole
PROPERTY OpenFileReturns
CHECK_DEADLOCK FALSE
