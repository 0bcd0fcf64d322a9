CONSTANTS
  PieceLength = 3
  FileLength = 5
  BlockSize = 2
  PiecesWanted = 1
  IntRange = 64
  PeerLeaves = FALSE
SPECIFICATION FairSpec
PROPERTY ClientEnds
CHECK_DEADLOCK FALSE
