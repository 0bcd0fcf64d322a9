CONSTANTS
  PieceLength = 3
  FileLength = 24
  BlockSize = 2
  PiecesWanted = 1
  IntRange = 64
  PeerLeaves = FALSE
SPECIFICATION Spec
INVARIANT BlockIsResponse
CHECK_DEADLOCK FALSE
