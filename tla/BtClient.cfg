CONSTANTS
  PieceLength = 3
  FileLength = 5
  BlockSize = 2
  PiecesWanted = 2
  IntRange = 64
  PeerLeaves = TRUE
SPECIFICATION Spec
INVARIANTS TypeOK BlockInBounds RequestsInPiece FileInOrder
CHECK_DEADLOCK FALSE
