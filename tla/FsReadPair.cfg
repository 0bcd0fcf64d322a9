CONSTANTS
  PieceLength = 2
  NumFiles = 2
  FileSize <- PairFileSize
  FileOffset <- PairFileOffset
  TotalSize = 5
  IntRange = 32
  Readers = {r1, r2}
  NoReader = NoReader
  Requests <- PairRequests
  MaxReads = 1
  FirstSilenced = 1
  DiskErrors = TRUE
SPECIFICATION Spec
INVARIANTS TypeOK PoppedAlertsOwned NoOrphanWait BuffersWhole DataCorrect AnswerOnItsWay
SYMMETRY Symmetry
