CONSTANTS
  PieceLength = 2
  NumFiles = 2
  FileSize <- PairFileSize
  FileOffset <- PairFileOffset
  TotalSize = 5
  IntRange = 32
  Readers = {r1, r2}
  NoReader = NoReader
  Requests <- LiveRequests
  MaxReads = 1
  FirstSilenced = 0
  DiskErrors = FALSE
SPECIFICATION FairSpec
INVARIANTS LeakBounded
PROPERTIES ReadReturns ImplementsPosixRead
