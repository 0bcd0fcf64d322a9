CONSTANTS
  PieceLength = 2
  NumFiles = 2
  FileSize <- MCFileSize
  FileOffset <- MCFileOffset
  TotalSize = 7
  IntRange = 32
  Readers = {r1, r2}
  NoReader = NoReader
  Requests <- MCRequests
  MaxReads = 1
  DiskErrors = FALSE
SPECIFICATION FairSpec
INVARIANTS TypeOK LimitFollowsReads RangeRaised OneBuffer AnswerOnItsWay
PROPERTIES ReadReturns AnswersAsPosix
