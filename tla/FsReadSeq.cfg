CONSTANTS
  PieceLength = 2
  NumFiles = 2
  FileSize <- MCFileSize
  FileOffset <- MCFileOffset
  TotalSize = 7
  IntRange = 32
  Readers = {r1}
  NoReader = NoReader
  Requests <- SeqRequests
  MaxReads = 2
  FirstSilenced = 1
  DiskErrors = FALSE
SPECIFICATION Spec
INVARIANTS CopyInBounds ReadsMatchFile FullRead
PROPERTY AnswersAsPosix
