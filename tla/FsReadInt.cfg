CONSTANTS
  PieceLength = 2
  NumFiles = 1
  FileSize <- IntFileSize
  FileOffset <- IntFileOffset
  TotalSize = 5
  IntRange = 8
  Readers = {r1}
  NoReader = NoReader
  Requests <- IntRequests
  MaxReads = 1
  FirstSilenced = 1
  DiskErrors = FALSE
SPECIFICATION Spec
INVARIANT FullRead
