SPECIFICATION Spec
CONSTANTS
  Char <- MCChar
  Value <- MCValue
  Depth <- MCDepth
  Torrents <- MCTorrents
  ReadSize = 8
  IntRange = 64
INVARIANTS TypeOK InSync CarryCovers ParsedRight InfoHashed Accepted
PROPERTY EntriesAdvance
