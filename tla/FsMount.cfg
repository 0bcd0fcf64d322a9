CONSTANTS
  Workers = {w1, w2}
  Names <- MCNames
  Torrents <- MCTorrents
  Paths <- MCPaths
SPECIFICATION Spec
INVARIANTS TypeOK OneInstance ListedExists FilesReachable ReadFindsFile
PROPERTY MapsFrozen
