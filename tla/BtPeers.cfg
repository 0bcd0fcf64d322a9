SPECIFICATION Spec
CONSTANTS
  Char <- MCChar
  Digit <- MCDigit
  PeerFiles <- MCPeerFiles
  MaxPeers = 2
  BufSize = 6
  UrlSize = 4
  HighBytes = {0, 1}
  Residues <- MCResidues
INVARIANTS TypeOK PeersListed ConnectsToFirst
