------------------------------ MODULE BtPeers -------------------------------
(***************************************************************************)
(* How btclient reads its list of peers, byte by byte: get_peer_list of    *)
(* bt_lib.c, and what main takes from it to connect to the first peer.     *)
(*                                                                         *)
(* A write behind an array or a block of memory, and the use of a pointer  *)
(* that is NULL or was never assigned, end in "undefined": what the        *)
(* program does after that is not in the model.                            *)
(***************************************************************************)
EXTENDS Integers, Sequences, FiniteSetsExt

CONSTANTS
  Char, Digit,  \* the characters of a line, and the digits among them
  PeerFiles,    \* peer lists: the lines that end in a newline, and what is behind the last
  MaxPeers,     \* entries of infoarr: 50
  BufSize,      \* of buf: 1024
  UrlSize,      \* of a url: 64
  HighBytes,    \* what the stack may hold in the bytes of ch that read does not write
  Residues      \* what may lie behind the characters of a url, up to the first zero

Newline == "\n"
Colon   == ":"

Line == Seq(Char)
Byte == Char \cup {Newline}

ASSUME PeersAssumption ==
  /\ Newline \notin Char /\ Colon \in Char \ Digit
  /\ \A f \in PeerFiles : f.lines \in Seq(Line) /\ f.rest \in Line
  /\ MaxPeers \in Nat \ {0} /\ UrlSize \in Nat /\ BufSize \in Nat /\ UrlSize < BufSize
  /\ HighBytes \subseteq Nat
  /\ Residues \subseteq Line

-----------------------------------------------------------------------------
VARIABLES
  file,      \* "peerlist"; one that cannot be opened is read as if it were empty
  row, col,  \* how far it was read: lines begun, and characters of the last of these
  high,      \* the bytes of ch that are never written; 0 or not
  buf,       \* its first i characters
  pl,        \* what was copied into the url of each entry
  pc,
  peer       \* ip and port given to peer_tcp_connect

vars == <<file, row, col, high, buf, pl, pc, peer>>

Init ==
  /\ file \in PeerFiles
  /\ row = 1 /\ col = 0
  /\ high \in HighBytes
  /\ buf = << >>
  /\ pl = << >>
  /\ pc = "read"
  /\ peer = << >>

RowText == IF row <= Len(file.lines) THEN file.lines[row] ELSE file.rest
AtEnd   == row > Len(file.lines) /\ col = Len(file.rest)
InRow   == col < Len(RowText)

\* the byte that read puts into ch
ReadByte == IF InRow THEN RowText[col + 1] ELSE Newline

\* ch is compared as an int, all bytes of it
IsNewline == ReadByte = Newline /\ high = 0

Forward ==
  /\ row' = IF InRow THEN row ELSE row + 1
  /\ col' = IF InRow THEN col + 1 ELSE 0

-----------------------------------------------------------------------------
(* get_peer_list *)

StoreByte ==
  /\ pc = "read" /\ ~AtEnd /\ ~IsNewline
  /\ Len(buf) < BufSize
  /\ buf' = Append(buf, ReadByte)
  /\ Forward
  /\ UNCHANGED <<file, high, pl, pc, peer>>

AddPeerOverfull ==  \* mutant: room for one more
  /\ pc = "read" /\ ~AtEnd /\ IsNewline
  /\ Len(buf) < BufSize
  /\ Len(pl) <= MaxPeers /\ Len(buf) <= UrlSize
  /\ pl' = Append(pl, buf)
  /\ buf' = << >>
  /\ Forward
  /\ UNCHANGED <<file, high, pc, peer>>

AddPeerKeepsIndex ==  \* mutant: i is not set to 0 again
  /\ pc = "read" /\ ~AtEnd /\ IsNewline
  /\ Len(buf) < BufSize
  /\ Len(pl) < MaxPeers /\ Len(buf) <= UrlSize
  /\ pl' = Append(pl, buf)
  /\ Forward
  /\ UNCHANGED <<file, high, buf, pc, peer>>

AddPeer ==
  /\ pc = "read" /\ ~AtEnd /\ IsNewline
  /\ Len(buf) < BufSize
  /\ Len(pl) < MaxPeers /\ Len(buf) <= UrlSize
  /\ pl' = Append(pl, buf)
  /\ buf' = << >>
  /\ Forward
  /\ UNCHANGED <<file, high, pc, peer>>

ListFull ==
  /\ pc = "read" /\ ~AtEnd /\ IsNewline
  /\ Len(buf) < BufSize
  /\ Len(pl) >= MaxPeers
  /\ pc' = "listed"
  /\ Forward
  /\ UNCHANGED <<file, high, buf, pl, peer>>

FileEnd ==
  /\ pc = "read" /\ AtEnd
  /\ Len(buf) < BufSize
  /\ pc' = "listed"
  /\ UNCHANGED <<file, row, col, high, buf, pl, peer>>

Overrun ==
  /\ pc = "read"
  /\ \/ Len(buf) >= BufSize  \* buf[i], for the byte or for the zero
     \/ /\ ~AtEnd /\ IsNewline
        /\ Len(pl) < MaxPeers /\ Len(buf) > UrlSize
  /\ pc' = "undefined"
  /\ UNCHANGED <<file, row, col, high, buf, pl, peer>>

-----------------------------------------------------------------------------
(* main: strtok, strtok again and atoi on the url of the first entry. *)

\* the first position from i on with a character of C, or the one behind the end
First(s, i, C) == Min({j \in i .. Len(s) : s[j] \in C} \cup {Len(s) + 1})

TokenStart(s, i) == First(s, i, Char \ {Colon})
TokenEnd(s, i)   == First(s, TokenStart(s, i), {Colon})

Ip(s) == SubSeq(s, TokenStart(s, 1), TokenEnd(s, 1) - 1)

PortStartAgain(s) == TokenStart(s, 1)  \* mutant: strtok(url) instead of strtok(NULL)
PortStart(s) == TokenStart(s, TokenEnd(s, 1) + 1)

atoi(s) == SubSeq(s, 1, First(s, 1, Char \ Digit) - 1)  \* as its digits

Port(s) == atoi(SubSeq(s, PortStart(s), Len(s)))

\* without a second token atoi gets NULL
Connect ==
  /\ pc = "listed"
  /\ pl # << >>
  /\ \E residue \in Residues :
       LET url == pl[1] \o residue IN
       /\ PortStart(url) <= Len(url)
       /\ peer' = <<Ip(url), Port(url)>>
  /\ pc' = "connected"
  /\ UNCHANGED <<file, row, col, high, buf, pl>>

NoPeer ==
  /\ pc = "listed"
  /\ pl # << >> =>
       \E residue \in Residues :
         LET url == pl[1] \o residue IN PortStart(url) > Len(url)
  /\ pc' = "undefined"
  /\ UNCHANGED <<file, row, col, high, buf, pl, peer>>

Terminated ==
  /\ pc \in {"connected", "undefined"}
  /\ UNCHANGED vars

Next ==
  \/ StoreByte \/ AddPeer \/ ListFull \/ FileEnd \/ Overrun
  \/ Connect \/ NoPeer
  \/ Terminated

Spec == Init /\ [][Next]_vars

-----------------------------------------------------------------------------
(* Nothing is written outside of buf and infoarr (bt_lib.c:112-115).       *)
TypeOK ==
  /\ file \in PeerFiles
  /\ row \in 1 .. Len(file.lines) + 1 /\ col \in 0 .. Len(RowText)
  /\ high \in HighBytes
  /\ buf \in Seq(Byte) /\ Len(buf) <= BufSize
  /\ pl \in Seq(Seq(Byte)) /\ Len(pl) <= MaxPeers
  /\ pc \in {"read", "listed", "connected", "undefined"}

(* A file that the arrays are large enough for. *)
Fits ==
  /\ \A k \in DOMAIN file.lines : Len(file.lines[k]) <= UrlSize
  /\ Len(file.rest) < BufSize

(* The list has the lines of the file, each whole and in its place, up to   *)
(* the number there is room for; one without a newline at the end is not a  *)
(* line (bt_lib.c:117-139).  That is so if the bytes of ch that nobody      *)
(* writes are zero; if not, no newline is recognised, and there is no peer. *)
PeersListed ==
  pc \in {"listed", "connected"} =>
    /\ high = 0 /\ Fits =>
         /\ Len(pl) = Min({Len(file.lines), MaxPeers})
         /\ \A k \in DOMAIN pl : pl[k] = file.lines[k]
    /\ high # 0 => pl = << >>

(* A line with the address of a peer: its ip, a colon at k, and its port.   *)
IsPeer(l, k) ==
  /\ k \in 2 .. Len(l) - 1 /\ l[k] = Colon
  /\ \A j \in 1 .. k - 1 : l[j] # Colon
  /\ \A j \in k + 1 .. Len(l) : l[j] \in Digit

(* The client connects to the peer of the first line, whatever comes       *)
(* behind it in the file (bt_lib.c:109-141 and bt_client.c:20-27).  Its ip  *)
(* is the one there, and its port the one there with the digits, if any,    *)
(* that lie behind the url in memory, as that has no terminating zero.      *)
ConnectsToFirst ==
  high = 0 /\ Fits /\ file.lines # << >> =>
    LET l == file.lines[1] IN
    \A k \in DOMAIN l : IsPeer(l, k) =>
      /\ pc # "undefined"
      /\ pc = "connected" =>
           \E r \in Residues :
             peer = <<SubSeq(l, 1, k - 1), SubSeq(l, k + 1, Len(l)) \o atoi(r)>>
=============================================================================
