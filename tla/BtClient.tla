------------------------------ MODULE BtClient ------------------------------
(***************************************************************************)
(* btclient: bt_client.c and the protocol functions of bt_lib.c, which     *)
(* fetch pieces from one peer over a TCP connection.                       *)
(*                                                                         *)
(* What the peer sends is one run of bytes, and a byte is its position in  *)
(* it.  The messages in that run are kept as a history, so that it can be  *)
(* said which message a byte is of.  A read takes any number of the bytes  *)
(* that are there: TCP keeps no boundaries.                                *)
(***************************************************************************)
EXTENDS Integers, Sequences

CONSTANTS
  PieceLength, FileLength,  \* metainfo->info
  BlockSize,                \* block_size of get_piece: 16384
  PiecesWanted,             \* bound of the loop in main: 1
  IntRange,                 \* number of values of int
  PeerLeaves                \* may the peer close or reset the connection?

ASSUME BtAssumption ==
  /\ PieceLength \in Nat \ {0}
  /\ FileLength \in Nat
  /\ BlockSize \in Nat \ {0}
  /\ PiecesWanted \in Nat
  /\ IntRange \in Nat /\ IntRange % 2 = 0
  /\ PieceLength + 14 < IntRange \div 2   \* a block and its header are no problem
  /\ PeerLeaves \in BOOLEAN

HANDSHAKE_MSG_LEN == 68
HEADER_LEN        == 5    \* length and type of a message
PIECE_HEADER_LEN  == 13

MinOf(a, b) == IF a <= b THEN a ELSE b

(* The build has no optimisation: an int that overflows wraps around. *)
ToInt(x) == ((x + IntRange \div 2) % IntRange) - IntRange \div 2

num_pieces == (FileLength + PieceLength - 1) \div PieceLength

piece_sizeWithoutMin(p) == IF p >= num_pieces THEN -1 ELSE FileLength - PieceLength * p  \* mutant
piece_size(p) ==
  IF p >= num_pieces THEN -1 ELSE MinOf(FileLength - PieceLength * p, PieceLength)

VARIABLES
  conn,       \* the connection, as the client's kernel sees it
  \* the peer
  outbox,     \* what the client has sent and the peer has not handled
  sent,       \* history: its messages, each with the position of its first byte
  sentLen,    \* bytes it has sent
  interested, choked,
  \* the client
  taken,      \* bytes read from the connection
  pc,
  i,                  \* main: the piece
  left, begin,        \* get_piece: remaining, offset
  remaining, offset,  \* get_block
  blk,                \* where in the stream the block of get_block begins
  piece_buf,
  file                \* what is written to /tmp/file.txt

peer   == <<outbox, sent, sentLen, interested, choked>>
block  == <<remaining, offset, blk>>
vars   == <<conn, peer, taken, pc, i, left, begin, block, piece_buf, file>>

NoByte == -1   \* in memory that was not written since malloc

Fresh == [k \in 0 .. PieceLength - 1 |-> NoByte]

Init ==
  /\ conn = "none"
  /\ outbox = << >>
  /\ sent = << >>
  /\ sentLen = 0
  /\ interested = FALSE
  /\ choked = TRUE
  /\ taken = 0
  /\ pc = "connect"
  /\ i = 0
  /\ left = 0
  /\ begin = 0
  /\ remaining = 0
  /\ offset = 0
  /\ blk = 0
  /\ piece_buf = Fresh
  /\ file = << >>

-----------------------------------------------------------------------------
(* The peer: a seed.  It answers the handshake with its own and a          *)
(* bitfield, unchokes whoever is interested when it likes, and ignores     *)
(* requests until then.                                                    *)

Message(type, at, len, index, start) ==
  [type |-> type, at |-> at, len |-> len, index |-> index, begin |-> start]

BITFIELD_LEN == HEADER_LEN + (num_pieces + 7) \div 8

PeerHandle ==
  /\ conn = "open"
  /\ outbox # << >>
  /\ outbox' = Tail(outbox)
  /\ LET m == Head(outbox) IN
       /\ interested' = (interested \/ m.type = "interested")
       /\ \/ /\ m.type = "handshake"
             /\ sent' = sent \o
                  << Message("handshake", sentLen, HANDSHAKE_MSG_LEN, 0, 0),
                     Message("bitfield", sentLen + HANDSHAKE_MSG_LEN, BITFIELD_LEN, 0, 0) >>
             /\ sentLen' = sentLen + HANDSHAKE_MSG_LEN + BITFIELD_LEN
          \/ /\ m.type = "request" /\ ~choked
             /\ sent' = Append(sent, Message("piece", sentLen, PIECE_HEADER_LEN + m.len,
                                             m.index, m.begin))
             /\ sentLen' = sentLen + PIECE_HEADER_LEN + m.len
          \/ /\ m.type \in {"unchoke", "interested"} \/ (m.type = "request" /\ choked)
             /\ UNCHANGED <<sent, sentLen>>
  /\ UNCHANGED <<conn, choked, taken, pc, i, left, begin, block, piece_buf, file>>

PeerUnchoke ==
  /\ conn = "open"
  /\ interested
  /\ choked
  /\ choked' = FALSE
  /\ sent' = Append(sent, Message("unchoke", sentLen, HEADER_LEN, 0, 0))
  /\ sentLen' = sentLen + HEADER_LEN
  /\ UNCHANGED <<conn, outbox, interested, taken, pc, i, left, begin, block, piece_buf, file>>

PeerLeave ==
  /\ PeerLeaves
  /\ conn = "open"
  /\ conn' \in {"closed", "reset"}
  /\ UNCHANGED <<peer, taken, pc, i, left, begin, block, piece_buf, file>>

-----------------------------------------------------------------------------
(* Sockets. *)

(* Without a connection write returns -1, which nobody looks at; after the *)
(* peer has left it is lost, or SIGPIPE ends the program.                  *)
tcp_send(m, next) ==
  \/ conn = "open" /\ outbox' = Append(outbox, m) /\ pc' = next
  \/ conn = "refused" /\ pc' = next /\ UNCHANGED outbox
  \/ conn \in {"closed", "reset"} /\ pc' \in {next, "killed"} /\ UNCHANGED outbox

(* A read of at most n bytes returns k.  It waits while the connection is  *)
(* open and nothing is there.                                              *)
tcp_recv(n, k) ==
  \/ /\ conn # "refused"
     /\ k \in 1 .. n
     /\ taken + k <= sentLen
     /\ taken' = taken + k
     /\ UNCHANGED conn
  \/ conn = "refused" /\ k = -1 /\ UNCHANGED <<conn, taken>>
  \/ conn = "closed" /\ taken = sentLen /\ k = 0 /\ UNCHANGED <<conn, taken>>
  \/ conn = "reset" /\ taken = sentLen /\ k \in {-1, 0} /\ conn' = "closed" /\ UNCHANGED taken

-----------------------------------------------------------------------------
(* main, up to the first piece.  The results of both reads are ignored. *)

Connect ==
  /\ pc = "connect"
  /\ conn' \in {"open", "refused"}
  /\ pc' = "handshake"
  /\ UNCHANGED <<peer, taken, i, left, begin, block, piece_buf, file>>

ClientMessage == [type : {"handshake", "unchoke", "interested", "request"},
                  index : Nat, begin : Nat, len : Nat]

Request(type, index, start, len) ==
  [type |-> type, index |-> index, begin |-> start, len |-> len]

SendOnly(from, type, next) ==
  /\ pc = from
  /\ tcp_send(Request(type, 0, 0, 0), next)
  /\ UNCHANGED <<conn, sent, sentLen, interested, choked, taken, i, left, begin, block,
                 piece_buf, file>>

ReadOnly(from, n, next) ==
  /\ pc = from
  /\ \E k \in -1 .. n : tcp_recv(n, k)
  /\ pc' = next
  /\ UNCHANGED <<peer, i, left, begin, block, piece_buf, file>>

bt_handshake ==
  \/ SendOnly("handshake", "handshake", "response")
  \/ ReadOnly("response", HANDSHAKE_MSG_LEN, "unchoke")

bt_send_message ==
  \/ SendOnly("unchoke", "unchoke", "interested")
  \/ SendOnly("interested", "interested", "bitfield")

ReadBitfield == ReadOnly("bitfield", num_pieces \div 8 + 1 + HEADER_LEN, "piece")

-----------------------------------------------------------------------------
(* The loop over the pieces, get_piece and get_block. *)

get_piece ==
  /\ pc = "piece"
  /\ i < PiecesWanted
  /\ left' = piece_size(i)
  /\ begin' = 0
  /\ piece_buf' = Fresh
  /\ pc' = IF piece_size(i) > 0 THEN "request" ELSE "write"
  /\ UNCHANGED <<conn, peer, taken, i, block, file>>

ReadSizeWholeBlock == BlockSize  \* mutant
ReadSize == MinOf(left, BlockSize)

RequestBlock ==
  /\ pc = "request"
  /\ tcp_send(Request("request", i, begin, ReadSize), "block")
  /\ remaining' = ReadSize + PIECE_HEADER_LEN
  /\ offset' = 0
  /\ blk' = taken
  /\ UNCHANGED <<conn, sent, sentLen, interested, choked, taken, i, left, begin, piece_buf,
                 file>>

get_blockWholeSize ==  \* mutant: size instead of remaining in tcp_recv
  /\ pc = "block"
  /\ remaining > 0
  /\ \E k \in -1 .. ReadSize + PIECE_HEADER_LEN :
       /\ tcp_recv(ReadSize + PIECE_HEADER_LEN, k)
       /\ remaining' = ToInt(remaining - k)
       /\ offset' = offset + k
  /\ UNCHANGED <<peer, pc, i, left, begin, blk, piece_buf, file>>

(* One turn of the loop of get_block; 0 and -1 count as bytes too. *)
get_block ==
  /\ pc = "block"
  /\ remaining > 0
  /\ \E k \in -1 .. remaining :
       /\ tcp_recv(remaining, k)
       /\ remaining' = ToInt(remaining - k)
       /\ offset' = offset + k
  /\ UNCHANGED <<peer, pc, i, left, begin, blk, piece_buf, file>>

CopyBlockToStart ==  \* mutant: piece_buf instead of piece_buf + offset
  /\ pc = "block"
  /\ remaining <= 0
  /\ piece_buf' = [k \in DOMAIN piece_buf |->
       IF k < ReadSize /\ PIECE_HEADER_LEN + k < offset
         THEN blk + PIECE_HEADER_LEN + k ELSE piece_buf[k]]
  /\ left' = left - ReadSize
  /\ begin' = begin + ReadSize
  /\ pc' = IF left - ReadSize > 0 THEN "request" ELSE "write"
  /\ UNCHANGED <<conn, peer, taken, i, block, file>>

(* The rest of the loop of get_piece: what follows the first 13 bytes of   *)
(* the block, whatever they are.                                           *)
CopyBlock ==
  /\ pc = "block"
  /\ remaining <= 0
  /\ piece_buf' = [k \in DOMAIN piece_buf |->
       IF begin <= k /\ k < begin + ReadSize
         THEN IF PIECE_HEADER_LEN + (k - begin) < offset
                THEN blk + PIECE_HEADER_LEN + (k - begin) ELSE NoByte
         ELSE piece_buf[k]]
  /\ left' = left - ReadSize
  /\ begin' = begin + ReadSize
  /\ pc' = IF left - ReadSize > 0 THEN "request" ELSE "write"
  /\ UNCHANGED <<conn, peer, taken, i, block, file>>

WritePiece ==
  /\ pc = "write"
  /\ file' = file \o [k \in 1 .. piece_size(i) |-> piece_buf[k - 1]]
  /\ i' = i + 1
  /\ pc' = "piece"
  /\ UNCHANGED <<conn, peer, taken, left, begin, block, piece_buf>>

Exit ==
  /\ pc = "piece"
  /\ i >= PiecesWanted
  /\ pc' = "done"
  /\ UNCHANGED <<conn, peer, taken, i, left, begin, block, piece_buf, file>>

-----------------------------------------------------------------------------
ClientStep ==
  \/ Connect \/ bt_handshake \/ bt_send_message \/ ReadBitfield
  \/ get_piece \/ RequestBlock \/ get_block \/ CopyBlock \/ WritePiece \/ Exit

Next == ClientStep \/ PeerHandle \/ PeerUnchoke \/ PeerLeave

Spec == Init /\ [][Next]_vars

(* The client runs, and the peer handles what it gets and unchokes. *)
FairSpec == Spec /\ WF_vars(ClientStep) /\ WF_vars(PeerHandle) /\ WF_vars(PeerUnchoke)

-----------------------------------------------------------------------------
(* What the client and the peer keep is well formed. *)
TypeOK ==
  /\ conn \in {"none", "open", "refused", "closed", "reset"}
  /\ outbox \in Seq(ClientMessage)
  /\ sentLen \in Nat
  /\ interested \in BOOLEAN /\ choked \in BOOLEAN
  /\ taken \in 0 .. sentLen
  /\ pc \in {"connect", "handshake", "response", "unchoke", "interested", "bitfield", "piece",
             "request", "block", "write", "done", "killed"}
  /\ i \in Nat
  /\ left \in -1 .. PieceLength
  /\ begin \in 0 .. PieceLength
  /\ remaining \in Int /\ offset \in Int
  /\ blk \in 0 .. taken
  /\ piece_buf \in [0 .. PieceLength - 1 -> Int]
  /\ file \in Seq(Int)

(***************************************************************************)
(* The reads of get_block stay inside the block, although it also adds up  *)
(* what a failed read returns: once the count is wrong no byte arrives.    *)
(***************************************************************************)
BlockInBounds ==
  pc = "block" =>
    /\ offset <= ReadSize + PIECE_HEADER_LEN
    /\ conn # "refused" /\ taken < sentLen =>
         offset >= 0 /\ offset + remaining = ReadSize + PIECE_HEADER_LEN

(***************************************************************************)
(* The client asks only for bytes that are in the piece, the last piece    *)
(* and its last block included.                                            *)
(***************************************************************************)
RequestsInPiece ==
  \A n \in 1 .. Len(outbox) : outbox[n].type = "request" =>
    /\ outbox[n].index < num_pieces
    /\ outbox[n].len \in 1 .. BlockSize
    /\ outbox[n].begin + outbox[n].len <= piece_size(outbox[n].index)

(***************************************************************************)
(* The file grows by whole pieces and holds, in order, bytes that the peer *)
(* sent, none of them twice; bytes that never came (the connection was     *)
(* refused) are all it can hold otherwise.                                 *)
(***************************************************************************)
FileInOrder ==
  /\ Len(file) = MinOf(i * PieceLength, FileLength)
  /\ conn # "refused" =>
       \A m, n \in 1 .. Len(file) : m < n => 0 <= file[m] /\ file[m] < file[n] /\ file[n] < taken

-----------------------------------------------------------------------------
(***************************************************************************)
(* The inductive invariant of the proofs.  There is no connection before   *)
(* Connect, and what get_piece has and what it wants make up the piece.    *)
(***************************************************************************)
StartInv == pc = "connect" => conn = "none"

PieceInv ==
  /\ pc \in {"request", "block"} => i < num_pieces /\ left > 0 /\ begin + left = piece_size(i)
  /\ pc = "write" /\ piece_size(i) > 0 => i < num_pieces /\ begin = piece_size(i)

(* The counts of get_block are right, or the peer has left and they will   *)
(* not come to their end.                                                  *)
CountInv ==
  pc = "block" =>
    /\ offset <= ReadSize + PIECE_HEADER_LEN
    /\ conn # "refused" =>
         /\ offset + remaining = ReadSize + PIECE_HEADER_LEN
         /\ \/ offset >= 0 /\ remaining >= 0 /\ taken = blk + offset
            \/ conn = "closed" /\ taken = sentLen /\ offset >= -1 /\ remaining > 0

(* What has been copied precedes, in the stream, what will be. *)
Copied == IF pc = "block" THEN blk ELSE taken

OrderInv ==
  conn # "refused" =>
    /\ \A n \in 1 .. Len(file) : 0 <= file[n] /\ file[n] < Copied
    /\ \A m, n \in 1 .. Len(file) : m < n => file[m] < file[n]
    /\ pc \in {"request", "block", "write"} =>
         /\ \A k \in 0 .. begin - 1 : 0 <= piece_buf[k] /\ piece_buf[k] < Copied
         /\ \A k \in 0 .. begin - 1 : \A n \in 1 .. Len(file) : file[n] < piece_buf[k]
         /\ \A j, k \in 0 .. begin - 1 : j < k => piece_buf[j] < piece_buf[k]

LengthInv == Len(file) = MinOf(i * PieceLength, FileLength)

IInv == TypeOK /\ StartInv /\ PieceInv /\ CountInv /\ RequestsInPiece /\ OrderInv /\ LengthInv

-----------------------------------------------------------------------------
(* What comments say. *)

(***************************************************************************)
(* bt_lib.c:352: what get_block gets after a request is the piece message  *)
(* that answers it.                                                        *)
(***************************************************************************)
BlockIsResponse ==
  pc = "block" /\ remaining <= 0 /\ conn # "refused" =>
    \E n \in 1 .. Len(sent) :
      /\ sent[n].type = "piece" /\ sent[n].at = blk
      /\ sent[n].index = i /\ sent[n].begin = begin

(***************************************************************************)
(* bt_client.c:48: the unchoke message is handled.  A peer that unchokes   *)
(* and answers what it then gets lets the client come to its end.          *)
(***************************************************************************)
ClientEnds == <>(pc = "done")
=============================================================================
