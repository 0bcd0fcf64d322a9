--------------------------- MODULE BtClientProofs ---------------------------
(***************************************************************************)
(* Proofs about BtClient, for every torrent and block size and for every   *)
(* way TCP may cut the stream.                                             *)
(***************************************************************************)
EXTENDS BtClient, TLAPS

-----------------------------------------------------------------------------
(* Arithmetic. *)

LEMMA Quotient ==
  ASSUME NEW a \in Nat, NEW b \in Nat \ {0}
  PROVE  /\ a \div b \in Nat
         /\ a % b \in 0 .. b - 1
         /\ a = b * (a \div b) + (a % b)
OBVIOUS

LEMMA Multiples ==
  ASSUME NEW p \in Int, NEW q \in Int, NEW b \in Nat \ {0}, p < q
  PROVE  p * b + b <= q * b
OBVIOUS

(* The pieces cover the file. *)
LEMMA PieceCount ==
  /\ num_pieces \in Nat
  /\ FileLength <= num_pieces * PieceLength
  /\ num_pieces * PieceLength < FileLength + PieceLength
<1> DEFINE a == FileLength + PieceLength - 1
           n == a \div PieceLength
           r == a % PieceLength
<1>1. a \in Nat /\ PieceLength \in Nat \ {0} /\ FileLength \in Nat
  BY BtAssumption
<1>2. n \in Nat /\ r \in 0 .. PieceLength - 1 /\ a = PieceLength * n + r
  <2> HIDE DEF a
  <2> QED
    BY <1>1, Quotient
<1>3. num_pieces = n
  BY DEF num_pieces
<1> HIDE DEF n, r
<1>4. QED
  BY <1>1, <1>2, <1>3

(* What is left of the file is left to the pieces from p on. *)
LEMMA PieceSizes ==
  ASSUME NEW p \in Nat
  PROVE  /\ piece_size(p) \in -1 .. PieceLength
         /\ p < num_pieces => piece_size(p) > 0
         /\ p >= num_pieces => piece_size(p) = -1
         /\ MinOf(p * PieceLength, FileLength) \in Nat
         /\ piece_size(p) > 0 =>
              MinOf((p + 1) * PieceLength, FileLength)
                = MinOf(p * PieceLength, FileLength) + piece_size(p)
         /\ piece_size(p) <= 0 =>
              MinOf((p + 1) * PieceLength, FileLength) = MinOf(p * PieceLength, FileLength)
<1>1. PieceLength \in Nat \ {0} /\ FileLength \in Nat
  BY BtAssumption
<1> DEFINE s == p * PieceLength
<1>2. s \in Nat /\ (p + 1) * PieceLength = s + PieceLength /\ PieceLength * p = s
  BY <1>1
<1>3. p < num_pieces => s < FileLength
  BY <1>1, PieceCount, Multiples
<1>4. p >= num_pieces => s >= FileLength
  BY <1>1, PieceCount, Multiples
<1> HIDE DEF s
<1>5. CASE p < num_pieces
  <2>1. piece_size(p) = MinOf(FileLength - s, PieceLength)
    BY <1>2, <1>5, PieceCount DEF piece_size
  <2>2. QED
    BY <1>1, <1>2, <1>3, <1>5, <2>1, PieceCount DEF MinOf, s
<1>6. CASE p >= num_pieces
  <2>1. piece_size(p) = -1
    BY <1>6 DEF piece_size
  <2>2. QED
    BY <1>1, <1>2, <1>4, <1>6, <2>1, PieceCount DEF MinOf, s
<1>7. QED
  BY <1>5, <1>6, PieceCount

LEMMA SmallInt ==
  ASSUME NEW x \in Nat
  PROVE  /\ ToInt(x) \in Int
         /\ x < IntRange \div 2 => ToInt(x) = x
<1> DEFINE h == IntRange \div 2
           q == (x + h) \div IntRange
           r == (x + h) % IntRange
<1>1. h \in Nat \ {0} /\ IntRange = 2 * h /\ IntRange \in Nat \ {0}
  BY BtAssumption
<1>2. q \in Nat /\ r \in 0 .. IntRange - 1 /\ x + h = IntRange * q + r
  <2>1. x + h \in Nat
    BY <1>1
  <2> HIDE DEF h
  <2>2. QED
    BY <1>1, <2>1, Quotient
<1>3. ToInt(x) = r - h
  BY DEF ToInt
<1> HIDE DEF h, q, r
<1>4. x < h => q = 0
  BY <1>1, <1>2, Multiples
<1>5. QED
  BY <1>1, <1>2, <1>3, <1>4 DEF h

(* What comes of putting a sequence behind another. *)
LEMMA Joined ==
  ASSUME NEW s \in Seq(Int), NEW n \in Nat, NEW g \in [1 .. n -> Int]
  PROVE  /\ s \o g \in Seq(Int)
         /\ Len(s) \in Nat /\ Len(s \o g) = Len(s) + n
         /\ \A k \in 1 .. Len(s) : (s \o g)[k] = s[k]
         /\ \A k \in Len(s) + 1 .. Len(s) + n : (s \o g)[k] = g[k - Len(s)]
<1>1. g \in Seq(Int) /\ Len(g) = n
  OBVIOUS
<1>2. QED
  BY <1>1

-----------------------------------------------------------------------------
(* The parts of a step. *)

LEMMA ReadSizes ==
  ASSUME TypeOK, left > 0
  PROVE  ReadSize \in 1 .. BlockSize /\ ReadSize <= left
BY BtAssumption DEF ReadSize, MinOf, TypeOK

(* What a read does to the connection. *)
LEMMA Received ==
  ASSUME TypeOK, NEW n \in Int, NEW k \in Int, tcp_recv(n, k), sentLen' = sentLen
  PROVE  /\ taken' \in taken .. sentLen
         /\ conn' \in {"none", "open", "refused", "closed", "reset"}
         /\ conn' = "refused" <=> conn = "refused"
         /\ \/ k > 0 /\ k <= n /\ taken' = taken + k /\ conn # "refused" /\ conn' = conn
            \/ k = -1 /\ conn = "refused"
            \/ k = 0 /\ taken' = taken /\ (conn = "closed" \/ conn' = "closed")
            \/ k = -1 /\ taken' = taken /\ taken = sentLen /\ conn' = "closed"
BY DEF tcp_recv, TypeOK

(* What a write does to the peer's queue. *)
LEMMA Sending ==
  ASSUME TypeOK, NEW m, NEW next, tcp_send(m, next)
  PROVE  /\ outbox' \in {outbox, Append(outbox, m)}
         /\ pc' \in {next, "killed"}
BY DEF tcp_send

LEMMA BtInit == Init => IInv
<1> SUFFICES ASSUME Init
             PROVE  IInv
  OBVIOUS
<1>1. PieceLength \in Nat \ {0} /\ FileLength \in Nat
  BY BtAssumption
<1>2. TypeOK
  <2>1. outbox \in Seq(ClientMessage)
    BY DEF Init
  <2>2. piece_buf \in [0 .. PieceLength - 1 -> Int]
    BY DEF Init, Fresh, NoByte
  <2>3. taken \in 0 .. sentLen /\ blk \in 0 .. taken
    BY DEF Init
  <2>4. left \in -1 .. PieceLength /\ begin \in 0 .. PieceLength
    BY <1>1 DEF Init
  <2>5. file \in Seq(Int)
    BY DEF Init
  <2>6. interested \in BOOLEAN /\ choked \in BOOLEAN
    BY DEF Init
  <2>7. sentLen \in Nat /\ i \in Nat /\ remaining \in Int /\ offset \in Int
    BY DEF Init
  <2>8. QED
    BY <2>1, <2>2, <2>3, <2>4, <2>5, <2>6, <2>7 DEF Init, TypeOK
<1>3. StartInv /\ PieceInv /\ CountInv /\ RequestsInPiece
  BY DEF Init, StartInv, PieceInv, CountInv, RequestsInPiece
<1>4. OrderInv
  BY DEF Init, OrderInv, Copied
<1>5. LengthInv
  BY <1>1 DEF Init, LengthInv, MinOf
<1>6. QED
  BY <1>2, <1>3, <1>4, <1>5 DEF IInv

-----------------------------------------------------------------------------
(* Each part of the invariant is kept. *)

LEMMA BtTypeStep == IInv /\ [Next]_vars => TypeOK'
<1> SUFFICES ASSUME TypeOK, PieceInv, [Next]_vars
             PROVE  TypeOK'
  BY DEF IInv
<1>1. CASE UNCHANGED vars
  BY <1>1 DEF TypeOK, vars, peer, block
<1>2. CASE PeerHandle
  <2>0. outbox \in Seq(ClientMessage) /\ outbox # << >> /\ outbox' = Tail(outbox)
    BY <1>2 DEF PeerHandle, TypeOK
  <2>1. outbox' \in Seq(ClientMessage)
    BY <2>0
  <2>2. Head(outbox) \in ClientMessage
    BY <2>0
  <2>3. sentLen' \in Nat /\ sentLen' >= sentLen
    <3>1. BITFIELD_LEN \in Nat
      <4>1. (num_pieces + 7) \div 8 \in Nat
        BY PieceCount, Quotient
      <4>2. QED
        BY <4>1 DEF BITFIELD_LEN, HEADER_LEN
    <3>2. Head(outbox).len \in Nat /\ sentLen \in Nat
      BY <2>2 DEF ClientMessage, TypeOK
    <3>3. \/ sentLen' = sentLen
          \/ sentLen' = sentLen + HANDSHAKE_MSG_LEN + BITFIELD_LEN
          \/ sentLen' = sentLen + PIECE_HEADER_LEN + Head(outbox).len
      BY <1>2 DEF PeerHandle
    <3>4. QED
      BY <3>1, <3>2, <3>3 DEF HANDSHAKE_MSG_LEN, PIECE_HEADER_LEN
  <2>4. taken' \in 0 .. sentLen'
    BY <1>2, <2>3 DEF PeerHandle, TypeOK
  <2>5. interested' \in BOOLEAN
    BY <1>2 DEF PeerHandle
  <2>6. QED
    BY <1>2, <2>1, <2>3, <2>4, <2>5 DEF PeerHandle, TypeOK, block
<1>3. CASE PeerUnchoke
  <2>1. sentLen' \in Nat /\ taken' \in 0 .. sentLen'
    BY <1>3 DEF PeerUnchoke, TypeOK, HEADER_LEN
  <2>2. QED
    BY <1>3, <2>1 DEF PeerUnchoke, TypeOK, block
<1>4. CASE PeerLeave
  BY <1>4 DEF PeerLeave, TypeOK, peer, block
<1>5. CASE Connect
  BY <1>5 DEF Connect, TypeOK, peer, block
<1>6. ASSUME NEW from, NEW type \in {"handshake", "unchoke", "interested"},
             NEW next \in {"response", "interested", "bitfield"}, SendOnly(from, type, next)
      PROVE  TypeOK'
  <2>1. Request(type, 0, 0, 0) \in ClientMessage
    BY DEF Request, ClientMessage
  <2>2. tcp_send(Request(type, 0, 0, 0), next)
    BY <1>6 DEF SendOnly
  <2>3. outbox' \in {outbox, Append(outbox, Request(type, 0, 0, 0))} /\ pc' \in {next, "killed"}
    BY <2>2, Sending
  <2>4. outbox' \in Seq(ClientMessage)
    <3>1. outbox \in Seq(ClientMessage)
      BY DEF TypeOK
    <3>2. QED
      BY <2>1, <2>3, <3>1
  <2>5. QED
    BY <1>6, <2>3, <2>4 DEF SendOnly, TypeOK, block
<1>7. ASSUME NEW from, NEW n \in Int, NEW next \in {"unchoke", "piece"}, ReadOnly(from, n, next)
      PROVE  TypeOK'
  <2>1. PICK k \in -1 .. n : tcp_recv(n, k)
    BY <1>7 DEF ReadOnly
  <2>2. UNCHANGED <<peer, i, left, begin, block, piece_buf, file>> /\ pc' = next
    BY <1>7 DEF ReadOnly
  <2>3. taken' \in taken .. sentLen /\ conn' \in {"none", "open", "refused", "closed", "reset"}
    BY <2>1, <2>2, Received DEF peer
  <2>4. taken' \in 0 .. sentLen' /\ blk' \in 0 .. taken'
    BY <2>2, <2>3 DEF TypeOK, peer, block
  <2>5. QED
    BY <2>2, <2>3, <2>4 DEF TypeOK, peer, block
<1>8. CASE get_piece
  <2>1. piece_size(i) \in -1 .. PieceLength
    BY PieceSizes DEF TypeOK
  <2>2. piece_buf' \in [0 .. PieceLength - 1 -> Int]
    BY <1>8 DEF get_piece, Fresh, NoByte
  <2>3. begin' \in 0 .. PieceLength
    BY <1>8, BtAssumption DEF get_piece
  <2>4. QED
    BY <1>8, <2>1, <2>2, <2>3 DEF get_piece, TypeOK, peer, block
<1>9. CASE RequestBlock
  <2>1. ReadSize \in Nat /\ left > 0
    BY <1>9, ReadSizes, BtAssumption DEF RequestBlock, PieceInv
  <2>2. Request("request", i, begin, ReadSize) \in ClientMessage
    BY <2>1 DEF Request, ClientMessage, TypeOK
  <2>3. tcp_send(Request("request", i, begin, ReadSize), "block")
    BY <1>9 DEF RequestBlock
  <2>4. outbox' \in {outbox, Append(outbox, Request("request", i, begin, ReadSize))}
        /\ pc' \in {"block", "killed"}
    BY <2>3, Sending
  <2>5. outbox' \in Seq(ClientMessage)
    <3>1. outbox \in Seq(ClientMessage)
      BY DEF TypeOK
    <3>2. QED
      BY <2>2, <2>4, <3>1
  <2>6. remaining' \in Int /\ offset' \in Int /\ blk' \in 0 .. taken'
    BY <1>9, <2>1 DEF RequestBlock, TypeOK, PIECE_HEADER_LEN
  <2>7. QED
    BY <1>9, <2>4, <2>5, <2>6 DEF RequestBlock, TypeOK
<1>10. CASE get_block
  <2>1. PICK k \in -1 .. remaining : /\ tcp_recv(remaining, k)
                                     /\ remaining' = ToInt(remaining - k)
                                     /\ offset' = offset + k
    BY <1>10 DEF get_block
  <2>2. UNCHANGED <<peer, pc, i, left, begin, blk, piece_buf, file>> /\ remaining > 0
    BY <1>10 DEF get_block
  <2>3. taken' \in taken .. sentLen /\ conn' \in {"none", "open", "refused", "closed", "reset"}
    BY <2>1, <2>2, Received DEF peer, TypeOK
  <2>4. taken' \in 0 .. sentLen' /\ blk' \in 0 .. taken'
    BY <2>2, <2>3 DEF TypeOK, peer
  <2>5. remaining' \in Int /\ offset' \in Int
    <3>1. remaining - k \in Nat
      BY <2>1, <2>2 DEF TypeOK
    <3>2. QED
      BY <2>1, <3>1, SmallInt DEF TypeOK
  <2>6. QED
    BY <2>2, <2>3, <2>4, <2>5 DEF TypeOK, peer
<1>11. CASE CopyBlock
  <2>1. left > 0 /\ begin + left = piece_size(i) /\ piece_size(i) \in -1 .. PieceLength
    BY <1>11, PieceSizes DEF CopyBlock, PieceInv, TypeOK
  <2>2. ReadSize \in 1 .. BlockSize /\ ReadSize <= left
    BY <2>1, ReadSizes
  <2>3. left' \in -1 .. PieceLength /\ begin' \in 0 .. PieceLength
    BY <1>11, <2>1, <2>2, BtAssumption DEF CopyBlock, TypeOK
  <2>4. piece_buf' \in [0 .. PieceLength - 1 -> Int]
    <3>1. DOMAIN piece_buf = 0 .. PieceLength - 1
          /\ \A k \in 0 .. PieceLength - 1 : piece_buf[k] \in Int
      BY DEF TypeOK
    <3>2. \A k \in 0 .. PieceLength - 1 : blk + PIECE_HEADER_LEN + (k - begin) \in Int
      BY DEF TypeOK, PIECE_HEADER_LEN
    <3>3. QED
      BY <1>11, <3>1, <3>2 DEF CopyBlock, NoByte
  <2>5. QED
    BY <1>11, <2>3, <2>4 DEF CopyBlock, TypeOK, peer, block
<1>12. CASE WritePiece
  <2>1. piece_size(i) \in -1 .. PieceLength
    BY PieceSizes DEF TypeOK
  <2>2. [k \in 1 .. piece_size(i) |-> piece_buf[k - 1]] \in Seq(Int)
    <3> DEFINE n == IF piece_size(i) > 0 THEN piece_size(i) ELSE 0
    <3>1. n \in Nat /\ 1 .. piece_size(i) = 1 .. n
      BY <2>1, BtAssumption
    <3>2. \A k \in 1 .. n : piece_buf[k - 1] \in Int
      BY <2>1, BtAssumption DEF TypeOK
    <3>3. QED
      BY <3>1, <3>2
  <2>3. file' \in Seq(Int) /\ i' \in Nat
    <3> DEFINE new == [k \in 1 .. piece_size(i) |-> piece_buf[k - 1]]
    <3>1. file \in Seq(Int) /\ i \in Nat
      BY DEF TypeOK
    <3>2. file' = file \o new /\ i' = i + 1
      BY <1>12 DEF WritePiece
    <3> HIDE DEF new
    <3>3. new \in Seq(Int)
      BY <2>2 DEF new
    <3>4. QED
      BY <3>1, <3>2, <3>3
  <2>4. QED
    BY <1>12, <2>3 DEF WritePiece, TypeOK, peer, block
<1>13. CASE Exit
  BY <1>13 DEF Exit, TypeOK, peer, block
<1>14. CASE bt_handshake
  BY <1>6, <1>7, <1>14 DEF bt_handshake, HANDSHAKE_MSG_LEN
<1>15. CASE bt_send_message
  BY <1>6, <1>15 DEF bt_send_message
<1>16. CASE ReadBitfield
  <2>1. num_pieces \div 8 + 1 + HEADER_LEN \in Int
    BY PieceCount, Quotient DEF HEADER_LEN
  <2>2. QED
    BY <1>7, <1>16, <2>1 DEF ReadBitfield
<1>17. QED
  BY <1>1, <1>2, <1>3, <1>4, <1>5, <1>8, <1>9, <1>10, <1>11, <1>12, <1>13, <1>14, <1>15, <1>16
     DEF Next, ClientStep

(* All steps but those of get_piece and get_block leave the piece alone. *)
LEMMA OtherSteps ==
  ASSUME TypeOK, StartInv, [Next]_vars,
         ~get_piece, ~RequestBlock, ~get_block, ~CopyBlock, ~WritePiece
  PROVE  /\ UNCHANGED <<i, left, begin, remaining, offset, blk, piece_buf, file>>
         /\ taken <= taken'
         /\ \/ pc' = pc
            \/ /\ pc \notin {"request", "block", "write"}
               /\ pc' \notin {"request", "block", "write"}
         /\ conn' # "refused" => conn # "refused"
         /\ pc = "block" => /\ taken' = taken /\ (conn' = "refused" <=> conn = "refused")
                            /\ conn = "closed" => conn' = conn /\ sentLen' = sentLen
<1>0. taken \in Nat
  BY DEF TypeOK
<1>1. CASE UNCHANGED vars
  BY <1>0, <1>1 DEF vars, peer, block
<1>2. CASE PeerHandle \/ PeerUnchoke \/ PeerLeave
  BY <1>0, <1>2 DEF PeerHandle, PeerUnchoke, PeerLeave, peer, block
<1>3. CASE Connect \/ Exit
  BY <1>0, <1>3 DEF Connect, Exit, peer, block, StartInv
<1>4. ASSUME NEW from \in {"handshake", "unchoke", "interested"}, NEW type,
             NEW next \in {"response", "interested", "bitfield"}, SendOnly(from, type, next)
      PROVE  /\ UNCHANGED <<i, left, begin, remaining, offset, blk, piece_buf, file>>
             /\ taken <= taken' /\ conn' = conn
             /\ pc = from /\ pc' \in {"response", "interested", "bitfield", "killed"}
  <2>1. pc' \in {next, "killed"}
    BY <1>4, Sending DEF SendOnly
  <2>2. QED
    BY <1>0, <1>4, <2>1 DEF SendOnly, block
<1>5. ASSUME NEW from \in {"response", "bitfield"}, NEW n \in Int,
             NEW next \in {"unchoke", "piece"}, ReadOnly(from, n, next)
      PROVE  /\ UNCHANGED <<i, left, begin, remaining, offset, blk, piece_buf, file>>
             /\ taken <= taken' /\ (conn' = "refused" <=> conn = "refused")
             /\ pc = from /\ pc' = next
  <2>1. PICK k \in -1 .. n : tcp_recv(n, k)
    BY <1>5 DEF ReadOnly
  <2>2. UNCHANGED <<peer, i, left, begin, block, piece_buf, file>> /\ pc = from /\ pc' = next
    BY <1>5 DEF ReadOnly
  <2>3. taken' \in taken .. sentLen /\ (conn' = "refused" <=> conn = "refused")
    BY <2>1, <2>2, Received DEF peer
  <2>4. QED
    BY <1>0, <2>2, <2>3 DEF block, TypeOK
<1>6. CASE bt_handshake \/ bt_send_message
  <2>1. HANDSHAKE_MSG_LEN \in Int
    BY DEF HANDSHAKE_MSG_LEN
  <2>2. QED
    BY <1>4, <1>5, <1>6, <2>1 DEF bt_handshake, bt_send_message
<1>7. CASE ReadBitfield
  <2>1. num_pieces \div 8 + 1 + HEADER_LEN \in Int
    BY PieceCount, Quotient DEF HEADER_LEN
  <2>2. QED
    BY <1>5, <1>7, <2>1 DEF ReadBitfield
<1>8. QED
  BY <1>1, <1>2, <1>3, <1>6, <1>7 DEF Next, ClientStep

LEMMA StartStep == IInv /\ [Next]_vars => StartInv'
<1> SUFFICES ASSUME TypeOK, StartInv, [Next]_vars, pc' = "connect"
             PROVE  conn' = "none"
  BY DEF IInv, StartInv
<1>1. ~ClientStep
  <2>1. ASSUME NEW from, NEW type, NEW next \in {"response", "interested", "bitfield"}
        PROVE  ~SendOnly(from, type, next)
    BY Sending DEF SendOnly
  <2>2. QED
    BY <2>1 DEF ClientStep, Connect, bt_handshake, bt_send_message, ReadBitfield, ReadOnly,
       get_piece, RequestBlock, tcp_send, get_block, CopyBlock, WritePiece, Exit
<1>2. QED
  BY <1>1 DEF Next, PeerHandle, PeerUnchoke, PeerLeave, StartInv, vars

LEMMA PieceStep == IInv /\ [Next]_vars => PieceInv'
<1> SUFFICES ASSUME TypeOK, StartInv, PieceInv, [Next]_vars
             PROVE  PieceInv'
  BY DEF IInv
<1>1. CASE get_piece
  BY <1>1, PieceSizes, PieceCount DEF get_piece, PieceInv, TypeOK, piece_size
<1>2. CASE RequestBlock
  <2>1. pc' \in {"block", "killed"}
    BY <1>2, Sending DEF RequestBlock
  <2>2. QED
    BY <1>2, <2>1 DEF RequestBlock, PieceInv, piece_size
<1>3. CASE get_block
  BY <1>3 DEF get_block, PieceInv, piece_size
<1>4. CASE CopyBlock
  <2>1. left > 0 /\ begin + left = piece_size(i) /\ i < num_pieces /\ i \in Nat
    BY <1>4 DEF CopyBlock, PieceInv, TypeOK
  <2>2. ReadSize \in 1 .. BlockSize /\ ReadSize <= left
    BY <2>1, ReadSizes
  <2>3. /\ left' = left - ReadSize /\ begin' = begin + ReadSize /\ i' = i
        /\ pc' = IF left - ReadSize > 0 THEN "request" ELSE "write"
    BY <1>4 DEF CopyBlock
  <2>4. left \in Int /\ begin \in Int /\ ReadSize \in Int /\ piece_size(i) \in Int
    BY <2>1, <2>2, PieceSizes, BtAssumption DEF TypeOK
  <2>5. piece_size(i)' = piece_size(i)
    BY <2>3 DEF piece_size
  <2>6. CASE left - ReadSize > 0
    BY <2>1, <2>3, <2>4, <2>5, <2>6 DEF PieceInv
  <2>7. CASE ~(left - ReadSize > 0)
    BY <2>1, <2>2, <2>3, <2>4, <2>5, <2>7 DEF PieceInv
  <2>8. QED
    BY <2>6, <2>7
<1>5. CASE WritePiece
  BY <1>5 DEF WritePiece, PieceInv
<1>6. CASE ~get_piece /\ ~RequestBlock /\ ~get_block /\ ~CopyBlock /\ ~WritePiece
  BY <1>6, OtherSteps DEF PieceInv, piece_size
<1>7. QED
  BY <1>1, <1>2, <1>3, <1>4, <1>5, <1>6

LEMMA CountStep == IInv /\ [Next]_vars => CountInv'
<1> SUFFICES ASSUME TypeOK, StartInv, PieceInv, CountInv, [Next]_vars
             PROVE  CountInv'
  BY DEF IInv
<1>1. CASE get_piece \/ CopyBlock \/ WritePiece
  BY <1>1 DEF get_piece, CopyBlock, WritePiece, CountInv
<1>2. CASE RequestBlock
  <2>1. ReadSize \in Nat
    BY <1>2, ReadSizes, BtAssumption DEF RequestBlock, PieceInv
  <2>2. ReadSize' = ReadSize
    BY <1>2 DEF RequestBlock, ReadSize
  <2>3. offset' = 0 /\ remaining' = ReadSize + PIECE_HEADER_LEN /\ blk' = taken /\ taken' = taken
    BY <1>2 DEF RequestBlock
  <2>4. taken \in Nat
    BY DEF TypeOK
  <2>5. QED
    BY <2>1, <2>2, <2>3, <2>4 DEF CountInv, PIECE_HEADER_LEN
<1>3. CASE get_block
  <2>1. PICK k \in -1 .. remaining : /\ tcp_recv(remaining, k)
                                     /\ remaining' = ToInt(remaining - k)
                                     /\ offset' = offset + k
    BY <1>3 DEF get_block
  <2>2. /\ UNCHANGED <<peer, pc, i, left, begin, blk, piece_buf, file>>
        /\ remaining > 0 /\ pc = "block" /\ left > 0
    BY <1>3 DEF get_block, PieceInv
  <2>3. sentLen' = sentLen
    BY <2>2 DEF peer
  <2>4. /\ ReadSize \in Nat /\ ReadSize <= PieceLength /\ PieceLength \in Nat
        /\ remaining \in Int /\ offset \in Int /\ taken \in Nat /\ sentLen \in Nat /\ blk \in Nat
    BY <2>2, ReadSizes, BtAssumption DEF TypeOK
  <2>5. /\ conn' = "refused" <=> conn = "refused"
        /\ \/ k > 0 /\ k <= remaining /\ taken' = taken + k /\ conn # "refused" /\ conn' = conn
              /\ taken' <= sentLen
           \/ k = -1 /\ conn = "refused"
           \/ k = 0 /\ taken' = taken /\ (conn = "closed" \/ conn' = "closed")
           \/ k = -1 /\ taken' = taken /\ taken = sentLen /\ conn' = "closed"
    <3>1. taken' \in taken .. sentLen
      BY <2>1, <2>3, <2>4, Received
    <3>2. QED
      BY <2>1, <2>3, <2>4, <3>1, Received
  <2>6. ReadSize' = ReadSize
    BY <2>2 DEF ReadSize
  <2>7. offset <= ReadSize + PIECE_HEADER_LEN
    BY <2>2 DEF CountInv
  <2>8. CASE conn = "refused"
    <3>1. k = -1
      BY <2>5, <2>8
    <3>2. QED
      BY <2>1, <2>4, <2>5, <2>6, <2>7, <2>8, <3>1 DEF CountInv, PIECE_HEADER_LEN
  <2>9. CASE conn # "refused"
    <3>1. /\ offset + remaining = ReadSize + PIECE_HEADER_LEN
          /\ \/ offset >= 0 /\ remaining >= 0 /\ taken = blk + offset
             \/ conn = "closed" /\ taken = sentLen /\ offset >= -1 /\ remaining > 0
      BY <2>2, <2>9 DEF CountInv
    <3>2. k = -1 => offset >= 0
      <4>1. k = -1 => conn = "reset"
        BY <2>1, <2>9 DEF tcp_recv
      <4>2. QED
        BY <3>1, <4>1
    <3>3. remaining - k \in Nat /\ remaining - k < IntRange \div 2
      BY <2>1, <2>2, <2>4, <3>1, <3>2, BtAssumption DEF PIECE_HEADER_LEN
    <3>4. remaining' = remaining - k
      BY <2>1, <3>3, SmallInt
    <3>5. UNCHANGED <<pc, blk>>
      BY <2>2
    <3>6. CASE k > 0
      BY <2>1, <2>2, <2>3, <2>4, <2>5, <2>6, <3>1, <3>4, <3>5, <3>6 DEF CountInv, PIECE_HEADER_LEN
    <3>7. CASE k = 0
      <4>1. taken' = taken /\ offset' = offset /\ remaining' = remaining
            /\ (conn = "closed" => conn' = "closed")
        BY <2>1, <2>4, <2>9, <3>4, <3>7 DEF tcp_recv
      <4>2. QED
        BY <2>2, <2>3, <2>4, <2>6, <2>7, <3>1, <3>5, <4>1 DEF CountInv
    <3>8. CASE k = -1
      BY <2>1, <2>2, <2>3, <2>4, <2>5, <2>6, <2>9, <3>1, <3>2, <3>4, <3>5, <3>8
         DEF CountInv, PIECE_HEADER_LEN
    <3>9. QED
      BY <2>1, <3>6, <3>7, <3>8
  <2>10. QED
    BY <2>8, <2>9
<1>4. CASE ~get_piece /\ ~RequestBlock /\ ~get_block /\ ~CopyBlock /\ ~WritePiece
  BY <1>4, OtherSteps DEF CountInv, ReadSize
<1>5. QED
  BY <1>1, <1>2, <1>3, <1>4

LEMMA RequestsStep == IInv /\ [Next]_vars => RequestsInPiece'
<1> SUFFICES ASSUME TypeOK, StartInv, PieceInv, RequestsInPiece, [Next]_vars
             PROVE  RequestsInPiece'
  BY DEF IInv
<1> DEFINE Good(m) == m.type = "request" =>
                        /\ m.index < num_pieces
                        /\ m.len \in 1 .. BlockSize
                        /\ m.begin + m.len <= piece_size(m.index)
<1>1. outbox \in Seq(ClientMessage) /\ \A n \in 1 .. Len(outbox) : Good(outbox[n])
  BY DEF TypeOK, RequestsInPiece
<1>2. ASSUME NEW q \in Seq(ClientMessage), outbox' = q, \A n \in 1 .. Len(q) : Good(q[n])
      PROVE  RequestsInPiece'
  BY <1>2 DEF RequestsInPiece, piece_size
<1> HIDE DEF Good
<1>3. ASSUME NEW m \in ClientMessage, NEW next, tcp_send(m, next), Good(m)
      PROVE  RequestsInPiece'
  <2>1. outbox' = outbox \/ outbox' = Append(outbox, m)
    BY <1>3, Sending
  <2>2. CASE outbox' = outbox
    BY <1>1, <1>2, <2>2
  <2>3. CASE outbox' = Append(outbox, m)
    <3>1. Append(outbox, m) \in Seq(ClientMessage)
      BY <1>1
    <3>2. \A n \in 1 .. Len(Append(outbox, m)) : Good(Append(outbox, m)[n])
      BY <1>1, <1>3
    <3>3. QED
      BY <1>2, <2>3, <3>1, <3>2
  <2>4. QED
    BY <2>1, <2>2, <2>3
<1>4. CASE PeerHandle
  <2>1. outbox # << >> /\ outbox' = Tail(outbox)
    BY <1>4 DEF PeerHandle
  <2>2. Tail(outbox) \in Seq(ClientMessage)
        /\ \A n \in 1 .. Len(Tail(outbox)) : Tail(outbox)[n] = outbox[n + 1] /\ n + 1 \in 1 .. Len(outbox)
    BY <1>1, <2>1
  <2>3. QED
    BY <1>1, <1>2, <2>1, <2>2
<1>5. ASSUME NEW from, NEW type \in {"handshake", "unchoke", "interested"}, NEW next,
             SendOnly(from, type, next)
      PROVE  RequestsInPiece'
  <2>1. Request(type, 0, 0, 0) \in ClientMessage /\ Good(Request(type, 0, 0, 0))
    BY DEF Request, ClientMessage, Good
  <2>2. QED
    BY <1>3, <1>5, <2>1 DEF SendOnly
<1>6. CASE RequestBlock
  <2>1. i < num_pieces /\ left > 0 /\ begin + left = piece_size(i)
    BY <1>6 DEF RequestBlock, PieceInv
  <2>2. ReadSize \in 1 .. BlockSize /\ ReadSize <= left
    BY <2>1, ReadSizes
  <2>3. Request("request", i, begin, ReadSize) \in ClientMessage
    BY <2>2, BtAssumption DEF Request, ClientMessage, TypeOK
  <2>4. begin + ReadSize <= piece_size(i)
    BY <2>1, <2>2, BtAssumption DEF TypeOK
  <2>5. Good(Request("request", i, begin, ReadSize))
    BY <2>1, <2>2, <2>4 DEF Request, Good
  <2>6. QED
    BY <1>3, <1>6, <2>3, <2>5 DEF RequestBlock
<1>7. CASE bt_handshake
  BY <1>1, <1>2, <1>5, <1>7 DEF bt_handshake, ReadOnly, peer
<1>8. CASE bt_send_message
  BY <1>5, <1>8 DEF bt_send_message
<1>9. CASE UNCHANGED vars \/ PeerUnchoke \/ PeerLeave \/ Connect \/ ReadBitfield \/ get_piece
           \/ get_block \/ CopyBlock \/ WritePiece \/ Exit
  <2>1. outbox' = outbox
    BY <1>9 DEF vars, peer, PeerUnchoke, PeerLeave, Connect, ReadBitfield, ReadOnly, get_piece,
       get_block, CopyBlock, WritePiece, Exit
  <2>2. QED
    BY <1>1, <1>2, <2>1
<1>10. QED
  BY <1>4, <1>6, <1>7, <1>8, <1>9 DEF Next, ClientStep

LEMMA LengthStep == IInv /\ [Next]_vars => LengthInv'
<1> SUFFICES ASSUME TypeOK, StartInv, LengthInv, [Next]_vars
             PROVE  LengthInv'
  BY DEF IInv
<1>1. CASE WritePiece
  <2> DEFINE n == IF piece_size(i) > 0 THEN piece_size(i) ELSE 0
             new == [k \in 1 .. n |-> piece_buf[k - 1]]
  <2>1. i \in Nat /\ piece_size(i) \in -1 .. PieceLength /\ PieceLength \in Nat
    BY PieceSizes, BtAssumption DEF TypeOK
  <2>2. n \in Nat /\ 1 .. piece_size(i) = 1 .. n
    BY <2>1
  <2>3. new \in [1 .. n -> Int]
    BY <2>1 DEF TypeOK
  <2>4. file' = file \o new /\ i' = i + 1 /\ file \in Seq(Int)
    BY <1>1, <2>2 DEF WritePiece, TypeOK
  <2>5. Len(file') = Len(file) + n
    <3> HIDE DEF n, new
    <3>1. Len(file \o new) = Len(file) + n
      BY <2>2, <2>3, <2>4, Joined
    <3>2. QED
      BY <2>4, <3>1
  <2>6. MinOf((i + 1) * PieceLength, FileLength) = MinOf(i * PieceLength, FileLength) + n
    BY <2>1, PieceSizes
  <2>7. QED
    BY <2>4, <2>5, <2>6 DEF LengthInv
<1>2. CASE get_piece \/ RequestBlock \/ get_block \/ CopyBlock
  BY <1>2 DEF get_piece, RequestBlock, get_block, CopyBlock, LengthInv
<1>3. CASE ~get_piece /\ ~RequestBlock /\ ~get_block /\ ~CopyBlock /\ ~WritePiece
  BY <1>3, OtherSteps DEF LengthInv
<1>4. QED
  BY <1>1, <1>2, <1>3

(* What is copied later comes later in the stream. *)
LEMMA OrderStep == IInv /\ [Next]_vars => OrderInv'
<1> SUFFICES ASSUME TypeOK, TypeOK', StartInv, PieceInv, CountInv, OrderInv, [Next]_vars,
                    conn' # "refused"
             PROVE  OrderInv'
  BY BtTypeStep DEF IInv, OrderInv
<1>0. /\ taken \in Nat /\ blk \in Nat /\ blk <= taken /\ begin \in Nat /\ offset \in Int
      /\ Len(file) \in Nat /\ \A n \in 1 .. Len(file) : file[n] \in Int
      /\ begin <= PieceLength /\ PieceLength \in Nat
      /\ DOMAIN piece_buf = 0 .. PieceLength - 1
      /\ \A k \in 0 .. PieceLength - 1 : piece_buf[k] \in Int
  <2>1. PieceLength \in Nat
    BY BtAssumption
  <2>2. /\ sentLen \in Nat /\ taken \in 0 .. sentLen /\ blk \in 0 .. taken /\ offset \in Int
        /\ begin \in 0 .. PieceLength
        /\ file \in Seq(Int)
        /\ piece_buf \in [0 .. PieceLength - 1 -> Int]
    BY Zenon DEF TypeOK
  <2>3. taken \in Nat /\ blk \in Nat /\ blk <= taken
    BY <2>2
  <2>4. begin \in Nat /\ begin <= PieceLength
    BY <2>1, <2>2
  <2>5. Len(file) \in Nat /\ \A n \in 1 .. Len(file) : file[n] \in Int
    BY <2>2
  <2>6. /\ DOMAIN piece_buf = 0 .. PieceLength - 1
        /\ \A k \in 0 .. PieceLength - 1 : piece_buf[k] \in Int
    BY <2>2
  <2>7. QED
    BY <2>1, <2>2, <2>3, <2>4, <2>5, <2>6
<1>1. Copied \in Nat /\ Copied <= taken
  BY <1>0 DEF Copied
<1>2. ASSUME UNCHANGED <<begin, piece_buf, file>>, conn # "refused",
             Copied <= Copied', Copied' \in Nat,
             pc' \in {"request", "block", "write"} => pc \in {"request", "block", "write"}
      PROVE  OrderInv'
  <2>1. \A n \in 1 .. Len(file) : 0 <= file[n] /\ file[n] < Copied'
    BY <1>0, <1>1, <1>2 DEF OrderInv
  <2>2. \A k \in 0 .. begin - 1 : piece_buf[k] \in Int
    BY <1>0
  <2>3. pc \in {"request", "block", "write"} =>
          \A k \in 0 .. begin - 1 : 0 <= piece_buf[k] /\ piece_buf[k] < Copied'
    BY <1>1, <1>2, <2>2 DEF OrderInv
  <2>4. QED
    BY <1>2, <2>1, <2>3 DEF OrderInv
<1>3. CASE get_piece
  <2>1. /\ file' = file /\ conn' = conn /\ begin' = 0
        /\ taken' = taken /\ pc' # "block" /\ pc = "piece"
    BY <1>3 DEF get_piece
  <2>2. Copied' = Copied
    BY <2>1 DEF Copied
  <2>3. 0 .. begin' - 1 = {}
    BY <2>1
  <2>4. QED
    BY <2>1, <2>2, <2>3 DEF OrderInv
<1>4. CASE RequestBlock
  <2>1. pc' \in {"block", "killed"}
    BY <1>4, Sending DEF RequestBlock
  <2>2. UNCHANGED <<begin, piece_buf, file, conn, taken>> /\ blk' = taken /\ pc = "request"
    BY <1>4 DEF RequestBlock
  <2>3. Copied' = taken /\ Copied = taken
    BY <2>1, <2>2 DEF Copied
  <2>4. QED
    BY <1>0, <1>2, <2>2, <2>3
<1>5. CASE get_block
  <2>1. UNCHANGED <<pc, begin, piece_buf, file, blk, sentLen>> /\ pc = "block"
    BY <1>5 DEF get_block, peer
  <2>2. PICK k \in -1 .. remaining : tcp_recv(remaining, k)
    BY <1>5 DEF get_block
  <2>3. conn # "refused"
    BY <2>1, <2>2, Received DEF TypeOK
  <2>4. Copied' = blk /\ Copied = blk
    BY <2>1 DEF Copied
  <2>5. QED
    BY <1>0, <1>2, <2>1, <2>3, <2>4
<1>6. CASE CopyBlock
  <2>1. /\ UNCHANGED <<conn, file, taken>> /\ begin' = begin + ReadSize
        /\ pc = "block" /\ pc' \in {"request", "write"} /\ remaining <= 0 /\ conn # "refused"
    BY <1>6 DEF CopyBlock
  <2>2. /\ ReadSize \in Nat /\ begin + ReadSize <= PieceLength
    <3>1. left > 0 /\ begin + left = piece_size(i) /\ piece_size(i) \in -1 .. PieceLength
      BY <2>1, PieceSizes DEF PieceInv, TypeOK
    <3>2. ReadSize \in 1 .. BlockSize /\ ReadSize <= left
      BY <3>1, ReadSizes
    <3>3. QED
      BY <1>0, <3>1, <3>2, BtAssumption DEF TypeOK
  <2>3. offset = ReadSize + PIECE_HEADER_LEN /\ taken = blk + offset
    BY <1>0, <2>1, <2>2 DEF CountInv, PIECE_HEADER_LEN, TypeOK
  <2>4. Copied' = taken /\ Copied = blk
    BY <2>1 DEF Copied
  <2>5. \A k \in 0 .. begin - 1 : piece_buf'[k] = piece_buf[k] /\ piece_buf[k] \in Int
    BY <1>0, <1>6, <2>2 DEF CopyBlock
  <2>6. \A k \in begin .. begin + ReadSize - 1 :
          piece_buf'[k] = blk + PIECE_HEADER_LEN + (k - begin)
    BY <1>0, <1>6, <2>2, <2>3 DEF CopyBlock, PIECE_HEADER_LEN
  <2>7. /\ \A n \in 1 .. Len(file) : 0 <= file[n] /\ file[n] < blk
        /\ \A m, n \in 1 .. Len(file) : m < n => file[m] < file[n]
        /\ \A k \in 0 .. begin - 1 : 0 <= piece_buf[k] /\ piece_buf[k] < blk
        /\ \A k \in 0 .. begin - 1 : \A n \in 1 .. Len(file) : file[n] < piece_buf[k]
        /\ \A j, k \in 0 .. begin - 1 : j < k => piece_buf[j] < piece_buf[k]
    BY <2>1, <2>4 DEF OrderInv
  <2>8. \A k \in 0 .. begin + ReadSize - 1 :
          k \in 0 .. begin - 1 \/ k \in begin .. begin + ReadSize - 1
    BY <1>0, <2>2
  <2>9. \A n \in 1 .. Len(file) : 0 <= file[n] /\ file[n] < taken
    BY <1>0, <2>7
  <2>10. \A k \in 0 .. begin + ReadSize - 1 : 0 <= piece_buf'[k] /\ piece_buf'[k] < taken
    <3>1. \A k \in 0 .. begin - 1 : 0 <= piece_buf'[k] /\ piece_buf'[k] < taken
      BY <1>0, <2>5, <2>7
    <3>2. \A k \in begin .. begin + ReadSize - 1 : 0 <= piece_buf'[k] /\ piece_buf'[k] < taken
      BY <1>0, <2>2, <2>3, <2>6 DEF PIECE_HEADER_LEN
    <3>3. QED
      BY <2>8, <3>1, <3>2
  <2>11. \A k \in 0 .. begin + ReadSize - 1 : \A n \in 1 .. Len(file) : file[n] < piece_buf'[k]
    <3>1. \A k \in 0 .. begin - 1 : \A n \in 1 .. Len(file) : file[n] < piece_buf'[k]
      BY <2>5, <2>7
    <3>2. \A k \in begin .. begin + ReadSize - 1 : \A n \in 1 .. Len(file) : file[n] < piece_buf'[k]
      BY <1>0, <2>2, <2>6, <2>7 DEF PIECE_HEADER_LEN
    <3>3. QED
      BY <2>8, <3>1, <3>2
  <2>12. \A j, k \in 0 .. begin + ReadSize - 1 : j < k => piece_buf'[j] < piece_buf'[k]
    <3> SUFFICES ASSUME NEW j \in 0 .. begin + ReadSize - 1, NEW k \in 0 .. begin + ReadSize - 1,
                        j < k
                 PROVE  piece_buf'[j] < piece_buf'[k]
      OBVIOUS
    <3>1. CASE k \in 0 .. begin - 1
      <4>1. j \in 0 .. begin - 1
        BY <1>0, <2>2, <3>1
      <4>2. QED
        BY <2>5, <2>7, <3>1, <4>1
    <3>2. CASE j \in 0 .. begin - 1 /\ k \in begin .. begin + ReadSize - 1
      <4>1. piece_buf'[j] \in Int /\ piece_buf'[j] < blk
        BY <2>5, <2>7, <3>2
      <4>2. piece_buf'[k] = blk + PIECE_HEADER_LEN + (k - begin)
        BY <2>6, <3>2
      <4>3. QED
        BY <1>0, <2>2, <3>2, <4>1, <4>2 DEF PIECE_HEADER_LEN
    <3>3. CASE j \in begin .. begin + ReadSize - 1 /\ k \in begin .. begin + ReadSize - 1
      BY <1>0, <2>2, <2>6, <3>3 DEF PIECE_HEADER_LEN
    <3>4. QED
      BY <1>0, <2>2, <2>8, <3>1, <3>2, <3>3
  <2>13. /\ \A k \in 0 .. begin' - 1 : 0 <= piece_buf'[k] /\ piece_buf'[k] < Copied'
         /\ \A k \in 0 .. begin' - 1 : \A n \in 1 .. Len(file') : file'[n] < piece_buf'[k]
         /\ \A j, k \in 0 .. begin' - 1 : j < k => piece_buf'[j] < piece_buf'[k]
    <3>1. 0 .. begin' - 1 = 0 .. begin + ReadSize - 1
      BY <1>0, <2>1, <2>2
    <3>2. Copied' = taken /\ file' = file
      BY <2>1, <2>4
    <3>3. \A k \in 0 .. begin' - 1 : 0 <= piece_buf'[k] /\ piece_buf'[k] < Copied'
      BY <2>10, <3>1, <3>2
    <3>4. \A k \in 0 .. begin' - 1 : \A n \in 1 .. Len(file') : file'[n] < piece_buf'[k]
      BY <2>11, <3>1, <3>2
    <3>5. \A j, k \in 0 .. begin' - 1 : j < k => piece_buf'[j] < piece_buf'[k]
      BY <2>12, <3>1
    <3>6. QED
      BY <3>3, <3>4, <3>5
  <2>14. /\ \A n \in 1 .. Len(file') : 0 <= file'[n] /\ file'[n] < Copied'
         /\ \A m, n \in 1 .. Len(file') : m < n => file'[m] < file'[n]
    BY <2>1, <2>4, <2>7, <2>9
  <2>15. QED
    BY <2>13, <2>14 DEF OrderInv
<1>7. CASE WritePiece
  <2> DEFINE n == IF piece_size(i) > 0 THEN piece_size(i) ELSE 0
             new == [k \in 1 .. n |-> piece_buf[k - 1]]
  <2>1. i \in Nat /\ piece_size(i) \in -1 .. PieceLength
    BY PieceSizes DEF TypeOK
  <2>2. n \in Nat /\ 1 .. piece_size(i) = 1 .. n /\ n <= PieceLength
    BY <1>0, <2>1
  <2>3. new \in [1 .. n -> Int]
    BY <1>0, <2>2
  <2>4. /\ file' = file \o new /\ file \in Seq(Int) /\ UNCHANGED <<conn, taken>>
        /\ pc = "write" /\ pc' = "piece" /\ conn # "refused"
    BY <1>7, <2>2 DEF WritePiece, TypeOK
  <2>5. n > 0 => begin = n
    BY <2>1, <2>4 DEF PieceInv
  <2>6. Copied' = taken /\ Copied = taken
    BY <2>4 DEF Copied
  <2>7. /\ \A k \in 1 .. n : 0 <= new[k] /\ new[k] < taken
        /\ \A k \in 1 .. n : \A m \in 1 .. Len(file) : file[m] < new[k]
        /\ \A j, k \in 1 .. n : j < k => new[j] < new[k]
    <3>1. \A k \in 1 .. n : k - 1 \in 0 .. begin - 1 /\ new[k] = piece_buf[k - 1]
      BY <1>0, <2>2, <2>5
    <3> HIDE DEF n, new
    <3>2. \A j, k \in 1 .. n : j < k => j - 1 < k - 1
      BY <2>2
    <3>3. QED
      BY <2>4, <2>6, <3>1, <3>2 DEF OrderInv
  <2> HIDE DEF n, new
  <2>8. /\ Len(file') = Len(file) + n
        /\ \A k \in 1 .. Len(file) : file'[k] = file[k]
        /\ \A k \in Len(file) + 1 .. Len(file) + n : file'[k] = new[k - Len(file)]
    BY <2>2, <2>3, <2>4, Joined
  <2>9. \A k \in 1 .. Len(file') :
          \/ k \in 1 .. Len(file)
          \/ k \in Len(file) + 1 .. Len(file) + n /\ k - Len(file) \in 1 .. n
    BY <1>0, <2>2, <2>8
  <2>10. /\ \A m \in 1 .. Len(file) : 0 <= file[m] /\ file[m] < taken
         /\ \A k, m \in 1 .. Len(file) : k < m => file[k] < file[m]
    BY <2>4, <2>6 DEF OrderInv
  <2>11. \A m \in 1 .. Len(file') : 0 <= file'[m] /\ file'[m] < taken
    BY <2>7, <2>8, <2>9, <2>10
  <2>12. \A k, m \in 1 .. Len(file') : k < m => file'[k] < file'[m]
    <3> SUFFICES ASSUME NEW k \in 1 .. Len(file'), NEW m \in 1 .. Len(file'), k < m
                 PROVE  file'[k] < file'[m]
      OBVIOUS
    <3>1. k \in Int /\ m \in Int
      BY <1>0, <2>2, <2>8
    <3>2. CASE m \in 1 .. Len(file)
      <4>1. k \in 1 .. Len(file)
        BY <1>0, <3>1, <3>2
      <4>2. QED
        BY <2>8, <2>10, <3>2, <4>1
    <3>3. CASE k \in 1 .. Len(file) /\ m \notin 1 .. Len(file)
      BY <2>7, <2>8, <2>9, <3>3
    <3>4. CASE k \notin 1 .. Len(file) /\ m \notin 1 .. Len(file)
      <4>1. /\ k - Len(file) \in 1 .. n /\ m - Len(file) \in 1 .. n
            /\ file'[k] = new[k - Len(file)] /\ file'[m] = new[m - Len(file)]
        BY <2>8, <2>9, <3>4
      <4>2. k - Len(file) < m - Len(file)
        BY <1>0, <3>1
      <4>3. QED
        BY <2>7, <4>1, <4>2
    <3>5. QED
      BY <3>2, <3>3, <3>4
  <2>13. QED
    BY <2>4, <2>6, <2>11, <2>12 DEF OrderInv
<1>8. CASE ~get_piece /\ ~RequestBlock /\ ~get_block /\ ~CopyBlock /\ ~WritePiece
  <2>1. /\ UNCHANGED <<begin, blk, piece_buf, file>> /\ taken <= taken' /\ conn # "refused"
        /\ \/ pc' = pc
           \/ /\ pc \notin {"request", "block", "write"}
              /\ pc' \notin {"request", "block", "write"}
    BY <1>8, OtherSteps
  <2>2. taken' \in Nat
    BY DEF TypeOK
  <2>3. Copied' \in Nat /\ Copied <= Copied'
    BY <1>0, <2>1, <2>2 DEF Copied
  <2>4. QED
    BY <1>2, <2>1, <2>3
<1>9. QED
  BY <1>3, <1>4, <1>5, <1>6, <1>7, <1>8

LEMMA BtStep == IInv /\ [Next]_vars => IInv'
BY BtTypeStep, StartStep, PieceStep, CountStep, RequestsStep, OrderStep, LengthStep DEF IInv

LEMMA BtInvariant == Spec => []IInv
BY BtInit, BtStep, PTL DEF Spec

-----------------------------------------------------------------------------
(***************************************************************************)
(* What the client and the peer keep is well formed, whatever the peer     *)
(* sends and however TCP cuts it.                                          *)
(***************************************************************************)
THEOREM BtTypeCorrect == Spec => []TypeOK
<1>1. IInv => TypeOK
  BY DEF IInv
<1>2. QED
  BY <1>1, BtInvariant, PTL

(***************************************************************************)
(* get_block never reads past the end of its block: CountInv says that the *)
(* count is only wrong when nothing is left to be read.                    *)
(***************************************************************************)
THEOREM NoBlockOverrun == Spec => []BlockInBounds
<1>1. IInv => BlockInBounds
  <2> SUFFICES ASSUME TypeOK, CountInv, pc = "block"
               PROVE  /\ offset <= ReadSize + PIECE_HEADER_LEN
                      /\ conn # "refused" /\ taken < sentLen =>
                           offset >= 0 /\ offset + remaining = ReadSize + PIECE_HEADER_LEN
    BY DEF IInv, BlockInBounds
  <2>1. taken \in Nat /\ sentLen \in Nat
    BY DEF TypeOK
  <2>2. QED
    BY <2>1 DEF CountInv
<1>2. QED
  BY <1>1, BtInvariant, PTL

(***************************************************************************)
(* Every request get_piece sends is for bytes of an existing piece, for    *)
(* every piece length, block size and file length.                         *)
(***************************************************************************)
THEOREM RequestsServable == Spec => []RequestsInPiece
<1>1. IInv => RequestsInPiece
  BY DEF IInv
<1>2. QED
  BY <1>1, BtInvariant, PTL

(***************************************************************************)
(* The file main writes has the length of the pieces fetched, and its      *)
(* bytes are in the order in which the peer sent them.                     *)
(***************************************************************************)
THEOREM FileWrittenInOrder == Spec => []FileInOrder
<1>1. IInv => FileInOrder
  <2> SUFFICES ASSUME TypeOK, OrderInv, LengthInv
               PROVE  FileInOrder
    BY DEF IInv
  <2>1. /\ taken \in Nat /\ blk \in Nat /\ blk <= taken
        /\ \A n \in 1 .. Len(file) : file[n] \in Int
    BY DEF TypeOK
  <2>2. Copied \in Nat /\ Copied <= taken
    BY <2>1 DEF Copied
  <2>3. conn # "refused" => \A n \in 1 .. Len(file) : 0 <= file[n] /\ file[n] < taken
    BY <2>1, <2>2 DEF OrderInv
  <2>4. QED
    BY <2>3 DEF FileInOrder, OrderInv, LengthInv
<1>2. QED
  BY <1>1, BtInvariant, PTL
=============================================================================
