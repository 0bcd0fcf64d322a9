---------------------------- MODULE FsReadProofs ----------------------------
(***************************************************************************)
(* Proofs about FsRead, for every layout of files and pieces, every number *)
(* of threads and every width of int.                                      *)
(***************************************************************************)
EXTENDS FsRead, TorrentLayoutProofs

(* The names FsRead gives to groups of variables and to conditions. *)
USE DEF range, result, frame, buffers, Lowest, Free, Handled, alert_cast, Source

-----------------------------------------------------------------------------
(* What a read knows of its range. *)

(* A request that passes the end-of-file check lies inside the file. *)
LEMMA RequestFacts ==
  ASSUME NEW r \in Requests, r.offset < get_file_size(r.file)
  PROVE  /\ r.file \in Files /\ r.offset \in Nat /\ r.size \in Nat
         /\ FileSize[r.file] \in Nat /\ FileOffset[r.file] \in Nat
         /\ ToInt(r.offset) = r.offset
         /\ ReadLength(r) \in Int
         /\ ReadLength(r) <= r.size
         /\ r.offset + ReadLength(r) <= FileSize[r.file]
<1>1. r.file \in Files /\ r.offset \in Nat /\ r.size \in Nat
  BY ReadAssumption
<1>2. FileSize[r.file] \in Nat /\ FileOffset[r.file] \in Nat
  BY <1>1, LayoutAssumption
<1>3. /\ get_file_size(r.file) \in Int
      /\ get_file_size(r.file) <= FileSize[r.file]
      /\ get_file_size(r.file) < IntRange \div 2
  BY <1>2, IntConversion DEF get_file_size
<1>4. IntRange \div 2 \in Int
  BY IntAssumption
<1>5. ToInt(r.offset) = r.offset
  BY <1>1, <1>3, <1>4, IntConversion
<1>6. ToInt(r.size) \in Int /\ ToInt(r.size) <= r.size
  BY <1>1, IntConversion
<1>7. QED
  BY <1>1, <1>2, <1>3, <1>5, <1>6 DEF ReadLength, MinOf

(* The reads that are at some piece, in either loop. *)
AtPiece(t) == pc[t] \in InLoop \cup Waiting \cup Copying

(***************************************************************************)
(* At a piece, the read takes at least a byte of it, no more than it wants *)
(* and no more than the piece has; the bytes it takes are of that piece.   *)
(***************************************************************************)
LEMMA LoopFacts ==
  ASSUME TypeOK, RequestInv, LoopInv, NEW t \in Readers, AtPiece(t)
  PROVE  /\ req[t] \in Requests
         /\ req[t].offset < get_file_size(req[t].file)
         /\ curr_offset[t] \in Nat
         /\ Piece(t) \in Pieces
         /\ Start(t) \in Nat
         /\ ReadSize(t) \in Nat /\ ReadSize(t) > 0
         /\ ReadSize(t) <= remaining_size[t]
         /\ Start(t) + ReadSize(t) <= piece_size(Piece(t))
         /\ piece_size(Piece(t)) \in Nat
         /\ piece_size(Piece(t)) <= PieceLength
         /\ Piece(t) * PieceLength + Start(t) = FileOffset[req[t].file] + curr_offset[t]
         /\ \A o \in curr_offset[t] .. curr_offset[t] + ReadSize(t) - 1 :
               map_file(req[t].file, o).piece = Piece(t)
<1> DEFINE r == req[t]
           c == curr_offset[t]
           m == remaining_size[t]
<1>1. r \in Requests /\ r.offset < get_file_size(r.file)
  BY DEF RequestInv, AtPiece, Active, InLoop, Waiting, Copying
<1>2. /\ c \in Int /\ m \in Int
      /\ m > 0 /\ c >= r.offset /\ c + m = r.offset + ReadLength(r)
  BY DEF TypeOK, LoopInv, AtPiece
<1> HIDE DEF r, c, m
<1>3. /\ r.file \in Files /\ r.offset \in Nat
      /\ FileSize[r.file] \in Nat /\ FileOffset[r.file] \in Nat
      /\ ReadLength(r) \in Int /\ r.offset + ReadLength(r) <= FileSize[r.file]
  BY <1>1, RequestFacts
<1>4. c \in Nat /\ c + m <= FileSize[r.file]
  BY <1>2, <1>3
<1>5. PieceLength \in Nat \ {0}
  BY LayoutAssumption
<1> DEFINE p == Piece(t)
           s == Start(t)
           n == ReadSize(t)
<1>6. /\ p \in Pieces /\ s \in Nat
      /\ p * PieceLength + s = FileOffset[r.file] + c
      /\ s < piece_size(p) /\ piece_size(p) \in Nat /\ piece_size(p) <= PieceLength
  BY <1>2, <1>3, <1>4, MapFile DEF Piece, Start, r, c
<1>7. n \in Nat /\ n > 0 /\ n <= m /\ s + n <= piece_size(p)
  BY <1>2, <1>6 DEF ReadSize, MinOf, m
<1> HIDE DEF p, s, n
<1>8. p \in Nat
  BY <1>6, NumPieces DEF Pieces
<1>9. ASSUME NEW o \in c .. c + n - 1
      PROVE  map_file(r.file, o).piece = p
  <2> DEFINE x == FileOffset[r.file] + o
  <2>1. x \in Nat
    BY <1>3, <1>4, <1>7
  <2>2. p * PieceLength \in Nat
    BY <1>5, <1>8
  <2>3. p * PieceLength <= x /\ x < p * PieceLength + PieceLength
    BY <1>3, <1>4, <1>5, <1>6, <1>7, <2>2
  <2> HIDE DEF x
  <2>4. x \div PieceLength = p
    BY <1>5, <1>8, <2>1, <2>3, DivUnique
  <2>5. QED
    BY <2>4 DEF map_file, x
<1>10. QED
  BY <1>1, <1>4, <1>6, <1>7, <1>9 DEF r, c, m, p, s, n

-----------------------------------------------------------------------------
(* The arithmetic part of the inductive invariant. *)

CoreInv == TypeOK /\ RequestInv /\ LoopInv

(* The priorities the file system sets are priorities. *)
LEMMA PriorityType == Lowest \in Priorities /\ Highest \in Priorities /\ 0 \in Priorities
BY DEF Lowest, Highest, Priorities

(* Every step leaves well-formed state behind. *)
LEMMA TypeStep == CoreInv /\ [Next]_vars => TypeOK'
<1> SUFFICES ASSUME TypeOK, RequestInv, LoopInv, [Next]_vars
             PROVE  TypeOK'
  BY DEF CoreInv
<1> USE DEF Labels, InLoop, Waiting, Copying, Critical
<1>1. CASE UNCHANGED vars
  BY <1>1 DEF TypeOK, vars, session, shared, locals
<1>2. CASE SilencePiece
  <2>1. priority' \in [Pieces -> Priorities]
    BY <1>2, PriorityType DEF SilencePiece, piece_priority, TypeOK
  <2>2. silenced' \in Nat
    BY <1>2 DEF SilencePiece, TypeOK
  <2>3. QED
    BY <1>2, <2>1, <2>2 DEF SilencePiece, TypeOK, shared, locals
<1>3. ASSUME NEW p \in Pieces, Download(p)
      PROVE  TypeOK'
  <2>1. alerts' \in Seq(Alert)
    BY <1>3, AlertType DEF Download, TypeOK
  <2>2. QED
    BY <1>3, <2>1 DEF Download, TypeOK, shared, locals
<1>4. ASSUME NEW p \in Pieces, ReadPieceDone(p)
      PROVE  TypeOK'
  <2>1. alerts' \in Seq(Alert)
    <3>1. alerts \in Seq(Alert) /\ piece_size(p) \in Nat
      BY PieceSize DEF TypeOK
    <3>2. PICK n \in Nat :
             alerts' = Append(alerts, [type |-> "read_piece", piece |-> p, size |-> n])
      BY <1>4, <3>1 DEF ReadPieceDone
    <3>3. QED
      BY <3>1, <3>2, AlertType
  <2>2. inflight' \in [Pieces -> Nat]
    BY <1>4 DEF ReadPieceDone, TypeOK
  <2>3. QED
    BY <1>4, <2>1, <2>2 DEF ReadPieceDone, TypeOK, shared, locals
<1>5. ASSUME NEW t \in Readers, NEW r \in Requests, ReadStart(t, r)
      PROVE  TypeOK'
  <2>1. r.file \in Files /\ r.offset \in Nat /\ r.size \in Nat
    BY ReadAssumption
  <2>2. curr_offset' \in [Readers -> Int] /\ remaining_size' \in [Readers -> Int]
    <3>0. curr_offset \in [Readers -> Int] /\ remaining_size \in [Readers -> Int]
      BY DEF TypeOK
    <3>1. CASE r.offset < get_file_size(r.file)
      <4>1. ToInt(r.offset) \in Int /\ ReadLength(r) \in Int
        BY <2>1, <3>1, RequestFacts
      <4>2. \/ UNCHANGED <<curr_offset, remaining_size>>
            \/ /\ curr_offset' = [curr_offset EXCEPT ![t] = ToInt(r.offset)]
               /\ remaining_size' = [remaining_size EXCEPT ![t] = ReadLength(r)]
        BY <1>5 DEF ReadStart
      <4>3. QED
        BY <3>0, <4>1, <4>2
    <3>2. CASE ~ (r.offset < get_file_size(r.file))
      <4>1. UNCHANGED <<curr_offset, remaining_size>>
        BY <1>5, <3>2 DEF ReadStart
      <4>2. QED
        BY <3>0, <4>1
    <3>3. QED
      BY <3>1, <3>2
  <2>3. pc' \in [Readers -> Labels]
    BY <1>5 DEF ReadStart, Goto, TypeOK
  <2>4. ASSUME NEW u \in Readers
        PROVE  buf'[u] \in [0 .. req'[u].size - 1 -> Int]
    BY <1>5, <2>1 DEF ReadStart, TypeOK, NoByte
  <2>5. QED
    <3>1. /\ reads' \in [Readers -> Nat] /\ read_ptr' \in [Readers -> Int]
          /\ required_pieces' \in [Readers -> SUBSET Pieces]
      BY <1>5 DEF ReadStart, TypeOK
    <3>2. req' \in [Readers -> Requests \cup {IdleRequest}] /\ DOMAIN buf' = Readers
      BY <1>5 DEF ReadStart, TypeOK
    <3>3. QED
      BY <1>5, <2>2, <2>3, <2>4, <3>1, <3>2 DEF ReadStart, TypeOK, session, shared
<1>6. ASSUME NEW t \in Readers, ReaderStep(t)
      PROVE  TypeOK'
  <2> DEFINE Facts == /\ Piece(t) \in Pieces /\ ReadSize(t) \in Nat /\ Start(t) \in Nat
                      /\ Piece(t) \in Int
  <2>1. AtPiece(t) => Facts
    BY LoopFacts, NumPieces DEF Pieces
  <2> HIDE DEF Facts
  <2>2. CASE PrioHave(t)
    <3>1. Facts
      BY <2>1, <2>2 DEF PrioHave, Goto, AtPiece
    <3>2. pc' \in [Readers -> Labels]
      BY <2>2 DEF PrioHave, Goto, TypeOK
    <3>3. curr_offset' \in [Readers -> Int] /\ remaining_size' \in [Readers -> Int]
      BY <2>2, <3>1 DEF Facts, PrioHave, Advance, TypeOK
    <3>4. QED
      BY <2>2, <3>2, <3>3 DEF PrioHave, TypeOK, session, shared
  <2>3. CASE PrioMissing(t)
    <3>1. Facts
      BY <2>1, <2>3 DEF PrioMissing, Goto, AtPiece
    <3>2. QED
      BY <2>3, <3>1 DEF Facts, PrioMissing, Goto, TypeOK, session, shared
  <2>4. CASE RaisePiece(t)
    <3>1. priority' \in [Pieces -> Priorities]
      BY <2>4, PriorityType DEF RaisePiece, piece_priority, TypeOK
    <3>2. pc' \in [Readers -> Labels]
      BY <2>4 DEF RaisePiece, Goto, TypeOK
    <3>3. QED
      BY <2>4, <3>1, <3>2 DEF RaisePiece, TypeOK, shared
  <2>5. CASE LowerPrevious(t)
    <3>1. priority' \in [Pieces -> Priorities]
      BY <2>5, PriorityType DEF LowerPrevious, piece_priority, TypeOK
    <3>2. pc' \in [Readers -> Labels]
      BY <2>5 DEF LowerPrevious, Goto, TypeOK
    <3>3. QED
      BY <2>5, <3>1, <3>2 DEF LowerPrevious, TypeOK, shared
  <2>6. CASE RaiseNext(t)
    <3>1. Facts
      BY <2>1, <2>6 DEF RaiseNext, Goto, AtPiece
    <3>2. priority' \in [Pieces -> Priorities]
      BY <2>6, PriorityType DEF RaiseNext, piece_priority, TypeOK
    <3>3. pc' \in [Readers -> Labels]
      BY <2>6 DEF RaiseNext, Goto, TypeOK
    <3>4. curr_offset' \in [Readers -> Int] /\ remaining_size' \in [Readers -> Int]
      BY <2>6, <3>1 DEF Facts, RaiseNext, Advance, TypeOK
    <3>5. QED
      BY <2>6, <3>2, <3>3, <3>4 DEF RaiseNext, TypeOK, shared
  <2>7. CASE Lock(t)
    BY <2>7 DEF Lock, Goto, TypeOK, session
  <2>8. CASE Prefetch(t)
    <3>1. inflight' \in [Pieces -> Nat]
      <4>1. PICK p \in required_pieces[t] :
               inflight' = IF p \in have THEN [inflight EXCEPT ![p] = @ + 1] ELSE inflight
        BY <2>8 DEF Prefetch, read_piece
      <4>2. p \in Pieces /\ inflight \in [Pieces -> Nat]
        BY DEF TypeOK
      <4>3. QED
        BY <4>1, <4>2, CountUp
    <3>2. required_pieces' \in [Readers -> SUBSET Pieces]
      BY <2>8 DEF Prefetch, TypeOK
    <3>3. QED
      BY <2>8, <3>1, <3>2 DEF Prefetch, TypeOK, shared
  <2>9. CASE Rewind(t)
    <3>1. req[t] \in Requests /\ req[t].offset < get_file_size(req[t].file)
      BY <2>9 DEF Rewind, Goto, RequestInv, Active
    <3>2. ToInt(req[t].offset) \in Int /\ ReadLength(req[t]) \in Int
      BY <3>1, RequestFacts
    <3>3. QED
      BY <2>9, <3>2 DEF Rewind, Goto, TypeOK, session, shared
  <2>10. CASE PopAlerts(t)
    <3>1. pc' \in [Readers -> Labels]
      BY <2>10 DEF PopAlerts, Goto, TypeOK
    <3>2. popped' \in Seq(Alert) /\ alerts' \in Seq(Alert)
      BY <2>10 DEF PopAlerts, TypeOK
    <3>3. QED
      BY <2>10, <3>1, <3>2 DEF PopAlerts, TypeOK
  <2>11. CASE HandleAlert(t)
    <3>1. Head(popped) \in Alert /\ Tail(popped) \in Seq(Alert)
      BY <2>11 DEF HandleAlert, TypeOK
    <3>2. Head(popped).piece \in Pieces /\ Head(popped).size \in Nat
      BY <3>1 DEF Alert
    <3>3. allocated' \in [Pieces -> Nat]
      <4>1. \/ allocated' = allocated
            \/ allocated' = [allocated EXCEPT ![Head(popped).piece] = @ + 1]
        BY <2>11 DEF HandleAlert
      <4>2. allocated \in [Pieces -> Nat]
        BY DEF TypeOK
      <4>3. QED
        BY <3>2, <4>1, <4>2, CountUp
    <3>4. piece_buffer_map' \in [Pieces -> Nat \cup {NoBuffer}]
      BY <2>11, <3>2 DEF HandleAlert, TypeOK
    <3>5. QED
      BY <2>11, <3>1, <3>3, <3>4 DEF HandleAlert, TypeOK, session, locals
  <2>12. CASE CheckHave(t)
    BY <2>12 DEF CheckHave, Goto, TypeOK, session, shared
  <2>13. CASE FindBuffer(t)
    <3>1. inflight' \in [Pieces -> Nat]
      <4>1. Facts
        BY <2>1, <2>13 DEF FindBuffer, Goto, AtPiece
      <4>2. inflight \in [Pieces -> Nat]
        BY DEF TypeOK
      <4>3. inflight' = inflight \/ inflight' = [inflight EXCEPT ![Piece(t)] = @ + 1]
        BY <2>13 DEF FindBuffer, read_piece
      <4>4. QED
        BY <4>1, <4>2, <4>3, CountUp DEF Facts
    <3>2. pc' \in [Readers -> Labels]
      BY <2>13 DEF FindBuffer, Goto, TypeOK
    <3>3. QED
      BY <2>13, <3>1, <3>2 DEF FindBuffer, TypeOK, shared
  <2>14. CASE CheckBuffer(t)
    BY <2>14 DEF CheckBuffer, Goto, TypeOK, session, shared
  <2>15. CASE Copy(t)
    <3>1. Facts
      BY <2>1, <2>15 DEF Copy, Goto, AtPiece
    <3>2. ASSUME NEW i \in Int
          PROVE  TempBuf(Piece(t), i) \in Int
      BY <3>1, LayoutAssumption DEF Facts, TempBuf, NoByte
    <3>3. ASSUME NEW u \in Readers
          PROVE  buf'[u] \in [0 .. req'[u].size - 1 -> Int]
      <4>1. buf[u] \in [0 .. req[u].size - 1 -> Int] /\ req' = req /\ DOMAIN buf = Readers
        BY <2>15 DEF Copy, TypeOK
      <4>2. CASE u # t
        BY <2>15, <4>1, <4>2 DEF Copy
      <4>3. CASE u = t
        <5>1. read_ptr[t] \in Int
          BY DEF TypeOK
        <5>2. buf'[t] = [i \in DOMAIN buf[t] |->
                           IF read_ptr[t] <= i /\ i < read_ptr[t] + ReadSize(t)
                             THEN TempBuf(Piece(t), Start(t) + (i - read_ptr[t]))
                             ELSE buf[t][i]]
          BY <2>15, <4>1 DEF Copy
        <5>3. ASSUME NEW i \in 0 .. req[t].size - 1
              PROVE  buf'[t][i] \in Int
          <6>1. Start(t) + (i - read_ptr[t]) \in Int
            BY <3>1, <5>1 DEF Facts
          <6>2. TempBuf(Piece(t), Start(t) + (i - read_ptr[t])) \in Int
            BY <3>2, <6>1
          <6>3. buf[t][i] \in Int /\ i \in DOMAIN buf[t]
            BY <4>1, <4>3
          <6>4. QED
            BY <5>2, <6>2, <6>3
        <5>4. DOMAIN buf[t] = 0 .. req[t].size - 1
          BY <4>1, <4>3
        <5>5. QED
          BY <4>1, <4>3, <5>2, <5>3, <5>4
      <4>4. QED
        BY <4>2, <4>3
    <3>4. pc' \in [Readers -> Labels]
      BY <2>15 DEF Copy, Goto, TypeOK
    <3>5. curr_offset' \in [Readers -> Int] /\ remaining_size' \in [Readers -> Int]
      <4>1. curr_offset \in [Readers -> Int] /\ remaining_size \in [Readers -> Int]
        BY DEF TypeOK
      <4>2. /\ curr_offset' = [curr_offset EXCEPT ![t] = @ + ReadSize(t)]
            /\ remaining_size' = [remaining_size EXCEPT ![t] = @ - ReadSize(t)]
        BY <2>15 DEF Copy, Advance
      <4>3. ReadSize(t) \in Int
        BY <3>1 DEF Facts
      <4>4. QED
        BY <4>1, <4>2, <4>3
    <3>6. read_ptr' \in [Readers -> Int] /\ DOMAIN buf' = Readers
      BY <2>15, <3>1 DEF Facts, Copy, TypeOK
    <3>7. QED
      BY <2>15, <3>3, <3>4, <3>5, <3>6 DEF Copy, TypeOK, session, shared
  <2>16. CASE Unlock(t)
    BY <2>16 DEF Unlock, Goto, TypeOK, session
  <2>17. QED
    BY <1>6, <2>2, <2>3, <2>4, <2>5, <2>6, <2>7, <2>8, <2>9, <2>10, <2>11, <2>12, <2>13,
       <2>14, <2>15, <2>16 DEF ReaderStep
<1>7. CASE Terminated
  BY <1>1, <1>7 DEF Terminated
<1>8. QED
  BY <1>1, <1>2, <1>3, <1>4, <1>5, <1>6, <1>7 DEF Next

(* The locals of a read. *)
Local(u) == <<pc[u], req[u], curr_offset[u], remaining_size[u], read_ptr[u],
              required_pieces[u], buf[u]>>

(* A thread that steps is in a read, and leaves the other reads alone. *)
LEMMA ReaderFrame ==
  ASSUME TypeOK, NEW t \in Readers, ReaderStep(t)
  PROVE  /\ Active(t)
         /\ req' = req /\ silenced' = silenced
         /\ have' = have /\ failed' = failed
         /\ \A u \in Readers \ {t} : Local(u)' = Local(u)
<1> USE DEF Active, Local, TypeOK, session, shared, locals
<1>1. CASE PrioHave(t)
  BY <1>1 DEF PrioHave, Goto, Advance
<1>2. CASE PrioMissing(t)
  BY <1>2 DEF PrioMissing, Goto
<1>3. CASE RaisePiece(t)
  BY <1>3 DEF RaisePiece, Goto
<1>4. CASE LowerPrevious(t)
  BY <1>4 DEF LowerPrevious, Goto
<1>5. CASE RaiseNext(t)
  BY <1>5 DEF RaiseNext, Goto, Advance
<1>6. CASE Lock(t)
  BY <1>6 DEF Lock, Goto
<1>7. CASE Prefetch(t)
  BY <1>7 DEF Prefetch
<1>8. CASE Rewind(t)
  BY <1>8 DEF Rewind, Goto
<1>9. CASE PopAlerts(t)
  BY <1>9 DEF PopAlerts, Goto
<1>10. CASE HandleAlert(t)
  BY <1>10 DEF HandleAlert
<1>11. CASE CheckHave(t)
  BY <1>11 DEF CheckHave, Goto
<1>12. CASE FindBuffer(t)
  BY <1>12 DEF FindBuffer, Goto
<1>13. CASE CheckBuffer(t)
  BY <1>13 DEF CheckBuffer, Goto
<1>14. CASE Copy(t)
  BY <1>14 DEF Copy, Goto, Advance
<1>15. CASE Unlock(t)
  BY <1>15 DEF Unlock, Goto
<1>16. QED
  BY <1>1, <1>2, <1>3, <1>4, <1>5, <1>6, <1>7, <1>8, <1>9, <1>10, <1>11, <1>12, <1>13,
     <1>14, <1>15 DEF ReaderStep

(* A new read leaves the other reads and everything shared alone. *)
LEMMA StartFrame ==
  ASSUME TypeOK, NEW t \in Readers, NEW r \in Requests, ReadStart(t, r)
  PROVE  /\ Mounted /\ req'[t] = r /\ read_ptr'[t] = 0
         /\ pc[t] \in {"idle", "done"} /\ pc'[t] \in {"prio", "lock", "done"}
         /\ pc'[t] # "done" => r.offset < get_file_size(r.file)
         /\ pc'[t] = "prio" => /\ curr_offset'[t] = ToInt(r.offset)
                               /\ remaining_size'[t] = ReadLength(r)
                               /\ ReadLength(r) > 0
         /\ pc'[t] = "lock" => ~ (ReadLength(r) > 0)
         /\ UNCHANGED <<session, shared, silenced, failed>>
         /\ \A u \in Readers \ {t} : Local(u)' = Local(u)
<1>1. CASE r.offset >= get_file_size(r.file)
  BY <1>1 DEF ReadStart, Goto, Local, TypeOK
<1>2. CASE ~ (r.offset >= get_file_size(r.file))
  BY <1>2 DEF ReadStart, Goto, Local, TypeOK
<1>3. QED
  BY <1>1, <1>2

(* init_bitfs and libtorrent leave all reads alone. *)
LEMMA SessionFrame ==
  ASSUME SilencePiece \/ (\E p \in Pieces : Download(p) \/ ReadPieceDone(p)) \/ UNCHANGED vars
  PROVE  UNCHANGED <<shared, locals>>
BY DEF SilencePiece, Download, ReadPieceDone, vars, shared, locals

LEMMA CoreInit == Init => CoreInv
<1> SUFFICES ASSUME Init
             PROVE  CoreInv
  OBVIOUS
<1>1. TypeOK
  <2>1. Normal \in Priorities /\ 0 .. -1 = {}
    BY DEF Normal, Priorities
  <2>2. ASSUME NEW t \in Readers
        PROVE  buf[t] \in [0 .. req[t].size - 1 -> Int]
    BY <2>1 DEF Init, IdleRequest
  <2>3. QED
    BY <2>1, <2>2, ReadAssumption DEF Init, TypeOK, Labels
<1>2. RequestInv /\ LoopInv
  BY DEF Init, RequestInv, LoopInv, Active, InLoop, Waiting, Copying
<1>3. QED
  BY <1>1, <1>2 DEF CoreInv

(* A mount stays mounted. *)
LEMMA MountedStable ==
  ASSUME TypeOK, Mounted, silenced' = silenced \/ silenced' = silenced + 1
  PROVE  Mounted'
BY NumPieces DEF Mounted, TypeOK

(* A read in progress keeps its request. *)
LEMMA RequestStep == CoreInv /\ [Next]_vars => RequestInv'
<1> SUFFICES ASSUME TypeOK, RequestInv, [Next]_vars, NEW u \in Readers
             PROVE  /\ pc'[u] # "idle" => Mounted' /\ req'[u] \in Requests
                    /\ Active(u)' => req'[u].offset < get_file_size(req'[u].file)
  BY DEF CoreInv, RequestInv
<1>1. silenced' = silenced \/ silenced' = silenced + 1
  BY ReaderFrame, StartFrame
     DEF Next, SilencePiece, Download, ReadPieceDone, Terminated, vars
<1>2. Mounted => Mounted'
  BY <1>1, MountedStable
<1>3. ASSUME NEW t \in Readers, ReaderStep(t)
      PROVE  pc[u] = "idle" => pc'[u] = "idle"
  BY <1>3, ReaderFrame DEF Active, Local
<1>4. CASE UNCHANGED locals
  BY <1>2, <1>4 DEF RequestInv, Active, locals
<1>5. ASSUME NEW t \in Readers, ReaderStep(t)
      PROVE  /\ pc'[u] # "idle" => Mounted' /\ req'[u] \in Requests
             /\ Active(u)' => req'[u].offset < get_file_size(req'[u].file)
  <2>1. pc[u] # "idle" => Mounted /\ req[u] \in Requests
    BY DEF RequestInv
  <2>2. Active(u)' => Active(u)
    BY <1>5, ReaderFrame DEF Active, Local
  <2>3. req' = req
    BY <1>5, ReaderFrame
  <2>4. QED
    BY <1>2, <1>3, <1>5, <2>1, <2>2, <2>3 DEF RequestInv
<1>6. ASSUME NEW t \in Readers, NEW r \in Requests, ReadStart(t, r)
      PROVE  /\ pc'[u] # "idle" => Mounted' /\ req'[u] \in Requests
             /\ Active(u)' => req'[u].offset < get_file_size(req'[u].file)
  <2>1. CASE u = t
    BY <1>2, <1>6, <2>1, StartFrame DEF Active
  <2>2. CASE u # t
    BY <1>2, <1>6, <2>2, StartFrame DEF Active, Local, RequestInv
  <2>3. QED
    BY <2>1, <2>2
<1>7. QED
  BY <1>4, <1>5, <1>6, SessionFrame DEF Next, Terminated

(* The two loops keep to the range. *)
LEMMA LoopStep == CoreInv /\ [Next]_vars => LoopInv'
<1> DEFINE InRange(u) == /\ remaining_size[u] > 0
                         /\ curr_offset[u] >= req[u].offset
                         /\ curr_offset[u] + remaining_size[u] = req[u].offset + ReadLength(req[u])
<1> SUFFICES ASSUME TypeOK, RequestInv, LoopInv, [Next]_vars, NEW u \in Readers, AtPiece(u)'
             PROVE  InRange(u)'
  BY DEF CoreInv, LoopInv, AtPiece
<1>1. AtPiece(u) => InRange(u)
  BY DEF LoopInv, AtPiece
<1>2. ASSUME Local(u)' = Local(u)
      PROVE  InRange(u)'
  BY <1>1, <1>2 DEF Local, AtPiece
<1>3. CASE UNCHANGED locals
  BY <1>2, <1>3 DEF locals, Local
<1>4. ASSUME NEW t \in Readers, NEW r \in Requests, ReadStart(t, r)
      PROVE  InRange(u)'
  <2>1. CASE u = t
    <3>1. pc'[t] = "prio" /\ req'[t] = r
      BY <1>4, <2>1, StartFrame DEF AtPiece, InLoop, Waiting, Copying
    <3>2. /\ curr_offset'[t] = ToInt(r.offset) /\ remaining_size'[t] = ReadLength(r)
          /\ ReadLength(r) > 0 /\ r.offset < get_file_size(r.file)
      BY <1>4, <3>1, StartFrame
    <3>3. QED
      BY <2>1, <3>1, <3>2, RequestFacts
  <2>2. CASE u # t
    BY <1>2, <1>4, <2>2, StartFrame
  <2>3. QED
    BY <2>1, <2>2
<1>5. ASSUME NEW t \in Readers, ReaderStep(t)
      PROVE  InRange(u)'
  <2>1. CASE u # t
    BY <1>2, <1>5, <2>1, ReaderFrame
  <2>2. CASE u = t
    <3>1. CASE Rewind(t)
      <4>1. req[t] \in Requests /\ req[t].offset < get_file_size(req[t].file)
        BY <3>1 DEF Rewind, Goto, RequestInv, Active
      <4>2. ReadLength(req[t]) > 0
        BY <2>2, <3>1 DEF Rewind, Goto, AtPiece, InLoop, Waiting, Copying, TypeOK
      <4>3. curr_offset'[t] = req[t].offset /\ remaining_size'[t] = ReadLength(req[t])
        BY <3>1, <4>1, RequestFacts DEF Rewind, TypeOK
      <4>4. req' = req
        BY <3>1 DEF Rewind
      <4>5. QED
        BY <2>2, <4>1, <4>2, <4>3, <4>4, RequestFacts
    <3>2. CASE PrioHave(t) \/ RaiseNext(t) \/ Copy(t)
      <4>1. AtPiece(t) /\ Advance(t) /\ req' = req
        BY <3>2 DEF PrioHave, RaiseNext, Copy, Goto, AtPiece, InLoop, Copying
      <4>2. More(t)
        BY <2>2, <3>2 DEF PrioHave, RaiseNext, Copy, Goto, AtPiece, InLoop, Waiting, Copying,
                          TypeOK
      <4>3. ReadSize(t) \in Nat /\ req[t] \in Requests /\ req[t].offset < get_file_size(req[t].file)
        BY <4>1, LoopFacts
      <4>4. curr_offset[t] \in Int /\ remaining_size[t] \in Int
        BY DEF TypeOK
      <4>5. /\ curr_offset'[t] = curr_offset[t] + ReadSize(t)
            /\ remaining_size'[t] = remaining_size[t] - ReadSize(t)
        BY <4>1 DEF Advance, TypeOK
      <4>6. ReadLength(req[t]) \in Int /\ req[t].offset \in Nat
        BY <4>3, RequestFacts
      <4>7. QED
        BY <1>1, <2>2, <4>1, <4>2, <4>3, <4>4, <4>5, <4>6 DEF More
    <3>3. CASE PrioMissing(t) \/ RaisePiece(t) \/ LowerPrevious(t)
      BY <1>1, <2>2, <3>3 DEF PrioMissing, RaisePiece, LowerPrevious, Goto, AtPiece, InLoop
    <3>4. CASE Lock(t) \/ Prefetch(t) \/ Unlock(t)
      BY <2>2, <3>4 DEF Lock, Prefetch, Unlock, Goto, AtPiece, InLoop, Waiting, Copying, TypeOK
    <3>5. CASE PopAlerts(t) \/ CheckHave(t) \/ FindBuffer(t) \/ CheckBuffer(t)
      BY <1>1, <2>2, <3>5
         DEF PopAlerts, CheckHave, FindBuffer, CheckBuffer, Goto, AtPiece, Waiting, Copying
    <3>6. CASE HandleAlert(t)
      BY <1>3, <3>6 DEF HandleAlert
    <3>7. QED
      BY <1>5, <3>1, <3>2, <3>3, <3>4, <3>5, <3>6 DEF ReaderStep
  <2>3. QED
    BY <2>1, <2>2
<1>6. QED
  BY <1>3, <1>4, <1>5, SessionFrame DEF Next, Terminated

LEMMA CoreStep == CoreInv /\ [Next]_vars => CoreInv'
BY TypeStep, RequestStep, LoopStep DEF CoreInv

LEMMA CoreInvariant == Spec => []CoreInv
BY CoreInit, CoreStep, PTL DEF Spec

(***************************************************************************)
(* FS::read, FS::init_bitfs and libtorrent leave well-formed state behind: *)
(* in particular every piece a read requires is a piece of the torrent,    *)
(* for every layout, number of threads and width of int.                   *)
(***************************************************************************)
THEOREM TypeCorrect == Spec => []TypeOK
BY CoreInvariant, PTL DEF CoreInv

-----------------------------------------------------------------------------
(* The mutex and the alerts popped under it. *)

LockInv == LockDiscipline /\ PoppedAlertsOwned

LEMMA LockInit == Init => LockInv
BY ReadAssumption DEF Init, LockInv, LockDiscipline, PoppedAlertsOwned, Critical, Waiting, Copying

LEMMA LockStep == TypeOK /\ LockInv /\ [Next]_vars => LockInv'
<1> SUFFICES ASSUME TypeOK, LockDiscipline, PoppedAlertsOwned, [Next]_vars
             PROVE  LockDiscipline' /\ PoppedAlertsOwned'
  BY DEF LockInv
<1> USE DEF LockDiscipline, PoppedAlertsOwned, Critical, Waiting, Copying
<1>1. CASE UNCHANGED <<shared, locals>>
  BY <1>1 DEF shared, locals
<1>2. ASSUME NEW t \in Readers, NEW r \in Requests, ReadStart(t, r)
      PROVE  LockDiscipline' /\ PoppedAlertsOwned'
  BY <1>2, StartFrame DEF Local, shared
<1>3. ASSUME NEW t \in Readers, ReaderStep(t)
      PROVE  LockDiscipline' /\ PoppedAlertsOwned'
  <2>0. pc \in [Readers -> Labels] /\ NoReader \notin Readers
    BY ReadAssumption DEF TypeOK
  <2>1. CASE PrioHave(t) \/ PrioMissing(t) \/ RaisePiece(t) \/ LowerPrevious(t) \/ RaiseNext(t)
    <3>1. /\ pc[t] \in InLoop /\ pc'[t] \in InLoop \cup {"lock"}
          /\ pc' = [pc EXCEPT ![t] = pc'[t]]
          /\ fsmtx' = fsmtx /\ popped' = popped
      BY <2>0, <2>1 DEF PrioHave, PrioMissing, RaisePiece, LowerPrevious, RaiseNext, Goto,
                        InLoop, shared
    <3>2. QED
      BY <2>0, <3>1 DEF InLoop
  <2>2. CASE Lock(t)
    BY <2>0, <2>2 DEF Lock, Goto
  <2>3. CASE Prefetch(t) \/ HandleAlert(t)
    BY <2>0, <2>3 DEF Prefetch, HandleAlert, shared, locals
  <2>4. CASE Rewind(t)
    BY <2>0, <2>4 DEF Rewind, Goto, shared
  <2>5. CASE PopAlerts(t)
    BY <2>0, <2>5 DEF PopAlerts, Goto
  <2>6. CASE CheckHave(t) \/ CheckBuffer(t)
    BY <2>0, <2>6 DEF CheckHave, CheckBuffer, Goto, shared
  <2>7. CASE FindBuffer(t)
    BY <2>0, <2>7 DEF FindBuffer, Goto, shared
  <2>8. CASE Copy(t)
    BY <2>0, <2>8 DEF Copy, Goto, shared
  <2>9. CASE Unlock(t)
    BY <2>0, <2>9 DEF Unlock, Goto
  <2>10. QED
    BY <1>3, <2>1, <2>2, <2>3, <2>4, <2>5, <2>6, <2>7, <2>8, <2>9 DEF ReaderStep
<1>4. QED
  BY <1>1, <1>2, <1>3, SessionFrame DEF Next, Terminated

(***************************************************************************)
(* However many threads read at once, only the holder of fsmtx touches     *)
(* piece_buffer_map and the alert queue.                                   *)
(***************************************************************************)
THEOREM MutualExclusion == Spec => []LockDiscipline
BY CoreInit, CoreStep, LockInit, LockStep, PTL DEF Spec, CoreInv, LockInv

(***************************************************************************)
(* No read leaves alerts it has popped to another thread: one read taking  *)
(* the answers to another's read_piece calls never loses them.             *)
(***************************************************************************)
THEOREM NoAlertLeftBehind == Spec => []PoppedAlertsOwned
BY CoreInit, CoreStep, LockInit, LockStep, PTL DEF Spec, CoreInv, LockInv

-----------------------------------------------------------------------------
(* What a read has written. *)

LEMMA WrittenInit == Init => WrittenInv
BY DEF Init, WrittenInv, InLoop, Waiting, Copying

LEMMA WrittenStep == CoreInv /\ WrittenInv /\ [Next]_vars => WrittenInv'
<1> DEFINE W(u) ==
      /\ pc[u] \in InLoop \cup {"lock", "prefetch"} => read_ptr[u] = 0
      /\ pc[u] \in Waiting \cup Copying => curr_offset[u] = req[u].offset + read_ptr[u]
      /\ pc[u] = "unlock" =>
           read_ptr[u] = IF ReadLength(req[u]) > 0 THEN ReadLength(req[u]) ELSE 0
      /\ pc[u] = "done" =>
           read_ptr[u] = IF req[u].offset < get_file_size(req[u].file) /\ ReadLength(req[u]) > 0
                         THEN ReadLength(req[u]) ELSE 0
<1> SUFFICES ASSUME TypeOK, RequestInv, LoopInv, WrittenInv, [Next]_vars, NEW u \in Readers
             PROVE  W(u)'
  BY DEF CoreInv, WrittenInv
<1>1. W(u)
  BY DEF WrittenInv
<1>2. ASSUME Local(u)' = Local(u)
      PROVE  W(u)'
  BY <1>1, <1>2 DEF Local
<1>3. CASE UNCHANGED locals
  BY <1>2, <1>3 DEF locals, Local
<1>4. ASSUME NEW t \in Readers, NEW r \in Requests, ReadStart(t, r)
      PROVE  W(u)'
  <2>1. CASE u = t
    <3>1. read_ptr'[t] = 0 /\ req'[t] = r /\ pc'[t] \in {"prio", "lock", "done"}
      BY <1>4, StartFrame
    <3>2. pc'[t] = "done" => ~ (r.offset < get_file_size(r.file) /\ ReadLength(r) > 0)
      <4>1. r.offset \in Nat /\ get_file_size(r.file) \in Int
        BY ReadAssumption, LayoutAssumption, IntConversion DEF get_file_size
      <4>2. QED
        BY <1>4, <4>1 DEF ReadStart, Goto, TypeOK
    <3>3. QED
      BY <2>1, <3>1, <3>2 DEF InLoop, Waiting, Copying
  <2>2. CASE u # t
    BY <1>2, <1>4, <2>2, StartFrame
  <2>3. QED
    BY <2>1, <2>2
<1>5. ASSUME NEW t \in Readers, ReaderStep(t)
      PROVE  W(u)'
  <2>1. CASE u # t
    BY <1>2, <1>5, <2>1, ReaderFrame
  <2>2. CASE u = t
    <3>0. req' = req /\ req[t] \in Requests /\ req[t].offset < get_file_size(req[t].file)
      BY <1>5, ReaderFrame DEF RequestInv, Active
    <3>1. CASE \/ PrioHave(t) \/ PrioMissing(t) \/ RaisePiece(t) \/ LowerPrevious(t)
               \/ RaiseNext(t) \/ Lock(t)
      <4>1. /\ pc[t] \in InLoop \cup {"lock"} /\ pc'[t] \in InLoop \cup {"lock", "prefetch"}
            /\ read_ptr' = read_ptr
        BY <3>1 DEF PrioHave, PrioMissing, RaisePiece, LowerPrevious, RaiseNext, Lock, Goto,
                    InLoop, TypeOK
      <4>2. QED
        BY <1>1, <2>2, <4>1 DEF InLoop, Waiting, Copying
    <3>2. CASE Prefetch(t)
      BY <1>1, <2>2, <3>2 DEF Prefetch, InLoop, Waiting, Copying
    <3>3. CASE Rewind(t)
      <4>1. /\ read_ptr'[t] = 0 /\ curr_offset'[t] = req[t].offset
            /\ \/ pc'[t] = "wait" /\ ReadLength(req[t]) > 0
               \/ pc'[t] = "unlock" /\ ~ (ReadLength(req[t]) > 0)
        BY <1>1, <2>2, <3>0, <3>3, RequestFacts DEF Rewind, Goto, TypeOK
      <4>2. QED
        BY <2>2, <3>0, <4>1, RequestFacts DEF InLoop, Waiting, Copying
    <3>4. CASE PopAlerts(t) \/ CheckHave(t) \/ FindBuffer(t) \/ CheckBuffer(t)
      <4>1. /\ pc[t] \in Waiting \cup Copying /\ pc'[t] \in Waiting \cup Copying
            /\ UNCHANGED <<req, curr_offset, read_ptr>>
        BY <3>4 DEF PopAlerts, CheckHave, FindBuffer, CheckBuffer, Goto, Waiting, Copying, TypeOK
      <4>2. QED
        BY <1>1, <2>2, <4>1 DEF InLoop, Waiting, Copying
    <3>5. CASE HandleAlert(t)
      BY <1>3, <3>5 DEF HandleAlert
    <3>6. CASE Copy(t)
      <4>1. AtPiece(t) /\ pc[t] \in Copying
        BY <3>6 DEF Copy, Goto, AtPiece, Copying
      <4>2. ReadSize(t) \in Nat /\ ReadSize(t) <= remaining_size[t]
        BY <4>1, LoopFacts
      <4>3. /\ curr_offset[t] \in Int /\ remaining_size[t] \in Int /\ read_ptr[t] \in Int
            /\ curr_offset[t] + remaining_size[t] = req[t].offset + ReadLength(req[t])
            /\ remaining_size[t] > 0 /\ curr_offset[t] >= req[t].offset
        BY <4>1 DEF TypeOK, LoopInv, AtPiece
      <4>4. req[t].offset \in Nat /\ ReadLength(req[t]) \in Int
        BY <3>0, RequestFacts
      <4>5. /\ curr_offset'[t] = curr_offset[t] + ReadSize(t)
            /\ read_ptr'[t] = read_ptr[t] + ReadSize(t)
            /\ pc'[t] = IF More(t) THEN "wait" ELSE "unlock"
        BY <3>6 DEF Copy, Goto, Advance, TypeOK
      <4>6. curr_offset[t] = req[t].offset + read_ptr[t]
        BY <1>1, <2>2, <4>1
      <4>7. CASE More(t)
        BY <2>2, <3>0, <4>2, <4>3, <4>4, <4>5, <4>6, <4>7 DEF InLoop, Waiting, Copying
      <4>8. CASE ~ More(t)
        <5>1. ReadSize(t) = remaining_size[t]
          BY <4>2, <4>3, <4>8 DEF More
        <5>2. read_ptr'[t] = ReadLength(req[t])
          BY <4>3, <4>4, <4>5, <4>6, <5>1
        <5>3. ReadLength(req[t]) > 0
          BY <4>3, <4>4
        <5>4. QED
          BY <2>2, <3>0, <4>4, <4>5, <4>8, <5>2, <5>3 DEF InLoop, Waiting, Copying
      <4>9. QED
        BY <4>7, <4>8
    <3>7. CASE Unlock(t)
      <4>1. pc[t] = "unlock" /\ pc'[t] = "done" /\ read_ptr' = read_ptr
        BY <3>7 DEF Unlock, Goto, TypeOK
      <4>2. QED
        BY <1>1, <2>2, <3>0, <4>1 DEF InLoop, Waiting, Copying
    <3>8. QED
      BY <1>5, <3>1, <3>2, <3>3, <3>4, <3>5, <3>6, <3>7 DEF ReaderStep
  <2>3. QED
    BY <2>1, <2>2
<1>6. QED
  BY <1>3, <1>4, <1>5, SessionFrame DEF Next, Terminated

(***************************************************************************)
(* The memcpy calls of FS::read stay inside the kernel's buffer and inside *)
(* temp_buf, for every request and every layout: also where a file begins  *)
(* or ends within a piece, and where the sizes do not fit an int.          *)
(***************************************************************************)
THEOREM NoOverrun == Spec => []CopyInBounds
<1>1. CoreInv /\ WrittenInv => CopyInBounds
  <2> SUFFICES ASSUME TypeOK, RequestInv, LoopInv, WrittenInv,
                      NEW t \in Readers, pc[t] = "copy"
               PROVE  /\ Piece(t) \in Pieces
                      /\ ReadSize(t) > 0
                      /\ read_ptr[t] + ReadSize(t) <= req[t].size
                      /\ Start(t) + ReadSize(t) <= piece_size(Piece(t))
                      /\ piece_size(Piece(t)) <= PieceLength
    BY DEF CoreInv, CopyInBounds
  <2>1. AtPiece(t)
    BY DEF AtPiece, Copying
  <2>2. /\ curr_offset[t] \in Int /\ remaining_size[t] \in Int /\ read_ptr[t] \in Int
        /\ curr_offset[t] + remaining_size[t] = req[t].offset + ReadLength(req[t])
        /\ curr_offset[t] = req[t].offset + read_ptr[t]
    BY <2>1 DEF TypeOK, LoopInv, WrittenInv, AtPiece, Copying
  <2>3. /\ req[t] \in Requests /\ req[t].offset < get_file_size(req[t].file)
        /\ ReadSize(t) \in Nat /\ ReadSize(t) <= remaining_size[t]
    BY <2>1, LoopFacts
  <2>4. /\ req[t].offset \in Nat /\ req[t].size \in Nat
        /\ ReadLength(req[t]) \in Int /\ ReadLength(req[t]) <= req[t].size
    BY <2>3, RequestFacts
  <2>5. read_ptr[t] + ReadSize(t) <= req[t].size
    BY <2>2, <2>3, <2>4
  <2>6. QED
    BY <2>1, <2>5, LoopFacts
<1>2. QED
  BY <1>1, CoreInit, CoreStep, WrittenInit, WrittenStep, PTL DEF Spec

-----------------------------------------------------------------------------
(* What is wanted stays wanted. *)

(* The bytes a read asks for are in pieces of the torrent. *)
LEMMA RangePieces ==
  ASSUME NEW r \in Requests, r.offset < get_file_size(r.file),
         NEW o \in r.offset .. r.offset + ReadLength(r) - 1
  PROVE  map_file(r.file, o).piece \in Pieces
<1>1. /\ r.file \in Files /\ r.offset \in Nat /\ FileSize[r.file] \in Nat
      /\ ReadLength(r) \in Int /\ r.offset + ReadLength(r) <= FileSize[r.file]
  BY RequestFacts
<1>2. o \in Nat /\ o < FileSize[r.file]
  BY <1>1
<1>3. QED
  BY <1>1, <1>2, MapFile

(* Once there is a read, no step takes the wish for a piece back.          *)
LEMMA WantedStable ==
  ASSUME TypeOK, RequestInv, [Next]_vars, NEW u \in Readers, pc[u] # "idle",
         NEW p \in Pieces, Wanted(p)
  PROVE  Wanted(p)'
<1>1. have \subseteq have'
  BY ReaderFrame, StartFrame
     DEF Next, SilencePiece, Download, ReadPieceDone, Terminated, vars, session
<1>2. Mounted
  BY DEF RequestInv
<1>3. \/ priority' = priority
      \/ \E q \in Int, v \in {Lowest, Highest} : priority' = [priority EXCEPT ![q] = v]
  <2>1. ~ SilencePiece
    BY <1>2 DEF SilencePiece
  <2>2. ASSUME NEW q \in Pieces, Download(q) \/ ReadPieceDone(q)
        PROVE  priority' = priority
    BY <2>2 DEF Download, ReadPieceDone
  <2>3. ASSUME NEW t \in Readers, NEW r \in Requests, ReadStart(t, r)
        PROVE  priority' = priority
    BY <2>3, StartFrame DEF session
  <2>4. ASSUME NEW t \in Readers, ReaderStep(t), priority' # priority
        PROVE  \E q \in Int, v \in {Lowest, Highest} : priority' = [priority EXCEPT ![q] = v]
    <3>1. RaisePiece(t) \/ LowerPrevious(t) \/ RaiseNext(t)
      BY <2>4 DEF ReaderStep, PrioHave, PrioMissing, Lock, Prefetch, Rewind, PopAlerts,
                  HandleAlert, CheckHave, FindBuffer, CheckBuffer, Copy, Unlock, session
    <3>2. Piece(t) \in Int
      <4>1. /\ req[t].file \in Files /\ curr_offset[t] \in Int
        <5>1. req[t] \in Requests
          BY <3>1 DEF RaisePiece, LowerPrevious, RaiseNext, Goto, RequestInv
        <5>2. QED
          BY <5>1, ReadAssumption DEF TypeOK
      <4>2. FileOffset[req[t].file] \in Nat /\ PieceLength \in Nat \ {0}
        BY <4>1, LayoutAssumption
      <4>3. QED
        BY <4>1, <4>2 DEF Piece, map_file
    <3>3. QED
      BY <2>4, <3>1, <3>2 DEF RaisePiece, LowerPrevious, RaiseNext, piece_priority
  <2>5. QED
    BY <2>1, <2>2, <2>3, <2>4 DEF Next, Terminated, vars, session
<1>4. Lowest > 0 /\ Highest > 0
  BY DEF Lowest, Highest
<1>5. priority[p] > 0 => priority'[p] > 0
  BY <1>3, <1>4 DEF TypeOK
<1>6. QED
  BY <1>1, <1>5 DEF Wanted

LEMMA WantInit == Init => WantInv
BY DEF Init, WantInv, InLoop, Waiting, Copying

LEMMA WantStep == CoreInv /\ WantInv /\ [Next]_vars => WantInv'
<1> DEFINE W(u) ==
      /\ pc[u] \in InLoop => WantedTo(u, curr_offset[u])
      /\ pc[u] \in {"lowerPrev", "raiseNext"} => Wanted(Piece(u))
      /\ pc[u] \in {"lock", "prefetch"} \cup Waiting \cup Copying => WantedTo(u, ReadEnd(u))
<1> SUFFICES ASSUME TypeOK, RequestInv, LoopInv, WantInv, [Next]_vars, NEW u \in Readers
             PROVE  W(u)'
  BY DEF CoreInv, WantInv
<1>1. W(u)
  BY DEF WantInv
<1> HIDE DEF W
<1>2. ASSUME Active(u)
      PROVE  /\ \A p \in Pieces : Wanted(p) => Wanted(p)'
             /\ \A o \in req[u].offset .. ReadEnd(u) - 1 :
                   map_file(req[u].file, o).piece \in Pieces
             /\ req[u].offset \in Nat /\ ReadEnd(u) \in Int
             /\ AtPiece(u) => /\ curr_offset[u] \in Nat /\ curr_offset[u] <= ReadEnd(u)
                              /\ Piece(u) \in Pieces
  <2>1. req[u] \in Requests /\ req[u].offset < get_file_size(req[u].file) /\ pc[u] # "idle"
    BY <1>2 DEF RequestInv, Active
  <2>2. \A p \in Pieces : Wanted(p) => Wanted(p)'
    BY <2>1, WantedStable
  <2>3. req[u].offset \in Nat /\ ReadEnd(u) \in Int
    BY <2>1, RequestFacts DEF ReadEnd
  <2>4. ASSUME AtPiece(u)
        PROVE  curr_offset[u] \in Nat /\ curr_offset[u] <= ReadEnd(u) /\ Piece(u) \in Pieces
    <3>1. curr_offset[u] \in Nat /\ Piece(u) \in Pieces
      BY <2>4, LoopFacts
    <3>2. /\ remaining_size[u] \in Int /\ remaining_size[u] > 0
          /\ curr_offset[u] + remaining_size[u] = ReadEnd(u)
      BY <2>4 DEF LoopInv, AtPiece, ReadEnd, TypeOK
    <3>3. QED
      BY <2>3, <3>1, <3>2
  <2>5. ASSUME NEW o \in req[u].offset .. ReadEnd(u) - 1
        PROVE  map_file(req[u].file, o).piece \in Pieces
    <3>1. o \in req[u].offset .. req[u].offset + ReadLength(req[u]) - 1
      BY <2>1, <2>5, RequestFacts DEF ReadEnd
    <3>2. QED
      BY <2>1, <3>1, RangePieces
  <2>6. QED
    BY <2>2, <2>3, <2>4, <2>5
(* What was wanted still is, as long as the read keeps its request.        *)
<1>3. ASSUME Active(u), req'[u] = req[u]
      PROVE  /\ WantedTo(u, ReadEnd(u)) => WantedTo(u, ReadEnd(u))'
             /\ AtPiece(u) /\ curr_offset'[u] = curr_offset[u] =>
                  /\ WantedTo(u, curr_offset[u]) => WantedTo(u, curr_offset[u])'
                  /\ Wanted(Piece(u)) => Wanted(Piece(u))'
  <2>1. WantedTo(u, ReadEnd(u)) => WantedTo(u, ReadEnd(u))'
    BY <1>2, <1>3 DEF WantedTo, ReadEnd
  <2>2. ASSUME AtPiece(u), curr_offset'[u] = curr_offset[u], WantedTo(u, curr_offset[u])
        PROVE  WantedTo(u, curr_offset[u])'
    <3>1. ASSUME NEW o \in req[u].offset .. curr_offset[u] - 1
          PROVE  Wanted(map_file(req[u].file, o).piece)'
      <4>1. o \in req[u].offset .. ReadEnd(u) - 1
        BY <1>2, <1>3, <2>2
      <4>2. map_file(req[u].file, o).piece \in Pieces /\ Wanted(map_file(req[u].file, o).piece)
        BY <1>2, <1>3, <2>2, <4>1 DEF WantedTo
      <4>3. map_file(req[u].file, o)' = map_file(req[u].file, o)
        BY <1>3 DEF map_file
      <4>4. QED
        BY <1>2, <1>3, <4>2, <4>3
    <3>2. QED
      BY <1>3, <2>2, <3>1 DEF WantedTo
  <2>3. ASSUME AtPiece(u), curr_offset'[u] = curr_offset[u], Wanted(Piece(u))
        PROVE  Wanted(Piece(u))'
    <3>1. Piece(u)' = Piece(u)
      BY <1>3, <2>3 DEF Piece, map_file
    <3>2. QED
      BY <1>2, <1>3, <2>3, <3>1
  <2>4. QED
    BY <2>1, <2>2, <2>3
<1>4. ASSUME Local(u)' = Local(u)
      PROVE  W(u)'
  <2>1. pc'[u] = pc[u] /\ req'[u] = req[u] /\ curr_offset'[u] = curr_offset[u]
    BY <1>4 DEF Local
  <2>2. CASE Active(u)
    BY <1>1, <1>3, <2>1, <2>2 DEF W, AtPiece, InLoop
  <2>3. CASE ~ Active(u)
    BY <2>1, <2>3 DEF W, Active, InLoop, Waiting, Copying
  <2>4. QED
    BY <2>2, <2>3
<1>5. CASE UNCHANGED locals
  BY <1>4, <1>5 DEF locals, Local
<1>6. ASSUME NEW t \in Readers, NEW r \in Requests, ReadStart(t, r)
      PROVE  W(u)'
  <2>1. CASE u = t
    <3>1. /\ pc'[t] \in {"prio", "lock", "done"} /\ req'[t] = r
          /\ pc'[t] # "done" => r.offset < get_file_size(r.file)
          /\ pc'[t] = "prio" => curr_offset'[t] = ToInt(r.offset)
          /\ pc'[t] = "lock" => ~ (ReadLength(r) > 0)
      BY <1>6, StartFrame
    <3>2. pc'[t] # "done" => /\ r.offset \in Nat /\ ToInt(r.offset) = r.offset
                             /\ ReadLength(r) \in Int
      BY <3>1, RequestFacts
    <3>3. pc'[t] = "prio" => WantedTo(t, curr_offset[t])'
      BY <3>1, <3>2 DEF WantedTo
    <3>4. pc'[t] = "lock" => WantedTo(t, ReadEnd(t))'
      BY <3>1, <3>2 DEF WantedTo, ReadEnd
    <3>5. QED
      BY <2>1, <3>1, <3>3, <3>4 DEF W, InLoop, Waiting, Copying
  <2>2. CASE u # t
    BY <1>4, <1>6, <2>2, StartFrame
  <2>3. QED
    BY <2>1, <2>2
<1>7. ASSUME NEW t \in Readers, ReaderStep(t)
      PROVE  W(u)'
  <2>1. CASE u # t
    BY <1>4, <1>7, <2>1, ReaderFrame
  <2>2. CASE u = t
    <3>0. Active(t) /\ req' = req
      BY <1>7, ReaderFrame
    (* The first loop goes on: the bytes of the piece it leaves are wanted. *)
    <3>1. CASE PrioHave(t) \/ RaiseNext(t)
      <4>1. /\ AtPiece(t) /\ pc[t] \in InLoop /\ Advance(t)
            /\ pc'[t] = IF More(t) THEN "prio" ELSE "lock"
        BY <3>1 DEF PrioHave, RaiseNext, Goto, AtPiece, InLoop, TypeOK
      <4>2. Wanted(Piece(t)) /\ WantedTo(t, curr_offset[t])
        BY <1>1, <2>2, <3>1, <4>1 DEF W, PrioHave, RaiseNext, Goto, Wanted
      <4>3. /\ ReadSize(t) \in Nat /\ ReadSize(t) <= remaining_size[t] /\ curr_offset[t] \in Nat
            /\ \A o \in curr_offset[t] .. curr_offset[t] + ReadSize(t) - 1 :
                  map_file(req[t].file, o).piece = Piece(t)
        BY <4>1, LoopFacts
      <4>4. /\ remaining_size[t] \in Int /\ curr_offset[t] + remaining_size[t] = ReadEnd(t)
        BY <4>1 DEF LoopInv, AtPiece, ReadEnd, TypeOK
      <4>5. curr_offset'[t] = curr_offset[t] + ReadSize(t)
        BY <4>1 DEF Advance, TypeOK
      <4>6. ASSUME NEW o \in req[t].offset .. curr_offset[t] + ReadSize(t) - 1
            PROVE  Wanted(map_file(req[t].file, o).piece)'
        <5>1. o \in req[t].offset .. ReadEnd(t) - 1
          BY <1>2, <2>2, <3>0, <4>3, <4>4
        <5>2. Wanted(map_file(req[t].file, o).piece)
          <6>1. CASE o < curr_offset[t]
            BY <1>2, <2>2, <3>0, <4>2, <4>3, <6>1 DEF WantedTo
          <6>2. CASE ~ (o < curr_offset[t])
            <7>1. o \in curr_offset[t] .. curr_offset[t] + ReadSize(t) - 1
              BY <1>2, <2>2, <3>0, <4>3, <6>2
            <7>2. QED
              BY <4>2, <4>3, <7>1
          <6>3. QED
            BY <6>1, <6>2
        <5>3. map_file(req[t].file, o)' = map_file(req[t].file, o)
          BY <3>0 DEF map_file
        <5>4. QED
          BY <1>2, <2>2, <3>0, <5>1, <5>2, <5>3
      <4>7. WantedTo(t, curr_offset[t])'
        BY <3>0, <4>3, <4>5, <4>6 DEF WantedTo
      <4>8. ~ More(t) => WantedTo(t, ReadEnd(t))'
        <5>1. ~ More(t) => curr_offset[t] + ReadSize(t) = ReadEnd(t)
          BY <4>3, <4>4 DEF More
        <5>2. ReadEnd(t)' = ReadEnd(t)
          BY <3>0 DEF ReadEnd
        <5>3. QED
          BY <3>0, <4>3, <4>6, <5>1, <5>2 DEF WantedTo
      <4>9. QED
        BY <2>2, <4>1, <4>7, <4>8 DEF W, InLoop, Waiting, Copying
    <3>2. CASE PrioMissing(t) \/ RaisePiece(t) \/ LowerPrevious(t)
      <4>1. /\ AtPiece(t) /\ pc[t] \in InLoop /\ pc'[t] \in InLoop /\ curr_offset' = curr_offset
        BY <3>2 DEF PrioMissing, RaisePiece, LowerPrevious, Goto, AtPiece, InLoop, TypeOK
      <4>2. WantedTo(t, curr_offset[t])'
        BY <1>1, <1>3, <2>2, <3>0, <4>1 DEF W
      <4>3. pc'[t] \in {"lowerPrev", "raiseNext"} => Wanted(Piece(t))'
        <5>1. CASE RaisePiece(t)
          <6>1. Piece(t) \in Pieces /\ Piece(t)' = Piece(t)
            BY <3>0, <4>1, LoopFacts DEF Piece, map_file
          <6>2. priority'[Piece(t)] > 0
            BY <5>1, <6>1 DEF RaisePiece, piece_priority, Highest, TypeOK
          <6>3. QED
            BY <6>1, <6>2 DEF Wanted
        <5>2. CASE LowerPrevious(t)
          BY <1>1, <1>3, <2>2, <3>0, <4>1, <5>2 DEF W, LowerPrevious, Goto
        <5>3. CASE PrioMissing(t)
          BY <5>3 DEF PrioMissing, Goto, TypeOK
        <5>4. QED
          BY <3>2, <5>1, <5>2, <5>3
      <4>4. QED
        BY <2>2, <4>1, <4>2, <4>3 DEF W, InLoop, Waiting, Copying
    <3>3. CASE \/ Lock(t) \/ Prefetch(t) \/ Rewind(t) \/ PopAlerts(t) \/ HandleAlert(t)
               \/ CheckHave(t) \/ FindBuffer(t) \/ CheckBuffer(t) \/ Copy(t)
      <4>1. /\ pc[t] \in {"lock", "prefetch"} \cup Waiting \cup Copying
            /\ pc'[t] \in {"prefetch", "unlock"} \cup Waiting \cup Copying
        BY <3>3 DEF Lock, Prefetch, Rewind, PopAlerts, HandleAlert, CheckHave, FindBuffer,
                    CheckBuffer, Copy, Goto, Waiting, Copying, TypeOK, locals
      <4>2. WantedTo(t, ReadEnd(t))'
        BY <1>1, <1>3, <2>2, <3>0, <4>1 DEF W
      <4>3. QED
        BY <2>2, <4>1, <4>2 DEF W, InLoop, Waiting, Copying
    <3>4. CASE Unlock(t)
      BY <2>2, <3>4 DEF W, Unlock, Goto, InLoop, Waiting, Copying, TypeOK
    <3>5. QED
      BY <1>7, <3>1, <3>2, <3>3, <3>4 DEF ReaderStep
  <2>3. QED
    BY <2>1, <2>2
<1>8. QED
  BY <1>5, <1>6, <1>7, SessionFrame DEF Next, Terminated

(***************************************************************************)
(* No read waits for a piece that nobody is downloading: although the      *)
(* priorities are set without the mutex, and reads lower the pieces before *)
(* their own, what a read waits for is there or has a priority above 0.    *)
(***************************************************************************)
THEOREM WaitedForIsWanted == Spec => []NoOrphanWait
<1>1. CoreInv /\ WantInv => NoOrphanWait
  <2> SUFFICES ASSUME TypeOK, RequestInv, WantInv, NEW t \in Readers,
                      pc[t] \in {"lock", "prefetch"} \cup Waiting,
                      NEW o \in ToInt(req[t].offset) ..
                                  ToInt(req[t].offset) + ReadLength(req[t]) - 1
               PROVE  Wanted(map_file(req[t].file, o).piece)
    BY DEF CoreInv, NoOrphanWait
  <2>1. req[t] \in Requests /\ req[t].offset < get_file_size(req[t].file)
    BY DEF RequestInv, Active, Waiting
  <2>2. ToInt(req[t].offset) = req[t].offset
    BY <2>1, RequestFacts
  <2>3. WantedTo(t, ReadEnd(t))
    BY DEF WantInv
  <2>4. o \in req[t].offset .. ReadEnd(t) - 1
    BY <2>1, <2>2, RequestFacts DEF ReadEnd
  <2>5. QED
    BY <2>3, <2>4 DEF WantedTo
<1>2. QED
  BY <1>1, CoreInit, CoreStep, WantInit, WantStep, PTL DEF Spec

-----------------------------------------------------------------------------
(* Whole pieces, from the disk to the map. *)

LEMMA BufferInit == Init => BufferInv
BY DEF Init, BufferInv, BuffersWhole, Copying

(* A whole alert stays whole: what failed stays failed. *)
LEMMA WholeStable ==
  ASSUME NEW a, WholeAlert(a), failed \subseteq failed'
  PROVE  WholeAlert(a)'
BY DEF WholeAlert

LEMMA BufferStep == CoreInv /\ BufferInv /\ [Next]_vars => BufferInv'
<1> SUFFICES ASSUME TypeOK, RequestInv, LoopInv, BufferInv, [Next]_vars
             PROVE  BufferInv'
  BY DEF CoreInv
<1> DEFINE C(u) == /\ pc[u] \in Copying => Piece(u) \in have
                   /\ pc[u] = "copy" => piece_buffer_map[Piece(u)] # NoBuffer
           AllWhole(q) == \A i \in 1 .. Len(q) : WholeAlert(q[i])
<1>1. have \subseteq have' /\ failed \subseteq failed'
  BY ReaderFrame, StartFrame
     DEF Next, SilencePiece, Download, ReadPieceDone, Terminated, vars, session
<1>2. BuffersWhole /\ AllWhole(alerts) /\ AllWhole(popped) /\ \A u \in Readers : C(u)
  BY DEF BufferInv
<1>3. \A p \in Pieces : inflight[p] > 0 => p \in have
  BY DEF BufferInv
<1>4. SUFFICES /\ BuffersWhole'
               /\ \A p \in Pieces : inflight'[p] > 0 => p \in have'
               /\ AllWhole(alerts)' /\ AllWhole(popped)'
               /\ \A u \in Readers : C(u)'
  BY DEF BufferInv
<1> HIDE DEF C, AllWhole
(* The map is written by HandleAlert only. *)
<1>5. BuffersWhole' /\ (\A p \in Pieces : piece_buffer_map[p] # NoBuffer =>
                                          piece_buffer_map'[p] # NoBuffer)
  <2>1. CASE piece_buffer_map' = piece_buffer_map
    BY <1>1, <1>2, <2>1 DEF BuffersWhole
  <2>2. ASSUME NEW t \in Readers, HandleAlert(t)
        PROVE  BuffersWhole' /\ (\A p \in Pieces : piece_buffer_map[p] # NoBuffer =>
                                                   piece_buffer_map'[p] # NoBuffer)
    <3> DEFINE a == Head(popped)
    <3>1. popped \in Seq(Alert) /\ popped # << >> /\ piece_buffer_map \in [Pieces -> Nat \cup {NoBuffer}]
      BY <2>2 DEF HandleAlert, TypeOK
    <3>2. a = popped[1] /\ 1 \in 1 .. Len(popped) /\ a \in Alert
      BY <3>1
    <3>3. WholeAlert(a) /\ a.piece \in Pieces /\ a.size \in Nat
      BY <1>2, <3>2 DEF AllWhole, Alert
    <3>4. \/ piece_buffer_map' = piece_buffer_map
          \/ /\ a.type = "read_piece"
             /\ piece_buffer_map' = [piece_buffer_map EXCEPT ![a.piece] = a.size]
      BY <2>2 DEF HandleAlert
    <3> HIDE DEF a
    <3>5. CASE a.type = "read_piece" /\ piece_buffer_map' = [piece_buffer_map EXCEPT ![a.piece] = a.size]
      <4>1. a.size # NoBuffer
        BY <3>3 DEF NoBuffer
      <4>2. a.size = piece_size(a.piece) \/ a.piece \in failed
        BY <3>3, <3>5 DEF WholeAlert
      <4>3. ASSUME NEW p \in Pieces
            PROVE  /\ piece_buffer_map'[p] \in {NoBuffer, piece_size(p)} \/ p \in failed'
                   /\ piece_buffer_map[p] # NoBuffer => piece_buffer_map'[p] # NoBuffer
        BY <1>1, <1>2, <3>1, <3>3, <3>5, <4>1, <4>2 DEF BuffersWhole
      <4>4. QED
        BY <4>3 DEF BuffersWhole
    <3>6. QED
      BY <2>1, <3>4, <3>5
  <2>3. QED
    BY <2>1, <2>2, StartFrame, SessionFrame
       DEF Next, Terminated, ReaderStep, PrioHave, PrioMissing, RaisePiece, LowerPrevious,
           RaiseNext, Lock, Prefetch, Rewind, PopAlerts, CheckHave, FindBuffer, CheckBuffer,
           Copy, Unlock, shared, vars
(* A piece is read from disk only once it is there. *)
<1>6. \A p \in Pieces : inflight'[p] > 0 => p \in have'
  <2>0. inflight \in [Pieces -> Nat]
    BY DEF TypeOK
  <2>1. CASE inflight' = inflight
    BY <1>1, <1>3, <2>1
  <2>2. ASSUME NEW p \in Pieces, ReadPieceDone(p)
        PROVE  \A q \in Pieces : inflight'[q] > 0 => q \in have'
    <3>1. inflight' = [inflight EXCEPT ![p] = @ - 1] /\ inflight[p] > 0
      BY <2>2 DEF ReadPieceDone
    <3>2. QED
      BY <1>1, <1>3, <2>0, <3>1
  <2>3. ASSUME NEW t \in Readers, Prefetch(t)
        PROVE  \A q \in Pieces : inflight'[q] > 0 => q \in have'
    <3>1. PICK p \in required_pieces[t] :
             inflight' = IF p \in have THEN [inflight EXCEPT ![p] = @ + 1] ELSE inflight
      BY <2>3 DEF Prefetch, read_piece
    <3>2. QED
      BY <1>1, <1>3, <2>0, <3>1
  <2>4. ASSUME NEW t \in Readers, FindBuffer(t)
        PROVE  \A q \in Pieces : inflight'[q] > 0 => q \in have'
    <3>1. Piece(t) \in have
      BY <1>2, <2>4 DEF FindBuffer, Goto, C, Copying
    <3>2. inflight' = inflight \/ inflight' = [inflight EXCEPT ![Piece(t)] = @ + 1]
      BY <2>4 DEF FindBuffer, read_piece
    <3>3. QED
      BY <1>1, <1>3, <2>0, <3>1, <3>2
  <2>5. QED
    BY <2>1, <2>2, <2>3, <2>4, StartFrame
       DEF Next, SilencePiece, Download, Terminated, ReaderStep, PrioHave, PrioMissing,
           RaisePiece, LowerPrevious, RaiseNext, Lock, Rewind, PopAlerts, HandleAlert,
           CheckHave, CheckBuffer, Copy, Unlock, session, vars
(* The queue gets alerts from libtorrent, and is emptied by pop_alerts. *)
<1>7. ASSUME NEW q \in Seq(Alert), AllWhole(q), NEW a \in Alert, WholeAlert(a)'
      PROVE  AllWhole(Append(q, a))'
  <2>1. ASSUME NEW i \in 1 .. Len(Append(q, a))
        PROVE  WholeAlert(Append(q, a)[i])'
    <3>1. CASE i \in 1 .. Len(q)
      <4>1. Append(q, a)[i] = q[i] /\ WholeAlert(q[i])
        BY <1>7, <3>1 DEF AllWhole
      <4>2. QED
        BY <1>1, <4>1, WholeStable
    <3>2. CASE i = Len(q) + 1
      BY <1>7, <3>2
    <3>3. QED
      BY <3>1, <3>2
  <2>2. QED
    BY <2>1 DEF AllWhole
<1>8. ASSUME NEW q \in Seq(Alert), AllWhole(q)
      PROVE  AllWhole(q)'
  BY <1>1, <1>8, WholeStable DEF AllWhole
<1>9. AllWhole(alerts)'
  <2>0. alerts \in Seq(Alert) /\ AllWhole(alerts)
    BY <1>2 DEF TypeOK
  <2>1. CASE alerts' = alerts
    BY <1>8, <2>0, <2>1 DEF AllWhole
  <2>2. ASSUME NEW p \in Pieces, Download(p)
        PROVE  AllWhole(alerts)'
    <3> DEFINE a == [type |-> "piece_finished", piece |-> p, size |-> 0]
    <3>1. a \in Alert /\ WholeAlert(a)'
      BY DEF Alert, WholeAlert
    <3>2. alerts' = Append(alerts, a)
      BY <2>2 DEF Download
    <3> HIDE DEF a
    <3>3. QED
      BY <1>7, <2>0, <3>1, <3>2 DEF AllWhole
  <2>3. ASSUME NEW p \in Pieces, ReadPieceDone(p)
        PROVE  AllWhole(alerts)'
    <3>1. p \in have /\ piece_size(p) \in Nat
      BY <1>3, <2>3, PieceSize DEF ReadPieceDone
    <3>2. PICK n \in Nat :
             /\ alerts' = Append(alerts, [type |-> "read_piece", piece |-> p, size |-> n])
             /\ n = piece_size(p) \/ p \in failed'
      BY <2>3, <3>1 DEF ReadPieceDone
    <3> DEFINE a == [type |-> "read_piece", piece |-> p, size |-> n]
    <3>3. a \in Alert /\ WholeAlert(a)'
      BY <3>2 DEF Alert, WholeAlert
    <3>4. alerts' = Append(alerts, a)
      BY <3>2
    <3> HIDE DEF a
    <3>5. QED
      BY <1>7, <2>0, <3>3, <3>4 DEF AllWhole
  <2>4. ASSUME NEW t \in Readers, PopAlerts(t)
        PROVE  AllWhole(alerts)'
    BY <2>4 DEF PopAlerts, AllWhole
  <2>5. QED
    BY <2>1, <2>2, <2>3, <2>4, StartFrame
       DEF Next, SilencePiece, Terminated, ReaderStep, PrioHave, PrioMissing,
           RaisePiece, LowerPrevious, RaiseNext, Lock, Prefetch, Rewind, HandleAlert,
           CheckHave, FindBuffer, CheckBuffer, Copy, Unlock, session, vars
<1>10. AllWhole(popped)'
  <2>0. /\ popped \in Seq(Alert) /\ AllWhole(popped)
        /\ alerts \in Seq(Alert) /\ AllWhole(alerts)
    BY <1>2 DEF TypeOK
  <2>1. CASE popped' = popped
    BY <1>8, <2>0, <2>1 DEF AllWhole
  <2>2. ASSUME NEW t \in Readers, PopAlerts(t)
        PROVE  AllWhole(popped)'
    <3>1. popped' = alerts
      BY <2>2 DEF PopAlerts
    <3>2. QED
      BY <1>8, <2>0, <3>1 DEF AllWhole
  <2>3. ASSUME NEW t \in Readers, HandleAlert(t)
        PROVE  AllWhole(popped)'
    <3>1. popped' = Tail(popped) /\ popped # << >>
      BY <2>3 DEF HandleAlert
    <3>2. Tail(popped) \in Seq(Alert)
      BY <2>0, <3>1
    <3>3. ASSUME NEW i \in 1 .. Len(Tail(popped))
          PROVE  WholeAlert(Tail(popped)[i])
      <4>1. Tail(popped)[i] = popped[i + 1] /\ i + 1 \in 1 .. Len(popped)
        BY <2>0, <3>1
      <4>2. QED
        BY <2>0, <4>1 DEF AllWhole
    <3>4. AllWhole(Tail(popped))
      BY <3>3 DEF AllWhole
    <3>5. QED
      BY <1>8, <3>1, <3>2, <3>4 DEF AllWhole
  <2>4. QED
    BY <2>1, <2>2, <2>3, StartFrame, SessionFrame
       DEF Next, Terminated, ReaderStep, PrioHave, PrioMissing, RaisePiece, LowerPrevious,
           RaiseNext, Lock, Prefetch, Rewind, CheckHave, FindBuffer, CheckBuffer, Copy,
           Unlock, shared, vars
(* A read copies from a piece that is there, out of a buffer it has seen. *)
<1>11. ASSUME NEW u \in Readers
       PROVE  C(u)'
  <2>0. C(u) /\ (pc[u] \in Copying => Piece(u) \in Pieces)
    BY <1>2, LoopFacts DEF AtPiece
  <2>1. ASSUME req'[u] = req[u], curr_offset'[u] = curr_offset[u],
               pc'[u] \in Copying => pc[u] \in Copying,
               pc'[u] = "copy" => pc[u] = "copy"
        PROVE  C(u)'
    <3>1. Piece(u)' = Piece(u)
      BY <2>1 DEF Piece, map_file
    <3>2. QED
      BY <1>1, <1>5, <2>0, <2>1, <3>1 DEF C, Copying
  <2>2. CASE UNCHANGED locals
    BY <2>1, <2>2 DEF locals
  <2>3. ASSUME NEW t \in Readers, NEW r \in Requests, ReadStart(t, r)
        PROVE  C(u)'
    <3>1. CASE u = t
      BY <2>3, <3>1, StartFrame DEF C, Copying
    <3>2. CASE u # t
      BY <2>1, <2>3, <3>2, StartFrame DEF Local
    <3>3. QED
      BY <3>1, <3>2
  <2>4. ASSUME NEW t \in Readers, ReaderStep(t), u # t
        PROVE  C(u)'
    BY <2>1, <2>4, ReaderFrame DEF Local
  <2>5. CASE ReaderStep(u)
    <3>1. CASE \/ PrioHave(u) \/ PrioMissing(u) \/ RaisePiece(u) \/ LowerPrevious(u)
               \/ RaiseNext(u) \/ Lock(u) \/ Prefetch(u) \/ Rewind(u) \/ Copy(u) \/ Unlock(u)
      <4>1. pc'[u] \notin Copying
        BY <3>1 DEF PrioHave, PrioMissing, RaisePiece, LowerPrevious, RaiseNext, Lock,
                    Prefetch, Rewind, Copy, Unlock, Goto, Copying, TypeOK
      <4>2. QED
        BY <4>1 DEF C, Copying
    <3>2. CASE PopAlerts(u) \/ HandleAlert(u)
      <4>1. /\ req' = req /\ curr_offset' = curr_offset
            /\ pc'[u] \in Copying => pc[u] \in Copying
            /\ pc'[u] # "copy"
        BY <3>2 DEF PopAlerts, HandleAlert, Goto, Copying, TypeOK, locals
      <4>2. QED
        BY <2>1, <4>1
    <3>3. CASE CheckHave(u) \/ FindBuffer(u) \/ CheckBuffer(u)
      <4>1. Piece(u)' = Piece(u) /\ UNCHANGED <<have, piece_buffer_map>>
        BY <3>3 DEF CheckHave, FindBuffer, CheckBuffer, Piece, map_file, session, shared
      <4>2. pc'[u] \in Copying => Piece(u) \in have
        BY <2>0, <3>3 DEF C, CheckHave, FindBuffer, CheckBuffer, Goto, Copying, TypeOK
      <4>3. pc'[u] = "copy" => piece_buffer_map[Piece(u)] # NoBuffer
        BY <3>3 DEF CheckHave, FindBuffer, CheckBuffer, Goto, TypeOK
      <4>4. QED
        BY <4>1, <4>2, <4>3 DEF C
    <3>4. QED
      BY <2>5, <3>1, <3>2, <3>3 DEF ReaderStep
  <2>6. QED
    BY <2>2, <2>3, <2>4, <2>5, SessionFrame DEF Next, Terminated
<1>12. QED
  BY <1>5, <1>6, <1>9, <1>10, <1>11

(***************************************************************************)
(* Every buffer in piece_buffer_map is a whole piece of the torrent, or of *)
(* a piece whose disk read failed: no read is ever served from an alert of *)
(* another kind or from a piece that was not there.                        *)
(***************************************************************************)
THEOREM WholeBuffers == Spec => []BuffersWhole
BY CoreInit, CoreStep, BufferInit, BufferStep, PTL DEF Spec, BufferInv

-----------------------------------------------------------------------------
(* The bytes a read returns. *)

LEMMA BytesInit == Init => BytesInv
BY DEF Init, BytesInv

(* What one turn of the second loop copies. *)
LEMMA CopiedBytes ==
  ASSUME CoreInv, WrittenInv, BufferInv, NEW t \in Readers, pc[t] = "copy",
         NEW i \in read_ptr[t] .. read_ptr[t] + ReadSize(t) - 1
  PROVE  /\ i \in 0 .. req[t].size - 1
         /\ \/ TempBuf(Piece(t), Start(t) + (i - read_ptr[t])) = FileByte(req[t], i)
            \/ FileByte(req[t], i) \div PieceLength \in failed
<1>1. TypeOK /\ RequestInv /\ LoopInv /\ AtPiece(t)
  BY DEF CoreInv, AtPiece, Copying
<1> DEFINE f == req[t].file
           o == req[t].offset
           w == read_ptr[t]
           c == curr_offset[t]
           p == Piece(t)
           s == Start(t)
           n == ReadSize(t)
<1>2. /\ req[t] \in Requests /\ o < get_file_size(f)
      /\ c \in Nat /\ p \in Pieces /\ s \in Nat /\ n \in Nat /\ n <= remaining_size[t]
      /\ s + n <= piece_size(p) /\ piece_size(p) \in Nat
      /\ p * PieceLength + s = FileOffset[f] + c
      /\ \A x \in c .. c + n - 1 : map_file(f, x).piece = p
  BY <1>1, LoopFacts
<1>3. /\ w \in Int /\ remaining_size[t] \in Int
      /\ c + remaining_size[t] = o + ReadLength(req[t]) /\ c >= o
      /\ c = o + w
  BY <1>1 DEF TypeOK, LoopInv, WrittenInv, AtPiece, Copying
<1>4. /\ f \in Files /\ o \in Nat /\ req[t].size \in Nat /\ FileOffset[f] \in Nat
      /\ ReadLength(req[t]) \in Int /\ ReadLength(req[t]) <= req[t].size
  BY <1>2, RequestFacts
<1>5. p \in Nat /\ PieceLength \in Nat
  BY <1>2, NumPieces, LayoutAssumption DEF Pieces
<1>6. /\ p \in failed \/ piece_buffer_map[p] = piece_size(p)
  BY <1>2 DEF BufferInv, BuffersWhole
<1>7. FileByte(req[t], i) = FileOffset[f] + o + i
  BY DEF FileByte
<1>8. TempBuf(p, s + (i - w)) = IF s + (i - w) < piece_buffer_map[p]
                                THEN p * PieceLength + (s + (i - w)) ELSE NoByte
  BY DEF TempBuf
<1> HIDE DEF f, o, w, c, p, s, n
<1>9. i \in w .. w + n - 1
  BY DEF w, n
<1>10. i \in 0 .. req[t].size - 1
  BY <1>2, <1>3, <1>4, <1>9
<1>11. CASE piece_buffer_map[p] = piece_size(p)
  <2>1. s + (i - w) < piece_size(p)
    BY <1>2, <1>3, <1>9
  <2>2. p * PieceLength \in Nat
    BY <1>5
  <2>3. p * PieceLength + (s + (i - w)) = FileOffset[f] + o + i
    BY <1>2, <1>3, <1>4, <1>9, <2>2
  <2>4. QED
    BY <1>7, <1>8, <1>10, <1>11, <2>1, <2>3 DEF p, s, w
<1>12. CASE p \in failed
  <2>1. o + i \in c .. c + n - 1
    BY <1>2, <1>3, <1>4, <1>9
  <2>2. (FileOffset[f] + (o + i)) \div PieceLength = p
    BY <1>2, <2>1 DEF map_file
  <2>3. FileOffset[f] + (o + i) = FileOffset[f] + o + i
    BY <1>4, <1>10
  <2>4. QED
    BY <1>7, <1>10, <1>12, <2>2, <2>3
<1>13. QED
  BY <1>6, <1>11, <1>12

LEMMA BytesStep ==
  CoreInv /\ WrittenInv /\ BufferInv /\ BytesInv /\ [Next]_vars => BytesInv'
<1> DEFINE Right(u, i) == \/ buf[u][i] = FileByte(req[u], i)
                          \/ FileByte(req[u], i) \div PieceLength \in failed
<1> SUFFICES ASSUME CoreInv, WrittenInv, BufferInv, BytesInv, [Next]_vars,
                    NEW u \in Readers, pc'[u] # "idle", NEW i \in 0 .. read_ptr'[u] - 1
             PROVE  Right(u, i)'
  BY DEF BytesInv
<1>0. TypeOK /\ RequestInv /\ LoopInv
  BY DEF CoreInv
<1>1. failed \subseteq failed'
  BY <1>0, ReaderFrame, StartFrame
     DEF Next, SilencePiece, Download, ReadPieceDone, Terminated, vars, session
<1>2. pc[u] # "idle" => \A j \in 0 .. read_ptr[u] - 1 : Right(u, j)
  BY DEF BytesInv
<1>3. ASSUME pc[u] # "idle", req'[u] = req[u], i \in 0 .. read_ptr[u] - 1,
             buf'[u][i] = buf[u][i]
      PROVE  Right(u, i)'
  BY <1>1, <1>2, <1>3 DEF FileByte
<1>4. ASSUME Local(u)' = Local(u)
      PROVE  Right(u, i)'
  <2>1. /\ pc'[u] = pc[u] /\ req'[u] = req[u] /\ read_ptr'[u] = read_ptr[u]
        /\ buf'[u] = buf[u]
    BY <1>4 DEF Local
  <2>2. QED
    BY <1>3, <2>1
<1>5. CASE UNCHANGED locals
  BY <1>4, <1>5 DEF locals, Local
<1>6. ASSUME NEW t \in Readers, NEW r \in Requests, ReadStart(t, r)
      PROVE  Right(u, i)'
  <2>1. CASE u = t
    <3>1. read_ptr'[t] = 0
      BY <1>0, <1>6, StartFrame
    <3>2. QED
      BY <2>1, <3>1
  <2>2. CASE u # t
    BY <1>0, <1>4, <1>6, <2>2, StartFrame
  <2>3. QED
    BY <2>1, <2>2
<1>7. ASSUME NEW t \in Readers, ReaderStep(t)
      PROVE  Right(u, i)'
  <2>1. CASE u # t
    BY <1>0, <1>4, <1>7, <2>1, ReaderFrame
  <2>2. CASE u = t /\ ~ Copy(t)
    <3>1. pc[t] # "idle" /\ req' = req
      BY <1>0, <1>7, ReaderFrame DEF Active
    <3>2. read_ptr' = read_ptr /\ buf' = buf
      BY <1>7, <2>2 DEF ReaderStep, PrioHave, PrioMissing, RaisePiece, LowerPrevious,
           RaiseNext, Lock, Prefetch, Rewind, PopAlerts, HandleAlert, CheckHave, FindBuffer,
           CheckBuffer, Unlock, locals
    <3>3. QED
      BY <1>3, <2>2, <3>1, <3>2
  <2>3. CASE u = t /\ Copy(t)
    <3>1. pc[t] = "copy" /\ req' = req /\ AtPiece(t)
      BY <2>3 DEF Copy, Goto, AtPiece, Copying
    <3>2. /\ ReadSize(t) \in Nat /\ read_ptr[t] \in Int
          /\ req[t] \in Requests /\ buf[t] \in [0 .. req[t].size - 1 -> Int]
      BY <1>0, <3>1, LoopFacts DEF TypeOK
    <3>3. read_ptr'[t] = read_ptr[t] + ReadSize(t)
      BY <1>0, <2>3 DEF Copy, TypeOK
    <3>4. buf'[t] = [j \in 0 .. req[t].size - 1 |->
                       IF read_ptr[t] <= j /\ j < read_ptr[t] + ReadSize(t)
                         THEN TempBuf(Piece(t), Start(t) + (j - read_ptr[t]))
                         ELSE buf[t][j]]
      BY <1>0, <2>3, <3>2 DEF Copy, TypeOK
    <3>5. CASE i \in read_ptr[t] .. read_ptr[t] + ReadSize(t) - 1
      <4>1. /\ i \in 0 .. req[t].size - 1
            /\ \/ TempBuf(Piece(t), Start(t) + (i - read_ptr[t])) = FileByte(req[t], i)
               \/ FileByte(req[t], i) \div PieceLength \in failed
        BY <3>1, <3>5, CopiedBytes
      <4>2. buf'[t][i] = TempBuf(Piece(t), Start(t) + (i - read_ptr[t]))
        BY <3>2, <3>4, <3>5, <4>1
      <4>3. FileByte(req[t], i)' = FileByte(req[t], i)
        BY <3>1 DEF FileByte
      <4>4. QED
        BY <1>1, <2>3, <4>1, <4>2, <4>3
    <3>6. CASE ~ (i \in read_ptr[t] .. read_ptr[t] + ReadSize(t) - 1)
      <4>1. i \in Nat /\ i < read_ptr[t]
        BY <2>3, <3>2, <3>3, <3>6
      <4>2. i \in 0 .. req[t].size - 1
        <5>1. read_ptr[t] \in read_ptr[t] .. read_ptr[t] + ReadSize(t) - 1
          BY <1>0, <3>1, <3>2, LoopFacts
        <5>2. read_ptr[t] \in 0 .. req[t].size - 1
          BY <3>1, <5>1, CopiedBytes
        <5>3. req[t].size \in Nat
          BY <3>2, ReadAssumption
        <5>4. QED
          BY <3>2, <4>1, <5>2, <5>3
      <4>3. buf'[t][i] = buf[t][i]
        BY <3>2, <3>4, <4>1, <4>2
      <4>4. QED
        BY <1>3, <2>3, <3>1, <3>2, <4>1, <4>3
    <3>7. QED
      BY <3>5, <3>6
  <2>4. QED
    BY <2>1, <2>2, <2>3
<1>8. QED
  BY <1>5, <1>6, <1>7, SessionFrame DEF Next, Terminated

(***************************************************************************)
(* A read returns the bytes of the file from its offset on, for any mix of *)
(* reads and any order of downloads, disk reads and alerts: the only wrong *)
(* bytes are of pieces whose disk read failed.                             *)
(***************************************************************************)
THEOREM CorrectData == Spec => []DataCorrect
<1>1. BytesInv => DataCorrect
  BY DEF BytesInv, DataCorrect
<1>2. QED
  BY <1>1, CoreInit, CoreStep, WrittenInit, WrittenStep, BufferInit, BufferStep, BytesInit,
     BytesStep, PTL DEF Spec

(***************************************************************************)
(* When no disk read fails, what a read returns is the file byte for byte: *)
(* what tests/test1.c compares.                                            *)
(***************************************************************************)
THEOREM ErrorFreeReads == ~ DiskErrors => (Spec => []ReadsMatchFile)
<1> SUFFICES ASSUME ~ DiskErrors
             PROVE  Spec => []ReadsMatchFile
  OBVIOUS
<1>1. Init => failed = {}
  BY DEF Init
<1>2. CoreInv /\ failed = {} /\ [Next]_vars => (failed = {})'
  BY ReaderFrame, StartFrame
     DEF CoreInv, Next, SilencePiece, Download, ReadPieceDone, Terminated, vars
<1>3. BytesInv /\ failed = {} => ReadsMatchFile
  BY DEF BytesInv, ReadsMatchFile
<1>4. QED
  BY <1>1, <1>2, <1>3, CoreInit, CoreStep, WrittenInit, WrittenStep, BufferInit, BufferStep,
     BytesInit, BytesStep, PTL DEF Spec

(***************************************************************************)
(* As long as the sizes fit an int, a read is never short: it returns what *)
(* was asked for or what is left of the file.  Without that hypothesis the *)
(* conversions in get_file_size and read make FullRead false.              *)
(***************************************************************************)
THEOREM NoShortReads == SizesFit => (Spec => []FullRead)
<1> SUFFICES ASSUME SizesFit
             PROVE  Spec => []FullRead
  OBVIOUS
<1>1. CoreInv /\ WrittenInv => FullRead
  <2> SUFFICES ASSUME RequestInv, WrittenInv, NEW t \in Readers, pc[t] = "done"
               PROVE  read_ptr[t] = IF req[t].offset >= FileSize[req[t].file] THEN 0
                                    ELSE MinOf(req[t].size, FileSize[req[t].file] - req[t].offset)
    BY DEF CoreInv, FullRead
  <2> DEFINE r == req[t]
  <2>1. r \in Requests
    BY DEF RequestInv
  <2>2. read_ptr[t] = IF r.offset < get_file_size(r.file) /\ ReadLength(r) > 0
                      THEN ReadLength(r) ELSE 0
    BY DEF WrittenInv
  <2> HIDE DEF r
  <2>3. r.file \in Files /\ r.offset \in Nat /\ r.size \in Nat
    BY <2>1, ReadAssumption
  <2>4. FileSize[r.file] \in Nat
    BY <2>3, LayoutAssumption
  <2>5. FileSize[r.file] < IntRange \div 2 /\ r.size < IntRange \div 2
    BY <2>1, <2>3 DEF SizesFit
  <2>6. get_file_size(r.file) = FileSize[r.file] /\ ToInt(r.size) = r.size
    BY <2>3, <2>4, <2>5, IntConversion DEF get_file_size
  <2>7. CASE r.offset < FileSize[r.file]
    <3>1. ToInt(r.offset) = r.offset
      BY <2>1, <2>6, <2>7, RequestFacts
    <3>2. ReadLength(r) = MinOf(r.size, FileSize[r.file] - r.offset)
      BY <2>6, <3>1 DEF ReadLength
    <3>3. QED
      BY <2>2, <2>3, <2>4, <2>6, <2>7, <3>2 DEF MinOf, r
  <2>8. CASE ~ (r.offset < FileSize[r.file])
    BY <2>2, <2>3, <2>4, <2>6, <2>8 DEF r
  <2>9. QED
    BY <2>7, <2>8
<1>2. QED
  BY <1>1, CoreInit, CoreStep, WrittenInit, WrittenStep, PTL DEF Spec

-----------------------------------------------------------------------------
(***************************************************************************)
(* How often a piece is read from disk, and so how many buffers can leak,  *)
(* and that no answer is lost, for every number of threads and of reads.   *)
(***************************************************************************)
USE DEF Underway

(* What bounds the disk reads of a piece only grows. *)

LEMMA PrefetchedFinite ==
  ASSUME NEW p
  PROVE  /\ IsFiniteSet(Prefetched(p)) /\ Cardinality(Prefetched(p)) \in Nat
         /\ Cardinality(Readers) \in Nat
         /\ Cardinality(Prefetched(p)) <= Cardinality(Readers)
<1>1. IsFiniteSet(Readers) /\ Prefetched(p) \in SUBSET Readers
  BY ReadAssumption DEF Prefetched
<1>2. QED
  BY <1>1, FS_Subset, FS_CardinalityType

(* A thread adds a piece to the required ones only when it is not there. *)
LEMMA PrefetchedGrows ==
  ASSUME TypeOK, [Next]_vars, NEW p \in Pieces
  PROVE  Prefetched(p) \subseteq Prefetched(p)'
<1> SUFFICES ASSUME NEW u \in Readers, p \in have, p \notin required_pieces[u]
             PROVE  p \in have' /\ p \notin required_pieces'[u]
  BY DEF Prefetched
<1>0. required_pieces \in [Readers -> SUBSET Pieces]
  BY DEF TypeOK
<1>1. CASE SilencePiece \/ (\E q \in Pieces : ReadPieceDone(q)) \/ UNCHANGED vars
  BY <1>1 DEF SilencePiece, ReadPieceDone, vars, session, locals
<1>2. ASSUME NEW q \in Pieces, Download(q)
      PROVE  p \in have' /\ p \notin required_pieces'[u]
  BY <1>2 DEF Download, locals
<1>3. ASSUME NEW t \in Readers, NEW r \in Requests, ReadStart(t, r)
      PROVE  p \in have' /\ p \notin required_pieces'[u]
  BY <1>0, <1>3 DEF ReadStart, session
<1>4. ASSUME NEW t \in Readers, ReaderStep(t)
      PROVE  p \in have' /\ p \notin required_pieces'[u]
  <2>1. have' = have
    BY <1>4, ReaderFrame
  <2>2. CASE PrioMissing(t)
    BY <1>0, <2>1, <2>2 DEF PrioMissing
  <2>3. CASE Prefetch(t)
    BY <1>0, <2>1, <2>3 DEF Prefetch
  <2>4. CASE ~ PrioMissing(t) /\ ~ Prefetch(t)
    <3>1. required_pieces' = required_pieces
      BY <1>4, <2>4 DEF ReaderStep, PrioHave, RaisePiece, LowerPrevious, RaiseNext, Lock,
           Rewind, PopAlerts, HandleAlert, CheckHave, FindBuffer, CheckBuffer, Copy, Unlock,
           locals
    <3>2. QED
      BY <2>1, <3>1
  <2>5. QED
    BY <2>2, <2>3, <2>4
<1>5. QED
  BY <1>1, <1>2, <1>3, <1>4 DEF Next, Terminated

(* No key leaves piece_buffer_map. *)
LEMMA BufferKept ==
  ASSUME TypeOK, [Next]_vars, NEW p \in Pieces, piece_buffer_map[p] # NoBuffer
  PROVE  piece_buffer_map'[p] # NoBuffer
<1>0. piece_buffer_map \in [Pieces -> Nat \cup {NoBuffer}] /\ popped \in Seq(Alert)
  BY DEF TypeOK
<1>1. ASSUME NEW t \in Readers, HandleAlert(t)
      PROVE  piece_buffer_map'[p] # NoBuffer
  <2>1. Head(popped) \in Alert
    BY <1>0, <1>1 DEF HandleAlert
  <2>2. Head(popped).size \in Nat
    BY <2>1 DEF Alert
  <2>3. QED
    BY <1>0, <1>1, <2>2 DEF HandleAlert, NoBuffer
<1>2. CASE piece_buffer_map' = piece_buffer_map
  BY <1>2
<1>3. ASSUME NEW t \in Readers, ReaderStep(t), ~ HandleAlert(t)
      PROVE  piece_buffer_map' = piece_buffer_map
  BY <1>3 DEF ReaderStep, PrioHave, PrioMissing, RaisePiece, LowerPrevious, RaiseNext, Lock,
       Prefetch, Rewind, PopAlerts, CheckHave, FindBuffer, CheckBuffer, Copy, Unlock, shared
<1>4. ASSUME NEW t \in Readers, NEW r \in Requests, ReadStart(t, r)
      PROVE  piece_buffer_map' = piece_buffer_map
  BY <1>4, StartFrame DEF shared
<1>5. QED
  BY <1>1, <1>2, <1>3, <1>4, SessionFrame DEF Next, Terminated, shared

(* A thread that fetches a piece does so until its buffer is there. *)
LEMMA FetchKept ==
  ASSUME TypeOK, [Next]_vars, NEW p \in Pieces, Fetching(p)
  PROVE  Fetching(p)' \/ piece_buffer_map[p] # NoBuffer
<1> PICK u \in Readers : pc[u] \in {"fetch", "fetchPop"} /\ Piece(u) = p
  BY DEF Fetching
<1>0. pc \in [Readers -> Labels]
  BY DEF TypeOK
<1>1. ASSUME pc'[u] \in {"fetch", "fetchPop"}, req'[u] = req[u],
             curr_offset'[u] = curr_offset[u]
      PROVE  Fetching(p)'
  BY <1>1 DEF Fetching, Piece
<1>2. ASSUME Local(u)' = Local(u)
      PROVE  Fetching(p)'
  BY <1>1, <1>2 DEF Local
<1>3. CASE UNCHANGED locals
  BY <1>1, <1>3 DEF locals
<1>4. ASSUME NEW t \in Readers, NEW r \in Requests, ReadStart(t, r)
      PROVE  Fetching(p)'
  BY <1>2, <1>4, StartFrame
<1>5. ASSUME NEW t \in Readers, ReaderStep(t)
      PROVE  Fetching(p)' \/ piece_buffer_map[p] # NoBuffer
  <2>1. CASE u # t
    BY <1>2, <1>5, <2>1, ReaderFrame
  <2>2. CASE u = t
    <3>1. PopAlerts(t) \/ HandleAlert(t) \/ CheckBuffer(t)
      BY <1>5, <2>2 DEF ReaderStep, PrioHave, PrioMissing, RaisePiece, LowerPrevious,
           RaiseNext, Lock, Prefetch, Rewind, CheckHave, FindBuffer, Copy, Unlock, Goto
    <3>2. CASE PopAlerts(t)
      BY <1>0, <1>1, <2>2, <3>2 DEF PopAlerts, Goto
    <3>3. CASE HandleAlert(t)
      BY <1>1, <2>2, <3>3 DEF HandleAlert, locals
    <3>4. CASE CheckBuffer(t)
      BY <1>0, <1>1, <2>2, <3>4 DEF CheckBuffer, Goto
    <3>5. QED
      BY <3>1, <3>2, <3>3, <3>4
  <2>3. QED
    BY <2>1, <2>2
<1>6. QED
  BY <1>3, <1>4, <1>5, SessionFrame DEF Next, Terminated

LEMMA BoundGrows ==
  ASSUME TypeOK, [Next]_vars, NEW p \in Pieces
  PROVE  /\ Cardinality(Prefetched(p)) \in Nat /\ Cardinality(Prefetched(p))' \in Nat
         /\ Cardinality(Prefetched(p)) <= Cardinality(Prefetched(p))'
         /\ Fetched(p) \in 0 .. 1 /\ Fetched(p)' \in 0 .. 1
         /\ Fetched(p) <= Fetched(p)'
<1>1. Prefetched(p) \subseteq Prefetched(p)'
  BY PrefetchedGrows
<1>2. /\ IsFiniteSet(Prefetched(p)) /\ Cardinality(Prefetched(p)) \in Nat
      /\ IsFiniteSet(Prefetched(p)') /\ Cardinality(Prefetched(p)') \in Nat
  <2>1. IsFiniteSet(Readers) /\ Prefetched(p)' \in SUBSET Readers
    BY ReadAssumption DEF Prefetched
  <2>2. QED
    BY <2>1, PrefetchedFinite, FS_Subset, FS_CardinalityType
<1>3. Cardinality(Prefetched(p)) <= Cardinality(Prefetched(p)')
  BY <1>1, <1>2, FS_Subset
<1>4. Fetched(p) = 1 => Fetched(p)' = 1
  BY BufferKept, FetchKept DEF Fetched
<1>5. Fetched(p) \in 0 .. 1 /\ Fetched(p)' \in 0 .. 1
  BY DEF Fetched
<1>6. QED
  BY <1>2, <1>3, <1>4, <1>5

-----------------------------------------------------------------------------
(* Every step that begins a disk read raises the bound. *)

LEMMA DiskReadsType ==
  ASSUME TypeOK, NEW p \in Pieces
  PROVE  /\ inflight[p] \in Nat /\ allocated[p] \in Nat
         /\ Answers(alerts, p) \in Nat /\ Answers(popped, p) \in Nat
         /\ DiskReads(p) \in Nat
<1>1. inflight[p] \in Nat /\ allocated[p] \in Nat
  BY DEF TypeOK
<1>2. Answers(alerts, p) \in Nat /\ Answers(popped, p) \in Nat
  BY AnswerSetFinite DEF TypeOK
<1>3. QED
  BY <1>1, <1>2 DEF DiskReads

(* What libtorrent does moves a disk read from a call to its answer. *)
LEMMA SessionCount ==
  ASSUME TypeOK, NEW p \in Pieces, NEW q \in Pieces, Download(q) \/ ReadPieceDone(q)
  PROVE  DiskReads(p)' = DiskReads(p)
<1>0. /\ alerts \in Seq(Alert) /\ inflight \in [Pieces -> Nat]
      /\ inflight[p] \in Nat /\ allocated[p] \in Nat
      /\ Answers(alerts, p) \in Nat /\ Answers(popped, p) \in Nat
  BY DiskReadsType DEF TypeOK
<1>1. CASE Download(q)
  <2> DEFINE a == [type |-> "piece_finished", piece |-> q, size |-> 0]
  <2>1. a \in Alert /\ a.type # "read_piece"
    BY DEF Alert
  <2>2. alerts' = Append(alerts, a) /\ UNCHANGED <<inflight, popped, allocated>>
    BY <1>1 DEF Download, shared
  <2> HIDE DEF a
  <2>3. Answers(alerts', p) = Answers(alerts, p)
    BY <1>0, <2>1, <2>2, AnswersAppend
  <2>4. QED
    BY <2>2, <2>3 DEF DiskReads
<1>2. CASE ReadPieceDone(q)
  <2>1. PICK n \in Nat :
           alerts' = Append(alerts, [type |-> "read_piece", piece |-> q, size |-> n])
    BY <1>2, PieceSize DEF ReadPieceDone
  <2> DEFINE a == [type |-> "read_piece", piece |-> q, size |-> n]
  <2>2. a \in Alert /\ a.type = "read_piece" /\ a.piece = q
    BY DEF Alert
  <2>3. alerts' = Append(alerts, a)
    BY <2>1
  <2> HIDE DEF a
  <2>4. Answers(alerts', p) = Answers(alerts, p) + (IF q = p THEN 1 ELSE 0)
    BY <1>0, <2>2, <2>3, AnswersAppend
  <2>5. /\ inflight[q] > 0 /\ inflight' = [inflight EXCEPT ![q] = @ - 1]
        /\ UNCHANGED <<popped, allocated>>
    BY <1>2 DEF ReadPieceDone, shared
  <2>6. inflight'[p] = inflight[p] - (IF q = p THEN 1 ELSE 0)
    BY <1>0, <2>5
  <2>7. QED
    BY <1>0, <2>4, <2>5, <2>6 DEF DiskReads
<1>3. QED
  BY <1>1, <1>2

(* A read's handling of alerts moves a disk read from an answer to a buffer. *)
LEMMA AlertCount ==
  ASSUME TypeOK, LockInv, NEW p \in Pieces, NEW t \in Readers, PopAlerts(t) \/ HandleAlert(t)
  PROVE  DiskReads(p)' = DiskReads(p)
<1>0. /\ inflight[p] \in Nat /\ allocated[p] \in Nat
      /\ Answers(alerts, p) \in Nat /\ Answers(popped, p) \in Nat
      /\ popped \in Seq(Alert) /\ allocated \in [Pieces -> Nat]
  BY DiskReadsType DEF TypeOK
<1>1. CASE PopAlerts(t)
  <2>1. pc[t] \in {"waitPop", "fetchPop"}
    BY <1>1 DEF PopAlerts, Goto
  <2>2. fsmtx = t
    BY <2>1 DEF LockInv, LockDiscipline, Critical, Waiting, Copying
  <2>3. popped = << >>
    BY <2>1, <2>2 DEF LockInv, PoppedAlertsOwned
  <2>4. /\ popped' = alerts /\ alerts' = << >>
        /\ UNCHANGED <<inflight, allocated>>
    BY <1>1 DEF PopAlerts
  <2>5. Answers(<< >>, p) = 0
    BY AnswersEmpty
  <2>6. QED
    BY <1>0, <2>3, <2>4, <2>5 DEF DiskReads
<1>2. CASE HandleAlert(t)
  <2> DEFINE a == Head(popped)
  <2>1. popped # << >> /\ popped' = Tail(popped) /\ UNCHANGED <<alerts, inflight>>
    BY <1>2 DEF HandleAlert, session
  <2>2. Answers(popped, p) =
          Answers(popped', p) + (IF a.type = "read_piece" /\ a.piece = p THEN 1 ELSE 0)
    BY <1>0, <2>1, AnswersTail
  <2>3. popped' \in Seq(Alert)
    BY <1>0, <2>1
  <2>4. Answers(popped', p) \in Nat
    BY <2>3, AnswerSetFinite
  <2>5. allocated' = IF a.type = "read_piece"
                       THEN [allocated EXCEPT ![a.piece] = @ + 1] ELSE allocated
    BY <1>2 DEF HandleAlert
  <2> HIDE DEF a
  <2>6. allocated'[p] = allocated[p] + (IF a.type = "read_piece" /\ a.piece = p THEN 1 ELSE 0)
    BY <1>0, <2>5
  <2>7. Answers(popped, p) + allocated[p] = Answers(popped', p) + allocated'[p]
    BY <1>0, <2>2, <2>4, <2>6
  <2>8. allocated'[p] \in Nat
    BY <1>0, <2>6
  <2>9. inflight'[p] = inflight[p] /\ Answers(alerts', p) = Answers(alerts, p)
    BY <2>1
  <2>10. DiskReads(p)' = inflight[p] + Answers(alerts, p) + Answers(popped', p) + allocated'[p]
    BY <2>9 DEF DiskReads
  <2>11. DiskReads(p) = inflight[p] + Answers(alerts, p) + Answers(popped, p) + allocated[p]
    BY DEF DiskReads
  <2>12. inflight[p] + Answers(alerts, p) + Answers(popped, p) + allocated[p]
           = inflight[p] + Answers(alerts, p) + Answers(popped', p) + allocated'[p]
    <3>1. /\ inflight[p] \in Nat /\ Answers(alerts, p) \in Nat /\ Answers(popped, p) \in Nat
          /\ Answers(popped', p) \in Nat /\ allocated[p] \in Nat /\ allocated'[p] \in Nat
      BY <1>0, <2>4, <2>8
    <3>2. QED
      BY <2>7, <3>1
  <2>13. QED
    BY <2>10, <2>11, <2>12
<1>3. QED
  BY <1>1, <1>2

(* A thread prefetches a piece it required; it no longer requires it then.  *)
LEMMA PrefetchCount ==
  ASSUME TypeOK, [Next]_vars, CountInv, NEW p \in Pieces, NEW t \in Readers, Prefetch(t)
  PROVE  DiskReads(p)' <= Cardinality(Prefetched(p))' + Fetched(p)'
<1>0. /\ inflight[p] \in Nat /\ DiskReads(p) \in Nat /\ allocated[p] \in Nat
      /\ Answers(alerts, p) \in Nat /\ Answers(popped, p) \in Nat
      /\ inflight \in [Pieces -> Nat] /\ required_pieces \in [Readers -> SUBSET Pieces]
  BY DiskReadsType DEF TypeOK
<1>1. PICK q \in required_pieces[t] :
         /\ IF q \in have THEN inflight' = [inflight EXCEPT ![q] = @ + 1] ELSE inflight' = inflight
         /\ required_pieces' = [required_pieces EXCEPT ![t] = @ \ {q}]
  BY DEF Prefetch, read_piece
<1>2. UNCHANGED <<have, alerts, popped, allocated>>
  BY DEF Prefetch, shared
<1>3. DiskReads(p) <= Cardinality(Prefetched(p)) + Fetched(p)
  BY DEF CountInv
<1>4. CASE p = q /\ p \in have
  <2>1. inflight'[p] = inflight[p] + 1
    BY <1>0, <1>1, <1>4
  <2>2. DiskReads(p)' = DiskReads(p) + 1
    BY <1>0, <1>2, <2>1 DEF DiskReads
  <2>3. t \notin Prefetched(p) /\ t \in Prefetched(p)'
    BY <1>0, <1>1, <1>2, <1>4 DEF Prefetched
  <2>4. Prefetched(p)' = Prefetched(p) \cup {t}
    BY <1>0, <1>1, <1>2, <1>4 DEF Prefetched
  <2>5. Cardinality(Prefetched(p)') = Cardinality(Prefetched(p)) + 1
    BY <2>3, <2>4, PrefetchedFinite, FS_AddElement
  <2>6. QED
    BY <1>0, <1>3, <2>2, <2>5, BoundGrows
<1>5. CASE ~ (p = q /\ p \in have)
  <2>1. inflight'[p] = inflight[p]
    BY <1>0, <1>1, <1>5
  <2>2. DiskReads(p)' = DiskReads(p)
    BY <1>2, <2>1 DEF DiskReads
  <2>3. QED
    BY <1>0, <1>3, <2>2, BoundGrows
<1>6. QED
  BY <1>4, <1>5

(***************************************************************************)
(* The loop reads a piece that has no buffer.  It holds the mutex, so that *)
(* nobody else is fetching that piece, and is fetching it afterwards.      *)
(***************************************************************************)
LEMMA FetchCount ==
  ASSUME TypeOK, LockInv, [Next]_vars, CountInv, NEW p \in Pieces, NEW t \in Readers,
         FindBuffer(t)
  PROVE  DiskReads(p)' <= Cardinality(Prefetched(p))' + Fetched(p)'
<1>0. /\ inflight[p] \in Nat /\ DiskReads(p) \in Nat /\ allocated[p] \in Nat
      /\ Answers(alerts, p) \in Nat /\ Answers(popped, p) \in Nat
      /\ inflight \in [Pieces -> Nat] /\ pc \in [Readers -> Labels]
  BY DiskReadsType DEF TypeOK
<1>1. UNCHANGED <<alerts, popped, allocated>>
  BY DEF FindBuffer, shared
<1>2. DiskReads(p) <= Cardinality(Prefetched(p)) + Fetched(p)
  BY DEF CountInv
<1>3. CASE inflight'[p] = inflight[p]
  <2>1. DiskReads(p)' = DiskReads(p)
    BY <1>1, <1>3 DEF DiskReads
  <2>2. QED
    BY <1>0, <1>2, <2>1, BoundGrows
<1>4. CASE inflight'[p] # inflight[p]
  <2>1. /\ Goto(t, "find", "fetchPop")
        /\ piece_buffer_map[Piece(t)] = NoBuffer
        /\ inflight' = [inflight EXCEPT ![Piece(t)] = @ + 1]
        /\ UNCHANGED <<req, curr_offset>>
    BY <1>4 DEF FindBuffer, read_piece
  <2>2. Piece(t) = p
    BY <1>0, <1>4, <2>1
  <2>3. inflight'[p] = inflight[p] + 1
    BY <1>0, <2>1, <2>2
  <2>4. DiskReads(p)' = DiskReads(p) + 1
    BY <1>0, <1>1, <2>3 DEF DiskReads
  <2>5. ~ Fetching(p)
    <3> SUFFICES ASSUME NEW u \in Readers, pc[u] \in {"fetch", "fetchPop"}
                 PROVE  FALSE
      BY DEF Fetching
    <3>1. fsmtx = t /\ fsmtx = u /\ pc[t] = "find"
      BY <2>1 DEF Goto, LockInv, LockDiscipline, Critical, Waiting, Copying
    <3>2. QED
      BY <3>1
  <2>6. Fetched(p) = 0
    BY <2>1, <2>2, <2>5 DEF Fetched
  <2>7. Fetching(p)'
    <3>1. pc'[t] = "fetchPop" /\ Piece(t)' = Piece(t)
      BY <1>0, <2>1 DEF Goto, Piece
    <3>2. QED
      BY <2>2, <3>1 DEF Fetching
  <2>8. Fetched(p)' = 1
    BY <2>7 DEF Fetched
  <2>9. QED
    BY <1>0, <1>2, <2>4, <2>6, <2>8, BoundGrows
<1>5. QED
  BY <1>3, <1>4

LEMMA CountInit == Init => CountInv
<1> SUFFICES ASSUME Init, NEW p \in Pieces
             PROVE  DiskReads(p) <= Cardinality(Prefetched(p)) + Fetched(p)
  BY DEF CountInv
<1>1. inflight[p] = 0 /\ allocated[p] = 0 /\ alerts = << >> /\ popped = << >>
  BY DEF Init
<1>2. DiskReads(p) = 0
  BY <1>1, AnswersEmpty DEF DiskReads
<1>3. Cardinality(Prefetched(p)) \in Nat /\ Fetched(p) \in Nat
  BY PrefetchedFinite DEF Fetched
<1>4. QED
  BY <1>2, <1>3

LEMMA CountStep == TypeOK /\ LockInv /\ CountInv /\ [Next]_vars => CountInv'
<1> SUFFICES ASSUME TypeOK, LockInv, CountInv, [Next]_vars, NEW p \in Pieces
             PROVE  DiskReads(p)' <= Cardinality(Prefetched(p))' + Fetched(p)'
  BY DEF CountInv
<1>1. ASSUME DiskReads(p)' = DiskReads(p)
      PROVE  DiskReads(p)' <= Cardinality(Prefetched(p))' + Fetched(p)'
  <2>1. DiskReads(p) \in Nat /\ DiskReads(p) <= Cardinality(Prefetched(p)) + Fetched(p)
    BY DiskReadsType DEF CountInv
  <2>2. QED
    BY <1>1, <2>1, BoundGrows
<1>2. ASSUME UNCHANGED <<inflight, alerts, popped, allocated>>
      PROVE  DiskReads(p)' = DiskReads(p)
  BY <1>2 DEF DiskReads
<1>3. CASE SilencePiece \/ UNCHANGED vars
  BY <1>1, <1>2, <1>3 DEF SilencePiece, vars, session, shared
<1>4. ASSUME NEW q \in Pieces, Download(q) \/ ReadPieceDone(q)
      PROVE  DiskReads(p)' = DiskReads(p)
  BY <1>4, SessionCount
<1>5. ASSUME NEW t \in Readers, NEW r \in Requests, ReadStart(t, r)
      PROVE  DiskReads(p)' = DiskReads(p)
  BY <1>2, <1>5 DEF ReadStart, session, shared
<1>6. ASSUME NEW t \in Readers, ReaderStep(t)
      PROVE  DiskReads(p)' <= Cardinality(Prefetched(p))' + Fetched(p)'
  <2>1. CASE PopAlerts(t) \/ HandleAlert(t)
    BY <1>1, <2>1, AlertCount
  <2>2. CASE Prefetch(t)
    BY <2>2, PrefetchCount
  <2>3. CASE FindBuffer(t)
    BY <2>3, FetchCount
  <2>4. CASE ~ PopAlerts(t) /\ ~ HandleAlert(t) /\ ~ Prefetch(t) /\ ~ FindBuffer(t)
    <3>1. UNCHANGED <<inflight, alerts, popped, allocated>>
      BY <1>6, <2>4 DEF ReaderStep, PrioHave, PrioMissing, RaisePiece, LowerPrevious,
           RaiseNext, Lock, Rewind, CheckHave, CheckBuffer, Copy, Unlock, session, shared
    <3>2. QED
      BY <1>1, <1>2, <3>1
  <2>5. QED
    BY <2>1, <2>2, <2>3, <2>4
<1>7. QED
  BY <1>1, <1>3, <1>4, <1>5, <1>6 DEF Next, Terminated

(***************************************************************************)
(* However many reads there are, a piece is read from disk at most once    *)
(* per thread and once more: that bounds the buffers that are never freed  *)
(* and the answers that wait in libtorrent's queue.                        *)
(***************************************************************************)
THEOREM BoundedLeak == Spec => []LeakBounded
<1>1. CoreInv /\ CountInv => LeakBounded
  <2> SUFFICES ASSUME TypeOK, CountInv, NEW p \in Pieces
               PROVE  DiskReads(p) <= 1 + Cardinality(Readers)
    BY DEF CoreInv, LeakBounded
  <2>1. DiskReads(p) \in Nat /\ DiskReads(p) <= Cardinality(Prefetched(p)) + Fetched(p)
    BY DiskReadsType DEF CountInv
  <2>2. Fetched(p) \in 0 .. 1
    BY DEF Fetched
  <2>3. QED
    BY <2>1, <2>2, PrefetchedFinite
<1>2. CoreInv /\ LockInv /\ CountInv /\ [Next]_vars => CountInv'
  BY CountStep DEF CoreInv
<1>3. CoreInv /\ LockInv /\ [Next]_vars => LockInv'
  BY LockStep DEF CoreInv
<1>4. QED
  BY <1>1, <1>2, <1>3, CoreInit, CoreStep, LockInit, CountInit, PTL DEF Spec

-----------------------------------------------------------------------------
(* What became of a read_piece that a read polls for. *)

(***************************************************************************)
(* Of the disk reads under way to the map none is lost: each step keeps    *)
(* them under way or puts a buffer into the map.                           *)
(***************************************************************************)
LEMMA UnderwayKept ==
  ASSUME CoreInv, LockInv, [Next]_vars, NEW p \in Pieces, Underway(p) > 0
  PROVE  piece_buffer_map'[p] # NoBuffer \/ Underway(p)' > 0
<1>0. /\ inflight[p] \in Nat /\ allocated[p] \in Nat
      /\ Answers(alerts, p) \in Nat /\ Answers(popped, p) \in Nat
      /\ inflight \in [Pieces -> Nat]
      /\ piece_buffer_map \in [Pieces -> Nat \cup {NoBuffer}]
      /\ allocated \in [Pieces -> Nat] /\ popped \in Seq(Alert)
  BY DiskReadsType DEF CoreInv, TypeOK
<1>1. ASSUME UNCHANGED <<alerts, popped>>, inflight'[p] \in {inflight[p], inflight[p] + 1}
      PROVE  Underway(p)' > 0
  BY <1>0, <1>1
<1>2. ASSUME DiskReads(p)' = DiskReads(p), allocated'[p] = allocated[p]
      PROVE  Underway(p)' > 0
  <2>1. TypeOK'
    BY TypeStep
  <2>2. /\ inflight'[p] \in Nat
        /\ Answers(alerts, p)' \in Nat /\ Answers(popped, p)' \in Nat
    BY <2>1, AnswerSetFinite DEF TypeOK
  <2>3. QED
    BY <1>0, <1>2, <2>2 DEF DiskReads
<1>3. CASE SilencePiece \/ UNCHANGED vars
  BY <1>0, <1>1, <1>3 DEF SilencePiece, vars, session, shared
<1>4. ASSUME NEW q \in Pieces, Download(q) \/ ReadPieceDone(q)
      PROVE  Underway(p)' > 0
  <2>1. allocated' = allocated
    BY <1>4 DEF Download, ReadPieceDone, shared
  <2>2. QED
    BY <1>2, <1>4, <2>1, SessionCount DEF CoreInv
<1>5. ASSUME NEW t \in Readers, NEW r \in Requests, ReadStart(t, r)
      PROVE  Underway(p)' > 0
  BY <1>0, <1>1, <1>5 DEF ReadStart, session, shared
<1>6. ASSUME NEW t \in Readers, PopAlerts(t)
      PROVE  Underway(p)' > 0
  BY <1>2, <1>6, AlertCount DEF CoreInv, PopAlerts
<1>7. ASSUME NEW t \in Readers, HandleAlert(t)
      PROVE  piece_buffer_map'[p] # NoBuffer \/ Underway(p)' > 0
  <2> DEFINE a == Head(popped)
  <2>1. a \in Alert
    BY <1>0, <1>7 DEF HandleAlert
  <2>2. a.size \in Nat /\ a.piece \in Pieces
    BY <2>1 DEF Alert
  <2>3. /\ a.type = "read_piece" =>
             /\ piece_buffer_map' = [piece_buffer_map EXCEPT ![a.piece] = a.size]
             /\ allocated' = [allocated EXCEPT ![a.piece] = @ + 1]
        /\ a.type # "read_piece" => allocated' = allocated
    BY <1>7 DEF HandleAlert
  <2> HIDE DEF a
  <2>4. CASE a.type = "read_piece" /\ a.piece = p
    BY <1>0, <2>2, <2>3, <2>4 DEF NoBuffer
  <2>5. CASE ~ (a.type = "read_piece" /\ a.piece = p)
    <3>1. allocated'[p] = allocated[p]
      BY <1>0, <2>2, <2>3, <2>5
    <3>2. QED
      BY <1>2, <1>7, <3>1, AlertCount DEF CoreInv
  <2>6. QED
    BY <2>4, <2>5
(* The two steps that ask for one more. *)
<1>8. ASSUME NEW t \in Readers, Prefetch(t) \/ FindBuffer(t)
      PROVE  Underway(p)' > 0
  <2>1. \/ inflight' = inflight
        \/ \E q : inflight' = [inflight EXCEPT ![q] = @ + 1]
    BY <1>8 DEF Prefetch, FindBuffer, read_piece
  <2>2. inflight'[p] \in {inflight[p], inflight[p] + 1}
    BY <1>0, <2>1
  <2>3. UNCHANGED <<alerts, popped>>
    BY <1>8 DEF Prefetch, FindBuffer, shared
  <2>4. QED
    BY <1>1, <2>2, <2>3
<1>9. ASSUME NEW t \in Readers, ReaderStep(t), ~ PopAlerts(t), ~ HandleAlert(t),
             ~ Prefetch(t), ~ FindBuffer(t)
      PROVE  Underway(p)' > 0
  <2>1. UNCHANGED <<inflight, alerts, popped>>
    BY <1>9 DEF ReaderStep, PrioHave, PrioMissing, RaisePiece, LowerPrevious,
         RaiseNext, Lock, Rewind, CheckHave, CheckBuffer, Copy, Unlock, session, shared
  <2>2. QED
    BY <1>0, <1>1, <2>1
<1>10. QED
  BY <1>3, <1>4, <1>5, <1>6, <1>7, <1>8, <1>9 DEF Next, Terminated

(* A read begins to poll when it has asked, and goes on with the same piece. *)
LEMMA AnswerStep == CoreInv /\ LockInv /\ AnswerOnItsWay /\ [Next]_vars => AnswerOnItsWay'
<1> DEFINE Coming(p) == piece_buffer_map[p] # NoBuffer \/ Underway(p) > 0
<1> SUFFICES ASSUME CoreInv, LockInv, AnswerOnItsWay, [Next]_vars,
                    NEW u \in Readers, pc'[u] \in {"fetch", "fetchPop"},
                    NEW p, Piece(u)' = p
             PROVE  Coming(p)'
  BY DEF AnswerOnItsWay
<1>0. TypeOK /\ RequestInv /\ LoopInv
  BY DEF CoreInv
<1>1. ASSUME pc[u] \in {"fetch", "fetchPop"}, req'[u] = req[u],
             curr_offset'[u] = curr_offset[u]
      PROVE  Coming(p)'
  <2>1. Piece(u) = p
    BY <1>1 DEF Piece
  <2>2. p \in Pieces
    BY <1>0, <1>1, <2>1, LoopFacts DEF AtPiece, Copying
  <2>3. Coming(p)
    BY <1>1, <2>1 DEF AnswerOnItsWay
  <2>4. QED
    BY <1>0, <2>2, <2>3, BufferKept, UnderwayKept
<1>2. ASSUME Local(u)' = Local(u)
      PROVE  Coming(p)'
  BY <1>1, <1>2 DEF Local
<1>3. CASE UNCHANGED locals
  BY <1>1, <1>3 DEF locals
<1>4. ASSUME NEW t \in Readers, NEW r \in Requests, ReadStart(t, r)
      PROVE  Coming(p)'
  BY <1>0, <1>2, <1>4, StartFrame
<1>5. ASSUME NEW t \in Readers, ReaderStep(t)
      PROVE  Coming(p)'
  <2>1. CASE u # t
    BY <1>0, <1>2, <1>5, <2>1, ReaderFrame
  <2>2. CASE u = t
    <3>0. pc \in [Readers -> Labels]
      BY <1>0 DEF TypeOK
    <3>1. PopAlerts(t) \/ HandleAlert(t) \/ CheckBuffer(t) \/ FindBuffer(t)
      BY <1>5, <2>2, <3>0 DEF ReaderStep, PrioHave, PrioMissing, RaisePiece, LowerPrevious,
           RaiseNext, Lock, Prefetch, Rewind, CheckHave, Copy, Unlock, Goto
    <3>2. CASE PopAlerts(t)
      BY <1>1, <2>2, <3>0, <3>2 DEF PopAlerts, Goto
    <3>3. CASE HandleAlert(t)
      BY <1>1, <2>2, <3>3 DEF HandleAlert, locals
    <3>4. CASE CheckBuffer(t)
      BY <1>1, <2>2, <3>0, <3>4 DEF CheckBuffer, Goto
    <3>5. CASE FindBuffer(t)
      <4>1. /\ pc[t] = "find" /\ inflight' = [inflight EXCEPT ![Piece(t)] = @ + 1]
            /\ UNCHANGED <<alerts, popped, req, curr_offset>>
        BY <2>2, <3>0, <3>5 DEF FindBuffer, Goto, read_piece, shared
      <4>2. Piece(t) = p
        BY <2>2, <4>1 DEF Piece
      <4>3. p \in Pieces
        BY <1>0, <4>1, <4>2, LoopFacts DEF AtPiece, Copying
      <4>4. /\ inflight[p] \in Nat /\ inflight \in [Pieces -> Nat]
            /\ Answers(alerts, p) \in Nat /\ Answers(popped, p) \in Nat
        BY <1>0, <4>3, DiskReadsType DEF TypeOK
      <4>5. inflight'[p] = inflight[p] + 1
        BY <4>1, <4>2, <4>3, <4>4
      <4>6. QED
        BY <4>1, <4>4, <4>5
    <3>6. QED
      BY <3>1, <3>2, <3>3, <3>4, <3>5
  <2>3. QED
    BY <2>1, <2>2
<1>6. QED
  BY <1>3, <1>4, <1>5, SessionFrame DEF Next, Terminated

(***************************************************************************)
(* A read that polls for the buffer of its piece never polls in vain: with *)
(* any number of threads popping each other's alerts, an answer for that   *)
(* piece is under way, or the buffer is there.                             *)
(***************************************************************************)
THEOREM NoAnswerLost == Spec => []AnswerOnItsWay
<1>1. Init => AnswerOnItsWay
  BY DEF Init, AnswerOnItsWay
<1>2. CoreInv /\ LockInv /\ [Next]_vars => LockInv'
  BY LockStep DEF CoreInv
<1>3. QED
  BY <1>1, <1>2, AnswerStep, CoreInit, CoreStep, LockInit, PTL DEF Spec

-----------------------------------------------------------------------------
(***************************************************************************)
(* FS::read implements the read of ReadOnlyFile, for every layout of files *)
(* and pieces, every number of threads and every width of int: the proof   *)
(* of what a run checks for one layout.                                    *)
(***************************************************************************)
HIDE DEF range, result, frame, buffers, Lowest, Free, Handled, alert_cast, Source, Underway

(* What ReadOnlyFile sees of the reads. *)
Op == [t \in Readers |-> IF pc[t] \in {"idle", "done"} THEN pc[t] ELSE "busy"]

Returned == [t \in Readers |->
               IF pc[t] = "done" THEN [i \in 0 .. read_ptr[t] - 1 |-> buf[t][i]]
                                 ELSE [i \in {} |-> 0]]

(* Its actions, said of these two functions and of req. *)
Asked(t, r) ==
  /\ Op[t] # "busy"
  /\ Op' = [Op EXCEPT ![t] = "busy"]
  /\ req' = [req EXCEPT ![t] = r]
  /\ Returned' = [Returned EXCEPT ![t] = POSIX!Nothing]

Answered(t) ==
  /\ Op[t] = "busy"
  /\ Op' = [Op EXCEPT ![t] = "done"]
  /\ Returned' = [Returned EXCEPT ![t] = POSIX!Slice(req[t])]
  /\ UNCHANGED req

AnsweredAtOnce(t, r) ==
  /\ Op[t] # "busy"
  /\ Op' = [Op EXCEPT ![t] = "done"]
  /\ req' = [req EXCEPT ![t] = r]
  /\ Returned' = [Returned EXCEPT ![t] = POSIX!Slice(r)]

LEMMA Mapping ==
  ASSUME NEW t \in Readers
  PROVE  /\ Answered(t) => POSIX!Next
         /\ \A r \in Requests : Asked(t, r) \/ AnsweredAtOnce(t, r) => POSIX!Next
<1>1. Answered(t) => POSIX!Answer(t)
  BY DEF Answered, POSIX!Answer, Op, Returned
<1>2. ASSUME NEW r \in Requests
      PROVE  /\ Asked(t, r) => POSIX!Ask(t, r)
             /\ AnsweredAtOnce(t, r) => POSIX!AnswerAtOnce(t, r)
  BY DEF Asked, AnsweredAtOnce, POSIX!Ask, POSIX!AnswerAtOnce, Op, Returned
<1>3. QED
  BY <1>1, <1>2 DEF POSIX!Next

(* At first nobody has asked. *)
LEMMA RefinementInit == Init => POSIX!Init
BY DEF Init, POSIX!Init, POSIX!Nothing, IdleRequest

-----------------------------------------------------------------------------
(* What a read that is over has returned. *)
RightAnswers ==
  \A t \in Readers : pc[t] = "done" => Returned[t] = POSIX!Slice(req[t])

LEMMA RightAnswersHold ==
  RequestInv /\ ReadsMatchFile /\ FullRead => RightAnswers
<1> SUFFICES ASSUME RequestInv, ReadsMatchFile, FullRead, NEW t \in Readers, pc[t] = "done"
             PROVE  Returned[t] = POSIX!Slice(req[t])
  BY DEF RightAnswers
<1> DEFINE r == req[t]
           n == IF r.offset >= FileSize[r.file] THEN 0
                ELSE MinOf(r.size, FileSize[r.file] - r.offset)
<1>1. read_ptr[t] = n
  BY DEF FullRead
<1>2. \A i \in 0 .. n - 1 : buf[t][i] = FileOffset[r.file] + r.offset + i
  BY <1>1 DEF ReadsMatchFile, FileByte
<1>3. Returned[t] = [i \in 0 .. n - 1 |-> buf[t][i]]
  BY <1>1 DEF Returned
<1>4. POSIX!Slice(r) = [i \in 0 .. n - 1 |-> FileOffset[r.file] + r.offset + i]
  BY DEF POSIX!Slice, POSIX!MinOf, MinOf
<1> HIDE DEF n
<1>5. QED
  BY <1>2, <1>3, <1>4

(* Two functions on the threads that differ at one of them. *)
LEMMA OneChanges ==
  ASSUME NEW f, NEW g, NEW x, NEW t \in Readers,
         f = [u \in Readers |-> f[u]], g = [u \in Readers |-> g[u]],
         g[t] = x, \A u \in Readers \ {t} : g[u] = f[u]
  PROVE  g = [f EXCEPT ![t] = x]
OBVIOUS

-----------------------------------------------------------------------------
(* A thread that goes on ends in the return or is in the read as before. *)
LEMMA StaysActive ==
  ASSUME TypeOK, NEW t \in Readers, ReaderStep(t)
  PROVE  pc'[t] # "idle" /\ (pc'[t] = "done" => Unlock(t))
BY DEF TypeOK, ReaderStep, PrioHave, PrioMissing, RaisePiece, LowerPrevious, RaiseNext,
       Lock, Prefetch, Rewind, PopAlerts, HandleAlert, CheckHave, FindBuffer, CheckBuffer,
       Copy, Unlock, Goto, locals

LEMMA RefinementStep ==
  TypeOK /\ RightAnswers' /\ [Next]_vars => [POSIX!Next]_(POSIX!vars)
<1> SUFFICES ASSUME TypeOK, RightAnswers', [Next]_vars
             PROVE  POSIX!Next \/ UNCHANGED <<Op, req, Returned>>
  BY DEF POSIX!vars, Op, Returned
(* The other threads do not move. *)
<1>1. ASSUME NEW u \in Readers, Local(u)' = Local(u)
      PROVE  Op'[u] = Op[u] /\ Returned'[u] = Returned[u]
  <2>1. pc'[u] = pc[u] /\ read_ptr'[u] = read_ptr[u] /\ buf'[u] = buf[u]
    BY <1>1 DEF Local
  <2>2. QED
    BY <2>1 DEF Op, Returned
<1>2. /\ Op = [u \in Readers |-> Op[u]] /\ Op' = [u \in Readers |-> Op'[u]]
      /\ Returned = [u \in Readers |-> Returned[u]]
      /\ Returned' = [u \in Readers |-> Returned'[u]]
  BY DEF Op, Returned
<1>3. CASE UNCHANGED locals
  BY <1>3 DEF locals, Op, Returned, frame, result
<1>4. ASSUME NEW t \in Readers, NEW r \in Requests, ReadStart(t, r)
      PROVE  POSIX!Next
  <2>1. /\ pc[t] \in {"idle", "done"} /\ pc'[t] \in {"prio", "lock", "done"}
        /\ \A u \in Readers \ {t} : Op'[u] = Op[u] /\ Returned'[u] = Returned[u]
    BY <1>1, <1>4, StartFrame
  <2>2. req' = [req EXCEPT ![t] = r] /\ req'[t] = r
    BY <1>4 DEF ReadStart, TypeOK
  <2>3. Op[t] # "busy"
    BY <2>1 DEF Op
  <2>4. CASE pc'[t] = "done"
    <3>1. Op'[t] = "done"
      BY <2>4 DEF Op
    <3>2. Returned'[t] = POSIX!Slice(r)
      BY <2>2, <2>4 DEF RightAnswers
    <3>3. AnsweredAtOnce(t, r)
      BY <1>2, <2>1, <2>2, <2>3, <3>1, <3>2, OneChanges DEF AnsweredAtOnce
    <3>4. QED
      BY <3>3, Mapping
  <2>5. CASE pc'[t] # "done"
    <3>1. Op'[t] = "busy"
      BY <2>1, <2>5 DEF Op
    <3>2. Returned'[t] = POSIX!Nothing
      BY <2>5 DEF Returned, POSIX!Nothing
    <3>3. Asked(t, r)
      BY <1>2, <2>1, <2>2, <2>3, <3>1, <3>2, OneChanges DEF Asked
    <3>4. QED
      BY <3>3, Mapping
  <2>6. QED
    BY <2>4, <2>5
<1>5. ASSUME NEW t \in Readers, ReaderStep(t)
      PROVE  POSIX!Next \/ UNCHANGED <<Op, req, Returned>>
  <2>1. /\ pc[t] \notin {"idle", "done"} /\ req' = req
        /\ \A u \in Readers \ {t} : Op'[u] = Op[u] /\ Returned'[u] = Returned[u]
    BY <1>1, <1>5, ReaderFrame DEF Active
  <2>2. Op[t] = "busy"
    BY <2>1 DEF Op
  <2>3. pc'[t] # "idle"
    BY <1>5, StaysActive
  <2>4. CASE pc'[t] = "done"
    <3>1. Op'[t] = "done"
      BY <2>4 DEF Op
    <3>2. Returned'[t] = POSIX!Slice(req[t])
      BY <2>1, <2>4 DEF RightAnswers
    <3>3. Answered(t)
      BY <1>2, <2>1, <2>2, <3>1, <3>2, OneChanges DEF Answered
    <3>4. QED
      BY <3>3, Mapping
  <2>5. CASE pc'[t] # "done"
    <3>1. Op'[t] = Op[t] /\ Returned'[t] = Returned[t]
      BY <2>1, <2>3, <2>5 DEF Op, Returned
    <3>2. Op' = Op /\ Returned' = Returned
      BY <1>2, <2>1, <3>1
    <3>3. QED
      BY <2>1, <3>2
  <2>6. QED
    BY <2>4, <2>5
<1>6. QED
  BY <1>3, <1>4, <1>5, SessionFrame DEF Next, Terminated

(***************************************************************************)
(* A read that returns does so once, to the request it was given, with     *)
(* exactly the bytes of the file that were asked for: whatever other reads *)
(* do, however the pieces arrive and whoever pops the alerts.  The two     *)
(* hypotheses are those of ErrorFreeReads and NoShortReads, and neither    *)
(* can be dropped, as two runs show.                                       *)
(***************************************************************************)
THEOREM AnswersRefine == ~ DiskErrors /\ SizesFit => (Spec => AnswersAsPosix)
<1> SUFFICES ASSUME ~ DiskErrors, SizesFit
             PROVE  Spec => AnswersAsPosix
  OBVIOUS
<1>1. Spec => []ReadsMatchFile
  BY ErrorFreeReads
<1>2. Spec => []FullRead
  BY NoShortReads
<1>3. CoreInv => TypeOK /\ RequestInv
  BY DEF CoreInv
<1>4. QED
  BY <1>1, <1>2, <1>3, CoreInvariant, RightAnswersHold, RefinementInit, RefinementStep, PTL
     DEF Spec, AnswersAsPosix, POSIX!Safety
=============================================================================
