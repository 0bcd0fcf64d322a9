-------------------------- MODULE LegacyReadProofs --------------------------
(***************************************************************************)
(* Proofs about LegacyRead, for every layout and number of threads.        *)
(***************************************************************************)
EXTENDS LegacyRead, TorrentLayoutProofs

(* The names LegacyRead gives to groups of variables. *)
USE DEF torrent, session, buffers, shared, range, result, frame, Underway

LEMMA ControlInit == Init => ControlInv
BY LegacyAssumption
   DEF Init, ControlInv, MountInv, LockInv, LimitInv, Labels, Critical, FirstLoop, SecondLoop

(***************************************************************************)
(* A step of one read inside the critical part, or outside of it, that     *)
(* leaves mutex and limit alone.                                           *)
(***************************************************************************)
LEMMA LabelStep ==
  ASSUME ControlInv, NEW t \in Readers, NEW from \in Labels, NEW to \in Labels,
         Goto(t, from, to), UNCHANGED <<mount, paused, limit, fsmtx>>,
         from # "idle" \/ mount = "ready",
         from \in Critical <=> to \in Critical,
         to \in FirstLoop \cup SecondLoop \cup {"slowDown"} =>
           from \in FirstLoop \cup SecondLoop,
         to # "unlock"
  PROVE  ControlInv'
<1>1. pc[t] = from /\ pc' = [pc EXCEPT ![t] = to] /\ pc \in [Readers -> Labels]
  BY DEF Goto, ControlInv
<1>2. pc' \in [Readers -> Labels] /\ pc'[t] = to
      /\ \A u \in Readers : u # t => pc'[u] = pc[u]
  BY <1>1
<1>3. mount = "ready"
  BY <1>1 DEF ControlInv, MountInv
<1>4. MountInv'
  BY <1>3 DEF MountInv
<1>5. LockInv'
  BY <1>1, <1>2 DEF ControlInv, LockInv
<1>6. LimitInv'
  BY <1>1, <1>2, <1>3 DEF ControlInv, LimitInv
<1>7. QED
  BY <1>2, <1>4, <1>5, <1>6 DEF ControlInv

(* Steps of init_bitfs and of libtorrent. *)
LEMMA SessionStep ==
  ASSUME ControlInv, InitStep \/ UNCHANGED vars \/ Terminated
                     \/ \E p \in Pieces : Download(p) \/ ReadPieceDone(p)
  PROVE  ControlInv'
<1>1. CASE InitStep
  <2>1. UNCHANGED <<pc, fsmtx>> /\ mount # "ready" /\ pc \in [Readers -> Labels]
    BY <1>1 DEF InitStep, AddTorrent, ThrottleMount, ResumeMount, ControlInv
  <2>2. \A t \in Readers : pc[t] = "idle"
    BY <2>1 DEF ControlInv, MountInv
  <2>3. MountInv'
    BY <1>1, <2>1, <2>2
       DEF InitStep, AddTorrent, ThrottleMount, ResumeMount, ControlInv, MountInv, session
  <2>4. LimitInv'
    BY <1>1, <2>1, <2>2 DEF InitStep, AddTorrent, ThrottleMount, ResumeMount, ControlInv,
       MountInv, LimitInv, FirstLoop, SecondLoop
  <2>5. QED
    BY <2>1, <2>3, <2>4 DEF ControlInv, LockInv
<1>2. CASE UNCHANGED <<mount, paused, limit, fsmtx, pc>>
  BY <1>2 DEF ControlInv, MountInv, LockInv, LimitInv
<1>3. CASE ~InitStep
  <2>1. UNCHANGED <<mount, paused, limit, fsmtx, pc>>
    BY <1>3 DEF vars, session, Terminated, Download, ReadPieceDone
  <2>2. QED
    BY <1>2, <2>1
<1>4. QED
  BY <1>1, <1>3

(* Steps that take, set and give back. *)
LEMMA BoundaryStep ==
  ASSUME ControlInv, NEW t \in Readers, Lock(t) \/ SpeedUp(t) \/ SlowDown(t) \/ Unlock(t)
  PROVE  ControlInv'
<1> USE DEF FirstLoop, SecondLoop, Critical, Labels
<1>1. pc \in [Readers -> Labels] /\ t # NoReader
  BY LegacyAssumption DEF ControlInv
<1>2. mount = "ready" /\ mount' = "ready"
  BY DEF Lock, SpeedUp, SlowDown, Unlock, Goto, ControlInv, MountInv
<1>3. \A u \in Readers : u # t => ~(pc[u] \in Critical)
  <2>1. fsmtx = NoReader \/ fsmtx = t
    BY DEF Lock, SpeedUp, SlowDown, Unlock, Goto, ControlInv, LockInv
  <2>2. NoReader \notin Readers
    BY LegacyAssumption
  <2>3. \A u \in Readers : pc[u] \in Critical <=> fsmtx = u
    BY DEF ControlInv, LockInv
  <2> HIDE DEF Critical
  <2>4. QED
    BY <2>1, <2>2, <2>3
<1>4. ASSUME NEW from \in Labels, NEW to \in Labels, Goto(t, from, to)
      PROVE  /\ pc' \in [Readers -> Labels] /\ pc[t] = from /\ pc'[t] = to
             /\ \A u \in Readers : u # t => pc'[u] = pc[u]
  BY <1>1, <1>4 DEF Goto
<1>5. CASE Lock(t)
  <2>1. Goto(t, "lock", "speedUp") /\ fsmtx' = t
    BY <1>5 DEF Lock
  <2>2. pc' \in [Readers -> Labels] /\ pc'[t] = "speedUp"
        /\ \A u \in Readers : u # t => pc'[u] = pc[u]
    BY <2>1, <1>4
  <2>3. LockInv'
    BY <1>3, <2>1, <2>2 DEF LockInv
  <2>4. LimitInv'
    BY <1>1, <1>3, <2>1, <2>2 DEF LimitInv
  <2>5. QED
    BY <1>2, <2>2, <2>3, <2>4 DEF ControlInv, MountInv
<1>6. CASE SpeedUp(t)
  <2>1. PICK to \in {"raise", "slowDown"} : Goto(t, "speedUp", to)
    BY <1>6 DEF SpeedUp
  <2>2. pc' \in [Readers -> Labels] /\ pc[t] = "speedUp" /\ pc'[t] = to
        /\ \A u \in Readers : u # t => pc'[u] = pc[u]
    BY <2>1, <1>4
  <2>3. fsmtx' = fsmtx /\ limit' = Full /\ fsmtx = t
    BY <1>6, <2>2 DEF SpeedUp, ControlInv, LockInv
  <2>4. LockInv'
    BY <1>3, <2>2, <2>3 DEF LockInv, ControlInv
  <2>5. LimitInv'
    BY <1>1, <1>3, <2>1, <2>2, <2>3 DEF LimitInv
  <2>6. QED
    BY <1>2, <2>2, <2>4, <2>5 DEF ControlInv, MountInv
<1>7. CASE SlowDown(t)
  <2>1. Goto(t, "slowDown", "unlock")
    BY <1>7 DEF SlowDown
  <2>2. pc' \in [Readers -> Labels] /\ pc[t] = "slowDown" /\ pc'[t] = "unlock"
        /\ \A u \in Readers : u # t => pc'[u] = pc[u]
    BY <2>1, <1>4
  <2>3. fsmtx' = fsmtx /\ limit' = Throttle
    BY <1>7 DEF SlowDown
  <2>4. LockInv'
    BY <1>3, <2>2, <2>3 DEF LockInv, ControlInv
  <2>5. LimitInv'
    BY <1>1, <1>3, <2>2, <2>3 DEF LimitInv
  <2>6. QED
    BY <1>2, <2>2, <2>4, <2>5 DEF ControlInv, MountInv
<1>8. CASE Unlock(t)
  <2>1. Goto(t, "unlock", "done") /\ fsmtx' = NoReader /\ limit' = limit
    BY <1>8 DEF Unlock, session
  <2>2. pc' \in [Readers -> Labels] /\ pc[t] = "unlock" /\ pc'[t] = "done"
        /\ \A u \in Readers : u # t => pc'[u] = pc[u]
    BY <2>1, <1>4
  <2>3. limit' = Throttle
    BY <2>1, <2>2 DEF ControlInv, LimitInv
  <2>4. LockInv'
    BY <1>3, <2>1, <2>2, LegacyAssumption DEF LockInv
  <2>5. LimitInv'
    BY <1>1, <1>3, <2>2, <2>3 DEF LimitInv
  <2>6. QED
    BY <1>2, <2>2, <2>4, <2>5 DEF ControlInv, MountInv
<1>9. QED
  BY <1>5, <1>6, <1>7, <1>8

LEMMA ControlStep == ControlInv /\ [Next]_vars => ControlInv'
<1> SUFFICES ASSUME ControlInv, [Next]_vars
             PROVE  ControlInv'
  OBVIOUS
<1> USE DEF FirstLoop, SecondLoop, Critical, Labels
<1>1. ASSUME NEW t \in Readers, NEW r \in Requests, ReadStart(t, r)
      PROVE  ControlInv'
  <2>1. PICK from \in {"idle", "done"}, to \in {"lock", "done"} : Goto(t, from, to)
    BY <1>1 DEF ReadStart
  <2>2. UNCHANGED <<mount, paused, limit, fsmtx>> /\ mount = "ready"
    BY <1>1 DEF ReadStart, session
  <2>3. QED
    BY <2>1, <2>2, LabelStep
<1>2. ASSUME NEW t \in Readers, HandleAlert(t)
      PROVE  ControlInv'
  BY <1>2 DEF HandleAlert, session, ControlInv, MountInv, LockInv, LimitInv
<1>3. ASSUME NEW t \in Readers,
             \/ RaisePiece(t) \/ RaiseNext(t) \/ FirstCheck(t) \/ RaiseAgain(t) \/ CheckHave(t)
             \/ PopAlerts(t) \/ FindBuffer(t) \/ CheckBuffer(t) \/ Copy(t)
      PROVE  ControlInv'
  <2>1. UNCHANGED <<mount, paused, limit, fsmtx>>
    BY <1>3 DEF RaisePiece, RaiseNext, FirstCheck, RaiseAgain, CheckHave, PopAlerts, FindBuffer,
       CheckBuffer, Copy, session
  <2>2. PICK from \in FirstLoop \cup SecondLoop, to \in FirstLoop \cup SecondLoop \cup {"slowDown"} :
          Goto(t, from, to)
    BY <1>3 DEF RaisePiece, RaiseNext, FirstCheck, RaiseAgain, CheckHave, PopAlerts, FindBuffer,
       CheckBuffer, Copy
  <2>3. QED
    BY <2>1, <2>2, LabelStep
<1>4. QED
  BY <1>1, <1>2, <1>3, BoundaryStep, SessionStep DEF Next, ReaderStep

LEMMA ControlInvariant == Spec => []ControlInv
BY ControlInit, ControlStep, PTL DEF Spec

(***************************************************************************)
(* The download limit of bitFS.cpp is down whenever nobody reads and up    *)
(* while a read needs it, for any number of threads: it is only changed    *)
(* with the mutex held, and put back before the mutex is.                  *)
(***************************************************************************)
THEOREM LegacyThrottled == Spec => []LimitFollowsReads
<1>1. ControlInv => LimitFollowsReads
  BY DEF ControlInv, MountInv, LockInv, LimitInv, LimitFollowsReads, Critical
<1>2. QED
  BY <1>1, ControlInvariant, PTL

-----------------------------------------------------------------------------
(* Ranges. *)

(* A request that passes the end-of-file check lies inside the file. *)
LEMMA RequestFacts ==
  ASSUME NEW r \in Requests, r.offset < get_file_size(r.file)
  PROVE  /\ r.file \in Files /\ r.offset \in Nat
         /\ FileSize[r.file] \in Nat /\ FileOffset[r.file] \in Nat
         /\ ToInt(r.offset) = r.offset
         /\ ReadLength(r) \in Nat /\ r.size \in Nat /\ ReadLength(r) <= r.size
         /\ r.offset + ReadLength(r) <= FileSize[r.file]
<1>1. r.file \in Files /\ r.offset \in Nat /\ r.size \in Nat /\ r.size < IntRange \div 2
  BY LegacyAssumption
<1>2. FileSize[r.file] \in Nat /\ FileOffset[r.file] \in Nat
  BY <1>1, LayoutAssumption
<1>3. /\ get_file_size(r.file) \in Int
      /\ get_file_size(r.file) <= FileSize[r.file]
      /\ get_file_size(r.file) < IntRange \div 2
  BY <1>2, IntConversion DEF get_file_size
<1>4. IntRange \div 2 \in Int
  BY IntAssumption
<1>5. ToInt(r.offset) = r.offset
  BY <1>1, <1>3, <1>4, IntConversion
<1>6. ToInt(r.size) = r.size
  BY <1>1, IntConversion
<1>7. QED
  BY <1>1, <1>2, <1>3, <1>5, <1>6 DEF ReadLength, MinOf

(* In a loop, the piece is one of the torrent and gives some of its bytes. *)
LEMMA LoopFacts ==
  ASSUME TypeOK, RequestInv, LoopInv, NEW t \in Readers, pc[t] \in Loops
  PROVE  /\ req[t] \in Requests /\ req[t].file \in Files /\ req[t].offset \in Nat
         /\ req[t].offset + ReadLength(req[t]) <= FileSize[req[t].file]
         /\ ReadLength(req[t]) \in Nat /\ FileSize[req[t].file] \in Nat
         /\ ToInt(req[t].offset) = req[t].offset
         /\ curr_offset \in Nat /\ remaining_size \in Nat
         /\ Piece(t) \in Pieces
         /\ Start(t) \in Nat
         /\ ReadSize(t) \in Nat /\ ReadSize(t) > 0 /\ ReadSize(t) <= remaining_size
         /\ piece_size(Piece(t)) \in Nat /\ Start(t) + ReadSize(t) <= piece_size(Piece(t))
         /\ FileOffset[req[t].file] \in Nat
         /\ Piece(t) * PieceLength + Start(t) = FileOffset[req[t].file] + curr_offset
         /\ \A o \in curr_offset .. curr_offset + ReadSize(t) - 1 :
               map_file(req[t].file, o).piece = Piece(t)
<1> DEFINE r == req[t]
           c == curr_offset
           m == remaining_size
<1>1. r \in Requests /\ r.offset < get_file_size(r.file)
  BY DEF RequestInv, Loops, Critical
<1>2. c \in Nat /\ m \in Nat /\ m > 0 /\ c + m = r.offset + ReadLength(r)
  BY DEF TypeOK, LoopInv
<1> HIDE DEF r, c, m
<1>3. /\ r.file \in Files /\ r.offset \in Nat /\ ToInt(r.offset) = r.offset
      /\ FileSize[r.file] \in Nat /\ FileOffset[r.file] \in Nat
      /\ ReadLength(r) \in Nat /\ r.offset + ReadLength(r) <= FileSize[r.file]
  BY <1>1, RequestFacts
<1>4. PieceLength \in Nat \ {0}
  BY LayoutAssumption
<1> DEFINE p == Piece(t)
           s == Start(t)
           n == ReadSize(t)
<1>5. /\ p \in Pieces /\ s \in Nat
      /\ p * PieceLength + s = FileOffset[r.file] + c
      /\ s < piece_size(p) /\ piece_size(p) \in Nat /\ piece_size(p) <= PieceLength
  BY <1>2, <1>3, MapFile DEF Piece, Start, r, c
<1>6. n \in Nat /\ n > 0 /\ n <= m /\ s + n <= piece_size(p)
  BY <1>2, <1>5 DEF ReadSize, MinOf, m
<1> HIDE DEF p, s, n
<1>7. p \in Nat
  BY <1>5, NumPieces DEF Pieces
<1>8. ASSUME NEW o \in c .. c + n - 1
      PROVE  map_file(r.file, o).piece = p
  <2> DEFINE x == FileOffset[r.file] + o
  <2>1. x \in Nat
    BY <1>2, <1>3, <1>6
  <2>2. p * PieceLength \in Nat
    BY <1>4, <1>7
  <2>3. p * PieceLength <= x /\ x < p * PieceLength + PieceLength
    BY <1>2, <1>3, <1>4, <1>5, <1>6, <2>2
  <2> HIDE DEF x
  <2>4. x \div PieceLength = p
    BY <1>4, <1>7, <2>1, <2>3, DivUnique
  <2>5. QED
    BY <2>4 DEF map_file, x
<1>9. QED
  BY <1>1, <1>2, <1>3, <1>5, <1>6, <1>8 DEF r, c, m, p, s, n

(* While a thread has the mutex the others are outside and stay there. *)
LEMMA StepAlone ==
  ASSUME ControlInv, NEW t \in Readers, ReaderStep(t)
  PROVE  /\ mount' = mount /\ req' = req /\ reads' = reads
         /\ pc[t] \in {"lock"} \cup Critical
         /\ \A u \in Readers : u # t => pc'[u] = pc[u] /\ pc[u] \notin Critical
<1> USE DEF ReaderStep, Lock, SpeedUp, RaisePiece, RaiseNext, FirstCheck, RaiseAgain, CheckHave,
        PopAlerts, HandleAlert, FindBuffer, CheckBuffer, Copy, SlowDown, Unlock, Goto
<1>1. mount' = mount /\ req' = req /\ reads' = reads
  OBVIOUS
<1>2. pc[t] \in {"lock"} \cup Critical
  BY DEF Critical, FirstLoop, SecondLoop
<1>3. \A u \in Readers : u # t => pc'[u] = pc[u]
  BY DEF ControlInv
<1>4. pc[t] \in Critical \/ fsmtx = NoReader
  BY DEF Critical, FirstLoop, SecondLoop
<1> HIDE DEF ReaderStep
<1>5. \A u \in Readers : u # t => pc[u] \notin Critical
  BY <1>4, LegacyAssumption DEF ControlInv, LockInv
<1>6. QED
  BY <1>1, <1>2, <1>3, <1>5

-----------------------------------------------------------------------------
(* Types. *)

LEMMA LegacyTypeInit == Init => TypeOK /\ RequestInv /\ LoopInv
BY LegacyAssumption
   DEF Init, TypeOK, RequestInv, LoopInv, Loops, Labels, Critical, FirstLoop, SecondLoop,
       IdleRequest, NoBuffer, NoByte

(* The positions of the holder of the mutex, wherever it goes. *)
LEMMA PositionType ==
  ASSUME TypeOK, RequestInv, LoopInv, NEW t \in Readers, ReaderStep(t)
  PROVE  curr_offset' \in Nat /\ remaining_size' \in Nat
<1>0. curr_offset \in Nat /\ remaining_size \in Nat
  BY DEF TypeOK
<1>1. CASE UNCHANGED range
  BY <1>0, <1>1
<1>2. ASSUME pc[t] \in {"speedUp", "raiseNext"}, Rewind(t)
      PROVE  curr_offset' \in Nat /\ remaining_size' \in Nat
  <2>1. req[t] \in Requests /\ req[t].offset < get_file_size(req[t].file)
    BY <1>2 DEF RequestInv, Critical, FirstLoop
  <2>2. ToInt(req[t].offset) \in Nat /\ ReadLength(req[t]) \in Nat
    BY <2>1, RequestFacts
  <2>3. QED
    BY <1>2, <2>2 DEF Rewind
<1>3. ASSUME pc[t] \in Loops, Advance(t)
      PROVE  curr_offset' \in Nat /\ remaining_size' \in Nat
  <2>1. ReadSize(t) \in Nat /\ ReadSize(t) <= remaining_size
    BY <1>3, LoopFacts
  <2>2. QED
    BY <1>0, <1>3, <2>1 DEF Advance
<1>4. \/ UNCHANGED range
      \/ pc[t] \in {"speedUp", "raiseNext"} /\ Rewind(t)
      \/ pc[t] \in Loops /\ Advance(t)
  BY DEF ReaderStep, Lock, SpeedUp, RaisePiece, RaiseNext, FirstCheck, RaiseAgain, CheckHave,
     PopAlerts, HandleAlert, FindBuffer, CheckBuffer, Copy, SlowDown, Unlock, Goto, Loops,
     FirstLoop, SecondLoop
<1>5. QED
  BY <1>1, <1>2, <1>3, <1>4

(* What a read does to the session ... *)
LEMMA SessionType ==
  ASSUME TypeOK, RequestInv, LoopInv, NEW t \in Readers, ReaderStep(t)
  PROVE  /\ have' \subseteq Pieces /\ priority' \in [Pieces -> {Normal, Highest}]
         /\ inflight' \in [Pieces -> Nat] /\ alerts' \in Seq(Alert)
         /\ paused' \in BOOLEAN /\ limit' \in {Unlimited, Full, Throttle}
<1> USE DEF ReaderStep, Lock, SpeedUp, RaisePiece, RaiseNext, FirstCheck, RaiseAgain, CheckHave,
        PopAlerts, HandleAlert, FindBuffer, CheckBuffer, Copy, SlowDown, Unlock
<1>1. have' = have /\ paused' = paused /\ limit' \in {limit, Full, Throttle}
  OBVIOUS
<1>2. priority' = priority \/ \E p : priority' = [priority EXCEPT ![p] = Highest]
  BY DEF piece_priority
<1>3. alerts' = alerts \/ alerts' = << >>
  OBVIOUS
<1>4. \/ inflight' = inflight
      \/ pc[t] = "find" /\ inflight' = [inflight EXCEPT ![Piece(t)] = @ + 1]
  BY DEF read_piece, Goto
<1> HIDE DEF ReaderStep
<1>5. inflight' \in [Pieces -> Nat]
  <2>1. inflight \in [Pieces -> Nat]
    BY DEF TypeOK
  <2>2. pc[t] = "find" => Piece(t) \in Pieces
    BY LoopFacts DEF Loops, SecondLoop
  <2>3. QED
    BY <1>4, <2>1, <2>2, CountUp
<1>6. priority' \in [Pieces -> {Normal, Highest}]
  BY <1>2 DEF TypeOK
<1>7. alerts' \in Seq(Alert)
  <2>1. alerts \in Seq(Alert)
    BY DEF TypeOK
  <2>2. << >> \in Seq(Alert)
    OBVIOUS
  <2>3. QED
    BY <1>3, <2>1, <2>2
<1>8. have' \subseteq Pieces /\ paused' \in BOOLEAN /\ limit' \in {Unlimited, Full, Throttle}
  BY <1>1 DEF TypeOK
<1>9. QED
  BY <1>5, <1>6, <1>7, <1>8

(* ... to the buffers ... *)
LEMMA BuffersType ==
  ASSUME TypeOK, NEW t \in Readers, ReaderStep(t)
  PROVE  /\ piece_buffer_map' \in [Pieces -> Nat \cup {NoBuffer}]
         /\ allocated' \in [Pieces -> Nat] /\ popped' \in Seq(Alert)
<1>0. /\ piece_buffer_map \in [Pieces -> Nat \cup {NoBuffer}]
      /\ allocated \in [Pieces -> Nat] /\ popped \in Seq(Alert) /\ alerts \in Seq(Alert)
  BY DEF TypeOK
<1>1. CASE HandleAlert(t)
  <2>1. Head(popped) \in Alert /\ Tail(popped) \in Seq(Alert)
    BY <1>0, <1>1 DEF HandleAlert
  <2>2. Head(popped).piece \in Pieces /\ Head(popped).size \in Nat
    BY <2>1 DEF Alert
  <2>3. \/ allocated' = allocated
        \/ allocated' = [allocated EXCEPT ![Head(popped).piece] = @ + 1]
    BY <1>1 DEF HandleAlert
  <2>4. allocated' \in [Pieces -> Nat]
    BY <1>0, <2>2, <2>3, CountUp
  <2>5. piece_buffer_map' \in [Pieces -> Nat \cup {NoBuffer}]
    BY <1>0, <1>1, <2>2 DEF HandleAlert
  <2>6. QED
    BY <1>1, <2>1, <2>4, <2>5 DEF HandleAlert
<1>2. CASE PopAlerts(t)
  BY <1>0, <1>2 DEF PopAlerts
<1>3. CASE ~ HandleAlert(t) /\ ~ PopAlerts(t)
  <2>1. UNCHANGED buffers
    BY <1>3 DEF ReaderStep, Lock, SpeedUp, RaisePiece, RaiseNext, FirstCheck, RaiseAgain,
       CheckHave, FindBuffer, CheckBuffer, Copy, SlowDown, Unlock
  <2>2. QED
    BY <1>0, <2>1
<1>4. QED
  BY <1>1, <1>2, <1>3

(* ... and to what it returns. *)
LEMMA ResultType ==
  ASSUME TypeOK, RequestInv, LoopInv, NEW t \in Readers, ReaderStep(t), req' = req
  PROVE  /\ read_ptr' \in [Readers -> Nat] /\ DOMAIN buf' = Readers
         /\ \A u \in Readers : buf'[u] \in [0 .. req'[u].size - 1 -> Int]
<1>0. /\ read_ptr \in [Readers -> Nat] /\ DOMAIN buf = Readers
      /\ \A u \in Readers : buf[u] \in [0 .. req[u].size - 1 -> Int]
  BY DEF TypeOK
<1>1. CASE Copy(t)
  <2>1. ReadSize(t) \in Nat /\ Start(t) \in Nat /\ Piece(t) \in Int
    BY <1>1, LoopFacts, NumPieces DEF Copy, Goto, Loops, SecondLoop, Pieces
  <2>2. ASSUME NEW i \in Int
        PROVE  TempBuf(Piece(t), i) \in Int
    BY <2>1, LayoutAssumption DEF TempBuf, NoByte
  <2>3. read_ptr' \in [Readers -> Nat] /\ DOMAIN buf' = Readers
    BY <1>0, <1>1, <2>1 DEF Copy
  <2>4. ASSUME NEW u \in Readers
        PROVE  buf'[u] \in [0 .. req'[u].size - 1 -> Int]
    <3>1. CASE u # t
      BY <1>0, <1>1, <3>1 DEF Copy
    <3>2. CASE u = t
      <4>1. read_ptr[t] \in Int
        BY <1>0
      <4>2. buf'[t] = [i \in DOMAIN buf[t] |->
                         IF read_ptr[t] <= i /\ i < read_ptr[t] + ReadSize(t)
                           THEN TempBuf(Piece(t), Start(t) + (i - read_ptr[t]))
                           ELSE buf[t][i]]
        BY <1>0, <1>1 DEF Copy
      <4>3. buf[t] \in [0 .. req[t].size - 1 -> Int]
        BY <1>0
      <4>4. ASSUME NEW i \in 0 .. req[t].size - 1
            PROVE  buf'[t][i] \in Int
        <5>1. Start(t) + (i - read_ptr[t]) \in Int
          BY <2>1, <4>1
        <5>2. TempBuf(Piece(t), Start(t) + (i - read_ptr[t])) \in Int
          BY <2>2, <5>1
        <5>3. buf[t][i] \in Int /\ i \in DOMAIN buf[t]
          BY <4>3
        <5>4. QED
          BY <4>2, <5>2, <5>3
      <4>5. DOMAIN buf[t] = 0 .. req[t].size - 1
        BY <4>3
      <4>6. QED
        BY <3>2, <4>2, <4>4, <4>5
    <3>3. QED
      BY <3>1, <3>2
  <2>5. QED
    BY <2>3, <2>4
<1>2. CASE ~ Copy(t)
  <2>1. UNCHANGED result
    BY <1>2 DEF ReaderStep, Lock, SpeedUp, RaisePiece, RaiseNext, FirstCheck, RaiseAgain,
       CheckHave, PopAlerts, HandleAlert, FindBuffer, CheckBuffer, SlowDown, Unlock
  <2>2. QED
    BY <1>0, <2>1
<1>3. QED
  BY <1>1, <1>2

(* A read that begins keeps its request and an empty buffer. *)
LEMMA StartType ==
  ASSUME TypeOK, NEW t \in Readers, NEW r \in Requests, ReadStart(t, r)
  PROVE  TypeOK'
<1>1. r.size \in Nat
  BY LegacyAssumption
<1>2. pc' \in [Readers -> Labels]
  BY DEF ReadStart, Goto, TypeOK, Labels
<1>3. req' \in [Readers -> Requests \cup {IdleRequest}] /\ reads' \in [Readers -> Nat]
  BY DEF ReadStart, TypeOK
<1>4. read_ptr' \in [Readers -> Nat] /\ DOMAIN buf' = Readers
  BY DEF ReadStart, TypeOK
<1>5. ASSUME NEW u \in Readers
      PROVE  buf'[u] \in [0 .. req'[u].size - 1 -> Int]
  BY <1>1 DEF ReadStart, TypeOK, NoByte
<1>6. UNCHANGED <<session, mount, fsmtx, buffers, range>>
  BY DEF ReadStart
<1>7. QED
  BY <1>2, <1>3, <1>4, <1>5, <1>6 DEF TypeOK

(* libtorrent and init_bitfs. *)
LEMMA OutsideType ==
  ASSUME TypeOK, InitStep \/ \E p \in Pieces : Download(p) \/ ReadPieceDone(p)
  PROVE  TypeOK'
<1>1. CASE InitStep
  <2>1. mount' \in {"adding", "throttle", "resume", "ready", "failed"}
        /\ paused' \in BOOLEAN /\ limit' \in {Unlimited, Full, Throttle}
    BY <1>1 DEF InitStep, AddTorrent, ThrottleMount, ResumeMount, TypeOK
  <2>2. UNCHANGED <<have, priority, inflight, alerts, fsmtx, buffers, pc, frame>>
    BY <1>1 DEF InitStep, AddTorrent, ThrottleMount, ResumeMount
  <2>3. QED
    BY <2>1, <2>2 DEF TypeOK
<1>2. ASSUME NEW p \in Pieces, Download(p)
      PROVE  TypeOK'
  <2>1. have' \subseteq Pieces
    BY <1>2 DEF Download, TypeOK
  <2>2. alerts' \in Seq(Alert)
    BY <1>2, AlertType DEF Download, TypeOK
  <2>3. UNCHANGED <<priority, inflight, torrent, shared, pc, frame>>
    BY <1>2 DEF Download
  <2>4. QED
    BY <2>1, <2>2, <2>3 DEF TypeOK
<1>3. ASSUME NEW p \in Pieces, ReadPieceDone(p)
      PROVE  TypeOK'
  <2>1. alerts' \in Seq(Alert)
    <3>1. alerts \in Seq(Alert) /\ piece_size(p) \in Nat
      BY PieceSize DEF TypeOK
    <3>2. PICK n \in Nat :
             alerts' = Append(alerts, [type |-> "read_piece", piece |-> p, size |-> n])
      BY <1>3, <3>1 DEF ReadPieceDone
    <3>3. QED
      BY <3>1, <3>2, AlertType
  <2>2. inflight' \in [Pieces -> Nat]
    BY <1>3 DEF ReadPieceDone, TypeOK
  <2>3. UNCHANGED <<have, priority, torrent, shared, pc, frame>>
    BY <1>3 DEF ReadPieceDone
  <2>4. QED
    BY <2>1, <2>2, <2>3 DEF TypeOK
<1>4. QED
  BY <1>1, <1>2, <1>3

CoreInv == TypeOK /\ ControlInv /\ RequestInv /\ LoopInv

LEMMA LegacyTypeStep ==
  ASSUME CoreInv, ControlInv', [Next]_vars
  PROVE  TypeOK'
<1>1. CASE UNCHANGED vars
  BY <1>1 DEF CoreInv, TypeOK, vars
<1>2. ASSUME NEW t \in Readers, ReaderStep(t)
      PROVE  TypeOK'
  <2>1. TypeOK /\ RequestInv /\ LoopInv /\ ControlInv
    BY DEF CoreInv
  <2>2. mount' = mount /\ req' = req /\ reads' = reads
    BY <1>2, <2>1, StepAlone
  <2>3. fsmtx' \in Readers \cup {NoReader}
    BY <1>2, <2>1 DEF TypeOK, ReaderStep, Lock, SpeedUp, RaisePiece, RaiseNext, FirstCheck,
       RaiseAgain, CheckHave, PopAlerts, HandleAlert, FindBuffer, CheckBuffer, Copy, SlowDown,
       Unlock
  <2>4. pc' \in [Readers -> Labels]
    BY DEF ControlInv
  <2>5. /\ have' \subseteq Pieces /\ priority' \in [Pieces -> {Normal, Highest}]
        /\ inflight' \in [Pieces -> Nat] /\ alerts' \in Seq(Alert)
        /\ paused' \in BOOLEAN /\ limit' \in {Unlimited, Full, Throttle}
    BY <1>2, <2>1, SessionType
  <2>6. /\ piece_buffer_map' \in [Pieces -> Nat \cup {NoBuffer}]
        /\ allocated' \in [Pieces -> Nat] /\ popped' \in Seq(Alert)
    BY <1>2, <2>1, BuffersType
  <2>7. /\ read_ptr' \in [Readers -> Nat] /\ DOMAIN buf' = Readers
        /\ \A u \in Readers : buf'[u] \in [0 .. req'[u].size - 1 -> Int]
    BY <1>2, <2>1, <2>2, ResultType
  <2>8. curr_offset' \in Nat /\ remaining_size' \in Nat
    BY <1>2, <2>1, PositionType
  <2>9. /\ mount' \in {"adding", "throttle", "resume", "ready", "failed"}
        /\ req' \in [Readers -> Requests \cup {IdleRequest}] /\ reads' \in [Readers -> Nat]
    BY <2>1, <2>2 DEF TypeOK
  <2>10. QED
    BY <2>3, <2>4, <2>5, <2>6, <2>7, <2>8, <2>9 DEF TypeOK
<1>3. QED
  BY <1>1, <1>2, StartType, OutsideType DEF CoreInv, Next, Terminated

-----------------------------------------------------------------------------
(* Requests and loops. *)

(* init_bitfs and libtorrent do not touch the reads. *)
LEMMA OutsideFrame ==
  ASSUME \/ InitStep \/ UNCHANGED vars \/ Terminated
         \/ \E p \in Pieces : Download(p) \/ ReadPieceDone(p)
  PROVE  UNCHANGED <<pc, req, buffers, range>>
BY DEF InitStep, AddTorrent, ThrottleMount, ResumeMount, Download, ReadPieceDone, Terminated, vars

LEMMA RequestStep ==
  ASSUME CoreInv, [Next]_vars
  PROVE  RequestInv'
<1> SUFFICES ASSUME NEW u \in Readers, pc'[u] \in {"lock"} \cup Critical
             PROVE  req'[u] \in Requests /\ req'[u].offset < get_file_size(req'[u].file)
  BY DEF RequestInv
<1>1. ASSUME pc[u] \in {"lock"} \cup Critical, req'[u] = req[u]
      PROVE  req'[u] \in Requests /\ req'[u].offset < get_file_size(req'[u].file)
  BY <1>1 DEF CoreInv, RequestInv
<1>2. ASSUME NEW t \in Readers, NEW r \in Requests, ReadStart(t, r)
      PROVE  req'[u] \in Requests /\ req'[u].offset < get_file_size(req'[u].file)
  <2>0. pc \in [Readers -> Labels] /\ req \in [Readers -> Requests \cup {IdleRequest}]
    BY DEF CoreInv, TypeOK
  <2>1. CASE u # t
    BY <1>1, <1>2, <2>0, <2>1 DEF ReadStart, Goto
  <2>2. CASE u = t
    <3>1. r.offset \in Nat /\ get_file_size(r.file) \in Int
      BY LegacyAssumption, LayoutAssumption, IntConversion DEF get_file_size
    <3>2. pc'[u] = IF r.offset >= get_file_size(r.file) THEN "done" ELSE "lock"
      BY <1>2, <2>0, <2>2 DEF ReadStart, Goto
    <3>3. r.offset < get_file_size(r.file)
      BY <3>1, <3>2 DEF Critical, FirstLoop, SecondLoop
    <3>4. QED
      BY <1>2, <2>0, <2>2, <3>3 DEF ReadStart
  <2>3. QED
    BY <2>1, <2>2
<1>3. ASSUME NEW t \in Readers, ReaderStep(t)
      PROVE  req'[u] \in Requests /\ req'[u].offset < get_file_size(req'[u].file)
  <2>1. req' = req /\ pc[t] \in {"lock"} \cup Critical
        /\ \A v \in Readers : v # t => pc'[v] = pc[v]
    BY <1>3, StepAlone DEF CoreInv
  <2>2. QED
    BY <1>1, <2>1
<1>4. QED
  BY <1>1, <1>2, <1>3, OutsideFrame DEF Next

(* How a read gets to where it is in its loops. *)
LEMMA LoopMoves ==
  ASSUME CoreInv, [Next]_vars, NEW u \in Readers, pc'[u] \in Loops
  PROVE  /\ req'[u] = req[u]
         /\ \/ /\ pc[u] \in Loops /\ (pc[u] \in FirstLoop <=> pc'[u] \in FirstLoop)
               /\ UNCHANGED range
            \/ SpeedUp(u) \/ RaiseNext(u) \/ Copy(u)
<1> USE DEF Loops, FirstLoop, SecondLoop, Critical
<1>0. pc \in [Readers -> Labels] /\ req \in [Readers -> Requests \cup {IdleRequest}]
  BY DEF CoreInv, TypeOK
<1>1. ASSUME NEW t \in Readers, NEW r \in Requests, ReadStart(t, r)
      PROVE  u # t /\ pc'[u] = pc[u] /\ req'[u] = req[u] /\ UNCHANGED range
  BY <1>0, <1>1 DEF ReadStart, Goto
<1>2. ASSUME NEW t \in Readers, ReaderStep(t)
      PROVE  u = t /\ req'[u] = req[u]
  <2>1. /\ req' = req
        /\ \A v \in Readers : v # t => pc'[v] = pc[v] /\ pc[v] \notin Critical
    BY <1>2, StepAlone DEF CoreInv
  <2>2. pc'[u] \in Critical
    OBVIOUS
  <2>3. QED
    BY <2>1, <2>2
<1>3. ASSUME ReaderStep(u), ~ SpeedUp(u), ~ RaiseNext(u), ~ Copy(u)
      PROVE  pc[u] \in Loops /\ (pc[u] \in FirstLoop <=> pc'[u] \in FirstLoop)
             /\ UNCHANGED range
  <2>1. CASE HandleAlert(u)
    BY <2>1 DEF HandleAlert
  <2>2. CASE ~ HandleAlert(u)
    BY <1>0, <1>3, <2>2 DEF ReaderStep, Lock, RaisePiece, FirstCheck, RaiseAgain, CheckHave,
       PopAlerts, FindBuffer, CheckBuffer, SlowDown, Unlock, Goto
  <2>3. QED
    BY <2>1, <2>2
<1>4. QED
  BY <1>1, <1>2, <1>3, OutsideFrame DEF Next

(* Where the range is after each of the three moves. *)
LEMMA RewindFacts ==
  ASSUME CoreInv, NEW u \in Readers, pc[u] \in {"speedUp"} \cup Loops, Rewind(u)
  PROVE  /\ req[u].offset \in Nat /\ ReadLength(req[u]) \in Nat
         /\ curr_offset' = req[u].offset /\ remaining_size' = ReadLength(req[u])
<1>1. req[u] \in Requests /\ req[u].offset < get_file_size(req[u].file)
  BY DEF CoreInv, RequestInv, Loops, Critical
<1>2. QED
  BY <1>1, RequestFacts DEF Rewind

LEMMA AdvanceFacts ==
  ASSUME CoreInv, NEW u \in Readers, pc[u] \in Loops, Advance(u), More(u)
  PROVE  /\ curr_offset' = curr_offset + ReadSize(u)
         /\ remaining_size' = remaining_size - ReadSize(u)
         /\ remaining_size' > 0
         /\ curr_offset' >= req[u].offset
         /\ curr_offset' + remaining_size' = req[u].offset + ReadLength(req[u])
<1>1. /\ curr_offset \in Nat /\ remaining_size \in Nat /\ ReadSize(u) \in Nat
      /\ req[u].offset \in Nat /\ ReadLength(req[u]) \in Nat
  BY LoopFacts DEF CoreInv
<1>2. curr_offset >= req[u].offset
      /\ curr_offset + remaining_size = req[u].offset + ReadLength(req[u])
  BY DEF CoreInv, LoopInv
<1>3. QED
  BY <1>1, <1>2 DEF Advance, More

LEMMA LoopStep ==
  ASSUME CoreInv, [Next]_vars
  PROVE  LoopInv'
<1> SUFFICES ASSUME NEW u \in Readers, pc'[u] \in Loops
             PROVE  /\ remaining_size' > 0
                    /\ curr_offset' >= req'[u].offset
                    /\ curr_offset' + remaining_size' = req'[u].offset + ReadLength(req'[u])
  BY DEF LoopInv
<1>0. req'[u] = req[u] /\ pc \in [Readers -> Labels]
  BY LoopMoves DEF CoreInv, TypeOK
<1>1. ASSUME Rewind(u), pc[u] \in {"speedUp"} \cup Loops, ReadLength(req[u]) > 0
      PROVE  /\ remaining_size' > 0 /\ curr_offset' >= req[u].offset
             /\ curr_offset' + remaining_size' = req[u].offset + ReadLength(req[u])
  BY <1>1, RewindFacts
<1>2. CASE SpeedUp(u)
  <2>1. Rewind(u) /\ pc[u] = "speedUp" /\ ReadLength(req[u]) > 0
    BY <1>0, <1>2 DEF SpeedUp, Goto, Loops, FirstLoop, SecondLoop
  <2>2. QED
    BY <1>0, <1>1, <2>1
<1>3. CASE RaiseNext(u)
  <2>1. pc[u] = "raiseNext" /\ pc[u] \in Loops /\ IF More(u) THEN Advance(u) ELSE Rewind(u)
    BY <1>3 DEF RaiseNext, Goto, Loops, FirstLoop
  <2>2. ReadLength(req[u]) > 0
    <3>1. /\ remaining_size \in Nat /\ curr_offset \in Nat /\ req[u].offset \in Nat
          /\ ReadLength(req[u]) \in Nat
      BY <2>1, LoopFacts DEF CoreInv
    <3>2. remaining_size > 0 /\ curr_offset >= req[u].offset
          /\ curr_offset + remaining_size = req[u].offset + ReadLength(req[u])
      BY <2>1 DEF CoreInv, LoopInv
    <3>3. QED
      BY <3>1, <3>2
  <2>3. QED
    BY <1>0, <1>1, <2>1, <2>2, AdvanceFacts
<1>4. CASE Copy(u)
  <2>1. pc[u] \in Loops /\ Advance(u) /\ More(u)
    BY <1>0, <1>4 DEF Copy, Goto, Loops, FirstLoop, SecondLoop
  <2>2. QED
    BY <1>0, <2>1, AdvanceFacts
<1>5. CASE pc[u] \in Loops /\ UNCHANGED range
  BY <1>0, <1>5 DEF CoreInv, LoopInv
<1>6. QED
  BY <1>2, <1>3, <1>4, <1>5, LoopMoves

LEMMA LegacyCoreStep ==
  ASSUME CoreInv, [Next]_vars
  PROVE  CoreInv'
<1>1. ControlInv'
  BY ControlStep DEF CoreInv
<1>2. QED
  BY <1>1, LegacyTypeStep, RequestStep, LoopStep DEF CoreInv

LEMMA LegacyCoreInvariant == Spec => []CoreInv
<1>1. Init => CoreInv
  BY LegacyTypeInit, ControlInit DEF CoreInv
<1>2. CoreInv /\ [Next]_vars => CoreInv'
  BY LegacyCoreStep
<1>3. QED
  BY <1>1, <1>2, PTL DEF Spec

(***************************************************************************)
(* The state of bitfs_read stays well formed, for every layout, set of     *)
(* requests and number of threads: each turn of its loops moves forward by *)
(* at least a byte and never past the end of the request.                  *)
(***************************************************************************)
THEOREM LegacyTypeCorrect == Spec => []TypeOK
<1>1. CoreInv => TypeOK
  BY DEF CoreInv
<1>2. QED
  BY <1>1, LegacyCoreInvariant, PTL

-----------------------------------------------------------------------------
(* Priorities. *)

RaisedNext(p) == p \in have' \/ priority'[p] = Highest

(* Nobody lowers a priority, nor does a piece go away. *)
LEMMA RaisedStable ==
  ASSUME TypeOK, [Next]_vars, NEW p \in Pieces, Raised(p)
  PROVE  RaisedNext(p)
<1>0. priority \in [Pieces -> {Normal, Highest}]
  BY DEF TypeOK
<1>1. have \subseteq have'
  BY DEF Next, vars, Terminated, InitStep, AddTorrent, ThrottleMount, ResumeMount, Download,
     ReadPieceDone, ReadStart, ReaderStep, Lock, SpeedUp, RaisePiece, RaiseNext, FirstCheck,
     RaiseAgain, CheckHave, PopAlerts, HandleAlert, FindBuffer, CheckBuffer, Copy, SlowDown,
     Unlock
<1>2. priority' = priority \/ \E q : priority' = [priority EXCEPT ![q] = Highest]
  BY DEF Next, vars, Terminated, InitStep, AddTorrent, ThrottleMount, ResumeMount, Download,
     ReadPieceDone, ReadStart, ReaderStep, Lock, SpeedUp, RaisePiece, RaiseNext, FirstCheck,
     RaiseAgain, CheckHave, PopAlerts, HandleAlert, FindBuffer, CheckBuffer, Copy, SlowDown,
     Unlock, piece_priority
<1>3. QED
  BY <1>0, <1>1, <1>2 DEF Raised, RaisedNext

(* Nor does a part of a range. *)
LEMMA RaisedToStable ==
  ASSUME TypeOK, [Next]_vars, NEW u \in Readers, req[u] \in Requests, req'[u] = req[u],
         NEW e \in Int, e <= FileSize[req[u].file], RaisedTo(u, e), NEW d, d = e
  PROVE  \A o \in req'[u].offset .. d - 1 : RaisedNext(map_file(req'[u].file, o).piece)
<1> SUFFICES ASSUME NEW o \in req[u].offset .. d - 1
             PROVE  RaisedNext(map_file(req[u].file, o).piece)
  OBVIOUS
<1>1. req[u].file \in Files /\ req[u].offset \in Nat
  BY LegacyAssumption
<1>2. FileSize[req[u].file] \in Nat
  BY <1>1, LayoutAssumption
<1>3. o \in Nat /\ o < FileSize[req[u].file]
  BY <1>1, <1>2
<1> DEFINE p == map_file(req[u].file, o).piece
<1>4. p \in Pieces
  BY <1>1, <1>3, MapFile
<1>5. Raised(p)
  BY DEF RaisedTo
<1> HIDE DEF p
<1>6. RaisedNext(p)
  BY <1>4, <1>5, RaisedStable
<1>7. QED
  BY <1>6 DEF p

(* The piece the first loop is at, once raised, adds to the part before it. *)
LEMMA RaisedMore ==
  ASSUME CoreInv, [Next]_vars, NEW u \in Readers, pc[u] = "raiseNext", req'[u] = req[u],
         RaisedTo(u, curr_offset), Raised(Piece(u)),
         NEW e, e = curr_offset + ReadSize(u)
  PROVE  \A o \in req'[u].offset .. e - 1 : RaisedNext(map_file(req'[u].file, o).piece)
<1>1. /\ req[u] \in Requests /\ req[u].file \in Files /\ req[u].offset \in Nat
      /\ FileSize[req[u].file] \in Nat /\ ReadLength(req[u]) \in Nat
      /\ req[u].offset + ReadLength(req[u]) <= FileSize[req[u].file]
      /\ curr_offset \in Nat /\ remaining_size \in Nat /\ ReadSize(u) \in Nat
      /\ ReadSize(u) <= remaining_size /\ Piece(u) \in Pieces
      /\ \A o \in curr_offset .. curr_offset + ReadSize(u) - 1 :
            map_file(req[u].file, o).piece = Piece(u)
  BY LoopFacts DEF CoreInv, Loops, FirstLoop
<1>2. curr_offset + remaining_size = req[u].offset + ReadLength(req[u])
  BY DEF CoreInv, LoopInv, Loops, FirstLoop
<1>3. e \in Int /\ e <= FileSize[req[u].file]
  BY <1>1, <1>2
<1>4. RaisedTo(u, e)
  <2> SUFFICES ASSUME NEW o \in req[u].offset .. e - 1
               PROVE  Raised(map_file(req[u].file, o).piece)
    BY DEF RaisedTo
  <2>1. o \in Int /\ o >= req[u].offset /\ o < curr_offset + ReadSize(u)
    BY <1>1
  <2>2. CASE o < curr_offset
    <3>1. o \in req[u].offset .. curr_offset - 1
      BY <1>1, <2>1, <2>2
    <3>2. QED
      BY <3>1 DEF RaisedTo
  <2>3. CASE ~ (o < curr_offset)
    <3>1. o \in curr_offset .. curr_offset + ReadSize(u) - 1
      BY <1>1, <2>1, <2>3
    <3>2. QED
      BY <1>1, <3>1
  <2>4. QED
    BY <2>2, <2>3
<1>5. TypeOK
  BY DEF CoreInv
<1>6. QED
  BY <1>1, <1>3, <1>4, <1>5, RaisedToStable

(* Only RaisePiece leads to the step after it. *)
LEMMA RaiseNextFrom ==
  ASSUME CoreInv, [Next]_vars, NEW u \in Readers, pc'[u] = "raiseNext"
  PROVE  pc[u] = "raiseNext" \/ RaisePiece(u)
<1>0. pc \in [Readers -> Labels]
  BY DEF CoreInv, TypeOK
<1>1. ASSUME NEW t \in Readers, NEW r \in Requests, ReadStart(t, r)
      PROVE  pc[u] = "raiseNext"
  BY <1>0, <1>1 DEF ReadStart, Goto
<1>2. ASSUME NEW t \in Readers, ReaderStep(t)
      PROVE  pc[u] = "raiseNext" \/ RaisePiece(u)
  BY <1>0, <1>2 DEF ReaderStep, Lock, SpeedUp, RaiseNext, FirstCheck, RaiseAgain, CheckHave,
     PopAlerts, HandleAlert, FindBuffer, CheckBuffer, Copy, SlowDown, Unlock, RaisePiece, Goto
<1>3. QED
  BY <1>1, <1>2, OutsideFrame DEF Next

LEMMA RaisedInit == Init => RaisedInv
BY DEF Init, RaisedInv, FirstLoop, SecondLoop

LEMMA RaisedStep ==
  ASSUME CoreInv, RaisedInv, [Next]_vars
  PROVE  RaisedInv'
<1> USE DEF Loops
<1> SUFFICES ASSUME NEW u \in Readers, pc'[u] \in Loops
             PROVE  /\ pc'[u] \in FirstLoop => RaisedTo(u, curr_offset)'
                    /\ pc'[u] = "raiseNext" => Raised(Piece(u))'
                    /\ pc'[u] \in SecondLoop =>
                         RaisedTo(u, req[u].offset + ReadLength(req[u]))'
  BY DEF RaisedInv, FirstLoop, SecondLoop
<1>0. /\ req'[u] = req[u] /\ pc \in [Readers -> Labels] /\ TypeOK
      /\ ReadLength(req[u])' = ReadLength(req[u])
  BY LoopMoves DEF CoreInv, TypeOK, ReadLength
<1>1. CASE SpeedUp(u)
  <2>1. pc[u] = "speedUp" /\ Rewind(u) /\ pc'[u] = "raise"
    BY <1>0, <1>1 DEF SpeedUp, Goto, FirstLoop, SecondLoop
  <2>2. curr_offset' = req[u].offset /\ req[u].offset \in Nat
    BY <2>1, RewindFacts
  <2>3. RaisedTo(u, curr_offset)'
    BY <1>0, <2>2 DEF RaisedTo
  <2>4. QED
    BY <2>1, <2>3 DEF SecondLoop
<1>2. CASE RaiseNext(u)
  <2>1. /\ pc[u] = "raiseNext" /\ RaisedTo(u, curr_offset) /\ Raised(Piece(u))
        /\ pc'[u] = IF More(u) THEN "raise" ELSE "wait"
        /\ IF More(u) THEN Advance(u) ELSE Rewind(u)
    BY <1>0, <1>2 DEF RaiseNext, Goto, RaisedInv, FirstLoop
  <2>2. \A o \in req'[u].offset .. (curr_offset + ReadSize(u)) - 1 :
           RaisedNext(map_file(req'[u].file, o).piece)
    BY <1>0, <2>1, RaisedMore
  <2>3. CASE More(u)
    <3>1. curr_offset' = curr_offset + ReadSize(u)
      BY <2>1, <2>3 DEF Advance
    <3>2. RaisedTo(u, curr_offset)'
      BY <2>2, <3>1 DEF RaisedTo, Raised, RaisedNext
    <3>3. QED
      BY <2>1, <2>3, <3>2 DEF SecondLoop
  <2>4. CASE ~ More(u)
    <3>1. /\ curr_offset \in Nat /\ remaining_size \in Nat /\ ReadSize(u) \in Nat
          /\ ReadSize(u) <= remaining_size
          /\ req[u].offset \in Nat /\ ReadLength(req[u]) \in Nat
      BY <2>1, LoopFacts DEF CoreInv, FirstLoop
    <3>2. remaining_size = ReadSize(u)
      BY <2>4, <3>1 DEF More
    <3>3. curr_offset + ReadSize(u) = req[u].offset + ReadLength(req[u])
      BY <2>1, <3>2 DEF CoreInv, LoopInv, FirstLoop
    <3>4. RaisedTo(u, req[u].offset + ReadLength(req[u]))'
      BY <1>0, <2>2, <3>3 DEF RaisedTo, Raised, RaisedNext
    <3>5. QED
      BY <2>1, <2>4, <3>4 DEF FirstLoop
  <2>5. QED
    BY <2>3, <2>4
<1>3. ASSUME pc[u] \in SecondLoop, pc'[u] \notin FirstLoop
      PROVE  RaisedTo(u, req[u].offset + ReadLength(req[u]))'
  <2>1. /\ req[u] \in Requests /\ req[u].offset \in Nat /\ ReadLength(req[u]) \in Nat
        /\ req[u].offset + ReadLength(req[u]) <= FileSize[req[u].file]
    BY <1>3, LoopFacts DEF CoreInv
  <2>2. RaisedTo(u, req[u].offset + ReadLength(req[u]))
    BY <1>3 DEF RaisedInv
  <2> DEFINE e == req[u].offset + ReadLength(req[u])
  <2>3. e \in Int /\ e <= FileSize[req[u].file] /\ RaisedTo(u, e) /\ e' = e
    BY <1>0, <2>1, <2>2
  <2> HIDE DEF e
  <2>4. \A o \in req'[u].offset .. e - 1 : RaisedNext(map_file(req'[u].file, o).piece)
    BY <1>0, <2>1, <2>3, RaisedToStable
  <2>5. RaisedTo(u, e)'
    BY <2>3, <2>4 DEF RaisedTo, Raised, RaisedNext
  <2>6. QED
    BY <2>5 DEF e
<1>4. CASE Copy(u)
  <2>1. pc[u] \in SecondLoop /\ pc'[u] = "wait"
    BY <1>0, <1>4 DEF Copy, Goto, FirstLoop, SecondLoop
  <2>2. QED
    BY <1>3, <2>1 DEF FirstLoop
<1>5. CASE pc[u] \in Loops /\ (pc[u] \in FirstLoop <=> pc'[u] \in FirstLoop) /\ UNCHANGED range
  <2>1. CASE pc[u] \in SecondLoop
    BY <1>3, <1>5, <2>1 DEF FirstLoop, SecondLoop
  <2>2. CASE pc[u] \in FirstLoop
    <3>1. /\ req[u] \in Requests /\ req[u].offset \in Nat /\ ReadLength(req[u]) \in Nat
          /\ req[u].offset + ReadLength(req[u]) <= FileSize[req[u].file]
          /\ FileSize[req[u].file] \in Nat
          /\ curr_offset \in Nat /\ remaining_size \in Nat /\ Piece(u) \in Pieces
      BY <2>2, LoopFacts DEF CoreInv
    <3>2. curr_offset <= FileSize[req[u].file] /\ curr_offset' = curr_offset
      BY <1>5, <2>2, <3>1 DEF CoreInv, LoopInv
    <3>3. RaisedTo(u, curr_offset)
      BY <2>2 DEF RaisedInv
    <3>4. \A o \in req'[u].offset .. curr_offset' - 1 :
             RaisedNext(map_file(req'[u].file, o).piece)
      BY <1>0, <3>1, <3>2, <3>3, RaisedToStable
    <3>5. RaisedTo(u, curr_offset)'
      BY <3>4 DEF RaisedTo, Raised, RaisedNext
    <3>6. ASSUME pc'[u] = "raiseNext"
          PROVE  Raised(Piece(u))'
      <4>1. Piece(u)' = Piece(u)
        BY <1>0, <1>5 DEF Piece
      <4>2. pc[u] = "raiseNext" \/ RaisePiece(u)
        BY <1>0, <3>6, RaiseNextFrom
      <4>3. CASE pc[u] = "raiseNext"
        <5>1. Raised(Piece(u))
          BY <4>3 DEF RaisedInv
        <5>2. RaisedNext(Piece(u))
          BY <1>0, <3>1, <5>1, RaisedStable
        <5>3. QED
          BY <4>1, <5>2 DEF Raised, RaisedNext
      <4>4. CASE RaisePiece(u)
        <5>1. priority' = [priority EXCEPT ![Piece(u)] = Highest]
          BY <4>4 DEF RaisePiece, piece_priority
        <5>2. priority'[Piece(u)] = Highest
          BY <1>0, <3>1, <5>1 DEF TypeOK
        <5>3. QED
          BY <4>1, <5>2 DEF Raised
      <4>5. QED
        BY <4>2, <4>3, <4>4
    <3>7. pc'[u] \notin SecondLoop
      BY <1>5, <2>2 DEF FirstLoop, SecondLoop
    <3>8. QED
      BY <3>5, <3>6, <3>7
  <2>3. QED
    BY <1>5, <2>1, <2>2
<1>6. QED
  BY <1>1, <1>2, <1>4, <1>5, LoopMoves

(***************************************************************************)
(* While a read of bitFS.cpp waits and copies, every piece it still needs  *)
(* is there or has the highest priority: the second loop never comes to a  *)
(* piece the first one missed, and no other read takes a priority back.    *)
(***************************************************************************)
THEOREM LegacyStaysRaised == Spec => []RangeRaised
<1>1. CoreInv /\ RaisedInv => RangeRaised
  <2> SUFFICES ASSUME CoreInv, RaisedInv, NEW t \in Readers, pc[t] \in SecondLoop,
                      NEW o \in curr_offset .. curr_offset + remaining_size - 1
               PROVE  Raised(map_file(req[t].file, o).piece)
    BY DEF RangeRaised
  <2>1. /\ curr_offset \in Nat /\ remaining_size \in Nat
        /\ req[t].offset \in Nat /\ ReadLength(req[t]) \in Nat
    BY LoopFacts DEF CoreInv, Loops
  <2>2. curr_offset >= req[t].offset
        /\ curr_offset + remaining_size = req[t].offset + ReadLength(req[t])
    BY DEF CoreInv, LoopInv, Loops
  <2> DEFINE e == req[t].offset + ReadLength(req[t])
  <2>3. o \in req[t].offset .. e - 1
    BY <2>1, <2>2
  <2>4. RaisedTo(t, e)
    BY DEF RaisedInv
  <2> HIDE DEF e
  <2>5. QED
    BY <2>3, <2>4 DEF RaisedTo
<1>2. CoreInv /\ RaisedInv /\ [Next]_vars => RaisedInv'
  BY RaisedStep
<1>3. QED
  BY <1>1, <1>2, LegacyCoreInvariant, RaisedInit, PTL DEF Spec

-----------------------------------------------------------------------------
(* Disk reads. *)

LEMMA DiskReadsType ==
  ASSUME TypeOK, NEW p \in Pieces
  PROVE  /\ inflight[p] \in Nat /\ allocated[p] \in Nat
         /\ Answers(alerts, p) \in Nat /\ Answers(popped, p) \in Nat
         /\ DiskReads(p) \in Nat
<1>1. inflight[p] \in Nat /\ allocated[p] \in Nat
  BY DEF TypeOK
<1>2. Answers(alerts, p) \in Nat /\ Answers(popped, p) \in Nat
  BY AnswerSetFinite DEF TypeOK
<1>3. QED
  BY <1>1, <1>2 DEF DiskReads

(* No key leaves piece_buffer_map. *)
LEMMA BufferKept ==
  ASSUME TypeOK, [Next]_vars, NEW p \in Pieces, piece_buffer_map[p] # NoBuffer
  PROVE  piece_buffer_map'[p] # NoBuffer
<1>0. piece_buffer_map \in [Pieces -> Nat \cup {NoBuffer}] /\ popped \in Seq(Alert)
  BY DEF TypeOK
<1>1. ASSUME NEW t \in Readers, HandleAlert(t)
      PROVE  piece_buffer_map'[p] # NoBuffer
  <2>1. Head(popped) \in Alert
    BY <1>0, <1>1 DEF HandleAlert
  <2>2. Head(popped).size \in Nat
    BY <2>1 DEF Alert
  <2>3. QED
    BY <1>0, <1>1, <2>2 DEF HandleAlert, NoBuffer
<1>2. ASSUME NEW t \in Readers, ReaderStep(t), ~ HandleAlert(t)
      PROVE  piece_buffer_map' = piece_buffer_map
  BY <1>2 DEF ReaderStep, Lock, SpeedUp, RaisePiece, RaiseNext, FirstCheck, RaiseAgain,
     CheckHave, PopAlerts, FindBuffer, CheckBuffer, Copy, SlowDown, Unlock
<1>3. ASSUME NEW t \in Readers, NEW r \in Requests, ReadStart(t, r)
      PROVE  piece_buffer_map' = piece_buffer_map
  BY <1>3 DEF ReadStart
<1>4. QED
  BY <1>1, <1>2, <1>3, OutsideFrame DEF Next

(* A thread that fetches a piece does so until its buffer is there. *)
LEMMA FetchKept ==
  ASSUME CoreInv, [Next]_vars, NEW p \in Pieces, Fetching(p)
  PROVE  Fetching(p)' \/ piece_buffer_map[p] # NoBuffer
<1> PICK u \in Readers : pc[u] \in {"fetch", "fetchPop"} /\ Piece(u) = p
  BY DEF Fetching
<1>0. pc \in [Readers -> Labels] /\ req \in [Readers -> Requests \cup {IdleRequest}]
  BY DEF CoreInv, TypeOK
<1>1. ASSUME pc'[u] \in {"fetch", "fetchPop"}, req'[u] = req[u], UNCHANGED range
      PROVE  Fetching(p)'
  BY <1>1 DEF Fetching, Piece
<1>2. ASSUME NEW t \in Readers, NEW r \in Requests, ReadStart(t, r)
      PROVE  Fetching(p)'
  <2>1. u # t
    BY <1>2 DEF ReadStart, Goto
  <2>2. pc'[u] = pc[u] /\ req'[u] = req[u] /\ UNCHANGED range
    BY <1>0, <1>2, <2>1 DEF ReadStart, Goto
  <2>3. QED
    BY <1>1, <2>2
<1>3. ASSUME NEW t \in Readers, ReaderStep(t)
      PROVE  Fetching(p)' \/ piece_buffer_map[p] # NoBuffer
  <2>1. u = t /\ req' = req
    <3>1. pc[u] \in Critical
      BY DEF Critical, SecondLoop
    <3>2. QED
      BY <1>3, <3>1, StepAlone DEF CoreInv
  <2>2. PopAlerts(u) \/ HandleAlert(u) \/ CheckBuffer(u)
    BY <1>3, <2>1 DEF ReaderStep, Lock, SpeedUp, RaisePiece, RaiseNext, FirstCheck, RaiseAgain,
       CheckHave, FindBuffer, Copy, SlowDown, Unlock, Goto
  <2>3. CASE PopAlerts(u)
    BY <1>0, <1>1, <2>1, <2>3 DEF PopAlerts, Goto
  <2>4. CASE HandleAlert(u)
    BY <1>1, <2>1, <2>4 DEF HandleAlert
  <2>5. CASE CheckBuffer(u)
    BY <1>0, <1>1, <2>1, <2>5 DEF CheckBuffer, Goto
  <2>6. QED
    BY <2>2, <2>3, <2>4, <2>5
<1>4. QED
  BY <1>1, <1>2, <1>3, OutsideFrame DEF Next

LEMMA FetchedGrows ==
  ASSUME CoreInv, [Next]_vars, NEW p \in Pieces
  PROVE  Fetched(p) \in 0 .. 1 /\ Fetched(p)' \in 0 .. 1 /\ Fetched(p) <= Fetched(p)'
<1>1. Fetched(p) = 1 => Fetched(p)' = 1
  BY BufferKept, FetchKept DEF Fetched, CoreInv
<1>2. Fetched(p) \in 0 .. 1 /\ Fetched(p)' \in 0 .. 1
  BY DEF Fetched
<1>3. QED
  BY <1>1, <1>2

(* libtorrent turns a call into an answer, a read an answer into a buffer. *)
LEMMA SessionCount ==
  ASSUME TypeOK, NEW p \in Pieces, NEW q \in Pieces, Download(q) \/ ReadPieceDone(q)
  PROVE  DiskReads(p)' = DiskReads(p)
<1>0. /\ alerts \in Seq(Alert) /\ inflight \in [Pieces -> Nat]
      /\ inflight[p] \in Nat /\ allocated[p] \in Nat
      /\ Answers(alerts, p) \in Nat /\ Answers(popped, p) \in Nat
  BY DiskReadsType DEF TypeOK
<1>1. CASE Download(q)
  <2> DEFINE a == [type |-> "piece_finished", piece |-> q, size |-> 0]
  <2>1. a \in Alert /\ a.type # "read_piece"
    BY DEF Alert
  <2>2. alerts' = Append(alerts, a) /\ UNCHANGED <<inflight, popped, allocated>>
    BY <1>1 DEF Download
  <2> HIDE DEF a
  <2>3. Answers(alerts', p) = Answers(alerts, p)
    BY <1>0, <2>1, <2>2, AnswersAppend
  <2>4. QED
    BY <2>2, <2>3 DEF DiskReads
<1>2. CASE ReadPieceDone(q)
  <2>1. PICK n \in Nat :
           alerts' = Append(alerts, [type |-> "read_piece", piece |-> q, size |-> n])
    BY <1>2, PieceSize DEF ReadPieceDone
  <2> DEFINE a == [type |-> "read_piece", piece |-> q, size |-> n]
  <2>2. a \in Alert /\ a.type = "read_piece" /\ a.piece = q
    BY DEF Alert
  <2>3. alerts' = Append(alerts, a)
    BY <2>1
  <2> HIDE DEF a
  <2>4. Answers(alerts', p) = Answers(alerts, p) + (IF q = p THEN 1 ELSE 0)
    BY <1>0, <2>2, <2>3, AnswersAppend
  <2>5. /\ inflight[q] > 0 /\ inflight' = [inflight EXCEPT ![q] = @ - 1]
        /\ UNCHANGED <<popped, allocated>>
    BY <1>2 DEF ReadPieceDone
  <2>6. inflight'[p] = inflight[p] - (IF q = p THEN 1 ELSE 0)
    BY <1>0, <2>5
  <2>7. QED
    BY <1>0, <2>4, <2>5, <2>6 DEF DiskReads
<1>3. QED
  BY <1>1, <1>2

LEMMA AlertCount ==
  ASSUME TypeOK, NEW p \in Pieces, NEW t \in Readers, PopAlerts(t) \/ HandleAlert(t)
  PROVE  DiskReads(p)' <= DiskReads(p)
<1>0. /\ inflight[p] \in Nat /\ allocated[p] \in Nat
      /\ Answers(alerts, p) \in Nat /\ Answers(popped, p) \in Nat
      /\ popped \in Seq(Alert) /\ allocated \in [Pieces -> Nat]
  BY DiskReadsType DEF TypeOK
<1>1. CASE PopAlerts(t)
  <2>1. popped' = alerts /\ alerts' = << >> /\ UNCHANGED <<inflight, allocated>>
    BY <1>1 DEF PopAlerts
  <2>2. Answers(<< >>, p) = 0
    BY AnswersEmpty
  <2>3. QED
    BY <1>0, <2>1, <2>2 DEF DiskReads
<1>2. CASE HandleAlert(t)
  <2> DEFINE a == Head(popped)
             one == IF a.type = "read_piece" /\ a.piece = p THEN 1 ELSE 0
  <2>1. popped # << >> /\ popped' = Tail(popped) /\ UNCHANGED <<alerts, inflight>>
    BY <1>2 DEF HandleAlert
  <2>2. Answers(popped, p) = Answers(popped', p) + one
    BY <1>0, <2>1, AnswersTail
  <2>3. popped' \in Seq(Alert)
    BY <1>0, <2>1
  <2>4. Answers(popped', p) \in Nat
    BY <2>3, AnswerSetFinite
  <2>5. allocated' = IF a.type = "read_piece"
                       THEN [allocated EXCEPT ![a.piece] = @ + 1] ELSE allocated
    BY <1>2 DEF HandleAlert
  <2> HIDE DEF a
  <2>6. allocated'[p] = allocated[p] + one
    BY <1>0, <2>5
  <2>7. one \in 0 .. 1
    OBVIOUS
  <2>8. inflight'[p] = inflight[p] /\ Answers(alerts', p) = Answers(alerts, p)
    BY <2>1
  <2>9. DiskReads(p)' = inflight[p] + Answers(alerts, p) + Answers(popped', p) + allocated'[p]
    BY <2>8 DEF DiskReads
  <2> HIDE DEF one
  <2>10. inflight[p] + Answers(alerts, p) + Answers(popped', p) + allocated'[p]
           = inflight[p] + Answers(alerts, p) + Answers(popped, p) + allocated[p]
    <3>1. /\ inflight[p] \in Nat /\ Answers(alerts, p) \in Nat
          /\ Answers(popped', p) \in Nat /\ allocated[p] \in Nat /\ one \in Nat
      BY <1>0, <2>4, <2>7
    <3>2. QED
      BY <2>2, <2>6, <3>1
  <2>11. DiskReads(p)' = DiskReads(p) /\ DiskReads(p) \in Nat
    BY <2>9, <2>10, DiskReadsType DEF DiskReads
  <2>12. QED
    BY <2>11
<1>3. QED
  BY <1>1, <1>2

(* A read asks for a piece only when it has no buffer; nobody else does.   *)
LEMMA FetchCount ==
  ASSUME CoreInv, CountInv, [Next]_vars, NEW p \in Pieces, NEW t \in Readers, FindBuffer(t)
  PROVE  DiskReads(p)' <= Fetched(p)'
<1>0. /\ DiskReads(p) \in Nat /\ DiskReads(p) <= Fetched(p)
      /\ Fetched(p) \in 0 .. 1 /\ Fetched(p)' \in 0 .. 1 /\ Fetched(p) <= Fetched(p)'
      /\ inflight \in [Pieces -> Nat] /\ pc \in [Readers -> Labels]
  BY DiskReadsType, FetchedGrows DEF CoreInv, CountInv, TypeOK
<1>1. UNCHANGED <<alerts, buffers, req, range>> /\ pc[t] = "find"
  BY DEF FindBuffer, Goto
<1>2. CASE inflight'[p] = inflight[p]
  <2>1. DiskReads(p)' = DiskReads(p)
    BY <1>1, <1>2 DEF DiskReads
  <2>2. QED
    BY <1>0, <2>1
<1>3. CASE inflight'[p] # inflight[p]
  <2>1. /\ piece_buffer_map[Piece(t)] = NoBuffer /\ pc' = [pc EXCEPT ![t] = "fetchPop"]
        /\ inflight' = [inflight EXCEPT ![Piece(t)] = @ + 1]
    BY <1>3 DEF FindBuffer, read_piece, Goto
  <2>2. Piece(t) = p /\ inflight'[p] = inflight[p] + 1
    BY <1>0, <1>3, <2>1
  <2>3. ~ Fetching(p)
    <3> SUFFICES ASSUME NEW u \in Readers, pc[u] \in {"fetch", "fetchPop"}
                 PROVE  FALSE
      BY DEF Fetching
    <3>1. u # t /\ pc[u] \in Critical
      BY <1>1 DEF Critical, SecondLoop
    <3>2. ReaderStep(t)
      BY DEF ReaderStep
    <3>3. QED
      BY <3>1, <3>2, StepAlone DEF CoreInv
  <2>4. Fetched(p) = 0
    BY <2>1, <2>2, <2>3 DEF Fetched
  <2>5. DiskReads(p) = 0
    BY <1>0, <2>4
  <2>6. DiskReads(p)' = 1
    <3>1. /\ inflight[p] \in Nat /\ allocated[p] \in Nat
          /\ Answers(alerts, p) \in Nat /\ Answers(popped, p) \in Nat
      BY DiskReadsType DEF CoreInv
    <3>2. inflight[p] + Answers(alerts, p) + Answers(popped, p) + allocated[p] = 0
      BY <2>5 DEF DiskReads
    <3>3. DiskReads(p)' = (inflight[p] + 1) + Answers(alerts, p) + Answers(popped, p) + allocated[p]
      BY <1>1, <2>2 DEF DiskReads
    <3>4. QED
      BY <3>1, <3>2, <3>3
  <2>7. Fetching(p)'
    <3>1. pc'[t] = "fetchPop" /\ Piece(t)' = Piece(t)
      BY <1>0, <1>1, <2>1 DEF Piece
    <3>2. QED
      BY <2>2, <3>1 DEF Fetching
  <2>8. Fetched(p)' = 1
    BY <2>7 DEF Fetched
  <2>9. QED
    BY <2>6, <2>8
<1>4. QED
  BY <1>2, <1>3

LEMMA CountInit == Init => CountInv
<1> SUFFICES ASSUME Init, NEW p \in Pieces
             PROVE  DiskReads(p) <= Fetched(p)
  BY DEF CountInv
<1>1. inflight[p] = 0 /\ allocated[p] = 0 /\ alerts = << >> /\ popped = << >>
  BY DEF Init
<1>2. DiskReads(p) = 0
  BY <1>1, AnswersEmpty DEF DiskReads
<1>3. Fetched(p) \in Nat
  BY DEF Fetched
<1>4. QED
  BY <1>2, <1>3

LEMMA CountStep ==
  ASSUME CoreInv, CountInv, [Next]_vars
  PROVE  CountInv'
<1> SUFFICES ASSUME NEW p \in Pieces
             PROVE  DiskReads(p)' <= Fetched(p)'
  BY DEF CountInv
<1>0. TypeOK
  BY DEF CoreInv
<1>1. ASSUME DiskReads(p)' \in Nat, DiskReads(p)' <= DiskReads(p)
      PROVE  DiskReads(p)' <= Fetched(p)'
  <2>1. DiskReads(p) \in Nat /\ DiskReads(p) <= Fetched(p)
    BY <1>0, DiskReadsType DEF CountInv
  <2>2. QED
    BY <1>1, <2>1, FetchedGrows
<1>2. DiskReads(p) \in Nat /\ DiskReads(p)' \in Nat
  <2>1. CoreInv'
    BY LegacyCoreStep
  <2>2. TypeOK'
    BY <2>1 DEF CoreInv
  <2>3. inflight'[p] \in Nat /\ allocated'[p] \in Nat /\ alerts' \in Seq(Alert)
        /\ popped' \in Seq(Alert)
    BY <2>2 DEF TypeOK
  <2>4. Answers(alerts', p) \in Nat /\ Answers(popped', p) \in Nat
    BY <2>3, AnswerSetFinite
  <2>5. DiskReads(p)' \in Nat
    BY <2>3, <2>4 DEF DiskReads
  <2>6. QED
    BY <1>0, <2>5, DiskReadsType
<1>3. ASSUME UNCHANGED <<inflight, alerts, popped, allocated>>
      PROVE  DiskReads(p)' <= Fetched(p)'
  <2>1. DiskReads(p)' = DiskReads(p)
    BY <1>3 DEF DiskReads
  <2>2. QED
    BY <1>1, <1>2, <2>1
<1>4. CASE InitStep \/ UNCHANGED vars \/ Terminated
  BY <1>3, <1>4 DEF InitStep, AddTorrent, ThrottleMount, ResumeMount, Terminated, vars
<1>5. ASSUME NEW q \in Pieces, Download(q) \/ ReadPieceDone(q)
      PROVE  DiskReads(p)' <= Fetched(p)'
  <2>1. DiskReads(p)' = DiskReads(p)
    BY <1>0, <1>5, SessionCount
  <2>2. QED
    BY <1>1, <1>2, <2>1
<1>6. ASSUME NEW t \in Readers, NEW r \in Requests, ReadStart(t, r)
      PROVE  DiskReads(p)' <= Fetched(p)'
  BY <1>3, <1>6 DEF ReadStart
<1>7. ASSUME NEW t \in Readers, ReaderStep(t)
      PROVE  DiskReads(p)' <= Fetched(p)'
  <2>1. CASE PopAlerts(t) \/ HandleAlert(t)
    BY <1>0, <1>1, <1>2, <2>1, AlertCount
  <2>2. CASE FindBuffer(t)
    BY <2>2, FetchCount
  <2>3. CASE ~ PopAlerts(t) /\ ~ HandleAlert(t) /\ ~ FindBuffer(t)
    <3>1. UNCHANGED <<inflight, alerts, popped, allocated>>
      BY <1>7, <2>3 DEF ReaderStep, Lock, SpeedUp, RaisePiece, RaiseNext, FirstCheck,
         RaiseAgain, CheckHave, CheckBuffer, Copy, SlowDown, Unlock
    <3>2. QED
      BY <1>3, <3>1
  <2>4. QED
    BY <2>1, <2>2, <2>3
<1>8. QED
  BY <1>4, <1>5, <1>6, <1>7 DEF Next

(***************************************************************************)
(* However many reads and threads there are, bitFS.cpp reads a piece from  *)
(* disk once, so that no buffer is lost or changes under a later read.     *)
(***************************************************************************)
THEOREM LegacyOneBuffer == Spec => []OneBuffer
<1>1. CoreInv /\ CountInv => OneBuffer
  <2> SUFFICES ASSUME CoreInv, CountInv, NEW p \in Pieces
               PROVE  DiskReads(p) <= 1
    BY DEF OneBuffer
  <2>1. DiskReads(p) \in Nat /\ DiskReads(p) <= Fetched(p)
    BY DiskReadsType DEF CoreInv, CountInv
  <2>2. Fetched(p) \in 0 .. 1
    BY DEF Fetched
  <2>3. QED
    BY <2>1, <2>2
<1>2. CoreInv /\ CountInv /\ [Next]_vars => CountInv'
  BY CountStep
<1>3. QED
  BY <1>1, <1>2, LegacyCoreInvariant, CountInit, PTL DEF Spec

-----------------------------------------------------------------------------
(* What became of a read_piece that a read polls for. *)

LEMMA PoppedInit == Init => PoppedInv
BY DEF Init, PoppedInv

LEMMA PoppedStep ==
  ASSUME CoreInv, PoppedInv, [Next]_vars
  PROVE  PoppedInv'
<1>0. pc \in [Readers -> Labels]
  BY DEF CoreInv, TypeOK
<1>1. CASE UNCHANGED <<pc, popped>>
  BY <1>1 DEF PoppedInv
<1>2. ASSUME NEW t \in Readers, NEW r \in Requests, ReadStart(t, r)
      PROVE  PoppedInv'
  BY <1>0, <1>2 DEF ReadStart, Goto, PoppedInv
<1>3. ASSUME NEW t \in Readers, ReaderStep(t)
      PROVE  PoppedInv'
  <2>1. ASSUME pc[t] \notin {"check", "fetch"}, popped' = popped
        PROVE  PoppedInv'
    BY <1>3, <2>1, StepAlone DEF CoreInv, PoppedInv
  <2>2. CASE PopAlerts(t)
    BY <1>0, <2>2 DEF PopAlerts, Goto, PoppedInv
  <2>3. CASE HandleAlert(t)
    BY <2>3 DEF HandleAlert, PoppedInv
  <2>4. CASE CheckHave(t) \/ CheckBuffer(t)
    BY <2>4 DEF CheckHave, CheckBuffer, PoppedInv
  <2>5. QED
    BY <1>3, <2>1, <2>2, <2>3, <2>4 DEF ReaderStep, Lock, SpeedUp, RaisePiece, RaiseNext,
       FirstCheck, RaiseAgain, FindBuffer, Copy, SlowDown, Unlock, Goto
<1>4. QED
  BY <1>1, <1>2, <1>3, OutsideFrame DEF Next

(* Nothing is popped on top of alerts that were not looked at. *)
LEMMA PopEmpty ==
  ASSUME CoreInv, PoppedInv, NEW t \in Readers, PopAlerts(t)
  PROVE  popped = << >>
<1>1. pc[t] \in {"checkPop", "fetchPop"} /\ ReaderStep(t)
  BY DEF PopAlerts, Goto, ReaderStep
<1>2. \A u \in Readers : u # t => pc[u] \notin Critical
  BY <1>1, StepAlone DEF CoreInv
<1>3. QED
  BY <1>1, <1>2 DEF PoppedInv, Critical, SecondLoop

(***************************************************************************)
(* Of the disk reads under way to the map none is lost: each step keeps    *)
(* them under way or puts a buffer into the map.                           *)
(***************************************************************************)
LEMMA UnderwayKept ==
  ASSUME CoreInv, PoppedInv, [Next]_vars, NEW p \in Pieces, Underway(p) > 0
  PROVE  piece_buffer_map'[p] # NoBuffer \/ Underway(p)' > 0
<1>0. /\ inflight[p] \in Nat /\ allocated[p] \in Nat
      /\ Answers(alerts, p) \in Nat /\ Answers(popped, p) \in Nat
      /\ inflight \in [Pieces -> Nat]
      /\ piece_buffer_map \in [Pieces -> Nat \cup {NoBuffer}]
      /\ popped \in Seq(Alert)
  BY DiskReadsType DEF CoreInv, TypeOK
<1>1. ASSUME UNCHANGED <<alerts, popped>>, inflight'[p] \in {inflight[p], inflight[p] + 1}
      PROVE  Underway(p)' > 0
  BY <1>0, <1>1
<1>2. CASE InitStep \/ UNCHANGED vars \/ Terminated
  BY <1>0, <1>1, <1>2 DEF InitStep, AddTorrent, ThrottleMount, ResumeMount, Terminated, vars
<1>3. ASSUME NEW q \in Pieces, Download(q) \/ ReadPieceDone(q)
      PROVE  Underway(p)' > 0
  <2>1. allocated' = allocated /\ DiskReads(p)' = DiskReads(p)
    BY <1>3, SessionCount DEF CoreInv, Download, ReadPieceDone
  <2>2. TypeOK'
    <3>1. CoreInv'
      BY LegacyCoreStep
    <3>2. QED
      BY <3>1 DEF CoreInv
  <2>3. /\ inflight'[p] \in Nat
        /\ Answers(alerts, p)' \in Nat /\ Answers(popped, p)' \in Nat
    BY <2>2, AnswerSetFinite DEF TypeOK
  <2>4. QED
    BY <1>0, <2>1, <2>3 DEF DiskReads
<1>4. ASSUME NEW t \in Readers, NEW r \in Requests, ReadStart(t, r)
      PROVE  Underway(p)' > 0
  BY <1>0, <1>1, <1>4 DEF ReadStart
<1>5. ASSUME NEW t \in Readers, PopAlerts(t)
      PROVE  Underway(p)' > 0
  <2>1. popped = << >> /\ popped' = alerts /\ alerts' = << >> /\ inflight' = inflight
    BY <1>5, PopEmpty DEF PopAlerts
  <2>2. Answers(<< >>, p) = 0
    BY AnswersEmpty
  <2>3. QED
    BY <1>0, <2>1, <2>2
<1>6. ASSUME NEW t \in Readers, HandleAlert(t)
      PROVE  piece_buffer_map'[p] # NoBuffer \/ Underway(p)' > 0
  <2> DEFINE a == Head(popped)
  <2>1. popped # << >> /\ popped' = Tail(popped) /\ UNCHANGED <<alerts, inflight>>
    BY <1>6 DEF HandleAlert
  <2>2. a \in Alert
    BY <1>0, <2>1
  <2>3. a.size \in Nat /\ a.piece \in Pieces
    BY <2>2 DEF Alert
  <2>4. a.type = "read_piece" =>
          piece_buffer_map' = [piece_buffer_map EXCEPT ![a.piece] = a.size]
    BY <1>6 DEF HandleAlert
  <2>5. Answers(popped, p) =
          Answers(popped', p) + (IF a.type = "read_piece" /\ a.piece = p THEN 1 ELSE 0)
    BY <1>0, <2>1, AnswersTail
  <2>6. Answers(popped', p) \in Nat
    <3>1. popped' \in Seq(Alert)
      BY <1>0, <2>1
    <3>2. QED
      BY <3>1, AnswerSetFinite
  <2> HIDE DEF a
  <2>7. CASE a.type = "read_piece" /\ a.piece = p
    BY <1>0, <2>3, <2>4, <2>7 DEF NoBuffer
  <2>8. CASE ~ (a.type = "read_piece" /\ a.piece = p)
    BY <1>0, <2>1, <2>5, <2>6, <2>8
  <2>9. QED
    BY <2>7, <2>8
(* The one step that asks for more. *)
<1>7. ASSUME NEW t \in Readers, FindBuffer(t)
      PROVE  Underway(p)' > 0
  <2>1. inflight' = inflight \/ inflight' = [inflight EXCEPT ![Piece(t)] = @ + 1]
    BY <1>7 DEF FindBuffer, read_piece
  <2>2. inflight'[p] \in {inflight[p], inflight[p] + 1}
    BY <1>0, <2>1
  <2>3. UNCHANGED <<alerts, popped>>
    BY <1>7 DEF FindBuffer
  <2>4. QED
    BY <1>1, <2>2, <2>3
<1>8. ASSUME NEW t \in Readers, ReaderStep(t), ~ PopAlerts(t), ~ HandleAlert(t), ~ FindBuffer(t)
      PROVE  Underway(p)' > 0
  <2>1. UNCHANGED <<inflight, alerts, popped>>
    BY <1>8 DEF ReaderStep, Lock, SpeedUp, RaisePiece, RaiseNext, FirstCheck,
       RaiseAgain, CheckHave, CheckBuffer, Copy, SlowDown, Unlock
  <2>2. QED
    BY <1>0, <1>1, <2>1
<1>9. QED
  BY <1>2, <1>3, <1>4, <1>5, <1>6, <1>7, <1>8 DEF Next

(* A read begins to poll when it has asked, and goes on with the same piece. *)
LEMMA AnswerStep ==
  ASSUME CoreInv, PoppedInv, AnswerOnItsWay, [Next]_vars
  PROVE  AnswerOnItsWay'
<1> DEFINE Coming(p) == piece_buffer_map[p] # NoBuffer \/ Underway(p) > 0
<1> SUFFICES ASSUME NEW u \in Readers, pc'[u] \in {"fetch", "fetchPop"},
                    NEW p, Piece(u)' = p
             PROVE  Coming(p)'
  BY DEF AnswerOnItsWay
<1>0. /\ TypeOK /\ RequestInv /\ LoopInv
      /\ pc \in [Readers -> Labels] /\ req \in [Readers -> Requests \cup {IdleRequest}]
  BY DEF CoreInv, TypeOK
<1>1. ASSUME pc[u] \in {"fetch", "fetchPop"}, req'[u] = req[u], UNCHANGED range
      PROVE  Coming(p)'
  <2>1. Piece(u) = p
    BY <1>1 DEF Piece
  <2>2. p \in Pieces
    BY <1>0, <1>1, <2>1, LoopFacts DEF Loops, SecondLoop
  <2>3. Coming(p)
    BY <1>1, <2>1 DEF AnswerOnItsWay
  <2>4. QED
    BY <1>0, <2>2, <2>3, BufferKept, UnderwayKept
<1>2. CASE InitStep \/ UNCHANGED vars \/ Terminated \/ \E q \in Pieces : Download(q) \/ ReadPieceDone(q)
  BY <1>1, <1>2, OutsideFrame
<1>3. ASSUME NEW t \in Readers, NEW r \in Requests, ReadStart(t, r)
      PROVE  Coming(p)'
  <2>1. u # t
    BY <1>0, <1>3 DEF ReadStart, Goto
  <2>2. pc'[u] = pc[u] /\ req'[u] = req[u] /\ UNCHANGED range
    BY <1>0, <1>3, <2>1 DEF ReadStart, Goto
  <2>3. QED
    BY <1>1, <2>2
<1>4. ASSUME NEW t \in Readers, ReaderStep(t)
      PROVE  Coming(p)'
  <2>1. u = t
    <3>1. \A v \in Readers : v # t => pc'[v] = pc[v] /\ pc[v] \notin Critical
      BY <1>4, StepAlone DEF CoreInv
    <3>2. QED
      BY <3>1 DEF Critical, SecondLoop
  <2>2. PopAlerts(t) \/ HandleAlert(t) \/ CheckBuffer(t) \/ FindBuffer(t)
    BY <1>0, <1>4, <2>1 DEF ReaderStep, Lock, SpeedUp, RaisePiece, RaiseNext, FirstCheck,
       RaiseAgain, CheckHave, Copy, SlowDown, Unlock, Goto
  <2>3. CASE PopAlerts(t)
    BY <1>0, <1>1, <2>1, <2>3 DEF PopAlerts, Goto
  <2>4. CASE HandleAlert(t)
    BY <1>1, <2>1, <2>4 DEF HandleAlert
  <2>5. CASE CheckBuffer(t)
    BY <1>0, <1>1, <2>1, <2>5 DEF CheckBuffer, Goto
  <2>6. CASE FindBuffer(t)
    <3>1. /\ pc[t] = "find" /\ inflight' = [inflight EXCEPT ![Piece(t)] = @ + 1]
          /\ UNCHANGED <<alerts, popped, req, range>>
      BY <1>0, <2>1, <2>6 DEF FindBuffer, Goto, read_piece
    <3>2. Piece(t) = p
      BY <2>1, <3>1 DEF Piece
    <3>3. p \in Pieces
      BY <1>0, <3>1, <3>2, LoopFacts DEF Loops, SecondLoop
    <3>4. /\ inflight[p] \in Nat /\ inflight \in [Pieces -> Nat]
          /\ Answers(alerts, p) \in Nat /\ Answers(popped, p) \in Nat
      BY <1>0, <3>3, DiskReadsType DEF TypeOK
    <3>5. inflight'[p] = inflight[p] + 1
      BY <3>1, <3>2, <3>3, <3>4
    <3>6. QED
      BY <3>1, <3>4, <3>5
  <2>7. QED
    BY <2>2, <2>3, <2>4, <2>5, <2>6
<1>5. QED
  BY <1>2, <1>3, <1>4 DEF Next

(***************************************************************************)
(* A read that polls for the buffer of its piece never polls in vain: an   *)
(* answer for that piece is under way, or the buffer is there.             *)
(***************************************************************************)
THEOREM LegacyNoAnswerLost == Spec => []AnswerOnItsWay
<1>1. Init => AnswerOnItsWay
  BY DEF Init, AnswerOnItsWay
<1>2. CoreInv /\ PoppedInv /\ [Next]_vars => PoppedInv'
  BY PoppedStep
<1>3. CoreInv /\ PoppedInv /\ AnswerOnItsWay /\ [Next]_vars => AnswerOnItsWay'
  BY AnswerStep
<1>4. QED
  BY <1>1, <1>2, <1>3, PoppedInit, LegacyCoreInvariant, PTL DEF Spec

-----------------------------------------------------------------------------
(***************************************************************************)
(* bitfs_read of bitFS.cpp implements the read of ReadOnlyFile, for every  *)
(* layout and number of threads: first what it has written, then which     *)
(* bytes, then the steps of the two.                                       *)
(***************************************************************************)
HIDE DEF Underway

(* What a thread owns, and who may change it. *)
Own(u) == <<pc[u], req[u], read_ptr[u], buf[u]>>

LEMMA OthersStay ==
  ASSUME CoreInv, NEW t \in Readers, ReaderStep(t), NEW u \in Readers, u # t
  PROVE  Own(u)' = Own(u) /\ pc[u] \notin Loops
<1>0. read_ptr \in [Readers -> Nat] /\ DOMAIN buf = Readers
  BY DEF CoreInv, TypeOK
<1>1. req' = req /\ pc'[u] = pc[u] /\ pc[u] \notin Critical
  BY StepAlone DEF CoreInv
<1>2. read_ptr'[u] = read_ptr[u] /\ buf'[u] = buf[u]
  <2>1. CASE Copy(t)
    BY <1>0, <2>1 DEF Copy
  <2>2. CASE ~ Copy(t)
    BY <2>2 DEF ReaderStep, Lock, SpeedUp, RaisePiece, RaiseNext, FirstCheck,
       RaiseAgain, CheckHave, PopAlerts, HandleAlert, FindBuffer, CheckBuffer, SlowDown, Unlock
  <2>3. QED
    BY <2>1, <2>2
<1>3. QED
  BY <1>1, <1>2 DEF Own, Loops, Critical

LEMMA Frame ==
  ASSUME CoreInv, [Next]_vars, NEW u \in Readers
  PROVE  \/ Own(u)' = Own(u) /\ (pc[u] \in Loops => UNCHANGED range)
         \/ ReaderStep(u)
         \/ \E r \in Requests : ReadStart(u, r)
<1>0. /\ pc \in [Readers -> Labels] /\ req \in [Readers -> Requests \cup {IdleRequest}]
      /\ read_ptr \in [Readers -> Nat] /\ DOMAIN buf = Readers
  BY DEF CoreInv, TypeOK
<1>1. CASE UNCHANGED <<pc, frame>>
  BY <1>1 DEF Own
<1>2. ASSUME NEW t \in Readers, NEW r \in Requests, ReadStart(t, r), u # t
      PROVE  Own(u)' = Own(u) /\ UNCHANGED range
  BY <1>0, <1>2 DEF ReadStart, Goto, Own
<1>3. ASSUME NEW t \in Readers, ReaderStep(t), u # t
      PROVE  Own(u)' = Own(u) /\ pc[u] \notin Loops
  BY <1>3, OthersStay
<1>4. CASE InitStep \/ Terminated \/ \E p \in Pieces : Download(p) \/ ReadPieceDone(p)
  BY <1>1, <1>4 DEF InitStep, AddTorrent, ThrottleMount, ResumeMount, Download, ReadPieceDone,
     Terminated, vars
<1>5. QED
  BY <1>1, <1>2, <1>3, <1>4 DEF Next, vars

-----------------------------------------------------------------------------
(* How much is written. *)

LEMMA WrittenInit == Init => WrittenInv
BY DEF Init, WrittenInv, FirstLoop, SecondLoop

LEMMA WrittenStep ==
  ASSUME CoreInv, WrittenInv, [Next]_vars
  PROVE  WrittenInv'
<1> DEFINE W(u) ==
      /\ pc[u] \in {"lock", "speedUp"} \cup FirstLoop => read_ptr[u] = 0
      /\ pc[u] \in SecondLoop => curr_offset = req[u].offset + read_ptr[u]
      /\ pc[u] \in {"slowDown", "unlock"} => read_ptr[u] = ReadLength(req[u])
      /\ pc[u] = "done" =>
           /\ req[u] \in Requests
           /\ read_ptr[u] = IF req[u].offset < get_file_size(req[u].file)
                            THEN ReadLength(req[u]) ELSE 0
<1> SUFFICES ASSUME NEW u \in Readers
             PROVE  W(u)'
  BY DEF WrittenInv
<1>0. /\ W(u)
      /\ pc \in [Readers -> Labels] /\ req \in [Readers -> Requests \cup {IdleRequest}]
      /\ read_ptr \in [Readers -> Nat]
  BY DEF WrittenInv, CoreInv, TypeOK
<1>1. CASE Own(u)' = Own(u) /\ (pc[u] \in Loops => UNCHANGED range)
  BY <1>0, <1>1 DEF Own, Loops
<1>2. ASSUME NEW r \in Requests, ReadStart(u, r)
      PROVE  W(u)'
  <2>1. read_ptr'[u] = 0 /\ req'[u] = r
        /\ pc'[u] = IF r.offset >= get_file_size(r.file) THEN "done" ELSE "lock"
    BY <1>0, <1>2 DEF ReadStart, Goto
  <2>2. r.offset \in Nat /\ get_file_size(r.file) \in Int
    BY LegacyAssumption, LayoutAssumption, IntConversion DEF get_file_size
  <2>3. QED
    BY <2>1, <2>2 DEF FirstLoop, SecondLoop
<1>3. CASE ReaderStep(u)
  <2>0. /\ req' = req /\ req[u] \in Requests /\ req[u].offset < get_file_size(req[u].file)
        /\ req[u].offset \in Nat /\ ReadLength(req[u]) \in Nat
    <3>1. req' = req /\ pc[u] \in {"lock"} \cup Critical
      BY <1>3, StepAlone DEF CoreInv
    <3>2. req[u] \in Requests /\ req[u].offset < get_file_size(req[u].file)
      BY <3>1 DEF CoreInv, RequestInv
    <3>3. QED
      BY <3>1, <3>2, RequestFacts
  <2>1. CASE Lock(u) \/ RaisePiece(u) \/ SpeedUp(u)
    <3>1. /\ pc[u] \in {"lock", "speedUp"} \cup FirstLoop /\ read_ptr' = read_ptr
          /\ \/ pc'[u] \in {"speedUp"} \cup FirstLoop
             \/ pc'[u] = "slowDown" /\ ~ (ReadLength(req[u]) > 0)
      BY <1>0, <2>1 DEF Lock, RaisePiece, SpeedUp, Goto, FirstLoop
    <3>2. QED
      BY <1>0, <2>0, <3>1 DEF FirstLoop, SecondLoop
  <2>2. CASE RaiseNext(u)
    <3>1. pc[u] \in FirstLoop /\ pc[u] \in Loops /\ read_ptr' = read_ptr
          /\ pc'[u] = (IF More(u) THEN "raise" ELSE "wait")
          /\ (~ More(u) => Rewind(u))
      BY <1>0, <2>2 DEF RaiseNext, Goto, FirstLoop, Loops
    <3>2. ~ More(u) => curr_offset' = req[u].offset
      BY <3>1, RewindFacts
    <3>3. QED
      BY <1>0, <2>0, <3>1, <3>2 DEF FirstLoop, SecondLoop
  <2>3. CASE \/ FirstCheck(u) \/ RaiseAgain(u) \/ CheckHave(u) \/ PopAlerts(u)
             \/ HandleAlert(u) \/ FindBuffer(u) \/ CheckBuffer(u)
    <3>1. /\ pc[u] \in SecondLoop /\ pc'[u] \in SecondLoop
          /\ curr_offset' = curr_offset /\ read_ptr' = read_ptr
      BY <1>0, <2>3 DEF FirstCheck, RaiseAgain, CheckHave, PopAlerts, HandleAlert, FindBuffer,
         CheckBuffer, Goto, SecondLoop
    <3>2. QED
      BY <1>0, <2>0, <3>1 DEF FirstLoop, SecondLoop
  <2>4. CASE Copy(u)
    <3>1. /\ pc[u] \in SecondLoop /\ pc[u] \in Loops
          /\ pc'[u] = (IF More(u) THEN "wait" ELSE "slowDown")
          /\ read_ptr'[u] = read_ptr[u] + ReadSize(u)
          /\ curr_offset' = curr_offset + ReadSize(u)
      BY <1>0, <2>4 DEF Copy, Goto, Advance, SecondLoop, Loops
    <3>2. /\ curr_offset \in Nat /\ remaining_size \in Nat
          /\ ReadSize(u) \in Nat /\ ReadSize(u) <= remaining_size
          /\ curr_offset + remaining_size = req[u].offset + ReadLength(req[u])
      BY <3>1, LoopFacts DEF CoreInv, LoopInv
    <3>3. read_ptr[u] \in Nat /\ curr_offset = req[u].offset + read_ptr[u]
      BY <1>0, <3>1
    <3>4. ~ More(u) => read_ptr'[u] = ReadLength(req[u])
      BY <2>0, <3>1, <3>2, <3>3 DEF More
    <3>5. curr_offset' = req[u].offset + read_ptr'[u]
      BY <2>0, <3>1, <3>2, <3>3
    <3>6. QED
      BY <2>0, <3>1, <3>4, <3>5 DEF FirstLoop, SecondLoop
  <2>5. CASE SlowDown(u) \/ Unlock(u)
    <3>1. /\ pc[u] \in {"slowDown", "unlock"} /\ pc'[u] \in {"unlock", "done"}
          /\ read_ptr' = read_ptr
      BY <1>0, <2>5 DEF SlowDown, Unlock, Goto
    <3>2. QED
      BY <1>0, <2>0, <3>1 DEF FirstLoop, SecondLoop
  <2>6. QED
    BY <1>3, <2>1, <2>2, <2>3, <2>4, <2>5 DEF ReaderStep
<1>4. QED
  BY <1>1, <1>2, <1>3, Frame

-----------------------------------------------------------------------------
(* Whole pieces, from the disk to the map. *)

AllWhole(q) == \A i \in 1 .. Len(q) : WholeAlert(q[i])

LEMMA WholeAppend ==
  ASSUME NEW q \in Seq(Alert), AllWhole(q), NEW a \in Alert, WholeAlert(a)
  PROVE  AllWhole(Append(q, a))
<1> SUFFICES ASSUME NEW i \in 1 .. Len(Append(q, a))
             PROVE  WholeAlert(Append(q, a)[i])
  BY DEF AllWhole
<1>1. CASE i \in 1 .. Len(q)
  <2>1. Append(q, a)[i] = q[i] /\ WholeAlert(q[i])
    BY <1>1 DEF AllWhole
  <2>2. QED
    BY <2>1
<1>2. CASE i = Len(q) + 1
  BY <1>2
<1>3. QED
  BY <1>1, <1>2

LEMMA WholeTail ==
  ASSUME NEW q \in Seq(Alert), AllWhole(q), q # << >>
  PROVE  AllWhole(Tail(q))
<1> SUFFICES ASSUME NEW i \in 1 .. Len(Tail(q))
             PROVE  WholeAlert(Tail(q)[i])
  BY DEF AllWhole
<1>1. Tail(q)[i] = q[i + 1] /\ i + 1 \in 1 .. Len(q)
  OBVIOUS
<1>2. QED
  BY <1>1 DEF AllWhole

LEMMA BufferInit == Init => BufferInv
BY DEF Init, BufferInv

(* The map is written by HandleAlert only, and only with a whole piece. *)
LEMMA MapStep ==
  ASSUME CoreInv, AllWhole(popped), [Next]_vars, NEW p \in Pieces,
         piece_buffer_map[p] \in {NoBuffer, piece_size(p)}
  PROVE  piece_buffer_map'[p] \in {NoBuffer, piece_size(p)}
<1>1. CASE piece_buffer_map' = piece_buffer_map
  BY <1>1
<1>2. ASSUME NEW t \in Readers, HandleAlert(t)
      PROVE  piece_buffer_map'[p] \in {NoBuffer, piece_size(p)}
  <2> DEFINE a == Head(popped)
  <2>1. /\ popped \in Seq(Alert) /\ popped # << >>
        /\ piece_buffer_map \in [Pieces -> Nat \cup {NoBuffer}]
    BY <1>2 DEF HandleAlert, CoreInv, TypeOK
  <2>2. a = popped[1] /\ 1 \in 1 .. Len(popped) /\ a \in Alert
    BY <2>1
  <2>3. WholeAlert(a) /\ a.piece \in Pieces
    BY <2>2 DEF AllWhole, Alert
  <2>4. \/ piece_buffer_map' = piece_buffer_map
        \/ /\ a.type = "read_piece"
           /\ piece_buffer_map' = [piece_buffer_map EXCEPT ![a.piece] = a.size]
    BY <1>2 DEF HandleAlert
  <2> HIDE DEF a
  <2>5. QED
    BY <1>1, <2>1, <2>3, <2>4 DEF WholeAlert
<1>3. ASSUME NEW t \in Readers, ReaderStep(t), ~ HandleAlert(t)
      PROVE  piece_buffer_map' = piece_buffer_map
  BY <1>3 DEF ReaderStep, Lock, SpeedUp, RaisePiece, RaiseNext, FirstCheck, RaiseAgain,
     CheckHave, PopAlerts, FindBuffer, CheckBuffer, Copy, SlowDown, Unlock
<1>4. QED
  BY <1>1, <1>2, <1>3, OutsideFrame DEF Next, ReadStart

(* Pieces stay. *)
LEMMA HaveGrows ==
  ASSUME [Next]_vars
  PROVE  have \subseteq have'
<1>1. ASSUME NEW t \in Readers, ReaderStep(t)
      PROVE  have' = have
  BY <1>1 DEF ReaderStep, Lock, SpeedUp, RaisePiece, RaiseNext, FirstCheck, RaiseAgain,
     CheckHave, PopAlerts, HandleAlert, FindBuffer, CheckBuffer, Copy, SlowDown, Unlock
<1>2. QED
  BY <1>1 DEF Next, InitStep, AddTorrent, ThrottleMount, ResumeMount, Terminated, vars,
     Download, ReadPieceDone, ReadStart

(* A piece is read from disk only once it is there. *)
LEMMA InflightStep ==
  ASSUME CoreInv, BufferInv, [Next]_vars, NEW p \in Pieces, inflight'[p] > 0
  PROVE  p \in have'
<1>0. /\ inflight \in [Pieces -> Nat] /\ (inflight[p] > 0 => p \in have)
  BY DEF CoreInv, TypeOK, BufferInv
<1>1. have \subseteq have'
  BY HaveGrows
<1>2. CASE inflight' = inflight
  BY <1>0, <1>1, <1>2
<1>3. ASSUME NEW q \in Pieces, ReadPieceDone(q)
      PROVE  p \in have'
  <2>1. inflight' = [inflight EXCEPT ![q] = @ - 1] /\ inflight[q] > 0
    BY <1>3 DEF ReadPieceDone
  <2>2. inflight[p] > 0
    BY <1>0, <2>1
  <2>3. QED
    BY <1>0, <1>1, <2>2
<1>4. ASSUME NEW t \in Readers, FindBuffer(t)
      PROVE  p \in have'
  <2>1. Piece(t) \in have
    BY <1>4 DEF FindBuffer, Goto, BufferInv
  <2>2. inflight' = inflight \/ inflight' = [inflight EXCEPT ![Piece(t)] = @ + 1]
    BY <1>4 DEF FindBuffer, read_piece
  <2>3. inflight'[p] = inflight[p] \/ Piece(t) = p
    BY <1>0, <2>2
  <2>4. QED
    BY <1>0, <1>1, <2>1, <2>3
<1>5. ASSUME NEW t \in Readers, ReaderStep(t), ~ FindBuffer(t)
      PROVE  inflight' = inflight
  BY <1>5 DEF ReaderStep, Lock, SpeedUp, RaisePiece, RaiseNext, FirstCheck, RaiseAgain,
     CheckHave, PopAlerts, HandleAlert, CheckBuffer, Copy, SlowDown, Unlock
<1>6. QED
  BY <1>2, <1>3, <1>4, <1>5 DEF Next, InitStep, AddTorrent, ThrottleMount, ResumeMount,
     Terminated, vars, Download, ReadStart

(* libtorrent adds whole pieces to its queue; pop_alerts empties it. *)
LEMMA QueueStep ==
  ASSUME ~ DiskErrors, CoreInv, BufferInv, [Next]_vars
  PROVE  AllWhole(alerts)'
<1>0. alerts \in Seq(Alert) /\ AllWhole(alerts)
  BY DEF CoreInv, TypeOK, BufferInv, AllWhole
<1>1. CASE alerts' = alerts
  BY <1>0, <1>1 DEF AllWhole, WholeAlert
<1>2. ASSUME NEW a \in Alert, WholeAlert(a), alerts' = Append(alerts, a)
      PROVE  AllWhole(alerts)'
  <2>1. AllWhole(Append(alerts, a))
    BY <1>0, <1>2, WholeAppend
  <2>2. QED
    BY <1>2, <2>1 DEF AllWhole, WholeAlert
<1>3. ASSUME NEW p \in Pieces, Download(p)
      PROVE  AllWhole(alerts)'
  <2> DEFINE a == [type |-> "piece_finished", piece |-> p, size |-> 0]
  <2>1. a \in Alert /\ WholeAlert(a)
    BY DEF Alert, WholeAlert
  <2>2. alerts' = Append(alerts, a)
    BY <1>3 DEF Download
  <2> HIDE DEF a
  <2>3. QED
    BY <1>2, <2>1, <2>2
<1>4. ASSUME NEW p \in Pieces, ReadPieceDone(p)
      PROVE  AllWhole(alerts)'
  <2> DEFINE a == [type |-> "read_piece", piece |-> p, size |-> piece_size(p)]
  <2>1. p \in have /\ piece_size(p) \in Nat
    BY <1>4, PieceSize DEF BufferInv, ReadPieceDone
  <2>2. alerts' = Append(alerts, a)
    BY <1>4, <2>1 DEF ReadPieceDone
  <2>3. a \in Alert /\ WholeAlert(a)
    BY <2>1 DEF Alert, WholeAlert
  <2> HIDE DEF a
  <2>4. QED
    BY <1>2, <2>2, <2>3
<1>5. ASSUME NEW t \in Readers, PopAlerts(t)
      PROVE  AllWhole(alerts)'
  BY <1>5 DEF PopAlerts, AllWhole
<1>6. ASSUME NEW t \in Readers, ReaderStep(t), ~ PopAlerts(t)
      PROVE  alerts' = alerts
  BY <1>6 DEF ReaderStep, Lock, SpeedUp, RaisePiece, RaiseNext, FirstCheck, RaiseAgain,
     CheckHave, HandleAlert, FindBuffer, CheckBuffer, Copy, SlowDown, Unlock
<1>7. QED
  BY <1>1, <1>3, <1>4, <1>5, <1>6 DEF Next, InitStep, AddTorrent, ThrottleMount,
     ResumeMount, Terminated, vars, ReadStart

LEMMA PoppedWhole ==
  ASSUME CoreInv, BufferInv, [Next]_vars
  PROVE  AllWhole(popped)'
<1>0. /\ popped \in Seq(Alert) /\ AllWhole(popped)
      /\ alerts \in Seq(Alert) /\ AllWhole(alerts)
  BY DEF CoreInv, TypeOK, BufferInv, AllWhole
<1>1. CASE popped' = popped
  BY <1>0, <1>1 DEF AllWhole, WholeAlert
<1>2. ASSUME NEW t \in Readers, PopAlerts(t)
      PROVE  AllWhole(popped)'
  BY <1>0, <1>2 DEF PopAlerts, AllWhole, WholeAlert
<1>3. ASSUME NEW t \in Readers, HandleAlert(t)
      PROVE  AllWhole(popped)'
  <2>1. popped' = Tail(popped) /\ popped # << >>
    BY <1>3 DEF HandleAlert
  <2>2. AllWhole(Tail(popped))
    BY <1>0, <2>1, WholeTail
  <2>3. QED
    BY <2>1, <2>2 DEF AllWhole, WholeAlert
<1>4. ASSUME NEW t \in Readers, ReaderStep(t), ~ PopAlerts(t), ~ HandleAlert(t)
      PROVE  popped' = popped
  BY <1>4 DEF ReaderStep, Lock, SpeedUp, RaisePiece, RaiseNext, FirstCheck, RaiseAgain,
     CheckHave, FindBuffer, CheckBuffer, Copy, SlowDown, Unlock
<1>5. QED
  BY <1>1, <1>2, <1>3, <1>4, OutsideFrame DEF Next, ReadStart

(* A read copies from a piece that is there, out of a buffer it has seen. *)
LEMMA CopierStep ==
  ASSUME CoreInv, BufferInv, [Next]_vars, NEW u \in Readers
  PROVE  /\ pc'[u] \in {"find", "fetch", "fetchPop", "copy"} => Piece(u)' \in have'
         /\ pc'[u] = "copy" => piece_buffer_map'[Piece(u)'] # NoBuffer
<1> DEFINE Copying == {"find", "fetch", "fetchPop", "copy"}
<1>0. /\ TypeOK /\ RequestInv /\ LoopInv
      /\ pc \in [Readers -> Labels] /\ req \in [Readers -> Requests \cup {IdleRequest}]
      /\ (pc[u] \in Copying => Piece(u) \in have)
      /\ (pc[u] = "copy" => piece_buffer_map[Piece(u)] # NoBuffer)
  BY DEF CoreInv, TypeOK, BufferInv
<1>1. ASSUME req'[u] = req[u], UNCHANGED range, pc'[u] \in Copying => pc[u] \in Copying,
             pc'[u] = "copy" => pc[u] = "copy"
      PROVE  /\ pc'[u] \in Copying => Piece(u)' \in have'
             /\ pc'[u] = "copy" => piece_buffer_map'[Piece(u)'] # NoBuffer
  <2>1. Piece(u)' = Piece(u) /\ (pc[u] \in Copying => Piece(u) \in Pieces)
    BY <1>0, <1>1, LoopFacts DEF Piece, Loops, SecondLoop
  <2>2. have \subseteq have'
    BY HaveGrows
  <2>3. QED
    BY <1>0, <1>1, <2>1, <2>2, BufferKept
<1>2. CASE Own(u)' = Own(u) /\ (pc[u] \in Loops => UNCHANGED range)
  <2>1. req'[u] = req[u] /\ pc'[u] = pc[u]
    BY <1>2 DEF Own
  <2>2. CASE pc[u] \in Copying
    BY <1>1, <1>2, <2>1, <2>2 DEF Loops, SecondLoop
  <2>3. CASE pc[u] \notin Copying
    BY <2>1, <2>3
  <2>4. QED
    BY <2>2, <2>3
<1>3. ASSUME NEW r \in Requests, ReadStart(u, r)
      PROVE  pc'[u] \notin Copying
  BY <1>0, <1>3 DEF ReadStart, Goto
<1>4. CASE ReaderStep(u)
  <2>1. CASE \/ Lock(u) \/ SpeedUp(u) \/ RaisePiece(u) \/ RaiseNext(u) \/ RaiseAgain(u)
             \/ Copy(u) \/ SlowDown(u) \/ Unlock(u)
    <3>1. pc'[u] \notin Copying
      BY <1>0, <2>1 DEF Lock, SpeedUp, RaisePiece, RaiseNext, RaiseAgain, Copy, SlowDown,
         Unlock, Goto
    <3>2. QED
      BY <3>1
  <2>2. CASE PopAlerts(u) \/ HandleAlert(u)
    <3>1. req' = req /\ UNCHANGED range /\ (pc'[u] \in Copying => pc[u] \in Copying)
          /\ pc'[u] # "copy"
      BY <1>0, <2>2 DEF PopAlerts, HandleAlert, Goto
    <3>2. QED
      BY <1>1, <3>1
  <2>3. CASE FirstCheck(u) \/ CheckHave(u) \/ FindBuffer(u) \/ CheckBuffer(u)
    <3>1. UNCHANGED <<have, piece_buffer_map, req, range>>
      BY <2>3 DEF FirstCheck, CheckHave, FindBuffer, CheckBuffer
    <3>2. Piece(u)' = Piece(u)
      BY <3>1 DEF Piece
    <3>3. pc'[u] \in Copying => Piece(u) \in have
      BY <1>0, <2>3 DEF FirstCheck, CheckHave, FindBuffer, CheckBuffer, Goto
    <3>4. pc'[u] = "copy" => piece_buffer_map[Piece(u)] # NoBuffer
      BY <1>0, <2>3 DEF FirstCheck, CheckHave, FindBuffer, CheckBuffer, Goto
    <3>5. QED
      BY <3>1, <3>2, <3>3, <3>4
  <2>4. QED
    BY <1>4, <2>1, <2>2, <2>3 DEF ReaderStep
<1>5. QED
  BY <1>2, <1>3, <1>4, Frame

LEMMA BufferStep ==
  ASSUME ~ DiskErrors, CoreInv, BufferInv, [Next]_vars
  PROVE  BufferInv'
<1>1. ASSUME NEW p \in Pieces
      PROVE  /\ inflight'[p] > 0 => p \in have'
             /\ piece_buffer_map'[p] \in {NoBuffer, piece_size(p)}
  BY InflightStep, MapStep DEF BufferInv, AllWhole
<1>2. AllWhole(alerts)' /\ AllWhole(popped)'
  BY QueueStep, PoppedWhole
<1>3. \A i \in 1 .. Len(alerts') : WholeAlert(alerts[i])'
  BY <1>2 DEF AllWhole
<1>4. \A i \in 1 .. Len(popped') : WholeAlert(popped[i])'
  BY <1>2 DEF AllWhole
<1>5. QED
  BY <1>1, <1>3, <1>4, CopierStep DEF BufferInv

-----------------------------------------------------------------------------
(* Which bytes are written. *)

LEMMA BytesInit == Init => BytesInv
BY DEF Init, BytesInv

(* What one turn of the second loop copies. *)
LEMMA CopiedBytes ==
  ASSUME CoreInv, WrittenInv, BufferInv, NEW t \in Readers, pc[t] = "copy",
         NEW i \in read_ptr[t] .. read_ptr[t] + ReadSize(t) - 1
  PROVE  /\ i \in 0 .. req[t].size - 1
         /\ TempBuf(Piece(t), Start(t) + (i - read_ptr[t]))
              = FileOffset[req[t].file] + req[t].offset + i
<1> DEFINE f == req[t].file
           o == req[t].offset
           w == read_ptr[t]
           c == curr_offset
           p == Piece(t)
           s == Start(t)
           n == ReadSize(t)
<1>1. TypeOK /\ RequestInv /\ LoopInv /\ pc[t] \in Loops /\ pc[t] \in Critical
  BY DEF CoreInv, Loops, Critical, SecondLoop
<1>2. /\ req[t] \in Requests /\ o < get_file_size(f)
      /\ c \in Nat /\ p \in Pieces /\ s \in Nat /\ n \in Nat
      /\ n <= remaining_size /\ remaining_size \in Nat
      /\ s + n <= piece_size(p) /\ piece_size(p) \in Nat
      /\ p * PieceLength + s = FileOffset[f] + c
  BY <1>1, LoopFacts DEF RequestInv
<1>3. /\ w \in Nat /\ c = o + w
      /\ c + remaining_size = o + ReadLength(req[t])
  BY <1>1 DEF TypeOK, LoopInv, WrittenInv, SecondLoop
<1>4. /\ o \in Nat /\ req[t].size \in Nat /\ FileOffset[f] \in Nat
      /\ ReadLength(req[t]) \in Nat /\ ReadLength(req[t]) <= req[t].size
  BY <1>2, RequestFacts
<1>5. p * PieceLength \in Nat
  BY <1>2, NumPieces, LayoutAssumption DEF Pieces
<1>6. piece_buffer_map[p] = piece_size(p)
  BY <1>2 DEF BufferInv
<1>7. TempBuf(p, s + (i - w)) = IF s + (i - w) < piece_size(p)
                                THEN p * PieceLength + (s + (i - w)) ELSE NoByte
  BY <1>6 DEF TempBuf
<1> HIDE DEF f, o, w, c, p, s, n
<1>8. i \in w .. w + n - 1
  BY DEF w, n
<1>9. i \in 0 .. req[t].size - 1
  BY <1>2, <1>3, <1>4, <1>8
<1>10. s + (i - w) < piece_size(p)
  BY <1>2, <1>3, <1>8
<1>11. p * PieceLength + (s + (i - w)) = FileOffset[f] + o + i
  BY <1>2, <1>3, <1>4, <1>5, <1>8
<1>12. QED
  BY <1>7, <1>9, <1>10, <1>11 DEF p, s, w, f, o

LEMMA BytesStep ==
  ASSUME CoreInv, WrittenInv, BufferInv, BytesInv, [Next]_vars
  PROVE  BytesInv'
<1> DEFINE Right(u, i) == buf[u][i] = FileOffset[req[u].file] + req[u].offset + i
<1> SUFFICES ASSUME NEW u \in Readers, pc'[u] # "idle", NEW i \in 0 .. read_ptr'[u] - 1
             PROVE  Right(u, i)'
  BY DEF BytesInv
<1>0. /\ TypeOK /\ RequestInv /\ LoopInv /\ pc \in [Readers -> Labels]
      /\ read_ptr \in [Readers -> Nat] /\ DOMAIN buf = Readers
  BY DEF CoreInv, TypeOK
<1>1. ASSUME pc[u] # "idle", req'[u] = req[u], i \in 0 .. read_ptr[u] - 1,
             buf'[u][i] = buf[u][i]
      PROVE  Right(u, i)'
  BY <1>1 DEF BytesInv
<1>2. CASE Own(u)' = Own(u)
  BY <1>1, <1>2 DEF Own
<1>3. ASSUME NEW r \in Requests, ReadStart(u, r)
      PROVE  FALSE
  <2>1. read_ptr'[u] = 0
    BY <1>0, <1>3 DEF ReadStart
  <2>2. QED
    BY <2>1
<1>4. CASE ReaderStep(u) /\ ~ Copy(u)
  <2>1. pc[u] # "idle" /\ req' = req
    BY <1>4, StepAlone DEF CoreInv, Critical, FirstLoop, SecondLoop
  <2>2. read_ptr' = read_ptr /\ buf' = buf
    BY <1>4 DEF ReaderStep, Lock, SpeedUp, RaisePiece, RaiseNext, FirstCheck, RaiseAgain,
       CheckHave, PopAlerts, HandleAlert, FindBuffer, CheckBuffer, SlowDown, Unlock
  <2>3. QED
    BY <1>1, <2>1, <2>2
<1>5. CASE Copy(u)
  <2>1. pc[u] = "copy" /\ req' = req /\ pc[u] \in Loops
    BY <1>5 DEF Copy, Goto, Loops, SecondLoop
  <2>2. /\ ReadSize(u) \in Nat /\ ReadSize(u) > 0 /\ read_ptr[u] \in Nat
        /\ req[u] \in Requests /\ buf[u] \in [0 .. req[u].size - 1 -> Int]
    BY <1>0, <2>1, LoopFacts DEF TypeOK
  <2>3. read_ptr'[u] = read_ptr[u] + ReadSize(u)
    BY <1>0, <1>5 DEF Copy
  <2>4. buf'[u] = [j \in 0 .. req[u].size - 1 |->
                     IF read_ptr[u] <= j /\ j < read_ptr[u] + ReadSize(u)
                       THEN TempBuf(Piece(u), Start(u) + (j - read_ptr[u]))
                       ELSE buf[u][j]]
    BY <1>0, <1>5, <2>2 DEF Copy
  <2>5. CASE i \in read_ptr[u] .. read_ptr[u] + ReadSize(u) - 1
    <3>1. /\ i \in 0 .. req[u].size - 1
          /\ TempBuf(Piece(u), Start(u) + (i - read_ptr[u]))
               = FileOffset[req[u].file] + req[u].offset + i
      BY <2>1, <2>5, CopiedBytes
    <3>2. buf'[u][i] = TempBuf(Piece(u), Start(u) + (i - read_ptr[u]))
      BY <2>2, <2>4, <2>5, <3>1
    <3>3. QED
      BY <2>1, <3>1, <3>2
  <2>6. CASE ~ (i \in read_ptr[u] .. read_ptr[u] + ReadSize(u) - 1)
    <3>1. i \in Nat /\ i < read_ptr[u]
      BY <2>2, <2>3, <2>6
    <3>2. i \in 0 .. req[u].size - 1
      <4>1. read_ptr[u] \in read_ptr[u] .. read_ptr[u] + ReadSize(u) - 1
        BY <2>2
      <4>2. read_ptr[u] \in 0 .. req[u].size - 1
        BY <2>1, <4>1, CopiedBytes
      <4>3. req[u].size \in Nat
        BY <2>2, LegacyAssumption
      <4>4. QED
        BY <2>2, <3>1, <4>2, <4>3
    <3>3. buf'[u][i] = buf[u][i]
      BY <2>2, <2>4, <3>1, <3>2
    <3>4. QED
      BY <1>1, <2>1, <2>2, <3>1, <3>3
  <2>7. QED
    BY <2>5, <2>6
<1>6. QED
  BY <1>2, <1>3, <1>4, <1>5, Frame

-----------------------------------------------------------------------------
(* What ReadOnlyFile sees of the reads. *)
Op == [t \in Readers |-> IF pc[t] \in {"idle", "done"} THEN pc[t] ELSE "busy"]

Returned == [t \in Readers |->
               IF pc[t] = "done" THEN [i \in 0 .. read_ptr[t] - 1 |-> buf[t][i]]
                                 ELSE [i \in {} |-> 0]]

(* Its actions, said of these two functions and of req. *)
Asked(t, r) ==
  /\ Op[t] # "busy"
  /\ Op' = [Op EXCEPT ![t] = "busy"]
  /\ req' = [req EXCEPT ![t] = r]
  /\ Returned' = [Returned EXCEPT ![t] = POSIX!Nothing]

Answered(t) ==
  /\ Op[t] = "busy"
  /\ Op' = [Op EXCEPT ![t] = "done"]
  /\ Returned' = [Returned EXCEPT ![t] = POSIX!Slice(req[t])]
  /\ UNCHANGED req

AnsweredAtOnce(t, r) ==
  /\ Op[t] # "busy"
  /\ Op' = [Op EXCEPT ![t] = "done"]
  /\ req' = [req EXCEPT ![t] = r]
  /\ Returned' = [Returned EXCEPT ![t] = POSIX!Slice(r)]

LEMMA Mapping ==
  ASSUME NEW t \in Readers
  PROVE  /\ Answered(t) => POSIX!Next
         /\ \A r \in Requests : Asked(t, r) \/ AnsweredAtOnce(t, r) => POSIX!Next
<1>1. Answered(t) => POSIX!Answer(t)
  BY DEF Answered, POSIX!Answer, Op, Returned
<1>2. ASSUME NEW r \in Requests
      PROVE  /\ Asked(t, r) => POSIX!Ask(t, r)
             /\ AnsweredAtOnce(t, r) => POSIX!AnswerAtOnce(t, r)
  BY DEF Asked, AnsweredAtOnce, POSIX!Ask, POSIX!AnswerAtOnce, Op, Returned
<1>3. QED
  BY <1>1, <1>2 DEF POSIX!Next

(* At first nobody has asked. *)
LEMMA RefinementInit == Init => POSIX!Init
BY DEF Init, POSIX!Init, POSIX!Nothing, IdleRequest

-----------------------------------------------------------------------------
(* What a read that is over has returned. *)
RightAnswers ==
  \A t \in Readers : pc[t] = "done" => Returned[t] = POSIX!Slice(req[t])

LEMMA RightAnswersHold ==
  ASSUME FilesFit, WrittenInv, BytesInv
  PROVE  RightAnswers
<1> SUFFICES ASSUME NEW t \in Readers, pc[t] = "done"
             PROVE  Returned[t] = POSIX!Slice(req[t])
  BY DEF RightAnswers
<1> DEFINE r == req[t]
           n == IF r.offset >= FileSize[r.file] THEN 0
                ELSE MinOf(r.size, FileSize[r.file] - r.offset)
<1>1. /\ r \in Requests
      /\ read_ptr[t] = IF r.offset < get_file_size(r.file) THEN ReadLength(r) ELSE 0
      /\ \A i \in 0 .. read_ptr[t] - 1 : buf[t][i] = FileOffset[r.file] + r.offset + i
  BY DEF WrittenInv, BytesInv
<1>2. /\ r.file \in Files /\ r.offset \in Nat /\ r.size \in Nat
      /\ r.size < IntRange \div 2
  BY <1>1, LegacyAssumption
<1>3. FileSize[r.file] \in Nat /\ FileSize[r.file] < IntRange \div 2
  BY <1>2, LayoutAssumption DEF FilesFit
<1>4. get_file_size(r.file) = FileSize[r.file]
  BY <1>3, IntConversion DEF get_file_size
<1>5. ToInt(r.size) = r.size
  BY <1>2, IntConversion
<1>6. r.offset < get_file_size(r.file) => ToInt(r.offset) = r.offset
  BY <1>1, RequestFacts
<1> HIDE DEF r
<1>7. read_ptr[t] = n
  BY <1>1, <1>2, <1>3, <1>4, <1>5, <1>6 DEF ReadLength
<1>8. Returned[t] = [i \in 0 .. n - 1 |-> buf[t][i]]
  BY <1>7 DEF Returned
<1>9. POSIX!Slice(r) = [i \in 0 .. n - 1 |-> FileOffset[r.file] + r.offset + i]
  BY DEF POSIX!Slice, POSIX!MinOf, MinOf
<1> HIDE DEF n
<1>10. QED
  BY <1>1, <1>7, <1>8, <1>9 DEF r

(* Two functions on the threads that differ at one of them. *)
LEMMA OneChanges ==
  ASSUME NEW f, NEW g, NEW x, NEW t \in Readers,
         f = [u \in Readers |-> f[u]], g = [u \in Readers |-> g[u]],
         g[t] = x, \A u \in Readers \ {t} : g[u] = f[u]
  PROVE  g = [f EXCEPT ![t] = x]
OBVIOUS

-----------------------------------------------------------------------------
LEMMA StartStep ==
  ASSUME CoreInv, RightAnswers', NEW t \in Readers, NEW r \in Requests, ReadStart(t, r),
         \A u \in Readers \ {t} : Op'[u] = Op[u] /\ Returned'[u] = Returned[u],
         Op = [u \in Readers |-> Op[u]], Op' = [u \in Readers |-> Op'[u]],
         Returned = [u \in Readers |-> Returned[u]],
         Returned' = [u \in Readers |-> Returned'[u]]
  PROVE  POSIX!Next
<1>1. /\ pc[t] \in {"idle", "done"} /\ pc'[t] \in {"lock", "done"}
      /\ req' = [req EXCEPT ![t] = r] /\ req'[t] = r
  BY DEF ReadStart, Goto, CoreInv, TypeOK
<1>2. Op[t] # "busy"
  BY <1>1 DEF Op
<1>3. CASE pc'[t] = "done"
  <2>1. Op'[t] = "done"
    BY <1>3 DEF Op
  <2>2. Returned'[t] = POSIX!Slice(r)
    BY <1>1, <1>3 DEF RightAnswers
  <2>3. AnsweredAtOnce(t, r)
    BY <1>1, <1>2, <2>1, <2>2, OneChanges DEF AnsweredAtOnce
  <2>4. QED
    BY <2>3, Mapping
<1>4. CASE pc'[t] = "lock"
  <2>1. Op'[t] = "busy"
    BY <1>4 DEF Op
  <2>2. Returned'[t] = POSIX!Nothing
    BY <1>4 DEF Returned, POSIX!Nothing
  <2>3. Asked(t, r)
    BY <1>1, <1>2, <2>1, <2>2, OneChanges DEF Asked
  <2>4. QED
    BY <2>3, Mapping
<1>5. QED
  BY <1>1, <1>3, <1>4

(* A thread that goes on returns or is in the read as before. *)
LEMMA GoOnStep ==
  ASSUME CoreInv, RightAnswers', NEW t \in Readers, ReaderStep(t),
         \A u \in Readers \ {t} : Op'[u] = Op[u] /\ Returned'[u] = Returned[u],
         Op = [u \in Readers |-> Op[u]], Op' = [u \in Readers |-> Op'[u]],
         Returned = [u \in Readers |-> Returned[u]],
         Returned' = [u \in Readers |-> Returned'[u]]
  PROVE  POSIX!Next \/ UNCHANGED <<Op, req, Returned>>
<1>1. req' = req /\ pc[t] \notin {"idle", "done"}
  BY StepAlone DEF CoreInv, Critical, FirstLoop, SecondLoop
<1>2. Op[t] = "busy"
  BY <1>1 DEF Op
<1>3. CASE pc'[t] = "done"
  <2>1. Op'[t] = "done"
    BY <1>3 DEF Op
  <2>2. Returned'[t] = POSIX!Slice(req[t])
    BY <1>1, <1>3 DEF RightAnswers
  <2>3. Answered(t)
    BY <1>1, <1>2, <2>1, <2>2, OneChanges DEF Answered
  <2>4. QED
    BY <2>3, Mapping
<1>4. CASE pc'[t] # "done"
  <2>1. pc'[t] # "idle"
    BY <1>1 DEF ReaderStep, Lock, SpeedUp, RaisePiece, RaiseNext, FirstCheck, RaiseAgain,
       CheckHave, PopAlerts, HandleAlert, FindBuffer, CheckBuffer, Copy, SlowDown, Unlock, Goto,
       CoreInv, TypeOK
  <2>2. Op'[t] = Op[t] /\ Returned'[t] = Returned[t]
    BY <1>1, <1>4, <2>1 DEF Op, Returned
  <2>3. Op' = Op /\ Returned' = Returned
    BY <2>2
  <2>4. QED
    BY <1>1, <2>3
<1>5. QED
  BY <1>3, <1>4

LEMMA RefinementStep ==
  CoreInv /\ RightAnswers' /\ [Next]_vars => [POSIX!Next]_(POSIX!vars)
<1> SUFFICES ASSUME CoreInv, RightAnswers', [Next]_vars
             PROVE  POSIX!Next \/ UNCHANGED <<Op, req, Returned>>
  BY DEF POSIX!vars, Op, Returned
<1>0. /\ pc \in [Readers -> Labels] /\ req \in [Readers -> Requests \cup {IdleRequest}]
      /\ read_ptr \in [Readers -> Nat] /\ DOMAIN buf = Readers
  BY DEF CoreInv, TypeOK
(* The other threads do not move. *)
<1>1. ASSUME NEW u \in Readers, Own(u)' = Own(u)
      PROVE  Op'[u] = Op[u] /\ Returned'[u] = Returned[u]
  <2>1. pc'[u] = pc[u] /\ read_ptr'[u] = read_ptr[u] /\ buf'[u] = buf[u]
    BY <1>1 DEF Own
  <2>2. QED
    BY <2>1 DEF Op, Returned
<1>2. /\ Op = [u \in Readers |-> Op[u]] /\ Op' = [u \in Readers |-> Op'[u]]
      /\ Returned = [u \in Readers |-> Returned[u]]
      /\ Returned' = [u \in Readers |-> Returned'[u]]
  BY DEF Op, Returned
<1>3. CASE InitStep \/ UNCHANGED vars \/ Terminated \/ \E p \in Pieces : Download(p) \/ ReadPieceDone(p)
  <2>1. UNCHANGED <<pc, req, read_ptr, buf>>
    BY <1>3 DEF InitStep, AddTorrent, ThrottleMount, ResumeMount, Download, ReadPieceDone,
       Terminated, vars
  <2>2. QED
    BY <2>1 DEF Op, Returned
<1>4. ASSUME NEW t \in Readers, NEW r \in Requests, ReadStart(t, r)
      PROVE  POSIX!Next
  <2>1. ASSUME NEW u \in Readers \ {t}
        PROVE  Own(u)' = Own(u)
    BY <1>0, <1>4 DEF ReadStart, Goto, Own
  <2>2. QED
    BY <1>1, <1>2, <1>4, <2>1, StartStep
<1>5. ASSUME NEW t \in Readers, ReaderStep(t)
      PROVE  POSIX!Next \/ UNCHANGED <<Op, req, Returned>>
  <2>1. ASSUME NEW u \in Readers \ {t}
        PROVE  Own(u)' = Own(u)
    BY <1>5, OthersStay
  <2>2. QED
    BY <1>1, <1>2, <1>5, <2>1, GoOnStep
<1>6. QED
  BY <1>3, <1>4, <1>5 DEF Next

(***************************************************************************)
(* What one mutex around bitfs_read buys: a read of the older file system  *)
(* returns once, with exactly the bytes of the file that were asked for.   *)
(***************************************************************************)
THEOREM LegacyAnswersRefine == ~ DiskErrors /\ FilesFit => (Spec => AnswersAsPosix)
<1> SUFFICES ASSUME ~ DiskErrors, FilesFit
             PROVE  Spec => AnswersAsPosix
  OBVIOUS
<1>1. CoreInv /\ WrittenInv /\ [Next]_vars => WrittenInv'
  BY WrittenStep
<1>2. CoreInv /\ BufferInv /\ [Next]_vars => BufferInv'
  BY BufferStep
<1>3. CoreInv /\ WrittenInv /\ BufferInv /\ BytesInv /\ [Next]_vars => BytesInv'
  BY BytesStep
<1>4. WrittenInv /\ BytesInv => RightAnswers
  BY RightAnswersHold
<1>5. Spec => [](CoreInv /\ RightAnswers)
  BY <1>1, <1>2, <1>3, <1>4, LegacyCoreInvariant, WrittenInit, BufferInit, BytesInit, PTL
     DEF Spec
<1>6. QED
  BY <1>5, RefinementInit, RefinementStep, PTL DEF Spec, AnswersAsPosix, POSIX!Safety
=============================================================================
