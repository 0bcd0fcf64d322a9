----------------------------- MODULE LegacyRead -----------------------------
(***************************************************************************)
(* bitfs_read of bitFS.cpp, the older file system in one file, and how its *)
(* init_bitfs starts the download.                                         *)
(*                                                                         *)
(* It differs from FS::read in what keeps reads apart and in what keeps    *)
(* libtorrent still.  A read holds fsmtx over both of its loops, so that   *)
(* only the locals of its holder matter, and no piece is ever set to       *)
(* priority 0: while nobody reads, the download limit is one byte per      *)
(* second instead.  The counters in stats are left out, as what starts and *)
(* shows them is commented out.                                            *)
(***************************************************************************)
EXTENDS TorrentLayout

CONSTANTS
  Readers,    \* FUSE worker threads
  NoReader,   \* fsmtx is free
  Requests,   \* the reads the kernel may ask for
  MaxReads,   \* bound: reads each thread serves
  DiskErrors  \* may libtorrent fail to read a piece from disk?

(* The kernel never asks for more than fits an int at once. *)
ASSUME LegacyAssumption ==
  /\ NoReader \notin Readers
  /\ Requests \subseteq [file : Files, offset : Nat, size : Nat]
  /\ \A r \in Requests : r.size < IntRange \div 2
  /\ MaxReads \in Nat
  /\ DiskErrors \in BOOLEAN

VARIABLES
  \* the libtorrent session
  have, priority, inflight, alerts,
  paused, limit,            \* of the torrent
  \* the file system
  mount,                    \* where init_bitfs is
  fsmtx,
  piece_buffer_map,         \* bytes in the buffer of each piece, or NoBuffer
  allocated,                \* buffers malloc'ed for each piece
  popped,                   \* alerts taken by pop_alerts and not yet looked at
  \* reads
  pc, req, buf, read_ptr, reads,
  curr_offset, remaining_size  \* of the read that has the mutex

torrent == <<paused, limit>>
session == <<have, priority, inflight, alerts, torrent>>
buffers == <<piece_buffer_map, allocated, popped>>
shared  == <<mount, fsmtx, buffers>>
range   == <<curr_offset, remaining_size>>
result  == <<buf, read_ptr>>
frame   == <<req, result, reads, range>>
vars    == <<session, shared, pc, frame>>

Normal    == 4         \* priority of the pieces of a new torrent
Highest   == 7
Unlimited == 0         \* limit of a new torrent
Full      == 1024 * 1024
Throttle  == 1

(* The torrent is added with flag_paused. *)
Init ==
  /\ have = {}
  /\ priority = [p \in Pieces |-> Normal]
  /\ inflight = [p \in Pieces |-> 0]
  /\ alerts = << >>
  /\ paused = TRUE
  /\ limit = Unlimited
  /\ mount = "adding"
  /\ fsmtx = NoReader
  /\ piece_buffer_map = [p \in Pieces |-> NoBuffer]
  /\ allocated = [p \in Pieces |-> 0]
  /\ popped = << >>
  /\ pc = [t \in Readers |-> "idle"]
  /\ req = [t \in Readers |-> IdleRequest]
  /\ buf = [t \in Readers |-> [i \in {} |-> NoByte]]
  /\ read_ptr = [t \in Readers |-> 0]
  /\ reads = [t \in Readers |-> 0]
  /\ curr_offset = 0
  /\ remaining_size = 0

-----------------------------------------------------------------------------
(* libtorrent. *)

piece_priority(p, v) == priority' = [priority EXCEPT ![p] = v]
read_piece(p) == inflight' = [inflight EXCEPT ![p] = @ + 1]

Download(p) ==
  /\ ~paused
  /\ p \notin have
  /\ priority[p] > 0
  /\ have' = have \cup {p}
  /\ alerts' = Append(alerts, [type |-> "piece_finished", piece |-> p, size |-> 0])
  /\ UNCHANGED <<priority, inflight, torrent, shared, pc, frame>>

ReadPieceDone(p) ==
  /\ inflight[p] > 0
  /\ inflight' = [inflight EXCEPT ![p] = @ - 1]
  /\ \E size \in {IF p \in have THEN piece_size(p) ELSE 0} \cup (IF DiskErrors THEN {0} ELSE {}) :
       alerts' = Append(alerts, [type |-> "read_piece", piece |-> p, size |-> size])
  /\ UNCHANGED <<have, priority, torrent, shared, pc, frame>>

-----------------------------------------------------------------------------
(* init_bitfs.  When the torrent cannot be read or added, no file is there *)
(* to be opened; otherwise it is slowed down and then resumed.             *)

AddTorrent ==
  /\ mount = "adding"
  /\ mount' \in {"throttle", "failed"}
  /\ UNCHANGED <<session, fsmtx, buffers, pc, frame>>

ThrottleMount ==
  /\ mount = "throttle"
  /\ mount' = "resume"
  /\ limit' = Throttle
  /\ UNCHANGED <<have, priority, inflight, alerts, paused, fsmtx, buffers, pc, frame>>

ResumeMount ==
  /\ mount = "resume"
  /\ mount' = "ready"
  /\ paused' = FALSE
  /\ UNCHANGED <<have, priority, inflight, alerts, limit, fsmtx, buffers, pc, frame>>

-----------------------------------------------------------------------------
(* bitfs_read *)

Goto(t, from, to) == pc[t] = from /\ pc' = [pc EXCEPT ![t] = to]

Piece(t) == map_file(req[t].file, curr_offset).piece
StartOfPiece(t) == 0  \* mutant: no pr.start
Start(t) == map_file(req[t].file, curr_offset).start

ReadSizeToPieceEnd(t) == piece_size(Piece(t)) - Start(t)  \* mutant: no min
ReadSize(t) == MinOf(piece_size(Piece(t)) - Start(t), remaining_size)

ReadLength(r) == MinOf(ToInt(r.size), get_file_size(r.file) - ToInt(r.offset))

Advance(t) ==
  /\ curr_offset' = curr_offset + ReadSize(t)
  /\ remaining_size' = remaining_size - ReadSize(t)

Rewind(t) ==
  /\ curr_offset' = ToInt(req[t].offset)
  /\ remaining_size' = ReadLength(req[t])

MoreNever(t) == FALSE  \* mutant: one piece per loop
More(t) == remaining_size > ReadSize(t)

ReadStart(t, r) ==
  /\ mount = "ready"
  /\ reads[t] < MaxReads
  /\ \E from \in {"idle", "done"} :
       Goto(t, from, IF r.offset >= get_file_size(r.file) THEN "done" ELSE "lock")
  /\ reads' = [reads EXCEPT ![t] = @ + 1]
  /\ req' = [req EXCEPT ![t] = r]
  /\ read_ptr' = [read_ptr EXCEPT ![t] = 0]
  /\ buf' = [buf EXCEPT ![t] = [i \in 0 .. r.size - 1 |-> NoByte]]
  /\ UNCHANGED <<session, shared, range>>

Lock(t) ==
  /\ fsmtx = NoReader
  /\ fsmtx' = t
  /\ Goto(t, "lock", "speedUp")
  /\ UNCHANGED <<session, mount, buffers, frame>>

SpeedUpForgotten(t) ==  \* mutant: no set_download_limit
  /\ Goto(t, "speedUp", IF ReadLength(req[t]) > 0 THEN "raise" ELSE "slowDown")
  /\ Rewind(t)
  /\ UNCHANGED <<session, shared, req, result, reads>>

SpeedUp(t) ==
  /\ Goto(t, "speedUp", IF ReadLength(req[t]) > 0 THEN "raise" ELSE "slowDown")
  /\ limit' = Full
  /\ Rewind(t)
  /\ UNCHANGED <<have, priority, inflight, alerts, paused, shared, req, result, reads>>

(* First loop: the pieces of the range, and the one after each. *)
RaisePiece(t) ==
  /\ Goto(t, "raise", "raiseNext")
  /\ piece_priority(Piece(t), Highest)
  /\ UNCHANGED <<have, inflight, alerts, torrent, shared, frame>>

RaiseNext(t) ==
  /\ Goto(t, "raiseNext", IF More(t) THEN "raise" ELSE "wait")
  /\ IF Piece(t) < num_pieces - 1 THEN piece_priority(Piece(t) + 1, Highest)
                                  ELSE UNCHANGED priority
  /\ IF More(t) THEN Advance(t) ELSE Rewind(t)
  /\ UNCHANGED <<have, inflight, alerts, torrent, shared, req, result, reads>>

(* wait_for_piece_download: a piece that is missing is raised again. *)
FirstCheck(t) ==
  /\ Goto(t, "wait", IF Piece(t) \in have THEN "find" ELSE "raiseAgain")
  /\ UNCHANGED <<session, shared, frame>>

RaiseAgain(t) ==
  /\ Goto(t, "raiseAgain", "check")
  /\ piece_priority(Piece(t), Highest)
  /\ UNCHANGED <<have, inflight, alerts, torrent, shared, frame>>

CheckHave(t) ==
  /\ popped = << >>
  /\ Goto(t, "check", IF Piece(t) \in have THEN "find" ELSE "checkPop")
  /\ UNCHANGED <<session, shared, frame>>

(* get_piece_buffers *)
PopAlerts(t) ==
  /\ Goto(t, "checkPop", "check") \/ Goto(t, "fetchPop", "fetch")
  /\ popped' = alerts
  /\ alerts' = << >>
  /\ UNCHANGED <<have, priority, inflight, torrent, mount, fsmtx, piece_buffer_map,
                  allocated, frame>>

HandleAlert(t) ==
  /\ pc[t] \in {"check", "fetch"}
  /\ popped # << >>
  /\ LET a == Head(popped) IN
       IF a.type = "read_piece"
         THEN /\ piece_buffer_map' = [piece_buffer_map EXCEPT ![a.piece] = a.size]
              /\ allocated' = [allocated EXCEPT ![a.piece] = @ + 1]
         ELSE UNCHANGED <<piece_buffer_map, allocated>>
  /\ popped' = Tail(popped)
  /\ UNCHANGED <<session, mount, fsmtx, pc, frame>>

FindBufferAlways(t) ==  \* mutant: read_piece without looking in the map
  /\ Goto(t, "find", "fetchPop")
  /\ read_piece(Piece(t))
  /\ UNCHANGED <<have, priority, alerts, torrent, shared, frame>>

FindBuffer(t) ==
  /\ IF piece_buffer_map[Piece(t)] # NoBuffer
       THEN Goto(t, "find", "copy") /\ UNCHANGED inflight
       ELSE Goto(t, "find", "fetchPop") /\ read_piece(Piece(t))
  /\ UNCHANGED <<have, priority, alerts, torrent, shared, frame>>

CheckBufferEarly(t) ==  \* mutant: after the first alert
  /\ Goto(t, "fetch", IF piece_buffer_map[Piece(t)] # NoBuffer THEN "copy" ELSE "fetchPop")
  /\ UNCHANGED <<session, shared, frame>>

CheckBuffer(t) ==
  /\ popped = << >>
  /\ Goto(t, "fetch", IF piece_buffer_map[Piece(t)] # NoBuffer THEN "copy" ELSE "fetchPop")
  /\ UNCHANGED <<session, shared, frame>>

TempBuf(p, i) == IF i < piece_buffer_map[p] THEN p * PieceLength + i ELSE NoByte

Copy(t) ==
  /\ Goto(t, "copy", IF More(t) THEN "wait" ELSE "slowDown")
  /\ buf' = [buf EXCEPT ![t] =
               [i \in DOMAIN @ |->
                  IF read_ptr[t] <= i /\ i < read_ptr[t] + ReadSize(t)
                    THEN TempBuf(Piece(t), Start(t) + (i - read_ptr[t]))
                    ELSE @[i]]]
  /\ read_ptr' = [read_ptr EXCEPT ![t] = @ + ReadSize(t)]
  /\ Advance(t)
  /\ UNCHANGED <<session, shared, req, reads>>

SlowDownForgotten(t) ==  \* mutant: no set_download_limit(1)
  /\ Goto(t, "slowDown", "unlock")
  /\ UNCHANGED <<session, shared, frame>>

SlowDown(t) ==
  /\ Goto(t, "slowDown", "unlock")
  /\ limit' = Throttle
  /\ UNCHANGED <<have, priority, inflight, alerts, paused, shared, frame>>

Unlock(t) ==
  /\ Goto(t, "unlock", "done")
  /\ fsmtx' = NoReader
  /\ UNCHANGED <<session, mount, buffers, frame>>

-----------------------------------------------------------------------------
InitStep == AddTorrent \/ ThrottleMount \/ ResumeMount

ReaderStep(t) ==
  \/ Lock(t) \/ SpeedUp(t) \/ RaisePiece(t) \/ RaiseNext(t)
  \/ FirstCheck(t) \/ RaiseAgain(t) \/ CheckHave(t)
  \/ PopAlerts(t) \/ HandleAlert(t) \/ FindBuffer(t) \/ CheckBuffer(t)
  \/ Copy(t) \/ SlowDown(t) \/ Unlock(t)

(* Nothing more is asked; not a deadlock. *)
Terminated ==
  /\ \/ mount = "failed"
     \/ \A t \in Readers : pc[t] \in {"idle", "done"} /\ reads[t] = MaxReads
  /\ UNCHANGED vars

Next ==
  \/ InitStep
  \/ \E p \in Pieces : Download(p) \/ ReadPieceDone(p)
  \/ \E t \in Readers : ReaderStep(t) \/ \E r \in Requests : ReadStart(t, r)
  \/ Terminated

Spec == Init /\ [][Next]_vars

(***************************************************************************)
(* As for FsRead, except that libtorrent need not get anything while it is *)
(* held to a byte per second.                                              *)
(***************************************************************************)
Fairness ==
  /\ WF_vars(InitStep)
  /\ \A t \in Readers : WF_vars(ReaderStep(t))
  /\ \A p \in Pieces : WF_vars(limit = Full /\ Download(p)) /\ WF_vars(ReadPieceDone(p))

FairSpec == Spec /\ Fairness

-----------------------------------------------------------------------------
FirstLoop  == {"raise", "raiseNext"}
SecondLoop == {"wait", "raiseAgain", "check", "checkPop", "find", "fetch", "fetchPop", "copy"}
Critical   == FirstLoop \cup SecondLoop \cup {"speedUp", "slowDown", "unlock"}
Labels     == {"idle", "lock", "done"} \cup Critical

(* What the session, the maps and the reads keep is well formed. *)
TypeOK ==
  /\ have \subseteq Pieces
  /\ priority \in [Pieces -> {Normal, Highest}]
  /\ inflight \in [Pieces -> Nat]
  /\ alerts \in Seq(Alert) /\ popped \in Seq(Alert)
  /\ paused \in BOOLEAN
  /\ limit \in {Unlimited, Full, Throttle}
  /\ mount \in {"adding", "throttle", "resume", "ready", "failed"}
  /\ fsmtx \in Readers \cup {NoReader}
  /\ piece_buffer_map \in [Pieces -> Nat \cup {NoBuffer}]
  /\ allocated \in [Pieces -> Nat]
  /\ pc \in [Readers -> Labels]
  /\ req \in [Readers -> Requests \cup {IdleRequest}]
  /\ DOMAIN buf = Readers
  /\ \A t \in Readers : buf[t] \in [0 .. req[t].size - 1 -> Int]
  /\ read_ptr \in [Readers -> Nat]
  /\ reads \in [Readers -> Nat]
  /\ curr_offset \in Nat /\ remaining_size \in Nat

(***************************************************************************)
(* The download limit follows the reads: it is down whenever nobody reads, *)
(* from the moment the torrent runs, and up as long as a read raises,      *)
(* waits for or copies its pieces, which another read's end cannot change. *)
(***************************************************************************)
LimitFollowsReads ==
  /\ ~paused /\ fsmtx = NoReader => limit = Throttle
  /\ \A t \in Readers : pc[t] \in FirstLoop \cup SecondLoop => fsmtx = t /\ limit = Full

(***************************************************************************)
(* While a read waits, every piece it still needs has the highest priority *)
(* or is there: unlike FS::read, whose pieces lower each other.            *)
(***************************************************************************)
Raised(p) == p \in have \/ priority[p] = Highest

RangeRaised ==
  \A t \in Readers : pc[t] \in SecondLoop =>
    \A o \in curr_offset .. curr_offset + remaining_size - 1 :
       Raised(map_file(req[t].file, o).piece)

(***************************************************************************)
(* A piece is read from disk once, whoever asks for it and however often:  *)
(* no buffer is ever replaced, so that none leaks and none changes under a *)
(* later read.                                                             *)
(***************************************************************************)
Underway(p)  == inflight[p] + Answers(alerts, p) + Answers(popped, p)
DiskReads(p) == Underway(p) + allocated[p]

OneBuffer == \A p \in Pieces : DiskReads(p) <= 1

(***************************************************************************)
(* A read that polls for a buffer will get it: the one answer there is for *)
(* its piece is still to come, waits in libtorrent's queue or was popped,  *)
(* unless the buffer is there (bitFS.cpp:340-343).                         *)
(***************************************************************************)
AnswerOnItsWay ==
  \A t \in Readers : pc[t] \in {"fetch", "fetchPop"} =>
    piece_buffer_map[Piece(t)] # NoBuffer \/ Underway(Piece(t)) > 0

-----------------------------------------------------------------------------
(***************************************************************************)
(* Every read returns, with the download held back between reads.          *)
(***************************************************************************)
ReadReturns == \A t \in Readers : pc[t] \notin {"idle", "done"} ~> pc[t] = "done"

(* What ReadOnlyFile sees of the reads. *)
POSIX == INSTANCE ReadOnlyFile WITH
  op     <- [t \in Readers |-> IF pc[t] \in {"idle", "done"} THEN pc[t] ELSE "busy"],
  asked  <- req,
  result <- [t \in Readers |->
               IF pc[t] = "done" THEN [i \in 0 .. read_ptr[t] - 1 |-> buf[t][i]]
                                 ELSE [i \in {} |-> 0]]

(* An int holds what get_file_size returns. *)
FilesFit == \A f \in Files : FileSize[f] < IntRange \div 2

(***************************************************************************)
(* bitfs_read implements the read of ReadOnlyFile: a request is answered   *)
(* at most once, and with the bytes it asked for.  That it is answered at  *)
(* all is ReadReturns.  A failed disk read would break it, as would a file *)
(* that does not fit.                                                      *)
(***************************************************************************)
AnswersAsPosix == POSIX!Safety

-----------------------------------------------------------------------------
(***************************************************************************)
(* The control part of the inductive invariant: nothing runs, and nobody   *)
(* reads, before init_bitfs has slowed the download down; exactly the      *)
(* holder of fsmtx is in the critical part; the limit is set and reset     *)
(* inside of it.                                                           *)
(***************************************************************************)
MountInv ==
  /\ mount # "ready" => paused /\ \A t \in Readers : pc[t] = "idle"
  /\ mount = "resume" => limit = Throttle

LockInv == \A t \in Readers : pc[t] \in Critical <=> fsmtx = t

LimitInv ==
  /\ mount = "ready" /\ fsmtx = NoReader => limit = Throttle
  /\ \A t \in Readers :
       /\ pc[t] \in FirstLoop \cup SecondLoop \cup {"slowDown"} => limit = Full
       /\ pc[t] = "unlock" => limit = Throttle

ControlInv == pc \in [Readers -> Labels] /\ MountInv /\ LockInv /\ LimitInv

(***************************************************************************)
(* The rest of it: as in FsRead, except that only the holder of fsmtx has  *)
(* a range, that priorities never go down, and that a piece is read from   *)
(* disk only under the mutex.                                              *)
(***************************************************************************)
Loops == FirstLoop \cup SecondLoop

RequestInv ==
  \A t \in Readers : pc[t] \in {"lock"} \cup Critical =>
    req[t] \in Requests /\ req[t].offset < get_file_size(req[t].file)

LoopInv ==
  \A t \in Readers : pc[t] \in Loops =>
    /\ remaining_size > 0
    /\ curr_offset >= req[t].offset
    /\ curr_offset + remaining_size = req[t].offset + ReadLength(req[t])

RaisedTo(t, e) == \A o \in req[t].offset .. e - 1 : Raised(map_file(req[t].file, o).piece)

RaisedInv ==
  \A t \in Readers :
    /\ pc[t] \in FirstLoop => RaisedTo(t, curr_offset)
    /\ pc[t] = "raiseNext" => Raised(Piece(t))
    /\ pc[t] \in SecondLoop => RaisedTo(t, req[t].offset + ReadLength(req[t]))

Fetching(p) == \E t \in Readers : pc[t] \in {"fetch", "fetchPop"} /\ Piece(t) = p

Fetched(p) == IF piece_buffer_map[p] # NoBuffer \/ Fetching(p) THEN 1 ELSE 0

CountInv == \A p \in Pieces : DiskReads(p) <= Fetched(p)

(* get_piece_buffers returns with nothing popped left. *)
PoppedInv == popped # << >> => \E t \in Readers : pc[t] \in {"check", "fetch"}

(* What is written is what the second loop has passed, in the end all of it. *)
WrittenInv ==
  \A t \in Readers :
    /\ pc[t] \in {"lock", "speedUp"} \cup FirstLoop => read_ptr[t] = 0
    /\ pc[t] \in SecondLoop => curr_offset = req[t].offset + read_ptr[t]
    /\ pc[t] \in {"slowDown", "unlock"} => read_ptr[t] = ReadLength(req[t])
    /\ pc[t] = "done" =>
         /\ req[t] \in Requests
         /\ read_ptr[t] = IF req[t].offset < get_file_size(req[t].file)
                          THEN ReadLength(req[t]) ELSE 0

(* Without disk errors, whole pieces all along the way to the map ... *)
WholeAlert(a) == a.type = "read_piece" => a.size = piece_size(a.piece)

BufferInv ==
  /\ \A p \in Pieces :
       /\ inflight[p] > 0 => p \in have
       /\ piece_buffer_map[p] \in {NoBuffer, piece_size(p)}
  /\ \A i \in 1 .. Len(alerts) : WholeAlert(alerts[i])
  /\ \A i \in 1 .. Len(popped) : WholeAlert(popped[i])
  /\ \A t \in Readers :
       /\ pc[t] \in {"find", "fetch", "fetchPop", "copy"} => Piece(t) \in have
       /\ pc[t] = "copy" => piece_buffer_map[Piece(t)] # NoBuffer

(* ... and the right byte wherever one was written. *)
BytesInv ==
  \A t \in Readers : pc[t] # "idle" =>
    \A i \in 0 .. read_ptr[t] - 1 : buf[t][i] = FileOffset[req[t].file] + req[t].offset + i

IInv ==
  /\ TypeOK /\ ControlInv
  /\ RequestInv /\ LoopInv /\ RaisedInv /\ WrittenInv
  /\ CountInv /\ PoppedInv
  /\ ~DiskErrors => BufferInv /\ BytesInv
=============================================================================
