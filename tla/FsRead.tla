------------------------------- MODULE FsRead -------------------------------
(***************************************************************************)
(* FS::read (FS.cpp) run by several FUSE worker threads at once, over the  *)
(* libtorrent session they share.                                          *)
(*                                                                         *)
(* A read maps its byte range to pieces, raises the priority of those that *)
(* are not there yet (without the mutex), takes fsmtx, and then, piece by  *)
(* piece, waits for the download, asks libtorrent to read the piece from   *)
(* disk, waits for the answer in the alert queue and copies the bytes out. *)
(* Whatever alerts it pops on the way go into piece_buffer_map, which all  *)
(* reads share and which is never emptied.                                 *)
(*                                                                         *)
(* One action per call that another thread or libtorrent can observe.  The *)
(* locals of a read are functions on Readers; fsmeta and the file index of *)
(* the path are those of the mount.                                        *)
(***************************************************************************)
EXTENDS TorrentLayout

CONSTANTS
  Readers,        \* FUSE worker threads
  NoReader,       \* fsmtx is free
  Requests,       \* the reads the kernel may ask for
  MaxReads,       \* bound: reads each thread serves
  FirstSilenced,  \* init_bitfs silences the pieces from this one on: 10
  DiskErrors      \* may libtorrent fail to read a piece from disk?

ASSUME ReadAssumption ==
  /\ IsFiniteSet(Readers) /\ NoReader \notin Readers
  /\ Requests \subseteq [file : Files, offset : Nat, size : Nat]
  /\ MaxReads \in Nat
  /\ FirstSilenced \in Nat
  /\ DiskErrors \in BOOLEAN

VARIABLES
  \* the libtorrent session
  have,              \* pieces downloaded and checked: have_piece
  priority,          \* piece_priority of each piece
  inflight,          \* read_piece calls not answered yet, per piece
  alerts,            \* alert queue
  \* the file system, shared by its threads
  silenced,          \* loop counter of init_bitfs
  fsmtx,             \* holder of the mutex
  piece_buffer_map,  \* bytes in the buffer of each piece, or NoBuffer
  allocated,         \* buffers malloc'ed for each piece; none is ever freed
  popped,            \* alerts taken by pop_alerts and not yet looked at
  \* locals of the read each thread runs
  pc, req, curr_offset, remaining_size, read_ptr, required_pieces, buf,
  reads,             \* reads the thread has begun
  \* history
  failed             \* pieces some disk read of which failed

session == <<have, priority, inflight, alerts>>
buffers == <<piece_buffer_map, allocated, popped>>
shared  == <<fsmtx, buffers>>
range   == <<curr_offset, remaining_size>>
result  == <<read_ptr, buf>>
frame   == <<req, range, required_pieces, result, reads>>
locals  == <<pc, frame>>
vars    == <<session, shared, silenced, locals, failed>>

LowestIsZero == 0 \* mutant: "not wanted"
Lowest   == 1   \* piece_priority(p, 1)
Normal   == 4   \* what libtorrent gives a piece of a new torrent
Highest  == 7

Priorities == 0 .. 7

(* Every mount has a new cache directory, so that nothing is there yet. *)
Init ==
  /\ have = {}
  /\ priority = [p \in Pieces |-> Normal]
  /\ inflight = [p \in Pieces |-> 0]
  /\ alerts = << >>
  /\ silenced = FirstSilenced
  /\ fsmtx = NoReader
  /\ piece_buffer_map = [p \in Pieces |-> NoBuffer]
  /\ allocated = [p \in Pieces |-> 0]
  /\ popped = << >>
  /\ pc = [t \in Readers |-> "idle"]
  /\ req = [t \in Readers |-> IdleRequest]
  /\ curr_offset = [t \in Readers |-> 0]
  /\ remaining_size = [t \in Readers |-> 0]
  /\ read_ptr = [t \in Readers |-> 0]
  /\ required_pieces = [t \in Readers |-> {}]
  /\ buf = [t \in Readers |-> [i \in {} |-> NoByte]]
  /\ reads = [t \in Readers |-> 0]
  /\ failed = {}

-----------------------------------------------------------------------------
(* libtorrent: the calls the file system makes ... *)

piece_priority(p, v) == priority' = [priority EXCEPT ![p] = v]

read_piece(p) == inflight' = [inflight EXCEPT ![p] = @ + 1]

(* ... and what its own thread does.  A piece is fetched when it is wanted. *)
Download(p) ==
  /\ p \notin have
  /\ priority[p] > 0
  /\ have' = have \cup {p}
  /\ alerts' = Append(alerts, [type |-> "piece_finished", piece |-> p, size |-> 0])
  /\ UNCHANGED <<priority, inflight, silenced, shared, locals, failed>>

(* A disk read ends, well or (with DiskErrors) with an alert without data.  *)
ReadPieceDone(p) ==
  /\ inflight[p] > 0
  /\ inflight' = [inflight EXCEPT ![p] = @ - 1]
  /\ \/ /\ alerts' = Append(alerts, [type |-> "read_piece", piece |-> p,
                                     size |-> IF p \in have THEN piece_size(p) ELSE 0])
        /\ UNCHANGED failed
     \/ /\ DiskErrors
        /\ alerts' = Append(alerts, [type |-> "read_piece", piece |-> p, size |-> 0])
        /\ failed' = failed \cup {p}
  /\ UNCHANGED <<have, priority, silenced, shared, locals>>

-----------------------------------------------------------------------------
(* FS::init_bitfs, from the torrent being added to the mount being ready. *)

Mounted == silenced >= num_pieces

SilencePiece ==
  /\ ~Mounted
  /\ piece_priority(silenced, 0)
  /\ silenced' = silenced + 1
  /\ UNCHANGED <<have, inflight, alerts, shared, locals, failed>>

-----------------------------------------------------------------------------
(* FS::read *)

Goto(t, from, to) == pc[t] = from /\ pc' = [pc EXCEPT ![t] = to]

(* The piece of the byte at curr_offset; how much of it this read takes. *)
PieceFromOne(t) ==  \* mutant: pieces counted from 1
  map_file(req[t].file, curr_offset[t]).piece + 1
Piece(t) == map_file(req[t].file, curr_offset[t]).piece
Start(t) == map_file(req[t].file, curr_offset[t]).start
ReadSizeFromPieceStart(t) ==  \* mutant: no pr.start
  MinOf(piece_size(Piece(t)), remaining_size[t])
ReadSize(t) == MinOf(piece_size(Piece(t)) - Start(t), remaining_size[t])

(* What remaining_size starts from, before either loop. *)
ReadLengthUnclamped(r) == ToInt(r.size)  \* mutant: no end of file
ReadLength(r) == MinOf(ToInt(r.size), get_file_size(r.file) - ToInt(r.offset))

Advance(t) ==
  /\ curr_offset' = [curr_offset EXCEPT ![t] = @ + ReadSize(t)]
  /\ remaining_size' = [remaining_size EXCEPT ![t] = @ - ReadSize(t)]

(* Is there another piece after the one the loop is at? *)
More(t) == remaining_size[t] - ReadSize(t) > 0

(* Entry, up to the first loop.  A read at or past the end returns 0. *)
ReadStart(t, r) ==
  /\ Mounted
  /\ reads[t] < MaxReads
  /\ \/ /\ r.offset >= get_file_size(r.file)
        /\ \E from \in {"idle", "done"} : Goto(t, from, "done")
        /\ UNCHANGED range
     \/ /\ r.offset < get_file_size(r.file)
        /\ \E from \in {"idle", "done"} :
              Goto(t, from, IF ReadLength(r) > 0 THEN "prio" ELSE "lock")
        /\ curr_offset' = [curr_offset EXCEPT ![t] = ToInt(r.offset)]
        /\ remaining_size' = [remaining_size EXCEPT ![t] = ReadLength(r)]
  /\ reads' = [reads EXCEPT ![t] = @ + 1]
  /\ req' = [req EXCEPT ![t] = r]
  /\ read_ptr' = [read_ptr EXCEPT ![t] = 0]
  /\ required_pieces' = [required_pieces EXCEPT ![t] = {}]
  /\ buf' = [buf EXCEPT ![t] = [i \in 0 .. r.size - 1 |-> NoByte]]
  /\ UNCHANGED <<session, silenced, shared, failed>>

(* First loop, without the mutex: what is missing is required ... *)
PrioHave(t) ==
  /\ Piece(t) \in have
  /\ Goto(t, "prio", IF More(t) THEN "prio" ELSE "lock")
  /\ Advance(t)
  /\ UNCHANGED <<session, silenced, shared, req, result, required_pieces, reads, failed>>

PrioMissing(t) ==
  /\ Piece(t) \notin have
  /\ Goto(t, "prio", "raise")
  /\ required_pieces' = [required_pieces EXCEPT ![t] = @ \cup {Piece(t)}]
  /\ UNCHANGED <<session, silenced, shared, req, range, result, reads, failed>>

(* ... and gets the highest priority, the piece before it the lowest, the  *)
(* piece after it the highest.                                             *)
RaisePiece(t) ==
  /\ Goto(t, "raise", "lowerPrev")
  /\ piece_priority(Piece(t), Highest)
  /\ UNCHANGED <<have, inflight, alerts, silenced, shared, frame, failed>>

LowerPrevious(t) ==
  /\ Goto(t, "lowerPrev", "raiseNext")
  /\ IF Piece(t) > 1 THEN piece_priority(Piece(t) - 1, Lowest) ELSE UNCHANGED priority
  /\ UNCHANGED <<have, inflight, alerts, silenced, shared, frame, failed>>

RaiseNext(t) ==
  /\ Goto(t, "raiseNext", IF More(t) THEN "prio" ELSE "lock")
  /\ IF Piece(t) < num_pieces - 1 THEN piece_priority(Piece(t) + 1, Highest)
                                  ELSE UNCHANGED priority
  /\ Advance(t)
  /\ UNCHANGED <<have, inflight, alerts, silenced, shared, req, result,
                 required_pieces, reads, failed>>

Free == fsmtx = NoReader

Lock(t) ==
  /\ Free
  /\ fsmtx' = t
  /\ Goto(t, "lock", "prefetch")
  /\ UNCHANGED <<session, silenced, buffers, frame, failed>>

PrefetchUnchecked(t) ==  \* mutant: no have_piece before read_piece
  /\ pc[t] = "prefetch"
  /\ \E p \in required_pieces[t] :
        /\ \A q \in required_pieces[t] : p <= q
        /\ read_piece(p)
        /\ required_pieces' = [required_pieces EXCEPT ![t] = @ \ {p}]
  /\ UNCHANGED <<have, priority, alerts, silenced, shared, pc, req, range, result,
                 reads, failed>>

(* The required pieces, in order: those that came meanwhile are read. *)
Prefetch(t) ==
  /\ pc[t] = "prefetch"
  /\ \E p \in required_pieces[t] :
        /\ \A q \in required_pieces[t] : p <= q
        /\ IF p \in have THEN read_piece(p) ELSE UNCHANGED inflight
        /\ required_pieces' = [required_pieces EXCEPT ![t] = @ \ {p}]
  /\ UNCHANGED <<have, priority, alerts, silenced, shared, pc, req, range, result,
                 reads, failed>>

RewindForgotten(t) ==  \* mutant: the second loop starts where the first one ended
  /\ required_pieces[t] = {}
  /\ Goto(t, "prefetch", IF remaining_size[t] > 0 THEN "wait" ELSE "unlock")
  /\ UNCHANGED <<session, silenced, shared, frame, failed>>

(* Second loop: back to the start of the range. *)
Rewind(t) ==
  /\ required_pieces[t] = {}
  /\ Goto(t, "prefetch", IF ReadLength(req[t]) > 0 THEN "wait" ELSE "unlock")
  /\ curr_offset' = [curr_offset EXCEPT ![t] = ToInt(req[t].offset)]
  /\ remaining_size' = [remaining_size EXCEPT ![t] = ReadLength(req[t])]
  /\ UNCHANGED <<session, silenced, shared, req, result, required_pieces, reads, failed>>

(* get_piece_buffers: pop_alerts empties libtorrent's queue ... *)
PopAlerts(t) ==
  /\ Goto(t, "waitPop", "wait") \/ Goto(t, "fetchPop", "fetch")
  /\ popped' = alerts
  /\ alerts' = << >>
  /\ UNCHANGED <<have, priority, inflight, silenced, fsmtx, piece_buffer_map,
                 allocated, frame, failed>>

alert_castUnchecked(a) == TRUE  \* mutant: an alert of any kind
alert_cast(a) == a.type = "read_piece"

(* ... and each read_piece_alert gets a new buffer, which replaces the     *)
(* piece's old one in the map; the old one is not freed.                   *)
HandleAlert(t) ==
  /\ pc[t] \in {"wait", "fetch"}
  /\ popped # << >>
  /\ LET a == Head(popped) IN
       IF alert_cast(a)
         THEN /\ piece_buffer_map' = [piece_buffer_map EXCEPT ![a.piece] = a.size]
              /\ allocated' = [allocated EXCEPT ![a.piece] = @ + 1]
         ELSE UNCHANGED <<piece_buffer_map, allocated>>
  /\ popped' = Tail(popped)
  /\ UNCHANGED <<session, silenced, fsmtx, locals, failed>>

(* get_piece_buffers returns when it has looked at all of them. *)
HandledOrNot == TRUE  \* mutant: it returns after any of them
Handled == popped = << >>

(* wait_for_piece_download: poll have_piece, popping alerts in between. *)
CheckHave(t) ==
  /\ Handled
  /\ Goto(t, "wait", IF Piece(t) \in have THEN "find" ELSE "waitPop")
  /\ UNCHANGED <<session, silenced, shared, frame, failed>>

FindBufferAlways(t) ==  \* mutant: read_piece without looking in the map
  /\ Goto(t, "find", "fetchPop")
  /\ read_piece(Piece(t))
  /\ UNCHANGED <<have, priority, alerts, silenced, shared, frame, failed>>

(* A buffer from an earlier read will do; otherwise ask for the piece. *)
FindBuffer(t) ==
  /\ \/ /\ Goto(t, "find", "copy")
        /\ piece_buffer_map[Piece(t)] # NoBuffer
        /\ UNCHANGED inflight
     \/ /\ Goto(t, "find", "fetchPop")
        /\ piece_buffer_map[Piece(t)] = NoBuffer
        /\ read_piece(Piece(t))
  /\ UNCHANGED <<have, priority, alerts, silenced, shared, frame, failed>>

CheckBuffer(t) ==
  /\ Handled
  /\ Goto(t, "fetch", IF piece_buffer_map[Piece(t)] # NoBuffer THEN "copy" ELSE "fetchPop")
  /\ UNCHANGED <<session, silenced, shared, frame, failed>>

(* temp_buf: piece_size bytes from the buffer, whatever the buffer holds. *)
TempBuf(p, i) == IF i < piece_buffer_map[p] THEN p * PieceLength + i ELSE NoByte

(* Where in temp_buf byte i of the result comes from. *)
SourceFromPieceStart(t, i) == i - read_ptr[t]  \* mutant: no + pr.start
Source(t, i) == Start(t) + (i - read_ptr[t])

Copy(t) ==
  /\ Goto(t, "copy", IF More(t) THEN "wait" ELSE "unlock")
  /\ buf' = [buf EXCEPT ![t] =
               [i \in DOMAIN @ |->
                  IF read_ptr[t] <= i /\ i < read_ptr[t] + ReadSize(t)
                    THEN TempBuf(Piece(t), Source(t, i))
                    ELSE @[i]]]
  /\ read_ptr' = [read_ptr EXCEPT ![t] = @ + ReadSize(t)]
  /\ Advance(t)
  /\ UNCHANGED <<session, silenced, shared, req, required_pieces, reads, failed>>

UnlockForgotten(t) ==  \* mutant: return with the mutex locked
  /\ Goto(t, "unlock", "done")
  /\ UNCHANGED <<session, silenced, shared, frame, failed>>

(* The read returns read_ptr. *)
Unlock(t) ==
  /\ Goto(t, "unlock", "done")
  /\ fsmtx' = NoReader
  /\ UNCHANGED <<session, silenced, buffers, frame, failed>>

-----------------------------------------------------------------------------
(* Everything a thread does on its own once the kernel has handed it a read. *)
ReaderStep(t) ==
  \/ PrioHave(t) \/ PrioMissing(t)
  \/ RaisePiece(t) \/ LowerPrevious(t) \/ RaiseNext(t)
  \/ Lock(t) \/ Prefetch(t) \/ Rewind(t)
  \/ PopAlerts(t) \/ HandleAlert(t)
  \/ CheckHave(t) \/ FindBuffer(t) \/ CheckBuffer(t)
  \/ Copy(t) \/ Unlock(t)

(* Every thread has served its reads; not a deadlock. *)
Terminated ==
  /\ Mounted
  /\ \A t \in Readers : pc[t] \in {"idle", "done"} /\ reads[t] = MaxReads
  /\ UNCHANGED vars

Next ==
  \/ SilencePiece
  \/ \E p \in Pieces : Download(p) \/ ReadPieceDone(p)
  \/ \E t \in Readers : ReaderStep(t) \/ \E r \in Requests : ReadStart(t, r)
  \/ Terminated

Spec == Init /\ [][Next]_vars

(***************************************************************************)
(* Threads are scheduled; init_bitfs runs to its end; libtorrent gets a    *)
(* piece that stays wanted and answers a disk read.  Nothing is assumed of *)
(* who gets the mutex, nor that the kernel asks for anything.              *)
(***************************************************************************)
Fairness ==
  /\ WF_vars(SilencePiece)
  /\ \A t \in Readers : WF_vars(ReaderStep(t))
  /\ \A p \in Pieces : WF_vars(Download(p)) /\ WF_vars(ReadPieceDone(p))

FairSpec == Spec /\ Fairness

-----------------------------------------------------------------------------
InLoop   == {"prio", "raise", "lowerPrev", "raiseNext"}
Waiting  == {"wait", "waitPop"}
Copying  == {"find", "fetch", "fetchPop", "copy"}
Critical == {"prefetch", "unlock"} \cup Waiting \cup Copying
Labels   == {"idle", "done", "lock"} \cup InLoop \cup Critical

(* The state every handler leaves behind is well formed. *)
TypeOK ==
  /\ have \subseteq Pieces
  /\ priority \in [Pieces -> Priorities]
  /\ inflight \in [Pieces -> Nat]
  /\ alerts \in Seq(Alert)
  /\ silenced \in Nat
  /\ fsmtx \in Readers \cup {NoReader}
  /\ piece_buffer_map \in [Pieces -> Nat \cup {NoBuffer}]
  /\ allocated \in [Pieces -> Nat]
  /\ popped \in Seq(Alert)
  /\ pc \in [Readers -> Labels]
  /\ req \in [Readers -> Requests \cup {IdleRequest}]
  /\ curr_offset \in [Readers -> Int]
  /\ remaining_size \in [Readers -> Int]
  /\ read_ptr \in [Readers -> Int]
  /\ required_pieces \in [Readers -> SUBSET Pieces]
  /\ DOMAIN buf = Readers
  /\ \A t \in Readers : buf[t] \in [0 .. req[t].size - 1 -> Int]
  /\ reads \in [Readers -> Nat]
  /\ failed \subseteq Pieces

-----------------------------------------------------------------------------
(***************************************************************************)
(* Only the holder of fsmtx is between lock() and unlock(): no two reads   *)
(* are ever in the part that uses piece_buffer_map and the alert queue.    *)
(***************************************************************************)
LockDiscipline == \A t \in Readers : pc[t] \in Critical <=> fsmtx = t

(***************************************************************************)
(* Alerts a read has popped are its own to look at until none is left: no  *)
(* read stops waiting, unlocks or leaves the queue to another thread with  *)
(* popped alerts (and the buffers in them) not yet stored in the map.      *)
(***************************************************************************)
PoppedAlertsOwned ==
  popped # << >> => \E t \in Readers : fsmtx = t /\ pc[t] \in {"wait", "fetch"}

(***************************************************************************)
(* A piece that a read waits for, or will wait for once it has the mutex,  *)
(* is there or is wanted by libtorrent.  Its priority is set without the   *)
(* mutex while other reads lower the neighbours of their own pieces, and   *)
(* wait_for_piece_download does not set it again, so were it ever back to  *)
(* 0 the read would poll for ever with fsmtx locked.                       *)
(***************************************************************************)
Wanted(p) == p \in have \/ priority[p] > 0

NoOrphanWait ==
  \A t \in Readers : pc[t] \in {"lock", "prefetch"} \cup Waiting =>
    \A o \in ToInt(req[t].offset) .. ToInt(req[t].offset) + ReadLength(req[t]) - 1 :
       Wanted(map_file(req[t].file, o).piece)

(***************************************************************************)
(* What is in piece_buffer_map is a whole piece: read_piece is only ever   *)
(* asked for pieces that are there, other kinds of alert leave no buffer,  *)
(* and only a failed disk read (of that very piece) can leave a short one. *)
(***************************************************************************)
BuffersWhole ==
  \A p \in Pieces : piece_buffer_map[p] \in {NoBuffer, piece_size(p)} \/ p \in failed

(***************************************************************************)
(* The two memcpy of a read stay inside the kernel's buffer and temp_buf,  *)
(* and every turn of the loop makes progress.                              *)
(***************************************************************************)
CopyInBounds ==
  \A t \in Readers : pc[t] = "copy" =>
    /\ Piece(t) \in Pieces
    /\ ReadSize(t) > 0
    /\ read_ptr[t] + ReadSize(t) <= req[t].size
    /\ Start(t) + ReadSize(t) <= piece_size(Piece(t))
    /\ piece_size(Piece(t)) <= PieceLength

(***************************************************************************)
(* The bytes a read returns are the bytes of the file from the offset on,  *)
(* except for bytes of a piece whose disk read failed.                     *)
(***************************************************************************)
FileByte(r, i) == FileOffset[r.file] + r.offset + i

DataCorrect ==
  \A t \in Readers : pc[t] = "done" =>
    \A i \in 0 .. read_ptr[t] - 1 :
       \/ buf[t][i] = FileByte(req[t], i)
       \/ FileByte(req[t], i) \div PieceLength \in failed

(* The same without the exception: what tests/test1.c compares. *)
ReadsMatchFile ==
  \A t \in Readers : pc[t] = "done" =>
    \A i \in 0 .. read_ptr[t] - 1 : buf[t][i] = FileByte(req[t], i)

(***************************************************************************)
(* A read returns as many bytes as were asked for, or as are left in the   *)
(* file.                                                                   *)
(***************************************************************************)
FullRead ==
  \A t \in Readers : pc[t] = "done" =>
    read_ptr[t] = IF req[t].offset >= FileSize[req[t].file] THEN 0
                  ELSE MinOf(req[t].size, FileSize[req[t].file] - req[t].offset)

(* What FullRead needs: no file and no request is too long for an int. *)
SizesFit ==
  /\ \A f \in Files : FileSize[f] < IntRange \div 2
  /\ \A r \in Requests : r.size < IntRange \div 2

(***************************************************************************)
(* A piece is read from disk at most once per thread and once more: the    *)
(* loop under the mutex reads it only while there is no buffer, and a      *)
(* thread prefetches only pieces it found missing, which it can do but     *)
(* once (FS.cpp:186-196, 212-216, 228-231).  This bounds the buffers that  *)
(* leak, and the answers that wait in libtorrent's queue.                  *)
(***************************************************************************)
Underway(p)  == inflight[p] + Answers(alerts, p) + Answers(popped, p)
DiskReads(p) == Underway(p) + allocated[p]

LeakBounded == \A p \in Pieces : DiskReads(p) <= 1 + Cardinality(Readers)

(***************************************************************************)
(* A read that polls for a buffer will get it: the answer to its           *)
(* read_piece, or to that of another thread, is still to come, waits in    *)
(* libtorrent's queue or has been popped, unless the buffer is there.      *)
(* Whichever thread popped it has not dropped it (FS.cpp:119-128, 233).    *)
(***************************************************************************)
AnswerOnItsWay ==
  \A t \in Readers : pc[t] \in {"fetch", "fetchPop"} =>
    piece_buffer_map[Piece(t)] # NoBuffer \/ Underway(Piece(t)) > 0

-----------------------------------------------------------------------------
(***************************************************************************)
(* Every read the kernel hands to a thread returns, although reads spin    *)
(* with the mutex held and take each other's alerts out of the queue.      *)
(***************************************************************************)
ReadReturns == \A t \in Readers : pc[t] \notin {"idle", "done"} ~> pc[t] = "done"

(***************************************************************************)
(* FS::read implements the read of ReadOnlyFile: it is busy from the entry *)
(* of the handler to its return, and what it returns is the first read_ptr *)
(* bytes of buf.                                                           *)
(***************************************************************************)
POSIX == INSTANCE ReadOnlyFile WITH
  op     <- [t \in Readers |-> IF pc[t] \in {"idle", "done"} THEN pc[t] ELSE "busy"],
  asked  <- req,
  result <- [t \in Readers |->
               IF pc[t] = "done" THEN [i \in 0 .. read_ptr[t] - 1 |-> buf[t][i]]
                                 ELSE [i \in {} |-> 0]]

ImplementsPosixRead == POSIX!Spec

(***************************************************************************)
(* The part of it that does not say that reads return: a read that returns *)
(* does so once, to the request it was given, with exactly those bytes.    *)
(***************************************************************************)
AnswersAsPosix == POSIX!Safety

-----------------------------------------------------------------------------
(***************************************************************************)
(* The inductive invariant of the proofs, part by part.                    *)
(***************************************************************************)
Active(t) == pc[t] \notin {"idle", "done"}

(* A read in progress is one the kernel may ask for, inside the file as    *)
(* get_file_size sees it, on a file system that is mounted.                *)
RequestInv ==
  \A t \in Readers :
    /\ pc[t] # "idle" => Mounted /\ req[t] \in Requests
    /\ Active(t) => req[t].offset < get_file_size(req[t].file)

(* In either loop the range done and the range to do make up the request. *)
LoopInv ==
  \A t \in Readers : pc[t] \in InLoop \cup Waiting \cup Copying =>
    /\ remaining_size[t] > 0
    /\ curr_offset[t] >= req[t].offset
    /\ curr_offset[t] + remaining_size[t] = req[t].offset + ReadLength(req[t])

(* The second loop has written as much as it has passed. *)
WrittenInv ==
  \A t \in Readers :
    /\ pc[t] \in InLoop \cup {"lock", "prefetch"} => read_ptr[t] = 0
    /\ pc[t] \in Waiting \cup Copying => curr_offset[t] = req[t].offset + read_ptr[t]
    /\ pc[t] = "unlock" =>
         read_ptr[t] = IF ReadLength(req[t]) > 0 THEN ReadLength(req[t]) ELSE 0
    /\ pc[t] = "done" =>
         read_ptr[t] = IF req[t].offset < get_file_size(req[t].file) /\ ReadLength(req[t]) > 0
                       THEN ReadLength(req[t]) ELSE 0

(* The pieces up to byte e of the file of read u are there or wanted. *)
WantedTo(u, e) ==
  \A o \in req[u].offset .. e - 1 : Wanted(map_file(req[u].file, o).piece)

ReadEnd(u) == req[u].offset + ReadLength(req[u])

(* What the first loop has passed is wanted, and stays so. *)
WantInv ==
  \A t \in Readers :
    /\ pc[t] \in InLoop => WantedTo(t, curr_offset[t])
    /\ pc[t] \in {"lowerPrev", "raiseNext"} => Wanted(Piece(t))
    /\ pc[t] \in {"lock", "prefetch"} \cup Waiting \cup Copying => WantedTo(t, ReadEnd(t))

(* Whole pieces all along the way from the disk to the map. *)
WholeAlert(a) == a.type = "read_piece" => a.size = piece_size(a.piece) \/ a.piece \in failed

BufferInv ==
  /\ BuffersWhole
  /\ \A p \in Pieces : inflight[p] > 0 => p \in have
  /\ \A i \in 1 .. Len(alerts) : WholeAlert(alerts[i])
  /\ \A i \in 1 .. Len(popped) : WholeAlert(popped[i])
  /\ \A t \in Readers :
       /\ pc[t] \in Copying => Piece(t) \in have
       /\ pc[t] = "copy" => piece_buffer_map[Piece(t)] # NoBuffer

(* Every byte written so far is the right one. *)
BytesInv ==
  \A t \in Readers : pc[t] # "idle" =>
    \A i \in 0 .. read_ptr[t] - 1 :
       \/ buf[t][i] = FileByte(req[t], i)
       \/ FileByte(req[t], i) \div PieceLength \in failed

(* The disk reads of a piece: one of each thread that knows that it is     *)
(* there, and one more that the loop asked for, if it has.                 *)
Prefetched(p) == {t \in Readers : p \in have /\ p \notin required_pieces[t]}

Fetching(p) == \E t \in Readers : pc[t] \in {"fetch", "fetchPop"} /\ Piece(t) = p

Fetched(p) == IF piece_buffer_map[p] # NoBuffer \/ Fetching(p) THEN 1 ELSE 0

CountInv == \A p \in Pieces : DiskReads(p) <= Cardinality(Prefetched(p)) + Fetched(p)

IInv ==
  /\ TypeOK
  /\ RequestInv /\ LoopInv /\ WrittenInv
  /\ LockDiscipline /\ PoppedAlertsOwned
  /\ WantInv
  /\ BufferInv
  /\ BytesInv
  /\ CountInv
=============================================================================
