------------------------------ MODULE FsMount -------------------------------
(***************************************************************************)
(* Mounting a torrent and finding one's way in it: the FUSE wrappers of    *)
(* client.cpp, the singleton behind them, FS::init_bitfs with the errors   *)
(* that end it early, and getattr, open, readdir and the entry of read     *)
(* (FS.cpp).  FsRead goes on from there.                                   *)
(*                                                                         *)
(* A path is the sequence of the names between its slashes, the root the   *)
(* empty one: "/t/d" for FUSE, "t/d" for libtorrent and "/t/d/" as a key   *)
(* of the three maps are all <<"t", "d">>.  The maps are globals without a *)
(* lock; FUSE runs each request on some worker thread.                     *)
(***************************************************************************)
EXTENDS Naturals, Sequences, FiniteSets

CONSTANTS
  Workers,    \* threads of fuse_main
  Names,      \* names of files and directories
  Torrents,   \* torrents to mount: the file_path of each file, in order
  Paths       \* what the kernel may ask about

Dirs(path) == {SubSeq(path, 1, k) : k \in 0 .. Len(path) - 1}

Root == << >>

ASSUME MountAssumption ==
  /\ \A tor \in Torrents :
       /\ tor \in Seq(Seq(Names))
       /\ \A i \in 1 .. Len(tor) : tor[i] # Root
  /\ Paths \subseteq Seq(Names)
  /\ Root \in Paths

VARIABLES
  torrent,    \* the torrent in the file named on the command line
  \* FS.cpp
  _instance,  \* FS::_instance: the number of an FS object, or Null
  made,       \* FS objects made
  fsmeta,     \* those whose fsmeta has been set
  phase,      \* how far init_bitfs is
  filled,     \* files it has put in the maps
  dirmap, filenames,
  entries,    \* a function on the directories that are keys of the map
  \* the worker threads
  pc,
  op, arg,    \* what the request asks, and about which path
  self,       \* the FS object the wrapper calls
  \* the kernel
  initialised,          \* INIT sent
  ready,                \* INIT answered
  dirsSeen, filesSeen,  \* what getattr said
  opened

fs     == <<torrent, _instance, made, fsmeta, phase, filled, dirmap, filenames, entries>>
kernel == <<initialised, ready, dirsSeen, filesSeen, opened>>
vars   == <<fs, pc, op, arg, self, kernel>>

Null == 0

Init ==
  /\ torrent \in Torrents
  /\ _instance = Null
  /\ made = 0
  /\ fsmeta = {}
  /\ phase = "none"
  /\ filled = 0
  /\ dirmap = {}
  /\ filenames = {}
  /\ entries = [d \in {} |-> {}]
  /\ pc = [w \in Workers |-> "idle"]
  /\ op = [w \in Workers |-> "init"]
  /\ arg = [w \in Workers |-> Root]
  /\ self = [w \in Workers |-> Null]
  /\ initialised = FALSE
  /\ ready = FALSE
  /\ dirsSeen = {}
  /\ filesSeen = {}
  /\ opened = {}

-----------------------------------------------------------------------------
(* The kernel: INIT comes first, and nothing else before its answer.  A    *)
(* path is looked up in a directory it knows, only files are opened, only  *)
(* open files are read and only directories are listed.                    *)

Sendable(o, p) ==
  \/ o = "init" /\ ~initialised /\ p = Root
  \/ o = "getattr" /\ ready /\ (p = Root \/ SubSeq(p, 1, Len(p) - 1) \in dirsSeen)
  \/ o = "readdir" /\ ready /\ p \in dirsSeen
  \/ o = "open" /\ ready /\ p \in filesSeen
  \/ o = "read" /\ ready /\ p \in opened

Request(w, o, p) ==
  /\ pc[w] = "idle"
  /\ Sendable(o, p)
  /\ pc' = [pc EXCEPT ![w] = "instance"]
  /\ op' = [op EXCEPT ![w] = o]
  /\ arg' = [arg EXCEPT ![w] = p]
  /\ initialised' = (initialised \/ o = "init")
  /\ UNCHANGED <<fs, self, ready, dirsSeen, filesSeen, opened>>

-----------------------------------------------------------------------------
(* FS::Instance, at the head of every wrapper: the test, the assignment    *)
(* and the return statement, each of which looks at _instance by itself.   *)

InstanceTest(w) ==
  /\ pc[w] = "instance"
  /\ pc' = [pc EXCEPT ![w] = IF _instance = Null THEN "create" ELSE "return"]
  /\ UNCHANGED <<fs, op, arg, self, kernel>>

InstanceCreate(w) ==
  /\ pc[w] = "create"
  /\ made' = made + 1
  /\ _instance' = made + 1
  /\ pc' = [pc EXCEPT ![w] = "return"]
  /\ UNCHANGED <<torrent, fsmeta, phase, filled, dirmap, filenames, entries, op, arg, self,
                 kernel>>

InstanceReturn(w) ==
  /\ pc[w] = "return"
  /\ self' = [self EXCEPT ![w] = _instance]
  /\ pc' = [pc EXCEPT ![w] = "call"]
  /\ UNCHANGED <<fs, op, arg, kernel>>

-----------------------------------------------------------------------------
(* FS::init_bitfs.  It has no way to report an error: whatever happens, it *)
(* returns NULL and FUSE goes on.                                          *)

InCall(w, o) == pc[w] = "call" /\ op[w] = o

InitReturns(w, how) ==
  /\ phase' = how
  /\ pc' = [pc EXCEPT ![w] = "idle"]
  /\ ready' = TRUE
  /\ UNCHANGED <<initialised, dirsSeen, filesSeen, opened>>

InitStartOnNewObject(w) ==  \* mutant: init_wrapper makes an FS of its own
  /\ InCall(w, "init")
  /\ phase = "none"
  /\ made' = made + 1
  /\ fsmeta' = fsmeta \cup {made + 1}
  /\ phase' = "parse"
  /\ UNCHANGED <<torrent, _instance, filled, dirmap, filenames, entries, pc, op, arg, self,
                 kernel>>

InitStart(w) ==
  /\ InCall(w, "init")
  /\ phase = "none"
  /\ fsmeta' = fsmeta \cup {self[w]}
  /\ phase' = "parse"
  /\ UNCHANGED <<torrent, _instance, made, filled, dirmap, filenames, entries, pc, op, arg,
                 self, kernel>>

(* torrent_info, then add_torrent: each may set ec. *)
InitError(w) ==
  /\ InCall(w, "init")
  /\ phase \in {"parse", "add"}
  /\ InitReturns(w, "failed")
  /\ UNCHANGED <<torrent, _instance, made, fsmeta, filled, dirmap, filenames, entries, op, arg,
                 self>>

InitNoError(w) ==
  /\ InCall(w, "init")
  /\ \/ phase = "parse" /\ phase' = "add"
     \/ phase = "add" /\ phase' = "fill"
  /\ UNCHANGED <<torrent, _instance, made, fsmeta, filled, dirmap, filenames, entries, pc, op,
                 arg, self, kernel>>

(* One turn of the loop: the directories above the file, and in each the   *)
(* name that leads on to it.                                               *)
EntriesOverwritten(path) ==  \* mutant: entries[dirpath] = {strs[j]}
  [d \in DOMAIN entries \cup Dirs(path) |->
     IF d \in Dirs(path) THEN {path[Len(d) + 1]} ELSE entries[d]]

EntriesOfDirsOnly(path) ==  \* mutant: no entry for the file itself
  [d \in DOMAIN entries \cup (Dirs(path) \ {SubSeq(path, 1, Len(path) - 1)}) |->
     (IF d \in DOMAIN entries THEN entries[d] ELSE {})
       \cup (IF d \in Dirs(path) /\ Len(d) < Len(path) - 1 THEN {path[Len(d) + 1]} ELSE {})]

NewEntries(path) ==
  [d \in DOMAIN entries \cup Dirs(path) |->
     (IF d \in DOMAIN entries THEN entries[d] ELSE {})
       \cup (IF d \in Dirs(path) THEN {path[Len(d) + 1]} ELSE {})]

NewDirsRootOnly(path) == dirmap \cup {Root}  \* mutant: no insert in the inner loop
NewDirs(path) == dirmap \cup Dirs(path)

NextFileSkips == filled + 2  \* mutant: the loop counter goes up twice
NextFile == filled + 1

InitFill(w) ==
  /\ InCall(w, "init")
  /\ phase = "fill"
  /\ filled < Len(torrent)
  /\ filled' = NextFile
  /\ LET path == torrent[filled + 1]
     IN  /\ dirmap' = NewDirs(path)
         /\ filenames' = filenames \cup {path}
         /\ entries' = NewEntries(path)
  /\ UNCHANGED <<torrent, _instance, made, fsmeta, phase, pc, op, arg, self, kernel>>

(* The priorities, which FsRead models, come before the return. *)
InitDone(w) ==
  /\ InCall(w, "init")
  /\ phase = "fill"
  /\ filled = Len(torrent)
  /\ InitReturns(w, "mounted")
  /\ UNCHANGED <<torrent, _instance, made, fsmeta, filled, dirmap, filenames, entries, op, arg,
                 self>>

-----------------------------------------------------------------------------
(* The operations on a mounted torrent. *)

has_dir(p) == p \in dirmap
has_file(p) == p \in filenames

NotFound == 0   \* get_file_index returns -1

get_file_indexWithSlash(p) ==  \* mutant: filepath instead of filepath + 1
  LET hits == {i \in 1 .. Len(torrent) : torrent[i] = <<"">> \o p}
  IN  IF hits = {} THEN NotFound ELSE CHOOSE i \in hits : \A j \in hits : i <= j

(* The first file with this path. *)
get_file_index(p) ==
  LET hits == {i \in 1 .. Len(torrent) : torrent[i] = p}
  IN  IF hits = {} THEN NotFound ELSE CHOOSE i \in hits : \A j \in hits : i <= j

Reply(w) == pc' = [pc EXCEPT ![w] = "idle"] /\ UNCHANGED <<op, arg, self>>

getattr(w) ==
  /\ InCall(w, "getattr")
  /\ dirsSeen' = dirsSeen \cup {p \in {arg[w]} : has_dir(p)}
  /\ filesSeen' = filesSeen \cup {p \in {arg[w]} : ~has_dir(p) /\ has_file(p)}
  /\ Reply(w)
  /\ UNCHANGED <<fs, initialised, ready, opened>>

open(w) ==
  /\ InCall(w, "open")
  /\ opened' = opened \cup {p \in {arg[w]} : has_file(p)}
  /\ Reply(w)
  /\ UNCHANGED <<fs, initialised, ready, dirsSeen, filesSeen>>

(* entries[strpath] makes the key if there is none. *)
readdir(w) ==
  /\ InCall(w, "readdir")
  /\ entries' = IF has_dir(arg[w]) /\ arg[w] \notin DOMAIN entries
                THEN [d \in DOMAIN entries \cup {arg[w]} |->
                        IF d = arg[w] THEN {} ELSE entries[d]]
                ELSE entries
  /\ Reply(w)
  /\ UNCHANGED <<torrent, _instance, made, fsmeta, phase, filled, dirmap, filenames, kernel>>

(* FS::read with the file it has found: FsRead. *)
read(w) ==
  /\ InCall(w, "read")
  /\ Reply(w)
  /\ UNCHANGED <<fs, kernel>>

-----------------------------------------------------------------------------
WorkerStep(w) ==
  \/ InstanceTest(w) \/ InstanceCreate(w) \/ InstanceReturn(w)
  \/ InitStart(w) \/ InitError(w) \/ InitNoError(w) \/ InitFill(w) \/ InitDone(w)
  \/ getattr(w) \/ open(w) \/ readdir(w) \/ read(w)

Ops == {"init", "getattr", "readdir", "open", "read"}

Next ==
  \E w \in Workers :
    \/ WorkerStep(w)
    \/ \E o \in Ops, p \in Paths : Request(w, o, p)

Spec == Init /\ [][Next]_vars

-----------------------------------------------------------------------------
(* The state the handlers leave behind is well formed. *)
TypeOK ==
  /\ torrent \in Torrents
  /\ made \in Nat
  /\ _instance \in 0 .. made
  /\ fsmeta \subseteq 1 .. made
  /\ phase \in {"none", "parse", "add", "fill", "mounted", "failed"}
  /\ filled \in 0 .. Len(torrent)
  /\ dirmap \subseteq Seq(Names)
  /\ filenames \subseteq Seq(Names)
  /\ entries \in [DOMAIN entries -> SUBSET Names]
  /\ pc \in [Workers -> {"idle", "instance", "create", "return", "call"}]
  /\ op \in [Workers -> Ops]
  /\ arg \in [Workers -> Paths]
  /\ self \in [Workers -> 0 .. made]
  /\ initialised \in BOOLEAN
  /\ ready \in BOOLEAN
  /\ dirsSeen \subseteq Paths
  /\ filesSeen \subseteq Paths
  /\ opened \subseteq Paths

(***************************************************************************)
(* FS::Instance is not synchronised, yet every thread gets the same object *)
(* and it is one that init_bitfs has set up, after it is through with the  *)
(* maps: no request runs beside init_bitfs or on another FS object.        *)
(***************************************************************************)
OneInstance ==
  /\ made <= 1
  /\ \A w \in Workers : pc[w] = "call" /\ op[w] # "init" =>
       self[w] \in fsmeta /\ phase \in {"mounted", "failed"}

(***************************************************************************)
(* What readdir lists can be looked up: every name in entries leads to a   *)
(* directory or a file, whichever files init_bitfs has come to.            *)
(***************************************************************************)
ListedExists ==
  \A d \in DOMAIN entries : \A n \in entries[d] : has_dir(Append(d, n)) \/ has_file(Append(d, n))

(***************************************************************************)
(* Every file of a mounted torrent can be found by listing directories     *)
(* from the root, and each directory on the way is one for getattr.        *)
(***************************************************************************)
FilesReachable ==
  phase = "mounted" =>
    \A i \in 1 .. Len(torrent) :
      /\ has_file(torrent[i])
      /\ \A k \in 0 .. Len(torrent[i]) - 1 :
           /\ has_dir(SubSeq(torrent[i], 1, k))
           /\ SubSeq(torrent[i], 1, k) \in DOMAIN entries
           /\ torrent[i][k + 1] \in entries[SubSeq(torrent[i], 1, k)]

(***************************************************************************)
(* FS::read does not check what get_file_index returns, nor that there is  *)
(* a torrent: a read only ever gets there for a file of a torrent that was *)
(* added without an error, also after a mount that failed half-way.        *)
(***************************************************************************)
ReadFindsFile ==
  \A w \in Workers : pc[w] # "idle" /\ op[w] = "read" =>
    /\ phase = "mounted"
    /\ get_file_index(arg[w]) # NotFound

(***************************************************************************)
(* readdir looks its directory up with operator[], on a map other threads  *)
(* use at the same time: the key is always there, so that the map is never *)
(* changed once requests are served.                                       *)
(***************************************************************************)
MapsFrozen == [][ready => UNCHANGED <<dirmap, filenames, entries>>]_vars

-----------------------------------------------------------------------------
(***************************************************************************)
(* The inductive invariant of the proofs.  Before INIT is answered there   *)
(* is one thread at work, then there is one FS object and init_bitfs is    *)
(* over.                                                                   *)
(***************************************************************************)
BootInv ==
  /\ ~initialised => ~ready /\ phase = "none" /\ \A w \in Workers : pc[w] = "idle"
  /\ initialised /\ ~ready =>
       /\ phase \in {"none", "parse", "add", "fill"}
       /\ \E w \in Workers : /\ pc[w] # "idle" /\ op[w] = "init"
                            /\ \A v \in Workers \ {w} : pc[v] = "idle"
  /\ ready => /\ phase \in {"mounted", "failed"}
              /\ \A w \in Workers : pc[w] # "idle" => op[w] # "init"
  /\ made = _instance /\ made <= 1
  /\ phase # "none" => made = 1 /\ fsmeta = {1}
  /\ \A w \in Workers : /\ pc[w] = "create" => made = 0
                        /\ pc[w] = "return" => made = 1
                        /\ pc[w] = "call" => made = 1 /\ self[w] = 1

(* Only files of a torrent that was added are seen, opened and read, and   *)
(* every directory has a list.                                             *)
TreeInv ==
  /\ DOMAIN entries = dirmap
  /\ filenames \subseteq {torrent[i] : i \in 1 .. Len(torrent)}
  /\ phase \notin {"fill", "mounted"} => filenames = {}
  /\ filesSeen \subseteq filenames
  /\ opened \subseteq filenames
  /\ \A w \in Workers : pc[w] # "idle" /\ op[w] = "read" => ready /\ arg[w] \in opened

(* The files done so far can be reached from the root. *)
Reachable(path) ==
  /\ path \in filenames
  /\ \A d \in Dirs(path) : d \in dirmap /\ path[Len(d) + 1] \in entries[d]

ReachInv ==
  /\ \A i \in 1 .. filled : Reachable(torrent[i])
  /\ phase = "mounted" => filled = Len(torrent)

IInv == TypeOK /\ BootInv /\ TreeInv /\ ListedExists /\ ReachInv
=============================================================================
