--------------------------- MODULE FsMountProofs ----------------------------
(***************************************************************************)
(* Proofs about FsMount, for every torrent and any number of threads.      *)
(***************************************************************************)
EXTENDS FsMount, TLAPS, WellFoundedInduction

USE DEF NewDirs, NextFile

-----------------------------------------------------------------------------
(* Paths. *)

(* The directories above a path, and the step down from each of them. *)
LEMMA DirsOf ==
  ASSUME NEW path \in Seq(Names), path # Root, NEW d \in Dirs(path)
  PROVE  /\ d \in Seq(Names)
         /\ Len(d) \in 0 .. Len(path) - 1
         /\ path[Len(d) + 1] \in Names
         /\ Append(d, path[Len(d) + 1]) \in Dirs(path) \cup {path}
<1>1. PICK k \in 0 .. Len(path) - 1 : d = SubSeq(path, 1, k)
  BY DEF Dirs
<1>2. Len(path) \in Nat /\ k \in Nat
  OBVIOUS
<1>3. d \in Seq(Names) /\ Len(d) = k /\ \A i \in 1 .. k : d[i] = path[i]
  BY <1>1, <1>2
<1>4. k + 1 \in 1 .. Len(path) /\ path[k + 1] \in Names
  BY <1>2
<1> DEFINE a == Append(d, path[k + 1])
           b == SubSeq(path, 1, k + 1)
<1>5. a \in Seq(Names) /\ Len(a) = k + 1 /\ \A i \in 1 .. k + 1 : a[i] = path[i]
  BY <1>3, <1>4
<1>6. b \in Seq(Names) /\ Len(b) = k + 1 /\ \A i \in 1 .. k + 1 : b[i] = path[i]
  BY <1>2, <1>4
<1> HIDE DEF a, b
<1>7. a = b
  BY <1>5, <1>6
<1>8. CASE k + 1 = Len(path)
  <2>1. b = path
    BY <1>6, <1>8
  <2>2. QED
    BY <1>3, <1>4, <1>7, <2>1 DEF a
<1>9. CASE k + 1 # Len(path)
  <2>1. k + 1 \in 0 .. Len(path) - 1
    BY <1>2, <1>9
  <2>2. b \in Dirs(path)
    BY <2>1 DEF Dirs, b
  <2>3. QED
    BY <1>3, <1>4, <1>7, <2>2 DEF a
<1>10. QED
  BY <1>8, <1>9

(* The files of a torrent have proper paths. *)
LEMMA TorrentPaths ==
  ASSUME TypeOK, NEW i \in 1 .. Len(torrent)
  PROVE  /\ Len(torrent) \in Nat
         /\ torrent[i] \in Seq(Names) /\ torrent[i] # Root
BY MountAssumption DEF TypeOK

(* get_file_index finds a path that is in the torrent. *)
LEMMA FileIndex ==
  ASSUME TypeOK, NEW i \in 1 .. Len(torrent)
  PROVE  get_file_index(torrent[i]) # NotFound
<1> DEFINE hits == {j \in 1 .. Len(torrent) : torrent[j] = torrent[i]}
<1>1. hits \subseteq Nat /\ hits # {} /\ 0 \notin hits
  BY TorrentPaths
<1> DEFINE less == {ss \in Nat \X Nat : ss[1] < ss[2]}
<1>2. IsWellFoundedOn(less, Nat)
  BY NatLessThanWellFounded DEF OpToRel
<1> HIDE DEF hits
<1>3. PICK x \in hits : \A y \in hits : x <= y
  <2> HIDE DEF less
  <2>0. \A T : T \subseteq Nat /\ T # {} => \E x \in T : \A y \in T : ~ (<<y, x>> \in less)
    BY <1>2, WFMin, Zenon
  <2>1. PICK x \in hits : \A y \in hits : ~ (<<y, x>> \in less)
    BY <1>1, <2>0
  <2>2. ASSUME NEW y \in hits
        PROVE  x <= y
    <3>1. x \in Nat /\ y \in Nat
      BY <1>1
    <3>2. y < x => <<y, x>> \in less
      BY <3>1 DEF less
    <3>3. QED
      BY <2>1, <3>1, <3>2
  <2>3. QED
    BY <2>2
<1>4. get_file_index(torrent[i]) = CHOOSE k \in hits : \A j \in hits : k <= j
  BY <1>1 DEF get_file_index, hits
<1>5. get_file_index(torrent[i]) \in hits
  BY <1>3, <1>4
<1>6. QED
  BY <1>1, <1>5 DEF NotFound

-----------------------------------------------------------------------------
(* The initial state, and what each kind of step can change. *)

LEMMA MountInit == Init => IInv
<1> SUFFICES ASSUME Init
             PROVE  IInv
  OBVIOUS
<1>1. torrent \in Torrents /\ Len(torrent) \in Nat
  BY MountAssumption DEF Init
<1>2. TypeOK
  <2>1. _instance \in 0 .. made /\ fsmeta \subseteq 1 .. made /\ made \in Nat
    BY DEF Init, Null
  <2>2. filled \in 0 .. Len(torrent)
    BY <1>1 DEF Init
  <2>3. entries \in [DOMAIN entries -> SUBSET Names]
    BY DEF Init
  <2>4. self \in [Workers -> 0 .. made]
    BY DEF Init, Null
  <2>5. arg \in [Workers -> Paths]
    BY MountAssumption DEF Init
  <2>6. pc \in [Workers -> {"idle", "instance", "create", "return", "call"}]
      /\ op \in [Workers -> Ops]
    BY DEF Init, Ops
  <2>7. QED
    BY <1>1, <2>1, <2>2, <2>3, <2>4, <2>5, <2>6 DEF Init, TypeOK
<1>3. BootInv /\ TreeInv
  BY DEF Init, BootInv, TreeInv, Null
<1>4. ListedExists /\ ReachInv
  BY DEF Init, ListedExists, ReachInv
<1>5. QED
  BY <1>2, <1>3, <1>4 DEF IInv

(* A step of init_bitfs is taken before INIT is answered, by a thread that *)
(* runs alone.                                                             *)
LEMMA InitAlone ==
  ASSUME TypeOK, BootInv, NEW w \in Workers, pc[w] # "idle", op[w] = "init"
  PROVE  /\ initialised /\ ~ready
         /\ \A v \in Workers \ {w} : pc[v] = "idle"
BY DEF TypeOK, BootInv

LEMMA MountTypeStep == IInv /\ [Next]_vars => TypeOK'
<1> SUFFICES ASSUME TypeOK, BootInv, TreeInv, [Next]_vars
             PROVE  TypeOK'
  BY DEF IInv
<1>1. CASE UNCHANGED vars
  BY <1>1 DEF TypeOK, vars, fs, kernel
<1>2. ASSUME NEW w \in Workers, NEW o \in Ops, NEW p \in Paths, Request(w, o, p)
      PROVE  TypeOK'
  BY <1>2 DEF Request, TypeOK, fs
<1>3. ASSUME NEW w \in Workers, WorkerStep(w)
      PROVE  TypeOK'
  <2>1. CASE InstanceTest(w)
    BY <2>1 DEF InstanceTest, TypeOK, fs, kernel
  <2>2. CASE InstanceReturn(w)
    BY <2>2 DEF InstanceReturn, TypeOK, fs, kernel
  <2>3. CASE InstanceCreate(w)
    <3>1. made' \in Nat /\ _instance' \in 0 .. made' /\ fsmeta' \subseteq 1 .. made'
      BY <2>3 DEF InstanceCreate, TypeOK
    <3>2. self' \in [Workers -> 0 .. made']
      BY <2>3 DEF InstanceCreate, TypeOK
    <3>3. pc' \in [Workers -> {"idle", "instance", "create", "return", "call"}]
      BY <2>3 DEF InstanceCreate, TypeOK
    <3>4. QED
      BY <2>3, <3>1, <3>2, <3>3 DEF InstanceCreate, TypeOK, kernel
  <2>4. CASE InitStart(w)
    <3>1. self[w] = 1 /\ made = 1
      BY <2>4 DEF InitStart, InCall, BootInv
    <3>2. fsmeta' \subseteq 1 .. made'
      BY <2>4, <3>1 DEF InitStart, TypeOK
    <3>3. QED
      BY <2>4, <3>2 DEF InitStart, TypeOK, kernel
  <2>5. CASE InitError(w) \/ InitDone(w)
    BY <2>5 DEF InitError, InitDone, InitReturns, TypeOK
  <2>6. CASE InitNoError(w)
    BY <2>6 DEF InitNoError, TypeOK, kernel
  <2>7. CASE InitFill(w)
    <3> DEFINE path == torrent[filled + 1]
    <3>1. filled + 1 \in 1 .. Len(torrent) /\ Len(torrent) \in Nat
      BY <2>7, MountAssumption DEF InitFill, TypeOK
    <3>2. path \in Seq(Names) /\ path # Root
      BY <3>1, TorrentPaths
    <3>3. filled' \in 0 .. Len(torrent)'
      BY <2>7, <3>1 DEF InitFill, TypeOK
    <3> HIDE DEF path
    <3>4. dirmap' = dirmap \cup Dirs(path) /\ filenames' = filenames \cup {path}
      BY <2>7 DEF InitFill, path
    <3>5. dirmap' \subseteq Seq(Names) /\ filenames' \subseteq Seq(Names)
      BY <3>2, <3>4, DirsOf DEF TypeOK
    <3>6. entries' \in [DOMAIN entries' -> SUBSET Names]
      <4>1. entries' = NewEntries(path)
        BY <2>7 DEF InitFill, path
      <4>2. ASSUME NEW d \in DOMAIN entries \cup Dirs(path)
            PROVE  (IF d \in DOMAIN entries THEN entries[d] ELSE {})
                     \cup (IF d \in Dirs(path) THEN {path[Len(d) + 1]} ELSE {}) \in SUBSET Names
        <5>1. d \in DOMAIN entries => entries[d] \subseteq Names
          BY DEF TypeOK
        <5>2. d \in Dirs(path) => path[Len(d) + 1] \in Names
          BY <3>2, DirsOf
        <5>3. QED
          BY <5>1, <5>2
      <4>3. QED
        BY <4>1, <4>2 DEF NewEntries
    <3>7. QED
      BY <2>7, <3>3, <3>5, <3>6 DEF InitFill, TypeOK, kernel
  <2>8. CASE getattr(w)
    BY <2>8 DEF getattr, Reply, TypeOK, fs
  <2>9. CASE open(w)
    BY <2>9 DEF open, Reply, TypeOK, fs
  <2>10. CASE readdir(w)
    <3>1. entries' = entries
      BY <2>10 DEF readdir, has_dir, TreeInv
    <3>2. QED
      BY <2>10, <3>1 DEF readdir, Reply, TypeOK, kernel
  <2>11. CASE read(w)
    BY <2>11 DEF read, Reply, TypeOK, fs, kernel
  <2>12. QED
    BY <1>3, <2>1, <2>2, <2>3, <2>4, <2>5, <2>6, <2>7, <2>8, <2>9, <2>10, <2>11 DEF WorkerStep
<1>4. QED
  BY <1>1, <1>2, <1>3 DEF Next

LEMMA BootStep == IInv /\ [Next]_vars => BootInv'
<1> SUFFICES ASSUME TypeOK, BootInv, TreeInv, [Next]_vars
             PROVE  BootInv'
  BY DEF IInv
<1>0. pc \in [Workers -> {"idle", "instance", "create", "return", "call"}]
      /\ op \in [Workers -> Ops]
      /\ self \in [Workers -> 0 .. made] /\ initialised \in BOOLEAN /\ ready \in BOOLEAN
      /\ made \in Nat /\ _instance \in 0 .. made
  BY DEF TypeOK
<1>1. CASE UNCHANGED vars
  BY <1>1 DEF BootInv, vars, fs, kernel
<1>2. ASSUME NEW w \in Workers, NEW o \in Ops, NEW p \in Paths, Request(w, o, p)
      PROVE  BootInv'
  <2>1. CASE o = "init"
    BY <1>0, <1>2, <2>1 DEF Request, Sendable, BootInv, fs
  <2>2. CASE o # "init"
    BY <1>0, <1>2, <2>2 DEF Request, Sendable, BootInv, fs
  <2>3. QED
    BY <2>1, <2>2
<1>3. ASSUME NEW w \in Workers, WorkerStep(w)
      PROVE  BootInv'
  <2>1. CASE InstanceTest(w)
    BY <1>0, <2>1 DEF InstanceTest, BootInv, fs, kernel, Null
  <2>2. CASE InstanceReturn(w)
    BY <1>0, <2>2 DEF InstanceReturn, BootInv, fs, kernel, Null
  <2>3. CASE InstanceCreate(w)
    <3>1. made = 0 /\ phase = "none" /\ made' = 1 /\ _instance' = 1 /\ phase' = phase
      BY <1>0, <2>3 DEF InstanceCreate, BootInv
    <3>2. /\ pc[w] = "create" /\ pc' = [pc EXCEPT ![w] = "return"]
          /\ UNCHANGED <<op, self, initialised, ready>>
      BY <2>3 DEF InstanceCreate, kernel
    <3>3. ~ready /\ initialised
      BY <3>1, <3>2 DEF BootInv
    <3>4. \A v \in Workers \ {w} : pc[v] = "idle"
      BY <3>2, <3>3 DEF BootInv
    <3>5. op[w] = "init"
      BY <3>2, <3>3, <3>4 DEF BootInv
    <3>6. QED
      BY <1>0, <3>1, <3>2, <3>3, <3>4, <3>5 DEF BootInv
  <2>4. CASE InitStart(w)
    <3>1. self[w] = 1 /\ made = 1 /\ ~ready /\ initialised /\ pc[w] # "idle" /\ op[w] = "init"
      BY <2>4, InitAlone DEF InitStart, InCall, BootInv
    <3>2. fsmeta' = {1}
      BY <2>4, <3>1 DEF InitStart, TypeOK
    <3>3. /\ UNCHANGED <<made, _instance, pc, op, self, initialised, ready>> /\ phase' = "parse"
      BY <2>4 DEF InitStart, kernel
    <3>4. QED
      BY <3>1, <3>2, <3>3 DEF BootInv
  <2>5. CASE InitError(w) \/ InitDone(w)
    <3>1. /\ pc[w] # "idle" /\ op[w] = "init" /\ phase # "none"
          /\ phase' \in {"failed", "mounted"} /\ ready'
          /\ pc' = [pc EXCEPT ![w] = "idle"]
          /\ UNCHANGED <<made, _instance, fsmeta, op, self, initialised>>
      BY <2>5 DEF InitError, InitDone, InitReturns, InCall
    <3>2. initialised /\ \A v \in Workers \ {w} : pc[v] = "idle"
      BY <3>1, InitAlone
    <3>3. QED
      BY <1>0, <3>1, <3>2 DEF BootInv
  <2>6. CASE InitNoError(w) \/ InitFill(w)
    <3>1. /\ pc[w] # "idle" /\ op[w] = "init" /\ phase # "none" /\ phase' \in {"add", "fill"}
          /\ UNCHANGED <<made, _instance, fsmeta, pc, op, self, initialised, ready>>
      BY <2>6 DEF InitNoError, InitFill, InCall, kernel
    <3>2. initialised /\ ~ready
      BY <3>1, InitAlone
    <3>3. QED
      BY <3>1, <3>2 DEF BootInv
  <2>7. CASE getattr(w) \/ open(w) \/ readdir(w) \/ read(w)
    <3>1. /\ pc[w] # "idle" /\ op[w] # "init" /\ pc' = [pc EXCEPT ![w] = "idle"]
          /\ UNCHANGED <<made, _instance, fsmeta, phase, op, self, initialised, ready>>
      BY <2>7 DEF getattr, open, readdir, read, InCall, Reply, fs, kernel
    <3>2. ready
      BY <1>0, <3>1 DEF BootInv
    <3>3. QED
      BY <1>0, <3>1, <3>2 DEF BootInv
  <2>8. QED
    BY <1>3, <2>1, <2>2, <2>3, <2>4, <2>5, <2>6, <2>7 DEF WorkerStep
<1>4. QED
  BY <1>1, <1>2, <1>3 DEF Next

(* Once INIT is answered the maps stay as they are: init_bitfs is over, and *)
(* readdir finds the key it looks up.                                       *)
LEMMA MapsKept ==
  ASSUME TypeOK, BootInv, TreeInv, [Next]_vars, ready
  PROVE  UNCHANGED <<dirmap, filenames, entries>>
<1>1. CASE UNCHANGED vars
  BY <1>1 DEF vars, fs
<1>2. ASSUME NEW w \in Workers, NEW o \in Ops, NEW p \in Paths, Request(w, o, p)
      PROVE  UNCHANGED <<dirmap, filenames, entries>>
  BY <1>2 DEF Request, fs
<1>3. ASSUME NEW w \in Workers, WorkerStep(w)
      PROVE  UNCHANGED <<dirmap, filenames, entries>>
  <2>1. ~InitFill(w)
    BY InitAlone DEF InitFill, InCall
  <2>2. CASE readdir(w)
    BY <2>2 DEF readdir, has_dir, TreeInv
  <2>3. CASE ~readdir(w)
    BY <1>3, <2>1, <2>3 DEF WorkerStep, InstanceTest, InstanceReturn, InstanceCreate, InitStart,
      InitError, InitNoError, InitDone, getattr, open, read, fs
  <2>4. QED
    BY <2>2, <2>3
<1>4. QED
  BY <1>1, <1>2, <1>3 DEF Next

LEMMA TreeStep == IInv /\ [Next]_vars => TreeInv'
<1> SUFFICES ASSUME TypeOK, BootInv, TreeInv, [Next]_vars
             PROVE  TreeInv'
  BY DEF IInv
<1>0. pc \in [Workers -> {"idle", "instance", "create", "return", "call"}]
      /\ op \in [Workers -> Ops]
      /\ arg \in [Workers -> Paths]
  BY DEF TypeOK
<1>1. CASE UNCHANGED vars
  BY <1>1 DEF TreeInv, vars, fs, kernel
<1>2. ASSUME NEW w \in Workers, NEW o \in Ops, NEW p \in Paths, Request(w, o, p)
      PROVE  TreeInv'
  BY <1>0, <1>2 DEF Request, Sendable, TreeInv, fs
<1>3. ASSUME NEW w \in Workers, WorkerStep(w)
      PROVE  TreeInv'
  <2>1. CASE InstanceTest(w) \/ InstanceReturn(w) \/ InstanceCreate(w)
    BY <1>0, <2>1 DEF InstanceTest, InstanceReturn, InstanceCreate, TreeInv, fs, kernel
  <2>2. CASE InitStart(w) \/ InitNoError(w)
    BY <1>0, <2>2 DEF InitStart, InitNoError, TreeInv, kernel
  <2>3. CASE InitError(w) \/ InitDone(w)
    BY <1>0, <2>3 DEF InitError, InitDone, InitReturns, TreeInv
  <2>4. CASE InitFill(w)
    <3> DEFINE path == torrent[filled + 1]
    <3>1. filled + 1 \in 1 .. Len(torrent)
      BY <2>4, MountAssumption DEF InitFill, TypeOK
    <3>2. /\ dirmap' = dirmap \cup Dirs(path) /\ filenames' = filenames \cup {path}
          /\ DOMAIN entries' = DOMAIN entries \cup Dirs(path)
      BY <2>4 DEF InitFill, NewEntries
    <3>3. /\ phase = "fill"
          /\ UNCHANGED <<torrent, phase, pc, op, arg, ready, filesSeen, opened>>
      BY <2>4 DEF InitFill, kernel
    <3>4. DOMAIN entries' = dirmap'
      BY <3>2 DEF TreeInv
    <3>5. filenames' \subseteq {torrent'[i] : i \in 1 .. Len(torrent')}
      BY <3>1, <3>2, <3>3 DEF TreeInv
    <3>6. filesSeen' \subseteq filenames' /\ opened' \subseteq filenames'
      BY <3>2, <3>3 DEF TreeInv
    <3> HIDE DEF path
    <3>7. QED
      BY <3>3, <3>4, <3>5, <3>6 DEF TreeInv
  <2>5. CASE getattr(w)
    BY <1>0, <2>5 DEF getattr, Reply, has_file, has_dir, TreeInv, fs
  <2>6. CASE open(w)
    BY <1>0, <2>6 DEF open, Reply, has_file, TreeInv, fs
  <2>7. CASE readdir(w)
    <3>1. entries' = entries
      BY <2>7 DEF readdir, has_dir, TreeInv
    <3>2. QED
      BY <1>0, <2>7, <3>1 DEF readdir, Reply, TreeInv, kernel
  <2>8. CASE read(w)
    BY <1>0, <2>8 DEF read, Reply, TreeInv, fs, kernel
  <2>9. QED
    BY <1>3, <2>1, <2>2, <2>3, <2>4, <2>5, <2>6, <2>7, <2>8 DEF WorkerStep
<1>4. QED
  BY <1>1, <1>2, <1>3 DEF Next

(* The maps change in one step only: a turn of the loop of init_bitfs. *)
LEMMA OnlyFill ==
  ASSUME TypeOK, TreeInv, [Next]_vars
  PROVE  \/ \E w \in Workers : InitFill(w)
         \/ /\ UNCHANGED <<torrent, filled, dirmap, filenames, entries>>
            /\ phase' = "mounted" => phase = "mounted" \/ filled = Len(torrent)
<1>1. CASE UNCHANGED vars
  BY <1>1 DEF vars, fs
<1>2. ASSUME NEW w \in Workers, NEW o \in Ops, NEW p \in Paths, Request(w, o, p)
      PROVE  UNCHANGED <<torrent, filled, dirmap, filenames, entries, phase>>
  BY <1>2 DEF Request, fs
<1>3. ASSUME NEW w \in Workers, WorkerStep(w), ~InitFill(w)
      PROVE  /\ UNCHANGED <<torrent, filled, dirmap, filenames, entries>>
             /\ phase' = "mounted" => phase = "mounted" \/ filled = Len(torrent)
  <2>1. CASE readdir(w)
    BY <2>1 DEF readdir, has_dir, TreeInv
  <2>2. CASE ~readdir(w)
    BY <1>3, <2>2 DEF WorkerStep, InstanceTest, InstanceReturn, InstanceCreate, InitStart,
      InitError, InitNoError, InitDone, InitReturns, getattr, open, read, fs
  <2>3. QED
    BY <2>1, <2>2
<1>4. QED
  BY <1>1, <1>2, <1>3 DEF Next

(* What one turn of that loop does to the maps. *)
LEMMA FillStep ==
  ASSUME TypeOK, TreeInv, NEW w \in Workers, InitFill(w), NEW path, path = torrent[filled + 1]
  PROVE  /\ filled + 1 \in 1 .. Len(torrent) /\ filled' = filled + 1
         /\ path \in Seq(Names) /\ path # Root
         /\ dirmap' = dirmap \cup Dirs(path)
         /\ filenames' = filenames \cup {path}
         /\ DOMAIN entries' = dirmap'
         /\ \A d \in dirmap : entries[d] \subseteq entries'[d]
         /\ \A d \in Dirs(path) : path[Len(d) + 1] \in entries'[d]
         /\ \A d \in dirmap' : \A n \in entries'[d] :
              \/ d \in dirmap /\ n \in entries[d]
              \/ d \in Dirs(path) /\ n = path[Len(d) + 1]
         /\ UNCHANGED <<torrent, phase>> /\ phase = "fill"
<1>1. filled + 1 \in 1 .. Len(torrent)
  BY MountAssumption DEF InitFill, TypeOK
<1>2. path \in Seq(Names) /\ path # Root
  BY <1>1, TorrentPaths
<1>3. /\ dirmap' = dirmap \cup Dirs(path) /\ filenames' = filenames \cup {path}
      /\ entries' = NewEntries(path) /\ UNCHANGED <<torrent, phase>> /\ phase = "fill"
      /\ filled' = filled + 1
  BY DEF InitFill
<1>4. DOMAIN entries = dirmap
  BY DEF TreeInv
<1>5. DOMAIN entries' = dirmap'
  BY <1>3, <1>4 DEF NewEntries
<1>6. ASSUME NEW d \in dirmap'
      PROVE  entries'[d] = (IF d \in dirmap THEN entries[d] ELSE {})
                             \cup (IF d \in Dirs(path) THEN {path[Len(d) + 1]} ELSE {})
  BY <1>3, <1>4 DEF NewEntries
<1>7. \A d \in dirmap : entries[d] \subseteq entries'[d]
  BY <1>3, <1>6
<1>8. \A d \in Dirs(path) : path[Len(d) + 1] \in entries'[d]
  BY <1>3, <1>6
<1>9. \A d \in dirmap' : \A n \in entries'[d] :
        \/ d \in dirmap /\ n \in entries[d]
        \/ d \in Dirs(path) /\ n = path[Len(d) + 1]
  BY <1>6
<1>10. QED
  BY <1>1, <1>2, <1>3, <1>5, <1>7, <1>8, <1>9

LEMMA ListedStep == IInv /\ [Next]_vars => ListedExists'
<1> SUFFICES ASSUME TypeOK, BootInv, TreeInv, ListedExists, [Next]_vars
             PROVE  ListedExists'
  BY DEF IInv
<1>1. CASE UNCHANGED <<dirmap, filenames, entries>>
  BY <1>1 DEF ListedExists, has_dir, has_file
<1>2. ASSUME NEW w \in Workers, InitFill(w)
      PROVE  ListedExists'
  <2> DEFINE path == torrent[filled + 1]
  <2>1. /\ path \in Seq(Names) /\ path # Root
        /\ dirmap' = dirmap \cup Dirs(path)
        /\ filenames' = filenames \cup {path}
        /\ DOMAIN entries' = dirmap'
        /\ \A d \in dirmap' : \A n \in entries'[d] :
             \/ d \in dirmap /\ n \in entries[d]
             \/ d \in Dirs(path) /\ n = path[Len(d) + 1]
    BY <1>2, FillStep
  <2> HIDE DEF path
  <2> SUFFICES ASSUME NEW d \in dirmap', NEW n \in entries'[d]
               PROVE  Append(d, n) \in dirmap' \/ Append(d, n) \in filenames'
    BY <2>1 DEF ListedExists, has_dir, has_file
  <2>2. CASE d \in dirmap /\ n \in entries[d]
    BY <2>1, <2>2 DEF ListedExists, has_dir, has_file, TreeInv
  <2>3. CASE d \in Dirs(path) /\ n = path[Len(d) + 1]
    BY <2>1, <2>3, DirsOf
  <2>4. QED
    BY <2>1, <2>2, <2>3
<1>3. QED
  BY <1>1, <1>2, OnlyFill

LEMMA ReachStep == IInv /\ [Next]_vars => ReachInv'
<1> SUFFICES ASSUME TypeOK, BootInv, TreeInv, ReachInv, [Next]_vars
             PROVE  ReachInv'
  BY DEF IInv
<1>1. CASE /\ UNCHANGED <<torrent, filled, dirmap, filenames, entries>>
           /\ phase' = "mounted" => phase = "mounted" \/ filled = Len(torrent)
  BY <1>1 DEF ReachInv, Reachable
<1>2. ASSUME NEW w \in Workers, InitFill(w)
      PROVE  ReachInv'
  <2> DEFINE path == torrent[filled + 1]
  <2>1. /\ filled + 1 \in 1 .. Len(torrent) /\ filled' = filled + 1
        /\ dirmap' = dirmap \cup Dirs(path)
        /\ filenames' = filenames \cup {path}
        /\ \A d \in dirmap : entries[d] \subseteq entries'[d]
        /\ \A d \in Dirs(path) : path[Len(d) + 1] \in entries'[d]
        /\ UNCHANGED <<torrent, phase>> /\ phase = "fill"
    BY <1>2, FillStep
  <2>2. filled \in Nat
    BY MountAssumption DEF TypeOK
  <2>3. /\ path \in filenames'
        /\ \A d \in Dirs(path) : d \in dirmap' /\ path[Len(d) + 1] \in entries'[d]
    BY <2>1
  <2>4. ASSUME NEW i \in 1 .. filled
        PROVE  /\ torrent[i] \in filenames'
               /\ \A d \in Dirs(torrent[i]) :
                    d \in dirmap' /\ torrent[i][Len(d) + 1] \in entries'[d]
    <3>1. Reachable(torrent[i])
      BY DEF ReachInv
    <3>2. QED
      BY <2>1, <3>1 DEF Reachable
  <2>5. ASSUME NEW i \in 1 .. filled'
        PROVE  Reachable(torrent[i])'
    <3>1. i \in 1 .. filled \/ i = filled + 1
      BY <2>1, <2>2
    <3>2. CASE i \in 1 .. filled
      BY <2>1, <2>4, <3>2 DEF Reachable
    <3>3. CASE i = filled + 1
      BY <2>1, <2>3, <3>3 DEF Reachable
    <3>4. QED
      BY <3>1, <3>2, <3>3
  <2>6. QED
    BY <2>1, <2>5 DEF ReachInv
<1>3. QED
  BY <1>1, <1>2, OnlyFill

LEMMA MountStep == IInv /\ [Next]_vars => IInv'
BY MountTypeStep, BootStep, TreeStep, ListedStep, ReachStep DEF IInv

LEMMA MountInvariant == Spec => []IInv
BY MountInit, MountStep, PTL DEF Spec

-----------------------------------------------------------------------------
(* What they establish. *)

(* The maps, the request each thread works on and what the kernel knows    *)
(* are well formed in every reachable state.                               *)
THEOREM MountTypeCorrect == Spec => []TypeOK
BY MountInvariant, PTL DEF IInv

(* FS::Instance makes one object although it takes no lock, and no request *)
(* but INIT runs before init_bitfs is through with it.                     *)
THEOREM SingleInstance == Spec => []OneInstance
<1>1. IInv => OneInstance
  <2> SUFFICES ASSUME TypeOK, BootInv
               PROVE  OneInstance
    BY DEF IInv
  <2>1. ASSUME NEW w \in Workers, pc[w] = "call", op[w] # "init"
        PROVE  self[w] \in fsmeta /\ phase \in {"mounted", "failed"}
    <3>1. initialised /\ ready
      BY <2>1 DEF BootInv
    <3>2. phase \in {"mounted", "failed"}
      BY <3>1 DEF BootInv
    <3>3. QED
      BY <2>1, <3>2 DEF BootInv
  <2>2. QED
    BY <2>1 DEF OneInstance, BootInv
<1>2. QED
  BY <1>1, MountInvariant, PTL

(* Every name that readdir lists leads to a directory or a file, whatever  *)
(* the torrent and also while init_bitfs is filling the maps.              *)
THEOREM ListingsResolve == Spec => []ListedExists
BY MountInvariant, PTL DEF IInv

(* Every file of a mounted torrent is found from the root by readdir and   *)
(* getattr.                                                                *)
THEOREM AllFilesReachable == Spec => []FilesReachable
<1>1. IInv => FilesReachable
  <2> SUFFICES ASSUME TypeOK, TreeInv, ReachInv, phase = "mounted",
                      NEW i \in 1 .. Len(torrent)
               PROVE  /\ torrent[i] \in filenames
                      /\ \A k \in 0 .. Len(torrent[i]) - 1 :
                           /\ SubSeq(torrent[i], 1, k) \in dirmap
                           /\ SubSeq(torrent[i], 1, k) \in DOMAIN entries
                           /\ torrent[i][k + 1] \in entries[SubSeq(torrent[i], 1, k)]
    BY DEF IInv, FilesReachable, has_dir, has_file
  <2>1. Reachable(torrent[i])
    BY DEF ReachInv
  <2>2. torrent[i] \in Seq(Names) /\ torrent[i] # Root
    BY TorrentPaths
  <2> DEFINE path == torrent[i]
  <2> HIDE DEF path
  <2>3. ASSUME NEW k \in 0 .. Len(path) - 1
        PROVE  /\ SubSeq(path, 1, k) \in Dirs(path)
               /\ Len(SubSeq(path, 1, k)) = k
    <3>1. path \in Seq(Names) /\ Len(path) \in Nat
      BY <2>2 DEF path
    <3>2. k \in Nat /\ k <= Len(path)
      BY <3>1
    <3>3. Len(SubSeq(path, 1, k)) = k
      BY <3>1, <3>2
    <3>4. QED
      BY <3>3 DEF Dirs
  <2>4. QED
    BY <2>1, <2>3 DEF Reachable, TreeInv, path
<1>2. QED
  BY <1>1, MountInvariant, PTL

(* Whenever a read is under way, the torrent was added without an error    *)
(* and get_file_index finds the file, which FS::read relies on and does    *)
(* not check.                                                              *)
THEOREM ReadsFindFile == Spec => []ReadFindsFile
<1>1. IInv => ReadFindsFile
  <2> SUFFICES ASSUME TypeOK, BootInv, TreeInv,
                      NEW w \in Workers, pc[w] # "idle", op[w] = "read"
               PROVE  phase = "mounted" /\ get_file_index(arg[w]) # NotFound
    BY DEF IInv, ReadFindsFile
  <2>1. ready /\ arg[w] \in filenames
    BY DEF TreeInv
  <2>2. phase = "mounted"
    BY <2>1 DEF BootInv, TreeInv
  <2>3. PICK i \in 1 .. Len(torrent) : arg[w] = torrent[i]
    BY <2>1 DEF TreeInv
  <2>4. QED
    BY <2>2, <2>3, FileIndex
<1>2. QED
  BY <1>1, MountInvariant, PTL

(* Once requests are served no step changes the maps that all threads read *)
(* without a lock.                                                         *)
THEOREM MapsNeverChange == Spec => MapsFrozen
<1>1. IInv /\ [Next]_vars => [ready => UNCHANGED <<dirmap, filenames, entries>>]_vars
  BY MapsKept DEF IInv
<1>2. QED
  BY <1>1, MountInvariant, PTL DEF Spec, MapsFrozen
=============================================================================
