# bitFS verification

TLA+ models of bitFS, a FUSE file system that mounts a torrent and downloads
the pieces of a file when somebody reads it, of its older version in one file,
and of the small BitTorrent client that comes with it with its reader of torrent
files, with TLC configurations that check them on small instances and TLAPS
proofs for every instance.

Read `TorrentLayout`, then `ReadOnlyFile` (what is promised), then `FsRead` (how
it is done), then `FsMount`. `LegacyRead`, `BtMetainfo`, `BtPeers` and `BtClient`
stand for themselves. The proofs are in the modules named `...Proofs`; definitions marked
`\* mutant` are wrong variants of the definition that follows them, kept to show
that the properties notice the difference. `PROJECT.json` maps each definition to the lines it models.

## 1. Inventory

| Part | State | Operations | Hard behaviour | Correct if |
|---|---|---|---|---|
| `FS::read` (FS.cpp) | `fsmtx`, `piece_buffer_map`, locals of each read | `read`, `get_piece_buffers`, `wait_for_piece_download`, `get_file_size` | Several FUSE threads; priorities set outside the mutex; busy waiting with the mutex held; one alert queue for everybody; 64-bit sizes kept in `int` | a read returns, with the file's bytes, and writes nowhere else |
| Mount and directory tree (FS.cpp, client.cpp) | `_instance`, `fsmeta`, `dirmap`, `filenames`, `entries` | wrappers, `Instance`, `init_bitfs`, `getattr`, `open`, `readdir`, `get_file_index` | Unsynchronised singleton and maps; `init_bitfs` cannot report an error, so that FUSE serves a mount that failed | every file is found, nothing else is, and no request meets a half-built tree |
| libtorrent (external) | pieces it has, priorities, disk reads under way, alert queue | `have_piece`, `piece_priority`, `read_piece`, `pop_alerts` | its own thread answers later, possibly with an error | - |
| Linux kernel and libfuse (external) | what it has looked up and opened | INIT, GETATTR, READDIR, OPEN, READ | requests run on several threads | - |
| Metadata holders (torrent_metadata, bitfs_metadata) | fields only | getters and setters | none | - |
| Seeder (seeder.cpp) | none of its own | add the torrent named by `argv[1]` with a fresh empty directory as its save path, print its state for ever | two error exits | it has the files it seeds |
| Older single-file bitFS (bitFS.cpp, not in the Makefile) | as FS.cpp | as FS.cpp | other size rules in `getattr` and `read` | as FS.cpp |
| btclient (bt_client.c, bt_lib.c) | `metainfo`, the list of peers, socket, bitfield, piece buffer | `parse_metainfo_file`, `get_peer_list`, handshake, `get_piece`, `get_block`, `peerlisten` | entries in any order; lines longer than the arrays they go into, strings without a terminator; a TCP stream cut anywhere; a peer that closes or chokes | it knows what the torrent file says, connects to the peer that is listed, each block lands where it belongs, and the loop ends when the peer leaves |
| Bencode reader (bencode.c) | position in a string | `bencode_*` | lengths carried into nested items; states told apart by one character | stays in step with what was encoded, never past the end |
| tests/test1.c | - | compares a mounted file with the original | - | - |

How they interact. `client.cpp` registers five wrappers with FUSE; each calls
`FS::Instance()` and then the method. The kernel sends INIT first, which runs
`init_bitfs`: it makes the session, reads the torrent file, adds the torrent,
fills the three maps and sets the priority of pieces to 0. After its answer
other requests arrive on any worker thread. `getattr`, `open` and `readdir` only
look into the maps. `read` maps its byte range to pieces, raises their priority,
locks `fsmtx` and then for each piece polls `have_piece`, asks for the piece with
`read_piece`, polls the alert queue for the `read_piece_alert` and copies. The
alerts a thread pops go into `piece_buffer_map`, which all reads share and which
is never emptied.

The hazards that follow from this are listed in `PROJECT.json`, each at its
line, with the properties that would catch it.

## 2. Modules

| Module | What it is |
|---|---|
| `TorrentLayout` | files and pieces over one run of bytes: `piece_size`, `map_file`, `get_file_size`, the wrap-around of `int`, and libtorrent's alerts |
| `ReadOnlyFile` | abstract specification: each read is answered (`Spec`), once and with exactly the bytes asked for (its part `Safety`) |
| `FsRead` | `FS::read` on any number of threads, over libtorrent |
| `FsMount` | mounting, the directory tree and the way of a request to its handler |
| `LegacyRead` | `bitfs_read` and the start of the download in bitFS.cpp |
| `Bencoding` | the format (external): values, and the text a value is written as |
| `Bencode` | every function of bencode.c, as operators over positions in a buffer |
| `BtMetainfo` | `parse_metainfo_file` and `parse_metainfo`, over `Bencode` |
| `BtPeers` | `get_peer_list`, byte by byte, and what `main` takes from the first entry of the list |
| `BtClient` | btclient's `main`, messages, `get_piece` and `get_block`, with a seed at the other end of a TCP stream |
| `MCFsRead`, `MCFsMount`, `MCLegacyRead`, `MCBtMetainfo`, `MCBtPeers` | instances for TLC (`BtClient` needs none: its constants are numbers) |
| `TorrentLayoutProofs` | lemmas on the layout and on counting alerts, shared by the next three |
| `FsReadProofs`, `LegacyReadProofs`, `FsMountProofs`, `BtClientProofs` | the invariants of each module, with lemmas and theorems; in `FsReadProofs` also how often a piece is read from disk and that no answer is lost; at the end of the first two, that both versions of the read implement `ReadOnlyFile` |
| `BencodeProofs` | the reader of bencode.c on any value, however deep |
| `BtMetainfoProofs`, `BtPeersProofs` | the invariants and the theorems of `BtMetainfo` and `BtPeers` |

### FsRead and the code

| Variables | Code |
|---|---|
| `have`, `priority`, `inflight`, `alerts` | the libtorrent session |
| `silenced` | loop counter of FS.cpp:374; reads begin when it has reached `num_pieces` |
| `fsmtx`, `piece_buffer_map`, `popped` | the mutex, the map (a buffer is the number of bytes it holds), the local `alerts` of `get_piece_buffers` |
| `allocated` | buffers `malloc`ed per piece |
| `pc`, `req`, `curr_offset`, `remaining_size`, `read_ptr`, `required_pieces`, `buf` | locals of a read |
| `failed` | history: pieces a disk read of which failed |

One action per call another thread or libtorrent can observe: `ReadStart` (entry
up to the first loop); `PrioHave`, or `PrioMissing`, `RaisePiece`,
`LowerPrevious`, `RaiseNext` (a turn of the first loop, each `piece_priority` an
action of its own since no lock is held); `Lock`; `Prefetch`; `Rewind`;
`PopAlerts` and `HandleAlert` (`get_piece_buffers`); `CheckHave`
(`wait_for_piece_download`); `FindBuffer`, `CheckBuffer`, `Copy` (a turn of the
second loop); `Unlock`. `SilencePiece` is the last loop of `init_bitfs`.
`Download` and `ReadPieceDone` are libtorrent's.

The byte at position n of the torrent is the number n, so that "the right byte"
can be stated; bytes that were never written are `NoByte`. `int` has `IntRange`
values, and every conversion of a size or an offset to `int` goes through
`ToInt`. `-1` as a size in `piece_buffer_map` stands for a missing key.

### FsMount and the code

A path is the sequence of its names, which is what the three spellings in the
code ("/t/d", "t/d", "/t/d/") have in common. `Request` and `Sendable` are the
kernel: INIT first, a path looked up in a directory it has seen, only files
opened, only open files read. `InstanceTest`, `InstanceCreate` and
`InstanceReturn` are separate steps because `FS::Instance` tests `_instance`,
assigns it and reads it again without a lock. `InitStart`,
`InitError`, `InitNoError`, `InitFill` (one file per step) and `InitDone` are
`init_bitfs`; both errors end it with the tree empty and the file system serving
requests. A request reaches `getattr`, `open`, `readdir` or `read` in `self`, the
object its wrapper got. `FsRead` goes on where `read` ends; its assumption that
the file exists and the torrent is there is `ReadFindsFile`.

### LegacyRead and the code

The actions are named as in `FsRead` where they do the same. A read holds `fsmtx`
over both loops, so `curr_offset` and `remaining_size` are those of the holder
alone. New are `limit` and `paused`: `SpeedUp` and `SlowDown` are the two calls
of `set_download_limit` in a read, `ThrottleMount` and `ResumeMount` the last two
of `init_bitfs`. `RaiseAgain` is the extra `piece_priority` in
`wait_for_piece_download`.

### Bencode, BtMetainfo and the code

A `bencode_t` is a record of `str` (how far it was read), `start` and `len`. A C
function that moves the object it is given returns the moved object too. An
`assert` is a CASE with no alternative and a look outside of the buffer has no
value, so that either would stop TLC: that no run stops is part of what is
shown. The buffer is a sequence of characters followed by a zero; the keys the
client knows, and "other", are one character each.

The functions of bencode.c call each other, down into nested items and on to the
end of a dictionary or list. Here this is a function of the number of turns the
loops may take: `Loops[n]` has what each loop returns within n turns, those over
nested items included, and `DictTurn` and `ListTurn` are one turn of it. As a
turn reads a character at least, `Loops[Len(text)]` (`AllLoops`) is what the code
computes. `Valid` is the same for `__validate`.

`Open`, `Read` (a chunk of any size) and `ReadEnd` are the first half of
`parse_metainfo_file`. Its loop, and the one over the info dictionary, are the
actions `ParseEntry`, `ParseInfo` (steps into the second loop and hashes),
`InfoEnd` and `ParseEnd`; `stack` holds the dictionaries of both loops.
A field nobody assigned since `malloc` is `JunkStr` or `JunkInt`; one that was is
the block of `len` bytes allocated for it. What lies behind a block is not in the
model: the code terminates `announce` one byte behind it, and `pieces` and `name`
not at all (see section 5). `main` goes on in `BtPeers` and then in `BtClient`,
whose constants are what was parsed.

The reference is the torrent file itself: `Init` chooses a value, `Encode`
writes it by the rules of bencoding, and the properties compare what the code
got from the text with the value. `Char`, `Value` and `Depth` are constants: any
set of values that has the parts of its members will do, with a depth for each
that is less for its parts. MCBtMetainfo computes them from its torrent files.

### BtPeers and the code

| Variables | Code |
|---|---|
| `file`, `row`, `col` | "peerlist", by its lines, and the position of `peerfile_fd` in it |
| `high` | the bytes of `ch` that `read` does not write |
| `buf` | the first `i` characters of `buf` |
| `pl` | `infoarr`: the characters copied into each `url` |
| `peer` | `ip` and `port` of `main`, the latter as its digits |

`StoreByte` is a turn of the inner loop. It goes on at a newline, too, if `high` is
not 0, since `ch` is an `int` without an initial value and compared as one. The
Makefile compiles without optimisation, so that `ch` has one place on the stack
and what `read` leaves alone there does not change. `AddPeer`, `ListFull` and
`FileEnd` are the rest of the outer loop: one more entry, `break` as there are 50,
`break` as `read` returned nothing (a file that cannot be opened reads as an empty
one, and a failed read ends it as its end does). Where the code would write behind
`buf` or behind a `url`, the step is `Overrun`, to "undefined". `strncpy` with `i`
copies no zero, so that a `url` goes on with what lies behind its characters:
`Connect` chooses one of `Residues` and finds in both together what `strtok` and
`atoi` would. `NoPeer` is a list without entries, whose `infoarr[0]` nobody has
assigned, or an entry without a second token, for which `atoi` gets NULL.

### BtClient and the code

| Variables | Code |
|---|---|
| `conn` | the socket: before `connect`, open, refused (`sockfd` is -1), closed or reset by the peer |
| `outbox`, `sent`, `sentLen`, `interested`, `choked` | what is on its way to the peer, and the peer (external) |
| `taken` | how many bytes of the stream the client has read |
| `i` | the piece, in `main` |
| `left`, `begin`, `piece_buf` | `remaining`, `offset` and `piece_buf` of `get_piece` |
| `remaining`, `offset`, `blk` | `get_block`; `blk` is where in the stream its first byte was |
| `file` | /tmp/file.txt |

A byte is its position in the stream, so that "which byte is where" can be said
without contents. `tcp_recv` returns any number of the bytes that are there, 0
at the end of the stream and -1 on an error; `tcp_send` to a peer that has left
is lost or ends the program by SIGPIPE. The lengths of messages are the real
ones. The seed answers the handshake with its own and a bitfield, unchokes an
interested client when it likes, and drops requests until then.

## 3. Runs

| Run | Shows |
|---|---|
| `read_one` | One thread, two reads out of nine shapes, on a torrent of two files and four pieces (files share a piece, the last piece is short): `CopyInBounds`, `ReadsMatchFile`, `FullRead`, and `AnswersAsPosix`, the safety part of the refinement. |
| `read_pair` | Two threads with overlapping pieces and disk reads that may fail: `TypeOK`, `PoppedAlertsOwned`, `NoOrphanWait`, `AnswerOnItsWay`, `BuffersWhole`, `DataCorrect`. |
| `read_live` | Two threads, all pieces silenced at first: `ReadReturns`, the refinement `ImplementsPosixRead` (all of `ReadOnlyFile`'s `Spec`), and `LeakBounded`. |
| `mount` | Two threads, a torrent of one file or one of three files in nested directories, either error of `init_bitfs`: the properties of `FsMount`. |
| `read_large_file` (violation) | A file too large for `int`: `FullRead` fails. |
| `read_disk_error` (violation) | A failed disk read: `ReadsMatchFile` fails. |
| `legacy_read` | bitFS.cpp, two threads over shared pieces, with cut-off and empty reads: `TypeOK`, `LimitFollowsReads`, `RangeRaised`, `OneBuffer`, `AnswerOnItsWay`, the refinement `AnswersAsPosix`, and `ReadReturns`, which is what `ReadOnlyFile`'s `Spec` has beyond it. |
| `bt_metainfo` | Some three hundred torrent files, read in chunks of any size: `TypeOK`, `InSync`, `CarryCovers`, `ParsedRight`, `InfoHashed`, `Accepted`, `EntriesAdvance`. |
| `bt_peers` | Some 2500 lists of peers, of lines that fit and lines that do not, with `high` 0 or not, and with anything behind a url: `TypeOK`, `PeersListed`, `ConnectsToFirst`. |
| `bt_client` | Two pieces in up to two blocks, short ones included, any cut of the stream, any end of the connection: `TypeOK`, `BlockInBounds`, `RequestsInPiece`, `FileInOrder`. |
| `bt_response` (violation) | `BlockIsResponse`, the comment of bt_lib.c:352, fails. |
| `bt_choked` (violation) | `ClientEnds`, the comment of bt_client.c:48, fails. |

Bounds. `MaxReads` bounds the reads of each thread; one is enough for the races
between two reads, two for a read that finds what an earlier one left in the
map. Pieces of two bytes with files of three make every seam occur: a file that
begins and ends in a piece, a piece with two files, a short last piece, a range
over three pieces. Two threads are the smallest number that races, and the
proofs cover the rest. `FirstSilenced` is 10 in the code; here 0 or 1, so that
the torrent has pieces on both sides of it or, in `read_live`, none that comes
by itself. `IntRange` is 32 where sizes fit and 8 where they must not. The
safety runs use symmetry among the threads, the liveness run does not. In
`FsMount` nothing grows without end.

The torrent files of `bt_metainfo` have an entry the client does not know,
beside the info dictionary or inside it and at every place among the others,
which holds strings, integers (negative ones too), lists and dictionaries nested
three deep, empty ones and ones that begin with an empty one included, with the
letters the reader looks for ("e", "d", "l", "i", digits and colons) as
contents; lengths that fill the last piece, do not, and do not fit an `int` of
64 values; a hash with a zero byte; and files without some of the keys. The
reader has no memory but its position, so that what it does after a value
depends on that value only, not on how many there were. `ReadSize` is 8 (1024 in
the code), so that a text takes about ten reads or as many as it has bytes.

In `bt_peers` the list has room for two peers (50 in the code), a url for 4
characters (64) and `buf` for 6 (1024). There are up to three lines, and they are
empty, fit a url, fit `buf` but no url, or fill `buf`, with or without a port, or
begin with a colon; the last line may have no newline and may fill `buf` as well.
Lines do not influence each other but through `buf` and the number of entries,
which is why three are enough.

`EntriesAdvance` is a property of steps and not a promise that parsing ends: that
each turn moves on is what the code can get wrong, the file is finite anyhow.

In `legacy_read` one read per thread is enough: the second to get the mutex finds
the buffers of the first. `BtClient` has two pieces (`PiecesWanted` is 1 in
the code, where the loop over all pieces is commented out) and an `int` of 64
values, enough for a block and small enough that the count of `get_block` on a
refused connection comes round. `bt_client` does not check for deadlock: the
client really may wait for ever, which is what `bt_choked` is about.

Fairness. A thread that can go on goes on (weak fairness of each thread's steps),
`init_bitfs` runs to its end, libtorrent fetches a piece that stays wanted and
answers each disk read. The last two are what a torrent with a seed gives; without
them no read can be promised to return. Nothing is assumed of who gets the
mutex: as each thread serves finitely many reads nobody can be passed over for
ever. With an endless supply of reads `boost::mutex` gives no such guarantee,
and starvation is then possible in the code as well.

For bitFS.cpp it is weaker: libtorrent need not get anything while it is held to
a byte per second, so that reads return only if each of them lifts the limit. In
`bt_choked` the client runs and the peer handles what it gets and unchokes.

`ReadReturns`, `ImplementsPosixRead` and `AnswersAsPosix` are checked without disk errors and with
sizes that fit, as the two findings below show that they are needed.

## 4. Theorems

All but the last are of the form `Spec => []P` (or `Spec => P` for an action
property) for every value of the constants that satisfies the named assumptions:
`LayoutAssumption` (files lie inside the torrent; they need not even be
disjoint), `IntAssumption`, `ReadAssumption`, `MountAssumption` (paths are
sequences of names, and no file has the empty one), `LegacyAssumption` (a single
request fits an `int`), `BtAssumption` (a piece and a header fit an `int`),
`ValueAssumption` (values are finitely deep), `MetainfoAssumption`,
`TorrentAssumption` and `PeersAssumption` (lines hold no newline, there is room for
a peer, and a url is shorter than `buf`). TLC evaluates them in the runs.

`TorrentAssumption` says what a torrent file is: a dictionary in which the keys
the client knows stand where they belong, once, and before a value of their kind,
with an info dictionary and in it a piece length that is positive and fits an
`int`. The code asks for all of this without looking: it takes a key for what it
knows in either dictionary, `bencode_string_value` asserts that it is given a
string, what `bencode_int_value` returns is not looked at, and `num_pieces` comes
from a division by `piece_length`. Everything else is free: further keys, with any
values however deep, the order of the entries, missing keys, lengths that do not
fit, zero bytes in strings.

| Theorem | Property | Further hypothesis |
|---|---|---|
| `TypeCorrect` | `TypeOK` | |
| `MutualExclusion` | `LockDiscipline` (in no run: without the lock `PoppedAlertsOwned` fails) | |
| `NoAlertLeftBehind` | `PoppedAlertsOwned` | |
| `NoOverrun` | `CopyInBounds` | |
| `WaitedForIsWanted` | `NoOrphanWait` | |
| `WholeBuffers` | `BuffersWhole` | |
| `CorrectData` | `DataCorrect` | |
| `ErrorFreeReads` | `ReadsMatchFile` | `~DiskErrors` |
| `NoShortReads` | `FullRead` | `SizesFit`: no file or request reaches half of `IntRange` |
| `AnswersRefine` | `AnswersAsPosix` | `~DiskErrors` and `SizesFit` |
| `BoundedLeak` | `LeakBounded` | |
| `NoAnswerLost` | `AnswerOnItsWay` | |
| `MountTypeCorrect` | `FsMount`'s `TypeOK` | |
| `SingleInstance` | `OneInstance` | |
| `ListingsResolve` | `ListedExists` | |
| `AllFilesReachable` | `FilesReachable` | |
| `ReadsFindFile` | `ReadFindsFile` | |
| `MapsNeverChange` | `MapsFrozen` | |
| `LegacyThrottled` | `LimitFollowsReads` | |
| `LegacyTypeCorrect` | `LegacyRead`'s `TypeOK` | |
| `LegacyStaysRaised` | `RangeRaised` | |
| `LegacyOneBuffer` | `OneBuffer` | |
| `LegacyNoAnswerLost` | `LegacyRead`'s `AnswerOnItsWay` | |
| `LegacyAnswersRefine` | `LegacyRead`'s `AnswersAsPosix` | `~DiskErrors` and `FilesFit`: no file reaches half of `IntRange` |
| `BtTypeCorrect` | `BtClient`'s `TypeOK` | |
| `NoBlockOverrun` | `BlockInBounds` | |
| `RequestsServable` | `RequestsInPiece` | |
| `FileWrittenInOrder` | `FileInOrder` | |
| `MetainfoTypes` | `BtMetainfo`'s `TypeOK` | |
| `ReaderInSync` | `InSync` | |
| `LengthSuffices` | `CarryCovers` | |
| `MetainfoRight` | `ParsedRight` | |
| `HashOfInfo` | `InfoHashed` | |
| `FilesAccepted` | `Accepted` | |
| `ParsingAdvances` | `EntriesAdvance` | |
| `PeersTypeCorrect` | `BtPeers`'s `TypeOK` | |
| `PeersInOrder` | `PeersListed` | |
| `FirstPeerReached` | `ConnectsToFirst` | |
| `ValidatesWritten` | `bencode_validate` accepts a buffer that holds a value (no temporal formula) | |

The inductive invariant of `FsRead` (`IInv`) was checked with TLC before it was
proved. It has these parts, and the proofs take only those they need.

- `RequestInv`: a read under way is inside the file as `get_file_size` sees it.
  From it `IntConversion` shows that the offset of such a read survives its
  conversion to `int`, whatever the true file size: sizes that wrap make reads
  short, never wrong.
- `LoopInv`: bytes done and bytes to do make up the request. With
  `LayoutAssumption` it puts `curr_offset` inside the file, hence (`MapFile`) the
  piece among the pieces and `read_size` above 0, so that the types are kept.
- `WrittenInv`: the second loop has written what it has passed; this and
  `LoopInv` bound both `memcpy`s and give the length that is returned.
- `WantInv`: what the first loop has passed is there or wanted. It is stable
  because (`WantedStable`) no step after the mount sets a priority to 0: other
  reads can lower a piece to 1 but not below.
- `BufferInv`: disk reads are only asked for pieces that are there, so whole
  pieces travel from the disk through the queue and the popped alerts to the map.
- `BytesInv`: each byte written so far is right. It needs all of the above: the
  copy takes bytes from the buffer of the piece of `curr_offset`, which must be
  whole, at the place `map_file` gives.
- `LockDiscipline` and `PoppedAlertsOwned` are inductive together.
- `CountInv`: disk reads of a piece that are under way, answered, popped or
  `malloc`ed are no more than one for each thread that has not the piece on its
  list while libtorrent has it (`Prefetched`: a thread asks when it takes the
  piece off its list, and a piece that is there never gets on a list again), and
  one more once the second loop has asked for
  it, which it does only under the mutex and only while the map has no buffer.
  `ReadAssumption` says that the threads are finitely many, as there would be no
  bound otherwise.
- `AnswerOnItsWay` says what the loop that polls for a buffer relies on: a disk
  read of the piece is under way (asked for, answered, or popped), or the buffer
  is there. A read begins to poll when it has asked; from then on
  (`UnderwayKept`) no step of anybody ends what is under way without putting a
  buffer into the map. The one step that could is a pop, which overwrites what
  was popped before: `PoppedAlertsOwned` has it empty by then. Alerts of failed
  disk reads count, as they fill the map too. The queue of the model has no
  limit, so that nothing in it is ever dropped (see section 6).

That of `FsMount` has `BootInv` (one thread at work until INIT is answered, then
one object and `init_bitfs` over, from which `SingleInstance`), `TreeInv` (every
directory has a list, so that `operator[]` in `readdir` inserts nothing; only
files of an added torrent are seen, opened and read), `ListedExists` itself and
`ReachInv` (the files done so far can be reached).

That of `LegacyRead` begins with control (`ControlInv`): before the mount is
ready the torrent is paused and nobody reads, exactly the holder of `fsmtx` is
in the critical part, and the limit is a function of where the holder is. The
rest is like `FsRead`'s and simpler, since only the holder has a range:
`RequestInv` and `LoopInv`; `RaisedInv`, which is stable because no step lowers a
priority; and `CountInv`, by which a piece has one disk read if its buffer is in
the map or the holder waits for it, and none otherwise. This is where the two
versions differ: FS.cpp prefetches before it looks into the map. `PoppedInv`
stands for `PoppedAlertsOwned`, and `AnswerOnItsWay` follows as above. `WrittenInv`,
`BufferInv` and `BytesInv` are as in `FsRead`; the last two hold without disk
errors only, since this model keeps no history of them.

The refinement. `ReadOnlyFile` sees of a thread whether it is idle, in a read or
done, its request, and what it returned. `AnswersRefine` shows each step of
`FsRead` to be one of it, or to leave that alone: `ReadStart` asks, or answers at
once when the read begins at the end of the file or beyond it, the step that
unlocks the mutex answers, and all others stutter (`ReaderFrame`, `StartFrame`: a
step changes the locals of its own thread only). That the answer is the right one
needs no look at the step: `RightAnswers`, which `FullRead` and `ReadsMatchFile`
give in every state and hence in the next one, is the value of `result` there.
Both hypotheses are needed, as the runs of findings 1 and 2 show. The
proof for `LegacyRead` is the same with `WrittenInv` and `BytesInv` in place of those
two; its requests fit an `int` by `LegacyAssumption`, its files by `FilesFit`.

That of `BtClient` has `StartInv`; `PieceInv` (what `get_piece` has and what it
wants make up the piece, from which the requests stay inside); `CountInv` (the
counts of `get_block` are right, or a failed read has spoilt them and the
connection is at its end, so that no byte can be written by them: this is why
adding up -1 does no harm); `OrderInv` (what is in the file precedes what is in
`piece_buf`, which precedes what will be read) and `LengthInv`. `BlockInBounds`
and `FileInOrder` follow, while neither is inductive by itself.

The reader. `BencodeProofs` is about one value x written anywhere in the buffer,
with a length that covers it: then `ItemRead` gives its kind and, for a string
or an integer, its value, `ItemSkipped` ends right behind it, and `ItemValid`
finds it valid. The difficulty is that a dictionary is skipped by a loop whose
turns skip values, which may be dictionaries. The induction is on how much of the
text is left and not on the depth of x: `Reads(Loops[m], m)` says that the loops,
begun between any two entries, get to the end of a dictionary or list of which at
most m characters are left. A turn with `Loops[m]` then skips any value of at
most m characters (`ItemSkipped`), and has moved on by one at least
(`Advance`), so that `Reads(Loops[m + 1], m + 1)` follows (`LoopsRead`).
`ValidRead` is the same for `Valid`. `Reader` and `Place` say where the reader is
between two entries; the two special cases, before the first entry (on the "d"
or "l") and at an empty list or dictionary, come from there into `DictHasNext`
and `ListHasNext`.

The induction theorems of the proof system's library take an operator, which its
provers cannot do anything with. Therefore induction here is over a set: one that
has 0, and with a number the next, is `Nat` (`NatSets`, from the
well-foundedness of `<`). In the same way `LoopsEquation`, `ValidEquation`,
`CutFacts`, `NumberOfFacts` and `EncodeEquation` show that the functions defined
by recursion are what their definitions say, that for `Encode` by recursion on
`Depth`. `PrefixFacts` does it for the concatenation of a sequence of sequences,
and `DecimalRead` shows that a number is read as it was written.

That of `BtMetainfo` (`IInv`) says of each part of the state how much of the torrent
file is in it: `Buffered` (the text is a beginning of the file, and all of it
when parsing begins) and `Progress`, which ties the stack to `metainfo`. In it n1 entries of the torrent file have been taken and n2 of its info
dictionary; the readers on the stack stand right behind these (`Reading`), and
`metainfo` is what these entries and no others say (`Fields`), with the hash if
the info dictionary is among them and `num_pieces` once it is over. One entry
more changes one field (`FieldsOuter`, `FieldsInfo`, `FieldsInner`). `InSync` alone
is not inductive: that the next entry is read right needs the length (`CarryCovers`)
and the buffer, and `ParsedRight`, which speaks of the end only, needs `Progress`
on the way. TLC finds `IInv` true on the torrent files of MCBtMetainfo as well; it is
slow to evaluate, and no run has it.

That of `BtPeers` (`PeersInv`): without recognised newlines the list is empty; with
them (`ListInv`) it has the lines before the one being read, and `buf` what was
read of this one, so that at a newline, and at no other byte, it has all of it
(`WholeLine`). `ConnectsToFirst` is inductive with it, as a file whose lines fit
overruns nothing (`NoOverrun`) and `strtok` and `atoi` find in a url what the line
has before and behind its colon (`PeerTokens`), and what lies behind the url, as
far as it is a number (`AtoiOfNumber`).

Only model-checked: liveness (`ReadReturns`) and with it the fairness part of
`ImplementsPosixRead`, which the prover cannot treat. What can be
proved of why reads return is proved: a read waits only for a piece that is wanted
(`WaitedForIsWanted`, `LegacyStaysRaised`, with the limit up by `LegacyThrottled`),
polls only for an answer that will come (`NoAnswerLost`, `LegacyNoAnswerLost`), and
only the holder of the mutex keeps others waiting (`MutualExclusion`). Every
invariant and every action property of a passing run is proved.

## 5. Findings

1. Files of 2 GiB or more (FS.cpp:107-111, 153-156): the size wraps, reads come
   back short or empty. `read_large_file`.
2. Errors of a disk read are not looked at (FS.cpp:121-126): an empty buffer gets
   into the map and is served from then on. `read_disk_error`.
3. bt_lib.c:353: the unchoke message is never read, and one `read` is taken for
   the whole handshake and the whole bitfield, so that the block read after a
   request need not be its answer and the file is shifted. `bt_response`.
4. bt_client.c:53: requests are sent without waiting for the unchoke; the peer
   drops them and the client waits for ever. `bt_choked`.

Without a run of their own, as a passing run has them, one line decides them or
nothing written in the repository says otherwise:

- bt_lib.c:119-122: `ch` is an `int` without an initial value, of which `read` sets
  one byte. Unless the others happen to be 0 no line of the list of peers is
  recognised, and `main` uses an entry nobody assigned. `bt_peers` has both cases,
  and `PeersListed` says what comes of either.
- bt_lib.c:132-134: the url of a peer is copied without its terminator, so that a
  digit behind it in memory becomes part of the port. `bt_peers` has such memory,
  and `ConnectsToFirst` says so.
- FS.cpp:191-195: the comment says "set highest priority for this piece", but a
  missing piece loses it again when the next one is missing too, unless it is piece
  0, which line 194 leaves out. `NoOrphanWait` says that it stays wanted.
- The comment of FS.cpp:373 says "set piece_priority to zero for all piece", and
  the loop below it starts at 10.
- bitFS.cpp:170 gives every file the size of the whole torrent.
- bencode.c:20-22: the length that an inner item carries is too long when the
  outer one was already read in part, as it is counted from where the outer one
  is now but used from its beginning. `CarryCovers` says it is never too short.
- bencode.c:442-445: of an empty dictionary, "Length of the dictionary"
  (bencode.h:131) comes out one byte short, since the walk stays at its "d".
- bt_lib.c:53: `strncpy` copies the hashes of the pieces up to a zero byte only.
- bt_lib.c:45-48: lengths are narrowed to `int`.
- bt_lib.c:23-25: `announce` is allocated without room for its terminator, which is
  written one byte behind the block; bt_lib.c:53-54, 59-60: `pieces` and `name` get
  none, and bt_client.c:16 prints `name` with `%s`.
- bt_lib.c:115-134: neither `buf` nor a url is protected from lines that are longer
  (`Fits` names the files for which that does not matter); a last line without a
  newline is dropped; with an empty list `main` uses `infoarr[0]`, which nobody has
  assigned.
- seeder.cpp:1-4 speaks of a program that "seeds to any client", while its save
  path is a new empty directory: it has nothing to seed until others send it.

## 6. Not modelled, and the plan

Left out for good: console output, the formatting functions of FS.cpp (404-462,
never called) and of seeder.cpp, `struct stat` fields other than kind and size,
settings of the session, the stack space of `temp_buf`, the statistics of
bitFS.cpp, the setters and getters of the metadata holders, which only hold
fields that `FsRead` and `FsMount` have as variables. Peers, trackers and hash
checks are libtorrent's and appear only as `Download`.

- The look-ups and the tree of bitFS.cpp are those of FS.cpp but for the size
  above; `FsMount` models them once.
- Of btclient, `peerlisten`: nobody starts it, and its loop over what it receives
  runs while a count is negative that is 1 at first, hence never.
- The seeder: one thread, two error exits, then a loop that prints. What could go
  wrong in it goes wrong inside libtorrent.
- Loops over malformed text in `Bencode`: torrent files are taken to be bencoded.

What could be added: a bounded alert queue in `FsRead`. libtorrent drops alerts at
its limit (1000), and a read whose answer was dropped would poll for ever.
`BoundedLeak` bounds the answers that wait; the alerts of downloads come on top of
them.
