---------------------------- MODULE TorrentLayout ----------------------------
(***************************************************************************)
(* How the bytes of a torrent are cut into files and into pieces, the      *)
(* arithmetic FS.cpp does on it, and how libtorrent answers disk reads.    *)
(*                                                                         *)
(* A torrent is one run of TotalSize bytes.  The files lie in it one after *)
(* the other, file f at FileOffset[f]; pieces of PieceLength bytes cut the *)
(* same run without regard to the files, so a file may begin and end in    *)
(* the middle of a piece and one piece may hold the ends of several files. *)
(* A byte is identified by its position in the torrent.                    *)
(***************************************************************************)
EXTENDS Integers, Sequences, FiniteSets

CONSTANTS
  PieceLength,   \* ti->piece_length()
  NumFiles,      \* ti->num_files()
  FileSize,      \* file_storage::file_size(i), the 64-bit size of file i
  FileOffset,    \* where file i begins in the torrent
  TotalSize,     \* ti->total_size()
  IntRange       \* number of values of the C++ type int: 2^32 in the build

Files == 0 .. NumFiles - 1

(***************************************************************************)
(* The last conjunct is all that is needed of "one after the other": no    *)
(* file reaches past the end of the torrent.                               *)
(***************************************************************************)
ASSUME LayoutAssumption ==
  /\ PieceLength \in Nat \ {0}
  /\ NumFiles \in Nat
  /\ FileSize \in [Files -> Nat]
  /\ FileOffset \in [Files -> Nat]
  /\ TotalSize \in Nat
  /\ \A f \in Files : FileOffset[f] + FileSize[f] <= TotalSize

(* The range of int is even, and negative numbers are half of it. *)
ASSUME IntAssumption == IntRange \in Nat \ {0} /\ IntRange % 2 = 0

MinOf(a, b) == IF a <= b THEN a ELSE b

(* Conversion of a wider integer to int: two's complement wrap-around. *)
ToInt(x) == ((x + IntRange \div 2) % IntRange) - IntRange \div 2

-----------------------------------------------------------------------------
(* libtorrent's view of the layout. *)

num_pieces == (TotalSize + PieceLength - 1) \div PieceLength

Pieces == 0 .. num_pieces - 1

(* Every piece is PieceLength long but the last one, which gets the rest. *)
piece_size(p) ==
  IF p = num_pieces - 1 THEN TotalSize - p * PieceLength ELSE PieceLength

(* The piece that holds byte `off' of file f, and where in that piece. *)
map_file(f, off) ==
  [piece |-> (FileOffset[f] + off) \div PieceLength,
   start |-> (FileOffset[f] + off) % PieceLength]

(***************************************************************************)
(* A read_piece_alert says how many bytes it carries: all of the piece, or *)
(* none when the disk read failed.  Downloads leave alerts too, which      *)
(* progress_notification asks for and nobody wants.                        *)
(***************************************************************************)
Alert == [type : {"read_piece", "piece_finished"}, piece : Pieces, size : Nat]

(* How many of the alerts in s answer a read_piece of p. *)
Answers(s, p) == Cardinality({n \in 1 .. Len(s) : s[n].type = "read_piece" /\ s[n].piece = p})

-----------------------------------------------------------------------------
(* What a file system keeps of them. *)

NoBuffer == -1  \* the piece has no key in piece_buffer_map
NoByte   == -1  \* a byte that was never written, or is not of the torrent

IdleRequest == [file |-> 0, offset |-> 0, size |-> 0]

(* FS::get_file_size returns libtorrent's 64-bit size as an int. *)
get_file_size(f) == ToInt(FileSize[f])

=============================================================================
