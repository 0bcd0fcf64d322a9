------------------------------ MODULE MCFsRead ------------------------------
(***************************************************************************)
(* Instances of FsRead for TLC.  The torrent has two files of 3 and 4      *)
(* bytes and pieces of 2: the files share piece 1, and the last piece is   *)
(* short.                                                                  *)
(*                                                                         *)
(*      file 0         file 1                                              *)
(*   | 0  1  2 | 3  4  5  6 |                                              *)
(*   | piece 0 | piece 1 | piece 2 | piece 3                               *)
(***************************************************************************)
EXTENDS FsRead, TLC

MCFileSize   == (0 :> 3) @@ (1 :> 4)
MCFileOffset == (0 :> 0) @@ (1 :> 3)

Read(f, o, n) == [file |-> f, offset |-> o, size |-> n]

(* Whole files, the seam between them, a range cut off by the end of the   *)
(* file, the end of the file and an empty read.                            *)
SeqRequests ==
  {Read(0, 0, 3), Read(0, 1, 4), Read(0, 2, 1), Read(0, 3, 2), Read(0, 0, 0),
   Read(1, 0, 4), Read(1, 1, 5), Read(1, 3, 1), Read(1, 4, 1)}

(* A smaller torrent for reads that run side by side: files of 3 and 2     *)
(* bytes, three pieces, the two files meeting in piece 1.                  *)
PairFileSize   == (0 :> 3) @@ (1 :> 2)
PairFileOffset == (0 :> 0) @@ (1 :> 3)
PairRequests   == {Read(0, 1, 2), Read(1, 1, 2)}

(* Pieces 1 and 2, and piece 1 only: reading piece 2 lowers piece 1. *)
LiveRequests == {Read(1, 0, 2), Read(0, 2, 1)}

(* One file of 5 bytes, which an int of 8 values cannot count. *)
IntFileSize   == 0 :> 5
IntFileOffset == 0 :> 0
IntRequests   == {Read(0, 0, 2), Read(0, 2, 3)}

Symmetry == Permutations(Readers)
=============================================================================
