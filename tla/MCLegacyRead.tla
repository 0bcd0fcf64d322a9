---------------------------- MODULE MCLegacyRead ----------------------------
(***************************************************************************)
(* Instances of LegacyRead for TLC: files of 3 and 4 bytes over pieces of  *)
(* 2.  They meet in piece 1, and piece 3 is short.                         *)
(***************************************************************************)
EXTENDS LegacyRead, TLC

MCFileSize   == (0 :> 3) @@ (1 :> 4)
MCFileOffset == (0 :> 0) @@ (1 :> 3)

Read(f, o, n) == [file |-> f, offset |-> o, size |-> n]

(* Three pieces, up to the short one; a seam; cut off by the end of file;  *)
(* nothing; at the end.                                                    *)
MCRequests == {Read(1, 0, 4), Read(0, 1, 4), Read(1, 3, 0), Read(0, 3, 1)}
=============================================================================
