----------------------------- MODULE MCFsMount ------------------------------
(***************************************************************************)
(* Instances of FsMount for TLC: a torrent of one file, and one of three   *)
(* files in nested directories that share a part of their path.            *)
(***************************************************************************)
EXTENDS FsMount

SingleFile == << <<"f">> >>
Nested     == << <<"t", "a">>, <<"t", "d", "b">>, <<"t", "d", "c">> >>

MCNames == {"f", "t", "a", "d", "b", "c"}

MCTorrents == {SingleFile, Nested}

(* All files and directories of both torrents, each absent from the other. *)
MCPaths == {Root} \cup UNION {UNION {Dirs(tor[i]) \cup {tor[i]} : i \in 1 .. Len(tor)} :
                              tor \in MCTorrents}
=============================================================================
