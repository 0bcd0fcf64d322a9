---------------------------- MODULE MCBtMetainfo ----------------------------
(* Torrent files with one entry the client does not know, which holds any  *)
(* value of a small depth, at any place among the others.                  *)
EXTENDS BtMetainfo

Plain  == {Str(<< >>), Str(<<"e">>), Str(<<"d", "e">>), Int64(0), Int64(-10)}
Nested ==
  {List(<< >>), Dict(<< >>)}
    \cup {List(<<x>>) : x \in Plain} \cup {List(<<x, Str(<<"l">>)>>) : x \in Plain}
    \cup {Dict(<<Entry("i", x)>>) : x \in Plain}
    \cup {Dict(<<Entry("e", x), Entry("d", Int64(7))>>) : x \in Plain}
Deep ==
  {List(<<x>>) : x \in Nested} \cup {List(<<Int64(1), x, Str(<<"1", ":">>)>>) : x \in Nested}
    \cup {Dict(<<Entry("d", x)>>) : x \in Nested}
    \cup {Dict(<<Entry("l", x), Entry("e", x)>>) : x \in Nested}

Url == <<"h", "t", "t", "p", ":", "/", "/", "a", ".", "b", "/">>

Known(length, pieces) ==
  << Entry("length", Int64(length)), Entry("name", Str(<<"e", "d">>)),
     Entry("piece length", Int64(4)), Entry("pieces", Str(pieces)) >>

Rotate(s, n) == SubSeq(s, n + 1, Len(s)) \o SubSeq(s, 1, n)

Torrent(top, info) ==
  Dict(<< Entry("announce", Str(Url)) >> \o top \o << Entry("info", Dict(info)) >>)

Unknown(x) == << Entry("other", x) >>

MCTorrents ==
  LET info == Known(10, <<"e", Zero, "x">>) IN
  {Dict(<< Entry("info", Dict(info)) >>)}
    \cup {Torrent(Unknown(x), info) : x \in Deep \cup Nested}
    \cup {Dict(Rotate(Torrent(Unknown(x), info).dict, n)) : x \in Nested, n \in 1 .. 2}
    \cup {Torrent(<< >>, Rotate(info \o Unknown(x), n)) : x \in Nested \cup Plain, n \in 0 .. 4}
    \cup {Torrent(<< >>, Rotate(Known(n, <<"1", "x">>), k)) : n \in {7, 8, 40}, k \in 0 .. 3}
    \cup {Torrent(<< >>, Tail(info) \o Unknown(List(<<x>>))) : x \in Nested}

RECURSIVE Parts(_), Nesting(_)

Parts(x) ==
  {x} \cup UNION {Parts(y) : y \in IF IsList(x) THEN Range(x.list)
                                  ELSE IF IsDict(x) THEN {e.val : e \in Range(x.dict)} ELSE {}}

Nesting(x) == 1 + Max({0} \cup {Nesting(y) : y \in Parts(x) \ {x}})

MCValue == UNION {Parts(x) : x \in MCTorrents}
MCDepth == [x \in MCValue |-> Nesting(x)]

MCChar ==
  Range(Digits) \cup {":", "-", "i", "l", "d", "e", "h", "t", "p", "/", "a", ".", "b", "x", Zero}
    \cup {"announce", "info", "length", "name", "piece length", "pieces", "other"}
=============================================================================
