----------------------------- MODULE BtMetainfo -----------------------------
(***************************************************************************)
(* How btclient reads the torrent file: parse_metainfo_file of bt_lib.c.   *)
(* main goes on with get_peer_list (BtPeers).                              *)
(*                                                                         *)
(* A torrent file is given by the dictionary it encodes, so that what was  *)
(* parsed can be compared with it.  The names of the keys are one letter.  *)
(***************************************************************************)
EXTENDS Bencode

CONSTANTS
  Torrents,   \* dictionaries
  ReadSize,   \* of one read of the torrent file: 1024
  IntRange    \* number of values of int

ASSUME MetainfoAssumption ==
  /\ ReadSize \in Nat \ {0}
  /\ IntRange \in Nat \ {0} /\ IntRange % 2 = 0

(* In a torrent file the keys the client knows stand where they belong,    *)
(* once and before a value of their kind; there may be any others.         *)
DistinctKeys(s) == \A i, j \in DOMAIN s : s[i].key = s[j].key => i = j

IsInfo(x) ==
  /\ IsDict(x) /\ DistinctKeys(x.dict)
  /\ \A e \in Range(x.dict) :
       /\ e.key \notin {"announce", "info"}
       /\ e.key \in {"pieces", "name"} => IsStr(e.val)
       /\ e.key \in {"piece length", "length"} => IsInt(e.val)
  /\ \E e \in Range(x.dict) :
       e.key = "piece length" /\ e.val.int \in 1 .. IntRange \div 2 - 1

ASSUME TorrentAssumption ==
  /\ Torrents \subseteq Value
  /\ \A x \in Torrents :
       /\ IsDict(x) /\ DistinctKeys(x.dict)
       /\ \A e \in Range(x.dict) :
            /\ e.key \notin {"pieces", "name", "piece length", "length"}
            /\ e.key = "announce" => IsStr(e.val)
            /\ e.key = "info" => IsInfo(e.val)
       /\ \E e \in Range(x.dict) : e.key = "info"

ToIntUnsigned(x) == x % IntRange  \* mutant
ToInt(x) == ((x + IntRange \div 2) % IntRange) - IntRange \div 2

-----------------------------------------------------------------------------
VARIABLES
  torrent, file,  \* the torrent file and its bytes
  pc,
  stack,          \* the dictionaries that are being read, the outermost first
  metainfo

vars == <<text, torrent, file, pc, stack, metainfo>>

\* never assigned since malloc
JunkStr == <<"junk">>
JunkInt == -1

Init ==
  /\ torrent \in Torrents
  /\ file = Encode[torrent]
  /\ text = << >>
  /\ pc = "open"
  /\ stack = << >>
  /\ metainfo = [announce |-> JunkStr, hashed |-> JunkStr, pieces |-> JunkStr, name |-> JunkStr,
                 piece_length |-> JunkInt, length |-> JunkInt, num_pieces |-> JunkInt]

-----------------------------------------------------------------------------
(* parse_metainfo_file: the file is read into the buffer, *)

Open ==
  /\ pc = "open"
  /\ pc' \in {"read", "exited"}
  /\ UNCHANGED <<text, torrent, file, stack, metainfo>>

Read ==
  /\ pc = "read"
  /\ \E n \in 1 .. ReadSize :
       /\ Len(text) + n <= Len(file)
       /\ text' = text \o SubSeq(file, Len(text) + 1, Len(text) + n)
  /\ UNCHANGED <<torrent, file, pc, stack, metainfo>>

ReadEnd ==
  /\ pc = "read"
  /\ Len(text) = Len(file)
  /\ stack' = << bencode_init(1, Len(text)) >>
  /\ pc' = "parse"
  /\ UNCHANGED <<text, torrent, file, metainfo>>

(* and then each entry of the dictionary goes to parse_metainfo. *)

(* A field of metainfo is the block of len bytes that was malloc'ed for    *)
(* it.  The code ends none of them inside the block: the zero of announce  *)
(* is written one past it, pieces and name get none.  What lies behind a   *)
(* block is not in the model.                                              *)
strncpy(s) ==  \* zeros from the first zero on
  [i \in 1 .. s.len |->
     IF \E j \in 1 .. i : CharAt(s.str + j - 1) = Zero THEN Zero ELSE CharAt(s.str + i - 1)]

(* Every key that has a plain value. *)
parse_metainfo(key, value) ==
  CASE key = "announce" -> [metainfo EXCEPT !.announce = strncpy(string_value(value))]
    [] key = "pieces"   -> [metainfo EXCEPT !.pieces = strncpy(string_value(value))]
    [] key = "name"     -> [metainfo EXCEPT !.name = strncpy(string_value(value))]
    [] key = "piece length" ->
         [metainfo EXCEPT !.piece_length = ToInt(int_value(value).val)]
    [] key = "length"   -> [metainfo EXCEPT !.length = ToInt(int_value(value).val)]
    [] OTHER            -> metainfo

Top == stack[Len(stack)]

ParseEntryOfClone ==  \* mutant: the position is kept in a copy
  /\ pc = "parse"
  /\ dict_has_next(Top)
  /\ LET r == dict_get_next(AllLoops, Top) IN
       /\ text[r.key.str] # "info"
       /\ metainfo' = parse_metainfo(text[r.key.str], r.item)
  /\ UNCHANGED <<text, torrent, file, pc, stack>>

ParseEntry ==
  /\ pc = "parse"
  /\ dict_has_next(Top)
  /\ LET r   == dict_get_next(AllLoops, Top)
         key == text[r.key.str]
     IN  /\ key # "info"
         /\ stack' = [stack EXCEPT ![Len(stack)] = r.be]
         /\ metainfo' = parse_metainfo(key, r.item)
  /\ UNCHANGED <<text, torrent, file, pc>>

ParseInfo ==
  /\ pc = "parse"
  /\ dict_has_next(Top)
  /\ LET r    == dict_get_next(AllLoops, Top)
         span == dict_get_start_and_len(r.item)
     IN  /\ text[r.key.str] = "info"
         /\ stack' = Append([stack EXCEPT ![Len(stack)] = r.be], r.item)
         /\ metainfo' = [metainfo EXCEPT
                           !.hashed = SubSeq(text, span.start, span.start + span.len - 1)]
  /\ UNCHANGED <<text, torrent, file, pc>>

InfoEndRoundsDown ==  \* mutant: floor instead of ceil
  /\ pc = "parse"
  /\ Len(stack) > 1
  /\ ~dict_has_next(Top)
  /\ stack' = Front(stack)
  /\ metainfo' = [metainfo EXCEPT !.num_pieces = metainfo.length \div metainfo.piece_length]
  /\ UNCHANGED <<text, torrent, file, pc>>

InfoEnd ==
  /\ pc = "parse"
  /\ Len(stack) > 1
  /\ ~dict_has_next(Top)
  /\ stack' = Front(stack)
  /\ metainfo' = [metainfo EXCEPT
                    !.num_pieces = -((-metainfo.length) \div metainfo.piece_length)]
  /\ UNCHANGED <<text, torrent, file, pc>>

ParseEnd ==
  /\ pc = "parse"
  /\ Len(stack) = 1
  /\ ~dict_has_next(Top)
  /\ stack' = << >>
  /\ pc' = "parsed"
  /\ UNCHANGED <<text, torrent, file, metainfo>>

-----------------------------------------------------------------------------
Terminated ==  \* main goes on, or exit was called
  /\ pc \in {"exited", "parsed"}
  /\ UNCHANGED vars

Next ==
  \/ Open \/ Read \/ ReadEnd
  \/ ParseEntry \/ ParseInfo \/ InfoEnd \/ ParseEnd
  \/ Terminated

Spec == Init /\ [][Next]_vars

-----------------------------------------------------------------------------
TypeOK ==
  /\ pc \in {"open", "read", "exited", "parse", "parsed"}
  /\ \A k \in DOMAIN stack :
       stack[k].str \in 1 .. Len(text) + 1 /\ stack[k].start \in 1 .. Len(text)
  /\ {metainfo.piece_length, metainfo.length, metainfo.num_pieces} \subseteq
       -(IntRange \div 2) .. IntRange \div 2 - 1

(* What the file says. *)
RefInt(x, k) == Lookup(x, k, Int64(JunkInt)).int
RefStr(x, k) == Lookup(x, k, Str(JunkStr)).str
Info(x)      == Lookup(x, "info", Dict(<< >>))
Fits(n)      == n = ToInt(n)

Parsing(k) == IF k = 1 THEN torrent ELSE Info(torrent)

(* Each dictionary is read entry by entry: whatever the values are, and    *)
(* whatever is nested in them, the reader is between two entries           *)
(* (bencode.c:113-175).                                                    *)
InSync ==
  \A k \in DOMAIN stack :
    LET be == stack[k] IN
    be.str # be.start =>
      \E n \in 0 .. Len(Parsing(k).dict) :
        be.str = be.start + 1 + Len(EncodeEntries(SubSeq(Parsing(k).dict, 1, n)))

(* The length that is carried over (bencode.c:22-29) is never less than    *)
(* what the dictionary takes, so that nothing of it is given up as being   *)
(* outside of the buffer.                                                  *)
CarryCovers ==
  \A k \in DOMAIN stack : stack[k].len >= Len(Encode[Parsing(k)])

(* What was parsed is what the file says, in whatever order its entries    *)
(* come and whatever lies between them; num_pieces, which needs two of     *)
(* them, is set after both (bt_lib.c:23-67).  The exceptions are integers  *)
(* that do not fit an int and strings with a zero byte, where strncpy stops. *)
ParsedRight ==
  pc = "parsed" =>
    LET info   == Info(torrent)
        length == RefInt(info, "length")
        Copied(field, s) == Zero \notin Range(s) => field = s
    IN
    /\ Copied(metainfo.announce, RefStr(torrent, "announce"))
    /\ Copied(metainfo.name, RefStr(info, "name"))
    /\ Copied(metainfo.pieces, RefStr(info, "pieces"))
    /\ metainfo.piece_length = RefInt(info, "piece length")
    /\ Fits(length) =>
         /\ metainfo.length = length
         /\ metainfo.num_pieces * metainfo.piece_length \in
              length .. length + metainfo.piece_length - 1

(* The infohash is of exactly the info dictionary as it is in the file     *)
(* (bt_lib.c:34-38): with one byte more or less no peer knows the torrent. *)
InfoHashed ==
  pc = "parsed" =>
    metainfo.hashed = Encode[Info(torrent)]

(* bencode_validate accepts what is well formed (bencode.c:493-500).       *)
Accepted ==
  pc = "parsed" => bencode_validate

(* Every turn of a loop over a dictionary gets further in it or leaves it   *)
(* (bt_lib.c:39-48, 94-104), so that parsing ends.                         *)
EntriesAdvance ==
  [][pc = "parse" /\ pc' = "parse" /\ Len(stack) <= Len(stack') =>
       Top.str < stack'[Len(stack)].str]_vars
=============================================================================
