------------------------------- MODULE Bencode -------------------------------
(***************************************************************************)
(* bencode.c: a reader of bencoded text that keeps nothing but positions   *)
(* in the buffer.                                                          *)
(*                                                                         *)
(* The functions are operators; a function that also changes the object it *)
(* is given returns the changed object in the field be.  An assertion of   *)
(* the code is a CASE without an alternative, and a read outside of the    *)
(* buffer has no value: TLC stops with an error at either.                 *)
(*                                                                         *)
(* The functions call each other, down into nested items and on to the end *)
(* of a dictionary or list.  Loops[n] is what the loops return that take   *)
(* no more than n turns, those over nested items included; the functions   *)
(* that the loops are made of get it as their first argument.  A turn      *)
(* reads at least one character, so that Loops[Len(text)] is enough.       *)
(***************************************************************************)
EXTENDS Bencoding

VARIABLE text   \* what the buffer holds, one character per element

NULL == 0       \* positions count from 1

Zero == "zero"  \* the character '\0', which also follows the text

CharAt(p) == IF p = Len(text) + 1 THEN Zero ELSE text[p]

-----------------------------------------------------------------------------
(* Numbers. *)

isdigit(c) == c \in Range(Digits)

(* Where the digits that begin at p end, and the number they write. *)
DigitsEnd(p) ==
  CHOOSE q \in p .. Len(text) + 1 :
    ~isdigit(CharAt(q)) /\ \A r \in p .. q - 1 : isdigit(CharAt(r))

DigitValue(c) == CHOOSE d \in 0 .. 9 : isdigit(c) => Digits[d + 1] = c

(* What the k digits from p on write. *)
NumberOf[k \in Nat] ==
  [p \in Nat |-> IF k = 0 THEN 0
                 ELSE 10 * NumberOf[k - 1][p] + DigitValue(CharAt(p + k - 1))]

Number(p) == NumberOf[DigitsEnd(p) - p][p]

read_string_int(p) ==
  LET q == IF CharAt(p) = "-" THEN p + 1 ELSE p
  IN  [ok  |-> isdigit(CharAt(q)), end |-> DigitsEnd(q),
       val |-> IF CharAt(p) = "-" THEN -Number(q) ELSE Number(q)]

read_string_len(p) ==
  IF ~isdigit(CharAt(p))
    THEN [str |-> NULL, len |-> 0]
    ELSE CASE CharAt(DigitsEnd(p)) = ":" -> [str |-> DigitsEnd(p) + 1, len |-> Number(p)]

-----------------------------------------------------------------------------
(* Objects: where one begins, how far it was read, and how many bytes the  *)
(* buffer is thought to have from its beginning.                           *)

Object == [str : Nat, start : Nat, len : Int]

bencode_init(str, len) == [str |-> str, start |-> str, len |-> len]

carry_lengthTwice(be, pos) ==  \* mutant: the distance is taken off twice
  CASE 0 < be.len -> be.len - 2 * (pos - be.str)
carry_length(be, pos) == CASE 0 < be.len -> be.len - (pos - be.str)

is_dict(be)   == be.str # NULL /\ CharAt(be.str) = "d"
is_int(be)    == be.str # NULL /\ CharAt(be.str) = "i"
is_list(be)   == be.str # NULL /\ CharAt(be.str) = "l"
is_string(be) ==
  CASE be.str # NULL -> isdigit(CharAt(be.str)) /\ CharAt(DigitsEnd(be.str)) = ":"

int_value(be) ==
  LET r == read_string_int(be.str + 1)
  IN  IF ~r.ok THEN r ELSE CASE CharAt(r.end) = "e" -> r

string_value(be) ==
  CASE is_string(be) /\ 0 < be.len ->
    LET r == read_string_len(be.str)
    IN  IF r.str + r.len > be.start + be.len THEN [r EXCEPT !.str = NULL] ELSE r

-----------------------------------------------------------------------------
(* Dictionaries and lists. *)

dict_has_next(be) ==
  /\ be.str # NULL
  /\ CharAt(be.str) \notin {"e", Zero, "\r"}
  /\ ~(CharAt(be.str) = "d" /\ CharAt(be.str + 1) = "e")
  /\ be.str < be.start + be.len - 1

list_has_nextEmpty(be) ==  \* mutant: an empty list is not stepped into
  [more |-> ~(CharAt(be.str) = "l" /\ be.str = be.start /\ CharAt(be.str + 1) = "e")
            /\ CharAt(be.str) # "e",
   be   |-> be]
(* An empty list is stepped into. *)
list_has_next(be) ==
  LET empty == CharAt(be.str) = "l" /\ be.str = be.start /\ CharAt(be.str + 1) = "e"
  IN  [more |-> ~empty /\ CharAt(be.str) # "e",
       be   |-> IF empty THEN [be EXCEPT !.str = @ + 1] ELSE be]

(* Where the next item begins, when the loop has stopped at p or the value was r. *)
AfterDict(p) ==
  IF p = NULL THEN NULL
  ELSE IF CharAt(p) = "d" /\ CharAt(p + 1) = "e" THEN p + 2 ELSE p + 1
AfterList(p)   == IF p = NULL THEN NULL ELSE p + 1
AfterString(r) == IF r.str = NULL THEN NULL ELSE r.str + r.len
AfterInt(r)    == IF r.ok THEN r.end + 1 ELSE NULL

AfterItem(loops, iter) ==
  CASE is_dict(iter)   -> AfterDict(loops.dict[iter])
    [] is_list(iter)   -> AfterList(loops.list[iter])
    [] is_string(iter) -> AfterString(string_value(iter))
    [] is_int(iter)    -> AfterInt(int_value(iter))
    [] OTHER           -> NULL

iterate_to_next_string_pos(loops, be, sp) ==
  AfterItem(loops, bencode_init(sp, carry_length(be, sp)))

dict_get_next(loops, be) ==
  LET sp   == IF CharAt(be.str) = "d" THEN be.str + 1 ELSE be.str
      key  == read_string_len(sp)
      item == key.str + key.len
      next == iterate_to_next_string_pos(loops, be, item)
  IN  CASE CharAt(be.str) # "e" ->
        IF CharAt(sp) = "e"
          THEN [ret |-> 0, be |-> be]
          ELSE [ret |-> IF next = NULL THEN 0 ELSE 1, be |-> [be EXCEPT !.str = next],
                key |-> key, item |-> bencode_init(item, carry_length(be, item))]

list_get_next(loops, be) ==
  LET sp   == IF CharAt(be.str) = "l" /\ be.str = be.start THEN be.str + 1 ELSE be.str
      next == iterate_to_next_string_pos(loops, be, sp)
  IN  IF be.str = NULL \/ CharAt(sp) = "e"
        THEN [ret |-> 0, be |-> [be EXCEPT !.str = sp]]
        ELSE [ret |-> IF next = NULL THEN -1 ELSE 1, be |-> [be EXCEPT !.str = next],
              item |-> bencode_init(sp, carry_length(be, sp))]

(* A turn of the loop to the end of a dictionary or a list: where it stops. *)
DictTurn(loops, be) ==
  LET r == dict_get_next(loops, be)
  IN  IF ~dict_has_next(be) THEN be.str ELSE IF r.ret = 0 THEN NULL ELSE loops.dict[r.be]

ListTurn(loops, be) ==
  LET h == list_has_next(be)
      r == list_get_next(loops, h.be)
  IN  IF ~h.more THEN h.be.str ELSE IF r.ret = -1 THEN NULL ELSE loops.list[r.be]

NoLoops == [dict |-> << >>, list |-> << >>]

Turn(loops) == [dict |-> [be \in Object |-> DictTurn(loops, be)],
                list |-> [be \in Object |-> ListTurn(loops, be)]]

Loops[n \in Nat] == IF n = 0 THEN NoLoops ELSE Turn(Loops[n - 1])

AllLoops == Loops[Len(text)]

dict_get_start_and_lenNoEnd(be) ==  \* mutant
  [start |-> be.str, len |-> AllLoops.dict[be] - be.str]
dict_get_start_and_len(be) == [start |-> be.str, len |-> AllLoops.dict[be] - be.str + 1]

-----------------------------------------------------------------------------
(* May everything in be be read?  The loops over entries and items again   *)
(* come as an argument.                                                    *)

validateNoInt(valid, be) ==  \* mutant: the last case is missing
  CASE is_dict(be)   -> valid.dict[be]
    [] is_list(be)   -> valid.list[be]
    [] is_string(be) -> string_value(be).str # NULL
    [] OTHER         -> FALSE

validate(valid, be) ==
  CASE is_dict(be)   -> valid.dict[be]
    [] is_list(be)   -> valid.list[be]
    [] is_string(be) -> string_value(be).str # NULL
    [] is_int(be)    -> int_value(be).ok
    [] OTHER         -> FALSE

validate_dict(valid, be) ==
  dict_has_next(be) =>
    LET r == dict_get_next(AllLoops, be)
    IN  r.ret = 1 /\ validate(valid, r.item) /\ valid.dict[r.be]

validate_list(valid, be) ==
  LET h == list_has_next(be)
      r == list_get_next(AllLoops, h.be)
  IN  h.more => r.ret = 1 /\ validate(valid, r.item) /\ valid.list[r.be]

ValidTurn(valid) == [dict |-> [be \in Object |-> validate_dict(valid, be)],
                     list |-> [be \in Object |-> validate_list(valid, be)]]

Valid[n \in Nat] == IF n = 0 THEN NoLoops ELSE ValidTurn(Valid[n - 1])

bencode_validate == Len(text) # 0 => validate(Valid[Len(text)], bencode_init(1, Len(text)))
=============================================================================
