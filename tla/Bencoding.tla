------------------------------ MODULE Bencoding ------------------------------
(***************************************************************************)
(* The format: values and the text they are written as.                    *)
(*                                                                         *)
(* The key of an entry is one character, so that keys can be named: the    *)
(* reader looks at nothing but the length that stands before them.         *)
(***************************************************************************)
EXTENDS Integers, Sequences, SequencesExt

CONSTANTS
  Char,   \* what a text is made of
  Value,  \* what may be written: closed under taking parts,
  Depth   \* and how deep each value is nested

Digits == <<"0", "1", "2", "3", "4", "5", "6", "7", "8", "9">>

Str(s)      == [str |-> s]
Int64(n)    == [int |-> n]
List(s)     == [list |-> s]
Dict(s)     == [dict |-> s]
Entry(k, x) == [key |-> k, val |-> x]

IsStr(x)  == DOMAIN x = {"str"}
IsInt(x)  == DOMAIN x = {"int"}
IsList(x) == DOMAIN x = {"list"}
IsDict(x) == DOMAIN x = {"dict"}

ASSUME ValueAssumption ==
  /\ Range(Digits) \cup {":", "-", "i", "l", "d", "e"} \subseteq Char
  /\ Depth \in [Value -> Nat]
  /\ \A x \in Value :
       \/ IsStr(x) /\ x.str \in Seq(Char)
       \/ IsInt(x) /\ x.int \in Int
       \/ /\ IsList(x) /\ x.list \in Seq(Value)
          /\ \A i \in DOMAIN x.list : Depth[x.list[i]] < Depth[x]
       \/ /\ IsDict(x) /\ x.dict \in Seq([key : Char, val : Value])
          /\ \A i \in DOMAIN x.dict : Depth[x.dict[i].val] < Depth[x]

-----------------------------------------------------------------------------
(* A number without its last k digits. *)
Cut[k \in Nat] == [n \in Nat |-> IF k = 0 THEN n ELSE Cut[k - 1][n] \div 10]

DigitCount(n) == CHOOSE k \in 1 .. n + 1 : Cut[k][n] = 0 /\ (k = 1 \/ Cut[k - 1][n] # 0)

Decimal(n) ==
  [i \in 1 .. DigitCount(n) |-> Digits[1 + (Cut[DigitCount(n) - i][n] % 10)]]

EncodeStr(s) == Decimal(Len(s)) \o <<":">> \o s
EncodeInt(n) == <<"i">> \o (IF n < 0 THEN <<"-">> \o Decimal(-n) ELSE Decimal(n)) \o <<"e">>

Encode[x \in Value] ==
  CASE IsStr(x)  -> EncodeStr(x.str)
    [] IsInt(x)  -> EncodeInt(x.int)
    [] IsList(x) -> <<"l">> \o FlattenSeq([i \in DOMAIN x.list |-> Encode[x.list[i]]]) \o <<"e">>
    [] OTHER ->
         <<"d">> \o FlattenSeq([i \in DOMAIN x.dict |->
                       EncodeStr(<<x.dict[i].key>>) \o Encode[x.dict[i].val]]) \o <<"e">>

EncodeEntries(s) ==
  FlattenSeq([i \in DOMAIN s |-> EncodeStr(<<s[i].key>>) \o Encode[s[i].val]])

(* The value of key k in dictionary x, or else. *)
Lookup(x, k, else) ==
  IF \E i \in DOMAIN x.dict : x.dict[i].key = k
    THEN x.dict[CHOOSE i \in DOMAIN x.dict : x.dict[i].key = k].val
    ELSE else
=============================================================================
