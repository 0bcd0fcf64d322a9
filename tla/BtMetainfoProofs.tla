-------------------------- MODULE BtMetainfoProofs --------------------------
(***************************************************************************)
(* Proofs about BtMetainfo: whatever the torrent file holds, the client    *)
(* ends with what it says.                                                 *)
(*                                                                         *)
(* The invariant relates three things at every entry: the position of the  *)
(* reader (BencodeProofs), the entries before it, and what metainfo has    *)
(* got from them.                                                          *)
(***************************************************************************)
EXTENDS BtMetainfo, BencodeProofs

-----------------------------------------------------------------------------
(* What the entries of a dictionary say, up to the nth. *)

Seen(x, n) == Dict(SubSeq(x.dict, 1, n))

(* Lookup finds the value of a key, *)
LEMMA LookupIs ==
  ASSUME NEW x, DistinctKeys(x.dict), NEW i \in DOMAIN x.dict, NEW else
  PROVE  Lookup(x, x.dict[i].key, else) = x.dict[i].val
<1> DEFINE k == x.dict[i].key
<1>1. \A j \in DOMAIN x.dict : x.dict[j].key = k => j = i
  BY DEF DistinctKeys
<1>2. (CHOOSE j \in DOMAIN x.dict : x.dict[j].key = k) = i
  BY <1>1
<1> QED BY <1>2 DEF Lookup

(* or gives what stands for none. *)
LEMMA LookupNot ==
  ASSUME NEW x, NEW k, \A i \in DOMAIN x.dict : x.dict[i].key # k, NEW else
  PROVE  Lookup(x, k, else) = else
BY DEF Lookup

LEMMA DictFacts ==
  ASSUME NEW x \in Value, IsDict(x)
  PROVE  /\ Len(x.dict) \in Nat /\ DOMAIN x.dict = 1 .. Len(x.dict)
         /\ \A i \in 1 .. Len(x.dict) : x.dict[i].val \in Value
         /\ \A n \in 0 .. Len(x.dict) :
              /\ DOMAIN SubSeq(x.dict, 1, n) = 1 .. n
              /\ \A i \in 1 .. n : SubSeq(x.dict, 1, n)[i] = x.dict[i]
         /\ SubSeq(x.dict, 1, Len(x.dict)) = x.dict
<1> DEFINE S == [key : Char, val : Value]
           d == x.dict
<1>1. d \in Seq(S)
  BY Kinds
<1>2. \A i \in 1 .. Len(d) : d[i].val \in Value
  BY Kinds
<1> HIDE DEF S, d
<1>3. Len(d) \in Nat /\ DOMAIN d = 1 .. Len(d) /\ SubSeq(d, 1, Len(d)) = d
  BY <1>1, SubSeqFull
<1>4. ASSUME NEW n \in 0 .. Len(d)
      PROVE  /\ DOMAIN SubSeq(d, 1, n) = 1 .. n
             /\ \A i \in 1 .. n : SubSeq(d, 1, n)[i] = d[i]
  BY <1>1
<1> QED BY <1>2, <1>3, <1>4 DEF d

LEMMA SeenFacts ==
  ASSUME NEW x \in Value, IsDict(x), DistinctKeys(x.dict), NEW n \in 0 .. Len(x.dict)
  PROVE  /\ Seen(x, n).dict = SubSeq(x.dict, 1, n)
         /\ DOMAIN Seen(x, n).dict = 1 .. n
         /\ \A i \in 1 .. n : Seen(x, n).dict[i] = x.dict[i]
         /\ DistinctKeys(Seen(x, n).dict)
<1> DEFINE w == SubSeq(x.dict, 1, n)
<1>1. /\ DOMAIN w = 1 .. n /\ \A i \in 1 .. n : w[i] = x.dict[i]
      /\ Len(x.dict) \in Nat /\ DOMAIN x.dict = 1 .. Len(x.dict)
  BY DictFacts
<1>2. Seen(x, n).dict = w
  BY DEF Seen, Dict
<1> HIDE DEF w
<1>3. 1 .. n \subseteq DOMAIN x.dict
  BY <1>1
<1>4. DistinctKeys(w)
  BY <1>1, <1>3 DEF DistinctKeys
<1> QED BY <1>1, <1>2, <1>4 DEF w

(* One entry more changes what is known of its key, and of no other. *)
LEMMA SeenStep ==
  ASSUME NEW x \in Value, IsDict(x), DistinctKeys(x.dict), NEW n \in 0 .. Len(x.dict) - 1,
         NEW k, NEW else
  PROVE  Lookup(Seen(x, n + 1), k, else)
           = IF x.dict[n + 1].key = k THEN x.dict[n + 1].val ELSE Lookup(Seen(x, n), k, else)
<1>0. Len(x.dict) \in Nat /\ DOMAIN x.dict = 1 .. Len(x.dict)
  BY DictFacts
<1>1. n \in 0 .. Len(x.dict) /\ n + 1 \in 0 .. Len(x.dict) /\ n + 1 \in 1 .. n + 1 /\ n \in Nat
  BY <1>0
<1> DEFINE a == Seen(x, n)
           b == Seen(x, n + 1)
<1>2. /\ DOMAIN a.dict = 1 .. n /\ \A i \in 1 .. n : a.dict[i] = x.dict[i]
      /\ DOMAIN b.dict = 1 .. n + 1 /\ \A i \in 1 .. n + 1 : b.dict[i] = x.dict[i]
      /\ DistinctKeys(a.dict) /\ DistinctKeys(b.dict)
  BY <1>1, SeenFacts
<1> HIDE DEF a, b
<1>3. CASE x.dict[n + 1].key = k
  <2>1. n + 1 \in DOMAIN b.dict /\ b.dict[n + 1] = x.dict[n + 1]
    BY <1>1, <1>2
  <2>2. Lookup(b, b.dict[n + 1].key, else) = b.dict[n + 1].val
    BY <1>2, <2>1, LookupIs
  <2> QED BY <1>3, <2>1, <2>2 DEF b
<1>4. CASE x.dict[n + 1].key # k
  <2>1. CASE \E i \in 1 .. n : x.dict[i].key = k
    <3>1. PICK i \in 1 .. n : x.dict[i].key = k
      BY <2>1
    <3>2. i \in DOMAIN a.dict /\ i \in DOMAIN b.dict /\ a.dict[i] = x.dict[i] /\ b.dict[i] = x.dict[i]
      BY <1>1, <1>2
    <3>3. Lookup(a, k, else) = x.dict[i].val /\ Lookup(b, k, else) = x.dict[i].val
      BY <1>2, <3>1, <3>2, LookupIs
    <3> QED BY <1>4, <3>3 DEF a, b
  <2>2. CASE \A i \in 1 .. n : x.dict[i].key # k
    <3>1. \A i \in DOMAIN a.dict : a.dict[i].key # k
      BY <1>2, <2>2
    <3>2. ASSUME NEW i \in DOMAIN b.dict PROVE b.dict[i].key # k
      <4>1. i = n + 1 \/ i \in 1 .. n
        BY <1>1, <1>2
      <4> QED BY <1>2, <1>4, <2>2, <4>1
    <3> QED BY <1>4, <3>1, <3>2, LookupNot DEF a, b
  <2> QED BY <2>1, <2>2
<1> QED BY <1>3, <1>4

LEMMA SeenNone ==
  ASSUME NEW x \in Value, IsDict(x), DistinctKeys(x.dict), NEW k, NEW else
  PROVE  Lookup(Seen(x, 0), k, else) = else
<1>1. 0 \in 0 .. Len(x.dict)
  BY DictFacts
<1>2. DOMAIN Seen(x, 0).dict = 1 .. 0
  BY <1>1, SeenFacts
<1>3. \A i \in DOMAIN Seen(x, 0).dict : Seen(x, 0).dict[i].key # k
  BY <1>2
<1> QED BY <1>3, LookupNot

LEMMA SeenAll ==
  ASSUME NEW x \in Value, IsDict(x), NEW k, NEW else
  PROVE  Lookup(Seen(x, Len(x.dict)), k, else) = Lookup(x, k, else)
<1>2. SubSeq(x.dict, 1, Len(x.dict)) = x.dict
  BY DictFacts
<1>3. Seen(x, Len(x.dict)).dict = x.dict
  BY <1>2 DEF Seen, Dict
<1> QED BY <1>3 DEF Lookup

(* What TorrentAssumption says of a torrent file, entry by entry. *)
LEMMA TorrentFacts ==
  ASSUME NEW x \in Torrents
  PROVE  /\ x \in Value /\ IsDict(x) /\ DistinctKeys(x.dict)
         /\ Len(x.dict) \in Nat /\ DOMAIN x.dict = 1 .. Len(x.dict)
         /\ \A i \in 1 .. Len(x.dict) :
              LET e == x.dict[i] IN
              /\ e.val \in Value
              /\ e.key \notin {"pieces", "name", "piece length", "length"}
              /\ e.key = "announce" => IsStr(e.val)
              /\ e.key = "info" => IsInfo(e.val) /\ Info(x) = e.val
         /\ \E i \in 1 .. Len(x.dict) : x.dict[i].key = "info"
         /\ Info(x) \in Value /\ IsInfo(Info(x))
<1>1. /\ x \in Value /\ IsDict(x) /\ DistinctKeys(x.dict)
      /\ \A e \in Range(x.dict) :
           /\ e.key \notin {"pieces", "name", "piece length", "length"}
           /\ e.key = "announce" => IsStr(e.val)
           /\ e.key = "info" => IsInfo(e.val)
      /\ \E e \in Range(x.dict) : e.key = "info"
  BY TorrentAssumption
<1>2. /\ Len(x.dict) \in Nat /\ DOMAIN x.dict = 1 .. Len(x.dict)
      /\ \A i \in 1 .. Len(x.dict) : x.dict[i].val \in Value
  BY <1>1, DictFacts
<1>3. Range(x.dict) = {x.dict[i] : i \in 1 .. Len(x.dict)}
  BY <1>2 DEF Range
<1>4. ASSUME NEW i \in 1 .. Len(x.dict)
      PROVE  LET e == x.dict[i] IN
             /\ e.val \in Value
             /\ e.key \notin {"pieces", "name", "piece length", "length"}
             /\ e.key = "announce" => IsStr(e.val)
             /\ e.key = "info" => IsInfo(e.val) /\ Info(x) = e.val
  <2>1. x.dict[i] \in Range(x.dict) /\ i \in DOMAIN x.dict
    BY <1>2, <1>3
  <2>2. Lookup(x, x.dict[i].key, Dict(<< >>)) = x.dict[i].val
    BY <1>1, <2>1, LookupIs
  <2>3. x.dict[i].key = "info" => Info(x) = x.dict[i].val
    BY <2>2 DEF Info
  <2> QED BY <1>1, <1>2, <2>1, <2>3
<1>5. PICK i \in 1 .. Len(x.dict) : x.dict[i].key = "info"
  BY <1>1, <1>3
<1>6. Info(x) \in Value /\ IsInfo(Info(x))
  BY <1>4, <1>5
<1> QED BY <1>1, <1>2, <1>4, <1>5, <1>6

LEMMA InfoFacts ==
  ASSUME NEW x \in Value, IsInfo(x)
  PROVE  /\ IsDict(x) /\ DistinctKeys(x.dict)
         /\ Len(x.dict) \in Nat \ {0} /\ DOMAIN x.dict = 1 .. Len(x.dict)
         /\ \A i \in 1 .. Len(x.dict) :
              LET e == x.dict[i] IN
              /\ e.val \in Value
              /\ e.key \notin {"announce", "info"}
              /\ e.key \in {"pieces", "name"} => IsStr(e.val)
              /\ e.key \in {"piece length", "length"} => IsInt(e.val)
         /\ RefInt(x, "piece length") \in 1 .. IntRange \div 2 - 1
         /\ RefInt(x, "length") \in Int
<1>1. /\ IsDict(x) /\ DistinctKeys(x.dict)
      /\ \A e \in Range(x.dict) :
           /\ e.key \notin {"announce", "info"}
           /\ e.key \in {"pieces", "name"} => IsStr(e.val)
           /\ e.key \in {"piece length", "length"} => IsInt(e.val)
      /\ \E e \in Range(x.dict) :
           e.key = "piece length" /\ e.val.int \in 1 .. IntRange \div 2 - 1
  BY DEF IsInfo
<1>2. /\ Len(x.dict) \in Nat /\ DOMAIN x.dict = 1 .. Len(x.dict)
      /\ \A i \in 1 .. Len(x.dict) : x.dict[i].val \in Value
  BY <1>1, DictFacts
<1>3. Range(x.dict) = {x.dict[i] : i \in 1 .. Len(x.dict)}
  BY <1>2 DEF Range
<1>4. ASSUME NEW i \in 1 .. Len(x.dict)
      PROVE  LET e == x.dict[i] IN
             /\ e.val \in Value
             /\ e.key \notin {"announce", "info"}
             /\ e.key \in {"pieces", "name"} => IsStr(e.val)
             /\ e.key \in {"piece length", "length"} => IsInt(e.val)
             /\ \A else : Lookup(x, e.key, else) = e.val
  <2>1. x.dict[i] \in Range(x.dict) /\ i \in DOMAIN x.dict
    BY <1>2, <1>3
  <2>2. \A else : Lookup(x, x.dict[i].key, else) = x.dict[i].val
    BY <1>1, <2>1, LookupIs
  <2> QED BY <1>1, <1>2, <2>1, <2>2
<1>5. PICK i \in 1 .. Len(x.dict) :
         x.dict[i].key = "piece length" /\ x.dict[i].val.int \in 1 .. IntRange \div 2 - 1
  BY <1>1, <1>3
<1>6. RefInt(x, "piece length") \in 1 .. IntRange \div 2 - 1
  BY <1>4, <1>5 DEF RefInt
<1>7. Len(x.dict) # 0
  <2>1. i \in 1 .. Len(x.dict)
    OBVIOUS
  <2> QED BY <1>2, <2>1
<1>8. RefInt(x, "length") \in Int
  <2>1. CASE \E j \in 1 .. Len(x.dict) : x.dict[j].key = "length"
    <3>1. PICK j \in 1 .. Len(x.dict) : x.dict[j].key = "length"
      BY <2>1
    <3>2. IsInt(x.dict[j].val) /\ x.dict[j].val \in Value
      BY <1>4, <3>1
    <3>3. x.dict[j].val.int \in Int
      BY <3>2, Kinds
    <3> QED BY <1>4, <3>1, <3>3 DEF RefInt
  <2>2. CASE \A j \in 1 .. Len(x.dict) : x.dict[j].key # "length"
    <3>1. Lookup(x, "length", Int64(JunkInt)) = Int64(JunkInt)
      BY <1>2, <2>2, LookupNot
    <3>2. Int64(JunkInt).int \in Int
      BY DEF Int64, JunkInt
    <3> QED BY <3>1, <3>2 DEF RefInt
  <2> QED BY <2>1, <2>2
<1> QED BY <1>1, <1>2, <1>4, <1>6, <1>7, <1>8

-----------------------------------------------------------------------------
(* The reader be of dictionary x has taken n of its entries. *)

Reading(x, be, n) ==
  /\ IsDict(x) /\ Stands(x, be.start) /\ n \in 0 .. Len(x.dict)
  /\ be.len \in Int /\ be.len >= Len(Encode[x])
  /\ be = Reader(x, be.start, be.len, n)

(* Such a reader is inside the buffer, and knows whether there is more. *)
LEMMA ReadingFacts ==
  ASSUME NEW x, NEW be, NEW n, Reading(x, be, n)
  PROVE  /\ be \in Object /\ x \in Value /\ text \in Seq(Char) /\ Len(text) \in Nat
         /\ be.start \in 1 .. Len(text) /\ be.str \in be.start .. Len(text)
         /\ be.str # be.start => be.str = be.start + 1 + Offset(x, n)
         /\ Len(Items(x)) = Len(x.dict) /\ Len(x.dict) \in Nat
         /\ dict_has_next(be) <=> n < Len(x.dict)
<1> DEFINE p == be.start
           len == be.len
<1>1. /\ IsDict(x) /\ Stands(x, p) /\ n \in 0 .. Len(x.dict) /\ len \in Int
      /\ len >= Len(Encode[x]) /\ be = Reader(x, p, len, n)
  BY DEF Reading
<1> HIDE DEF p, len
<1>2. x \in Value /\ Compound(x) /\ text \in Seq(Char) /\ Len(text) \in Nat
  BY <1>1 DEF Stands, Compound
<1>3. Len(Items(x)) = Len(x.dict) /\ Len(x.dict) \in Nat
  BY <1>1, <1>2, CompoundWritten, DictFacts
<1>4. /\ Place(x, p, n) \in Nat /\ p <= Place(x, p, n)
      /\ Place(x, p, n) + 1 <= p + Len(Encode[x]) /\ be \in Object
  BY <1>1, <1>3, PlaceTyped
<1>5. p \in Nat \ {0} /\ p + Len(Encode[x]) <= Len(text) + 1 /\ Len(Encode[x]) \in Nat
  BY <1>1, PlaceFacts
<1>6. be.str = Place(x, p, n) /\ be.start = p
  <2>1. Reader(x, p, len, n).str = Place(x, p, n)
    BY DEF Reader
  <2> QED BY <1>1, <2>1 DEF p
<1>7. p \in 1 .. Len(text) /\ Place(x, p, n) \in p .. Len(text)
  BY <1>2, <1>4, <1>5
<1>8. Place(x, p, n) # p => Place(x, p, n) = p + 1 + Offset(x, n)
  BY DEF Place
<1>9. dict_has_next(be) <=> n < Len(x.dict)
  BY <1>1, <1>3, DictHasNext
<1> QED BY <1>2, <1>3, <1>4, <1>6, <1>7, <1>8, <1>9

(* The nth entry of x is the next. *)
LEMMA EntryRead ==
  ASSUME NEW x, NEW be, NEW n, Reading(x, be, n), n < Len(x.dict)
  PROVE  LET r == dict_get_next(AllLoops, be)
             v == x.dict[n + 1].val
         IN  /\ Reading(x, r.be, n + 1) /\ be.str < r.be.str
             /\ text[r.key.str] = x.dict[n + 1].key
             /\ v \in Value /\ n + 1 \in 1 .. Len(x.dict)
             /\ \E q \in Nat, l \in Int :
                  r.item = bencode_init(q, l) /\ Holds(Encode[v], q) /\ l >= Len(Encode[v])
<1> DEFINE p == be.start
           len == be.len
           v == x.dict[n + 1].val
           r == dict_get_next(AllLoops, be)
<1>1. /\ IsDict(x) /\ Stands(x, p) /\ n \in 0 .. Len(x.dict) /\ len \in Int
      /\ len >= Len(Encode[x]) /\ be = Reader(x, p, len, n)
  BY DEF Reading
<1>2. Len(Items(x)) = Len(x.dict) /\ Len(x.dict) \in Nat /\ x \in Value /\ text \in Seq(Char)
  BY ReadingFacts
<1> HIDE DEF p, len, r, v
<1>3. n \in 0 .. Len(Items(x)) - 1 /\ n \in 0 .. Len(Items(x)) /\ n < Len(Items(x))
      /\ n + 1 \in 1 .. Len(x.dict) /\ n + 1 \in 0 .. Len(x.dict)
  BY <1>1, <1>2
<1>4. /\ Place(x, p, n) + 1 <= Place(x, p, n + 1)
      /\ Place(x, p, n) \in Nat /\ Place(x, p, n + 1) \in Nat /\ p <= Place(x, p, n)
      /\ p \in Nat \ {0} /\ Len(Encode[x]) \in Nat /\ p + Len(Encode[x]) <= Len(text) + 1
      /\ Len(text) \in Nat
  BY <1>1, <1>3, Advance, PlaceTyped
<1>5. Len(text) >= p + Len(Encode[x]) - Place(x, p, n) - 1
  BY <1>4
<1>6. Skips(AllLoops, Len(text))
  BY <1>2, AllSkips
<1>7. /\ r.be = Reader(x, p, len, n + 1)
      /\ text[r.key.str] = x.dict[n + 1].key
      /\ r.item = bencode_init(ValPos(x, p, n), ValLen(x, p, len, n))
      /\ Holds(Encode[v], ValPos(x, p, n)) /\ ValPos(x, p, n) \in Nat
      /\ ValLen(x, p, len, n) \in Int /\ ValLen(x, p, len, n) >= Len(Encode[v])
  <2> DEFINE r0 == dict_get_next(AllLoops, Reader(x, p, len, n))
             w  == x.dict[n + 1].val
  <2>1. IsDict(x) /\ Stands(x, p) /\ len \in Int /\ len >= Len(Encode[x])
    BY <1>1
  <2>2. /\ r0.be = Reader(x, p, len, n + 1)
        /\ text[r0.key.str] = x.dict[n + 1].key
        /\ r0.item = bencode_init(ValPos(x, p, n), ValLen(x, p, len, n))
        /\ Holds(Encode[w], ValPos(x, p, n)) /\ ValPos(x, p, n) \in Nat
        /\ ValLen(x, p, len, n) \in Int /\ ValLen(x, p, len, n) >= Len(Encode[w])
    BY <1>3, <1>4, <1>5, <1>6, <2>1, DictNext
  <2>3. r = r0
    BY <1>1 DEF r
  <2>4. w = v
    BY DEF v
  <2> HIDE DEF r0, w
  <2> QED BY <2>2, <2>3, <2>4
<1>8. v \in Value
  BY <1>1, <1>2, <1>3, DictFacts DEF v
<1>9. r.be.start = p /\ r.be.len = len /\ r.be.str = Place(x, p, n + 1)
  <2>1. /\ Reader(x, p, len, n + 1).start = p /\ Reader(x, p, len, n + 1).len = len
        /\ Reader(x, p, len, n + 1).str = Place(x, p, n + 1)
    BY DEF Reader
  <2> QED BY <1>7, <2>1
<1>10. Reading(x, r.be, n + 1)
  BY <1>1, <1>3, <1>7, <1>9 DEF Reading
<1>11. be.str < r.be.str
  <2>1. be.str = Place(x, p, n)
    <3>1. Reader(x, p, len, n).str = Place(x, p, n)
      BY DEF Reader
    <3> QED BY <1>1, <3>1
  <2> QED BY <1>4, <1>9, <2>1
<1>12. \E q \in Nat, l \in Int :
         r.item = bencode_init(q, l) /\ Holds(Encode[v], q) /\ l >= Len(Encode[v])
  BY <1>7
<1> QED BY <1>3, <1>7, <1>8, <1>10, <1>11, <1>12 DEF r, v

(* What strncpy makes of a string. *)
Cropped(s) ==
  [i \in 1 .. Len(s) |-> IF \E j \in 1 .. i : s[j] = Zero THEN Zero ELSE s[i]]

LEMMA CroppedWhole ==
  ASSUME NEW S, NEW s \in Seq(S), Zero \notin Range(s)
  PROVE  Cropped(s) = s
<1>1. \A j \in 1 .. Len(s) : s[j] # Zero
  BY DEF Range
<1>2. \A i \in 1 .. Len(s) : ~ \E j \in 1 .. i : s[j] = Zero
  <2>1. \A i \in 1 .. Len(s) : 1 .. i \subseteq 1 .. Len(s)
    OBVIOUS
  <2> QED BY <1>1, <2>1
<1>3. s = [i \in 1 .. Len(s) |-> s[i]]
  OBVIOUS
<1> QED BY <1>2, <1>3 DEF Cropped

(* strncpy copies a string of the buffer up to its first zero. *)
LEMMA Copied ==
  ASSUME text \in Seq(Char), NEW s \in Seq(Char), NEW p, Holds(s, p)
  PROVE  strncpy([str |-> p, len |-> Len(s)]) = Cropped(s)
<1>1. ASSUME NEW i \in 1 .. Len(s) PROVE CharAt(p + i - 1) = s[i]
  BY HoldsChar
<1>2. \A i \in 1 .. Len(s) : \A j \in 1 .. i : j \in 1 .. Len(s)
  OBVIOUS
<1>3. /\ [str |-> p, len |-> Len(s)].len = Len(s)
      /\ [str |-> p, len |-> Len(s)].str = p
  OBVIOUS
<1>4. strncpy([str |-> p, len |-> Len(s)])
        = [i \in 1 .. Len(s) |-> IF \E j \in 1 .. i : CharAt(p + j - 1) = Zero
                                 THEN Zero ELSE CharAt(p + i - 1)]
  BY <1>3 DEF strncpy
<1>5. \A i \in 1 .. Len(s) : (\E j \in 1 .. i : CharAt(p + j - 1) = Zero)
                               <=> (\E j \in 1 .. i : s[j] = Zero)
  BY <1>1, <1>2
<1> QED BY <1>1, <1>4, <1>5 DEF Cropped

(* What is read of an item. *)
LEMMA ValueRead ==
  ASSUME text \in Seq(Char), NEW v \in Value, NEW be, NEW q \in Nat, NEW l \in Int,
         be = bencode_init(q, l), Holds(Encode[v], q), l >= Len(Encode[v])
  PROVE  /\ IsStr(v) => strncpy(string_value(be)) = Cropped(v.str)
         /\ IsInt(v) => int_value(be).val = v.int
         /\ IsDict(v) => Reading(v, be, 0)
         /\ IsDict(v) /\ Len(v.dict) # 0 =>
              LET span == dict_get_start_and_len(be) IN
              SubSeq(text, span.start, span.start + span.len - 1) = Encode[v]
<1>1. IsStr(v) => strncpy(string_value(be)) = Cropped(v.str)
  <2> HAVE IsStr(v)
  <2>1. /\ string_value(be) = [str |-> StrAt(v.str, q), len |-> Len(v.str)]
        /\ Holds(v.str, StrAt(v.str, q)) /\ v.str \in Seq(Char)
    BY ItemRead
  <2> QED BY <2>1, Copied
<1>2. IsInt(v) => int_value(be).val = v.int
  BY ItemRead
<1>3. be.str = q /\ be.start = q /\ be.len = l
  BY DEF bencode_init
<1>4. ASSUME IsDict(v) PROVE Reading(v, be, 0) /\ Stands(v, q) /\ be = Reader(v, q, l, 0)
  <2>1. be = Reader(v, q, l, 0)
    BY DEF Reader, Place, bencode_init
  <2>2. Stands(v, q)
    BY <1>4 DEF Stands, Compound
  <2>3. 0 \in 0 .. Len(v.dict)
    BY <1>4, DictFacts
  <2> QED BY <1>3, <1>4, <2>1, <2>2, <2>3 DEF Reading
<1>5. ASSUME IsDict(v), Len(v.dict) # 0
      PROVE  LET span == dict_get_start_and_len(be) IN
             SubSeq(text, span.start, span.start + span.len - 1) = Encode[v]
  <2> DEFINE E == Len(Encode[v])
             w == Encode[v]
  <2>1. /\ q \in Nat \ {0} /\ E \in Nat /\ q + E <= Len(text) + 1 /\ Len(text) \in Nat
        /\ w \in Seq(Char)
        /\ Len(Items(v)) = Len(v.dict) /\ 0 \in 0 .. Len(Items(v))
        /\ Place(v, q, 0) = q
    <3>1. Stands(v, q) /\ Compound(v)
      BY <1>4, <1>5 DEF Stands
    <3>2. Place(v, q, 0) = q
      BY DEF Place
    <3>3. Len(Items(v)) = Len(v.dict) /\ 0 \in 0 .. Len(Items(v))
      BY <1>5, <3>1, CompoundWritten
    <3> QED BY <3>1, <3>2, <3>3, PlaceFacts, EncodeTyped
  <2>2. AllLoops.dict[be] = q + E - 1
    <3>1. q + E - Place(v, q, 0) <= Len(text)
      <4> HIDE DEF E
      <4> QED BY <2>1
    <3>2. Reads(AllLoops, Len(text))
      BY AllSkips
    <3>3. AllLoops.dict[be] = Stop(v, q)
      BY <1>4, <1>5, <2>1, <3>1, <3>2 DEF Reads
    <3> QED BY <1>5, <2>1, <3>3 DEF Stop
  <2> DEFINE span == dict_get_start_and_len(be)
  <2>3. span.start = q /\ span.start + span.len - 1 = q + E - 1
    <3> HIDE DEF E
    <3>1. span = [start |-> q, len |-> (q + E - 1) - q + 1]
      BY <1>3, <2>2 DEF dict_get_start_and_len
    <3> HIDE DEF span
    <3> QED BY <2>1, <3>1
  <2>4. SubSeq(text, q, q + E - 1) = w
    <3> HIDE DEF w, E
    <3>0. E = Len(w) /\ Holds(w, q)
      BY DEF E, w
    <3>1. \A i \in 1 .. E : text[q + i - 1] = w[i]
      BY <3>0 DEF Holds
    <3>2. SubSeq(text, q, q + E - 1) \in Seq(Char) /\ Len(SubSeq(text, q, q + E - 1)) = E
      BY <2>1
    <3>3. \A i \in 1 .. E : SubSeq(text, q, q + E - 1)[i] = text[q + i - 1]
      BY <2>1
    <3> QED BY <2>1, <3>0, <3>1, <3>2, <3>3
  <2> QED BY <2>3, <2>4
<1> QED BY <1>1, <1>2, <1>4, <1>5

-----------------------------------------------------------------------------
(* What metainfo holds when n1 entries of torrent file x and n2 of its     *)
(* info dictionary were parsed, and num_pieces is num.                     *)

InfoSeen(x, n) == \E i \in 1 .. n : x.dict[i].key = "info"

Pieces(length, piece_length) == -((-length) \div piece_length)

Metainfo(announce, hashed, pieces, name, size, length, num) ==
  [announce |-> announce, hashed |-> hashed, pieces |-> pieces, name |-> name,
   piece_length |-> size, length |-> length, num_pieces |-> num]

StrField(x, k) == Cropped(RefStr(x, k))
IntField(x, k) == ToInt(RefInt(x, k))

Fields(x, n1, n2, num) ==
  LET info == Seen(Info(x), n2) IN
  Metainfo(StrField(Seen(x, n1), "announce"),
           IF InfoSeen(x, n1) THEN Encode[Info(x)] ELSE JunkStr,
           StrField(info, "pieces"), StrField(info, "name"),
           IntField(info, "piece length"), IntField(info, "length"),
           num)

InfoPieces(x, n) ==
  Pieces(IntField(Seen(Info(x), n), "length"), IntField(Seen(Info(x), n), "piece length"))

LEMMA MetainfoSet ==
  \A a, h, p, n, s, l, c, z :
    /\ [Metainfo(a, h, p, n, s, l, c) EXCEPT !.announce = z] = Metainfo(z, h, p, n, s, l, c)
    /\ [Metainfo(a, h, p, n, s, l, c) EXCEPT !.hashed = z] = Metainfo(a, z, p, n, s, l, c)
    /\ [Metainfo(a, h, p, n, s, l, c) EXCEPT !.pieces = z] = Metainfo(a, h, z, n, s, l, c)
    /\ [Metainfo(a, h, p, n, s, l, c) EXCEPT !.name = z] = Metainfo(a, h, p, z, s, l, c)
    /\ [Metainfo(a, h, p, n, s, l, c) EXCEPT !.piece_length = z]
         = Metainfo(a, h, p, n, z, l, c)
    /\ [Metainfo(a, h, p, n, s, l, c) EXCEPT !.length = z] = Metainfo(a, h, p, n, s, z, c)
    /\ [Metainfo(a, h, p, n, s, l, c) EXCEPT !.num_pieces = z] = Metainfo(a, h, p, n, s, l, z)
    /\ Metainfo(a, h, p, n, s, l, c).length = l
    /\ Metainfo(a, h, p, n, s, l, c).piece_length = s
BY DEF Metainfo

(* What the nth entry adds. *)
LEMMA FieldStep ==
  ASSUME NEW x \in Value, IsDict(x), DistinctKeys(x.dict), NEW n \in 0 .. Len(x.dict) - 1, NEW k
  PROVE  LET e == x.dict[n + 1] IN
         /\ StrField(Seen(x, n + 1), k)
              = IF e.key = k THEN Cropped(e.val.str) ELSE StrField(Seen(x, n), k)
         /\ IntField(Seen(x, n + 1), k)
              = IF e.key = k THEN ToInt(e.val.int) ELSE IntField(Seen(x, n), k)
<1> DEFINE e == x.dict[n + 1]
           a == Seen(x, n)
           b == Seen(x, n + 1)
<1>1. \A else : Lookup(b, k, else) = IF e.key = k THEN e.val ELSE Lookup(a, k, else)
  BY SeenStep
<1> HIDE DEF e, a, b
<1>2. CASE e.key = k
  <2>1. \A else : Lookup(b, k, else) = e.val
    BY <1>1, <1>2
  <2>2. RefStr(b, k) = e.val.str /\ RefInt(b, k) = e.val.int
    BY <2>1 DEF RefStr, RefInt
  <2> QED BY <1>2, <2>2 DEF StrField, IntField, e, a, b
<1>3. CASE e.key # k
  <2>1. \A else : Lookup(b, k, else) = Lookup(a, k, else)
    BY <1>1, <1>3
  <2>2. RefStr(b, k) = RefStr(a, k) /\ RefInt(b, k) = RefInt(a, k)
    BY <2>1 DEF RefStr, RefInt
  <2> QED BY <1>3, <2>2 DEF StrField, IntField, e, a, b
<1> QED BY <1>2, <1>3

(* ToInt has the range of int, and keeps what is in it. *)
LEMMA IntFacts ==
  /\ IntRange \div 2 \in Nat \ {0} /\ IntRange = 2 * (IntRange \div 2)
  /\ \A n \in Int : /\ ToInt(n) \in -(IntRange \div 2) .. IntRange \div 2 - 1
                    /\ n \in -(IntRange \div 2) .. IntRange \div 2 - 1 => ToInt(n) = n
<1> DEFINE h == IntRange \div 2
<1>1. IntRange \in Nat \ {0} /\ IntRange % 2 = 0
  BY MetainfoAssumption
<1>2. h \in Nat \ {0} /\ IntRange = 2 * h
  BY <1>1
<1>3. \A n \in Int : ToInt(n) = ((n + h) % IntRange) - h
  BY DEF ToInt
<1> HIDE DEF h
<1>4. ASSUME NEW n \in Int
      PROVE  /\ ((n + h) % (2 * h)) - h \in -h .. h - 1
             /\ n \in -h .. h - 1 => ((n + h) % (2 * h)) - h = n
  <2>1. \A a \in Int, b \in Nat \ {0} : a % b \in 0 .. b - 1 /\ (a \in 0 .. b - 1 => a % b = a)
    OBVIOUS
  <2>2. 2 * h \in Nat \ {0} /\ n + h \in Int
    BY <1>2
  <2>3. (n + h) % (2 * h) \in 0 .. 2 * h - 1
    BY <2>1, <2>2
  <2>4. n \in -h .. h - 1 => n + h \in 0 .. 2 * h - 1
    BY <1>2
  <2>5. n \in -h .. h - 1 => (n + h) % (2 * h) = n + h
    BY <2>1, <2>2, <2>4
  <2>6. ASSUME NEW t \in 0 .. 2 * h - 1 PROVE t - h \in -h .. h - 1
    BY <1>2
  <2> QED BY <1>2, <2>3, <2>5, <2>6
<1>5. \A n \in Int : ToInt(n) = ((n + h) % (2 * h)) - h
  BY <1>2, <1>3
<1>6. \A n \in Int : ToInt(n) \in -h .. h - 1 /\ (n \in -h .. h - 1 => ToInt(n) = n)
  BY <1>4, <1>5
<1> QED BY <1>2, <1>6 DEF h

(* Pieces rounds up, and is no larger than what is divided. *)
LEMMA PiecesFacts ==
  ASSUME NEW h \in Nat \ {0}, NEW length \in -h .. h - 1, NEW size \in Nat \ {0}
  PROVE  /\ Pieces(length, size) \in -h .. h - 1
         /\ Pieces(length, size) * size \in length .. length + size - 1
<1> DEFINE q == (-length) \div size
           r == (-length) % size
<1>1. \A a \in Int : a \div size \in Int /\ a % size \in 0 .. size - 1
                     /\ a = size * (a \div size) + (a % size)
  OBVIOUS
<1>2. q \in Int /\ r \in 0 .. size - 1 /\ -length = size * q + r
  BY <1>1
<1> HIDE DEF q, r
<1>3. -q \in -h .. h - 1
  BY <1>2
<1>4. (-q) * size \in length .. length + size - 1
  BY <1>2
<1> QED BY <1>3, <1>4 DEF Pieces, q

LEMMA JunkFacts ==
  /\ Cropped(JunkStr) = JunkStr /\ Str(JunkStr).str = JunkStr
  /\ ToInt(JunkInt) = JunkInt /\ JunkInt \in Int /\ Int64(JunkInt).int = JunkInt
  /\ JunkInt \in -(IntRange \div 2) .. IntRange \div 2 - 1
<1>1. JunkStr \in Seq({"junk"}) /\ Zero \notin Range(JunkStr)
  BY DEF JunkStr, Zero, Range
<1>2. Cropped(JunkStr) = JunkStr
  BY <1>1, CroppedWhole
<1>3. Str(JunkStr).str = JunkStr /\ Int64(JunkInt).int = JunkInt
  BY DEF Str, Int64
<1>4. JunkInt \in -(IntRange \div 2) .. IntRange \div 2 - 1
  BY IntFacts DEF JunkInt
<1>5. JunkInt \in Int
  BY DEF JunkInt
<1>6. ToInt(JunkInt) = JunkInt
  BY <1>4, <1>5, IntFacts
<1> QED BY <1>2, <1>3, <1>4, <1>5, <1>6

(* Before anything was parsed. *)
LEMMA FieldsStart ==
  ASSUME NEW x \in Torrents
  PROVE  Fields(x, 0, 0, JunkInt)
           = [announce |-> JunkStr, hashed |-> JunkStr, pieces |-> JunkStr, name |-> JunkStr,
              piece_length |-> JunkInt, length |-> JunkInt, num_pieces |-> JunkInt]
<1>1. x \in Value /\ IsDict(x) /\ DistinctKeys(x.dict)
  BY TorrentFacts
<1>2. Info(x) \in Value /\ IsDict(Info(x)) /\ DistinctKeys(Info(x).dict)
  BY TorrentFacts, InfoFacts
<1>3. \A y \in Value : \A k : IsDict(y) /\ DistinctKeys(y.dict) =>
        StrField(Seen(y, 0), k) = JunkStr /\ IntField(Seen(y, 0), k) = JunkInt
  <2> TAKE y \in Value
  <2> TAKE k
  <2> HAVE IsDict(y) /\ DistinctKeys(y.dict)
  <2>1. \A else : Lookup(Seen(y, 0), k, else) = else
    BY SeenNone
  <2>2. RefStr(Seen(y, 0), k) = JunkStr /\ RefInt(Seen(y, 0), k) = JunkInt
    BY <2>1, JunkFacts DEF RefStr, RefInt
  <2> QED BY <2>2, JunkFacts DEF StrField, IntField
<1>4. ~InfoSeen(x, 0)
  BY DEF InfoSeen
<1>5. Fields(x, 0, 0, JunkInt)
        = Metainfo(JunkStr, JunkStr, JunkStr, JunkStr, JunkInt, JunkInt, JunkInt)
  BY <1>1, <1>2, <1>3, <1>4 DEF Fields
<1> QED BY <1>5 DEF Metainfo

(* An entry of the torrent file that is not the info dictionary. *)
LEMMA FieldsOuter ==
  ASSUME NEW x \in Torrents, NEW n1 \in 0 .. Len(x.dict) - 1, NEW n2, NEW num,
         metainfo = Fields(x, n1, n2, num), x.dict[n1 + 1].key # "info",
         NEW be, IsStr(x.dict[n1 + 1].val) =>
                   strncpy(string_value(be)) = Cropped(x.dict[n1 + 1].val.str)
  PROVE  /\ parse_metainfo(x.dict[n1 + 1].key, be) = Fields(x, n1 + 1, n2, num)
         /\ InfoSeen(x, n1 + 1) <=> InfoSeen(x, n1)
<1> DEFINE key == x.dict[n1 + 1].key
           v == x.dict[n1 + 1].val
<1>1. x \in Value /\ IsDict(x) /\ DistinctKeys(x.dict) /\ Len(x.dict) \in Nat
  BY TorrentFacts
<1>2. n1 + 1 \in 1 .. Len(x.dict) /\ n1 \in Nat
  BY <1>1
<1>3. key \notin {"pieces", "name", "piece length", "length"} /\ (key = "announce" => IsStr(v))
  BY <1>2, TorrentFacts
<1>4. StrField(Seen(x, n1 + 1), "announce")
        = IF key = "announce" THEN Cropped(v.str) ELSE StrField(Seen(x, n1), "announce")
  BY <1>1, FieldStep
<1>5. InfoSeen(x, n1 + 1) <=> InfoSeen(x, n1)
  <2>1. \A i \in 1 .. n1 + 1 : i = n1 + 1 \/ i \in 1 .. n1
    BY <1>2
  <2>2. 1 .. n1 \subseteq 1 .. n1 + 1
    BY <1>2
  <2> QED BY <2>1, <2>2 DEF InfoSeen
<1>6. CASE key = "announce"
  <2>1. strncpy(string_value(be)) = Cropped(v.str)
    BY <1>3, <1>6
  <2>2. Fields(x, n1 + 1, n2, num) = [metainfo EXCEPT !.announce = Cropped(v.str)]
    <3> DEFINE y == Seen(Info(x), n2)
               a == StrField(Seen(x, n1), "announce")
               h == IF InfoSeen(x, n1) THEN Encode[Info(x)] ELSE JunkStr
               p == StrField(y, "pieces")
               n == StrField(y, "name")
               s == IntField(y, "piece length")
               l == IntField(y, "length")
               z == Cropped(v.str)
    <3>1. metainfo = Metainfo(a, h, p, n, s, l, num)
      BY DEF Fields
    <3> HIDE DEF key, v
    <3>2. Fields(x, n1 + 1, n2, num) = Metainfo(z, h, p, n, s, l, num)
      BY <1>4, <1>5, <1>6 DEF Fields
    <3> HIDE DEF a, h, p, n, s, l, y, z
    <3>3. [metainfo EXCEPT !.announce = z] = Metainfo(z, h, p, n, s, l, num)
      BY <3>1, MetainfoSet
    <3> QED BY <3>2, <3>3 DEF z
  <2>3. parse_metainfo(key, be) = [metainfo EXCEPT !.announce = strncpy(string_value(be))]
    <3> HIDE DEF key
    <3> QED BY <1>6 DEF parse_metainfo
  <2> QED BY <1>5, <2>1, <2>2, <2>3
<1>7. CASE key # "announce"
  <2>1. Fields(x, n1 + 1, n2, num) = metainfo
    <3> HIDE DEF key, v
    <3> QED BY <1>4, <1>5, <1>7 DEF Fields
  <2>2. parse_metainfo(key, be) = metainfo
    <3> HIDE DEF key
    <3> QED BY <1>3, <1>7 DEF parse_metainfo
  <2> QED BY <1>5, <2>1, <2>2
<1> QED BY <1>6, <1>7

(* The info dictionary. *)
LEMMA FieldsInfo ==
  ASSUME NEW x \in Torrents, NEW n1 \in 0 .. Len(x.dict) - 1,
         metainfo = Fields(x, n1, 0, JunkInt), x.dict[n1 + 1].key = "info"
  PROVE  /\ [metainfo EXCEPT !.hashed = Encode[x.dict[n1 + 1].val]] = Fields(x, n1 + 1, 0, JunkInt)
         /\ InfoSeen(x, n1 + 1) /\ ~InfoSeen(x, n1)
         /\ x.dict[n1 + 1].val = Info(x)
<1> DEFINE v == x.dict[n1 + 1].val
<1>1. /\ x \in Value /\ IsDict(x) /\ DistinctKeys(x.dict) /\ Len(x.dict) \in Nat
      /\ DOMAIN x.dict = 1 .. Len(x.dict)
  BY TorrentFacts
<1>2. n1 + 1 \in 1 .. Len(x.dict) /\ n1 \in Nat /\ n1 + 1 \in 1 .. n1 + 1
  BY <1>1
<1>3. v = Info(x)
  BY <1>2, TorrentFacts
<1>4. StrField(Seen(x, n1 + 1), "announce") = StrField(Seen(x, n1), "announce")
  BY <1>1, FieldStep
<1>5. InfoSeen(x, n1 + 1)
  BY <1>2 DEF InfoSeen
<1>6. ~InfoSeen(x, n1)
  <2>1. \A i \in 1 .. n1 : i \in 1 .. Len(x.dict) /\ i # n1 + 1
    BY <1>1, <1>2
  <2> QED BY <1>1, <1>2, <2>1 DEF InfoSeen, DistinctKeys
<1> HIDE DEF v
<1>7. [metainfo EXCEPT !.hashed = Encode[v]] = Fields(x, n1 + 1, 0, JunkInt)
  <2> DEFINE y == Seen(Info(x), 0)
             a == StrField(Seen(x, n1), "announce")
             p == StrField(y, "pieces")
             n == StrField(y, "name")
             s == IntField(y, "piece length")
             l == IntField(y, "length")
             z == Encode[v]
  <2>1. metainfo = Metainfo(a, JunkStr, p, n, s, l, JunkInt)
    BY <1>6 DEF Fields
  <2>2. Fields(x, n1 + 1, 0, JunkInt) = Metainfo(a, z, p, n, s, l, JunkInt)
    BY <1>3, <1>4, <1>5 DEF Fields
  <2> HIDE DEF a, p, n, s, l, y, z
  <2>3. [metainfo EXCEPT !.hashed = z] = Metainfo(a, z, p, n, s, l, JunkInt)
    BY <2>1, MetainfoSet
  <2> QED BY <2>2, <2>3 DEF z
<1> QED BY <1>3, <1>5, <1>6, <1>7 DEF v

(* An entry of the info dictionary. *)
LEMMA FieldsInner ==
  ASSUME NEW x \in Torrents, NEW n1, NEW n2 \in 0 .. Len(Info(x).dict) - 1,
         metainfo = Fields(x, n1, n2, JunkInt), NEW be,
         IsStr(Info(x).dict[n2 + 1].val) =>
           strncpy(string_value(be)) = Cropped(Info(x).dict[n2 + 1].val.str),
         IsInt(Info(x).dict[n2 + 1].val) => int_value(be).val = Info(x).dict[n2 + 1].val.int
  PROVE  /\ parse_metainfo(Info(x).dict[n2 + 1].key, be) = Fields(x, n1, n2 + 1, JunkInt)
         /\ Info(x).dict[n2 + 1].key # "info"
<1> DEFINE y == Info(x)
           key == y.dict[n2 + 1].key
           v == y.dict[n2 + 1].val
<1>0. Info(x) \in Value /\ IsInfo(Info(x))
  BY TorrentFacts
<1>1. y \in Value /\ IsDict(y) /\ DistinctKeys(y.dict) /\ Len(y.dict) \in Nat
  BY <1>0, InfoFacts
<1>2. n2 + 1 \in 1 .. Len(y.dict)
  BY <1>1
<1>3. /\ key \notin {"announce", "info"}
      /\ key \in {"pieces", "name"} => IsStr(v)
      /\ key \in {"piece length", "length"} => IsInt(v)
  BY <1>0, <1>2, InfoFacts
<1>4. \A k : /\ StrField(Seen(y, n2 + 1), k)
                = IF key = k THEN Cropped(v.str) ELSE StrField(Seen(y, n2), k)
             /\ IntField(Seen(y, n2 + 1), k)
                = IF key = k THEN ToInt(v.int) ELSE IntField(Seen(y, n2), k)
  BY <1>1, FieldStep
<1>5. /\ key \in {"pieces", "name"} => strncpy(string_value(be)) = Cropped(v.str)
      /\ key \in {"piece length", "length"} => int_value(be).val = v.int
  BY <1>3
<1> HIDE DEF key, v
<1>6. \A k : Fields(x, n1, k, JunkInt)
              = Metainfo(StrField(Seen(x, n1), "announce"),
                         IF InfoSeen(x, n1) THEN Encode[y] ELSE JunkStr,
                         StrField(Seen(y, k), "pieces"), StrField(Seen(y, k), "name"),
                         IntField(Seen(y, k), "piece length"), IntField(Seen(y, k), "length"),
                         JunkInt)
  BY DEF Fields
<1> HIDE DEF y
<1> DEFINE a == StrField(Seen(x, n1), "announce")
           h == IF InfoSeen(x, n1) THEN Encode[y] ELSE JunkStr
           p == StrField(Seen(y, n2), "pieces")
           n == StrField(Seen(y, n2), "name")
           s == IntField(Seen(y, n2), "piece length")
           l == IntField(Seen(y, n2), "length")
<1>8. metainfo = Metainfo(a, h, p, n, s, l, JunkInt)
  BY <1>6
<1> HIDE DEF a, h, p, n, s, l
<1>7. parse_metainfo(key, be) = Fields(x, n1, n2 + 1, JunkInt)
  <2>1. CASE key = "pieces"
    <3> DEFINE z == Cropped(v.str)
    <3>1. parse_metainfo(key, be) = [metainfo EXCEPT !.pieces = z]
      BY <1>5, <2>1 DEF parse_metainfo
    <3>2. Fields(x, n1, n2 + 1, JunkInt) = Metainfo(a, h, z, n, s, l, JunkInt)
      BY <1>4, <1>6, <2>1 DEF a, h, p, n, s, l
    <3> HIDE DEF z
    <3>3. [metainfo EXCEPT !.pieces = z] = Metainfo(a, h, z, n, s, l, JunkInt)
      BY <1>8, MetainfoSet
    <3> QED BY <3>1, <3>2, <3>3
  <2>2. CASE key = "name"
    <3> DEFINE z == Cropped(v.str)
    <3>1. parse_metainfo(key, be) = [metainfo EXCEPT !.name = z]
      BY <1>5, <2>2 DEF parse_metainfo
    <3>2. Fields(x, n1, n2 + 1, JunkInt) = Metainfo(a, h, p, z, s, l, JunkInt)
      BY <1>4, <1>6, <2>2 DEF a, h, p, n, s, l
    <3> HIDE DEF z
    <3>3. [metainfo EXCEPT !.name = z] = Metainfo(a, h, p, z, s, l, JunkInt)
      BY <1>8, MetainfoSet
    <3> QED BY <3>1, <3>2, <3>3
  <2>3. CASE key = "piece length"
    <3> DEFINE z == ToInt(v.int)
    <3>1. parse_metainfo(key, be) = [metainfo EXCEPT !.piece_length = z]
      BY <1>5, <2>3 DEF parse_metainfo
    <3>2. Fields(x, n1, n2 + 1, JunkInt) = Metainfo(a, h, p, n, z, l, JunkInt)
      BY <1>4, <1>6, <2>3 DEF a, h, p, n, s, l
    <3> HIDE DEF z
    <3>3. [metainfo EXCEPT !.piece_length = z] = Metainfo(a, h, p, n, z, l, JunkInt)
      BY <1>8, MetainfoSet
    <3> QED BY <3>1, <3>2, <3>3
  <2>4. CASE key = "length"
    <3> DEFINE z == ToInt(v.int)
    <3>1. parse_metainfo(key, be) = [metainfo EXCEPT !.length = z]
      BY <1>5, <2>4 DEF parse_metainfo
    <3>2. Fields(x, n1, n2 + 1, JunkInt) = Metainfo(a, h, p, n, s, z, JunkInt)
      BY <1>4, <1>6, <2>4 DEF a, h, p, n, s, l
    <3> HIDE DEF z
    <3>3. [metainfo EXCEPT !.length = z] = Metainfo(a, h, p, n, s, z, JunkInt)
      BY <1>8, MetainfoSet
    <3> QED BY <3>1, <3>2, <3>3
  <2>5. CASE key \notin {"pieces", "name", "piece length", "length"}
    <3>1. parse_metainfo(key, be) = metainfo
      BY <1>3, <2>5 DEF parse_metainfo
    <3>2. Fields(x, n1, n2, JunkInt) = Fields(x, n1, n2 + 1, JunkInt)
      BY <1>4, <1>6, <2>5
    <3> QED BY <3>1, <3>2
  <2> QED BY <2>1, <2>2, <2>3, <2>4, <2>5
<1> QED BY <1>3, <1>7 DEF key, y

(* The end of it. *)
LEMMA FieldsDone ==
  ASSUME NEW x \in Torrents, NEW n1, NEW n2, metainfo = Fields(x, n1, n2, JunkInt)
  PROVE  [metainfo EXCEPT !.num_pieces = -((-metainfo.length) \div metainfo.piece_length)]
           = Fields(x, n1, n2, InfoPieces(x, n2))
<1> DEFINE y == Seen(Info(x), n2)
           a == StrField(Seen(x, n1), "announce")
           h == IF InfoSeen(x, n1) THEN Encode[Info(x)] ELSE JunkStr
           p == StrField(y, "pieces")
           n == StrField(y, "name")
           s == IntField(y, "piece length")
           l == IntField(y, "length")
<1>1. metainfo = Metainfo(a, h, p, n, s, l, JunkInt)
  BY DEF Fields
<1>4. Fields(x, n1, n2, InfoPieces(x, n2)) = Metainfo(a, h, p, n, s, l, -((-l) \div s))
  BY DEF Fields, InfoPieces, Pieces
<1> HIDE DEF a, h, p, n, s, l, y
<1>2. metainfo.length = l /\ metainfo.piece_length = s
  BY <1>1, MetainfoSet
<1> DEFINE z == -((-l) \div s)
<1> HIDE DEF z
<1>3. [metainfo EXCEPT !.num_pieces = z] = Metainfo(a, h, p, n, s, l, z)
  BY <1>1, MetainfoSet
<1> QED BY <1>4, <1>2, <1>3 DEF z

-----------------------------------------------------------------------------
(* The inductive invariant.  It says of every part of the state how much   *)
(* of the two files is in it.                                              *)

Files == torrent \in Torrents /\ file = Encode[torrent]

Buffered ==
  /\ text \in Seq(Char) /\ Len(text) <= Len(file)
  /\ \A i \in 1 .. Len(text) : text[i] = file[i]
  /\ pc \in {"parse", "parsed"} => text = file

Begun ==
  pc \in {"open", "read", "exited"} => stack = << >> /\ metainfo = Fields(torrent, 0, 0, JunkInt)

(* n1 entries of the torrent file were taken, n2 of its info dictionary:    *)
(* before that came, in it, and after it.                                   *)
Before(n1) ==
  Len(stack) = 1 /\ ~InfoSeen(torrent, n1) /\ metainfo = Fields(torrent, n1, 0, JunkInt)

Inside(n1, n2) ==
  /\ Len(stack) = 2 /\ InfoSeen(torrent, n1)
  /\ Reading(Info(torrent), stack[2], n2)
  /\ metainfo = Fields(torrent, n1, n2, JunkInt)

InfoLen == Len(Info(torrent).dict)

After(n1) ==
  /\ Len(stack) = 1 /\ InfoSeen(torrent, n1)
  /\ metainfo = Fields(torrent, n1, InfoLen, InfoPieces(torrent, InfoLen))

Progress ==
  pc = "parse" =>
    /\ stack \in Seq(Object)
    /\ \E n1 \in 0 .. Len(torrent.dict) :
         /\ Reading(torrent, stack[1], n1)
         /\ Before(n1) \/ After(n1) \/ \E n2 \in 0 .. InfoLen : Inside(n1, n2)

Parsed ==
  pc = "parsed" =>
    /\ stack = << >>
    /\ metainfo = Fields(torrent, Len(torrent.dict), InfoLen, InfoPieces(torrent, InfoLen))

IInv ==
  /\ pc \in {"open", "read", "exited", "parse", "parsed"}
  /\ Files /\ Buffered /\ Begun /\ Progress /\ Parsed

LEMMA FilesFacts ==
  ASSUME Files
  PROVE  /\ torrent \in Value /\ IsDict(torrent) /\ file \in Seq(Char) /\ Len(file) \in Nat \ {0}
         /\ Len(torrent.dict) \in Nat /\ InfoLen \in Nat \ {0}
         /\ Info(torrent) \in Value /\ IsDict(Info(torrent))
<1>1. torrent \in Torrents /\ file = Encode[torrent]
  BY DEF Files
<1>2. /\ torrent \in Value /\ IsDict(torrent) /\ Len(torrent.dict) \in Nat
      /\ Info(torrent) \in Value /\ IsInfo(Info(torrent))
  BY <1>1, TorrentFacts
<1>3. IsDict(Info(torrent)) /\ InfoLen \in Nat \ {0}
  BY <1>2, InfoFacts DEF InfoLen
<1>4. file \in Seq(Char)
  BY <1>1, <1>2, EncodeTyped
<1>5. Len(file) # 0
  <2>1. FlattenSeq(Items(torrent)) \in Seq(Char) /\ file = Bracketed("d", FlattenSeq(Items(torrent)))
    BY <1>1, <1>2, CompoundWritten DEF Compound
  <2> DEFINE w == FlattenSeq(Items(torrent))
  <2>2. "d" \in Char
    BY CharFacts
  <2>3. Len(file) = Len(w) + 2
    BY <2>1, <2>2, BracketedTyped
  <2> HIDE DEF w
  <2>4. Len(w) \in Nat
    BY <2>1 DEF w
  <2> QED BY <2>3, <2>4
<1> QED BY <1>2, <1>3, <1>4, <1>5

(* What a turn of the two loops of parse_metainfo_file reads. *)
LEMMA NextEntry ==
  ASSUME NEW x, NEW be, NEW n, Reading(x, be, n), dict_has_next(be)
  PROVE  LET r == dict_get_next(AllLoops, be)
             v == x.dict[n + 1].val
         IN  /\ Reading(x, r.be, n + 1) /\ be.str < r.be.str
             /\ r.be \in Object /\ r.item \in Object
             /\ text[r.key.str] = x.dict[n + 1].key /\ n \in 0 .. Len(x.dict) - 1
             /\ IsStr(v) => strncpy(string_value(r.item)) = Cropped(v.str)
             /\ IsInt(v) => int_value(r.item).val = v.int
             /\ IsDict(v) => Reading(v, r.item, 0)
             /\ IsDict(v) /\ Len(v.dict) # 0 =>
                  LET span == dict_get_start_and_len(r.item) IN
                  SubSeq(text, span.start, span.start + span.len - 1) = Encode[v]
<1> DEFINE r == dict_get_next(AllLoops, be)
           v == x.dict[n + 1].val
<1>1. n < Len(x.dict) /\ text \in Seq(Char) /\ Len(x.dict) \in Nat
  BY ReadingFacts
<1>2. n \in 0 .. Len(x.dict)
  BY DEF Reading
<1>3. /\ Reading(x, r.be, n + 1) /\ be.str < r.be.str
      /\ text[r.key.str] = x.dict[n + 1].key
      /\ v \in Value
  BY <1>1, EntryRead
<1>4. PICK q \in Nat, l \in Int :
        r.item = bencode_init(q, l) /\ Holds(Encode[v], q) /\ l >= Len(Encode[v])
  BY <1>1, EntryRead
<1>5. r.be \in Object
  BY <1>3, ReadingFacts
<1> HIDE DEF r, v
<1>6. r.item \in Object
  BY <1>4 DEF bencode_init, Object
<1>7. /\ IsStr(v) => strncpy(string_value(r.item)) = Cropped(v.str)
      /\ IsInt(v) => int_value(r.item).val = v.int
      /\ IsDict(v) => Reading(v, r.item, 0)
      /\ IsDict(v) /\ Len(v.dict) # 0 =>
           LET span == dict_get_start_and_len(r.item) IN
           SubSeq(text, span.start, span.start + span.len - 1) = Encode[v]
  BY <1>1, <1>3, <1>4, ValueRead
<1> QED BY <1>1, <1>2, <1>3, <1>5, <1>6, <1>7 DEF r, v

(* There is one info dictionary. *)
LEMMA InfoOnce ==
  ASSUME NEW x \in Torrents, NEW n \in 0 .. Len(x.dict) - 1, x.dict[n + 1].key = "info"
  PROVE  ~InfoSeen(x, n)
<1>1. DistinctKeys(x.dict) /\ Len(x.dict) \in Nat /\ DOMAIN x.dict = 1 .. Len(x.dict)
  BY TorrentFacts
<1>2. \A i \in 1 .. n : i \in 1 .. Len(x.dict) /\ i # n + 1 /\ n + 1 \in 1 .. Len(x.dict)
  BY <1>1
<1> QED BY <1>1, <1>2 DEF InfoSeen, DistinctKeys

-----------------------------------------------------------------------------
(* The invariant holds at the start, and every action keeps it. *)
LEMMA InitIInv == Init => IInv
<1> SUFFICES ASSUME Init PROVE IInv
  OBVIOUS
<1>1. Files
  BY DEF Init, Files
<1>2. text = << >> /\ pc = "open" /\ stack = << >>
  BY DEF Init
<1>3. file \in Seq(Char) /\ Len(file) \in Nat
  BY <1>1, FilesFacts
<1>4. Buffered
  BY <1>2, <1>3 DEF Buffered
<1>5. metainfo = Fields(torrent, 0, 0, JunkInt)
  <2>1. torrent \in Torrents
    BY DEF Init
  <2> QED BY <2>1, FieldsStart DEF Init
<1>6. Begun /\ Progress /\ Parsed
  BY <1>2, <1>5 DEF Begun, Progress, Parsed
<1> QED BY <1>1, <1>2, <1>4, <1>6 DEF IInv

LEMMA OpenIInv == IInv /\ Open => IInv'
BY DEF IInv, Open, Files, Buffered, Begun, Progress, Parsed

LEMMA ReadIInv == IInv /\ Read => IInv'
<1> SUFFICES ASSUME IInv, Read PROVE IInv'
  OBVIOUS
<1>1. pc = "read" /\ Files /\ Buffered
  BY DEF IInv, Read
<1>2. text \in Seq(Char) /\ file \in Seq(Char) /\ Len(file) \in Nat /\ Len(text) \in Nat
  BY <1>1, FilesFacts DEF Buffered
<1>3. PICK n \in 1 .. ReadSize :
        /\ Len(text) + n <= Len(file)
        /\ text' = text \o SubSeq(file, Len(text) + 1, Len(text) + n)
  BY DEF Read
<1> DEFINE t == Len(text)
           w == SubSeq(file, t + 1, t + n)
<1>4. n \in Nat /\ n > 0
  BY MetainfoAssumption
<1>5. w \in Seq(Char) /\ Len(w) = n /\ \A i \in 1 .. n : w[i] = file[t + i]
  <2>0. t \in Nat /\ t + n <= Len(file)
    BY <1>2, <1>3
  <2> HIDE DEF t
  <2> QED BY <1>2, <1>4, <2>0
<1>6. Buffered'
  <2>1. text' = text \o w /\ t \in Nat /\ t + n <= Len(file) /\ t = Len(text)
    BY <1>2, <1>3
  <2>2. UNCHANGED <<file, pc>>
    BY DEF Read
  <2> HIDE DEF t, w
  <2> DEFINE u == text \o w
  <2>8. t = Len(text)
    BY <2>1
  <2>5. u \in Seq(Char) /\ Len(u) = t + n
    BY <1>2, <1>5, <2>8, ConcatProperties
  <2>6. /\ \A i \in 1 .. t : u[i] = text[i]
        /\ \A i \in t + 1 .. t + n : u[i] = w[i - t]
    BY <1>2, <1>4, <1>5, <2>1
  <2> HIDE DEF u
  <2>7. text' = u
    BY <2>1 DEF u
  <2>3. text' \in Seq(Char) /\ Len(text') = t + n
    BY <2>5, <2>7
  <2>4. ASSUME NEW i \in 1 .. t + n PROVE text'[i] = file[i]
    <3>1. CASE i <= t
      <4>1. i \in 1 .. t
        BY <1>4, <2>1, <3>1
      <4>2. text'[i] = text[i]
        BY <2>6, <2>7, <4>1
      <4> QED BY <1>1, <2>1, <4>1, <4>2 DEF Buffered
    <3>2. CASE i > t
      <4>1. i - t \in 1 .. n /\ t + (i - t) = i
        BY <1>4, <2>1, <3>2
      <4>2. text'[i] = w[i - t]
        BY <1>4, <2>1, <2>6, <2>7, <3>2
      <4>3. w[i - t] = file[t + (i - t)]
        BY <1>5, <4>1
      <4>4. t + (i - t) = i
        BY <4>1
      <4> QED BY <4>2, <4>3, <4>4, Zenon
    <3>3. i \in Int /\ t \in Int
      BY <1>4, <2>1
    <3> QED BY <3>1, <3>2, <3>3
  <2> QED BY <1>1, <2>1, <2>2, <2>3, <2>4 DEF Buffered
<1> QED BY <1>1, <1>6 DEF IInv, Read, Files, Begun, Progress, Parsed

LEMMA ReadEndIInv == IInv /\ ReadEnd => IInv'
<1> SUFFICES ASSUME IInv, ReadEnd PROVE IInv'
  OBVIOUS
<1>1. pc = "read" /\ Files /\ Buffered /\ Begun
  BY DEF IInv, ReadEnd
<1>2. /\ text \in Seq(Char) /\ file \in Seq(Char) /\ Len(file) \in Nat \ {0}
      /\ torrent \in Value /\ IsDict(torrent) /\ Len(torrent.dict) \in Nat
  BY <1>1, FilesFacts DEF Buffered
<1>3. text = file
  <2>1. Len(text) = Len(file)
    BY DEF ReadEnd
  <2> QED BY <1>1, <1>2, <2>1 DEF Buffered
<1> DEFINE b == bencode_init(1, Len(text))
<1>4. Reading(torrent, b, 0) /\ b \in Object
  <2>1. file = Encode[torrent]
    BY <1>1 DEF Files
  <2>2. Holds(text, 1)
    BY <1>2, <1>3 DEF Holds
  <2>3. Stands(torrent, 1)
    BY <1>2, <1>3, <2>1, <2>2 DEF Stands, Compound
  <2>4. b = Reader(torrent, 1, Len(text), 0) /\ b.start = 1 /\ b.len = Len(text) /\ b \in Object
    BY <1>2, <1>3 DEF Reader, Place, bencode_init, Object
  <2> HIDE DEF b
  <2> QED BY <1>2, <1>3, <2>1, <2>3, <2>4 DEF Reading
<1>5. stack' = << b >> /\ pc' = "parse" /\ UNCHANGED <<text, torrent, file, metainfo>>
  BY DEF ReadEnd
<1> HIDE DEF b
<1>6. stack' \in Seq(Object) /\ Len(stack') = 1 /\ stack'[1] = b
  BY <1>4, <1>5
<1>7. Reading(torrent, stack[1], 0)'
  BY <1>4, <1>5, <1>6 DEF Reading, Stands, Holds
<1>8. Before(0)'
  BY <1>1, <1>5, <1>6 DEF Before, Begun, InfoSeen
<1>9. Progress'
  BY <1>2, <1>5, <1>6, <1>7, <1>8 DEF Progress
<1> QED BY <1>1, <1>3, <1>5, <1>9 DEF IInv, Files, Buffered, Begun, Parsed

LEMMA ParseFacts ==
  ASSUME IInv, pc = "parse"
  PROVE  /\ Files /\ Buffered /\ stack \in Seq(Object) /\ Len(stack) \in Nat
         /\ Len(torrent.dict) \in Nat /\ InfoLen \in Nat \ {0} /\ torrent \in Torrents
         /\ \E n1 \in 0 .. Len(torrent.dict) :
              /\ Reading(torrent, stack[1], n1)
              /\ Before(n1) \/ After(n1) \/ \E n2 \in 0 .. InfoLen : Inside(n1, n2)
BY FilesFacts DEF IInv, Progress, Files

LEMMA TopSet ==
  ASSUME NEW S, NEW s \in Seq(S), NEW b \in S, NEW c \in S
  PROVE  LET t == [s EXCEPT ![Len(s)] = b] IN
         /\ t \in Seq(S) /\ Len(t) = Len(s)
         /\ Append(t, c) \in Seq(S) /\ Len(Append(t, c)) = Len(s) + 1
         /\ Len(s) = 1 => t[1] = b /\ Append(t, c)[1] = b /\ Append(t, c)[2] = c
         /\ Len(s) = 2 => t[1] = s[1] /\ t[2] = b
<1> DEFINE t == [s EXCEPT ![Len(s)] = b]
<1>0. Len(s) \in Nat /\ DOMAIN s = 1 .. Len(s) /\ s \in [1 .. Len(s) -> S]
  OBVIOUS
<1>1. t \in Seq(S) /\ Len(t) = Len(s) /\ DOMAIN t = 1 .. Len(s) /\ Len(s) \in Nat
  <2>1. t \in [1 .. Len(s) -> S]
    BY <1>0
  <2> HIDE DEF t
  <2> QED BY <1>0, <2>1
<1>2. /\ Len(s) = 1 => t[1] = b
      /\ Len(s) = 2 => t[1] = s[1] /\ t[2] = b
  OBVIOUS
<1> HIDE DEF t
<1>3. /\ Append(t, c) \in Seq(S) /\ Len(Append(t, c)) = Len(t) + 1
      /\ Len(t) = 1 => Append(t, c)[1] = t[1] /\ Append(t, c)[2] = c
  BY <1>1
<1> QED BY <1>1, <1>2, <1>3 DEF t

(* An entry that goes to parse_metainfo. *)
LEMMA ParseEntryIInv == IInv /\ ParseEntry => IInv'
<1> SUFFICES ASSUME IInv, ParseEntry PROVE IInv'
  OBVIOUS
<1> DEFINE r   == dict_get_next(AllLoops, Top)
           key == text[r.key.str]
<1>1. /\ pc = "parse" /\ dict_has_next(Top) /\ key # "info"
      /\ stack' = [stack EXCEPT ![Len(stack)] = r.be]
      /\ metainfo' = parse_metainfo(key, r.item)
      /\ UNCHANGED <<text, torrent, file, pc>>
  BY DEF ParseEntry
<1>2. /\ Files /\ Buffered /\ stack \in Seq(Object) /\ Len(stack) \in Nat
      /\ Len(torrent.dict) \in Nat /\ InfoLen \in Nat \ {0} /\ torrent \in Torrents
  BY <1>1, ParseFacts
<1>3. PICK n1 \in 0 .. Len(torrent.dict) :
        /\ Reading(torrent, stack[1], n1)
        /\ Before(n1) \/ After(n1) \/ \E n2 \in 0 .. InfoLen : Inside(n1, n2)
  BY <1>1, ParseFacts
<1>4. Progress'
  <2>1. CASE Len(stack) = 1
    <3>1. Top = stack[1]
      BY <2>1 DEF Top
    <3>2. /\ Reading(torrent, r.be, n1 + 1) /\ r.be \in Object
          /\ key = torrent.dict[n1 + 1].key /\ n1 \in 0 .. Len(torrent.dict) - 1
          /\ IsStr(torrent.dict[n1 + 1].val) =>
               strncpy(string_value(r.item)) = Cropped(torrent.dict[n1 + 1].val.str)
      BY <1>1, <1>3, <3>1, NextEntry
    <3> HIDE DEF r, key
    <3>3. stack' \in Seq(Object) /\ Len(stack') = 1 /\ stack'[1] = r.be
      BY <1>1, <1>2, <2>1, <3>2, TopSet
    <3>4. Reading(torrent, stack[1], n1 + 1)'
      BY <1>1, <3>2, <3>3 DEF Reading, Stands, Holds
    <3>5. n1 + 1 \in 0 .. Len(torrent.dict)
      BY <1>2, <3>2
    <3>6. InfoSeen(torrent, n1 + 1) <=> InfoSeen(torrent, n1)
      <4>1. \A i \in 1 .. n1 + 1 : i = n1 + 1 \/ i \in 1 .. n1
        OBVIOUS
      <4>2. 1 .. n1 \subseteq 1 .. n1 + 1
        OBVIOUS
      <4> QED BY <1>1, <3>2, <4>1, <4>2 DEF InfoSeen
    <3>7. ASSUME NEW n2, NEW num, metainfo = Fields(torrent, n1, n2, num)
          PROVE  metainfo' = Fields(torrent, n1 + 1, n2, num)
      <4>1. parse_metainfo(torrent.dict[n1 + 1].key, r.item) = Fields(torrent, n1 + 1, n2, num)
        BY <1>1, <1>2, <3>2, <3>7, FieldsOuter
      <4> QED BY <1>1, <3>2, <4>1
    <3>8. Before(n1) \/ After(n1)
      BY <1>3, <2>1 DEF Inside
    <3>9. CASE Before(n1)
      <4>1. Before(n1 + 1)'
        BY <1>1, <3>3, <3>6, <3>7, <3>9 DEF Before, InfoSeen
      <4> QED BY <1>1, <3>3, <3>4, <3>5, <4>1 DEF Progress
    <3>10. CASE After(n1)
      <4>1. metainfo' = Fields(torrent, n1 + 1, InfoLen, InfoPieces(torrent, InfoLen))
        BY <3>7, <3>10 DEF After
      <4>2. InfoLen' = InfoLen
        BY <1>1 DEF InfoLen
      <4>3. After(n1 + 1)'
        BY <1>1, <3>3, <3>6, <3>10, <4>1, <4>2 DEF After, InfoSeen
      <4> QED BY <1>1, <3>3, <3>4, <3>5, <4>3 DEF Progress
    <3> QED BY <3>8, <3>9, <3>10
  <2>2. CASE Len(stack) # 1
    <3>1. PICK n2 \in 0 .. InfoLen : Inside(n1, n2)
      BY <1>3, <2>2 DEF Before, After
    <3>2. /\ Len(stack) = 2 /\ InfoSeen(torrent, n1) /\ Reading(Info(torrent), stack[2], n2)
          /\ metainfo = Fields(torrent, n1, n2, JunkInt)
      BY <3>1 DEF Inside
    <3>3. Top = stack[2]
      BY <3>2 DEF Top
    <3> DEFINE y == Info(torrent)
    <3>4. /\ Reading(y, r.be, n2 + 1) /\ r.be \in Object
          /\ key = y.dict[n2 + 1].key /\ n2 \in 0 .. Len(y.dict) - 1
          /\ IsStr(y.dict[n2 + 1].val) =>
               strncpy(string_value(r.item)) = Cropped(y.dict[n2 + 1].val.str)
          /\ IsInt(y.dict[n2 + 1].val) => int_value(r.item).val = y.dict[n2 + 1].val.int
      BY <1>1, <3>2, <3>3, NextEntry
    <3> HIDE DEF r, key
    <3>5. parse_metainfo(key, r.item) = Fields(torrent, n1, n2 + 1, JunkInt)
      BY <1>2, <3>2, <3>4, FieldsInner
    <3>6. stack' \in Seq(Object) /\ Len(stack') = 2 /\ stack'[1] = stack[1] /\ stack'[2] = r.be
      BY <1>1, <1>2, <3>2, <3>4, TopSet
    <3>7. Reading(torrent, stack[1], n1)'
      BY <1>1, <1>3, <3>6 DEF Reading, Stands, Holds
    <3>8. Reading(Info(torrent), stack[2], n2 + 1)'
      <4>1. Info(torrent)' = y
        BY <1>1 DEF Info
      <4> HIDE DEF y
      <4> QED BY <1>1, <3>4, <3>6, <4>1 DEF Reading, Stands, Holds
    <3>9. InfoLen' = InfoLen /\ n2 + 1 \in 0 .. InfoLen
      BY <1>1, <1>2, <3>4 DEF InfoLen
    <3>10. Inside(n1, n2 + 1)'
      BY <1>1, <3>2, <3>5, <3>6, <3>8 DEF Inside, InfoSeen
    <3> QED BY <1>1, <3>6, <3>7, <3>9, <3>10 DEF Progress
  <2> QED BY <2>1, <2>2
<1> QED BY <1>1, <1>2, <1>4 DEF IInv, Files, Buffered, Begun, Parsed

(* The info dictionary. *)
LEMMA ParseInfoIInv == IInv /\ ParseInfo => IInv'
<1> SUFFICES ASSUME IInv, ParseInfo PROVE IInv'
  OBVIOUS
<1> DEFINE r    == dict_get_next(AllLoops, Top)
           span == dict_get_start_and_len(r.item)
           w    == SubSeq(text, span.start, span.start + span.len - 1)
<1>1. /\ pc = "parse" /\ dict_has_next(Top) /\ text[r.key.str] = "info"
      /\ stack' = Append([stack EXCEPT ![Len(stack)] = r.be], r.item)
      /\ metainfo' = [metainfo EXCEPT !.hashed = w]
      /\ UNCHANGED <<text, torrent, file, pc>>
  BY DEF ParseInfo
<1>2. /\ Files /\ Buffered /\ stack \in Seq(Object) /\ Len(stack) \in Nat
      /\ Len(torrent.dict) \in Nat /\ InfoLen \in Nat \ {0} /\ torrent \in Torrents
  BY <1>1, ParseFacts
<1>3. PICK n1 \in 0 .. Len(torrent.dict) :
        /\ Reading(torrent, stack[1], n1)
        /\ Before(n1) \/ After(n1) \/ \E n2 \in 0 .. InfoLen : Inside(n1, n2)
  BY <1>1, ParseFacts
<1>4. ~ \E n2 \in 0 .. InfoLen : Inside(n1, n2)
  <2> SUFFICES ASSUME NEW n2 \in 0 .. InfoLen, Inside(n1, n2) PROVE FALSE
    OBVIOUS
  <2>1. Reading(Info(torrent), Top, n2)
    BY DEF Inside, Top
  <2>2. text[r.key.str] = Info(torrent).dict[n2 + 1].key /\ n2 \in 0 .. Len(Info(torrent).dict) - 1
    BY <1>1, <2>1, NextEntry
  <2>3. Info(torrent) \in Value /\ IsInfo(Info(torrent))
    BY <1>2, TorrentFacts
  <2>4. n2 + 1 \in 1 .. Len(Info(torrent).dict)
    BY <1>2, <2>2 DEF InfoLen
  <2>5. Info(torrent).dict[n2 + 1].key # "info"
    BY <2>3, <2>4, InfoFacts
  <2> QED BY <1>1, <2>2, <2>5
<1>5. Len(stack) = 1
  BY <1>3, <1>4 DEF Before, After
<1> DEFINE v == torrent.dict[n1 + 1].val
<1>6. /\ Reading(torrent, r.be, n1 + 1) /\ r.be \in Object /\ r.item \in Object
      /\ torrent.dict[n1 + 1].key = "info" /\ n1 \in 0 .. Len(torrent.dict) - 1
      /\ IsDict(v) => Reading(v, r.item, 0)
      /\ IsDict(v) /\ Len(v.dict) # 0 => w = Encode[v]
  <2>1. Top = stack[1]
    BY <1>5 DEF Top
  <2> QED BY <1>1, <1>3, <2>1, NextEntry
<1>7. Before(n1)
  BY <1>2, <1>3, <1>4, <1>6, InfoOnce DEF After
<1>8. /\ [metainfo EXCEPT !.hashed = Encode[v]] = Fields(torrent, n1 + 1, 0, JunkInt)
      /\ InfoSeen(torrent, n1 + 1) /\ v = Info(torrent)
  BY <1>2, <1>6, <1>7, FieldsInfo DEF Before
<1>9. IsDict(v) /\ Len(v.dict) # 0 /\ Len(v.dict) = InfoLen
  BY <1>2, <1>8, FilesFacts DEF InfoLen
<1> HIDE DEF r, span, v, w
<1>10. /\ stack' \in Seq(Object) /\ Len(stack') = 2
       /\ stack'[1] = r.be /\ stack'[2] = r.item
  BY <1>1, <1>2, <1>5, <1>6, TopSet
<1>11. Reading(torrent, stack[1], n1 + 1)'
  BY <1>1, <1>6, <1>10 DEF Reading, Stands, Holds
<1>12. Reading(Info(torrent), stack[2], 0)'
  <2>1. Info(torrent)' = v
    BY <1>1, <1>8 DEF Info
  <2>2. Reading(v, r.item, 0)
    BY <1>6, <1>9
  <2> QED BY <1>1, <1>10, <2>1, <2>2 DEF Reading, Stands, Holds
<1>13. metainfo' = Fields(torrent, n1 + 1, 0, JunkInt)
  BY <1>1, <1>6, <1>8, <1>9
<1>14. Inside(n1 + 1, 0)'
  BY <1>1, <1>8, <1>10, <1>12, <1>13 DEF Inside, InfoSeen
<1>15. InfoLen' = InfoLen /\ 0 \in 0 .. InfoLen /\ n1 + 1 \in 0 .. Len(torrent.dict)
  BY <1>1, <1>2, <1>6 DEF InfoLen
<1>16. Progress'
  BY <1>1, <1>10, <1>11, <1>14, <1>15 DEF Progress
<1> QED BY <1>1, <1>2, <1>16 DEF IInv, Files, Buffered, Begun, Parsed

(* What is left of the stack when the info dictionary leaves it. *)
LEMMA FrontOfTwo ==
  ASSUME NEW S, NEW s \in Seq(S), Len(s) = 2
  PROVE  Front(s) \in Seq(S) /\ Len(Front(s)) = 1 /\ Front(s)[1] = s[1]
<1>1. Front(s) = SubSeq(s, 1, 1)
  BY DEF Front
<1>2. s[1] \in S
  OBVIOUS
<1> QED BY <1>1, <1>2

(* The end of the info dictionary. *)
LEMMA InfoEndIInv == IInv /\ InfoEnd => IInv'
<1> SUFFICES ASSUME IInv, InfoEnd PROVE IInv'
  OBVIOUS
<1>1. /\ pc = "parse" /\ Len(stack) > 1 /\ ~dict_has_next(Top) /\ stack' = Front(stack)
      /\ metainfo' = [metainfo EXCEPT
                        !.num_pieces = -((-metainfo.length) \div metainfo.piece_length)]
      /\ UNCHANGED <<text, torrent, file, pc>>
  BY DEF InfoEnd
<1>2. /\ Files /\ Buffered /\ stack \in Seq(Object) /\ Len(stack) \in Nat
      /\ Len(torrent.dict) \in Nat /\ InfoLen \in Nat \ {0} /\ torrent \in Torrents
  BY <1>1, ParseFacts
<1>3. PICK n1 \in 0 .. Len(torrent.dict) :
        /\ Reading(torrent, stack[1], n1)
        /\ Before(n1) \/ After(n1) \/ \E n2 \in 0 .. InfoLen : Inside(n1, n2)
  BY <1>1, ParseFacts
<1>13. Len(stack) # 1
  <2>1. Len(stack) > 1 /\ Len(stack) \in Nat
    BY <1>1, <1>2
  <2>2. \A n \in Nat : n > 1 => n # 1
    OBVIOUS
  <2> QED BY <2>1, <2>2
<1>4. PICK n2 \in 0 .. InfoLen : Inside(n1, n2)
  BY <1>3, <1>13 DEF Before, After
<1>5. /\ Len(stack) = 2 /\ InfoSeen(torrent, n1) /\ Reading(Info(torrent), stack[2], n2)
      /\ metainfo = Fields(torrent, n1, n2, JunkInt)
  BY <1>4 DEF Inside
<1>6. n2 = InfoLen
  <2>1. Top = stack[2]
    BY <1>5 DEF Top
  <2>2. ~(n2 < Len(Info(torrent).dict))
    BY <1>1, <1>5, <2>1, ReadingFacts
  <2> QED BY <1>2, <2>2 DEF InfoLen
<1>7. metainfo' = Fields(torrent, n1, InfoLen, InfoPieces(torrent, InfoLen))
  BY <1>1, <1>2, <1>5, <1>6, FieldsDone
<1>8. stack' \in Seq(Object) /\ Len(stack') = 1 /\ stack'[1] = stack[1]
  BY <1>1, <1>2, <1>5, FrontOfTwo
<1>9. Reading(torrent, stack[1], n1)'
  <2>1. text' = text /\ torrent' = torrent /\ stack'[1] = stack[1]
    BY <1>1, <1>8
  <2>2. Reading(torrent, stack[1], n1)
    BY <1>3
  <2> QED BY <2>1, <2>2 DEF Reading, Stands, Holds
<1>10. InfoLen' = InfoLen
  BY <1>1 DEF InfoLen
<1>11. After(n1)'
  BY <1>1, <1>5, <1>7, <1>8, <1>10 DEF After, InfoSeen
<1>12. Progress'
  BY <1>1, <1>8, <1>9, <1>11 DEF Progress
<1> QED BY <1>1, <1>2, <1>12 DEF IInv, Files, Buffered, Begun, Parsed

(* The end of the torrent file. *)
LEMMA ParseEndIInv == IInv /\ ParseEnd => IInv'
<1> SUFFICES ASSUME IInv, ParseEnd PROVE IInv'
  OBVIOUS
<1>1. /\ pc = "parse" /\ Len(stack) = 1 /\ ~dict_has_next(Top) /\ stack' = << >>
      /\ pc' = "parsed" /\ UNCHANGED <<text, torrent, file, metainfo>>
  BY DEF ParseEnd
<1>2. /\ Files /\ Buffered /\ stack \in Seq(Object) /\ Len(stack) \in Nat
      /\ Len(torrent.dict) \in Nat /\ torrent \in Torrents
  BY <1>1, ParseFacts
<1>3. PICK n1 \in 0 .. Len(torrent.dict) :
        /\ Reading(torrent, stack[1], n1)
        /\ Before(n1) \/ After(n1) \/ \E n2 \in 0 .. InfoLen : Inside(n1, n2)
  BY <1>1, ParseFacts
<1>4. n1 = Len(torrent.dict)
  <2>1. Top = stack[1]
    BY <1>1 DEF Top
  <2>2. ~(n1 < Len(torrent.dict))
    BY <1>1, <1>3, <2>1, ReadingFacts
  <2> QED BY <1>2, <2>2
<1>5. InfoSeen(torrent, n1)
  BY <1>2, <1>4, TorrentFacts DEF InfoSeen
<1>6. After(n1)
  BY <1>1, <1>3, <1>5 DEF Before, Inside
<1>7. Parsed'
  <2>1. InfoLen' = InfoLen
    BY <1>1 DEF InfoLen
  <2> QED BY <1>1, <1>4, <1>6, <2>1 DEF Parsed, After
<1>8. text = file
  BY <1>1, <1>2 DEF Buffered
<1> QED BY <1>1, <1>2, <1>7, <1>8 DEF IInv, Files, Buffered, Begun, Progress

LEMMA StutterIInv == IInv /\ UNCHANGED vars => IInv'
<1> SUFFICES ASSUME IInv, UNCHANGED vars PROVE IInv'
  OBVIOUS
<1>1. UNCHANGED <<text, torrent, file, pc, stack, metainfo>>
  BY DEF vars
<1>2. Progress'
  <2> SUFFICES ASSUME pc = "parse" PROVE Progress'
    BY <1>1 DEF Progress
  <2>1. PICK n1 \in 0 .. Len(torrent.dict) :
          /\ Reading(torrent, stack[1], n1)
          /\ Before(n1) \/ After(n1) \/ \E n2 \in 0 .. InfoLen : Inside(n1, n2)
    BY ParseFacts
  <2>2. stack \in Seq(Object)
    BY ParseFacts
  <2>3. Reading(torrent, stack[1], n1)'
    BY <1>1, <2>1 DEF Reading, Stands, Holds
  <2>4. InfoLen' = InfoLen
    BY <1>1 DEF InfoLen
  <2>5. /\ Before(n1) => Before(n1)'
        /\ After(n1) => After(n1)'
    BY <1>1, <2>4 DEF Before, After, InfoSeen
  <2>6. ASSUME NEW n2 \in 0 .. InfoLen, Inside(n1, n2) PROVE Inside(n1, n2)'
    <3>1. Info(torrent)' = Info(torrent)
      BY <1>1 DEF Info
    <3>2. Reading(Info(torrent), stack[2], n2)'
      BY <1>1, <2>6, <3>1 DEF Inside, Reading, Stands, Holds
    <3> QED BY <1>1, <2>6, <3>2 DEF Inside, InfoSeen
  <2> QED BY <1>1, <2>1, <2>2, <2>3, <2>4, <2>5, <2>6 DEF Progress
<1> QED BY <1>1, <1>2 DEF IInv, Files, Buffered, Begun, Parsed, InfoLen

LEMMA NextIInv == IInv /\ [Next]_vars => IInv'
<1> SUFFICES ASSUME IInv, [Next]_vars PROVE IInv'
  OBVIOUS
<1>1. CASE Terminated
  BY <1>1, StutterIInv DEF Terminated
<1>2. CASE UNCHANGED vars
  BY <1>2, StutterIInv
<1> QED BY <1>1, <1>2, OpenIInv, ReadIInv, ReadEndIInv, ParseEntryIInv, ParseInfoIInv, InfoEndIInv,
        ParseEndIInv DEF Next

(* So it always holds. *)
LEMMA Inductive == Spec => []IInv
BY InitIInv, NextIInv, PTL DEF Spec

-----------------------------------------------------------------------------
(* What follows from the invariant. *)

LEMMA StackFacts ==
  ASSUME IInv, NEW k \in DOMAIN stack
  PROVE  pc = "parse" /\ \E n : Reading(Parsing(k), stack[k], n)
<1>1. stack # << >>
  OBVIOUS
<1>2. pc = "parse"
  BY <1>1 DEF IInv, Begun, Parsed
<1>3. PICK n1 \in 0 .. Len(torrent.dict) :
        /\ Reading(torrent, stack[1], n1)
        /\ Before(n1) \/ After(n1) \/ \E n2 \in 0 .. InfoLen : Inside(n1, n2)
  BY <1>2, ParseFacts
<1>4. stack \in Seq(Object) /\ DOMAIN stack = 1 .. Len(stack)
  BY <1>2, ParseFacts
<1>5. CASE Len(stack) = 1
  <2>1. k = 1
    BY <1>4, <1>5
  <2> QED BY <1>2, <1>3, <2>1 DEF Parsing
<1>6. CASE Len(stack) # 1
  <2>1. PICK n2 \in 0 .. InfoLen : Inside(n1, n2)
    BY <1>3, <1>6 DEF Before, After
  <2>2. Len(stack) = 2 /\ Reading(Info(torrent), stack[2], n2)
    BY <2>1 DEF Inside
  <2>3. k = 1 \/ k = 2
    BY <1>4, <2>2
  <2> QED BY <1>2, <1>3, <2>2, <2>3 DEF Parsing
<1> QED BY <1>5, <1>6

(* The numbers of an info dictionary, as far as it was read. *)
LEMMA NumberFacts ==
  ASSUME NEW y \in Value, IsInfo(y), NEW n \in 0 .. Len(y.dict),
         NEW k, \A i \in 1 .. Len(y.dict) : y.dict[i].key = k => IsInt(y.dict[i].val)
  PROVE  RefInt(Seen(y, n), k) \in Int
<1>1. /\ IsDict(y) /\ DistinctKeys(y.dict) /\ Len(y.dict) \in Nat
      /\ \A i \in 1 .. Len(y.dict) : y.dict[i].val \in Value
  BY InfoFacts
<1>5. ASSUME NEW i \in 1 .. n PROVE i \in 1 .. Len(y.dict)
  BY <1>1
<1> DEFINE b == Seen(y, n)
<1>2. /\ DOMAIN b.dict = 1 .. n /\ \A i \in 1 .. n : b.dict[i] = y.dict[i]
      /\ DistinctKeys(b.dict)
  BY <1>1, SeenFacts
<1> HIDE DEF b
<1>3. CASE \E i \in 1 .. n : y.dict[i].key = k
  <2>1. PICK i \in 1 .. n : y.dict[i].key = k
    BY <1>3
  <2>2. i \in DOMAIN b.dict /\ b.dict[i] = y.dict[i] /\ i \in 1 .. Len(y.dict)
    BY <1>2, <1>5
  <2>3. \A else : Lookup(b, b.dict[i].key, else) = b.dict[i].val
    BY <1>2, <2>2, LookupIs
  <2>4. RefInt(b, k) = y.dict[i].val.int
    BY <2>1, <2>2, <2>3 DEF RefInt
  <2>5. y.dict[i].val.int \in Int
    BY <1>1, <2>1, <2>2, Kinds
  <2> QED BY <2>4, <2>5 DEF b
<1>4. CASE \A i \in 1 .. n : y.dict[i].key # k
  <2>1. \A i \in DOMAIN b.dict : b.dict[i].key # k
    BY <1>2, <1>4
  <2>2. \A else : Lookup(b, k, else) = else
    BY <2>1, LookupNot
  <2>3. RefInt(b, k) = JunkInt
    BY <2>2, JunkFacts DEF RefInt
  <2> QED BY <2>3, JunkFacts DEF b
<1> QED BY <1>3, <1>4

(* The values parse_metainfo_file ends with. *)
LEMMA EndFacts ==
  ASSUME Files
  PROVE  LET y == Info(torrent) IN
         /\ \A k : StrField(Seen(y, InfoLen), k) = Cropped(RefStr(y, k))
         /\ \A k : IntField(Seen(y, InfoLen), k) = ToInt(RefInt(y, k))
         /\ \A k : StrField(Seen(torrent, Len(torrent.dict)), k) = Cropped(RefStr(torrent, k))
         /\ InfoSeen(torrent, Len(torrent.dict))
         /\ RefInt(y, "piece length") \in 1 .. IntRange \div 2 - 1
         /\ RefInt(y, "length") \in Int
<1> DEFINE y == Info(torrent)
<1>1. torrent \in Torrents
  BY DEF Files
<1>2. /\ y \in Value /\ IsInfo(y) /\ torrent \in Value /\ IsDict(torrent)
      /\ InfoSeen(torrent, Len(torrent.dict))
  BY <1>1, TorrentFacts DEF InfoSeen
<1>3. IsDict(y) /\ RefInt(y, "piece length") \in 1 .. IntRange \div 2 - 1
      /\ RefInt(y, "length") \in Int
  BY <1>2, InfoFacts
<1>4. ASSUME NEW x \in Value, IsDict(x), NEW k
      PROVE  /\ StrField(Seen(x, Len(x.dict)), k) = Cropped(RefStr(x, k))
             /\ IntField(Seen(x, Len(x.dict)), k) = ToInt(RefInt(x, k))
  <2>1. \A else : Lookup(Seen(x, Len(x.dict)), k, else) = Lookup(x, k, else)
    BY <1>4, SeenAll
  <2> QED BY <2>1 DEF StrField, IntField, RefStr, RefInt
<1> QED BY <1>2, <1>3, <1>4 DEF InfoLen

(* The numbers of metainfo are in the range of int. *)
LEMMA NumberTyped ==
  ASSUME Files, NEW n \in 0 .. InfoLen
  PROVE  LET h == IntRange \div 2
             y == Seen(Info(torrent), n)
         IN  /\ IntField(y, "piece length") \in -h .. h - 1
             /\ IntField(y, "length") \in -h .. h - 1
             /\ InfoPieces(torrent, InfoLen) \in -h .. h - 1
<1> DEFINE h == IntRange \div 2
           y == Info(torrent)
<1>1. torrent \in Torrents
  BY DEF Files
<1>2. y \in Value /\ IsInfo(y)
  BY <1>1, TorrentFacts
<1>3. \A k \in {"piece length", "length"} : RefInt(Seen(y, n), k) \in Int
  BY <1>2, InfoFacts, NumberFacts DEF InfoLen
<1>4. h \in Nat \ {0} /\ \A i \in Int : ToInt(i) \in -h .. h - 1 /\ (i \in -h .. h - 1 => ToInt(i) = i)
  BY IntFacts
<1>5. /\ IntField(Seen(y, n), "piece length") \in -h .. h - 1
      /\ IntField(Seen(y, n), "length") \in -h .. h - 1
  BY <1>3, <1>4 DEF IntField
<1>6. InfoPieces(torrent, InfoLen) \in -h .. h - 1
  <2> DEFINE size   == IntField(Seen(y, InfoLen), "piece length")
             length == IntField(Seen(y, InfoLen), "length")
             s      == RefInt(y, "piece length")
  <2>1. s \in 1 .. h - 1 /\ RefInt(y, "length") \in Int
    BY EndFacts
  <2>2. size = ToInt(s) /\ length = ToInt(RefInt(y, "length"))
    BY EndFacts
  <2> HIDE DEF size, s, h
  <2>3. s \in Int /\ s \in -h .. h - 1 /\ s \in Nat \ {0}
    BY <1>4, <2>1
  <2>4. size \in Nat \ {0}
    BY <1>4, <2>2, <2>3
  <2>5. length \in -h .. h - 1
    BY <1>4, <2>1, <2>2
  <2> HIDE DEF length
  <2>6. Pieces(length, size) \in -h .. h - 1
    BY <1>4, <2>4, <2>5, PiecesFacts
  <2> QED BY <2>6 DEF InfoPieces, size, length
<1> QED BY <1>5, <1>6

(* Whenever it is, metainfo holds some part of the file. *)
LEMMA SomeFields ==
  ASSUME IInv
  PROVE  \E n1, n2 \in Nat, num \in {JunkInt, InfoPieces(torrent, InfoLen)} :
           n2 \in 0 .. InfoLen /\ metainfo = Fields(torrent, n1, n2, num)
<1>1. Files /\ pc \in {"open", "read", "exited", "parse", "parsed"}
  BY DEF IInv
<1>2. Len(torrent.dict) \in Nat /\ InfoLen \in Nat
  BY <1>1, FilesFacts
<1>3. CASE pc \in {"open", "read", "exited"}
  BY <1>2, <1>3 DEF IInv, Begun
<1>4. CASE pc = "parse"
  <2>1. PICK n1 \in 0 .. Len(torrent.dict) :
          Before(n1) \/ After(n1) \/ \E n2 \in 0 .. InfoLen : Inside(n1, n2)
    BY <1>4, ParseFacts
  <2> QED BY <1>2, <2>1 DEF Before, After, Inside
<1>5. CASE pc = "parsed"
  BY <1>2, <1>5 DEF IInv, Parsed
<1> QED BY <1>1, <1>3, <1>4, <1>5

(* It implies each of the properties. *)
LEMMA IInvTypeOK == IInv => TypeOK
<1> SUFFICES ASSUME IInv PROVE TypeOK
  OBVIOUS
<1>1. Files
  BY DEF IInv
<1>2. ASSUME NEW k \in DOMAIN stack
      PROVE  stack[k].str \in 1 .. Len(text) + 1 /\ stack[k].start \in 1 .. Len(text)
  <2>1. PICK n : Reading(Parsing(k), stack[k], n)
    BY StackFacts
  <2>2. /\ Len(text) \in Nat /\ stack[k].start \in 1 .. Len(text)
        /\ stack[k].str \in stack[k].start .. Len(text)
    BY <2>1, ReadingFacts
  <2> QED BY <2>2
<1>3. PICK n1, n2 \in Nat, num \in {JunkInt, InfoPieces(torrent, InfoLen)} :
        n2 \in 0 .. InfoLen /\ metainfo = Fields(torrent, n1, n2, num)
  BY SomeFields
<1> DEFINE h == IntRange \div 2
           y == Seen(Info(torrent), n2)
<1>4. /\ metainfo.piece_length = IntField(y, "piece length")
      /\ metainfo.length = IntField(y, "length")
      /\ metainfo.num_pieces = num
  BY <1>3 DEF Fields, Metainfo
<1>5. /\ IntField(y, "piece length") \in -h .. h - 1
      /\ IntField(y, "length") \in -h .. h - 1
      /\ InfoPieces(torrent, InfoLen) \in -h .. h - 1
  BY <1>1, <1>3, NumberTyped
<1>6. JunkInt \in -h .. h - 1
  BY JunkFacts
<1> HIDE DEF h, y
<1>7. {metainfo.piece_length, metainfo.length, metainfo.num_pieces} \subseteq -h .. h - 1
  BY <1>3, <1>4, <1>5, <1>6
<1> QED BY <1>2, <1>7 DEF TypeOK, IInv, h

(* The position of the reader, as a length of text. *)
LEMMA OffsetIs ==
  ASSUME NEW x \in Value, IsDict(x), NEW n \in 0 .. Len(x.dict)
  PROVE  Offset(x, n) = Len(EncodeEntries(SubSeq(x.dict, 1, n)))
<1> DEFINE w == Items(x)
           d == x.dict
           s == SubSeq(x.dict, 1, n)
           F(e) == EncodeStr(<<e.key>>) \o Encode[e.val]
<1>1. Len(d) \in Nat /\ DOMAIN d = 1 .. Len(d)
  BY DictFacts
<1>2. DOMAIN s = 1 .. n /\ \A i \in 1 .. n : s[i] = d[i]
  BY DictFacts
<1>3. w = [i \in 1 .. Len(d) |-> F(d[i])]
  BY <1>1 DEF Items, Chunks
<1>4. w \in Seq(Seq(Char)) /\ Len(w) = Len(d)
  BY CompoundWritten DEF Compound
<1>5. EncodeEntries(s) = FlattenSeq([i \in 1 .. n |-> F(s[i])])
  BY <1>2 DEF EncodeEntries
<1> HIDE DEF s, d
<1>6. SubSeq(w, 1, n) = [i \in 1 .. n |-> F(s[i])]
  <2>1. n \in 0 .. Len(d)
    BY DEF d
  <2>4. \A i \in 1 .. n : i \in 1 .. Len(d)
    BY <1>1, <2>1
  <2>5. \A i \in 1 .. Len(d) : w[i] = F(d[i])
    BY <1>3
  <2>2. \A i \in 1 .. n : w[i] = F(s[i])
    BY <1>2, <2>4, <2>5
  <2> HIDE DEF w, F
  <2>3. SubSeq(w, 1, n) = [i \in 1 .. n |-> w[i]]
    BY <1>1, <1>4, <2>1
  <2> QED BY <2>2, <2>3
<1> QED BY <1>5, <1>6 DEF Offset, Prefix, s

LEMMA IInvInSync == IInv => InSync
<1> SUFFICES ASSUME IInv, NEW k \in DOMAIN stack, stack[k].str # stack[k].start
             PROVE  \E n \in 0 .. Len(Parsing(k).dict) :
                      stack[k].str = stack[k].start + 1
                                       + Len(EncodeEntries(SubSeq(Parsing(k).dict, 1, n)))
  BY DEF InSync
<1>1. PICK n : Reading(Parsing(k), stack[k], n)
  BY StackFacts
<1>2. stack[k].str = stack[k].start + 1 + Offset(Parsing(k), n) /\ Parsing(k) \in Value
  BY <1>1, ReadingFacts
<1>3. IsDict(Parsing(k)) /\ n \in 0 .. Len(Parsing(k).dict)
  BY <1>1 DEF Reading
<1>4. Offset(Parsing(k), n) = Len(EncodeEntries(SubSeq(Parsing(k).dict, 1, n)))
  BY <1>2, <1>3, OffsetIs
<1> QED BY <1>2, <1>3, <1>4

LEMMA IInvCarryCovers == IInv => CarryCovers
<1> SUFFICES ASSUME IInv, NEW k \in DOMAIN stack
             PROVE  stack[k].len >= Len(Encode[Parsing(k)])
  BY DEF CarryCovers
<1> QED BY StackFacts DEF Reading

LEMMA IInvInfoHashed == IInv => InfoHashed
<1> SUFFICES ASSUME IInv, pc = "parsed"
             PROVE  metainfo.hashed = Encode[Info(torrent)]
  BY DEF InfoHashed
<1>1. Files /\ metainfo = Fields(torrent, Len(torrent.dict), InfoLen, InfoPieces(torrent, InfoLen))
  BY DEF IInv, Parsed
<1>2. InfoSeen(torrent, Len(torrent.dict))
  BY <1>1, EndFacts
<1> QED BY <1>1, <1>2 DEF Fields, Metainfo

LEMMA IInvParsedRight == IInv => ParsedRight
<1> SUFFICES ASSUME IInv, pc = "parsed" PROVE ParsedRight
  BY DEF ParsedRight
<1> DEFINE y == Info(torrent)
           h == IntRange \div 2
           size == RefInt(y, "piece length")
           length == RefInt(y, "length")
<1>1. Files /\ metainfo = Fields(torrent, Len(torrent.dict), InfoLen, InfoPieces(torrent, InfoLen))
  BY DEF IInv, Parsed
<1>2. /\ metainfo.announce = Cropped(RefStr(torrent, "announce"))
      /\ metainfo.name = Cropped(RefStr(y, "name"))
      /\ metainfo.pieces = Cropped(RefStr(y, "pieces"))
      /\ metainfo.piece_length = ToInt(size) /\ metainfo.length = ToInt(length)
      /\ metainfo.num_pieces = Pieces(ToInt(length), ToInt(size))
  <2> DEFINE z == Seen(y, InfoLen)
             a == StrField(Seen(torrent, Len(torrent.dict)), "announce")
             p == StrField(z, "pieces")
             n == StrField(z, "name")
             s == IntField(z, "piece length")
             l == IntField(z, "length")
             c == InfoPieces(torrent, InfoLen)
             f == IF InfoSeen(torrent, Len(torrent.dict)) THEN Encode[y] ELSE JunkStr
  <2>1. metainfo = Metainfo(a, f, p, n, s, l, c) /\ c = Pieces(l, s)
    BY <1>1 DEF Fields, InfoPieces
  <2>2. /\ a = Cropped(RefStr(torrent, "announce"))
        /\ p = Cropped(RefStr(y, "pieces")) /\ n = Cropped(RefStr(y, "name"))
        /\ s = ToInt(size) /\ l = ToInt(length)
    BY <1>1, EndFacts
  <2> HIDE DEF z, a, p, n, s, l, c, f
  <2>3. /\ metainfo.announce = a /\ metainfo.name = n /\ metainfo.pieces = p
        /\ metainfo.piece_length = s /\ metainfo.length = l /\ metainfo.num_pieces = c
    BY <2>1 DEF Metainfo
  <2> QED BY <2>1, <2>2, <2>3
<1>3. size \in 1 .. h - 1 /\ length \in Int
  BY <1>1, EndFacts
<1>4. h \in Nat \ {0} /\ \A i \in Int : ToInt(i) \in -h .. h - 1 /\ (i \in -h .. h - 1 => ToInt(i) = i)
  BY IntFacts
<1>5. ToInt(size) = size /\ size \in Nat \ {0}
  <2> HIDE DEF size, h
  <2>1. size \in Int /\ size \in -h .. h - 1 /\ size \in Nat \ {0}
    BY <1>3, <1>4
  <2> QED BY <1>4, <2>1
<1>6. ASSUME Fits(length)
      PROVE  /\ metainfo.length = length
             /\ metainfo.num_pieces * metainfo.piece_length
                  \in length .. length + metainfo.piece_length - 1
  <2>1. length = ToInt(length) /\ length \in -h .. h - 1
    BY <1>3, <1>4, <1>6 DEF Fits
  <2>2. Pieces(length, size) * size \in length .. length + size - 1
    BY <1>4, <1>5, <2>1, PiecesFacts
  <2> HIDE DEF length, size
  <2> QED BY <1>2, <1>5, <2>1, <2>2
<1>7. /\ Zero \notin Range(RefStr(torrent, "announce")) =>
           metainfo.announce = RefStr(torrent, "announce")
      /\ Zero \notin Range(RefStr(y, "name")) => metainfo.name = RefStr(y, "name")
      /\ Zero \notin Range(RefStr(y, "pieces")) => metainfo.pieces = RefStr(y, "pieces")
  <2>1. ASSUME NEW x \in Value, IsDict(x), NEW k,
               \A i \in 1 .. Len(x.dict) : x.dict[i].key = k => IsStr(x.dict[i].val)
        PROVE  \E S : RefStr(x, k) \in Seq(S)
    <3>1. DOMAIN x.dict = 1 .. Len(x.dict) /\ \A i \in 1 .. Len(x.dict) : x.dict[i].val \in Value
      BY <2>1, DictFacts
    <3>2. CASE \E i \in 1 .. Len(x.dict) : x.dict[i].key = k
      <4> DEFINE i == CHOOSE i \in DOMAIN x.dict : x.dict[i].key = k
      <4>1. i \in DOMAIN x.dict /\ x.dict[i].key = k
        BY <3>1, <3>2
      <4>2. RefStr(x, k) = x.dict[i].val.str
        BY <3>1, <3>2 DEF RefStr, Lookup
      <4> HIDE DEF i
      <4>3. x.dict[i].val.str \in Seq(Char)
        BY <2>1, <3>1, <4>1, Kinds
      <4> QED BY <4>2, <4>3
    <3>3. CASE \A i \in 1 .. Len(x.dict) : x.dict[i].key # k
      <4>1. RefStr(x, k) = JunkStr
        BY <3>1, <3>3, LookupNot, JunkFacts DEF RefStr
      <4>2. JunkStr \in Seq({"junk"})
        BY DEF JunkStr
      <4> QED BY <4>1, <4>2
    <3> QED BY <3>2, <3>3
  <2>2. torrent \in Torrents
    BY <1>1 DEF Files
  <2>3. \E S : RefStr(torrent, "announce") \in Seq(S)
    BY <2>1, <2>2, TorrentFacts
  <2>4. y \in Value /\ IsInfo(y)
    BY <2>2, TorrentFacts
  <2>5. \A k \in {"pieces", "name"} : \E S : RefStr(y, k) \in Seq(S)
    BY <2>1, <2>4, InfoFacts
  <2>6. ASSUME NEW s, \E S : s \in Seq(S), Zero \notin Range(s) PROVE Cropped(s) = s
    BY <2>6, CroppedWhole
  <2> QED BY <1>2, <2>3, <2>5, <2>6
<1> QED BY <1>2, <1>5, <1>6, <1>7 DEF ParsedRight

LEMMA IInvAccepted == IInv => Accepted
<1> SUFFICES ASSUME IInv, pc = "parsed" PROVE bencode_validate
  BY DEF Accepted
<1>1. Files /\ text = file
  BY DEF IInv, Buffered
<1>2. torrent \in Value /\ text = Encode[torrent]
  BY <1>1, FilesFacts DEF Files
<1> QED BY <1>2, ValidatesWritten

(* The two actions that take an entry move the reader on. *)
LEMMA StepEntriesAdvance ==
  ASSUME IInv, [Next]_vars, pc = "parse", pc' = "parse", Len(stack) <= Len(stack'),
         ~UNCHANGED vars
  PROVE  Top.str < stack'[Len(stack)].str
<1> DEFINE r == dict_get_next(AllLoops, Top)
<1>1. stack \in Seq(Object) /\ Len(stack) \in Nat
  BY ParseFacts
<1>2. ASSUME dict_has_next(Top) PROVE Top.str < r.be.str /\ r.be \in Object /\ r.item \in Object
                                      /\ Len(stack) \in 1 .. 2
  <2>1. Len(stack) \in {1, 2}
    BY ParseFacts DEF Before, After, Inside
  <2>2. Len(stack) \in DOMAIN stack
    BY <1>1, <2>1
  <2>3. PICK n : Reading(Parsing(Len(stack)), Top, n)
    BY <2>2, StackFacts DEF Top
  <2> QED BY <1>2, <2>1, <2>3, NextEntry
<1>3. CASE ParseEntry
  <2>1. dict_has_next(Top) /\ stack' = [stack EXCEPT ![Len(stack)] = r.be]
    BY <1>3 DEF ParseEntry
  <2> HIDE DEF r
  <2>2. stack'[Len(stack)] = r.be
    BY <1>1, <1>2, <2>1
  <2> QED BY <1>2, <2>1, <2>2
<1>4. CASE ParseInfo
  <2>1. /\ dict_has_next(Top)
        /\ stack' = Append([stack EXCEPT ![Len(stack)] = r.be], r.item)
    BY <1>4 DEF ParseInfo
  <2> HIDE DEF r
  <2> DEFINE t == [stack EXCEPT ![Len(stack)] = r.be]
  <2>2. t \in Seq(Object) /\ Len(t) = Len(stack) /\ t[Len(stack)] = r.be
    BY <1>1, <1>2, <2>1, ExceptSeq
  <2> HIDE DEF t
  <2>3. stack' = Append(t, r.item)
    BY <2>1 DEF t
  <2>4. stack'[Len(stack)] = r.be
    BY <1>2, <2>1, <2>2, <2>3
  <2> QED BY <1>2, <2>1, <2>4
<1>5. CASE InfoEnd
  <2>1. stack' = Front(stack) /\ Len(stack) > 1
    BY <1>5 DEF InfoEnd
  <2>2. Len(stack') < Len(stack)
    BY <1>1, <2>1 DEF Front
  <2>3. Len(stack') \in Nat
    BY <1>1, <2>1 DEF Front
  <2> QED BY <1>1, <2>2, <2>3
<1>6. ~Open /\ ~Read /\ ~ReadEnd /\ ~ParseEnd /\ ~Terminated
  BY DEF Open, Read, ReadEnd, ParseEnd, Terminated
<1> QED BY <1>3, <1>4, <1>5, <1>6 DEF Next

-----------------------------------------------------------------------------
(* The theorems. *)

(* The numbers stay in the range of int, and the readers in the buffer.    *)
THEOREM MetainfoTypes == Spec => []TypeOK
BY Inductive, IInvTypeOK, PTL

(* Whatever the values of a dictionary are and whatever is nested in them, *)
(* dict_get_next leaves the reader between two entries.                    *)
THEOREM ReaderInSync == Spec => []InSync
BY Inductive, IInvInSync, PTL

(* No dictionary is cut short by the length carry_length hands on.         *)
THEOREM LengthSuffices == Spec => []CarryCovers
BY Inductive, IInvCarryCovers, PTL

(* parse_metainfo_file ends with what the torrent file says, in whatever   *)
(* order it says it.                                                       *)
THEOREM MetainfoRight == Spec => []ParsedRight
BY Inductive, IInvParsedRight, PTL

(* The infohash is of the bytes of the info dictionary.                    *)
THEOREM HashOfInfo == Spec => []InfoHashed
BY Inductive, IInvInfoHashed, PTL

(* bencode_validate accepts every torrent file.                            *)
THEOREM FilesAccepted == Spec => []Accepted
BY Inductive, IInvAccepted, PTL

(* Every turn over a dictionary moves its reader forward.                  *)
THEOREM ParsingAdvances == Spec => EntriesAdvance
<1>1. IInv /\ [Next]_vars =>
        [pc = "parse" /\ pc' = "parse" /\ Len(stack) <= Len(stack') =>
           Top.str < stack'[Len(stack)].str]_vars
  BY StepEntriesAdvance
<1> QED
  BY <1>1, Inductive, PTL DEF Spec, EntriesAdvance
=============================================================================
