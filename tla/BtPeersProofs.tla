--------------------------- MODULE BtPeersProofs ----------------------------
(***************************************************************************)
(* Proofs about BtPeers, for every list of peers and every size of the     *)
(* arrays it is read into.                                                 *)
(***************************************************************************)
EXTENDS BtPeers, WellFoundedInduction, TLAPS

-----------------------------------------------------------------------------
LEMMA Bounds ==
  /\ MaxPeers \in Nat \ {0} /\ UrlSize \in Nat /\ BufSize \in Nat /\ UrlSize < BufSize
  /\ Newline \notin Char /\ Colon \in Char /\ Colon \notin Digit
  /\ Residues \subseteq Line
BY PeersAssumption

LEMMA FileFacts ==
  ASSUME file \in PeerFiles
  PROVE  /\ file.lines \in Seq(Line) /\ file.rest \in Line /\ Len(file.lines) \in Nat
         /\ \A k \in 1 .. Len(file.lines) : file.lines[k] \in Line
BY PeersAssumption DEF Line

LEMMA RowFacts ==
  ASSUME file \in PeerFiles, row \in 1 .. Len(file.lines) + 1
  PROVE  /\ RowText \in Line /\ Len(RowText) \in Nat
         /\ row <= Len(file.lines) => RowText = file.lines[row]
         /\ row > Len(file.lines) => row = Len(file.lines) + 1 /\ RowText = file.rest
<1>1. /\ file.lines \in Seq(Line) /\ file.rest \in Line /\ Len(file.lines) \in Nat
      /\ \A k \in 1 .. Len(file.lines) : file.lines[k] \in Line
  BY FileFacts
<1>2. RowText \in Line
  BY <1>1 DEF RowText
<1>3. Len(RowText) \in Nat
  BY <1>2 DEF Line
<1>4. QED
  BY <1>1, <1>2, <1>3 DEF RowText

(* One more byte of the file. *)
LEMMA ForwardFacts ==
  ASSUME TypeOK, ~AtEnd, Forward, file' = file
  PROVE  /\ row' \in 1 .. Len(file.lines) + 1 /\ col' \in 0 .. Len(RowText')
         /\ ReadByte \in Byte
         /\ ReadByte # Newline =>
              /\ InRow /\ row' = row /\ col' = col + 1 /\ RowText' = RowText
              /\ ReadByte = RowText[col + 1]
         /\ ReadByte = Newline =>
              row <= Len(file.lines) /\ row' = row + 1 /\ col' = 0 /\ col = Len(RowText)
<1>1. /\ file \in PeerFiles /\ row \in 1 .. Len(file.lines) + 1 /\ col \in 0 .. Len(RowText)
  BY DEF TypeOK
<1>2. /\ RowText \in Seq(Char) /\ Len(RowText) \in Nat /\ Len(file.lines) \in Nat
      /\ row > Len(file.lines) => RowText = file.rest
  BY <1>1, RowFacts, FileFacts DEF Line
<1>3. CASE InRow
  <2>1. row' = row /\ col' = col + 1 /\ RowText' = RowText /\ ReadByte = RowText[col + 1]
    BY <1>3 DEF Forward, ReadByte, RowText
  <2>2. col + 1 \in 1 .. Len(RowText)
    BY <1>1, <1>2, <1>3 DEF InRow
  <2>3. RowText[col + 1] \in Char
    BY <1>2, <2>2
  <2>4. QED
    BY <1>1, <1>3, <2>1, <2>2, <2>3, Bounds DEF Byte
<1>4. CASE ~InRow
  <2>1. col = Len(RowText)
    BY <1>1, <1>2, <1>4 DEF InRow
  <2>2. row <= Len(file.lines)
    BY <1>1, <1>2, <2>1 DEF AtEnd
  <2>3. row' = row + 1 /\ col' = 0 /\ ReadByte = Newline
    BY <1>4 DEF Forward, ReadByte
  <2>4. row' \in 1 .. Len(file.lines) + 1
    BY <1>1, <1>2, <2>2, <2>3
  <2>5. Len(RowText') \in Nat
    <3>1. file.lines \in Seq(Seq(Char)) /\ file.rest \in Seq(Char)
      BY <1>1, FileFacts DEF Line
    <3>2. RowText' = IF row' <= Len(file.lines) THEN file.lines[row'] ELSE file.rest
      BY DEF RowText
    <3>3. RowText' \in Seq(Char)
      BY <1>2, <2>4, <3>1, <3>2
    <3>4. QED
      BY <3>3
  <2>6. QED
    BY <2>1, <2>2, <2>3, <2>4, <2>5 DEF Byte
<1>5. QED
  BY <1>3, <1>4

-----------------------------------------------------------------------------
(* The arrays. *)

LEMMA TypeInit == Init => TypeOK
<1> SUFFICES ASSUME Init PROVE TypeOK
  OBVIOUS
<1>1. file \in PeerFiles /\ row = 1 /\ Len(file.lines) \in Nat
  BY FileFacts DEF Init
<1>2. row \in 1 .. Len(file.lines) + 1
  BY <1>1
<1>3. Len(RowText) \in Nat
  BY <1>1, <1>2, RowFacts
<1>4. QED
  BY <1>2, <1>3, Bounds DEF Init, TypeOK

LEMMA TypeStep == TypeOK /\ [Next]_vars => TypeOK'
<1> SUFFICES ASSUME TypeOK, [Next]_vars PROVE TypeOK'
  OBVIOUS
<1>1. /\ buf \in Seq(Byte) /\ Len(buf) \in Nat /\ pl \in Seq(Seq(Byte)) /\ Len(pl) \in Nat
      /\ MaxPeers \in Nat /\ BufSize \in Nat
  BY Bounds DEF TypeOK
<1>2. CASE StoreByte
  <2>1. ~AtEnd /\ Forward /\ file' = file
    BY <1>2 DEF StoreByte
  <2>2. row' \in 1 .. Len(file.lines) + 1 /\ col' \in 0 .. Len(RowText') /\ ReadByte \in Byte
    BY <2>1, ForwardFacts
  <2>3. Append(buf, ReadByte) \in Seq(Byte) /\ Len(Append(buf, ReadByte)) = Len(buf) + 1
    BY <1>1, <2>2
  <2>4. QED
    BY <1>1, <1>2, <2>2, <2>3 DEF StoreByte, TypeOK
<1>3. CASE AddPeer
  <2>1. ~AtEnd /\ Forward /\ file' = file
    BY <1>3 DEF AddPeer
  <2>2. row' \in 1 .. Len(file.lines) + 1 /\ col' \in 0 .. Len(RowText')
    BY <2>1, ForwardFacts
  <2>3. Append(pl, buf) \in Seq(Seq(Byte)) /\ Len(Append(pl, buf)) = Len(pl) + 1
    BY <1>1
  <2>4. QED
    BY <1>1, <1>3, <2>2, <2>3 DEF AddPeer, TypeOK
<1>4. CASE ListFull
  <2>1. ~AtEnd /\ Forward /\ file' = file
    BY <1>4 DEF ListFull
  <2>2. row' \in 1 .. Len(file.lines) + 1 /\ col' \in 0 .. Len(RowText')
    BY <2>1, ForwardFacts
  <2>3. QED
    BY <1>4, <2>2 DEF ListFull, TypeOK
<1>5. CASE FileEnd \/ Overrun \/ Connect \/ NoPeer \/ UNCHANGED vars
  <2>1. /\ UNCHANGED <<file, row, col, high, buf, pl>>
        /\ pc' \in {pc, "listed", "connected", "undefined"}
    BY <1>5 DEF FileEnd, Overrun, Connect, NoPeer, vars
  <2>2. RowText' = RowText
    BY <2>1 DEF RowText
  <2>3. QED
    BY <2>1, <2>2 DEF TypeOK
<1>6. QED
  BY <1>2, <1>3, <1>4, <1>5 DEF Next, Terminated

(***************************************************************************)
(* Whatever the file holds, buf keeps to its size and the list to the      *)
(* number of its entries, unless the program has overrun one of them.      *)
(***************************************************************************)
THEOREM PeersTypeCorrect == Spec => []TypeOK
BY TypeInit, TypeStep, PTL DEF Spec

-----------------------------------------------------------------------------
(* What was read so far when newlines are recognised: the list has the     *)
(* lines before this one, and buf what was read of this one.               *)
ListInv ==
  /\ Len(pl) <= Len(file.lines)
  /\ \A k \in 1 .. Len(pl) : pl[k] = file.lines[k]
  /\ pc = "read" => row = Len(pl) + 1 /\ buf = SubSeq(RowText, 1, col)
  /\ pc \in {"listed", "connected"} => Len(pl) = MaxPeers \/ Len(pl) = Len(file.lines)

(* When they are not, it has nothing. *)
PeersInv == IF high = 0 THEN ListInv ELSE pl = << >>

LEMMA ListInit == Init => ListInv /\ PeersInv
<1> SUFFICES ASSUME Init PROVE ListInv /\ PeersInv
  OBVIOUS
<1>2. Len(file.lines) \in Nat
  BY FileFacts DEF Init
<1>3. buf = SubSeq(RowText, 1, col)
  BY DEF Init
<1>4. QED
  BY <1>2, <1>3 DEF Init, ListInv, PeersInv

(* At a newline buf has the line. *)
LEMMA WholeLine ==
  ASSUME TypeOK, ListInv, pc = "read", ~AtEnd, IsNewline
  PROVE  row <= Len(file.lines) /\ buf = file.lines[row]
<1>1. /\ file \in PeerFiles /\ row \in 1 .. Len(file.lines) + 1 /\ col \in 0 .. Len(RowText)
  BY DEF TypeOK
<1>2. /\ RowText \in Seq(Char) /\ Len(RowText) \in Nat /\ Len(file.lines) \in Nat
      /\ row <= Len(file.lines) => RowText = file.lines[row]
      /\ row > Len(file.lines) => RowText = file.rest
  BY <1>1, RowFacts, FileFacts DEF Line
<1>3. ~InRow
  <2>1. SUFFICES ASSUME InRow PROVE FALSE
    OBVIOUS
  <2>2. col + 1 \in 1 .. Len(RowText)
    BY <1>1, <1>2, <2>1 DEF InRow
  <2>3. ReadByte \in Char
    BY <1>2, <2>1, <2>2 DEF ReadByte
  <2>4. QED
    BY <2>3, Bounds DEF IsNewline
<1>4. col = Len(RowText)
  BY <1>1, <1>2, <1>3 DEF InRow
<1>5. row <= Len(file.lines)
  BY <1>1, <1>2, <1>4 DEF AtEnd
<1>6. buf = SubSeq(RowText, 1, Len(RowText))
  BY <1>4 DEF ListInv
<1>7. QED
  BY <1>2, <1>5, <1>6

LEMMA ListStep == TypeOK /\ high = 0 /\ ListInv /\ [Next]_vars => ListInv'
<1> SUFFICES ASSUME TypeOK, high = 0, ListInv, [Next]_vars PROVE ListInv'
  OBVIOUS
<1>1. /\ file \in PeerFiles /\ row \in 1 .. Len(file.lines) + 1 /\ col \in 0 .. Len(RowText)
      /\ pl \in Seq(Seq(Byte)) /\ Len(pl) \in Nat /\ buf \in Seq(Byte) /\ Len(pl) <= MaxPeers
      /\ RowText \in Seq(Char) /\ Len(RowText) \in Nat /\ Len(file.lines) \in Nat
  BY RowFacts, FileFacts DEF TypeOK, Line
<1>2. CASE StoreByte
  <2>1. /\ ~AtEnd /\ Forward /\ file' = file /\ pc = "read" /\ pc' = "read"
        /\ ~IsNewline /\ buf' = Append(buf, ReadByte) /\ pl' = pl
    BY <1>2 DEF StoreByte
  <2>2. ReadByte # Newline
    BY <2>1 DEF IsNewline
  <2>3. /\ InRow /\ row' = row /\ col' = col + 1 /\ RowText' = RowText
        /\ ReadByte = RowText[col + 1]
    BY <2>1, <2>2, ForwardFacts
  <2>4. buf' = SubSeq(RowText, 1, col + 1)
    <3>1. col + 1 \in 1 .. Len(RowText)
      BY <1>1, <2>3 DEF InRow
    <3>2. buf = SubSeq(RowText, 1, col)
      BY <2>1 DEF ListInv
    <3>3. QED
      BY <1>1, <2>1, <2>3, <3>1, <3>2
  <2>5. QED
    BY <2>1, <2>3, <2>4 DEF ListInv
<1>3. CASE AddPeer
  <2>1. /\ ~AtEnd /\ IsNewline /\ Forward /\ file' = file /\ pc = "read" /\ pc' = "read"
        /\ buf' = << >> /\ pl' = Append(pl, buf)
    BY <1>3 DEF AddPeer
  <2>2. row <= Len(file.lines) /\ buf = file.lines[row] /\ row = Len(pl) + 1
    BY <2>1, WholeLine DEF ListInv
  <2>3. row' = row + 1 /\ col' = 0
    BY <2>1, ForwardFacts DEF IsNewline
  <2>4. /\ Len(pl') = Len(pl) + 1 /\ pl'[Len(pl) + 1] = buf
        /\ \A k \in 1 .. Len(pl) : pl'[k] = pl[k]
    BY <1>1, <2>1
  <2>5. \A k \in 1 .. Len(pl') : pl'[k] = file'.lines[k]
    <3>1. SUFFICES ASSUME NEW k \in 1 .. Len(pl') PROVE pl'[k] = file.lines[k]
      BY <2>1
    <3>2. k \in 1 .. Len(pl) \/ k = Len(pl) + 1
      BY <1>1, <2>4
    <3>3. QED
      BY <2>2, <2>4, <3>2 DEF ListInv
  <2>6. buf' = SubSeq(RowText', 1, col')
    BY <2>1, <2>3
  <2>7. Len(pl') <= Len(file'.lines) /\ row' = Len(pl') + 1
    BY <1>1, <2>1, <2>2, <2>3, <2>4
  <2>8. QED
    BY <2>1, <2>5, <2>6, <2>7 DEF ListInv
<1>4. CASE ListFull
  <2>1. /\ UNCHANGED <<file, pl>> /\ pc' = "listed" /\ Len(pl) >= MaxPeers
    BY <1>4 DEF ListFull
  <2>2. Len(pl) = MaxPeers
    BY <1>1, <2>1, Bounds
  <2>3. QED
    BY <2>1, <2>2 DEF ListInv
<1>5. CASE FileEnd
  <2>1. UNCHANGED <<file, pl>> /\ pc = "read" /\ pc' = "listed" /\ AtEnd
    BY <1>5 DEF FileEnd
  <2>2. Len(pl) = Len(file.lines)
    BY <1>1, <2>1 DEF AtEnd, ListInv
  <2>3. QED
    BY <2>1, <2>2 DEF ListInv
<1>6. CASE Overrun \/ Connect \/ NoPeer
  <2>1. /\ UNCHANGED <<file, pl>>
        /\ pc' = "undefined" \/ (pc = "listed" /\ pc' = "connected")
    BY <1>6 DEF Overrun, Connect, NoPeer
  <2>2. QED
    BY <2>1 DEF ListInv
<1>7. CASE UNCHANGED vars
  <2>1. RowText' = RowText
    BY <1>7 DEF vars, RowText
  <2>2. QED
    BY <1>7, <2>1 DEF vars, ListInv
<1>8. QED
  BY <1>2, <1>3, <1>4, <1>5, <1>6, <1>7 DEF Next, Terminated

LEMMA PeersStep == TypeOK /\ PeersInv /\ [Next]_vars => PeersInv'
<1> SUFFICES ASSUME TypeOK, PeersInv, [Next]_vars PROVE PeersInv'
  OBVIOUS
<1>1. high' = high
  BY DEF Next, StoreByte, AddPeer, ListFull, FileEnd, Overrun, Connect, NoPeer, Terminated, vars
<1>2. CASE high = 0
  BY <1>1, <1>2, ListStep DEF PeersInv
<1>3. CASE high # 0
  <2>1. ~AddPeer
    BY <1>3 DEF AddPeer, IsNewline
  <2>2. pl' = pl
    BY <2>1 DEF Next, StoreByte, ListFull, FileEnd, Overrun, Connect, NoPeer, Terminated, vars
  <2>3. QED
    BY <1>1, <1>3, <2>2 DEF PeersInv
<1>4. QED
  BY <1>2, <1>3

(***************************************************************************)
(* The list has the lines of the file as they are there, up to the number  *)
(* there is room for, if the bytes of ch that nobody writes are zero, and  *)
(* none of them if they are not.                                           *)
(***************************************************************************)
THEOREM PeersInOrder == Spec => []PeersListed
<1>1. TypeOK /\ PeersInv => PeersListed
  <2> SUFFICES ASSUME TypeOK, PeersInv, pc \in {"listed", "connected"}
               PROVE  /\ high = 0 => /\ Len(pl) = Min({Len(file.lines), MaxPeers})
                                     /\ \A k \in DOMAIN pl : pl[k] = file.lines[k]
                      /\ high # 0 => pl = << >>
    BY DEF PeersListed
  <2>1. CASE high = 0
    <3>1. /\ pl \in Seq(Seq(Byte)) /\ Len(pl) \in Nat /\ Len(file.lines) \in Nat
          /\ MaxPeers \in Nat /\ Len(pl) <= MaxPeers /\ Len(pl) <= Len(file.lines)
          /\ Len(pl) = MaxPeers \/ Len(pl) = Len(file.lines)
      BY <2>1, FileFacts, Bounds DEF TypeOK, PeersInv, ListInv
    <3>2. ASSUME NEW a \in Nat, NEW b \in Nat, NEW n \in Nat, n <= a, n <= b, n = a \/ n = b
          PROVE  Min({a, b}) = n
      BY <3>2 DEF Min
    <3>3. Len(pl) = Min({Len(file.lines), MaxPeers})
      BY <3>1, <3>2
    <3>4. DOMAIN pl = 1 .. Len(pl)
      BY <3>1
    <3>5. QED
      BY <2>1, <3>3, <3>4 DEF PeersInv, ListInv
  <2>2. QED
    BY <2>1 DEF PeersInv
<1>2. QED
  BY <1>1, TypeInit, TypeStep, ListInit, PeersStep, PTL DEF Spec

-----------------------------------------------------------------------------
(* What strtok and atoi find in a url. *)

LEMMA FirstIs ==
  ASSUME NEW s, Len(s) \in Nat, NEW i \in Nat \ {0}, NEW C,
         NEW n \in i .. Len(s) + 1,
         n # Len(s) + 1 => s[n] \in C,
         \A j \in i .. n - 1 : s[j] \notin C
  PROVE  First(s, i, C) = n
<1> DEFINE S == {j \in i .. Len(s) : s[j] \in C} \cup {Len(s) + 1}
<1>1. n \in S
  OBVIOUS
<1>2. \A j \in S : j \in Int /\ n <= j
  <2>1. SUFFICES ASSUME NEW j \in S PROVE j \in Int /\ n <= j
    OBVIOUS
  <2>2. CASE j = Len(s) + 1
    BY <2>2
  <2>3. CASE j \in i .. Len(s) /\ s[j] \in C
    <3>1. j \notin i .. n - 1
      BY <2>3
    <3>2. QED
      BY <2>3, <3>1
  <2>4. QED
    BY <2>1, <2>2, <2>3
<1> HIDE DEF S
<1>3. Min(S) = n
  <2>1. \A m \in S : (\A j \in S : m <= j) => m = n
    BY <1>1, <1>2
  <2>2. QED
    BY <1>1, <1>2, <2>1 DEF Min
<1>4. QED
  BY <1>3 DEF First, S

(* A set of numbers has a least one, and so First is defined. *)
LEMMA Least ==
  ASSUME NEW T \in SUBSET Nat, T # {}
  PROVE  \E x \in T : \A y \in T : x <= y
<1> DEFINE R == OpToRel(<, Nat)
<1>1. \A x, y \in Nat : y < x => <<y, x>> \in R
  BY DEF OpToRel
<1>2. IsWellFoundedOn(R, Nat)
  BY NatLessThanWellFounded
<1> HIDE DEF R
<1>3. PICK x \in T : \A y \in T : ~ (<<y, x>> \in R)
  BY <1>2, WFMin
<1>4. ASSUME NEW y \in T PROVE x <= y
  <2>1. x \in Nat /\ y \in Nat
    OBVIOUS
  <2>2. ~ (y < x)
    BY <1>1, <1>3, <2>1
  <2>3. QED
    BY <2>1, <2>2
<1>5. QED
  BY <1>4

LEMMA FirstExists ==
  ASSUME NEW s, Len(s) \in Nat, NEW C
  PROVE  /\ First(s, 1, C) \in 1 .. Len(s) + 1
         /\ First(s, 1, C) # Len(s) + 1 => s[First(s, 1, C)] \in C
         /\ \A j \in 1 .. First(s, 1, C) - 1 : s[j] \notin C
<1> DEFINE S == {j \in 1 .. Len(s) : s[j] \in C} \cup {Len(s) + 1}
<1>1. PICK n \in S : \A j \in S : n <= j
  <2>1. S \in SUBSET Nat /\ S # {}
    OBVIOUS
  <2> HIDE DEF S
  <2>2. QED
    BY <2>1, Least
<1>2. n \in 1 .. Len(s) + 1 /\ (n # Len(s) + 1 => s[n] \in C)
  OBVIOUS
<1>3. \A j \in 1 .. n - 1 : s[j] \notin C
  BY <1>1, <1>2
<1>4. First(s, 1, C) = n
  BY <1>2, <1>3, FirstIs
<1>5. QED
  BY <1>2, <1>3, <1>4

(* atoi takes all of a number, and then what it can of what follows. *)
LEMMA AtoiOfNumber ==
  ASSUME NEW d \in Line, \A j \in 1 .. Len(d) : d[j] \in Digit, NEW s \in Line
  PROVE  atoi(d \o s) = d \o atoi(s)
<1> DEFINE C == Char \ Digit
           m == First(s, 1, C)
           t == d \o s
           n == Len(d) + m
<1>1. /\ d \in Seq(Char) /\ s \in Seq(Char) /\ Len(d) \in Nat /\ Len(s) \in Nat
      /\ t \in Seq(Char) /\ Len(t) = Len(d) + Len(s)
      /\ \A j \in 1 .. Len(d) : t[j] = d[j]
      /\ \A j \in 1 .. Len(s) : t[Len(d) + j] = s[j]
  BY DEF Line
<1>2. /\ m \in 1 .. Len(s) + 1
      /\ m # Len(s) + 1 => s[m] \in C
      /\ \A j \in 1 .. m - 1 : s[j] \notin C
  <2> HIDE DEF C
  <2>1. QED
    BY <1>1, FirstExists
<1> HIDE DEF m
<1>3. SubSeq(t, 1, n - 1) = d \o SubSeq(s, 1, m - 1)
  BY <1>1, <1>2
<1> HIDE DEF t
<1>4. n \in 1 .. Len(t) + 1 /\ Len(t) \in Nat /\ 1 \in Nat \ {0}
  BY <1>1, <1>2
<1>5. n # Len(t) + 1 => t[n] \in C
  <2>1. SUFFICES ASSUME n # Len(t) + 1 PROVE t[n] \in C
    OBVIOUS
  <2>2. m \in 1 .. Len(s)
    BY <1>1, <1>2, <2>1
  <2>3. t[n] = s[m]
    BY <1>1, <2>2
  <2>4. QED
    BY <1>1, <1>2, <2>2, <2>3
<1>6. \A j \in 1 .. n - 1 : t[j] \notin C
  <2>1. SUFFICES ASSUME NEW j \in 1 .. n - 1 PROVE t[j] \notin C
    OBVIOUS
  <2>2. CASE j \in 1 .. Len(d)
    BY <1>1, <2>2
  <2>3. CASE j \notin 1 .. Len(d)
    <3>1. j - Len(d) \in 1 .. m - 1 /\ j - Len(d) \in 1 .. Len(s)
      BY <1>1, <1>2, <2>3
    <3>2. t[Len(d) + (j - Len(d))] = s[j - Len(d)]
      BY <1>1, <3>1
    <3>3. Len(d) + (j - Len(d)) = j
      BY <1>1
    <3>4. QED
      BY <1>2, <3>1, <3>2, <3>3
  <2>4. QED
    BY <2>2, <2>3
<1>7. First(t, 1, C) = n
  <2> HIDE DEF C, n
  <2>1. QED
    BY <1>4, <1>5, <1>6, FirstIs
<1>8. atoi(t) = SubSeq(t, 1, n - 1) /\ atoi(s) = SubSeq(s, 1, m - 1)
  BY <1>7 DEF atoi, m
<1>9. QED
  BY <1>3, <1>8 DEF t

(* In a line with ip and port they are found, whatever its url goes on with. *)
LEMMA PeerTokens ==
  ASSUME NEW l \in Line, NEW k, IsPeer(l, k), NEW residue \in Residues
  PROVE  LET url == l \o residue IN
         /\ PortStart(url) \in Int /\ Len(url) \in Int /\ PortStart(url) <= Len(url)
         /\ Ip(url) = SubSeq(l, 1, k - 1)
         /\ Port(url) = SubSeq(l, k + 1, Len(l)) \o atoi(residue)
<1> DEFINE url == l \o residue
           d == SubSeq(l, k + 1, Len(l))
<1>1. /\ l \in Seq(Char) /\ Len(l) \in Nat /\ residue \in Seq(Char) /\ Len(residue) \in Nat
      /\ Colon \in Char /\ Colon \notin Digit
  BY Bounds DEF Line
<1>2. /\ k \in 2 .. Len(l) - 1 /\ l[k] = Colon
      /\ \A j \in 1 .. k - 1 : l[j] # Colon
      /\ \A j \in k + 1 .. Len(l) : l[j] \in Digit
  BY DEF IsPeer
<1>3. /\ url \in Seq(Char) /\ Len(url) = Len(l) + Len(residue)
      /\ \A j \in 1 .. Len(l) : url[j] = l[j] /\ l[j] \in Char
  BY <1>1
<1>4. SubSeq(url, 1, k - 1) = SubSeq(l, 1, k - 1)
  BY <1>1, <1>2
<1>5. SubSeq(url, k + 1, Len(url)) = d \o residue
  BY <1>1, <1>2
<1>6. Len(url) \in Nat /\ k + 1 <= Len(l) /\ Len(l) <= Len(url) /\ k \in Nat /\ k >= 2
  BY <1>1, <1>2, <1>3
<1>7. d \in Line /\ \A j \in 1 .. Len(d) : d[j] \in Digit
  <2>1. d \in Seq(Char) /\ Len(d) = Len(l) - k /\ \A j \in 1 .. Len(d) : d[j] = l[k + j]
    BY <1>1, <1>2
  <2> HIDE DEF d
  <2>2. \A j \in 1 .. Len(d) : k + j \in k + 1 .. Len(l)
    BY <1>1, <1>2, <2>1
  <2>3. QED
    BY <1>2, <2>1, <2>2 DEF Line
<1> HIDE DEF url, d
<1>8. TokenStart(url, 1) = 1
  <2>1. url[1] \in Char \ {Colon}
    BY <1>1, <1>2, <1>3, <1>6
  <2>2. /\ 1 \in 1 .. Len(url) + 1 /\ 1 \in Nat \ {0}
        /\ \A j \in 1 .. 1 - 1 : url[j] \notin Char \ {Colon}
    BY <1>6
  <2>3. QED
    BY <1>6, <2>1, <2>2, FirstIs DEF TokenStart
<1>9. TokenEnd(url, 1) = k
  <2>1. url[k] \in {Colon} /\ k \in 1 .. Len(url) + 1 /\ 1 \in Nat \ {0}
    BY <1>2, <1>3, <1>6
  <2>2. \A j \in 1 .. k - 1 : url[j] \notin {Colon}
    BY <1>1, <1>2, <1>3
  <2>3. First(url, 1, {Colon}) = k
    BY <1>6, <2>1, <2>2, FirstIs
  <2>4. QED
    BY <1>8, <2>3 DEF TokenEnd
<1>10. PortStart(url) = k + 1
  <2>1. l[k + 1] \in Digit
    BY <1>2, <1>6
  <2>2. url[k + 1] \in Char \ {Colon}
    BY <1>1, <1>3, <1>6, <2>1
  <2>3. /\ k + 1 \in k + 1 .. Len(url) + 1 /\ k + 1 \in Nat \ {0}
        /\ \A j \in k + 1 .. (k + 1) - 1 : url[j] \notin Char \ {Colon}
    BY <1>6
  <2>4. First(url, k + 1, Char \ {Colon}) = k + 1
    BY <1>6, <2>2, <2>3, FirstIs
  <2>5. QED
    BY <1>9, <2>4 DEF PortStart, TokenStart
<1>11. Ip(url) = SubSeq(l, 1, k - 1)
  BY <1>4, <1>8, <1>9 DEF Ip
<1>12. Port(url) = d \o atoi(residue)
  <2>1. atoi(d \o residue) = d \o atoi(residue)
    BY <1>1, <1>7, AtoiOfNumber DEF Line
  <2>2. QED
    BY <1>5, <1>10, <2>1 DEF Port
<1>13. PortStart(url) \in Int /\ Len(url) \in Int /\ PortStart(url) <= Len(url)
  BY <1>6, <1>10
<1>14. QED
  BY <1>11, <1>12, <1>13 DEF url, d

(* No array is overrun by a file that fits. *)
LEMMA NoOverrun == TypeOK /\ ListInv /\ Fits => ~Overrun
<1> SUFFICES ASSUME TypeOK, ListInv, Fits, Overrun PROVE FALSE
  OBVIOUS
<1>1. /\ file \in PeerFiles /\ row \in 1 .. Len(file.lines) + 1 /\ col \in 0 .. Len(RowText)
      /\ RowText \in Seq(Char) /\ Len(RowText) \in Nat /\ Len(file.lines) \in Nat
      /\ row <= Len(file.lines) => RowText = file.lines[row]
      /\ row > Len(file.lines) => RowText = file.rest
      /\ file.lines \in Seq(Line)
  BY RowFacts, FileFacts DEF TypeOK, Line
<1>2. \A j \in 1 .. Len(file.lines) : Len(file.lines[j]) <= UrlSize
  BY <1>1 DEF Fits
<1>3. Len(RowText) < BufSize
  BY <1>1, <1>2, Bounds DEF Fits
<1>4. pc = "read"
  BY DEF Overrun
<1>5. Len(buf) = col
  <2>1. buf = SubSeq(RowText, 1, col)
    BY <1>4 DEF ListInv
  <2>2. QED
    BY <1>1, <2>1
<1>6. Len(buf) < BufSize
  BY <1>1, <1>3, <1>5, Bounds
<1>7. ~AtEnd /\ IsNewline /\ Len(buf) > UrlSize
  BY <1>1, <1>5, <1>6, Bounds DEF Overrun
<1>8. Len(buf) <= UrlSize
  BY <1>1, <1>2, <1>4, <1>7, WholeLine
<1>9. QED
  BY <1>1, <1>5, <1>7, <1>8, Bounds

LEMMA ConnectsStep ==
  ASSUME TypeOK, PeersInv, ConnectsToFirst, [Next]_vars
  PROVE  ConnectsToFirst'
<1> SUFFICES ASSUME high' = 0, Fits', file'.lines # << >>, NEW k \in DOMAIN file'.lines[1],
                    IsPeer(file'.lines[1], k)
             PROVE  LET l == file'.lines[1] IN
                    /\ pc' # "undefined"
                    /\ pc' = "connected" =>
                         \E r \in Residues :
                           peer' = <<SubSeq(l, 1, k - 1), SubSeq(l, k + 1, Len(l)) \o atoi(r)>>
  BY DEF ConnectsToFirst
<1> DEFINE l == file.lines[1]
           Address(r) == <<SubSeq(l, 1, k - 1), SubSeq(l, k + 1, Len(l)) \o atoi(r)>>
<1>1. file' = file /\ high' = high
  BY DEF Next, StoreByte, AddPeer, ListFull, FileEnd, Overrun, Connect, NoPeer, Terminated, vars
<1>2. /\ high = 0 /\ Fits /\ file.lines # << >> /\ IsPeer(l, k) /\ k \in DOMAIN l
      /\ ListInv
  BY <1>1 DEF Fits, PeersInv
<1>3. pc # "undefined" /\ (pc = "connected" => \E r \in Residues : peer = Address(r))
  BY <1>2 DEF ConnectsToFirst
<1>4. l \in Line /\ Len(file.lines) \in Nat \ {0}
  <2>1. file.lines \in Seq(Line)
    BY FileFacts DEF TypeOK
  <2>2. QED
    BY <1>2, <2>1
<1>5. pc = "listed" => pl # << >> /\ pl[1] = l
  <2>1. SUFFICES ASSUME pc = "listed" PROVE pl # << >> /\ pl[1] = l
    OBVIOUS
  <2>2. Len(pl) = MaxPeers \/ Len(pl) = Len(file.lines)
    BY <1>2, <2>1 DEF ListInv
  <2>3. Len(pl) \in Nat \ {0} /\ Len(<< >>) = 0
    BY <1>4, <2>2, Bounds
  <2>4. 1 \in 1 .. Len(pl)
    BY <2>3
  <2>5. QED
    BY <1>2, <2>3, <2>4 DEF ListInv
<1>6. CASE StoreByte \/ AddPeer \/ ListFull \/ FileEnd
  BY <1>6 DEF StoreByte, AddPeer, ListFull, FileEnd
<1>7. ~Overrun
  BY <1>2, NoOverrun
<1>8. CASE Connect
  <2>1. pc = "listed" /\ pc' = "connected"
    BY <1>8 DEF Connect
  <2>2. PICK residue \in Residues :
          peer' = <<Ip(pl[1] \o residue), Port(pl[1] \o residue)>>
    BY <1>8 DEF Connect
  <2>3. <<Ip(l \o residue), Port(l \o residue)>> = Address(residue)
    BY <1>2, <1>4, PeerTokens
  <2>4. peer' = Address(residue)
    BY <1>5, <2>1, <2>2, <2>3
  <2>5. QED
    BY <1>1, <2>1, <2>4
<1>9. ~NoPeer
  <2>1. SUFFICES ASSUME NoPeer PROVE FALSE
    OBVIOUS
  <2>2. pl # << >> /\ pl[1] = l
    BY <1>5, <2>1 DEF NoPeer
  <2>3. PICK residue \in Residues : PortStart(l \o residue) > Len(l \o residue)
    BY <2>1, <2>2 DEF NoPeer
  <2>4. /\ PortStart(l \o residue) \in Int /\ Len(l \o residue) \in Int
        /\ PortStart(l \o residue) <= Len(l \o residue)
    BY <1>2, <1>4, PeerTokens
  <2>5. QED
    BY <2>3, <2>4
<1>10. CASE UNCHANGED vars
  BY <1>1, <1>3, <1>10 DEF vars
<1>11. QED
  BY <1>6, <1>7, <1>8, <1>9, <1>10 DEF Next, Terminated

(***************************************************************************)
(* The client connects to the peer of the first line; the port may have    *)
(* digits behind it that lie behind the url in memory.                     *)
(***************************************************************************)
THEOREM FirstPeerReached == Spec => []ConnectsToFirst
<1>1. Init => ConnectsToFirst
  BY DEF Init, ConnectsToFirst
<1>2. TypeOK /\ PeersInv /\ ConnectsToFirst /\ [Next]_vars => ConnectsToFirst'
  BY ConnectsStep
<1>3. QED
  BY <1>1, <1>2, TypeInit, TypeStep, ListInit, PeersStep, PTL DEF Spec
=============================================================================
