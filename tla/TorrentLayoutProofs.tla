------------------------- MODULE TorrentLayoutProofs -------------------------
(***************************************************************************)
(* Lemmas about TorrentLayout: where the bytes of a file lie in the pieces,*)
(* what a conversion to int keeps, and how many answers a queue of alerts  *)
(* holds.  The proofs about FsRead and LegacyRead rest on them.            *)
(***************************************************************************)
EXTENDS TorrentLayout, TLAPS, FiniteSetTheorems

-----------------------------------------------------------------------------
(* Arithmetic of pieces. *)

(* Quotient and remainder. *)
LEMMA DivMod ==
  ASSUME NEW a \in Nat, NEW b \in Nat \ {0}
  PROVE  /\ a \div b \in Nat
         /\ a % b \in 0 .. b - 1
         /\ a = b * (a \div b) + (a % b)
OBVIOUS

(* A smaller multiple is smaller by the multiplicand at least. *)
LEMMA MulSucc ==
  ASSUME NEW p \in Int, NEW q \in Int, NEW b \in Nat \ {0}, p < q
  PROVE  p * b + b <= q * b
OBVIOUS

(* The quotient is the only multiple next below. *)
LEMMA DivUnique ==
  ASSUME NEW p \in Nat, NEW b \in Nat \ {0}, NEW x \in Nat, p * b <= x, x < p * b + b
  PROVE  x \div b = p
<1> DEFINE q == x \div b
           r == x % b
<1>1. q \in Nat /\ r \in 0 .. b - 1 /\ x = b * q + r
  BY DivMod
<1>. HIDE DEF q, r
<1>2. ~ (q < p)
  BY <1>1, MulSucc
<1>3. ~ (p < q)
  BY <1>1, MulSucc
<1>4. QED
  BY <1>1, <1>2, <1>3 DEF q

(* There is a piece for every byte of the torrent, and no more pieces.      *)
LEMMA NumPieces ==
  /\ num_pieces \in Nat
  /\ TotalSize <= num_pieces * PieceLength
  /\ num_pieces * PieceLength < TotalSize + PieceLength
<1> DEFINE a == TotalSize + PieceLength - 1
           n == a \div PieceLength
           r == a % PieceLength
<1>1. a \in Nat /\ PieceLength \in Nat \ {0} /\ TotalSize \in Nat
  BY LayoutAssumption
<1>2. n \in Nat /\ r \in 0 .. PieceLength - 1 /\ a = PieceLength * n + r
  <2> HIDE DEF a
  <2> QED
    BY <1>1, DivMod
<1>3. num_pieces = n
  BY DEF num_pieces
<1> HIDE DEF n, r
<1>4. QED
  BY <1>1, <1>2, <1>3

(***************************************************************************)
(* libtorrent's map_file for a byte of a file: a piece of the torrent, and *)
(* a place inside it.                                                      *)
(***************************************************************************)
LEMMA MapFile ==
  ASSUME NEW f \in Files, NEW o \in Nat, o < FileSize[f]
  PROVE  LET p == map_file(f, o).piece
             s == map_file(f, o).start
         IN  /\ p \in Pieces
             /\ s \in Nat
             /\ p * PieceLength + s = FileOffset[f] + o
             /\ s < piece_size(p)
             /\ piece_size(p) \in Nat
             /\ piece_size(p) <= PieceLength
<1> DEFINE b == FileOffset[f] + o
           p == b \div PieceLength
           s == b % PieceLength
<1>1. /\ b \in Nat /\ b < TotalSize /\ TotalSize \in Nat
      /\ PieceLength \in Nat \ {0}
  BY LayoutAssumption
<1>2. p \in Nat /\ s \in 0 .. PieceLength - 1 /\ b = PieceLength * p + s
  BY <1>1, DivMod
<1>3. map_file(f, o).piece = p /\ map_file(f, o).start = s
  BY DEF map_file
<1> HIDE DEF p, s, b
<1>4. p < num_pieces
  <2>1. ~ (num_pieces < p)
    BY <1>1, <1>2, NumPieces, MulSucc
  <2>2. p # num_pieces
    BY <1>1, <1>2, NumPieces
  <2>3. QED
    BY <1>2, <2>1, <2>2, NumPieces
<1>5. p \in Pieces
  BY <1>2, <1>4, NumPieces DEF Pieces
<1>6. s < piece_size(p) /\ piece_size(p) \in Nat /\ piece_size(p) <= PieceLength
  <2>1. CASE p = num_pieces - 1
    <3>1. TotalSize - p * PieceLength <= PieceLength
      BY <1>1, <1>2, <2>1, NumPieces
    <3>2. QED
      BY <1>1, <1>2, <2>1, <3>1 DEF piece_size
  <2>2. CASE p # num_pieces - 1
    BY <1>1, <1>2, <2>2 DEF piece_size
  <2>3. QED
    BY <2>1, <2>2
<1>7. p * PieceLength + s = FileOffset[f] + o
  BY <1>1, <1>2 DEF b
<1>8. QED
  BY <1>2, <1>3, <1>5, <1>6, <1>7

(* Conversion to int never makes a number larger, and keeps small ones. *)
LEMMA IntConversion ==
  ASSUME NEW x \in Nat
  PROVE  /\ ToInt(x) \in Int
         /\ ToInt(x) <= x
         /\ ToInt(x) < IntRange \div 2
         /\ x < IntRange \div 2 => ToInt(x) = x
<1> DEFINE h == IntRange \div 2
<1>1. h \in Nat \ {0} /\ IntRange = 2 * h /\ IntRange \in Nat \ {0}
  BY IntAssumption
<1>2. (x + h) \div IntRange \in Nat /\ (x + h) % IntRange \in 0 .. IntRange - 1
      /\ x + h = IntRange * ((x + h) \div IntRange) + ((x + h) % IntRange)
  <2>1. x + h \in Nat
    BY <1>1
  <2>2. QED
    BY <1>1, <2>1, DivMod
<1> DEFINE q == (x + h) \div IntRange
           r == (x + h) % IntRange
<1>3. ToInt(x) = r - h
  BY DEF ToInt
<1> HIDE DEF h, q, r
<1>4. q \in Nat /\ r \in 0 .. IntRange - 1 /\ x + h = IntRange * q + r
  BY <1>2 DEF q, r
<1>5. r <= x + h
  BY <1>1, <1>4
<1>6. x < h => q = 0
  BY <1>1, <1>4, MulSucc
<1>7. QED
  BY <1>1, <1>3, <1>4, <1>5, <1>6 DEF h

(* The size of a piece of the torrent. *)
LEMMA PieceSize ==
  ASSUME NEW p \in Pieces
  PROVE  piece_size(p) \in Nat
<1>1. PieceLength \in Nat \ {0} /\ TotalSize \in Nat
  BY LayoutAssumption
<1>2. p \in Nat /\ p <= num_pieces - 1
  BY NumPieces DEF Pieces
<1>3. CASE p = num_pieces - 1
  <2>1. num_pieces * PieceLength = p * PieceLength + PieceLength
    BY <1>1, <1>2, <1>3, NumPieces
  <2>2. p * PieceLength \in Nat
    BY <1>1, <1>2
  <2>3. TotalSize - p * PieceLength \in Nat
    BY <1>1, <2>1, <2>2, NumPieces
  <2>4. QED
    BY <1>3, <2>3 DEF piece_size
<1>4. QED
  BY <1>1, <1>3 DEF piece_size

-----------------------------------------------------------------------------
(* Counting the answers in a queue of alerts. *)

(* The alerts libtorrent appends are alerts. *)
LEMMA AlertType ==
  ASSUME NEW p \in Pieces, NEW n \in Nat, NEW k \in {"read_piece", "piece_finished"},
         NEW q \in Seq(Alert)
  PROVE  Append(q, [type |-> k, piece |-> p, size |-> n]) \in Seq(Alert)
BY DEF Alert

(* One more call counted. *)
LEMMA CountUp ==
  ASSUME NEW f \in [Pieces -> Nat], NEW p \in Pieces
  PROVE  [f EXCEPT ![p] = @ + 1] \in [Pieces -> Nat]
OBVIOUS

AnswerSet(s, p) == {n \in 1 .. Len(s) : s[n].type = "read_piece" /\ s[n].piece = p}

LEMMA AnswersDef ==
  ASSUME NEW s, NEW p
  PROVE  Answers(s, p) = Cardinality(AnswerSet(s, p))
BY DEF Answers, AnswerSet

LEMMA AnswerSetFinite ==
  ASSUME NEW s \in Seq(Alert), NEW p
  PROVE  IsFiniteSet(AnswerSet(s, p)) /\ Answers(s, p) \in Nat
<1>1. IsFiniteSet(1 .. Len(s))
  BY FS_Interval
<1>2. IsFiniteSet(AnswerSet(s, p))
  BY <1>1, FS_Subset DEF AnswerSet
<1>3. QED
  BY <1>2, AnswersDef, FS_CardinalityType

LEMMA AnswersEmpty ==
  ASSUME NEW p
  PROVE  Answers(<< >>, p) = 0
<1>1. AnswerSet(<< >>, p) = {}
  BY DEF AnswerSet
<1>2. QED
  BY <1>1, AnswersDef, FS_EmptySet

(* An answer that arrives counts once, another alert does not count. *)
LEMMA AnswersAppend ==
  ASSUME NEW s \in Seq(Alert), NEW a \in Alert, NEW p
  PROVE  Answers(Append(s, a), p) =
           Answers(s, p) + (IF a.type = "read_piece" /\ a.piece = p THEN 1 ELSE 0)
<1> DEFINE n == Len(s)
           S == AnswerSet(s, p)
<1>1. n \in Nat /\ Len(Append(s, a)) = n + 1
  OBVIOUS
<1>2. \A i \in 1 .. n : Append(s, a)[i] = s[i]
  OBVIOUS
<1>3. Append(s, a)[n + 1] = a
  OBVIOUS
<1>4. S \subseteq 1 .. n /\ IsFiniteSet(S) /\ Answers(s, p) = Cardinality(S)
      /\ Answers(s, p) \in Nat
  BY AnswersDef, AnswerSetFinite DEF AnswerSet
<1>5. 1 .. n + 1 = (1 .. n) \cup {n + 1}
  BY <1>1
<1>6. CASE a.type = "read_piece" /\ a.piece = p
  <2>1. AnswerSet(Append(s, a), p) = S \cup {n + 1}
    BY <1>1, <1>2, <1>3, <1>5, <1>6 DEF AnswerSet
  <2>2. n + 1 \notin S
    BY <1>1, <1>4
  <2> HIDE DEF S, n
  <2>3. QED
    BY <1>4, <1>6, <2>1, <2>2, AnswersDef, FS_AddElement
<1>7. CASE ~ (a.type = "read_piece" /\ a.piece = p)
  <2>1. AnswerSet(Append(s, a), p) = S
    BY <1>1, <1>2, <1>3, <1>5, <1>7 DEF AnswerSet
  <2>2. QED
    BY <1>4, <1>7, <2>1, AnswersDef
<1>8. QED
  BY <1>6, <1>7

(* The alert a read looks at is the first; the others keep counting. *)
LEMMA AnswersTail ==
  ASSUME NEW s \in Seq(Alert), s # << >>, NEW p
  PROVE  Answers(s, p) =
           Answers(Tail(s), p)
             + (IF Head(s).type = "read_piece" /\ Head(s).piece = p THEN 1 ELSE 0)
<1> DEFINE n == Len(s)
           S == AnswerSet(s, p)
           T == AnswerSet(Tail(s), p)
           R == S \ {1}
           f == [i \in T |-> i + 1]
<1>1. n \in Nat \ {0} /\ Tail(s) \in Seq(Alert) /\ Len(Tail(s)) = n - 1 /\ Head(s) = s[1]
  OBVIOUS
<1>2. \A i \in 1 .. n - 1 : Tail(s)[i] = s[i + 1]
  OBVIOUS
<1>3. IsFiniteSet(S) /\ IsFiniteSet(T) /\ IsFiniteSet(R)
      /\ Cardinality(T) \in Nat /\ Cardinality(S) \in Nat
  BY <1>1, AnswerSetFinite, FS_RemoveElement, FS_CardinalityType
<1>4. Cardinality(R) = Cardinality(T)
  <2>1. \A i : i \in T <=> i \in 1 .. n - 1 /\ s[i + 1].type = "read_piece"
                           /\ s[i + 1].piece = p
    BY <1>1, <1>2 DEF AnswerSet
  <2>2. \A i : i \in R <=> i \in 2 .. n /\ s[i].type = "read_piece" /\ s[i].piece = p
    BY <1>1 DEF AnswerSet
  <2> HIDE DEF R, T
  <2>3. f \in [T -> R]
    BY <1>1, <2>1, <2>2
  <2>4. \A i, j \in T : f[i] = f[j] => i = j
    BY <1>1, <2>1
  <2>5. \A j \in R : \E i \in T : f[i] = j
    <3> SUFFICES ASSUME NEW j \in R
                 PROVE  \E i \in T : f[i] = j
      OBVIOUS
    <3>1. j \in 2 .. n /\ j - 1 \in 1 .. n - 1 /\ (j - 1) + 1 = j
      BY <1>1, <2>2
    <3>2. j - 1 \in T
      BY <2>1, <2>2, <3>1
    <3>3. f[j - 1] = j
      BY <3>1, <3>2
    <3>4. QED
      BY <3>2, <3>3
  <2> HIDE DEF f
  <2>6. f \in Bijection(T, R)
    BY <2>3, <2>4, <2>5 DEF Bijection, Injection, Surjection, IsInjective
  <2>7. QED
    BY <1>3, <2>6, FS_Bijection DEF ExistsBijection
<1>5. 1 \in S <=> Head(s).type = "read_piece" /\ Head(s).piece = p
  BY <1>1 DEF AnswerSet
<1>6. Answers(s, p) = Cardinality(S) /\ Answers(Tail(s), p) = Cardinality(T)
  BY AnswersDef
<1> HIDE DEF S, T
<1>7. QED
  BY <1>3, <1>4, <1>5, <1>6, FS_RemoveElement
=============================================================================
