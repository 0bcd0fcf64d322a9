---------------------------- MODULE BencodeProofs ----------------------------
(***************************************************************************)
(* The reader of bencode.c keeps in step with what was written: whatever   *)
(* value stands in the buffer, and however deep it is nested, the functions *)
(* that skip it end right behind it, those that read it return it, and it  *)
(* is found valid.                                                         *)
(*                                                                         *)
(* Inductions are over sets of numbers (NatSets): a set of naturals that   *)
(* has 0, and with a number the next one, has them all.                    *)
(***************************************************************************)
EXTENDS Bencode, SequenceTheorems, WellFoundedInduction, TLAPS

-----------------------------------------------------------------------------
(* Induction and recursion over the naturals. *)

LEMMA Least ==
  ASSUME NEW T \in SUBSET Nat, T # {}
  PROVE  \E x \in T : \A y \in T : x <= y
<1> DEFINE R == OpToRel(<, Nat)
<1>1. IsWellFoundedOn(R, Nat)
  BY NatLessThanWellFounded
<1>2. PICK x \in T : \A y \in T : ~ (<<y, x>> \in R)
  <2> HIDE DEF R
  <2>1. T \subseteq Nat /\ T # {}
    OBVIOUS
  <2> QED BY <2>1, <1>1, WFMin
<1>3. ASSUME NEW y \in T PROVE x <= y
  <2>1. x \in Nat /\ y \in Nat
    OBVIOUS
  <2>2. y < x => <<y, x>> \in R
    BY <2>1 DEF OpToRel
  <2> HIDE DEF R
  <2>3. ~(y < x)
    BY <1>2, <2>2
  <2> QED BY <2>1, <2>3
<1> QED BY <1>3

LEMMA NatSets ==
  ASSUME NEW T \in SUBSET Nat, 0 \in T, \A n \in T : n + 1 \in T
  PROVE  T = Nat
<1>1. ASSUME Nat \ T # {} PROVE FALSE
  <2>1. PICK x \in Nat \ T : \A y \in Nat \ T : x <= y
    BY <1>1, Least
  <2>2. x # 0 /\ x - 1 \in Nat
    OBVIOUS
  <2>3. x - 1 \in T
    BY <2>1, <2>2
  <2>4. (x - 1) + 1 \in T
    BY <2>3
  <2> QED BY <2>4
<1> QED BY <1>1

Steps(S) == [Nat \X S -> S]

Iterates(f, S, s, D) ==
  /\ f \in [Nat -> S]
  /\ f[0] = s
  /\ \A n \in Nat : f[n + 1] = D[<<n + 1, f[n]>>]

(* A value for 0 and one for each next number determine a function. *)
LEMMA Recursion ==
  ASSUME NEW S, NEW s \in S, NEW D \in Steps(S)
  PROVE  \E f : Iterates(f, S, s, D)
<1> USE DEF Steps
<1> DEFINE Upto(g, n) == /\ g \in [0 .. n -> S]
                         /\ g[0] = s
                         /\ \A i \in 0 .. n - 1 : g[i + 1] = D[<<i + 1, g[i]>>]
           T == {n \in Nat : \E g \in [0 .. n -> S] : Upto(g, n)}
<1>1. T = Nat
  <2>1. \E g \in [0 .. 0 -> S] : Upto(g, 0)
    <3> DEFINE g == [i \in 0 .. 0 |-> s]
    <3>1. g \in [0 .. 0 -> S] /\ Upto(g, 0)
      OBVIOUS
    <3> QED BY <3>1
  <2>2. ASSUME NEW n \in Nat, NEW g \in [0 .. n -> S], Upto(g, n)
        PROVE  \E h \in [0 .. n + 1 -> S] : Upto(h, n + 1)
    <3> DEFINE h == [i \in 0 .. n + 1 |-> IF i = n + 1 THEN D[<<n + 1, g[n]>>] ELSE g[i]]
    <3>1. h \in [0 .. n + 1 -> S]
      <4>1. g[n] \in S
        OBVIOUS
      <4> QED BY <4>1
    <3>2. h[0] = s
      BY <2>2
    <3>3. ASSUME NEW i \in 0 .. n PROVE h[i + 1] = D[<<i + 1, h[i]>>]
      <4>1. CASE i = n
        <5>1. h[n + 1] = D[<<n + 1, g[n]>>] /\ h[n] = g[n]
          OBVIOUS
        <5> QED BY <5>1, <4>1
      <4>2. CASE i # n
        <5>1. i \in 0 .. n - 1 /\ h[i] = g[i] /\ h[i + 1] = g[i + 1]
          BY <4>2
        <5> QED BY <5>1, <2>2
      <4> QED BY <4>1, <4>2
    <3>4. Upto(h, n + 1)
      <4> HIDE DEF h
      <4>1. 0 .. (n + 1) - 1 = 0 .. n
        OBVIOUS
      <4> QED BY <3>1, <3>2, <3>3, <4>1
    <3> HIDE DEF h, Upto
    <3> QED BY <3>1, <3>4
  <2> HIDE DEF Upto
  <2>3. 0 \in T
    BY <2>1
  <2>4. ASSUME NEW n \in T PROVE n + 1 \in T
    BY <2>2
  <2> QED BY <2>3, <2>4, NatSets
<1>2. ASSUME NEW m \in Nat, NEW n \in Nat, m <= n,
             NEW g \in [0 .. m -> S], Upto(g, m), NEW h \in [0 .. n -> S], Upto(h, n)
      PROVE  \A i \in 0 .. m : g[i] = h[i]
  <2> DEFINE Q == {i \in Nat : i <= m => g[i] = h[i]}
  <2>1. 0 \in Q
    BY <1>2
  <2>2. ASSUME NEW i \in Q PROVE i + 1 \in Q
    <3>1. CASE i + 1 <= m
      <4>1. i \in 0 .. m - 1 /\ i \in 0 .. n - 1
        BY <3>1, <1>2
      <4>2. g[i] = h[i]
        BY <4>1
      <4>3. g[i + 1] = D[<<i + 1, g[i]>>] /\ h[i + 1] = D[<<i + 1, h[i]>>]
        BY <4>1, <1>2
      <4> QED BY <4>2, <4>3
    <3> QED BY <3>1
  <2>3. Q = Nat
    <3> HIDE DEF Q
    <3> QED BY <2>1, <2>2, NatSets DEF Q
  <2>4. ASSUME NEW i \in 0 .. m PROVE g[i] = h[i]
    <3>1. i \in Nat /\ i <= m
      OBVIOUS
    <3>2. i \in Q
      <4> HIDE DEF Q
      <4> QED BY <2>3, <3>1
    <3> QED BY <3>1, <3>2
  <2> QED BY <2>4
<1> DEFINE G(n) == CHOOSE g \in [0 .. n -> S] : Upto(g, n)
           f    == [n \in Nat |-> G(n)[n]]
<1>3. ASSUME NEW n \in Nat PROVE G(n) \in [0 .. n -> S] /\ Upto(G(n), n)
  <2> HIDE DEF Upto
  <2>1. \E g \in [0 .. n -> S] : Upto(g, n)
    BY <1>1
  <2> QED BY <2>1
<1>4. f \in [Nat -> S]
  <2> SUFFICES ASSUME NEW n \in Nat PROVE G(n)[n] \in S
    OBVIOUS
  <2> HIDE DEF G
  <2> QED BY <1>3
<1>5. f[0] = s
  <2>1. f[0] = G(0)[0]
    OBVIOUS
  <2> HIDE DEF G
  <2> QED BY <2>1, <1>3
<1>6. ASSUME NEW n \in Nat PROVE f[n + 1] = D[<<n + 1, f[n]>>]
  <2> HIDE DEF G
  <2>1. f[n] = G(n)[n] /\ f[n + 1] = G(n + 1)[n + 1]
    OBVIOUS
  <2> HIDE DEF f
  <2>2. G(n)[n] = G(n + 1)[n]
    <3> HIDE DEF Upto
    <3> QED BY <1>2, <1>3
  <2>3. G(n + 1)[n + 1] = D[<<n + 1, G(n + 1)[n]>>]
    BY <1>3
  <2> QED BY <2>1, <2>2, <2>3
<1>7. Iterates(f, S, s, D)
  <2> HIDE DEF f
  <2> QED BY <1>4, <1>5, <1>6 DEF Iterates
<1> HIDE DEF f
<1> QED BY <1>7

(* Loops is what its recursive definition says. *)
LEMMA LoopsEquation ==
  Loops = [n \in Nat |-> IF n = 0 THEN NoLoops ELSE Turn(Loops[n - 1])]
<1> DEFINE Upto(g, n) == g = [i \in 0 .. n |-> IF i = 0 THEN NoLoops ELSE Turn(g[i - 1])]
           Whole(g)   == g = [i \in Nat |-> IF i = 0 THEN NoLoops ELSE Turn(g[i - 1])]
           T == {n \in Nat : \E g : Upto(g, n)}
<1>1. T = Nat
  <2>1. \E g : Upto(g, 0)
    <3> DEFINE g == [i \in 0 .. 0 |-> NoLoops]
    <3>1. Upto(g, 0)
      OBVIOUS
    <3> QED BY <3>1
  <2>2. ASSUME NEW n \in Nat, NEW g, Upto(g, n)
        PROVE  \E h : Upto(h, n + 1)
    <3> DEFINE h == [i \in 0 .. n + 1 |-> IF i = n + 1 THEN Turn(g[n]) ELSE g[i]]
    <3>1. ASSUME NEW i \in 0 .. n + 1
          PROVE  h[i] = IF i = 0 THEN NoLoops ELSE Turn(h[i - 1])
      <4>1. CASE i = n + 1
        <5>1. h[i] = Turn(g[n]) /\ h[i - 1] = g[n]
          BY <4>1
        <5> QED BY <5>1, <4>1
      <4>2. CASE i # n + 1
        <5>1. h[i] = g[i] /\ (i # 0 => h[i - 1] = g[i - 1]) /\ i \in 0 .. n
          BY <4>2
        <5>2. g[i] = IF i = 0 THEN NoLoops ELSE Turn(g[i - 1])
          BY <2>2, <5>1
        <5> QED BY <5>1, <5>2
      <4> QED BY <4>1, <4>2
    <3>2. Upto(h, n + 1)
      BY <3>1
    <3> HIDE DEF h, Upto
    <3> QED BY <3>2
  <2> HIDE DEF Upto
  <2>3. 0 \in T
    BY <2>1
  <2>4. ASSUME NEW n \in T PROVE n + 1 \in T
    BY <2>2
  <2> QED BY <2>3, <2>4, NatSets
<1>2. ASSUME NEW m \in Nat, NEW n \in Nat, m <= n, NEW g, Upto(g, m), NEW h, Upto(h, n)
      PROVE  \A i \in 0 .. m : g[i] = h[i]
  <2> DEFINE Q == {i \in Nat : i <= m => g[i] = h[i]}
  <2>1. 0 \in Q
    <3>1. g[0] = NoLoops /\ h[0] = NoLoops
      BY <1>2
    <3> QED BY <3>1
  <2>2. ASSUME NEW i \in Q PROVE i + 1 \in Q
    <3>1. CASE i + 1 <= m
      <4>1. i + 1 \in 0 .. m /\ i + 1 \in 0 .. n /\ g[i] = h[i] /\ i + 1 # 0 /\ (i + 1) - 1 = i
        BY <3>1, <1>2
      <4>2. g[i + 1] = Turn(g[(i + 1) - 1]) /\ h[i + 1] = Turn(h[(i + 1) - 1])
        BY <4>1, <1>2
      <4> QED BY <4>1, <4>2
    <3> QED BY <3>1
  <2>3. Q = Nat
    <3> HIDE DEF Q
    <3> QED BY <2>1, <2>2, NatSets DEF Q
  <2>4. ASSUME NEW i \in 0 .. m PROVE g[i] = h[i]
    <3>1. i \in Nat /\ i <= m
      OBVIOUS
    <3>2. i \in Q
      <4> HIDE DEF Q
      <4> QED BY <2>3, <3>1
    <3> QED BY <3>1, <3>2
  <2> QED BY <2>4
<1> DEFINE G(n) == CHOOSE g : Upto(g, n)
           f    == [n \in Nat |-> G(n)[n]]
<1>3. ASSUME NEW n \in Nat PROVE Upto(G(n), n)
  <2> HIDE DEF Upto
  <2>1. \E g : Upto(g, n)
    BY <1>1
  <2> QED BY <2>1
<1>4. ASSUME NEW n \in Nat PROVE f[n] = IF n = 0 THEN NoLoops ELSE Turn(f[n - 1])
  <2> HIDE DEF G
  <2>1. f[n] = G(n)[n] /\ (n # 0 => f[n - 1] = G(n - 1)[n - 1])
    OBVIOUS
  <2>2. G(n)[n] = IF n = 0 THEN NoLoops ELSE Turn(G(n)[n - 1])
    BY <1>3
  <2>3. CASE n # 0
    <3>1. G(n - 1)[n - 1] = G(n)[n - 1]
      <4> HIDE DEF Upto
      <4>1. n - 1 \in Nat /\ n - 1 <= n /\ n - 1 \in 0 .. n - 1
        BY <2>3
      <4> QED BY <4>1, <1>2, <1>3
    <3> HIDE DEF f
    <3> QED BY <3>1, <2>1, <2>2, <2>3
  <2> HIDE DEF f
  <2> QED BY <2>1, <2>2, <2>3
<1>5. Whole(f)
  <2>1. f = [n \in Nat |-> f[n]]
    <3> HIDE DEF G
    <3> QED OBVIOUS
  <2> HIDE DEF f
  <2> QED BY <2>1, <1>4
<1>6. Loops = CHOOSE g : Whole(g)
  BY DEF Loops
<1> HIDE DEF Whole, f
<1>7. Whole(Loops)
  BY <1>5, <1>6
<1> QED BY <1>7 DEF Whole

(* So is Valid. *)
LEMMA ValidEquation ==
  Valid = [n \in Nat |-> IF n = 0 THEN NoLoops ELSE ValidTurn(Valid[n - 1])]
<1> DEFINE Upto(g, n) == g = [i \in 0 .. n |-> IF i = 0 THEN NoLoops ELSE ValidTurn(g[i - 1])]
           Whole(g)   == g = [i \in Nat |-> IF i = 0 THEN NoLoops ELSE ValidTurn(g[i - 1])]
           T == {n \in Nat : \E g : Upto(g, n)}
<1>1. T = Nat
  <2>1. \E g : Upto(g, 0)
    <3> DEFINE g == [i \in 0 .. 0 |-> NoLoops]
    <3>1. Upto(g, 0)
      OBVIOUS
    <3> QED BY <3>1
  <2>2. ASSUME NEW n \in Nat, NEW g, Upto(g, n)
        PROVE  \E h : Upto(h, n + 1)
    <3> DEFINE h == [i \in 0 .. n + 1 |-> IF i = n + 1 THEN ValidTurn(g[n]) ELSE g[i]]
    <3>1. ASSUME NEW i \in 0 .. n + 1
          PROVE  h[i] = IF i = 0 THEN NoLoops ELSE ValidTurn(h[i - 1])
      <4>1. CASE i = n + 1
        <5>1. h[i] = ValidTurn(g[n]) /\ h[i - 1] = g[n]
          BY <4>1
        <5> QED BY <5>1, <4>1
      <4>2. CASE i # n + 1
        <5>1. h[i] = g[i] /\ (i # 0 => h[i - 1] = g[i - 1]) /\ i \in 0 .. n
          BY <4>2
        <5>2. g[i] = IF i = 0 THEN NoLoops ELSE ValidTurn(g[i - 1])
          BY <2>2, <5>1
        <5> QED BY <5>1, <5>2
      <4> QED BY <4>1, <4>2
    <3>2. Upto(h, n + 1)
      BY <3>1
    <3> HIDE DEF h, Upto
    <3> QED BY <3>2
  <2> HIDE DEF Upto
  <2>3. 0 \in T
    BY <2>1
  <2>4. ASSUME NEW n \in T PROVE n + 1 \in T
    BY <2>2
  <2> QED BY <2>3, <2>4, NatSets
<1>2. ASSUME NEW m \in Nat, NEW n \in Nat, m <= n, NEW g, Upto(g, m), NEW h, Upto(h, n)
      PROVE  \A i \in 0 .. m : g[i] = h[i]
  <2> DEFINE Q == {i \in Nat : i <= m => g[i] = h[i]}
  <2>1. 0 \in Q
    <3>1. g[0] = NoLoops /\ h[0] = NoLoops
      BY <1>2
    <3> QED BY <3>1
  <2>2. ASSUME NEW i \in Q PROVE i + 1 \in Q
    <3>1. CASE i + 1 <= m
      <4>1. i + 1 \in 0 .. m /\ i + 1 \in 0 .. n /\ g[i] = h[i] /\ i + 1 # 0 /\ (i + 1) - 1 = i
        BY <3>1, <1>2
      <4>2. g[i + 1] = ValidTurn(g[(i + 1) - 1]) /\ h[i + 1] = ValidTurn(h[(i + 1) - 1])
        BY <4>1, <1>2
      <4> QED BY <4>1, <4>2
    <3> QED BY <3>1
  <2>3. Q = Nat
    <3> HIDE DEF Q
    <3> QED BY <2>1, <2>2, NatSets DEF Q
  <2>4. ASSUME NEW i \in 0 .. m PROVE g[i] = h[i]
    <3>1. i \in Nat /\ i <= m
      OBVIOUS
    <3>2. i \in Q
      <4> HIDE DEF Q
      <4> QED BY <2>3, <3>1
    <3> QED BY <3>1, <3>2
  <2> QED BY <2>4
<1> DEFINE G(n) == CHOOSE g : Upto(g, n)
           f    == [n \in Nat |-> G(n)[n]]
<1>3. ASSUME NEW n \in Nat PROVE Upto(G(n), n)
  <2> HIDE DEF Upto
  <2>1. \E g : Upto(g, n)
    BY <1>1
  <2> QED BY <2>1
<1>4. ASSUME NEW n \in Nat PROVE f[n] = IF n = 0 THEN NoLoops ELSE ValidTurn(f[n - 1])
  <2> HIDE DEF G
  <2>1. f[n] = G(n)[n] /\ (n # 0 => f[n - 1] = G(n - 1)[n - 1])
    OBVIOUS
  <2>2. G(n)[n] = IF n = 0 THEN NoLoops ELSE ValidTurn(G(n)[n - 1])
    BY <1>3
  <2>3. CASE n # 0
    <3>1. G(n - 1)[n - 1] = G(n)[n - 1]
      <4> HIDE DEF Upto
      <4>1. n - 1 \in Nat /\ n - 1 <= n /\ n - 1 \in 0 .. n - 1
        BY <2>3
      <4> QED BY <4>1, <1>2, <1>3
    <3> HIDE DEF f
    <3> QED BY <3>1, <2>1, <2>2, <2>3
  <2> HIDE DEF f
  <2> QED BY <2>1, <2>2, <2>3
<1>5. Whole(f)
  <2>1. f = [n \in Nat |-> f[n]]
    <3> HIDE DEF G
    <3> QED OBVIOUS
  <2> HIDE DEF f
  <2> QED BY <2>1, <1>4
<1>6. Valid = CHOOSE g : Whole(g)
  BY DEF Valid
<1> HIDE DEF Whole, f
<1>7. Whole(Valid)
  BY <1>5, <1>6
<1> QED BY <1>7 DEF Whole

-----------------------------------------------------------------------------
(* Decimal numbers. *)

LEMMA CutFacts ==
  /\ Cut \in [Nat -> [Nat -> Nat]]
  /\ \A n \in Nat : Cut[0][n] = n /\ \A k \in Nat : Cut[k + 1][n] = Cut[k][n] \div 10
<1> DEFINE S == [Nat -> Nat]
           s == [n \in Nat |-> n]
           D == [x \in Nat \X S |-> [n \in Nat |-> x[2][n] \div 10]]
           Whole(g) == g = [k \in Nat |->
                             [n \in Nat |-> IF k = 0 THEN n ELSE g[k - 1][n] \div 10]]
<1>1. s \in S /\ D \in [Nat \X S -> S]
  <2>1. \A m \in Nat : m \div 10 \in Nat
    OBVIOUS
  <2> QED BY <2>1
<1>2. PICK f : Iterates(f, S, s, D)
  <2> HIDE DEF S, s, D
  <2> QED BY <1>1, Recursion DEF Steps
<1>3. ASSUME NEW k \in Nat
      PROVE  f[k] \in S /\ f[k + 1] = [n \in Nat |-> f[k][n] \div 10]
  <2> HIDE DEF S
  <2>1. f[k] \in S /\ <<k + 1, f[k]>> \in Nat \X S
    BY <1>2 DEF Iterates
  <2>2. D[<<k + 1, f[k]>>] = [n \in Nat |-> f[k][n] \div 10]
    BY <2>1
  <2> QED BY <1>2, <2>1, <2>2 DEF Iterates
<1>4. ASSUME NEW k \in Nat
      PROVE  f[k] = [n \in Nat |-> IF k = 0 THEN n ELSE f[k - 1][n] \div 10]
  <2>1. CASE k = 0
    BY <1>2, <2>1 DEF Iterates
  <2>2. CASE k # 0
    <3>1. k - 1 \in Nat /\ (k - 1) + 1 = k
      BY <2>2
    <3> QED BY <1>3, <3>1, <2>2
  <2> QED BY <2>1, <2>2
<1>5. Whole(f)
  <2>1. f = [k \in Nat |-> f[k]]
    <3> HIDE DEF S
    <3> QED BY <1>2 DEF Iterates
  <2> QED BY <1>4, <2>1
<1>6. Cut = CHOOSE g : Whole(g)
  BY DEF Cut
<1>7. Whole(Cut)
  <2> HIDE DEF Whole
  <2> QED BY <1>5, <1>6
<1>70. ASSUME NEW k \in Nat
       PROVE  Cut[k] = [n \in Nat |-> IF k = 0 THEN n ELSE Cut[k - 1][n] \div 10]
  BY <1>7
<1> HIDE DEF Whole
<1> DEFINE T == {k \in Nat : Cut[k] \in [Nat -> Nat]}
<1>8. T = Nat
  <2>1. 0 \in T
    <3>1. Cut[0] = [n \in Nat |-> n]
      BY <1>70
    <3> QED BY <3>1
  <2>2. ASSUME NEW k \in T PROVE k + 1 \in T
    <3>1. k \in Nat /\ k + 1 \in Nat /\ k + 1 # 0 /\ (k + 1) - 1 = k
      OBVIOUS
    <3>2. Cut[k + 1] = [n \in Nat |-> Cut[k][n] \div 10]
      BY <1>70, <3>1
    <3>3. ASSUME NEW n \in Nat PROVE Cut[k][n] \div 10 \in Nat
      <4>1. Cut[k][n] \in Nat
        OBVIOUS
      <4> QED BY <4>1
    <3> QED BY <3>2, <3>3
  <2> HIDE DEF T
  <2> QED BY <2>1, <2>2, NatSets DEF T
<1>9. Cut \in [Nat -> [Nat -> Nat]]
  <2>1. Cut = [k \in Nat |-> Cut[k]]
    BY <1>7 DEF Whole
  <2> QED BY <2>1, <1>8
<1>10. ASSUME NEW n \in Nat PROVE Cut[0][n] = n
  BY <1>70
<1>11. ASSUME NEW n \in Nat, NEW k \in Nat PROVE Cut[k + 1][n] = Cut[k][n] \div 10
  <2>1. k + 1 \in Nat /\ k + 1 # 0 /\ (k + 1) - 1 = k
    OBVIOUS
  <2>2. Cut[k + 1] = [m \in Nat |-> Cut[k][m] \div 10]
    BY <1>70, <2>1
  <2> QED BY <2>2
<1> QED BY <1>9, <1>10, <1>11

(* And NumberOf. *)
LEMMA NumberOfFacts ==
  /\ NumberOf \in [Nat -> [Nat -> Nat]]
  /\ \A p \in Nat :
       /\ NumberOf[0][p] = 0
       /\ \A k \in Nat : NumberOf[k + 1][p] = 10 * NumberOf[k][p] + DigitValue(CharAt(p + k))
<1> DEFINE Dv(p, k) == DigitValue(CharAt(p + k - 1))
           S == [Nat -> Nat]
           s == [p \in Nat |-> 0]
           D == [x \in Nat \X S |-> [p \in Nat |-> 10 * x[2][p] + Dv(p, x[1])]]
           Whole(g) == g = [k \in Nat |->
                             [p \in Nat |-> IF k = 0 THEN 0 ELSE 10 * g[k - 1][p] + Dv(p, k)]]
<1>1. ASSUME NEW c PROVE DigitValue(c) \in 0 .. 9
  <2>1. \E d \in 0 .. 9 : isdigit(c) => Digits[d + 1] = c
    <3>1. CASE isdigit(c)
      <4>1. PICK i \in DOMAIN Digits : Digits[i] = c
        BY <3>1 DEF isdigit, Range
      <4>2. i \in 1 .. 10 /\ i - 1 \in 0 .. 9 /\ (i - 1) + 1 = i
        BY DEF Digits
      <4> QED BY <4>1, <4>2
    <3> QED BY <3>1
  <2> QED BY <2>1 DEF DigitValue
<1>0. \A p, k : Dv(p, k) \in Nat
  <2>1. \A c : DigitValue(c) \in Nat
    BY <1>1
  <2> QED BY <2>1
<1>2. s \in S /\ D \in [Nat \X S -> S]
  <2> HIDE DEF Dv
  <2> QED BY <1>0
<1> HIDE DEF Dv
<1>3. PICK f : Iterates(f, S, s, D)
  <2> HIDE DEF S, s, D
  <2> QED BY <1>2, Recursion DEF Steps
<1>4. Whole(f)
  <2> HIDE DEF S
  <2>1. ASSUME NEW k \in Nat
        PROVE  f[k] = [p \in Nat |-> IF k = 0 THEN 0 ELSE 10 * f[k - 1][p] + Dv(p, k)]
    <3>1. CASE k = 0
      BY <1>3, <3>1 DEF Iterates
    <3>2. CASE k # 0
      <4>1. k - 1 \in Nat /\ (k - 1) + 1 = k
        BY <3>2
      <4>2. f[k - 1] \in S /\ <<k, f[k - 1]>> \in Nat \X S
        BY <4>1, <1>3 DEF Iterates
      <4>3. f[k] = D[<<k, f[k - 1]>>]
        BY <4>1, <1>3 DEF Iterates
      <4>4. D[<<k, f[k - 1]>>] = [p \in Nat |-> 10 * f[k - 1][p] + Dv(p, k)]
        BY <4>2
      <4> QED BY <4>3, <4>4, <3>2
    <3> QED BY <3>1, <3>2
  <2>2. f = [k \in Nat |-> f[k]]
    BY <1>3 DEF Iterates
  <2> QED BY <2>1, <2>2
<1>5. NumberOf = CHOOSE g : Whole(g)
  BY DEF NumberOf, Dv
<1>6. Whole(NumberOf)
  <2> HIDE DEF Whole
  <2> QED BY <1>4, <1>5
<1>7. ASSUME NEW k \in Nat
      PROVE  NumberOf[k] = [p \in Nat |-> IF k = 0 THEN 0
                                          ELSE 10 * NumberOf[k - 1][p] + Dv(p, k)]
  BY <1>6
<1> HIDE DEF Whole
<1> DEFINE T == {k \in Nat : NumberOf[k] \in [Nat -> Nat]}
<1>8. T = Nat
  <2>1. 0 \in T
    BY <1>7
  <2>2. ASSUME NEW k \in T PROVE k + 1 \in T
    <3>1. NumberOf[k + 1] = [p \in Nat |-> 10 * NumberOf[k][p] + Dv(p, k + 1)]
      <4>1. k + 1 \in Nat /\ k + 1 # 0 /\ (k + 1) - 1 = k
        OBVIOUS
      <4> QED BY <1>7, <4>1
    <3>2. ASSUME NEW p \in Nat PROVE 10 * NumberOf[k][p] + Dv(p, k + 1) \in Nat
      <4>1. NumberOf[k][p] \in Nat /\ Dv(p, k + 1) \in Nat
        BY <1>0
      <4> QED BY <4>1
    <3> QED BY <3>1, <3>2
  <2> HIDE DEF T
  <2> QED BY <2>1, <2>2, NatSets DEF T
<1>9. NumberOf \in [Nat -> [Nat -> Nat]]
  <2>1. NumberOf = [k \in Nat |-> NumberOf[k]]
    BY <1>6 DEF Whole
  <2> QED BY <2>1, <1>8
<1>10. ASSUME NEW p \in Nat
       PROVE  /\ NumberOf[0][p] = 0
              /\ \A k \in Nat : NumberOf[k + 1][p] = 10 * NumberOf[k][p] + Dv(p, k + 1)
  <2>1. NumberOf[0][p] = 0
    BY <1>7
  <2>2. ASSUME NEW k \in Nat
        PROVE  NumberOf[k + 1][p] = 10 * NumberOf[k][p] + Dv(p, k + 1)
    <3>1. k + 1 \in Nat /\ k + 1 # 0 /\ (k + 1) - 1 = k
      OBVIOUS
    <3>2. NumberOf[k + 1] = [q \in Nat |-> 10 * NumberOf[k][q] + Dv(q, k + 1)]
      BY <1>7, <3>1
    <3> QED BY <3>2
  <2> QED BY <2>1, <2>2
<1>11. ASSUME NEW p \in Nat, NEW k \in Nat PROVE Dv(p, k + 1) = DigitValue(CharAt(p + k))
  <2>1. p + (k + 1) - 1 = p + k
    OBVIOUS
  <2> QED BY <2>1 DEF Dv
<1> QED BY <1>9, <1>10, <1>11

-----------------------------------------------------------------------------
(* Texts put together of parts. *)

Prefix(w, k) == FlattenSeq(SubSeq(w, 1, k))

(* A prefix grows by one part at a time, up to the whole. *)
LEMMA PrefixFacts ==
  ASSUME NEW S, NEW w \in Seq(Seq(S))
  PROVE  /\ \A k \in 0 .. Len(w) : Prefix(w, k) \in Seq(S)
         /\ Prefix(w, 0) = << >>
         /\ \A k \in 1 .. Len(w) : Prefix(w, k) = Prefix(w, k - 1) \o w[k]
         /\ Prefix(w, Len(w)) = FlattenSeq(w)
<1> DEFINE X == Seq(S)
           s == << >>
           D == [x \in Nat \X X |-> IF x[1] \in 1 .. Len(w) THEN x[2] \o w[x[1]] ELSE x[2]]
<1>1. s \in X /\ D \in Steps(X)
  <2>1. ASSUME NEW x \in Nat \X X, x[1] \in 1 .. Len(w) PROVE x[2] \o w[x[1]] \in X
    <3>1. x[2] \in Seq(S) /\ w[x[1]] \in Seq(S)
      BY <2>1
    <3> QED BY <3>1
  <2>2. ASSUME NEW x \in Nat \X X PROVE x[2] \in X
    OBVIOUS
  <2>3. ASSUME NEW x \in Nat \X X
        PROVE  (IF x[1] \in 1 .. Len(w) THEN x[2] \o w[x[1]] ELSE x[2]) \in X
    <3> HIDE DEF X
    <3> QED BY <2>1, <2>2
  <2>4. D \in [Nat \X X -> X]
    <3> HIDE DEF X
    <3> QED BY <2>3
  <2> QED BY <2>4 DEF Steps
<1>2. PICK F : Iterates(F, X, s, D)
  <2> HIDE DEF X, s, D
  <2> QED BY <1>1, Recursion
<1>3. F[0] = << >> /\ \A k \in Nat : F[k] \in Seq(S)
  BY <1>2 DEF Iterates
<1>4. ASSUME NEW k \in 1 .. Len(w) PROVE F[k] = F[k - 1] \o w[k]
  <2> HIDE DEF X
  <2>1. k \in Nat /\ k - 1 \in Nat /\ (k - 1) + 1 = k
    OBVIOUS
  <2>2. F[k - 1] \in X /\ <<k, F[k - 1]>> \in Nat \X X
    BY <2>1, <1>2 DEF Iterates
  <2>3. F[k] = D[<<k, F[k - 1]>>]
    BY <2>1, <1>2 DEF Iterates
  <2>4. D[<<k, F[k - 1]>>] = F[k - 1] \o w[k]
    BY <2>2
  <2> QED BY <2>3, <2>4
<1> HIDE DEF D, s, X
<1>5. ASSUME NEW k \in 0 .. Len(w) PROVE Prefix(w, k) = F[k]
  <2> DEFINE v == SubSeq(w, 1, k)
  <2>1. v \in Seq(Seq(S)) /\ Len(v) = k /\ \A i \in 1 .. k : v[i] = w[i]
    OBVIOUS
  <2> HIDE DEF v
  <2>2. CASE k = 0
    <3>1. v = << >>
      BY <2>1, <2>2
    <3>2. FlattenSeq(v) = << >>
      BY <3>1 DEF FlattenSeq
    <3> QED BY <3>2, <2>2, <1>3 DEF Prefix, v
  <2>3. CASE k # 0
    <3> DEFINE Flat(g) == g = [i \in 1 .. Len(v) |-> IF i = 1 THEN v[i] ELSE g[i - 1] \o v[i]]
               g0 == [i \in 1 .. Len(v) |-> F[i]]
    <3>1. Flat(g0)
      <4>1. ASSUME NEW i \in 1 .. Len(v)
            PROVE  F[i] = IF i = 1 THEN v[i] ELSE g0[i - 1] \o v[i]
        <5>1. i \in 1 .. Len(w) /\ v[i] = w[i] /\ v[i] \in Seq(S)
          BY <2>1
        <5>2. F[i] = F[i - 1] \o v[i]
          BY <5>1, <1>4
        <5>3. CASE i = 1
          <6>1. F[i - 1] = << >>
            BY <5>3, <1>3
          <6> QED BY <6>1, <5>1, <5>2, <5>3, ConcatEmptySeq
        <5>4. CASE i # 1
          <6>1. g0[i - 1] = F[i - 1]
            BY <5>4, <2>1
          <6> QED BY <5>2, <5>4, <6>1
        <5> QED BY <5>3, <5>4
      <4> QED BY <4>1
    <3>2. ASSUME NEW g, Flat(g) PROVE g[Len(v)] = F[Len(v)]
      <4> DEFINE Q == {i \in Nat : i + 1 <= Len(v) => g[i + 1] = F[i + 1]}
      <4>1. 0 \in Q
        <5>1. 1 \in 1 .. Len(v) /\ 1 \in 1 .. Len(w) /\ v[1] = w[1] /\ w[1] \in Seq(S)
          BY <2>1, <2>3
        <5>20. F[1] = F[1 - 1] \o w[1]
          BY <5>1, <1>4
        <5>21. 1 - 1 = 0
          OBVIOUS
        <5>2. F[1] = F[1 - 1] \o w[1] /\ F[1 - 1] = << >>
          BY <5>20, <5>21, <1>3
        <5>3. g[1] = v[1] /\ F[1] = w[1]
          BY <5>1, <5>2, <3>2, ConcatEmptySeq
        <5> QED BY <5>1, <5>3
      <4>2. ASSUME NEW i \in Q PROVE i + 1 \in Q
        <5> SUFFICES ASSUME (i + 1) + 1 <= Len(v)
                     PROVE  g[(i + 1) + 1] = F[(i + 1) + 1]
          OBVIOUS
        <5>1. i + 2 \in 1 .. Len(v) /\ i + 2 # 1 /\ (i + 2) - 1 = i + 1 /\ i + 2 \in 1 .. Len(w)
          BY <2>1
        <5>2. g[i + 2] = g[i + 1] \o v[i + 2]
          BY <5>1, <3>2
        <5>3. F[i + 2] = F[i + 1] \o w[i + 2]
          BY <5>1, <1>4
        <5>4. g[i + 1] = F[i + 1] /\ v[i + 2] = w[i + 2]
          BY <5>1, <2>1
        <5>5. (i + 1) + 1 = i + 2
          OBVIOUS
        <5> QED BY <5>2, <5>3, <5>4, <5>5
      <4>3. Q = Nat
        <5> HIDE DEF Q
        <5> QED BY <4>1, <4>2, NatSets DEF Q
      <4>4. Len(v) - 1 \in Q /\ (Len(v) - 1) + 1 = Len(v)
        BY <4>3, <2>1, <2>3
      <4> QED BY <4>4
    <3>3. FlattenSeq(v) = (CHOOSE g : Flat(g))[Len(v)]
      BY <2>1, <2>3 DEF FlattenSeq
    <3> HIDE DEF Flat, g0
    <3>4. FlattenSeq(v) = F[Len(v)]
      BY <3>1, <3>2, <3>3
    <3> QED BY <3>4, <2>1 DEF Prefix, v
  <2> QED BY <2>2, <2>3
<1>6. SubSeq(w, 1, Len(w)) = w
  BY SubSeqFull
<1>7. ASSUME NEW k \in 1 .. Len(w) PROVE Prefix(w, k) = Prefix(w, k - 1) \o w[k]
  <2>1. k \in 0 .. Len(w) /\ k - 1 \in 0 .. Len(w)
    OBVIOUS
  <2> QED BY <2>1, <1>4, <1>5
<1>8. Prefix(w, Len(w)) = FlattenSeq(w)
  BY <1>6 DEF Prefix
<1>9. Prefix(w, 0) = << >> /\ \A k \in 0 .. Len(w) : Prefix(w, k) \in Seq(S)
  <2>1. 0 \in 0 .. Len(w) /\ 0 .. Len(w) \subseteq Nat
    OBVIOUS
  <2> QED BY <2>1, <1>3, <1>5
<1> QED BY <1>7, <1>8, <1>9

(* The characters of Digits are digits, each of its value. *)
LEMMA DigitFacts ==
  /\ \A d \in 0 .. 9 :
       isdigit(Digits[d + 1]) /\ DigitValue(Digits[d + 1]) = d /\ Digits[d + 1] \in Char
  /\ \A c \in {":", "-", "i", "l", "d", "e", Zero, "\r"} : ~isdigit(c)
<1>1. ASSUME NEW c PROVE isdigit(c) <=> \E i \in 1 .. 10 : c = Digits[i]
  BY DEF isdigit, Range, Digits
<1>2. \A i \in 1 .. 10 : \A j \in 1 .. 10 : Digits[i] = Digits[j] => i = j
  BY DEF Digits
<1>3. \A i \in 1 .. 10 : Digits[i] \notin {":", "-", "i", "l", "d", "e", Zero, "\r"}
  BY DEF Digits, Zero
<1>4. ASSUME NEW d \in 0 .. 9
      PROVE  isdigit(Digits[d + 1]) /\ DigitValue(Digits[d + 1]) = d /\ Digits[d + 1] \in Char
  <2>1. d + 1 \in 1 .. 10 /\ isdigit(Digits[d + 1])
    BY <1>1
  <2>2. Digits[d + 1] \in Range(Digits)
    BY <2>1 DEF isdigit
  <2>3. Digits[d + 1] \in Char
    BY <2>2, ValueAssumption
  <2>4. ASSUME NEW b \in 0 .. 9, Digits[b + 1] = Digits[d + 1] PROVE b = d
    <3>1. b + 1 = d + 1
      BY <1>2, <2>4
    <3> QED BY <3>1
  <2>5. DigitValue(Digits[d + 1]) = d
    BY <2>1, <2>4 DEF DigitValue
  <2> QED BY <2>1, <2>3, <2>5
<1>5. ASSUME NEW c \in {":", "-", "i", "l", "d", "e", Zero, "\r"} PROVE ~isdigit(c)
  BY <1>1, <1>3
<1> QED BY <1>4, <1>5

(* Without enough of its digits a number is zero. *)
LEMMA CutReachesZero ==
  ASSUME NEW n \in Nat
  PROVE  Cut[n + 1][n] = 0
<1> DEFINE T == {m \in Nat : Cut[m][n] = 0 \/ Cut[m][n] + m <= n}
<1>1. 0 \in T
  <2>1. Cut[0][n] = n /\ n + 0 <= n
    BY CutFacts
  <2> QED BY <2>1
<1>2. ASSUME NEW m \in T PROVE m + 1 \in T
  <2>1. Cut[m][n] \in Nat /\ Cut[m + 1][n] = Cut[m][n] \div 10
    BY CutFacts
  <2>2. ASSUME NEW c \in Nat PROVE (c = 0 => c \div 10 = 0) /\ (c # 0 => c \div 10 + 1 <= c)
    OBVIOUS
  <2>3. CASE Cut[m][n] = 0
    BY <2>1, <2>2, <2>3
  <2>4. CASE Cut[m][n] # 0
    <3>1. Cut[m][n] + m <= n
      BY <2>4
    <3>2. Cut[m][n] \div 10 + 1 <= Cut[m][n] /\ Cut[m][n] \div 10 \in Nat
      BY <2>1, <2>2, <2>4
    <3> QED BY <2>1, <3>1, <3>2
  <2> QED BY <2>3, <2>4
<1>3. T = Nat
  <2> HIDE DEF T
  <2> QED BY <1>1, <1>2, NatSets DEF T
<1>4. n + 1 \in Nat /\ Cut[n + 1][n] \in Nat
  BY CutFacts
<1>5. Cut[n + 1][n] = 0 \/ Cut[n + 1][n] + (n + 1) <= n
  BY <1>3, <1>4
<1> QED BY <1>4, <1>5

(* A number is written in digits, one at least. *)
LEMMA DecimalFacts ==
  ASSUME NEW n \in Nat
  PROVE  /\ DigitCount(n) \in Nat \ {0} /\ Cut[DigitCount(n)][n] = 0
         /\ Decimal(n) \in Seq(Char) /\ Len(Decimal(n)) = DigitCount(n)
         /\ \A i \in 1 .. DigitCount(n) :
              /\ Decimal(n)[i] = Digits[1 + (Cut[DigitCount(n) - i][n] % 10)]
              /\ isdigit(Decimal(n)[i])
<1> DEFINE K == {k \in 1 .. n + 1 : Cut[k][n] = 0}
<1>1. \E k \in 1 .. n + 1 : Cut[k][n] = 0 /\ (k = 1 \/ Cut[k - 1][n] # 0)
  <2>1. n + 1 \in K /\ K \subseteq Nat
    BY CutReachesZero
  <2>2. PICK k \in K : \A y \in K : k <= y
    <3> HIDE DEF K
    <3> QED BY <2>1, Least
  <2>3. k # 1 => k - 1 \in 1 .. n + 1 /\ k - 1 \notin K
    BY <2>2
  <2> QED BY <2>2, <2>3
<1> DEFINE k == DigitCount(n)
<1>2. k \in 1 .. n + 1 /\ Cut[k][n] = 0
  BY <1>1 DEF DigitCount
<1> HIDE DEF k
<1>3. Decimal(n) = [i \in 1 .. k |-> Digits[1 + (Cut[k - i][n] % 10)]]
  BY DEF Decimal, k
<1>4. ASSUME NEW i \in 1 .. k
      PROVE  /\ Digits[1 + (Cut[k - i][n] % 10)] \in Char
             /\ isdigit(Digits[1 + (Cut[k - i][n] % 10)])
  <2>1. Cut[k - i][n] \in Nat
    BY <1>2, CutFacts
  <2>2. Cut[k - i][n] % 10 \in 0 .. 9
    BY <2>1
  <2>3. ASSUME NEW d \in 0 .. 9 PROVE Digits[1 + d] \in Char /\ isdigit(Digits[1 + d])
    <3>1. 1 + d = d + 1
      OBVIOUS
    <3> QED BY <3>1, DigitFacts
  <2> QED BY <2>2, <2>3
<1>5. Decimal(n) \in Seq(Char) /\ Len(Decimal(n)) = k
  <2> DEFINE w(i) == Digits[1 + (Cut[k - i][n] % 10)]
  <2>1. \A i \in 1 .. k : w(i) \in Char
    BY <1>4
  <2> HIDE DEF w
  <2>2. [i \in 1 .. k |-> w(i)] \in Seq(Char) /\ Len([i \in 1 .. k |-> w(i)]) = k
    BY <2>1, <1>2
  <2> QED BY <2>2, <1>3 DEF w
<1>6. \A i \in 1 .. k :
         Decimal(n)[i] = Digits[1 + (Cut[k - i][n] % 10)] /\ isdigit(Decimal(n)[i])
  BY <1>3, <1>4
<1> QED BY <1>2, <1>5, <1>6 DEF k

(* Digits in the buffer are read as the number they were written for. *)
Holds(w, p) ==
  /\ p \in Nat \ {0}
  /\ p + Len(w) <= Len(text) + 1
  /\ \A i \in 1 .. Len(w) : text[p + i - 1] = w[i]

(* The digits of a number make up the number. *)
LEMMA NumberRead ==
  ASSUME text \in Seq(Char), NEW n \in Nat, NEW p, Holds(Decimal(n), p)
  PROVE  NumberOf[Len(Decimal(n))][p] = n
<1> DEFINE k == DigitCount(n)
           T == {j \in Nat : j <= k => NumberOf[j][p] = Cut[k - j][n]}
<1>0. k \in Nat \ {0} /\ Len(Decimal(n)) = k /\ Len(text) \in Nat /\ p \in Nat \ {0}
  BY DecimalFacts DEF Holds
<1>1. 0 \in T
  <2>1. k - 0 = k
    BY <1>0
  <2> QED BY <1>0, <2>1, NumberOfFacts, DecimalFacts
<1>2. ASSUME NEW j \in T PROVE j + 1 \in T
  <2> SUFFICES ASSUME j + 1 <= k PROVE NumberOf[j + 1][p] = Cut[k - (j + 1)][n]
    OBVIOUS
  <2>1. NumberOf[j][p] = Cut[k - j][n]
    BY <1>0
  <2>2. NumberOf[j + 1][p] = 10 * NumberOf[j][p] + DigitValue(CharAt(p + j))
    BY <1>0, NumberOfFacts
  <2>3. CharAt(p + j) = Decimal(n)[j + 1]
    <3>1. j + 1 \in 1 .. Len(Decimal(n)) /\ p + (j + 1) - 1 = p + j /\ p + j # Len(text) + 1
      BY <1>0 DEF Holds
    <3> QED BY <3>1 DEF Holds, CharAt
  <2> DEFINE c == Cut[k - (j + 1)][n]
  <2>4. c \in Nat /\ k - (j + 1) \in Nat /\ (k - (j + 1)) + 1 = k - j
    <3> HIDE DEF k
    <3>1. k - (j + 1) \in Nat /\ (k - (j + 1)) + 1 = k - j
      BY <1>0
    <3> QED BY <3>1, CutFacts
  <2>5. Cut[k - j][n] = c \div 10
    BY <2>4, CutFacts
  <2>6. DigitValue(Decimal(n)[j + 1]) = c % 10
    <3>1. Decimal(n)[j + 1] = Digits[1 + (c % 10)]
      BY <1>0, DecimalFacts
    <3>2. c % 10 \in 0 .. 9 /\ 1 + (c % 10) = (c % 10) + 1
      <4>1. c \in Nat
        BY <2>4
      <4> HIDE DEF c
      <4> QED BY <4>1
    <3> QED BY <3>1, <3>2, DigitFacts
  <2> HIDE DEF c, k
  <2>7. 10 * (c \div 10) + (c % 10) = c
    BY <2>4
  <2> QED BY <2>1, <2>2, <2>3, <2>5, <2>6, <2>7 DEF c
<1>3. T = Nat
  <2> HIDE DEF T
  <2> QED BY <1>1, <1>2, NatSets DEF T
<1>4. NumberOf[k][p] = Cut[k - k][n] /\ k - k = 0
  BY <1>0, <1>3
<1> QED BY <1>0, <1>4, CutFacts


-----------------------------------------------------------------------------
(* What is written for a value is made of what is written for its parts. *)

Chunks(e, x) ==
  IF IsDict(x) THEN [i \in DOMAIN x.dict |-> EncodeStr(<<x.dict[i].key>>) \o e[x.dict[i].val]]
               ELSE [i \in DOMAIN x.list |-> e[x.list[i]]]

Written(e, x) ==
  CASE IsStr(x)  -> EncodeStr(x.str)
    [] IsInt(x)  -> EncodeInt(x.int)
    [] IsList(x) -> <<"l">> \o FlattenSeq(Chunks(e, x)) \o <<"e">>
    [] IsDict(x) -> <<"d">> \o FlattenSeq(Chunks(e, x)) \o <<"e">>

(* The four kinds of values exclude each other. *)
LEMMA Kinds ==
  ASSUME NEW x \in Value
  PROVE  /\ IsStr(x) \/ IsInt(x) \/ IsList(x) \/ IsDict(x)
         /\ IsStr(x) => ~IsInt(x) /\ ~IsList(x) /\ ~IsDict(x) /\ x.str \in Seq(Char)
         /\ IsInt(x) => ~IsStr(x) /\ ~IsList(x) /\ ~IsDict(x) /\ x.int \in Int
         /\ IsList(x) => /\ ~IsStr(x) /\ ~IsInt(x) /\ ~IsDict(x) /\ x.list \in Seq(Value)
                         /\ \A i \in 1 .. Len(x.list) :
                              x.list[i] \in Value /\ Depth[x.list[i]] < Depth[x]
         /\ IsDict(x) => /\ ~IsStr(x) /\ ~IsInt(x) /\ ~IsList(x)
                         /\ x.dict \in Seq([key : Char, val : Value])
                         /\ \A i \in 1 .. Len(x.dict) :
                              /\ x.dict[i].key \in Char /\ x.dict[i].val \in Value
                              /\ Depth[x.dict[i].val] < Depth[x]
         /\ Depth[x] \in Nat
<1>1. /\ {"str"} # {"int"} /\ {"str"} # {"list"} /\ {"str"} # {"dict"}
      /\ {"int"} # {"list"} /\ {"int"} # {"dict"} /\ {"list"} # {"dict"}
  OBVIOUS
<1>2. \/ IsStr(x) /\ x.str \in Seq(Char)
      \/ IsInt(x) /\ x.int \in Int
      \/ /\ IsList(x) /\ x.list \in Seq(Value)
         /\ \A i \in DOMAIN x.list : Depth[x.list[i]] < Depth[x]
      \/ /\ IsDict(x) /\ x.dict \in Seq([key : Char, val : Value])
         /\ \A i \in DOMAIN x.dict : Depth[x.dict[i].val] < Depth[x]
  BY ValueAssumption
<1>3. Depth[x] \in Nat
  BY ValueAssumption
<1>4. ASSUME NEW s \in Seq(Value), NEW i \in 1 .. Len(s) PROVE i \in DOMAIN s /\ s[i] \in Value
  OBVIOUS
<1>5. ASSUME NEW s \in Seq([key : Char, val : Value]), NEW i \in 1 .. Len(s)
      PROVE  i \in DOMAIN s /\ s[i].key \in Char /\ s[i].val \in Value
  <2> DEFINE E == [key : Char, val : Value]
  <2>1. s \in Seq(E)
    OBVIOUS
  <2>2. i \in DOMAIN s /\ s[i] \in E
    <3> HIDE DEF E
    <3> QED BY <2>1
  <2> QED BY <2>2
<1>6. CASE IsStr(x) /\ x.str \in Seq(Char)
  BY <1>1, <1>3, <1>6 DEF IsStr, IsInt, IsList, IsDict
<1>7. CASE IsInt(x) /\ x.int \in Int
  BY <1>1, <1>3, <1>7 DEF IsStr, IsInt, IsList, IsDict
<1>8. CASE /\ IsList(x) /\ x.list \in Seq(Value)
           /\ \A i \in DOMAIN x.list : Depth[x.list[i]] < Depth[x]
  <2>1. ~IsStr(x) /\ ~IsInt(x) /\ ~IsDict(x)
    BY <1>1, <1>8 DEF IsStr, IsInt, IsList, IsDict
  <2>2. \A i \in 1 .. Len(x.list) : x.list[i] \in Value /\ Depth[x.list[i]] < Depth[x]
    BY <1>4, <1>8
  <2> QED BY <2>1, <2>2, <1>3, <1>8
<1>9. CASE /\ IsDict(x) /\ x.dict \in Seq([key : Char, val : Value])
           /\ \A i \in DOMAIN x.dict : Depth[x.dict[i].val] < Depth[x]
  <2>1. ~IsStr(x) /\ ~IsInt(x) /\ ~IsList(x)
    BY <1>1, <1>9 DEF IsStr, IsInt, IsList, IsDict
  <2>2. \A i \in 1 .. Len(x.dict) :
           x.dict[i].key \in Char /\ x.dict[i].val \in Value /\ Depth[x.dict[i].val] < Depth[x]
    BY <1>5, <1>9
  <2> QED BY <2>1, <2>2, <1>3, <1>9
<1> QED BY <1>2, <1>6, <1>7, <1>8, <1>9

LEMMA CharFacts == {":", "-", "i", "l", "d", "e"} \subseteq Char
BY ValueAssumption

LEMMA StrTyped ==
  ASSUME NEW s \in Seq(Char)
  PROVE  /\ EncodeStr(s) \in Seq(Char)
         /\ Len(EncodeStr(s)) = Len(Decimal(Len(s))) + 1 + Len(s)
         /\ Len(Decimal(Len(s))) \in Nat \ {0} /\ Decimal(Len(s)) \in Seq(Char)
<1> DEFINE d == Decimal(Len(s))
<1>1. d \in Seq(Char) /\ Len(d) \in Nat \ {0}
  BY DecimalFacts
<1>2. <<":">> \in Seq(Char) /\ Len(<<":">>) = 1
  BY CharFacts
<1> HIDE DEF d
<1>3. d \o <<":">> \in Seq(Char) /\ Len(d \o <<":">>) = Len(d) + 1
  BY <1>1, <1>2
<1> QED BY <1>1, <1>3 DEF EncodeStr, d

Magnitude(n) == IF n < 0 THEN -n ELSE n
Sign(n) == IF n < 0 THEN <<"-">> ELSE << >>

LEMMA IntTyped ==
  ASSUME NEW n \in Int
  PROVE  /\ EncodeInt(n) = <<"i">> \o (Sign(n) \o Decimal(Magnitude(n))) \o <<"e">>
         /\ EncodeInt(n) \in Seq(Char) /\ Sign(n) \in Seq(Char)
         /\ Magnitude(n) \in Nat /\ Decimal(Magnitude(n)) \in Seq(Char)
         /\ Len(Decimal(Magnitude(n))) \in Nat \ {0}
         /\ Len(EncodeInt(n)) = 2 + Len(Sign(n)) + Len(Decimal(Magnitude(n)))
<1> DEFINE d == Decimal(Magnitude(n))
<1>1. Magnitude(n) \in Nat
  BY DEF Magnitude
<1>2. d \in Seq(Char) /\ Len(d) \in Nat \ {0}
  BY <1>1, DecimalFacts
<1>3. <<"i">> \in Seq(Char) /\ <<"e">> \in Seq(Char) /\ Sign(n) \in Seq(Char)
  BY CharFacts DEF Sign
<1>4. EncodeInt(n) = <<"i">> \o (Sign(n) \o d) \o <<"e">>
  <2>1. CASE n < 0
    BY <2>1 DEF EncodeInt, Sign, Magnitude
  <2>2. CASE ~(n < 0)
    <3>1. << >> \o d = d
      <4> HIDE DEF d
      <4> QED BY <1>2, ConcatEmptySeq
    <3>2. EncodeInt(n) = <<"i">> \o Decimal(n) \o <<"e">>
      BY <2>2 DEF EncodeInt
    <3>3. Magnitude(n) = n /\ Sign(n) = << >>
      BY <2>2 DEF Magnitude, Sign
    <3> QED BY <3>1, <3>2, <3>3
  <2> QED BY <2>1, <2>2
<1> HIDE DEF d
<1>5. Sign(n) \o d \in Seq(Char) /\ Len(Sign(n) \o d) = Len(Sign(n)) + Len(d)
  BY <1>2, <1>3
<1>6. /\ <<"i">> \o (Sign(n) \o d) \in Seq(Char)
      /\ Len(<<"i">> \o (Sign(n) \o d)) = 1 + Len(Sign(n)) + Len(d)
  BY <1>2, <1>3, <1>5
<1>7. /\ <<"i">> \o (Sign(n) \o d) \o <<"e">> \in Seq(Char)
      /\ Len(<<"i">> \o (Sign(n) \o d) \o <<"e">>) = 2 + Len(Sign(n)) + Len(d)
  <2> DEFINE u == <<"i">> \o (Sign(n) \o d)
  <2>1. u \in Seq(Char) /\ Len(u) = 1 + Len(Sign(n)) + Len(d)
    BY <1>6
  <2> HIDE DEF u
  <2>2. u \o <<"e">> \in Seq(Char) /\ Len(u \o <<"e">>) = Len(u) + 1
    BY <1>3, <2>1
  <2>3. Len(Sign(n)) \in Nat /\ Len(d) \in Nat
    BY <1>2, <1>3
  <2> QED BY <2>1, <2>2, <2>3 DEF u
<1> QED BY <1>1, <1>2, <1>3, <1>4, <1>7 DEF d

Bracketed(c, w) == <<c>> \o w \o <<"e">>

LEMMA BracketedTyped ==
  ASSUME NEW c \in Char, NEW w \in Seq(Char)
  PROVE  Bracketed(c, w) \in Seq(Char) /\ Len(Bracketed(c, w)) = Len(w) + 2
<1>1. <<c>> \in Seq(Char) /\ <<"e">> \in Seq(Char) /\ Len(<<c>>) = 1 /\ Len(<<"e">>) = 1
  BY CharFacts
<1>2. <<c>> \o w \in Seq(Char) /\ Len(<<c>> \o w) = 1 + Len(w)
  BY <1>1
<1> DEFINE u == <<c>> \o w
<1> HIDE DEF u
<1>3. u \o <<"e">> \in Seq(Char) /\ Len(u \o <<"e">>) = Len(u) + 1
  BY <1>1, <1>2 DEF u
<1>4. Len(w) \in Nat
  OBVIOUS
<1> QED BY <1>2, <1>3, <1>4 DEF Bracketed, u

LEMMA ChunksTyped ==
  ASSUME NEW x \in Value, IsList(x) \/ IsDict(x), NEW e,
         \A y \in Value : Depth[y] < Depth[x] => e[y] \in Seq(Char)
  PROVE  Chunks(e, x) \in Seq(Seq(Char)) /\ FlattenSeq(Chunks(e, x)) \in Seq(Char)
<1>1. Chunks(e, x) \in Seq(Seq(Char))
  <2>1. CASE IsList(x)
    <3>1. \A i \in 1 .. Len(x.list) : e[x.list[i]] \in Seq(Char)
      BY <2>1, Kinds
    <3>2. DOMAIN x.list = 1 .. Len(x.list) /\ Len(x.list) \in Nat /\ ~IsDict(x)
      BY <2>1, Kinds
    <3>3. Chunks(e, x) = [i \in 1 .. Len(x.list) |-> e[x.list[i]]]
      BY <3>2 DEF Chunks
    <3> QED BY <3>1, <3>2, <3>3
  <2>2. CASE IsDict(x)
    <3> DEFINE w(i) == EncodeStr(<<x.dict[i].key>>) \o e[x.dict[i].val]
    <3>1. ASSUME NEW i \in 1 .. Len(x.dict) PROVE w(i) \in Seq(Char)
      <4>1. x.dict[i].key \in Char /\ e[x.dict[i].val] \in Seq(Char)
        BY <2>2, Kinds
      <4>2. <<x.dict[i].key>> \in Seq(Char)
        BY <4>1
      <4>3. EncodeStr(<<x.dict[i].key>>) \in Seq(Char)
        BY <4>2, StrTyped
      <4> QED BY <4>1, <4>3
    <3>2. DOMAIN x.dict = 1 .. Len(x.dict) /\ Len(x.dict) \in Nat
      BY <2>2, Kinds
    <3>3. Chunks(e, x) = [i \in 1 .. Len(x.dict) |-> w(i)]
      BY <2>2, <3>2 DEF Chunks
    <3> HIDE DEF w
    <3> QED BY <3>1, <3>2, <3>3
  <2> QED BY <2>1, <2>2
<1> DEFINE w == Chunks(e, x)
<1>2. Len(w) \in 0 .. Len(w) /\ Prefix(w, Len(w)) = FlattenSeq(w) /\ Prefix(w, Len(w)) \in Seq(Char)
  <2> HIDE DEF w
  <2>1. w \in Seq(Seq(Char))
    BY <1>1 DEF w
  <2>2. Len(w) \in 0 .. Len(w)
    BY <2>1
  <2> QED BY <2>1, <2>2, PrefixFacts
<1> QED BY <1>1, <1>2

LEMMA WrittenCases ==
  ASSUME NEW x \in Value, NEW e
  PROVE  /\ IsStr(x) => Written(e, x) = EncodeStr(x.str)
         /\ IsInt(x) => Written(e, x) = EncodeInt(x.int)
         /\ IsList(x) => Written(e, x) = Bracketed("l", FlattenSeq(Chunks(e, x)))
         /\ IsDict(x) => Written(e, x) = Bracketed("d", FlattenSeq(Chunks(e, x)))
BY Kinds DEF Written, Bracketed

LEMMA WrittenTyped ==
  ASSUME NEW x \in Value, NEW e,
         \A y \in Value : Depth[y] < Depth[x] => e[y] \in Seq(Char)
  PROVE  Written(e, x) \in Seq(Char)
<1>1. CASE IsStr(x)
  BY <1>1, Kinds, StrTyped, WrittenCases
<1>2. CASE IsInt(x)
  BY <1>2, Kinds, IntTyped, WrittenCases
<1>3. CASE IsList(x) \/ IsDict(x)
  <2>1. FlattenSeq(Chunks(e, x)) \in Seq(Char)
    BY <1>3, ChunksTyped
  <2>2. /\ Bracketed("l", FlattenSeq(Chunks(e, x))) \in Seq(Char)
        /\ Bracketed("d", FlattenSeq(Chunks(e, x))) \in Seq(Char)
    BY <2>1, CharFacts, BracketedTyped
  <2> QED BY <1>3, <2>2, WrittenCases
<1> QED BY <1>1, <1>2, <1>3, Kinds

(* What a value is written as depends on its parts alone, which are not as deep. *)
LEMMA WrittenLocal ==
  ASSUME NEW x \in Value, NEW e, NEW f,
         \A y \in Value : Depth[y] < Depth[x] => e[y] = f[y]
  PROVE  Written(e, x) = Written(f, x)
<1>1. CASE IsStr(x) \/ IsInt(x)
  BY <1>1, WrittenCases
<1>2. CASE IsList(x)
  <2>1. \A i \in 1 .. Len(x.list) : e[x.list[i]] = f[x.list[i]]
    BY <1>2, Kinds
  <2>2. DOMAIN x.list = 1 .. Len(x.list) /\ ~IsDict(x)
    BY <1>2, Kinds
  <2>3. Chunks(e, x) = Chunks(f, x)
    BY <2>1, <2>2 DEF Chunks
  <2> QED BY <1>2, <2>3, WrittenCases
<1>3. CASE IsDict(x)
  <2>1. \A i \in 1 .. Len(x.dict) : e[x.dict[i].val] = f[x.dict[i].val]
    BY <1>3, Kinds
  <2>2. DOMAIN x.dict = 1 .. Len(x.dict)
    BY <1>3, Kinds
  <2>3. Chunks(e, x) = Chunks(f, x)
    BY <1>3, <2>1, <2>2 DEF Chunks
  <2> QED BY <1>3, <2>3, WrittenCases
<1> QED BY <1>1, <1>2, <1>3, Kinds


(* What Encode is defined by holds of it: values are only nested so deep. *)
LEMMA EncodeEquation ==
  \A x \in Value : Encode[x] = Written(Encode, x)
<1> DEFINE S == [Value -> Seq(Char)]
           s == [x \in Value |-> << >>]
           D == [n \in Nat \X S |-> [x \in Value |-> Written(n[2], x)]]
           Whole(e) == e = [x \in Value |-> Written(e, x)]
<1>1. s \in S /\ D \in [Nat \X S -> S]
  <2>1. << >> \in Seq(Char)
    OBVIOUS
  <2>2. ASSUME NEW n \in Nat \X S PROVE [x \in Value |-> Written(n[2], x)] \in S
    <3>1. \A y \in Value : n[2][y] \in Seq(Char)
      OBVIOUS
    <3>2. \A x \in Value : Written(n[2], x) \in Seq(Char)
      BY <3>1, WrittenTyped
    <3> QED BY <3>2
  <2>3. D \in [Nat \X S -> S]
    <3> HIDE DEF S
    <3> QED BY <2>2
  <2> QED BY <2>1, <2>3
<1>2. PICK F : Iterates(F, S, s, D)
  <2> HIDE DEF S, s, D
  <2> QED BY <1>1, Recursion DEF Steps
<1>3. ASSUME NEW n \in Nat
      PROVE  F[n] \in S /\ \A x \in Value : F[n + 1][x] = Written(F[n], x)
  <2> HIDE DEF S
  <2>1. F[n] \in S /\ <<n + 1, F[n]>> \in Nat \X S
    BY <1>2 DEF Iterates
  <2>2. D[<<n + 1, F[n]>>] = [x \in Value |-> Written(F[n], x)]
    BY <2>1
  <2>3. F[n + 1] = [x \in Value |-> Written(F[n], x)]
    BY <1>2, <2>2 DEF Iterates
  <2> QED BY <2>1, <2>3
<1> HIDE DEF S, s, D
<1> DEFINE T == {n \in Nat : \A x \in Value : Depth[x] < n => F[n + 1][x] = F[n][x]}
<1>4. T = Nat
  <2>1. 0 \in T
    BY Kinds
  <2>2. ASSUME NEW n \in T PROVE n + 1 \in T
    <3> SUFFICES ASSUME NEW x \in Value, Depth[x] < n + 1
                 PROVE  F[(n + 1) + 1][x] = F[n + 1][x]
      OBVIOUS
    <3>1. ASSUME NEW y \in Value, Depth[y] < Depth[x] PROVE F[n + 1][y] = F[n][y]
      <4>1. Depth[y] \in Nat /\ Depth[x] \in Nat
        BY Kinds
      <4>2. Depth[y] < n
        BY <3>1, <4>1
      <4> QED BY <4>2
    <3>2. Written(F[n + 1], x) = Written(F[n], x)
      <4> HIDE DEF T
      <4> QED BY <3>1, WrittenLocal
    <3> QED BY <3>2, <1>3
  <2> HIDE DEF T
  <2> QED BY <2>1, <2>2, NatSets DEF T
<1> DEFINE U == {k \in Nat : \A x \in Value : F[Depth[x] + 1 + k][x] = F[Depth[x] + 1][x]}
<1>5. U = Nat
  <2>1. 0 \in U
    <3>1. \A x \in Value : Depth[x] + 1 + 0 = Depth[x] + 1
      BY Kinds
    <3> QED BY <3>1
  <2>2. ASSUME NEW k \in U PROVE k + 1 \in U
    <3> SUFFICES ASSUME NEW x \in Value
                 PROVE  F[Depth[x] + 1 + (k + 1)][x] = F[Depth[x] + 1][x]
      OBVIOUS
    <3>1. Depth[x] + 1 + k \in T /\ Depth[x] < Depth[x] + 1 + k
      <4>1. Depth[x] \in Nat
        BY Kinds
      <4>2. Depth[x] + 1 + k \in Nat /\ Depth[x] < Depth[x] + 1 + k
        BY <4>1
      <4> HIDE DEF T
      <4> QED BY <1>4, <4>2
    <3>2. (Depth[x] + 1 + k) + 1 = Depth[x] + 1 + (k + 1)
      <4>1. Depth[x] \in Nat /\ k \in Nat
        BY Kinds
      <4> QED BY <4>1
    <3>3. F[(Depth[x] + 1 + k) + 1][x] = F[Depth[x] + 1 + k][x]
      BY <3>1
    <3> QED BY <3>2, <3>3
  <2> HIDE DEF U
  <2> QED BY <2>1, <2>2, NatSets DEF U
<1> DEFINE e == [x \in Value |-> F[Depth[x] + 1][x]]
<1>6. ASSUME NEW x \in Value PROVE F[Depth[x] + 1][x] = Written(e, x)
  <2>1. Depth[x] \in Nat
    BY Kinds
  <2>2. F[Depth[x] + 1][x] = Written(F[Depth[x]], x)
    BY <2>1, <1>3
  <2>3. ASSUME NEW y \in Value, Depth[y] < Depth[x] PROVE F[Depth[x]][y] = e[y]
    <3>1. Depth[y] \in Nat
      BY Kinds
    <3>2. Depth[x] - (Depth[y] + 1) \in U
      BY <2>1, <2>3, <3>1, <1>5
    <3>3. Depth[y] + 1 + (Depth[x] - (Depth[y] + 1)) = Depth[x]
      BY <2>1, <3>1
    <3>4. F[Depth[y] + 1 + (Depth[x] - (Depth[y] + 1))][y] = F[Depth[y] + 1][y]
      BY <3>2
    <3> QED BY <3>3, <3>4
  <2> HIDE DEF e
  <2>4. Written(F[Depth[x]], x) = Written(e, x)
    BY <2>3, WrittenLocal
  <2> QED BY <2>2, <2>4
<1>7. Whole(e)
  <2> HIDE DEF T, U
  <2>1. e = [x \in Value |-> e[x]]
    OBVIOUS
  <2>2. \A x \in Value : e[x] = F[Depth[x] + 1][x]
    OBVIOUS
  <2> HIDE DEF e
  <2> QED BY <1>6, <2>1, <2>2
<1> DEFINE Body(f) == [x \in Value |->
             CASE IsStr(x)  -> EncodeStr(x.str)
               [] IsInt(x)  -> EncodeInt(x.int)
               [] IsList(x) ->
                    <<"l">> \o FlattenSeq([i \in DOMAIN x.list |-> f[x.list[i]]]) \o <<"e">>
               [] OTHER ->
                    <<"d">> \o FlattenSeq([i \in DOMAIN x.dict |->
                                  EncodeStr(<<x.dict[i].key>>) \o f[x.dict[i].val]]) \o <<"e">>]
           Defined(f) == f = Body(f)
<1>8. Encode = CHOOSE f : Defined(f)
  BY DEF Encode
<1>9. ASSUME NEW f PROVE Body(f) = [x \in Value |-> Written(f, x)]
  BY Kinds DEF Written, Chunks
<1> HIDE DEF Body, e
<1>10. \A f : Defined(f) <=> Whole(f)
  BY <1>9
<1> HIDE DEF Defined, Whole
<1>11. Whole(Encode)
  BY <1>7, <1>8, <1>10
<1> QED BY <1>11 DEF Whole

(* Every value is written in characters, by induction on its depth. *)
LEMMA EncodeTyped ==
  \A x \in Value : Encode[x] \in Seq(Char)
<1> DEFINE T == {n \in Nat : \A x \in Value : Depth[x] < n => Encode[x] \in Seq(Char)}
<1>1. 0 \in T
  BY Kinds
<1>2. ASSUME NEW n \in T PROVE n + 1 \in T
  <2> SUFFICES ASSUME NEW x \in Value, Depth[x] < n + 1 PROVE Encode[x] \in Seq(Char)
    OBVIOUS
  <2>1. ASSUME NEW y \in Value, Depth[y] < Depth[x] PROVE Encode[y] \in Seq(Char)
    <3>1. Depth[y] \in Nat /\ Depth[x] \in Nat
      BY Kinds
    <3> QED BY <2>1, <3>1
  <2> HIDE DEF T
  <2>2. Written(Encode, x) \in Seq(Char)
    BY <2>1, WrittenTyped
  <2> QED BY <2>2, EncodeEquation
<1>3. T = Nat
  <2> HIDE DEF T
  <2> QED BY <1>1, <1>2, NatSets DEF T
<1>4. ASSUME NEW x \in Value PROVE Encode[x] \in Seq(Char)
  <2>1. Depth[x] + 1 \in T /\ Depth[x] < Depth[x] + 1
    <3> HIDE DEF T
    <3> QED BY <1>3, Kinds
  <2> QED BY <2>1
<1> QED BY <1>4


-----------------------------------------------------------------------------
(* What the buffer holds is read as what was written. *)

LEMMA HoldsConcat ==
  ASSUME text \in Seq(Char), NEW u \in Seq(Char), NEW v \in Seq(Char), NEW p, Holds(u \o v, p)
  PROVE  Holds(u, p) /\ Holds(v, p + Len(u))
<1>1. Len(u) \in Nat /\ Len(v) \in Nat /\ Len(u \o v) = Len(u) + Len(v) /\ Len(text) \in Nat
  OBVIOUS
<1>2. p \in Nat \ {0} /\ p + Len(u) + Len(v) <= Len(text) + 1
  BY <1>1 DEF Holds
<1>3. ASSUME NEW i \in 1 .. Len(u) PROVE text[p + i - 1] = u[i]
  <2>1. i \in 1 .. Len(u \o v) /\ (u \o v)[i] = u[i]
    BY <1>1
  <2> QED BY <2>1 DEF Holds
<1>4. ASSUME NEW i \in 1 .. Len(v) PROVE text[p + Len(u) + i - 1] = v[i]
  <2>1. Len(u) + i \in 1 .. Len(u \o v) /\ (u \o v)[Len(u) + i] = v[i]
    BY <1>1
  <2>2. p + (Len(u) + i) - 1 = p + Len(u) + i - 1
    BY <1>1, <1>2
  <2>3. text[p + (Len(u) + i) - 1] = (u \o v)[Len(u) + i]
    BY <2>1 DEF Holds
  <2> QED BY <2>1, <2>2, <2>3
<1>5. Holds(u, p)
  BY <1>1, <1>2, <1>3 DEF Holds
<1>6. Holds(v, p + Len(u))
  BY <1>1, <1>2, <1>4 DEF Holds
<1> QED BY <1>5, <1>6

LEMMA HoldsChar ==
  ASSUME text \in Seq(Char), NEW w \in Seq(Char), NEW p, Holds(w, p), NEW i \in 1 .. Len(w)
  PROVE  CharAt(p + i - 1) = w[i] /\ p + i - 1 \in 1 .. Len(text)
<1>1. Len(w) \in Nat /\ Len(text) \in Nat
  OBVIOUS
<1>2. p + i - 1 \in 1 .. Len(text) /\ text[p + i - 1] = w[i]
  BY <1>1 DEF Holds
<1>3. p + i - 1 # Len(text) + 1
  BY <1>1, <1>2
<1> QED BY <1>2, <1>3 DEF CharAt

(* Where a row of digits ends. *)
LEMMA DigitsEndIs ==
  ASSUME text \in Seq(Char), NEW p \in 1 .. Len(text), NEW q \in p .. Len(text),
         \A r \in p .. q - 1 : isdigit(CharAt(r)), ~isdigit(CharAt(q))
  PROVE  DigitsEnd(p) = q
<1>1. Len(text) \in Nat
  OBVIOUS
<1> DEFINE Ends(r) == ~isdigit(CharAt(r)) /\ \A t \in p .. r - 1 : isdigit(CharAt(t))
<1>2. q \in p .. Len(text) + 1 /\ Ends(q)
  BY <1>1
<1>3. ASSUME NEW r \in p .. Len(text) + 1, Ends(r) PROVE r = q
  <2>1. CASE r < q
    <3>1. r \in p .. q - 1
      BY <1>1, <2>1
    <3> QED BY <3>1, <1>3
  <2>2. CASE q < r
    <3>1. q \in p .. r - 1
      BY <1>1, <2>2
    <3> QED BY <3>1, <1>3
  <2> QED BY <2>1, <2>2, <1>1
<1>4. DigitsEnd(p) = CHOOSE r \in p .. Len(text) + 1 : Ends(r)
  BY DEF DigitsEnd
<1> HIDE DEF Ends
<1> QED BY <1>2, <1>3, <1>4

(* The reader gets the number that was written, and stops behind it. *)
LEMMA DecimalRead ==
  ASSUME text \in Seq(Char), NEW n \in Nat, NEW p, Holds(Decimal(n), p),
         p + Len(Decimal(n)) \in 1 .. Len(text), ~isdigit(CharAt(p + Len(Decimal(n))))
  PROVE  /\ DigitsEnd(p) = p + Len(Decimal(n))
         /\ Number(p) = n
         /\ isdigit(CharAt(p))
<1> DEFINE w == Decimal(n)
<1>1. /\ w \in Seq(Char) /\ Len(w) \in Nat \ {0} /\ Len(text) \in Nat /\ p \in Nat \ {0}
      /\ \A i \in 1 .. Len(w) : isdigit(w[i])
  <2>1. /\ w \in Seq(Char) /\ Len(w) \in Nat \ {0}
        /\ \A i \in 1 .. Len(w) : isdigit(w[i])
    BY DecimalFacts
  <2>2. Len(text) \in Nat /\ p \in Nat \ {0}
    BY DEF Holds
  <2> HIDE DEF w
  <2> QED BY <2>1, <2>2
<1>2. NumberOf[Len(w)][p] = n
  BY NumberRead
<1> HIDE DEF w
<1>3. ASSUME NEW r \in p .. p + Len(w) - 1 PROVE isdigit(CharAt(r))
  <2>1. r - p + 1 \in 1 .. Len(w) /\ p + (r - p + 1) - 1 = r
    BY <1>1
  <2>2. CharAt(p + (r - p + 1) - 1) = w[r - p + 1]
    BY <2>1, <1>1, HoldsChar DEF w
  <2> QED BY <2>1, <2>2, <1>1
<1>4. p \in 1 .. Len(text) /\ p + Len(w) \in p .. Len(text) /\ p \in p .. p + Len(w) - 1
  BY <1>1 DEF w
<1>5. DigitsEnd(p) = p + Len(w)
  BY <1>3, <1>4, DigitsEndIs DEF w
<1>6. DigitsEnd(p) - p = Len(w)
  BY <1>1, <1>5
<1> QED BY <1>2, <1>3, <1>4, <1>5, <1>6 DEF w, Number

(* A string: the position of what it says, and its length. *)
StrAt(s, p) == p + Len(EncodeStr(s)) - Len(s)

(* __read_string_len finds the string and its length. *)
LEMMA StrRead ==
  ASSUME text \in Seq(Char), NEW s \in Seq(Char), NEW p, Holds(EncodeStr(s), p)
  PROVE  /\ isdigit(CharAt(p)) /\ CharAt(DigitsEnd(p)) = ":"
         /\ read_string_len(p) = [str |-> StrAt(s, p), len |-> Len(s)]
         /\ Holds(s, StrAt(s, p))
         /\ StrAt(s, p) + Len(s) = p + Len(EncodeStr(s))
         /\ StrAt(s, p) \in Nat /\ StrAt(s, p) >= p + 2
<1> DEFINE d == Decimal(Len(s))
<1>1. /\ d \in Seq(Char) /\ Len(d) \in Nat \ {0} /\ Len(s) \in Nat /\ p \in Nat \ {0}
      /\ Len(EncodeStr(s)) = Len(d) + 1 + Len(s) /\ Len(text) \in Nat
  <2>1. d \in Seq(Char) /\ Len(d) \in Nat \ {0} /\ Len(EncodeStr(s)) = Len(d) + 1 + Len(s)
    BY StrTyped
  <2>2. Len(text) \in Nat /\ Len(s) \in Nat /\ p \in Nat \ {0}
    BY DEF Holds
  <2> HIDE DEF d
  <2> QED BY <2>1, <2>2
<1>2. EncodeStr(s) = (d \o <<":">>) \o s
  BY DEF EncodeStr
<1> HIDE DEF d
<1>3. <<":">> \in Seq(Char) /\ Len(<<":">>) = 1 /\ <<":">>[1] = ":"
  BY CharFacts
<1>4. d \o <<":">> \in Seq(Char) /\ Len(d \o <<":">>) = Len(d) + 1
  BY <1>1, <1>3
<1>5. Holds(d \o <<":">>, p) /\ Holds(s, p + Len(d \o <<":">>))
  BY <1>2, <1>4, HoldsConcat
<1>6. Holds(d, p) /\ Holds(<<":">>, p + Len(d))
  BY <1>1, <1>3, <1>5, HoldsConcat
<1>7. CharAt(p + Len(d)) = ":" /\ p + Len(d) \in 1 .. Len(text)
  <2>1. 1 \in 1 .. Len(<<":">>)
    BY <1>3
  <2>2. CharAt(p + Len(d) + 1 - 1) = ":" /\ p + Len(d) + 1 - 1 \in 1 .. Len(text)
    BY <1>3, <1>6, <2>1, HoldsChar
  <2>3. p + Len(d) + 1 - 1 = p + Len(d)
    BY <1>1
  <2> QED BY <2>2, <2>3
<1>8. ~isdigit(CharAt(p + Len(d)))
  BY <1>7, DigitFacts
<1>9. DigitsEnd(p) = p + Len(d) /\ Number(p) = Len(s) /\ isdigit(CharAt(p))
  BY <1>1, <1>6, <1>7, <1>8, DecimalRead DEF d
<1>10. StrAt(s, p) = p + Len(d) + 1
  BY <1>1 DEF StrAt
<1>11. read_string_len(p) = [str |-> StrAt(s, p), len |-> Len(s)]
  BY <1>7, <1>9, <1>10 DEF read_string_len
<1>12. Holds(s, StrAt(s, p))
  <2>1. p + Len(d \o <<":">>) = StrAt(s, p)
    BY <1>1, <1>4, <1>10
  <2> QED BY <1>5, <2>1
<1>13. /\ StrAt(s, p) + Len(s) = p + Len(EncodeStr(s))
       /\ StrAt(s, p) \in Nat /\ StrAt(s, p) >= p + 2
  BY <1>1, <1>10
<1>14. isdigit(CharAt(p)) /\ CharAt(DigitsEnd(p)) = ":"
  BY <1>7, <1>9
<1> QED BY <1>11, <1>12, <1>13, <1>14

(* An integer. *)
LEMMA IntRead ==
  ASSUME text \in Seq(Char), NEW n \in Int, NEW p, Holds(EncodeInt(n), p)
  PROVE  /\ CharAt(p) = "i"
         /\ read_string_int(p + 1) = [ok |-> TRUE, end |-> p + Len(EncodeInt(n)) - 1, val |-> n]
         /\ CharAt(p + Len(EncodeInt(n)) - 1) = "e"
<1> DEFINE d == Decimal(Magnitude(n))
           g == Sign(n)
<1>1. /\ EncodeInt(n) = <<"i">> \o (g \o d) \o <<"e">>
      /\ d \in Seq(Char) /\ g \in Seq(Char) /\ Len(d) \in Nat \ {0} /\ p \in Nat \ {0}
      /\ Len(g) \in Nat
      /\ Len(EncodeInt(n)) = 2 + Len(g) + Len(d) /\ Len(text) \in Nat /\ Magnitude(n) \in Nat
  <2>1. /\ EncodeInt(n) = <<"i">> \o (g \o d) \o <<"e">>
        /\ d \in Seq(Char) /\ g \in Seq(Char) /\ Len(d) \in Nat \ {0}
        /\ Len(EncodeInt(n)) = 2 + Len(g) + Len(d) /\ Magnitude(n) \in Nat
    BY IntTyped
  <2>2. Len(text) \in Nat /\ p \in Nat \ {0}
    BY DEF Holds
  <2> HIDE DEF d, g
  <2>3. Len(g) \in Nat
    BY <2>1
  <2> QED BY <2>1, <2>2, <2>3
<1> HIDE DEF d, g
<1>2. /\ <<"i">> \in Seq(Char) /\ Len(<<"i">>) = 1 /\ <<"i">>[1] = "i"
      /\ <<"e">> \in Seq(Char) /\ Len(<<"e">>) = 1 /\ <<"e">>[1] = "e"
  BY CharFacts
<1>3. g \o d \in Seq(Char) /\ Len(g \o d) = Len(g) + Len(d)
  BY <1>1
<1> DEFINE u == <<"i">> \o (g \o d)
<1>4. u \in Seq(Char) /\ Len(u) = 1 + Len(g) + Len(d)
  BY <1>1, <1>2, <1>3
<1>5. Holds(u, p) /\ Holds(<<"e">>, p + Len(u))
  <2>1. EncodeInt(n) = u \o <<"e">>
    BY <1>1
  <2> HIDE DEF u
  <2> QED BY <1>2, <1>4, <2>1, HoldsConcat
<1>6. Holds(<<"i">>, p) /\ Holds(g \o d, p + 1)
  BY <1>2, <1>3, <1>5, HoldsConcat
<1> HIDE DEF u
<1>7. Holds(g, p + 1) /\ Holds(d, p + 1 + Len(g))
  BY <1>1, <1>6, HoldsConcat
<1>8. CharAt(p) = "i"
  <2>1. CharAt(p + 1 - 1) = "i"
    <3>1. 1 \in 1 .. Len(<<"i">>)
      BY <1>2
    <3> QED BY <1>2, <1>6, <3>1, HoldsChar
  <2>2. p + 1 - 1 = p
    BY <1>1
  <2> QED BY <2>1, <2>2
<1> DEFINE end == p + 1 + Len(g) + Len(d)
<1>9. end = p + Len(EncodeInt(n)) - 1 /\ end = p + Len(u) /\ end \in Nat
  BY <1>1, <1>4
<1>10. CharAt(end) = "e" /\ end \in 1 .. Len(text)
  <2>1. CharAt(p + Len(u) + 1 - 1) = "e" /\ p + Len(u) + 1 - 1 \in 1 .. Len(text)
    <3>1. 1 \in 1 .. Len(<<"e">>)
      BY <1>2
    <3> QED BY <1>2, <1>5, <3>1, HoldsChar
  <2>2. p + Len(u) + 1 - 1 = end
    BY <1>9, <1>4, <1>1
  <2> QED BY <2>1, <2>2
<1>11. ~isdigit(CharAt(end))
  BY <1>10, DigitFacts
<1> HIDE DEF end
<1>12. /\ DigitsEnd(p + 1 + Len(g)) = end
       /\ Number(p + 1 + Len(g)) = Magnitude(n) /\ isdigit(CharAt(p + 1 + Len(g)))
  <2>1. p + 1 + Len(g) + Len(d) = end
    BY DEF end
  <2> QED BY <1>1, <1>7, <1>10, <1>11, <2>1, DecimalRead DEF d
<1>13. CASE n < 0
  <2>1. g = <<"-">> /\ Len(g) = 1 /\ g[1] = "-" /\ Magnitude(n) = -n
    BY <1>13 DEF g, Sign, Magnitude
  <2>2. CharAt(p + 1) = "-"
    <3>0. 1 \in 1 .. Len(g)
      BY <2>1
    <3>1. CharAt(p + 1 + 1 - 1) = g[1]
      BY <3>0, <1>1, <1>7, HoldsChar
    <3>2. p + 1 + 1 - 1 = p + 1
      BY <1>1
    <3> QED BY <3>1, <3>2, <2>1
  <2>3. p + 1 + Len(g) = p + 1 + 1
    BY <2>1
  <2>4. read_string_int(p + 1) = [ok |-> TRUE, end |-> end, val |-> -Magnitude(n)]
    BY <2>2, <2>3, <1>12 DEF read_string_int
  <2>5. -Magnitude(n) = n
    BY <2>1
  <2> QED BY <1>8, <1>9, <1>10, <2>4, <2>5
<1>14. CASE ~(n < 0)
  <2>1. g = << >> /\ Len(g) = 0 /\ Magnitude(n) = n
    BY <1>14 DEF g, Sign, Magnitude
  <2>2. p + 1 + Len(g) = p + 1
    BY <1>1, <2>1
  <2>3. isdigit(CharAt(p + 1)) /\ CharAt(p + 1) # "-"
    BY <1>12, <2>2, DigitFacts
  <2>4. read_string_int(p + 1) = [ok |-> TRUE, end |-> end, val |-> Magnitude(n)]
    BY <1>12, <2>2, <2>3 DEF read_string_int
  <2> QED BY <1>8, <1>9, <1>10, <2>1, <2>4
<1> QED BY <1>13, <1>14


-----------------------------------------------------------------------------
(* Where the items of a list and the entries of a dictionary are. *)

LEMMA ChunkHeld ==
  ASSUME text \in Seq(Char), NEW w \in Seq(Seq(Char)), NEW p, Holds(FlattenSeq(w), p)
  PROVE  /\ FlattenSeq(w) \in Seq(Char)
         /\ \A k \in 0 .. Len(w) :
              Len(Prefix(w, k)) \in Nat /\ Len(Prefix(w, k)) <= Len(FlattenSeq(w))
         /\ \A k \in 1 .. Len(w) :
              /\ Holds(w[k], p + Len(Prefix(w, k - 1)))
              /\ Len(Prefix(w, k)) = Len(Prefix(w, k - 1)) + Len(w[k])
<1>0. /\ \A k \in 0 .. Len(w) : Prefix(w, k) \in Seq(Char)
      /\ \A k \in 1 .. Len(w) : Prefix(w, k) = Prefix(w, k - 1) \o w[k]
      /\ Prefix(w, Len(w)) = FlattenSeq(w)
  BY PrefixFacts
<1>1. ASSUME NEW k \in 1 .. Len(w)
      PROVE  /\ Prefix(w, k) \in Seq(Char) /\ Prefix(w, k - 1) \in Seq(Char) /\ w[k] \in Seq(Char)
             /\ Len(Prefix(w, k)) = Len(Prefix(w, k - 1)) + Len(w[k])
             /\ Len(w[k]) \in Nat /\ Len(Prefix(w, k - 1)) \in Nat
  <2>1. k \in 0 .. Len(w) /\ k - 1 \in 0 .. Len(w)
    OBVIOUS
  <2>2. Prefix(w, k) \in Seq(Char) /\ Prefix(w, k - 1) \in Seq(Char) /\ w[k] \in Seq(Char)
    BY <1>0, <2>1
  <2>3. Prefix(w, k) = Prefix(w, k - 1) \o w[k]
    BY <1>0
  <2> QED BY <2>2, <2>3
<1> DEFINE n == Len(w)
           T == {i \in Nat : i <= n => /\ Holds(Prefix(w, n - i), p)
                                       /\ Len(Prefix(w, n - i)) <= Len(FlattenSeq(w))}
<1>2. n \in Nat /\ n \in 0 .. n
  OBVIOUS
<1>3. FlattenSeq(w) \in Seq(Char) /\ Len(FlattenSeq(w)) \in Nat
  BY <1>0, <1>2
<1> HIDE DEF n
<1>4. 0 \in T
  <2>1. n - 0 = n
    BY <1>2
  <2> QED BY <1>0, <1>3, <2>1 DEF n
<1>5. ASSUME NEW i \in T PROVE i + 1 \in T
  <2> SUFFICES ASSUME i + 1 <= n
               PROVE  /\ Holds(Prefix(w, n - (i + 1)), p)
                      /\ Len(Prefix(w, n - (i + 1))) <= Len(FlattenSeq(w))
    OBVIOUS
  <2> DEFINE k == n - i
  <2>1. k \in 1 .. Len(w) /\ k - 1 = n - (i + 1) /\ i <= n
    BY <1>2 DEF n
  <2>2. Holds(Prefix(w, k), p) /\ Len(Prefix(w, k)) <= Len(FlattenSeq(w))
    BY <2>1
  <2> HIDE DEF k
  <2>3. Holds(Prefix(w, k - 1) \o w[k], p)
    BY <1>0, <2>1, <2>2
  <2>4. Holds(Prefix(w, k - 1), p)
    BY <1>1, <2>1, <2>3, HoldsConcat
  <2>5. Len(Prefix(w, k - 1)) <= Len(FlattenSeq(w))
    <3>1. Len(Prefix(w, k)) = Len(Prefix(w, k - 1)) + Len(w[k])
      BY <1>1, <2>1
    <3>2. Len(w[k]) \in Nat /\ Len(Prefix(w, k - 1)) \in Nat
      BY <1>1, <2>1
    <3> DEFINE a == Len(Prefix(w, k - 1))
               b == Len(w[k])
               c == Len(FlattenSeq(w))
    <3>3. a \in Nat /\ b \in Nat /\ c \in Nat /\ a + b <= c
      BY <1>3, <2>2, <3>1, <3>2
    <3> HIDE DEF a, b, c
    <3>4. a <= c
      BY <3>3
    <3> QED BY <3>4 DEF a, c
  <2> QED BY <2>1, <2>4, <2>5
<1>6. T = Nat
  <2> HIDE DEF T
  <2> QED BY <1>4, <1>5, NatSets DEF T
<1>7. ASSUME NEW k \in 0 .. Len(w)
      PROVE  /\ Holds(Prefix(w, k), p) /\ Len(Prefix(w, k)) \in Nat
             /\ Len(Prefix(w, k)) <= Len(FlattenSeq(w))
  <2>1. n - k \in T /\ n - k <= n /\ n - (n - k) = k
    <3> HIDE DEF T
    <3> QED BY <1>2, <1>6 DEF n
  <2>2. Prefix(w, k) \in Seq(Char)
    BY <1>0
  <2>3. Len(Prefix(w, k)) \in Nat
    BY <2>2
  <2> QED BY <2>1, <2>3
<1>8. ASSUME NEW k \in 1 .. Len(w) PROVE Holds(w[k], p + Len(Prefix(w, k - 1)))
  <2>1. k \in 0 .. Len(w)
    OBVIOUS
  <2>2. Holds(Prefix(w, k - 1) \o w[k], p)
    BY <1>0, <1>7, <2>1
  <2> QED BY <1>1, <2>2, HoldsConcat
<1> QED BY <1>1, <1>3, <1>7, <1>8

Items(x)     == Chunks(Encode, x)
Offset(x, n) == Len(Prefix(Items(x), n))

(* Where the reader is after n of them, and all it knows. *)
Place(x, p, n)       == IF n = 0 THEN p ELSE p + 1 + Offset(x, n)
Reader(x, p, len, n) == [str |-> Place(x, p, n), start |-> p, len |-> len]

Compound(x) == x \in Value /\ (IsList(x) \/ IsDict(x))

(* A dictionary or a list is its items between two letters. *)
LEMMA CompoundWritten ==
  ASSUME NEW x, Compound(x)
  PROVE  /\ Items(x) \in Seq(Seq(Char)) /\ FlattenSeq(Items(x)) \in Seq(Char)
         /\ Len(Items(x)) \in Nat
         /\ Len(Items(x)) = IF IsDict(x) THEN Len(x.dict) ELSE Len(x.list)
         /\ Encode[x] = Bracketed(IF IsDict(x) THEN "d" ELSE "l", FlattenSeq(Items(x)))
         /\ Len(Encode[x]) = Len(FlattenSeq(Items(x))) + 2
<1>1. x \in Value /\ (IsList(x) \/ IsDict(x)) /\ (IsList(x) => ~IsDict(x))
  BY Kinds DEF Compound
<1>2. Items(x) \in Seq(Seq(Char)) /\ FlattenSeq(Items(x)) \in Seq(Char)
  BY <1>1, EncodeTyped, ChunksTyped DEF Items
<1>3. Encode[x] = Bracketed(IF IsDict(x) THEN "d" ELSE "l", FlattenSeq(Items(x)))
  BY <1>1, EncodeEquation, WrittenCases DEF Items
<1>4. Len(Encode[x]) = Len(FlattenSeq(Items(x))) + 2
  BY <1>2, <1>3, CharFacts, BracketedTyped
<1>5. Len(Items(x)) = IF IsDict(x) THEN Len(x.dict) ELSE Len(x.list)
  <2>1. CASE IsDict(x)
    <3>1. DOMAIN x.dict = 1 .. Len(x.dict) /\ Len(x.dict) \in Nat
      BY <1>1, <2>1, Kinds
    <3>2. Items(x) = [i \in 1 .. Len(x.dict) |->
                        EncodeStr(<<x.dict[i].key>>) \o Encode[x.dict[i].val]]
      BY <2>1, <3>1 DEF Items, Chunks
    <3>3. DOMAIN Items(x) = 1 .. Len(x.dict)
      BY <3>2
    <3> QED BY <1>2, <2>1, <3>1, <3>3
  <2>2. CASE IsList(x)
    <3>1. DOMAIN x.list = 1 .. Len(x.list) /\ Len(x.list) \in Nat
      BY <1>1, <2>2, Kinds
    <3>2. Items(x) = [i \in 1 .. Len(x.list) |-> Encode[x.list[i]]]
      BY <1>1, <2>2, <3>1 DEF Items, Chunks
    <3>3. DOMAIN Items(x) = 1 .. Len(x.list)
      BY <3>2
    <3> QED BY <1>1, <1>2, <2>2, <3>1, <3>3
  <2> QED BY <1>1, <2>1, <2>2
<1>6. Len(Items(x)) \in Nat
  BY <1>2
<1> QED BY <1>2, <1>3, <1>4, <1>5, <1>6

(* Where these letters and the items are in the buffer. *)
LEMMA BracketsHeld ==
  ASSUME text \in Seq(Char), NEW c \in Char, NEW w \in Seq(Char), NEW p,
         Holds(Bracketed(c, w), p)
  PROVE  /\ CharAt(p) = c /\ CharAt(p + 1 + Len(w)) = "e"
         /\ Holds(w, p + 1) /\ p + 1 + Len(w) \in 1 .. Len(text) /\ p \in 1 .. Len(text)
<1>1. /\ <<c>> \in Seq(Char) /\ Len(<<c>>) = 1 /\ <<c>>[1] = c
      /\ <<"e">> \in Seq(Char) /\ Len(<<"e">>) = 1 /\ <<"e">>[1] = "e"
  BY CharFacts
<1> DEFINE u == <<c>> \o w
<1>2. u \in Seq(Char) /\ Len(u) = 1 + Len(w) /\ Len(w) \in Nat /\ p \in Nat \ {0}
  BY <1>1 DEF Holds
<1>3. Holds(u \o <<"e">>, p)
  BY DEF Bracketed
<1> HIDE DEF u
<1>4. Holds(u, p) /\ Holds(<<"e">>, p + Len(u))
  BY <1>1, <1>2, <1>3, HoldsConcat
<1>5. Holds(<<c>>, p) /\ Holds(w, p + 1)
  BY <1>1, <1>4, HoldsConcat DEF u
<1>6. 1 \in 1 .. Len(<<c>>) /\ 1 \in 1 .. Len(<<"e">>)
  BY <1>1
<1>7. CharAt(p + 1 - 1) = c /\ p + 1 - 1 \in 1 .. Len(text)
  BY <1>1, <1>5, <1>6, HoldsChar
<1>8. CharAt(p + Len(u) + 1 - 1) = "e" /\ p + Len(u) + 1 - 1 \in 1 .. Len(text)
  BY <1>1, <1>4, <1>6, HoldsChar
<1>9. p + 1 - 1 = p /\ p + Len(u) + 1 - 1 = p + 1 + Len(w)
  BY <1>2
<1> QED BY <1>5, <1>7, <1>8, <1>9

(* Each value can be told from its first character. *)
LEMMA FirstChar ==
  ASSUME text \in Seq(Char), NEW x \in Value, NEW p, Holds(Encode[x], p)
  PROVE  /\ Len(Encode[x]) \in Nat /\ Len(Encode[x]) >= 2
         /\ p \in Nat \ {0} /\ p + Len(Encode[x]) <= Len(text) + 1 /\ Len(text) \in Nat
         /\ IsStr(x) => isdigit(CharAt(p)) /\ Encode[x] = EncodeStr(x.str)
         /\ IsInt(x) => CharAt(p) = "i" /\ Encode[x] = EncodeInt(x.int)
         /\ IsList(x) => CharAt(p) = "l"
         /\ IsDict(x) => CharAt(p) = "d"
<1>1. Len(Encode[x]) \in Nat /\ Len(text) \in Nat
  BY EncodeTyped
<1>2. p \in Nat \ {0} /\ p + Len(Encode[x]) <= Len(text) + 1
  BY DEF Holds
<1>3. CASE IsStr(x)
  <2>1. x.str \in Seq(Char) /\ Encode[x] = EncodeStr(x.str) /\ ~IsInt(x) /\ ~IsList(x) /\ ~IsDict(x)
    BY <1>3, Kinds, EncodeEquation, WrittenCases
  <2>2. isdigit(CharAt(p))
    BY <2>1, StrRead
  <2>3. Len(EncodeStr(x.str)) >= 2
    <3>1. Len(x.str) \in Nat
      BY <2>1
    <3>2. /\ Len(EncodeStr(x.str)) = Len(Decimal(Len(x.str))) + 1 + Len(x.str)
          /\ Len(Decimal(Len(x.str))) \in Nat \ {0}
      BY <2>1, StrTyped
    <3> DEFINE a == Len(x.str)
               b == Len(Decimal(Len(x.str)))
               c == Len(EncodeStr(x.str))
    <3>3. a \in Nat /\ b \in Nat \ {0} /\ c = b + 1 + a
      BY <3>1, <3>2
    <3> HIDE DEF a, b, c
    <3>4. c >= 2
      BY <3>3
    <3> QED BY <3>4 DEF c
  <2> QED BY <1>1, <1>2, <2>1, <2>2, <2>3
<1>4. CASE IsInt(x)
  <2>1. x.int \in Int /\ Encode[x] = EncodeInt(x.int) /\ ~IsStr(x) /\ ~IsList(x) /\ ~IsDict(x)
    BY <1>4, Kinds, EncodeEquation, WrittenCases
  <2>2. CharAt(p) = "i"
    BY <2>1, IntRead
  <2>3. Len(EncodeInt(x.int)) >= 2
    <3>1. Len(Sign(x.int)) \in Nat
      BY <2>1, IntTyped
    <3>2. /\ Len(EncodeInt(x.int)) = 2 + Len(Sign(x.int)) + Len(Decimal(Magnitude(x.int)))
          /\ Len(Decimal(Magnitude(x.int))) \in Nat \ {0}
      BY <2>1, IntTyped
    <3> QED BY <3>1, <3>2
  <2> QED BY <1>1, <1>2, <2>1, <2>2, <2>3
<1>5. CASE IsList(x) \/ IsDict(x)
  <2>1. Compound(x)
    BY <1>5 DEF Compound
  <2> DEFINE c == IF IsDict(x) THEN "d" ELSE "l"
             w == FlattenSeq(Items(x))
  <2>2. w \in Seq(Char) /\ Encode[x] = Bracketed(c, w) /\ Len(Encode[x]) = Len(w) + 2
    BY <2>1, CompoundWritten
  <2>3. c \in Char
    BY CharFacts
  <2> HIDE DEF w, c
  <2>4. CharAt(p) = c /\ Len(w) \in Nat
    BY <2>2, <2>3, BracketsHeld
  <2>5. (IsDict(x) => ~IsList(x)) /\ ~IsStr(x) /\ ~IsInt(x)
    BY <1>5, Kinds
  <2> QED BY <1>1, <1>2, <2>2, <2>4, <2>5 DEF c
<1> QED BY <1>3, <1>4, <1>5, Kinds


(* x stands at p in the buffer, and has items. *)
Stands(x, p) == text \in Seq(Char) /\ Compound(x) /\ Holds(Encode[x], p)

(* The items lie one behind the other, inside the brackets. *)
LEMMA PlaceFacts ==
  ASSUME NEW x, NEW p, Stands(x, p)
  PROVE  /\ Len(Items(x)) \in Nat /\ Len(Encode[x]) \in Nat
         /\ p \in Nat \ {0} /\ Len(text) \in Nat /\ p + Len(Encode[x]) <= Len(text) + 1
         /\ Offset(x, 0) = 0 /\ Offset(x, Len(Items(x))) + 2 = Len(Encode[x])
         /\ \A n \in 0 .. Len(Items(x)) :
              Offset(x, n) \in Nat /\ Offset(x, n) + 2 <= Len(Encode[x])
         /\ \A n \in 1 .. Len(Items(x)) :
              /\ Holds(Items(x)[n], p + 1 + Offset(x, n - 1))
              /\ Offset(x, n) = Offset(x, n - 1) + Len(Items(x)[n])
         /\ CharAt(p) = IF IsDict(x) THEN "d" ELSE "l"
         /\ CharAt(p + Len(Encode[x]) - 1) = "e"
<1> DEFINE c == IF IsDict(x) THEN "d" ELSE "l"
           w == FlattenSeq(Items(x))
           N == Len(Items(x))
<1>0. text \in Seq(Char) /\ Compound(x) /\ Holds(Encode[x], p) /\ x \in Value
  BY DEF Stands, Compound
<1>1. /\ Items(x) \in Seq(Seq(Char)) /\ w \in Seq(Char) /\ Encode[x] = Bracketed(c, w)
      /\ Len(Encode[x]) = Len(w) + 2 /\ N \in Nat /\ c \in Char
  <2>1. c \in Char
    BY CharFacts
  <2> HIDE DEF c
  <2>2. c = IF IsDict(x) THEN "d" ELSE "l"
    BY DEF c
  <2> QED BY <1>0, <2>1, <2>2, CompoundWritten
<1> HIDE DEF c, w
<1>2. /\ CharAt(p) = c /\ CharAt(p + 1 + Len(w)) = "e" /\ Holds(w, p + 1)
      /\ p + 1 + Len(w) \in 1 .. Len(text)
  BY <1>0, <1>1, BracketsHeld
<1>3. p \in Nat \ {0} /\ Len(text) \in Nat /\ Len(w) \in Nat
  BY <1>0, <1>1 DEF Holds
<1>4. /\ Len(Encode[x]) \in Nat /\ p + Len(Encode[x]) <= Len(text) + 1
      /\ p + Len(Encode[x]) - 1 = p + 1 + Len(w)
  BY <1>1, <1>2, <1>3
<1>5. Offset(x, 0) = 0 /\ Offset(x, N) = Len(w)
  <2>1. Prefix(Items(x), 0) = << >> /\ Prefix(Items(x), N) = w
    BY <1>1, PrefixFacts DEF w
  <2> QED BY <2>1 DEF Offset
<1>6. /\ \A n \in 0 .. N : Offset(x, n) \in Nat /\ Offset(x, n) <= Len(w)
      /\ \A n \in 1 .. N : /\ Holds(Items(x)[n], p + 1 + Offset(x, n - 1))
                           /\ Offset(x, n) = Offset(x, n - 1) + Len(Items(x)[n])
  BY <1>0, <1>1, <1>2, ChunkHeld DEF Offset, w
<1>7. ASSUME NEW n \in 0 .. N PROVE Offset(x, n) \in Nat /\ Offset(x, n) + 2 <= Len(Encode[x])
  <2>1. Offset(x, n) \in Nat /\ Offset(x, n) <= Len(w)
    BY <1>6
  <2> QED BY <1>1, <1>3, <2>1
<1>8. Offset(x, N) + 2 = Len(Encode[x])
  BY <1>1, <1>3, <1>5
<1> QED BY <1>1, <1>2, <1>3, <1>4, <1>5, <1>6, <1>7, <1>8 DEF c

LEMMA PlaceTyped ==
  ASSUME NEW x, NEW p, Stands(x, p), NEW n \in 0 .. Len(Items(x))
  PROVE  /\ Place(x, p, n) \in Nat /\ p <= Place(x, p, n)
         /\ Place(x, p, n) + 1 <= p + Len(Encode[x])
         /\ p + 1 + Offset(x, n) \in Nat /\ Offset(x, n) \in Nat
         /\ p + 1 + Offset(x, n) + 1 <= p + Len(Encode[x])
         /\ n # 0 => Place(x, p, n) # p
         /\ n = Len(Items(x)) /\ n # 0 => Place(x, p, n) = p + Len(Encode[x]) - 1
         /\ \A len \in Int : Reader(x, p, len, n) \in Object
<1>1. /\ p \in Nat \ {0} /\ Offset(x, n) \in Nat /\ Offset(x, n) + 2 <= Len(Encode[x])
      /\ Len(Encode[x]) \in Nat
      /\ n = Len(Items(x)) => Offset(x, n) + 2 = Len(Encode[x])
  BY PlaceFacts
<1>2. Place(x, p, n) \in Nat
  BY <1>1 DEF Place
<1>3. \A len \in Int : Reader(x, p, len, n) \in Object
  BY <1>1, <1>2 DEF Reader, Object
<1>4. p <= Place(x, p, n) /\ Place(x, p, n) + 1 <= p + Len(Encode[x])
  BY <1>1 DEF Place
<1>5. /\ n # 0 => Place(x, p, n) # p
      /\ n = Len(Items(x)) /\ n # 0 => Place(x, p, n) = p + Len(Encode[x]) - 1
  BY <1>1 DEF Place
<1> QED BY <1>1, <1>2, <1>3, <1>4, <1>5

(* The item after n others. *)
ItemPos(x, p, n) == p + 1 + Offset(x, n)

(* Where the next item of a list is, *)
LEMMA ListItem ==
  ASSUME NEW x, NEW p, Stands(x, p), IsList(x), NEW n \in 0 .. Len(Items(x)) - 1
  PROVE  /\ x.list[n + 1] \in Value /\ n + 1 \in 1 .. Len(x.list)
         /\ Holds(Encode[x.list[n + 1]], ItemPos(x, p, n))
         /\ Offset(x, n + 1) = Offset(x, n) + Len(Encode[x.list[n + 1]])
<1>1. x \in Value /\ ~IsDict(x) /\ Len(Items(x)) = Len(x.list) /\ Len(Items(x)) \in Nat
      /\ DOMAIN x.list = 1 .. Len(x.list)
  <2>1. x \in Value /\ Compound(x)
    BY DEF Stands, Compound
  <2>2. ~IsDict(x) /\ x.list \in Seq(Value)
    BY <2>1, Kinds
  <2> QED BY <2>1, <2>2, CompoundWritten
<1>2. n + 1 \in 1 .. Len(x.list) /\ (n + 1) - 1 = n
  BY <1>1
<1>3. x.list[n + 1] \in Value
  BY <1>1, <1>2, Kinds
<1>4. Items(x)[n + 1] = Encode[x.list[n + 1]]
  BY <1>1, <1>2 DEF Items, Chunks
<1>5. /\ Holds(Items(x)[n + 1], p + 1 + Offset(x, n))
      /\ Offset(x, n + 1) = Offset(x, n) + Len(Items(x)[n + 1])
  BY <1>1, <1>2, PlaceFacts
<1> QED BY <1>2, <1>3, <1>4, <1>5 DEF ItemPos

KeyText(x, n) == EncodeStr(<<x.dict[n + 1].key>>)
ValPos(x, p, n) == ItemPos(x, p, n) + Len(KeyText(x, n))

(* and the next key and value of a dictionary. *)
LEMMA DictItem ==
  ASSUME NEW x, NEW p, Stands(x, p), IsDict(x), NEW n \in 0 .. Len(Items(x)) - 1
  PROVE  /\ x.dict[n + 1].val \in Value /\ x.dict[n + 1].key \in Char
         /\ n + 1 \in 1 .. Len(x.dict)
         /\ Holds(KeyText(x, n), ItemPos(x, p, n))
         /\ Len(KeyText(x, n)) \in Nat /\ Len(KeyText(x, n)) >= 2
         /\ Holds(Encode[x.dict[n + 1].val], ValPos(x, p, n))
         /\ Len(Encode[x.dict[n + 1].val]) \in Nat
         /\ Offset(x, n + 1) = Offset(x, n) + Len(KeyText(x, n)) + Len(Encode[x.dict[n + 1].val])
<1>1. /\ x \in Value /\ Len(Items(x)) = Len(x.dict) /\ Len(Items(x)) \in Nat
      /\ DOMAIN x.dict = 1 .. Len(x.dict) /\ text \in Seq(Char)
  <2>1. x \in Value /\ Compound(x) /\ text \in Seq(Char)
    BY DEF Stands, Compound
  <2>2. DOMAIN x.dict = 1 .. Len(x.dict)
    BY <2>1, Kinds
  <2> QED BY <2>1, <2>2, CompoundWritten
<1>2. n + 1 \in 1 .. Len(x.dict) /\ (n + 1) - 1 = n
  BY <1>1
<1>3. x.dict[n + 1].key \in Char /\ x.dict[n + 1].val \in Value
  BY <1>1, <1>2, Kinds
<1> DEFINE k == KeyText(x, n)
           v == Encode[x.dict[n + 1].val]
<1>4. Items(x)[n + 1] = k \o v
  BY <1>1, <1>2 DEF Items, Chunks, KeyText
<1>5. /\ Holds(Items(x)[n + 1], p + 1 + Offset(x, n))
      /\ Offset(x, n + 1) = Offset(x, n) + Len(Items(x)[n + 1])
  BY <1>1, <1>2, PlaceFacts
<1>6. k \in Seq(Char) /\ Len(k) \in Nat /\ Len(k) >= 2
  <2>1. <<x.dict[n + 1].key>> \in Seq(Char) /\ Len(<<x.dict[n + 1].key>>) = 1
    BY <1>3
  <2>2. /\ k \in Seq(Char) /\ Len(k) = Len(Decimal(1)) + 1 + 1
        /\ Len(Decimal(1)) \in Nat \ {0}
    BY <2>1, StrTyped DEF KeyText
  <2> QED BY <2>2
<1>7. v \in Seq(Char) /\ Len(v) \in Nat
  BY <1>3, EncodeTyped
<1> HIDE DEF k, v
<1>8. Len(k \o v) = Len(k) + Len(v)
  BY <1>6, <1>7
<1>9. Holds(k, p + 1 + Offset(x, n)) /\ Holds(v, p + 1 + Offset(x, n) + Len(k))
  BY <1>1, <1>4, <1>5, <1>6, <1>7, HoldsConcat
<1>10. Offset(x, n) \in Nat
  <2>1. n \in 0 .. Len(Items(x))
    BY <1>1
  <2> QED BY <2>1, PlaceFacts
<1>11. Offset(x, n + 1) = Offset(x, n) + Len(k) + Len(v)
  BY <1>4, <1>5, <1>6, <1>7, <1>8, <1>10
<1> QED BY <1>2, <1>3, <1>6, <1>7, <1>9, <1>11 DEF k, v, ItemPos, ValPos


(* No value begins with an "e". *)
LEMMA NotEnd ==
  ASSUME text \in Seq(Char), NEW x \in Value, NEW p, Holds(Encode[x], p)
  PROVE  CharAt(p) # "e"
BY FirstChar, Kinds, DigitFacts

LEMMA KeyDigit ==
  ASSUME NEW x, NEW p, Stands(x, p), IsDict(x), NEW n \in 0 .. Len(Items(x)) - 1
  PROVE  /\ isdigit(CharAt(ItemPos(x, p, n)))
         /\ CharAt(ItemPos(x, p, n)) \notin {"d", "e", "l", Zero, "\r"}
<1>1. Holds(KeyText(x, n), ItemPos(x, p, n)) /\ x.dict[n + 1].key \in Char /\ text \in Seq(Char)
  BY DictItem DEF Stands
<1>2. <<x.dict[n + 1].key>> \in Seq(Char)
  BY <1>1
<1>3. isdigit(CharAt(ItemPos(x, p, n)))
  BY <1>1, <1>2, StrRead DEF KeyText
<1> QED BY <1>3, DigitFacts

(* bencode_dict_has_next is right between any two entries, *)
LEMMA DictHasNext ==
  ASSUME NEW x, NEW p, Stands(x, p), IsDict(x), NEW n \in 0 .. Len(Items(x)),
         NEW len \in Int, len >= Len(Encode[x])
  PROVE  dict_has_next(Reader(x, p, len, n)) <=> n < Len(Items(x))
<1> DEFINE q == Place(x, p, n)
           N == Len(Items(x))
           E == Len(Encode[x])
<1>1. /\ p \in Nat \ {0} /\ N \in Nat /\ E \in Nat /\ q \in Nat /\ p <= q /\ q + 1 <= p + E
      /\ CharAt(p) = "d" /\ CharAt(p + E - 1) = "e"
      /\ n # 0 => q # p /\ q = ItemPos(x, p, n)
      /\ n = N /\ n # 0 => q = p + E - 1
      /\ n = 0 => q = p
  <2>1. Place(x, p, n) = IF n = 0 THEN p ELSE ItemPos(x, p, n)
    BY DEF Place, ItemPos
  <2>2. /\ p \in Nat \ {0} /\ N \in Nat /\ E \in Nat
        /\ CharAt(p) = "d" /\ CharAt(p + E - 1) = "e"
    BY PlaceFacts
  <2>3. /\ q \in Nat /\ p <= q /\ q + 1 <= p + E
        /\ n # 0 => q # p
        /\ n = N /\ n # 0 => q = p + E - 1
    BY PlaceTyped
  <2> HIDE DEF N, E, q
  <2> QED BY <2>1, <2>2, <2>3 DEF q
<1>2. Offset(x, 0) = 0 /\ Offset(x, N) + 2 = E
  BY PlaceFacts
<1>3. dict_has_next(Reader(x, p, len, n)) <=>
        /\ q # 0 /\ CharAt(q) \notin {"e", Zero, "\r"}
        /\ ~(CharAt(q) = "d" /\ CharAt(q + 1) = "e")
        /\ q < p + len - 1
  BY DEF dict_has_next, Reader, NULL
<1>4. CASE n < N
  <2>1. n \in 0 .. N - 1 /\ n + 1 \in 0 .. N
    BY <1>1, <1>4
  <2>2. CharAt(ItemPos(x, p, n)) \notin {"d", "e", "l", Zero, "\r"}
    BY <2>1, KeyDigit
  <2>3. q < p + len - 1
    <3>1. /\ Offset(x, n + 1) = Offset(x, n) + Len(KeyText(x, n)) + Len(Encode[x.dict[n + 1].val])
          /\ Len(KeyText(x, n)) \in Nat /\ Len(KeyText(x, n)) >= 2
          /\ Len(Encode[x.dict[n + 1].val]) \in Nat
      BY <2>1, DictItem
    <3>2. Offset(x, n) \in Nat /\ Offset(x, n + 1) \in Nat /\ Offset(x, n + 1) + 2 <= E
      BY <2>1, PlaceFacts
    <3> DEFINE a == Offset(x, n)
               b == Offset(x, n + 1)
               c == Len(KeyText(x, n))
               d == Len(Encode[x.dict[n + 1].val])
    <3>3. a \in Nat /\ b \in Nat /\ c \in Nat /\ d \in Nat /\ b = a + c + d /\ c >= 2 /\ b + 2 <= E
      BY <3>1, <3>2
    <3>4. q = p \/ q = p + 1 + a
      BY DEF Place
    <3>5. len >= E
      OBVIOUS
    <3> HIDE DEF a, b, c, d, q, E, N
    <3> QED BY <1>1, <3>3, <3>4, <3>5
  <2>4. CASE n = 0
    <3>1. q = p /\ ItemPos(x, p, n) = q + 1
      BY <1>1, <1>2, <2>4 DEF ItemPos
    <3>2. CharAt(q) = "d" /\ CharAt(q + 1) # "e" /\ q # 0
      BY <1>1, <2>2, <3>1
    <3>3. CharAt(q) \notin {"e", Zero, "\r"}
      BY <3>2 DEF Zero
    <3> HIDE DEF q
    <3> QED BY <1>3, <1>4, <2>3, <3>2, <3>3
  <2>5. CASE n # 0
    <3>1. q = ItemPos(x, p, n) /\ q # 0
      BY <1>1, <2>5
    <3> HIDE DEF q
    <3> QED BY <1>3, <1>4, <2>2, <2>3, <3>1
  <2> QED BY <2>4, <2>5
<1>5. CASE n = N
  <2>1. CASE n = 0
    <3>1. q = p /\ p + E - 1 = q + 1
      <4>1. E = 2
        <5> HIDE DEF N, E
        <5>1. N = 0
          BY <1>5, <2>1
        <5>2. Offset(x, N) = 0
          BY <1>2, <5>1
        <5> QED BY <1>2, <5>2
      <4> HIDE DEF E, q
      <4> QED BY <1>1, <2>1, <4>1
    <3>2. CharAt(q) = "d" /\ CharAt(q + 1) = "e"
      BY <1>1, <3>1
    <3> HIDE DEF q
    <3> QED BY <1>1, <1>3, <1>5, <3>2
  <2>2. CASE n # 0
    <3>1. CharAt(q) = "e"
      BY <1>1, <1>5, <2>2
    <3> HIDE DEF q
    <3> QED BY <1>1, <1>3, <1>5, <3>1
  <2> QED BY <2>1, <2>2
<1> QED BY <1>1, <1>4, <1>5

(* and so is bencode_list_has_next between two items. *)
LEMMA ListHasNext ==
  ASSUME NEW x, NEW p, Stands(x, p), IsList(x), NEW n \in 0 .. Len(Items(x)), NEW len \in Int
  PROVE  LET h == list_has_next(Reader(x, p, len, n)) IN
         /\ h.more <=> n < Len(Items(x))
         /\ h.more => h.be = Reader(x, p, len, n)
         /\ ~h.more => h.be.str = p + Len(Encode[x]) - 1
<1> DEFINE q == Place(x, p, n)
           N == Len(Items(x))
           E == Len(Encode[x])
           be == Reader(x, p, len, n)
           h == list_has_next(be)
           empty == CharAt(q) = "l" /\ q = p /\ CharAt(q + 1) = "e"
<1>1. /\ p \in Nat \ {0} /\ N \in Nat /\ E \in Nat /\ q \in Nat
      /\ CharAt(p) = "l" /\ CharAt(p + E - 1) = "e"
      /\ n # 0 => q # p /\ q = ItemPos(x, p, n)
      /\ n = N /\ n # 0 => q = p + E - 1
      /\ n = 0 => q = p
  <2>1. Place(x, p, n) = IF n = 0 THEN p ELSE ItemPos(x, p, n)
    BY DEF Place, ItemPos
  <2>2. ~IsDict(x)
    BY Kinds DEF Stands, Compound
  <2>3. /\ p \in Nat \ {0} /\ N \in Nat /\ E \in Nat
        /\ CharAt(p) = "l" /\ CharAt(p + E - 1) = "e"
    BY <2>2, PlaceFacts
  <2>4. /\ q \in Nat
        /\ n # 0 => q # p
        /\ n = N /\ n # 0 => q = p + E - 1
    BY PlaceTyped
  <2> HIDE DEF N, E, q
  <2> QED BY <2>1, <2>3, <2>4 DEF q
<1>2. Offset(x, 0) = 0 /\ Offset(x, N) + 2 = E
  BY PlaceFacts
<1>3. be.str = q /\ be.start = p
  BY DEF Reader
<1>4. /\ h.more <=> ~empty /\ CharAt(q) # "e"
      /\ h.be = IF empty THEN [be EXCEPT !.str = q + 1] ELSE be
  <2> HIDE DEF be
  <2> QED BY <1>3 DEF list_has_next
<1>5. [be EXCEPT !.str = q + 1].str = q + 1
  BY DEF Reader
<1>6. CASE n < N
  <2>1. n \in 0 .. N - 1
    BY <1>1, <1>6
  <2>2. Holds(Encode[x.list[n + 1]], ItemPos(x, p, n)) /\ x.list[n + 1] \in Value
    BY <2>1, ListItem
  <2>3. CharAt(ItemPos(x, p, n)) # "e"
    BY <2>2, NotEnd DEF Stands
  <2>4. CASE n = 0
    <3>1. q = p /\ ItemPos(x, p, n) = q + 1
      BY <1>1, <1>2, <2>4 DEF ItemPos
    <3>2. ~empty /\ CharAt(q) # "e"
      BY <1>1, <2>3, <3>1
    <3> HIDE DEF empty, h, be
    <3> QED BY <1>4, <1>6, <3>2 DEF h, be
  <2>5. CASE n # 0
    <3>1. q = ItemPos(x, p, n) /\ ~empty
      BY <1>1, <2>5
    <3> HIDE DEF empty, h, be, q
    <3> QED BY <1>4, <1>6, <2>3, <3>1 DEF h, be
  <2> QED BY <2>4, <2>5
<1>7. CASE n = N
  <2>1. CASE n = 0
    <3>1. q = p /\ p + E - 1 = q + 1
      <4>1. E = 2
        <5> HIDE DEF N, E
        <5>1. N = 0
          BY <1>7, <2>1
        <5>2. Offset(x, N) = 0
          BY <1>2, <5>1
        <5> QED BY <1>2, <5>2
      <4> HIDE DEF E, q
      <4> QED BY <1>1, <2>1, <4>1
    <3>2. empty
      BY <1>1, <3>1
    <3>3. h.be.str = p + E - 1 /\ ~h.more
      <4> HIDE DEF empty, h, be, q, E
      <4> QED BY <1>4, <1>5, <3>1, <3>2
    <3>4. ~(n < N)
      BY <1>7, <1>1
    <3> HIDE DEF h, be
    <3> QED BY <3>3, <3>4 DEF h, be
  <2>2. CASE n # 0
    <3>1. CharAt(q) = "e" /\ ~empty /\ q = p + E - 1
      BY <1>1, <1>7, <2>2
    <3>2. h.be.str = p + E - 1 /\ ~h.more
      <4> HIDE DEF empty, h, be, q, E
      <4> QED BY <1>3, <1>4, <3>1
    <3>4. ~(n < N)
      BY <1>7, <1>1
    <3> HIDE DEF h, be
    <3> QED BY <3>2, <3>4 DEF h, be
  <2> QED BY <2>1, <2>2
<1> QED BY <1>1, <1>6, <1>7


-----------------------------------------------------------------------------
(* Items are skipped, and entries and items are read one after the other. *)

(* loops is good for the items that take no more than m characters. *)
Skips(loops, m) ==
  \A y \in Value, q \in Nat, l \in Int :
    Holds(Encode[y], q) /\ l >= Len(Encode[y]) /\ Len(Encode[y]) <= m =>
      AfterItem(loops, bencode_init(q, l)) = q + Len(Encode[y])

ValLen(x, p, len, n) == len - (ValPos(x, p, n) - Place(x, p, n))

(* bencode_dict_get_next takes one entry, if the loops skip the values that fit in m. *)
LEMMA DictNext ==
  ASSUME NEW x, NEW p, Stands(x, p), IsDict(x), NEW n \in 0 .. Len(Items(x)) - 1,
         NEW len \in Int, len >= Len(Encode[x]),
         NEW loops, NEW m \in Nat, Skips(loops, m), m >= p + Len(Encode[x]) - Place(x, p, n) - 1
  PROVE  LET r == dict_get_next(loops, Reader(x, p, len, n)) IN
         /\ r.ret = 1
         /\ r.be = Reader(x, p, len, n + 1)
         /\ r.key.str \in 1 .. Len(text) /\ text[r.key.str] = x.dict[n + 1].key
         /\ r.item = bencode_init(ValPos(x, p, n), ValLen(x, p, len, n))
         /\ Holds(Encode[x.dict[n + 1].val], ValPos(x, p, n)) /\ ValPos(x, p, n) \in Nat
         /\ ValLen(x, p, len, n) \in Int
         /\ ValLen(x, p, len, n) >= Len(Encode[x.dict[n + 1].val])
         /\ Len(Encode[x.dict[n + 1].val]) <= m
<1> DEFINE q  == Place(x, p, n)
           N  == Len(Items(x))
           E  == Len(Encode[x])
           k  == <<x.dict[n + 1].key>>
           v  == x.dict[n + 1].val
           V  == Len(Encode[v])
           K  == Len(KeyText(x, n))
           a  == Offset(x, n)
           b  == Offset(x, n + 1)
           kp == ItemPos(x, p, n)
           vp == ValPos(x, p, n)
           vl == ValLen(x, p, len, n)
           be == Reader(x, p, len, n)
<1>0. text \in Seq(Char) /\ N \in Nat /\ n \in 0 .. N /\ n + 1 \in 0 .. N /\ n + 1 # 0
  <2>1. N \in Nat
    BY PlaceFacts
  <2> HIDE DEF N
  <2>2. n \in 0 .. N - 1
    BY DEF N
  <2> QED BY <2>1, <2>2 DEF Stands
<1>1. /\ p \in Nat \ {0} /\ E \in Nat /\ q \in Nat /\ q + 1 <= p + E /\ CharAt(p) = "d"
      /\ a \in Nat /\ b \in Nat /\ b + 2 <= E /\ p + E <= Len(text) + 1 /\ Len(text) \in Nat
  BY <1>0, PlaceFacts, PlaceTyped
<1>2. /\ v \in Value /\ k \in Seq(Char) /\ k[1] = x.dict[n + 1].key /\ Len(k) = 1
      /\ Holds(KeyText(x, n), kp) /\ K \in Nat /\ K >= 2 /\ KeyText(x, n) = EncodeStr(k)
      /\ Holds(Encode[v], vp) /\ V \in Nat /\ b = a + K + V
  <2>1. x.dict[n + 1].key \in Char
    BY DictItem
  <2> QED BY <2>1, DictItem DEF KeyText
<1>3. kp = p + 1 + a /\ vp = kp + K /\ vl = len - (vp - q)
  BY DEF ItemPos, ValPos, ValLen
<1>4. q = IF n = 0 THEN p ELSE kp
  BY DEF Place, ItemPos
<1>5. Place(x, p, n + 1) = p + 1 + b
  BY <1>0 DEF Place
<1>6. Offset(x, 0) = 0
  BY PlaceFacts
<1>7. isdigit(CharAt(kp)) /\ CharAt(kp) \notin {"d", "e", "l", Zero, "\r"}
  BY KeyDigit
<1>8. /\ read_string_len(kp) = [str |-> StrAt(k, kp), len |-> 1]
      /\ StrAt(k, kp) + 1 = kp + K /\ Holds(k, StrAt(k, kp)) /\ StrAt(k, kp) \in Nat
  BY <1>0, <1>2, StrRead
<1>9. StrAt(k, kp) \in 1 .. Len(text) /\ text[StrAt(k, kp)] = x.dict[n + 1].key
  <2> DEFINE s == StrAt(k, kp)
  <2>1. Holds(k, s) /\ s \in Nat
    BY <1>8
  <2> HIDE DEF s, k
  <2>2. 1 \in 1 .. Len(k) /\ s + 1 - 1 = s
    BY <1>2, <2>1
  <2>3. s \in Nat \ {0} /\ s + 1 <= Len(text) + 1 /\ text[s + 1 - 1] = k[1]
    BY <1>2, <2>1, <2>2 DEF Holds
  <2>4. s \in 1 .. Len(text)
    <3>1. Len(text) \in Nat
      BY <1>1
    <3> QED BY <2>3, <3>1
  <2>5. text[s] = x.dict[n + 1].key
    BY <1>2, <2>2, <2>3
  <2> QED BY <2>4, <2>5 DEF s
<1>10. carry_length(be, vp) = vl /\ vl \in Int /\ vl >= V /\ vp \in Nat /\ V <= m
  <2>1. be.len = len /\ be.str = q
    BY DEF Reader
  <2>2. len >= E /\ m >= p + E - q - 1
    OBVIOUS
  <2> HIDE DEF q, E, V, K, a, b, kp, vp, vl, be
  <2>3. n = 0 => a = 0
    BY <1>6 DEF a
  <2>4. 0 < len
    BY <1>1, <2>2
  <2>5. carry_length(be, vp) = len - (vp - q)
    BY <2>1, <2>4 DEF carry_length
  <2>6. vl \in Int /\ vp \in Nat
    BY <1>1, <1>2, <1>3
  <2>7. V <= m
    BY <1>1, <1>2, <1>3, <1>4, <2>2, <2>3
  <2>8. vl >= V
    BY <1>1, <1>2, <1>3, <1>4, <2>2, <2>3
  <2> QED BY <1>3, <2>5, <2>6, <2>7, <2>8
<1>11. AfterItem(loops, bencode_init(vp, vl)) = Place(x, p, n + 1)
  <2>1. AfterItem(loops, bencode_init(vp, vl)) = vp + V
    <3> HIDE DEF vp, vl, v
    <3> QED BY <1>2, <1>10 DEF Skips
  <2> HIDE DEF V, K, a, b, kp, vp
  <2>2. vp + V = p + 1 + b
    BY <1>1, <1>2, <1>3
  <2> QED BY <1>5, <2>1, <2>2
<1>12. /\ CharAt(q) # "e"
       /\ (IF CharAt(q) = "d" THEN q + 1 ELSE q) = kp
  <2>1. CASE n = 0
    <3>1. q = p /\ kp = q + 1
      <4>1. a = 0 /\ q = p
        BY <1>4, <1>6, <2>1
      <4> HIDE DEF a, q, kp
      <4> QED BY <1>1, <1>3, <4>1
    <3> QED BY <1>1, <3>1
  <2>2. CASE n # 0
    BY <1>4, <1>7, <2>2
  <2> QED BY <2>1, <2>2
<1>13. dict_get_next(loops, be)
         = [ret  |-> IF Place(x, p, n + 1) = NULL THEN 0 ELSE 1,
            be   |-> [be EXCEPT !.str = Place(x, p, n + 1)],
            key  |-> [str |-> StrAt(k, kp), len |-> 1],
            item |-> bencode_init(vp, vl)]
  <2>1. be.str = q
    BY DEF Reader
  <2>2. [str |-> StrAt(k, kp), len |-> 1].str + [str |-> StrAt(k, kp), len |-> 1].len = vp
    BY <1>3, <1>8
  <2> HIDE DEF q, k, kp, vp, vl, be
  <2>3. CharAt(kp) # "e"
    BY <1>7
  <2>4. iterate_to_next_string_pos(loops, be, vp) = Place(x, p, n + 1)
    BY <1>10, <1>11 DEF iterate_to_next_string_pos
  <2> QED BY <1>8, <1>10, <1>12, <2>1, <2>2, <2>3, <2>4 DEF dict_get_next
<1>14. [be EXCEPT !.str = Place(x, p, n + 1)] = Reader(x, p, len, n + 1)
  BY DEF Reader
<1>15. Place(x, p, n + 1) # NULL
  <2> HIDE DEF b
  <2> QED BY <1>1, <1>5 DEF NULL
<1> HIDE DEF q, k, kp, be
<1>16. LET r == dict_get_next(loops, be) IN
       /\ r.ret = 1
       /\ r.be = Reader(x, p, len, n + 1)
       /\ r.key.str \in 1 .. Len(text) /\ text[r.key.str] = x.dict[n + 1].key
       /\ r.item = bencode_init(ValPos(x, p, n), ValLen(x, p, len, n))
  BY <1>9, <1>13, <1>14, <1>15
<1> QED BY <1>2, <1>10, <1>16 DEF be

ListLen(x, p, len, n) == len - (ItemPos(x, p, n) - Place(x, p, n))

(* bencode_list_get_next takes one item. *)
LEMMA ListNext ==
  ASSUME NEW x, NEW p, Stands(x, p), IsList(x), NEW n \in 0 .. Len(Items(x)) - 1,
         NEW len \in Int, len >= Len(Encode[x]),
         NEW loops, NEW m \in Nat, Skips(loops, m), m >= p + Len(Encode[x]) - Place(x, p, n) - 1
  PROVE  LET r == list_get_next(loops, Reader(x, p, len, n)) IN
         /\ r.ret = 1
         /\ r.be = Reader(x, p, len, n + 1)
         /\ r.item = bencode_init(ItemPos(x, p, n), ListLen(x, p, len, n))
         /\ Holds(Encode[x.list[n + 1]], ItemPos(x, p, n)) /\ ItemPos(x, p, n) \in Nat
         /\ ListLen(x, p, len, n) \in Int
         /\ ListLen(x, p, len, n) >= Len(Encode[x.list[n + 1]])
         /\ Len(Encode[x.list[n + 1]]) <= m
<1> DEFINE q  == Place(x, p, n)
           N  == Len(Items(x))
           E  == Len(Encode[x])
           v  == x.list[n + 1]
           V  == Len(Encode[v])
           a  == Offset(x, n)
           b  == Offset(x, n + 1)
           vp == ItemPos(x, p, n)
           vl == ListLen(x, p, len, n)
           be == Reader(x, p, len, n)
<1>0. text \in Seq(Char) /\ N \in Nat /\ n \in 0 .. N /\ n + 1 \in 0 .. N /\ n + 1 # 0
  <2>1. N \in Nat
    BY PlaceFacts
  <2> HIDE DEF N
  <2>2. n \in 0 .. N - 1
    BY DEF N
  <2> QED BY <2>1, <2>2 DEF Stands
<1>1. /\ p \in Nat \ {0} /\ E \in Nat /\ q \in Nat /\ q + 1 <= p + E /\ CharAt(p) = "l"
      /\ a \in Nat /\ b \in Nat /\ b + 2 <= E
  <2>1. ~IsDict(x)
    BY Kinds DEF Stands, Compound
  <2> QED BY <1>0, <2>1, PlaceFacts, PlaceTyped
<1>2. v \in Value /\ Holds(Encode[v], vp) /\ V \in Nat /\ b = a + V
  <2>1. v \in Value /\ Holds(Encode[v], vp) /\ b = a + V
    BY ListItem
  <2> QED BY <2>1, EncodeTyped
<1>3. vp = p + 1 + a /\ vl = len - (vp - q)
  BY DEF ItemPos, ListLen
<1>4. q = IF n = 0 THEN p ELSE vp
  BY DEF Place, ItemPos
<1>5. Place(x, p, n + 1) = p + 1 + b
  BY <1>0 DEF Place
<1>6. Offset(x, 0) = 0
  BY PlaceFacts
<1>7. CharAt(vp) # "e"
  BY <1>0, <1>2, NotEnd
<1>10. carry_length(be, vp) = vl /\ vl \in Int /\ vl >= V /\ vp \in Nat /\ V <= m
  <2>1. be.len = len /\ be.str = q
    BY DEF Reader
  <2>2. len >= E /\ m >= p + E - q - 1
    OBVIOUS
  <2> HIDE DEF q, E, V, a, b, vp, vl, be
  <2>3. n = 0 => a = 0
    BY <1>6 DEF a
  <2>4. 0 < len
    BY <1>1, <2>2
  <2>5. carry_length(be, vp) = len - (vp - q)
    BY <2>1, <2>4 DEF carry_length
  <2>6. vl \in Int /\ vp \in Nat
    BY <1>1, <1>2, <1>3
  <2>7. V <= m
    BY <1>1, <1>2, <1>3, <1>4, <2>2, <2>3
  <2>8. vl >= V
    BY <1>1, <1>2, <1>3, <1>4, <2>2, <2>3
  <2> QED BY <1>3, <2>5, <2>6, <2>7, <2>8
<1>11. AfterItem(loops, bencode_init(vp, vl)) = Place(x, p, n + 1)
  <2>1. AfterItem(loops, bencode_init(vp, vl)) = vp + V
    <3> HIDE DEF vp, vl, v
    <3> QED BY <1>2, <1>10 DEF Skips
  <2> HIDE DEF V, a, b, vp
  <2>2. vp + V = p + 1 + b
    BY <1>1, <1>2, <1>3
  <2> QED BY <1>5, <2>1, <2>2
<1>12. (IF CharAt(q) = "l" /\ q = p THEN q + 1 ELSE q) = vp
  <2>1. CASE n = 0
    <3>1. q = p /\ vp = q + 1
      <4>1. a = 0 /\ q = p
        BY <1>4, <1>6, <2>1
      <4> HIDE DEF a, q, vp
      <4> QED BY <1>1, <1>3, <4>1
    <3> QED BY <1>1, <3>1
  <2>2. CASE n # 0
    <3>1. q # p
      BY <1>0, <2>2, PlaceTyped
    <3> QED BY <1>4, <2>2, <3>1
  <2> QED BY <2>1, <2>2
<1>15. Place(x, p, n + 1) # NULL /\ q # NULL
  <2>1. p <= q
    BY <1>0, PlaceTyped
  <2> HIDE DEF b, q
  <2> QED BY <1>1, <1>5, <2>1 DEF NULL
<1>13. list_get_next(loops, be)
         = [ret  |-> 1,
            be   |-> [be EXCEPT !.str = Place(x, p, n + 1)],
            item |-> bencode_init(vp, vl)]
  <2>1. be.str = q /\ be.start = p
    BY DEF Reader
  <2> HIDE DEF q, vp, vl, be
  <2>4. iterate_to_next_string_pos(loops, be, vp) = Place(x, p, n + 1)
    BY <1>10, <1>11 DEF iterate_to_next_string_pos
  <2> QED BY <1>7, <1>10, <1>12, <1>15, <2>1, <2>4 DEF list_get_next
<1>14. [be EXCEPT !.str = Place(x, p, n + 1)] = Reader(x, p, len, n + 1)
  BY DEF Reader
<1> HIDE DEF q, be
<1>16. LET r == list_get_next(loops, be) IN
       /\ r.ret = 1
       /\ r.be = Reader(x, p, len, n + 1)
       /\ r.item = bencode_init(ItemPos(x, p, n), ListLen(x, p, len, n))
  BY <1>13, <1>14
<1> QED BY <1>2, <1>10, <1>16 DEF be


(* Where the loop stops that began at q. *)
Stop(x, p) == IF IsDict(x) /\ Len(Items(x)) = 0 THEN p ELSE p + Len(Encode[x]) - 1

(* Loops of m turns reach the end of what has no more than m characters left. *)
Reads(loops, m) ==
  \A x, p : Stands(x, p) =>
    \A n \in 0 .. Len(Items(x)), len \in Int :
      len >= Len(Encode[x]) /\ p + Len(Encode[x]) - Place(x, p, n) <= m =>
        /\ IsDict(x) => loops.dict[Reader(x, p, len, n)] = Stop(x, p)
        /\ IsList(x) => loops.list[Reader(x, p, len, n)] = Stop(x, p)

(* An item is told by its first character, and read as what was written. *)
LEMMA ItemRead ==
  ASSUME text \in Seq(Char), NEW y \in Value, NEW q \in Nat, NEW l \in Int,
         Holds(Encode[y], q), l >= Len(Encode[y])
  PROVE  LET be == bencode_init(q, l) IN
         /\ IsDict(y) => is_dict(be) /\ ~is_list(be) /\ ~is_string(be) /\ ~is_int(be)
         /\ IsList(y) => is_list(be) /\ ~is_dict(be) /\ ~is_string(be) /\ ~is_int(be)
         /\ IsStr(y)  => /\ is_string(be) /\ ~is_dict(be) /\ ~is_list(be) /\ ~is_int(be)
                         /\ string_value(be) = [str |-> StrAt(y.str, q), len |-> Len(y.str)]
                         /\ StrAt(y.str, q) \in Nat /\ StrAt(y.str, q) # NULL
                         /\ StrAt(y.str, q) + Len(y.str) = q + Len(Encode[y])
                         /\ Holds(y.str, StrAt(y.str, q)) /\ y.str \in Seq(Char)
         /\ IsInt(y)  => /\ is_int(be) /\ ~is_dict(be) /\ ~is_list(be) /\ ~is_string(be)
                         /\ int_value(be) = [ok  |-> TRUE, end |-> q + Len(Encode[y]) - 1,
                                             val |-> y.int]
                         /\ y.int \in Int
<1> DEFINE E == Len(Encode[y])
           be == bencode_init(q, l)
<1>1. be.str = q /\ be.start = q /\ be.len = l
  BY DEF bencode_init
<1>2. /\ E \in Nat /\ E >= 2 /\ q # 0
      /\ IsStr(y) => isdigit(CharAt(q)) /\ Encode[y] = EncodeStr(y.str)
      /\ IsInt(y) => CharAt(q) = "i" /\ Encode[y] = EncodeInt(y.int)
      /\ IsList(y) => CharAt(q) = "l"
      /\ IsDict(y) => CharAt(q) = "d"
  BY FirstChar
<1>3. l >= E
  OBVIOUS
<1> HIDE DEF E, be
<1>4. /\ is_dict(be) <=> CharAt(q) = "d"
      /\ is_list(be) <=> CharAt(q) = "l"
      /\ is_int(be)  <=> CharAt(q) = "i"
      /\ is_string(be) = (isdigit(CharAt(q)) /\ CharAt(DigitsEnd(q)) = ":")
  BY <1>1, <1>2 DEF is_dict, is_list, is_int, is_string, NULL
<1>5. ASSUME IsStr(y)
      PROVE  /\ is_string(be) /\ ~is_dict(be) /\ ~is_list(be) /\ ~is_int(be)
             /\ string_value(be) = [str |-> StrAt(y.str, q), len |-> Len(y.str)]
             /\ StrAt(y.str, q) \in Nat /\ StrAt(y.str, q) # NULL
             /\ StrAt(y.str, q) + Len(y.str) = q + E
             /\ Holds(y.str, StrAt(y.str, q)) /\ y.str \in Seq(Char)
  <2>1. y.str \in Seq(Char) /\ Len(y.str) \in Nat
    BY <1>5, Kinds
  <2>2. /\ isdigit(CharAt(q)) /\ CharAt(DigitsEnd(q)) = ":"
        /\ read_string_len(q) = [str |-> StrAt(y.str, q), len |-> Len(y.str)]
        /\ StrAt(y.str, q) + Len(y.str) = q + E /\ StrAt(y.str, q) >= q + 2
        /\ StrAt(y.str, q) \in Nat /\ Holds(y.str, StrAt(y.str, q))
    BY <1>2, <1>5, <2>1, StrRead DEF E
  <2>3. is_string(be) /\ ~is_dict(be) /\ ~is_list(be) /\ ~is_int(be)
    BY <1>4, <2>2, DigitFacts
  <2> DEFINE r == [str |-> StrAt(y.str, q), len |-> Len(y.str)]
  <2>4. r.str + r.len = q + E /\ StrAt(y.str, q) # NULL
    <3>1. StrAt(y.str, q) # 0
      BY <2>2
    <3> QED BY <2>2, <3>1 DEF NULL
  <2>5. string_value(be) = r
    <3>1. 0 < be.len /\ ~(r.str + r.len > be.start + be.len)
      <4>1. ~(q + E > q + l)
        BY <1>2, <1>3
      <4>2. 0 < l
        BY <1>2, <1>3
      <4> HIDE DEF r
      <4> QED BY <1>1, <2>4, <4>1, <4>2
    <3> HIDE DEF r
    <3> QED BY <1>1, <2>2, <2>3, <3>1 DEF string_value, r
  <2> QED BY <2>1, <2>2, <2>3, <2>4, <2>5
<1>6. ASSUME IsInt(y)
      PROVE  /\ is_int(be) /\ ~is_dict(be) /\ ~is_list(be) /\ ~is_string(be)
             /\ int_value(be) = [ok |-> TRUE, end |-> q + E - 1, val |-> y.int] /\ y.int \in Int
  <2>1. /\ read_string_int(q + 1) = [ok |-> TRUE, end |-> q + E - 1, val |-> y.int]
        /\ CharAt(q + E - 1) = "e" /\ y.int \in Int
    BY <1>2, <1>6, Kinds, IntRead DEF E
  <2>2. int_value(be) = [ok |-> TRUE, end |-> q + E - 1, val |-> y.int]
    BY <1>1, <2>1 DEF int_value
  <2>3. is_int(be) /\ ~is_dict(be) /\ ~is_list(be) /\ ~is_string(be)
    BY <1>2, <1>4, <1>6, DigitFacts
  <2> QED BY <2>1, <2>2, <2>3
<1>7. IsList(y) => is_list(be) /\ ~is_dict(be) /\ ~is_string(be) /\ ~is_int(be)
  BY <1>2, <1>4, DigitFacts
<1>8. IsDict(y) => is_dict(be) /\ ~is_list(be) /\ ~is_string(be) /\ ~is_int(be)
  BY <1>2, <1>4, DigitFacts
<1> QED BY <1>5, <1>6, <1>7, <1>8 DEF E, be

(* __iterate_to_next_string_pos skips a value, if the loops read what fits in m. *)
LEMMA ItemSkipped ==
  ASSUME text \in Seq(Char), NEW loops, NEW m \in Nat, Reads(loops, m)
  PROVE  Skips(loops, m)
<1> SUFFICES ASSUME NEW y \in Value, NEW q \in Nat, NEW l \in Int,
                    Holds(Encode[y], q), l >= Len(Encode[y]), Len(Encode[y]) <= m
             PROVE  AfterItem(loops, bencode_init(q, l)) = q + Len(Encode[y])
  BY DEF Skips
<1> DEFINE E == Len(Encode[y])
           be == bencode_init(q, l)
<1>2. E \in Nat /\ E >= 2
  BY FirstChar
<1>3. l >= E
  OBVIOUS
<1> HIDE DEF E, be
<1>4. CASE IsStr(y)
  <2>1. /\ is_string(be) /\ ~is_dict(be) /\ ~is_list(be) /\ ~is_int(be)
        /\ string_value(be) = [str |-> StrAt(y.str, q), len |-> Len(y.str)]
        /\ StrAt(y.str, q) # NULL /\ StrAt(y.str, q) + Len(y.str) = q + E
    BY <1>4, ItemRead DEF E, be
  <2>2. AfterItem(loops, be) = AfterString(string_value(be))
    BY <2>1 DEF AfterItem
  <2>3. AfterString([str |-> StrAt(y.str, q), len |-> Len(y.str)]) = q + E
    BY <2>1 DEF AfterString
  <2> QED BY <2>1, <2>2, <2>3 DEF E, be
<1>5. CASE IsInt(y)
  <2>1. /\ is_int(be) /\ ~is_dict(be) /\ ~is_list(be) /\ ~is_string(be)
        /\ int_value(be) = [ok |-> TRUE, end |-> q + E - 1, val |-> y.int]
    BY <1>5, ItemRead DEF E, be
  <2>2. AfterItem(loops, be) = AfterInt(int_value(be))
    BY <2>1 DEF AfterItem
  <2>3. AfterInt([ok |-> TRUE, end |-> q + E - 1, val |-> y.int]) = q + E
    BY <1>2 DEF AfterInt
  <2> QED BY <2>1, <2>2, <2>3 DEF E, be
<1>6. CASE IsList(y) \/ IsDict(y)
  <2>1. Stands(y, q) /\ 0 \in 0 .. Len(Items(y))
    <3>1. Stands(y, q)
      BY <1>6 DEF Stands, Compound
    <3> QED BY <3>1, PlaceFacts
  <2>2. be = Reader(y, q, l, 0) /\ Place(y, q, 0) = q
    BY DEF Reader, Place, be, bencode_init
  <2>3. q + E - q <= m
    BY <1>2 DEF E
  <2>4. /\ IsDict(y) => loops.dict[be] = Stop(y, q)
        /\ IsList(y) => loops.list[be] = Stop(y, q)
    BY <1>3, <2>1, <2>2, <2>3 DEF Reads, E
  <2>5. Stop(y, q) # NULL /\ q # NULL
    <3>1. q # 0
      BY FirstChar
    <3> QED BY <1>2, <3>1 DEF Stop, NULL, E
  <2>6. CASE IsList(y)
    <3>1. is_list(be) /\ ~is_dict(be) /\ ~is_string(be) /\ ~is_int(be) /\ ~IsDict(y)
      BY <2>6, ItemRead, Kinds DEF be
    <3>2. Stop(y, q) + 1 = q + E
      BY <1>2, <3>1 DEF Stop, E
    <3>3. AfterItem(loops, be) = AfterList(loops.list[be])
      BY <3>1 DEF AfterItem
    <3>4. AfterList(Stop(y, q)) = q + E
      BY <2>5, <3>2 DEF AfterList
    <3> QED BY <2>4, <2>6, <3>3, <3>4 DEF E, be
  <2>7. CASE IsDict(y)
    <3>1. is_dict(be) /\ ~is_list(be) /\ ~is_string(be) /\ ~is_int(be)
      BY <2>7, ItemRead DEF be
    <3>2. AfterDict(Stop(y, q)) = q + E
      <4>1. CASE Len(Items(y)) = 0
        <5>1. /\ Offset(y, 0) = 0 /\ Offset(y, Len(Items(y))) + 2 = E
              /\ CharAt(q + E - 1) = "e" /\ CharAt(q) = "d"
          BY <2>1, <2>7, PlaceFacts DEF E
        <5>2. Offset(y, Len(Items(y))) = 0
          BY <4>1, <5>1
        <5>3. E = 2 /\ q + E - 1 = q + 1
          BY <1>2, <5>1, <5>2
        <5>4. Stop(y, q) = q
          BY <2>7, <4>1 DEF Stop
        <5> QED BY <2>5, <5>1, <5>3, <5>4 DEF AfterDict
      <4>2. CASE Len(Items(y)) # 0
        <5>1. Stop(y, q) = q + E - 1 /\ CharAt(q + E - 1) = "e"
          BY <2>1, <4>2, PlaceFacts DEF Stop, E
        <5>2. AfterDict(Stop(y, q)) = q + E - 1 + 1
          BY <2>5, <5>1 DEF AfterDict
        <5> QED BY <1>2, <5>2
      <4> QED BY <4>1, <4>2
    <3>3. AfterItem(loops, be) = AfterDict(loops.dict[be])
      BY <3>1 DEF AfterItem
    <3> QED BY <2>4, <2>7, <3>2, <3>3 DEF E, be
  <2> QED BY <1>6, <2>6, <2>7
<1> QED BY <1>4, <1>5, <1>6, Kinds

(* The next entry or item takes a character at least. *)
LEMMA Advance ==
  ASSUME NEW x, NEW p, Stands(x, p), NEW n \in 0 .. Len(Items(x)), n < Len(Items(x))
  PROVE  /\ n \in 0 .. Len(Items(x)) - 1 /\ n + 1 \in 0 .. Len(Items(x))
         /\ Place(x, p, n) + 1 <= Place(x, p, n + 1)
         /\ Place(x, p, n) \in Nat /\ Place(x, p, n + 1) \in Nat
         /\ Place(x, p, n + 1) + 1 <= p + Len(Encode[x])
         /\ p \in Nat \ {0} /\ Len(Encode[x]) \in Nat /\ p + Len(Encode[x]) <= Len(text) + 1
         /\ Len(text) \in Nat
<1> DEFINE N == Len(Items(x))
<1>1. N \in Nat
  BY PlaceFacts
<1> HIDE DEF N
<1>2. n \in 0 .. N - 1 /\ n + 1 \in 0 .. N
  BY <1>1 DEF N
<1>3. /\ Offset(x, n) \in Nat /\ Offset(x, n + 1) \in Nat
      /\ Place(x, p, n + 1) = p + 1 + Offset(x, n + 1)
      /\ Place(x, p, n) = p \/ Place(x, p, n) = p + 1 + Offset(x, n)
  BY <1>2, PlaceFacts DEF Place, N
<1>4. Offset(x, n + 1) >= Offset(x, n) + 1
  <2>1. CASE IsDict(x)
    <3>1. /\ Offset(x, n + 1) = Offset(x, n) + Len(KeyText(x, n))
                                             + Len(Encode[x.dict[n + 1].val])
          /\ Len(KeyText(x, n)) \in Nat /\ Len(KeyText(x, n)) >= 2
          /\ Len(Encode[x.dict[n + 1].val]) \in Nat
      BY <1>2, <2>1, DictItem DEF N
    <3> DEFINE c == Len(KeyText(x, n))
               d == Len(Encode[x.dict[n + 1].val])
               a == Offset(x, n)
    <3>2. c \in Nat /\ d \in Nat /\ a \in Nat /\ c >= 2 /\ Offset(x, n + 1) = a + c + d
      BY <1>3, <3>1
    <3> HIDE DEF c, d, a
    <3>3. a + c + d >= a + 1
      BY <3>2
    <3> QED BY <3>2, <3>3 DEF a
  <2>2. CASE IsList(x)
    <3>1. /\ x.list[n + 1] \in Value /\ Holds(Encode[x.list[n + 1]], ItemPos(x, p, n))
          /\ Offset(x, n + 1) = Offset(x, n) + Len(Encode[x.list[n + 1]])
          /\ text \in Seq(Char)
      BY <1>2, <2>2, ListItem DEF N, Stands
    <3>2. Len(Encode[x.list[n + 1]]) \in Nat /\ Len(Encode[x.list[n + 1]]) >= 2
      BY <3>1, FirstChar
    <3> DEFINE d == Len(Encode[x.list[n + 1]])
               a == Offset(x, n)
    <3>3. d \in Nat /\ a \in Nat /\ d >= 2 /\ Offset(x, n + 1) = a + d
      BY <1>3, <3>1, <3>2
    <3> HIDE DEF d, a
    <3>4. a + d >= a + 1
      BY <3>3
    <3> QED BY <3>3, <3>4 DEF a
  <2> QED BY <2>1, <2>2 DEF Stands, Compound
<1>5. /\ Place(x, p, n) \in Nat /\ Place(x, p, n + 1) \in Nat
      /\ Place(x, p, n + 1) + 1 <= p + Len(Encode[x])
  BY <1>2, PlaceTyped DEF N
<1>6. /\ p \in Nat \ {0} /\ Len(Encode[x]) \in Nat /\ p + Len(Encode[x]) <= Len(text) + 1
      /\ Len(text) \in Nat
  BY PlaceFacts
<1>7. Place(x, p, n) + 1 <= Place(x, p, n + 1)
  BY <1>3, <1>4, <1>6
<1> QED BY <1>2, <1>5, <1>6, <1>7 DEF N

(* Loops.dict and Loops.list are functions on all objects. *)
LEMMA LoopsTurn ==
  ASSUME NEW m \in Nat, NEW be \in Object
  PROVE  /\ Loops[m + 1].dict[be] = DictTurn(Loops[m], be)
         /\ Loops[m + 1].list[be] = ListTurn(Loops[m], be)
<1>1. m + 1 \in Nat /\ m + 1 # 0 /\ (m + 1) - 1 = m
  OBVIOUS
<1>2. Loops[m + 1] = Turn(Loops[m])
  BY <1>1, LoopsEquation
<1> QED BY <1>2 DEF Turn

(* After n turns a loop has read whatever is no longer than n, by induction on n. *)
LEMMA LoopsRead ==
  ASSUME text \in Seq(Char)
  PROVE  \A m \in Nat : Reads(Loops[m], m)
<1> DEFINE T == {m \in Nat : Reads(Loops[m], m)}
<1>1. 0 \in T
  <2> SUFFICES ASSUME NEW x, NEW p, Stands(x, p), NEW n \in 0 .. Len(Items(x)),
                      p + Len(Encode[x]) - Place(x, p, n) <= 0
               PROVE  FALSE
    BY DEF Reads
  <2>1. /\ Place(x, p, n) \in Nat /\ Place(x, p, n) + 1 <= p + Len(Encode[x])
        /\ Len(Encode[x]) \in Nat /\ p \in Nat
    BY PlaceTyped, PlaceFacts
  <2> QED BY <2>1
<1>2. ASSUME NEW m \in T PROVE m + 1 \in T
  <2>0. m \in Nat /\ Reads(Loops[m], m) /\ m + 1 \in Nat
    OBVIOUS
  <2>1. Skips(Loops[m], m)
    BY <2>0, ItemSkipped
  <2> SUFFICES ASSUME NEW x, NEW p, Stands(x, p),
                      NEW n \in 0 .. Len(Items(x)), NEW len \in Int,
                      len >= Len(Encode[x]), p + Len(Encode[x]) - Place(x, p, n) <= m + 1
               PROVE  /\ IsDict(x) => Loops[m + 1].dict[Reader(x, p, len, n)] = Stop(x, p)
                      /\ IsList(x) => Loops[m + 1].list[Reader(x, p, len, n)] = Stop(x, p)
    BY <2>0 DEF Reads
  <2> DEFINE q == Place(x, p, n)
             E == Len(Encode[x])
             N == Len(Items(x))
             be == Reader(x, p, len, n)
  <2>2. /\ N \in Nat /\ E \in Nat /\ p \in Nat /\ q \in Nat /\ q + 1 <= p + E /\ be \in Object
        /\ n = N /\ n # 0 => q = p + E - 1
        /\ be.str = q
    <3>1. be.str = q
      BY DEF Reader
    <3> HIDE DEF be
    <3> QED BY <3>1, PlaceFacts, PlaceTyped DEF be
  <2>3. /\ Loops[m + 1].dict[be] = DictTurn(Loops[m], be)
        /\ Loops[m + 1].list[be] = ListTurn(Loops[m], be)
    BY <2>0, <2>2, LoopsTurn
  <2>4. m >= p + E - q - 1
    <3> HIDE DEF q, E
    <3>1. p + E - q <= m + 1
      BY DEF q, E
    <3> QED BY <2>0, <2>2, <3>1
  <2>5. ASSUME n < N
        PROVE  n \in 0 .. N - 1 /\ n + 1 \in 0 .. N /\ p + E - Place(x, p, n + 1) <= m
    <3>1. /\ n \in 0 .. N - 1 /\ n + 1 \in 0 .. N
          /\ q + 1 <= Place(x, p, n + 1) /\ Place(x, p, n + 1) \in Nat
      BY <2>5, Advance
    <3> HIDE DEF q, E, N
    <3> QED BY <2>0, <2>2, <2>4, <3>1
  <2>6. ASSUME n < N
        PROVE  /\ IsDict(x) => Loops[m].dict[Reader(x, p, len, n + 1)] = Stop(x, p)
               /\ IsList(x) => Loops[m].list[Reader(x, p, len, n + 1)] = Stop(x, p)
    BY <2>0, <2>5, <2>6 DEF Reads
  <2>7. ASSUME IsDict(x) PROVE Loops[m + 1].dict[be] = Stop(x, p)
    <3>1. dict_has_next(be) <=> n < N
      BY <2>7, DictHasNext
    <3>2. CASE n < N
      <4>1. /\ dict_get_next(Loops[m], be).be = Reader(x, p, len, n + 1)
            /\ dict_get_next(Loops[m], be).ret = 1
        BY <2>0, <2>1, <2>4, <2>5, <2>7, <3>2, DictNext
      <4> HIDE DEF be
      <4> QED BY <2>3, <2>6, <2>7, <3>1, <3>2, <4>1 DEF DictTurn
    <3>3. CASE n = N
      <4>1. DictTurn(Loops[m], be) = q
        <5>1. ~dict_has_next(be)
          BY <2>2, <3>1, <3>3
        <5> HIDE DEF be, q
        <5> QED BY <2>2, <5>1 DEF DictTurn
      <4>2. q = Stop(x, p)
        <5>1. n = 0 => q = p
          BY DEF Place
        <5> HIDE DEF q
        <5> QED BY <2>2, <2>7, <3>3, <5>1 DEF Stop
      <4> QED BY <2>3, <4>1, <4>2
    <3> QED BY <2>2, <3>2, <3>3
  <2>8. ASSUME IsList(x) PROVE Loops[m + 1].list[be] = Stop(x, p)
    <3> DEFINE h == list_has_next(be)
    <3>1. /\ h.more <=> n < N
          /\ h.more => h.be = be
          /\ ~h.more => h.be.str = p + E - 1
      BY <2>8, ListHasNext
    <3>2. CASE n < N
      <4>1. /\ list_get_next(Loops[m], be).be = Reader(x, p, len, n + 1)
            /\ list_get_next(Loops[m], be).ret = 1
        BY <2>0, <2>1, <2>4, <2>5, <2>8, <3>2, ListNext
      <4> HIDE DEF be
      <4> QED BY <2>3, <2>6, <2>8, <3>1, <3>2, <4>1 DEF ListTurn
    <3>3. CASE n = N
      <4>1. ~h.more
        BY <2>2, <3>1, <3>3
      <4> HIDE DEF be
      <4>2. ListTurn(Loops[m], be) = p + E - 1
        BY <3>1, <4>1 DEF ListTurn
      <4>3. Stop(x, p) = p + E - 1
        BY <2>8, Kinds DEF Stop, Stands, Compound
      <4> QED BY <2>3, <4>2, <4>3
    <3> QED BY <2>2, <3>2, <3>3
  <2> QED BY <2>7, <2>8
<1>3. T = Nat
  <2> HIDE DEF T
  <2> QED BY <1>1, <1>2, NatSets DEF T
<1> QED BY <1>3


(* So AllLoops skips all there is in the buffer. *)
LEMMA AllSkips ==
  ASSUME text \in Seq(Char)
  PROVE  Skips(AllLoops, Len(text)) /\ Len(text) \in Nat /\ Reads(AllLoops, Len(text))
<1>1. Len(text) \in Nat
  OBVIOUS
<1>2. Reads(Loops[Len(text)], Len(text))
  BY <1>1, LoopsRead
<1> QED BY <1>1, <1>2, ItemSkipped DEF AllLoops

-----------------------------------------------------------------------------
(* All that was written is found valid. *)

Accepts(valid, m) ==
  \A x, p : Stands(x, p) =>
    \A n \in 0 .. Len(Items(x)), len \in Int :
      len >= Len(Encode[x]) /\ p + Len(Encode[x]) - Place(x, p, n) <= m =>
        /\ IsDict(x) => valid.dict[Reader(x, p, len, n)] = TRUE
        /\ IsList(x) => valid.list[Reader(x, p, len, n)] = TRUE

(* __validate accepts a value, if its loops accept what fits in m. *)
LEMMA ItemValid ==
  ASSUME text \in Seq(Char), NEW valid, NEW m \in Nat, Accepts(valid, m),
         NEW y \in Value, NEW q \in Nat, NEW l \in Int,
         Holds(Encode[y], q), l >= Len(Encode[y]), Len(Encode[y]) <= m
  PROVE  validate(valid, bencode_init(q, l))
<1> DEFINE be == bencode_init(q, l)
<1> HIDE DEF be
<1>1. CASE IsStr(y)
  <2>1. /\ is_string(be) /\ ~is_dict(be) /\ ~is_list(be) /\ ~is_int(be)
        /\ string_value(be).str # NULL
    BY <1>1, ItemRead DEF be
  <2>2. validate(valid, be) = (string_value(be).str # NULL)
    BY <2>1 DEF validate
  <2> QED BY <2>1, <2>2 DEF be
<1>2. CASE IsInt(y)
  <2>1. /\ is_int(be) /\ ~is_dict(be) /\ ~is_list(be) /\ ~is_string(be)
        /\ int_value(be).ok = TRUE
    BY <1>2, ItemRead DEF be
  <2>2. validate(valid, be) = int_value(be).ok
    BY <2>1 DEF validate
  <2> QED BY <2>1, <2>2 DEF be
<1>3. CASE IsList(y) \/ IsDict(y)
  <2>1. Stands(y, q) /\ 0 \in 0 .. Len(Items(y))
    <3>1. Stands(y, q)
      BY <1>3 DEF Stands, Compound
    <3> QED BY <3>1, PlaceFacts
  <2>2. be = Reader(y, q, l, 0) /\ Place(y, q, 0) = q
    BY DEF Reader, Place, be, bencode_init
  <2>3. q + Len(Encode[y]) - q <= m
    BY EncodeTyped
  <2>4. /\ IsDict(y) => valid.dict[be] = TRUE
        /\ IsList(y) => valid.list[be] = TRUE
    BY <2>1, <2>2, <2>3 DEF Accepts
  <2>5. CASE IsList(y)
    <3>1. is_list(be) /\ ~is_dict(be) /\ ~is_string(be) /\ ~is_int(be)
      BY <2>5, ItemRead DEF be
    <3>2. validate(valid, be) = valid.list[be]
      BY <3>1 DEF validate
    <3> QED BY <2>4, <2>5, <3>2 DEF be
  <2>6. CASE IsDict(y)
    <3>1. is_dict(be) /\ ~is_list(be) /\ ~is_string(be) /\ ~is_int(be)
      BY <2>6, ItemRead DEF be
    <3>2. validate(valid, be) = valid.dict[be]
      BY <3>1 DEF validate
    <3> QED BY <2>4, <2>6, <3>2 DEF be
  <2> QED BY <1>3, <2>5, <2>6
<1> QED BY <1>1, <1>2, <1>3, Kinds

LEMMA ValidTurns ==
  ASSUME NEW m \in Nat, NEW be \in Object
  PROVE  /\ Valid[m + 1].dict[be] = validate_dict(Valid[m], be)
         /\ Valid[m + 1].list[be] = validate_list(Valid[m], be)
<1>1. m + 1 \in Nat /\ m + 1 # 0 /\ (m + 1) - 1 = m
  OBVIOUS
<1>2. Valid[m + 1] = ValidTurn(Valid[m])
  BY <1>1, ValidEquation
<1> QED BY <1>2 DEF ValidTurn

(* They do, by induction on m. *)
LEMMA ValidRead ==
  ASSUME text \in Seq(Char)
  PROVE  \A m \in Nat : Accepts(Valid[m], m)
<1> DEFINE T == {m \in Nat : Accepts(Valid[m], m)}
           L == Len(text)
<1>0. Skips(AllLoops, L) /\ L \in Nat
  BY AllSkips
<1>1. 0 \in T
  <2> SUFFICES ASSUME NEW x, NEW p, Stands(x, p), NEW n \in 0 .. Len(Items(x)),
                      p + Len(Encode[x]) - Place(x, p, n) <= 0
               PROVE  FALSE
    BY DEF Accepts
  <2>1. /\ Place(x, p, n) \in Nat /\ Place(x, p, n) + 1 <= p + Len(Encode[x])
        /\ Len(Encode[x]) \in Nat /\ p \in Nat
    BY PlaceTyped, PlaceFacts
  <2> QED BY <2>1
<1>2. ASSUME NEW m \in T PROVE m + 1 \in T
  <2>0. m \in Nat /\ Accepts(Valid[m], m) /\ m + 1 \in Nat
    OBVIOUS
  <2> SUFFICES ASSUME NEW x, NEW p, Stands(x, p),
                      NEW n \in 0 .. Len(Items(x)), NEW len \in Int,
                      len >= Len(Encode[x]), p + Len(Encode[x]) - Place(x, p, n) <= m + 1
               PROVE  /\ IsDict(x) => Valid[m + 1].dict[Reader(x, p, len, n)] = TRUE
                      /\ IsList(x) => Valid[m + 1].list[Reader(x, p, len, n)] = TRUE
    BY <2>0 DEF Accepts
  <2> DEFINE q == Place(x, p, n)
             E == Len(Encode[x])
             N == Len(Items(x))
             be == Reader(x, p, len, n)
  <2>2. /\ N \in Nat /\ E \in Nat /\ p \in Nat \ {0} /\ q \in Nat /\ p <= q
        /\ p + E <= L + 1 /\ be \in Object
    BY PlaceFacts, PlaceTyped
  <2>3. /\ Valid[m + 1].dict[be] = validate_dict(Valid[m], be)
        /\ Valid[m + 1].list[be] = validate_list(Valid[m], be)
    BY <2>0, <2>2, ValidTurns
  <2>4. L >= p + E - q - 1
    <3> HIDE DEF q, E, L
    <3> QED BY <1>0, <2>2
  <2>5. ASSUME n < N
        PROVE  n \in 0 .. N - 1 /\ n + 1 \in 0 .. N /\ p + E - Place(x, p, n + 1) <= m
               /\ p + E - q - 1 <= m
    <3>1. /\ n \in 0 .. N - 1 /\ n + 1 \in 0 .. N
          /\ q + 1 <= Place(x, p, n + 1) /\ Place(x, p, n + 1) \in Nat
      BY <2>5, Advance
    <3>2. p + E - q <= m + 1
      OBVIOUS
    <3> HIDE DEF q, E, N
    <3> QED BY <2>0, <2>2, <3>1, <3>2
  <2>6. ASSUME n < N
        PROVE  /\ IsDict(x) => Valid[m].dict[Reader(x, p, len, n + 1)] = TRUE
               /\ IsList(x) => Valid[m].list[Reader(x, p, len, n + 1)] = TRUE
    BY <2>0, <2>5, <2>6 DEF Accepts
  <2>7. ASSUME IsDict(x) PROVE validate_dict(Valid[m], be)
    <3>1. dict_has_next(be) <=> n < N
      BY <2>7, DictHasNext
    <3>2. CASE n < N
      <4> DEFINE r == dict_get_next(AllLoops, be)
                 v == x.dict[n + 1].val
      <4>1. /\ r.be = Reader(x, p, len, n + 1) /\ r.ret = 1
            /\ r.item = bencode_init(ValPos(x, p, n), ValLen(x, p, len, n))
            /\ Holds(Encode[v], ValPos(x, p, n)) /\ ValPos(x, p, n) \in Nat
            /\ ValLen(x, p, len, n) \in Int /\ ValLen(x, p, len, n) >= Len(Encode[v])
        <5>1. n \in 0 .. Len(Items(x)) - 1 /\ Len(text) \in Nat /\ Skips(AllLoops, Len(text))
              /\ Len(text) >= p + Len(Encode[x]) - Place(x, p, n) - 1
          BY <1>0, <2>4, <2>5, <3>2
        <5>2. len >= Len(Encode[x])
          OBVIOUS
        <5> HIDE DEF L, q, E, N
        <5> QED BY <2>7, <5>1, <5>2, DictNext DEF r, be, v
      <4>2. v \in Value /\ Len(Encode[v]) <= m
        <5>1. /\ v \in Value /\ Len(KeyText(x, n)) \in Nat /\ Len(KeyText(x, n)) >= 2
              /\ Len(Encode[v]) \in Nat
              /\ Offset(x, n + 1) = Offset(x, n) + Len(KeyText(x, n)) + Len(Encode[v])
          BY <2>5, <2>7, <3>2, DictItem
        <5>2. /\ Offset(x, n) \in Nat /\ Offset(x, n + 1) \in Nat /\ Offset(x, n + 1) + 2 <= E
              /\ q <= p + 1 + Offset(x, n)
          <6>1. Offset(x, n) \in Nat /\ Offset(x, n + 1) \in Nat /\ Offset(x, n + 1) + 2 <= E
            BY <2>5, <3>2, PlaceFacts
          <6>2. q = p \/ q = p + 1 + Offset(x, n)
            BY DEF Place
          <6> HIDE DEF q, E
          <6> QED BY <2>2, <6>1, <6>2
        <5>3. p + E - q - 1 <= m
          BY <2>5, <3>2
        <5> DEFINE a == Offset(x, n)
                   b == Offset(x, n + 1)
                   c == Len(KeyText(x, n))
                   d == Len(Encode[v])
        <5>4. /\ a \in Nat /\ b \in Nat /\ c \in Nat /\ d \in Nat /\ c >= 2
              /\ b = a + c + d /\ b + 2 <= E /\ q <= p + 1 + a
          BY <5>1, <5>2
        <5>5. d <= m
          <6> HIDE DEF a, b, c, d, q, E
          <6> QED BY <2>0, <2>2, <5>3, <5>4
        <5> QED BY <5>1, <5>5
      <4> HIDE DEF r, v, be
      <4>3. validate(Valid[m], r.item)
        BY <2>0, <4>1, <4>2, ItemValid
      <4>4. Valid[m].dict[r.be] = TRUE
        BY <2>6, <2>7, <3>2, <4>1
      <4> QED BY <4>1, <4>3, <4>4 DEF validate_dict, r
    <3>3. CASE ~(n < N)
      <4> HIDE DEF be
      <4> QED BY <3>1, <3>3 DEF validate_dict
    <3> QED BY <3>2, <3>3
  <2>8. ASSUME IsList(x) PROVE validate_list(Valid[m], be)
    <3> DEFINE h == list_has_next(be)
    <3>1. /\ h.more <=> n < N
          /\ h.more => h.be = be
      BY <2>8, ListHasNext
    <3>2. CASE n < N
      <4> DEFINE r == list_get_next(AllLoops, be)
                 v == x.list[n + 1]
      <4>1. /\ r.be = Reader(x, p, len, n + 1) /\ r.ret = 1
            /\ r.item = bencode_init(ItemPos(x, p, n), ListLen(x, p, len, n))
            /\ Holds(Encode[v], ItemPos(x, p, n)) /\ ItemPos(x, p, n) \in Nat
            /\ ListLen(x, p, len, n) \in Int /\ ListLen(x, p, len, n) >= Len(Encode[v])
        <5>1. n \in 0 .. Len(Items(x)) - 1 /\ Len(text) \in Nat /\ Skips(AllLoops, Len(text))
              /\ Len(text) >= p + Len(Encode[x]) - Place(x, p, n) - 1
          BY <1>0, <2>4, <2>5, <3>2
        <5>2. len >= Len(Encode[x])
          OBVIOUS
        <5> HIDE DEF L, q, E, N
        <5> QED BY <2>8, <5>1, <5>2, ListNext DEF r, be, v
      <4>2. v \in Value /\ Len(Encode[v]) <= m
        <5>1. /\ v \in Value /\ Len(Encode[v]) \in Nat
              /\ Offset(x, n + 1) = Offset(x, n) + Len(Encode[v])
          <6>1. v \in Value /\ Offset(x, n + 1) = Offset(x, n) + Len(Encode[v])
            BY <2>5, <2>8, <3>2, ListItem
          <6> HIDE DEF v
          <6> QED BY <6>1, EncodeTyped
        <5>2. /\ Offset(x, n) \in Nat /\ Offset(x, n + 1) \in Nat /\ Offset(x, n + 1) + 2 <= E
              /\ q <= p + 1 + Offset(x, n)
          <6>1. Offset(x, n) \in Nat /\ Offset(x, n + 1) \in Nat /\ Offset(x, n + 1) + 2 <= E
            BY <2>5, <3>2, PlaceFacts
          <6>2. q = p \/ q = p + 1 + Offset(x, n)
            BY DEF Place
          <6> HIDE DEF q, E
          <6> QED BY <2>2, <6>1, <6>2
        <5>3. p + E - q - 1 <= m
          BY <2>5, <3>2
        <5> DEFINE a == Offset(x, n)
                   b == Offset(x, n + 1)
                   d == Len(Encode[v])
        <5>4. /\ a \in Nat /\ b \in Nat /\ d \in Nat
              /\ b = a + d /\ b + 2 <= E /\ q <= p + 1 + a
          BY <5>1, <5>2
        <5>5. d <= m
          <6> HIDE DEF a, b, d, q, E
          <6> QED BY <2>0, <2>2, <5>3, <5>4
        <5> QED BY <5>1, <5>5
      <4> HIDE DEF r, v, be
      <4>3. validate(Valid[m], r.item)
        BY <2>0, <4>1, <4>2, ItemValid
      <4>4. Valid[m].list[r.be] = TRUE
        BY <2>6, <2>8, <3>2, <4>1
      <4> QED BY <3>1, <3>2, <4>1, <4>3, <4>4 DEF validate_list, r, h
    <3>3. CASE ~(n < N)
      <4> HIDE DEF be
      <4> QED BY <3>1, <3>3 DEF validate_list
    <3> QED BY <3>2, <3>3
  <2> HIDE DEF be
  <2> QED BY <2>3, <2>7, <2>8 DEF be
<1>3. T = Nat
  <2> HIDE DEF T
  <2> QED BY <1>1, <1>2, NatSets DEF T
<1> QED BY <1>3

(* bencode_validate accepts a buffer that holds a value. *)
THEOREM ValidatesWritten ==
  ASSUME NEW x \in Value, text = Encode[x]
  PROVE  bencode_validate
<1>1. text \in Seq(Char) /\ Len(text) \in Nat
  BY EncodeTyped
<1>2. Holds(Encode[x], 1)
  BY <1>1 DEF Holds
<1>3. Accepts(Valid[Len(text)], Len(text))
  BY <1>1, ValidRead
<1>4. validate(Valid[Len(text)], bencode_init(1, Len(text)))
  BY <1>1, <1>2, <1>3, ItemValid
<1> QED BY <1>4 DEF bencode_validate
=============================================================================
