------------------------ MODULE FifoCrossing_proofs ------------------------
(***************************************************************************)
(* Proofs about FifoCrossing, for every depth and every set of data:       *)
(* FillNeverOverstated, and that the FIFO implements the bounded queue of  *)
(* FifoQueue (ImplementsQueue).                                            *)
(*                                                                         *)
(* The first half is about numbers and their codes: what division,         *)
(* remainders and halving do, that one step of a pointer changes one bit   *)
(* of its code, that codes can be told apart and decoded, and that the     *)
(* test of full_i means half a turn.  Facts about every bit of a word are  *)
(* proved by induction (lemma Induction, from the well-foundedness of Nat).*)
(* The second half gives each pointer a position on one line and follows   *)
(* the order in which the copies of the pointers stand on it.              *)
(***************************************************************************)
EXTENDS FifoCrossing, SequenceTheorems, WellFoundedInduction, TLAPS

-----------------------------------------------------------------------------
(* Induction over the natural numbers, and the powers of two defined by it.  *)

LEMMA Induction ==
  ASSUME NEW T \in SUBSET Nat, 0 \in T, \A n \in T : n + 1 \in T
  PROVE  T = Nat
<1> DEFINE R == OpToRel(<, Nat)
<1>1. \A x, y \in Nat : <<x, y>> \in R <=> x < y
  BY DEF OpToRel
<1>2. IsWellFoundedOn(R, Nat)
  BY NatLessThanWellFounded
<1> HIDE DEF R
<1>3. SUFFICES ASSUME Nat \ T # {} PROVE FALSE
  OBVIOUS
<1>4. PICK x \in Nat \ T : \A y \in Nat \ T : ~ (<<y, x>> \in R)
  BY <1>2, <1>3, WFMin
<1>5. x - 1 \in Nat /\ x - 1 < x /\ x = (x-1) + 1
  BY <1>4
<1> QED BY <1>4, <1>5, <1>1

LEMMA PowDef == Pow2 = [n \in Nat |-> IF n = 0 THEN 1 ELSE 2 * Pow2[n - 1]]
<1> DEFINE Good(n, g) == g \in [0 .. n -> Nat] /\ g[0] = 1 /\ \A i \in 1 .. n : g[i] = 2 * g[i - 1]
           Built == {n \in Nat : \E g : Good(n, g)}
<1>1. 0 \in Built
  <2>1. Good(0, [i \in 0 .. 0 |-> 1])
    OBVIOUS
  <2> QED BY <2>1
<1>2. ASSUME NEW n \in Built PROVE n + 1 \in Built
  <2>1. PICK g : Good(n, g)
    OBVIOUS
  <2> DEFINE h == [i \in 0 .. n + 1 |-> IF i <= n THEN g[i] ELSE 2 * g[n]]
  <2>2. h \in [0 .. n + 1 -> Nat]
    BY <2>1
  <2>3. \A i \in 1 .. n + 1 : h[i] = 2 * h[i - 1]
    BY <2>1
  <2>4. Good(n + 1, h)
    BY <2>1, <2>2, <2>3
  <2> HIDE DEF Good
  <2> QED BY <2>4
<1>3. Built = Nat
  <2> HIDE DEF Built
  <2>0. Built \subseteq Nat
    BY DEF Built
  <2> QED BY <1>1, <1>2, <2>0, Induction
<1>4. ASSUME NEW n \in Nat, NEW g, NEW h, Good(n, g), Good(n + 1, h)
      PROVE  \A i \in 0 .. n : g[i] = h[i]
  <2> DEFINE Same == {i \in Nat : i <= n => g[i] = h[i]}
  <2>1. 0 \in Same
    BY <1>4
  <2>2. ASSUME NEW i \in Same PROVE i + 1 \in Same
    <3> SUFFICES ASSUME i + 1 <= n PROVE g[i + 1] = h[i + 1]
      OBVIOUS
    <3> DEFINE j == i + 1
    <3>4. j \in 1 .. n /\ j \in 1 .. n + 1 /\ j - 1 = i
      OBVIOUS
    <3> HIDE DEF j
    <3>5. g[j] = 2 * g[j - 1] /\ h[j] = 2 * h[j - 1]
      BY <1>4, <3>4
    <3>3. g[i + 1] = 2 * g[i] /\ h[i + 1] = 2 * h[i]
      BY <3>4, <3>5 DEF j
    <3>2. g[i] = h[i]
      OBVIOUS
    <3> QED BY <3>2, <3>3
  <2>3. Same = Nat
    <3> HIDE DEF Same
    <3>0. Same \subseteq Nat
      BY DEF Same
    <3> QED BY <2>1, <2>2, <3>0, Induction
  <2> QED BY <2>3
<1> DEFINE G(n) == CHOOSE g : Good(n, g)
           P == [n \in Nat |-> G(n)[n]]
<1>5. \A n \in Nat : Good(n, G(n))
  BY <1>3
<1> HIDE DEF G
<1>6. P[0] = 1
  BY <1>5
<1>7. ASSUME NEW n \in Nat, n # 0 PROVE P[n] = 2 * P[n - 1]
  <2>1. G(n)[n] = 2 * G(n)[n - 1]
    BY <1>5, <1>7
  <2>2. n - 1 \in Nat /\ n - 1 + 1 = n
    BY <1>7
  <2>3. G(n)[n - 1] = G(n - 1)[n - 1]
    <3> HIDE DEF Good
    <3>1. Good(n - 1, G(n - 1)) /\ Good((n - 1) + 1, G(n))
      BY <2>2, <1>5
    <3>2. n - 1 \in 0 .. n - 1
      BY <2>2
    <3> QED BY <3>1, <3>2, <2>2, <1>4
  <2> QED BY <2>1, <2>2, <2>3
<1>8. P = [n \in Nat |-> IF n = 0 THEN 1 ELSE 2 * P[n - 1]]
  BY <1>6, <1>7
<1> HIDE DEF P
<1> QED BY <1>8 DEF Pow2

LEMMA PowSteps ==
  /\ Pow2[0] = 1
  /\ \A n \in Nat : Pow2[n] \in Nat \ {0} /\ Pow2[n + 1] = 2 * Pow2[n]
<1>1. Pow2[0] = 1
  BY PowDef
<1>2. \A n \in Nat : Pow2[n + 1] = 2 * Pow2[n]
  BY PowDef
<1> DEFINE T == {n \in Nat : Pow2[n] \in Nat \ {0}}
<1>3. 0 \in T
  BY <1>1
<1>4. \A n \in T : n + 1 \in T
  BY <1>2
<1>5. T = Nat
  <2>1. T \subseteq Nat
    OBVIOUS
  <2> HIDE DEF T
  <2> QED BY <2>1, <1>3, <1>4, Induction
<1> QED BY <1>1, <1>2, <1>5

LEMMA Division ==
  ASSUME NEW b \in Nat, NEW p \in Nat \ {0}
  PROVE  /\ b \div p \in Nat /\ b % p \in 0 .. p - 1
         /\ b = p * (b \div p) + (b % p)
  OBVIOUS

LEMMA Quotient ==
  ASSUME NEW b \in Nat, NEW p \in Nat \ {0}, NEW q \in Nat, NEW r \in 0 .. p - 1, b = p * q + r
  PROVE  b \div p = q /\ b % p = r
  OBVIOUS

LEMMA Halving ==
  ASSUME NEW b \in Nat, NEW p \in Nat \ {0}
  PROVE  b \div (2 * p) = (b \div p) \div 2
<1> DEFINE q == b \div p
           r == b % p
           s == q \div 2
           t == q % 2
<1>1. q \in Nat /\ r \in 0 .. p - 1 /\ b = p * q + r
  BY Division
<1>2. s \in Nat /\ t \in 0 .. 1 /\ q = 2 * s + t
  BY <1>1
<1> HIDE DEF q, r, s, t
<1>3. p * q = p * (2 * s) + p * t
  BY <1>1, <1>2
<1>4. p * (2 * s) = (2 * p) * s
  BY <1>1, <1>2
<1>5. p * t \in {0, p}
  BY <1>2
<1>6. p * t + r \in 0 .. 2 * p - 1
  BY <1>1, <1>5
<1>7. b = (2 * p) * s + (p * t + r)
  <2>1. p * t \in Nat /\ (2 * p) * s \in Nat /\ p * q \in Nat
    BY <1>1, <1>2
  <2> QED BY <1>1, <1>3, <1>4, <2>1
<1>8. b \div (2 * p) = s
  BY <1>2, <1>6, <1>7, Quotient
<1> QED BY <1>8 DEF q, s

-----------------------------------------------------------------------------
(* Remainders. *)

LEMMA AddThenMod ==
  ASSUME NEW x \in Nat, NEW k \in Nat, NEW m \in Nat \ {0}
  PROVE  ((x % m) + k) % m = (x + k) % m
<1> DEFINE q == x \div m
           r == x % m
           s == (r + k) \div m
           t == (r + k) % m
<1>1. q \in Nat /\ r \in 0 .. m - 1 /\ x = m * q + r
  BY Division
<1>2. s \in Nat /\ t \in 0 .. m - 1 /\ r + k = m * s + t
  <2>1. r + k \in Nat
    BY <1>1
  <2> HIDE DEF r
  <2> QED BY <2>1, Division
<1> HIDE DEF q, r, s, t
<1>3. m * (q + s) = m * q + m * s /\ q + s \in Nat /\ m * q \in Nat /\ m * s \in Nat
  BY <1>1, <1>2
<1>4. x + k = m * (q + s) + t /\ x + k \in Nat
  BY <1>1, <1>2, <1>3
<1>5. (x + k) % m = t
  BY <1>2, <1>3, <1>4, Quotient
<1> QED BY <1>5 DEF r, t

LEMMA ModOfDouble ==
  ASSUME NEW x \in Nat, NEW m \in Nat \ {0}
  PROVE  (x % (2 * m)) % m = x % m
<1> DEFINE q == x \div (2 * m)
           r == x % (2 * m)
           s == r \div m
           t == r % m
<1>1. q \in Nat /\ r \in 0 .. 2 * m - 1 /\ x = (2 * m) * q + r
  <2>1. 2 * m \in Nat \ {0}
    OBVIOUS
  <2> QED BY <2>1, Division
<1>2. s \in Nat /\ t \in 0 .. m - 1 /\ r = m * s + t
  <2>1. r \in Nat
    BY <1>1
  <2> HIDE DEF r
  <2> QED BY <2>1, Division
<1> HIDE DEF q, r, s, t
<1>3. (2 * m) * q = m * (2 * q) /\ m * (2 * q + s) = m * (2 * q) + m * s
  BY <1>1, <1>2
<1>4. 2 * q + s \in Nat /\ m * (2 * q) \in Nat /\ m * s \in Nat
  BY <1>1, <1>2
<1>5. x = m * (2 * q + s) + t
  BY <1>1, <1>2, <1>3, <1>4
<1>6. x % m = t
  BY <1>2, <1>4, <1>5, Quotient
<1> QED BY <1>6 DEF r, t

LEMMA SmallMod ==
  ASSUME NEW m \in Nat \ {0}, NEW x \in 0 .. 2 * m - 1
  PROVE  x % m = IF x < m THEN x ELSE x - m
<1>1. CASE x < m
  <2>1. x = m * 0 + x /\ x \in 0 .. m - 1
    BY <1>1
  <2>2. x % m = x
    BY <2>1, Quotient
  <2> QED BY <1>1, <2>2
<1>2. CASE ~ (x < m)
  <2>1. x = m * 1 + (x - m) /\ x - m \in 0 .. m - 1
    BY <1>2
  <2>2. x % m = x - m
    BY <2>1, Quotient
  <2> QED BY <1>2, <2>2
<1> QED BY <1>1, <1>2

(* The remainders of numbers less than m apart give their distance. *)
LEMMA NearMod ==
  ASSUME NEW x \in Nat, NEW k \in Nat, NEW m \in Nat \ {0}, k < m
  PROVE  (((x + k) % m) + m - (x % m)) % m = k
<1> DEFINE r == x % m
<1>1. r \in 0 .. m - 1
  BY Division
<1>2. (x + k) % m = (r + k) % m
  BY AddThenMod
<1> HIDE DEF r
<1>3. (r + k) % m = IF r + k < m THEN r + k ELSE r + k - m
  <2> DEFINE sum == r + k
  <2>1. sum \in 0 .. 2 * m - 1
    BY <1>1
  <2> HIDE DEF sum
  <2>2. sum % m = IF sum < m THEN sum ELSE sum - m
    BY <2>1, SmallMod
  <2> QED BY <1>1, <2>2 DEF sum
<1>4. ((r + k) % m) + m - r = IF r + k < m THEN m + k ELSE k
  BY <1>1, <1>3
<1>5. (((r + k) % m) + m - r) % m = k
  <2>1. m + k \in 0 .. 2 * m - 1 /\ k \in 0 .. 2 * m - 1
    OBVIOUS
  <2>2. (m + k) % m = k /\ k % m = k
    BY <2>1, SmallMod
  <2> QED BY <1>4, <2>2
<1> QED BY <1>2, <1>5 DEF r

LEMMA NearSame ==
  ASSUME NEW x \in Nat, NEW k \in Nat, NEW m \in Nat \ {0}, k < m, (x + k) % m = x % m
  PROVE  k = 0
<1>1. (((x + k) % m) + m - (x % m)) % m = k
  BY NearMod
<1>2. x % m \in 0 .. m - 1
  BY Division
<1>3. ((x + k) % m) + m - (x % m) = m
  BY <1>2
<1>4. m = m * 1 + 0 /\ 0 \in 0 .. m - 1
  OBVIOUS
<1>5. m % m = 0
  BY <1>4, Quotient
<1> QED BY <1>1, <1>3, <1>5

-----------------------------------------------------------------------------
(* Words: the bits of a number are found by halving it. *)

Shift(b, i) == b \div Pow2[i]

LEMMA ShiftSteps ==
  ASSUME NEW b \in Nat
  PROVE  /\ Shift(b, 0) = b
         /\ \A i \in Nat : /\ Shift(b, i) \in Nat /\ BitOf(b, i) \in {0, 1}
                           /\ Shift(b, i) = 2 * Shift(b, i + 1) + BitOf(b, i)
<1>1. Shift(b, 0) = b
  BY PowSteps DEF Shift
<1>2. ASSUME NEW i \in Nat
      PROVE  /\ Shift(b, i) \in Nat /\ BitOf(b, i) \in {0, 1}
             /\ Shift(b, i) = 2 * Shift(b, i + 1) + BitOf(b, i)
  <2> DEFINE p == Pow2[i]
  <2>1. p \in Nat \ {0} /\ Pow2[i + 1] = 2 * p
    BY PowSteps
  <2> HIDE DEF p
  <2>2. b \div p \in Nat
    BY <2>1, Division
  <2>3. b \div (2 * p) = (b \div p) \div 2
    BY <2>1, Halving
  <2>4. Shift(b, i) = b \div p /\ Shift(b, i + 1) = b \div (2 * p) /\ BitOf(b, i) = (b \div p) % 2
    BY <2>1 DEF Shift, BitOf, p
  <2> HIDE DEF Shift, BitOf
  <2> QED BY <2>2, <2>3, <2>4
<1> QED BY <1>1, <1>2

LEMMA ShiftOut ==
  ASSUME NEW n \in Nat, NEW b \in 0 .. Pow2[n] - 1
  PROVE  Shift(b, n) = 0
<1> DEFINE p == Pow2[n]
<1>1. p \in Nat \ {0}
  BY PowSteps
<1>2. b \in 0 .. p - 1 /\ b = p * 0 + b
  BY <1>1
<1> HIDE DEF p
<1>3. b \div p = 0
  BY <1>1, <1>2, Quotient
<1> QED BY <1>3 DEF Shift, p

(* A number below 2^n is its n bits. *)
LEMMA BitsDecide ==
  ASSUME NEW n \in Nat, NEW a \in 0 .. Pow2[n] - 1, NEW b \in 0 .. Pow2[n] - 1,
         \A i \in 0 .. n - 1 : BitOf(a, i) = BitOf(b, i)
  PROVE  a = b
<1> DEFINE T == {k \in Nat : k <= n => Shift(a, n - k) = Shift(b, n - k)}
<1>0. a \in Nat /\ b \in Nat
  BY PowSteps
<1>1. 0 \in T
  BY ShiftOut
<1>2. ASSUME NEW k \in T PROVE k + 1 \in T
  <2> SUFFICES ASSUME k + 1 <= n PROVE Shift(a, n - (k + 1)) = Shift(b, n - (k + 1))
    OBVIOUS
  <2> DEFINE j == n - (k + 1)
  <2>1. j \in 0 .. n - 1 /\ j + 1 = n - k
    OBVIOUS
  <2>2. Shift(a, j + 1) = Shift(b, j + 1)
    BY <2>1
  <2> HIDE DEF j
  <2>3. Shift(a, j) = 2 * Shift(a, j + 1) + BitOf(a, j)
    BY <1>0, <2>1, ShiftSteps
  <2>4. Shift(b, j) = 2 * Shift(b, j + 1) + BitOf(b, j)
    BY <1>0, <2>1, ShiftSteps
  <2>5. Shift(a, j) = Shift(b, j)
    BY <2>1, <2>2, <2>3, <2>4
  <2> QED BY <2>5 DEF j
<1>3. n \in T
  <2>1. T \subseteq Nat
    OBVIOUS
  <2> HIDE DEF T
  <2> QED BY <1>1, <1>2, <2>1, Induction
<1>4. Shift(a, 0) = Shift(b, 0)
  BY <1>3
<1> QED BY <1>0, <1>4, ShiftSteps

(* The numbers from 0 to 2^(n + 1) - 1 are those of n + 1 bits, and their     *)
(* codes decide them: from the top bit down.                                 *)
GrayBit(b, i) == (BitOf(b, i) + BitOf(b, i + 1)) % 2

LEMMA CodeDecides ==
  ASSUME NEW n \in Nat, NEW a \in 0 .. Pow2[n] - 1, NEW b \in 0 .. Pow2[n] - 1,
         \A i \in 0 .. n - 1 : GrayBit(a, i) = GrayBit(b, i)
  PROVE  a = b
<1> DEFINE T == {k \in Nat : k <= n => BitOf(a, n - k) = BitOf(b, n - k)}
<1>0. a \in Nat /\ b \in Nat
  BY PowSteps
<1>1. 0 \in T
  <2>1. Shift(a, n) = 0 /\ Shift(b, n) = 0
    BY ShiftOut
  <2>2. BitOf(a, n) = BitOf(b, n)
    BY <2>1 DEF BitOf, Shift
  <2> QED BY <2>2
<1>2. ASSUME NEW k \in T PROVE k + 1 \in T
  <2> SUFFICES ASSUME k + 1 <= n PROVE BitOf(a, n - (k + 1)) = BitOf(b, n - (k + 1))
    OBVIOUS
  <2> DEFINE j == n - (k + 1)
  <2>1. j \in 0 .. n - 1 /\ j + 1 = n - k
    OBVIOUS
  <2>2. BitOf(a, j + 1) = BitOf(b, j + 1)
    BY <2>1
  <2> HIDE DEF j
  <2>3. /\ BitOf(a, j) \in {0, 1} /\ BitOf(b, j) \in {0, 1}
        /\ BitOf(a, j + 1) \in {0, 1} /\ BitOf(b, j + 1) \in {0, 1}
    <3>1. \A i \in Nat : BitOf(a, i) \in {0, 1} /\ BitOf(b, i) \in {0, 1}
      BY <1>0, ShiftSteps
    <3>2. j \in Nat /\ j + 1 \in Nat
      BY <2>1
    <3> HIDE DEF BitOf
    <3> QED BY <3>1, <3>2
  <2>4. (BitOf(a, j) + BitOf(a, j + 1)) % 2 = (BitOf(b, j) + BitOf(b, j + 1)) % 2
    BY <2>1 DEF GrayBit
  <2> HIDE DEF BitOf
  <2>5. BitOf(a, j) = BitOf(b, j)
    BY <2>2, <2>3, <2>4
  <2> QED BY <2>5 DEF j
<1>3. T = Nat
  <2>1. T \subseteq Nat
    OBVIOUS
  <2> HIDE DEF T
  <2> QED BY <1>1, <1>2, <2>1, Induction
<1>4. ASSUME NEW i \in 0 .. n - 1 PROVE BitOf(a, i) = BitOf(b, i)
  <2>1. n - i \in Nat /\ n - i <= n /\ n - (n - i) = i
    OBVIOUS
  <2>2. n - i \in T
    <3> HIDE DEF T
    <3> QED BY <1>3, <2>1
  <2> QED BY <2>1, <2>2
<1> QED BY <1>4, BitsDecide

-----------------------------------------------------------------------------
(* Gray codes. *)

LEMMA ShiftAt ==
  ASSUME NEW b \in Nat, NEW i \in Nat
  PROVE  /\ Shift(b, i) \in Nat /\ Shift(b, i + 1) \in Nat
         /\ BitOf(b, i) \in {0, 1} /\ BitOf(b, i + 1) \in {0, 1}
         /\ Shift(b, i) = 2 * Shift(b, i + 1) + BitOf(b, i)
<1>1. i + 1 \in Nat
  OBVIOUS
<1>2. \A j \in Nat : /\ Shift(b, j) \in Nat /\ BitOf(b, j) \in {0, 1}
                     /\ Shift(b, j) = 2 * Shift(b, j + 1) + BitOf(b, j)
  BY ShiftSteps
<1> HIDE DEF Shift, BitOf
<1> QED BY <1>1, <1>2

LEMMA GrayBits ==
  ASSUME NEW b \in Nat, NEW i \in Nat
  PROVE  GrayBit(b, i) \in {0, 1}
<1>1. BitOf(b, i) \in {0, 1} /\ BitOf(b, i + 1) \in {0, 1}
  BY ShiftAt
<1> HIDE DEF BitOf
<1> QED BY <1>1 DEF GrayBit

(* Adding 1 carries up to some bit and no further ... *)
Carries(b, c, i) ==
  /\ Shift(c, i) = Shift(b, i) + 1
  /\ \/ BitOf(c, i) = 1 /\ BitOf(b, i) = 0 /\ Shift(c, i + 1) = Shift(b, i + 1)
     \/ BitOf(c, i) = 0 /\ BitOf(b, i) = 1 /\ Shift(c, i + 1) = Shift(b, i + 1) + 1

Rests(b, c, i) ==
  /\ Shift(c, i) = Shift(b, i) /\ Shift(c, i + 1) = Shift(b, i + 1)
  /\ BitOf(c, i) = BitOf(b, i)

LEMMA CarryStep ==
  ASSUME NEW b \in Nat, NEW c \in Nat, NEW i \in Nat, Shift(c, i) \in {Shift(b, i), Shift(b, i) + 1}
  PROVE  Carries(b, c, i) \/ Rests(b, c, i)
<1>1. /\ Shift(b, i) \in Nat /\ Shift(b, i + 1) \in Nat /\ BitOf(b, i) \in {0, 1}
      /\ Shift(b, i) = 2 * Shift(b, i + 1) + BitOf(b, i)
  BY ShiftAt
<1>2. /\ Shift(c, i) \in Nat /\ Shift(c, i + 1) \in Nat /\ BitOf(c, i) \in {0, 1}
      /\ Shift(c, i) = 2 * Shift(c, i + 1) + BitOf(c, i)
  BY ShiftAt
<1>3. CASE Shift(c, i) = Shift(b, i)
  BY <1>1, <1>2, <1>3 DEF Rests
<1>4. CASE Shift(c, i) = Shift(b, i) + 1
  <2>1. 2 * Shift(c, i + 1) + BitOf(c, i) = 2 * Shift(b, i + 1) + BitOf(b, i) + 1
    BY <1>1, <1>2, <1>4
  <2> HIDE DEF Shift, BitOf
  <2>2. CASE BitOf(b, i) = 0
    <3>1. BitOf(c, i) = 1 /\ Shift(c, i + 1) = Shift(b, i + 1)
      BY <1>1, <1>2, <2>1, <2>2
    <3> QED BY <1>4, <2>2, <3>1 DEF Carries
  <2>3. CASE BitOf(b, i) = 1
    <3>1. BitOf(c, i) = 0 /\ Shift(c, i + 1) = Shift(b, i + 1) + 1
      BY <1>1, <1>2, <2>1, <2>3
    <3> QED BY <1>4, <2>3, <3>1 DEF Carries
  <2> QED BY <1>1, <2>2, <2>3
<1> QED BY <1>3, <1>4

LEMMA Carry ==
  ASSUME NEW b \in Nat, NEW c \in Nat, c = b + 1, NEW i \in Nat
  PROVE  Carries(b, c, i) \/ Rests(b, c, i)
<1> DEFINE T == {k \in Nat : Shift(c, k) \in {Shift(b, k), Shift(b, k) + 1}}
<1>1. 0 \in T
  BY ShiftSteps
<1>2. ASSUME NEW k \in T PROVE k + 1 \in T
  BY CarryStep DEF Carries, Rests
<1>3. T = Nat
  <2>1. T \subseteq Nat
    OBVIOUS
  <2> HIDE DEF T
  <2> QED BY <1>1, <1>2, <2>1, Induction
<1>4. Shift(c, i) \in {Shift(b, i), Shift(b, i) + 1}
  <2>1. i \in T
    BY <1>3
  <2> QED BY <2>1
<1> QED BY <1>4, CarryStep

(* ... and the code changes in that one bit. *)
LEMMA OneBitUp ==
  ASSUME NEW n \in Nat, NEW b \in Nat, NEW c \in Nat, c = b + 1, c < Pow2[n]
  PROVE  \E k \in 0 .. n - 1 : \A i \in 0 .. n - 1 : i # k => GrayBit(c, i) = GrayBit(b, i)
<1> DEFINE T == {k \in Nat : Shift(c, k) = Shift(b, k) + 1}
           Done == {k \in Nat : k \in T \/ \E j \in 0 .. k - 1 : j \in T /\ j + 1 \notin T}
<1>0. \A k \in Nat : Shift(b, k) \in Nat /\ Shift(c, k) \in Nat
  BY ShiftAt
<1>1. 0 \in T
  BY <1>0, ShiftSteps
<1>2. n \notin T
  <2>1. b \in 0 .. Pow2[n] - 1 /\ c \in 0 .. Pow2[n] - 1
    BY PowSteps
  <2>2. Shift(b, n) = 0 /\ Shift(c, n) = 0
    BY <2>1, ShiftOut
  <2> QED BY <2>2
<1>3. n \in Done
  <2>1. Done = Nat
    <3>1. 0 \in Done
      BY <1>1
    <3>2. ASSUME NEW k \in Done PROVE k + 1 \in Done
      <4> HIDE DEF T
      <4> QED OBVIOUS
    <3>3. Done \subseteq Nat
      OBVIOUS
    <3> HIDE DEF Done
    <3> QED BY <3>1, <3>2, <3>3, Induction
  <2> HIDE DEF Done
  <2> QED BY <2>1
<1>4. PICK k \in 0 .. n - 1 : k \in T /\ k + 1 \notin T
  BY <1>2, <1>3
<1>5. ASSUME NEW i \in 0 .. n - 1, i # k PROVE GrayBit(c, i) = GrayBit(b, i)
  <2>1. CASE i < k
    <3>1. \A j \in Nat : j <= k => k - j \in T
      <4> DEFINE Down == {j \in Nat : j <= k => k - j \in T}
      <4>1. 0 \in Down
        BY <1>4
      <4>2. ASSUME NEW j \in Down PROVE j + 1 \in Down
        <5> SUFFICES ASSUME j + 1 <= k PROVE k - (j + 1) \in T
          OBVIOUS
        <5> DEFINE m == k - (j + 1)
        <5>1. m \in Nat /\ m + 1 = k - j
          OBVIOUS
        <5>2. m + 1 \in T
          BY <5>1
        <5> HIDE DEF m
        <5>3. Shift(c, m + 1) = Shift(b, m + 1) + 1 /\ Shift(b, m + 1) \in Nat
          BY <1>0, <5>1, <5>2
        <5>4. Shift(c, m) = Shift(b, m) + 1
          BY <1>0, <5>1, <5>3, Carry DEF Carries, Rests
        <5>5. m \in T
          BY <5>1, <5>4
        <5> QED BY <5>5 DEF m
      <4>3. Down = Nat
        <5>1. Down \subseteq Nat
          OBVIOUS
        <5> HIDE DEF Down
        <5> QED BY <4>1, <4>2, <5>1, Induction
      <4> QED BY <4>3
    <3>2. \A j \in 0 .. k : j \in T
      <4> SUFFICES ASSUME NEW j \in 0 .. k PROVE j \in T
        OBVIOUS
      <4>1. k - j \in Nat /\ k - j <= k /\ k - (k - j) = j
        OBVIOUS
      <4> HIDE DEF T
      <4> QED BY <3>1, <4>1
    <3>3. i \in Nat /\ i + 1 \in Nat /\ i + 2 \in Nat /\ i \in T /\ i + 1 \in T
      BY <2>1, <3>2
    <3>4. /\ Shift(c, i) = Shift(b, i) + 1 /\ Shift(b, i) \in Nat
          /\ Shift(c, i + 1) = Shift(b, i + 1) + 1 /\ Shift(b, i + 1) \in Nat
      BY <1>0, <3>3
    <3>5. Carries(b, c, i) /\ Carries(b, c, i + 1)
      <4>1. Carries(b, c, i) \/ Rests(b, c, i)
        BY <3>3, Carry
      <4>2. Carries(b, c, i + 1) \/ Rests(b, c, i + 1)
        BY <3>3, Carry
      <4> QED BY <3>4, <4>1, <4>2 DEF Rests
    <3>6. BitOf(c, i) = 0 /\ BitOf(b, i) = 1
      BY <3>4, <3>5 DEF Carries
    <3>7. \/ BitOf(c, i + 1) = 0 /\ BitOf(b, i + 1) = 1
          \/ BitOf(c, i + 1) = 1 /\ BitOf(b, i + 1) = 0
      BY <3>5 DEF Carries
    <3> HIDE DEF BitOf
    <3> QED BY <3>6, <3>7 DEF GrayBit
  <2>2. CASE i > k
    <3>1. \A j \in Nat : Shift(c, k + 1 + j) = Shift(b, k + 1 + j)
      <4> DEFINE Up == {j \in Nat : Shift(c, k + 1 + j) = Shift(b, k + 1 + j)}
      <4>1. 0 \in Up
        BY <1>0, <1>4, Carry DEF Carries, Rests
      <4>2. ASSUME NEW j \in Up PROVE j + 1 \in Up
        <5> DEFINE m == k + 1 + j
        <5>1. m \in Nat /\ m + 1 = k + 1 + (j + 1) /\ Shift(c, m) = Shift(b, m)
          OBVIOUS
        <5> HIDE DEF m
        <5>2. Shift(c, m + 1) = Shift(b, m + 1)
          BY <1>0, <5>1, Carry DEF Carries, Rests
        <5> QED BY <5>1, <5>2
      <4>3. Up = Nat
        <5>1. Up \subseteq Nat
          OBVIOUS
        <5> HIDE DEF Up
        <5> QED BY <4>1, <4>2, <5>1, Induction
      <4> QED BY <4>3
    <3>2. \A j \in Nat : j > k => Shift(c, j) = Shift(b, j)
      <4> SUFFICES ASSUME NEW j \in Nat, j > k PROVE Shift(c, j) = Shift(b, j)
        OBVIOUS
      <4>1. j - (k + 1) \in Nat /\ k + 1 + (j - (k + 1)) = j
        OBVIOUS
      <4> QED BY <3>1, <4>1
    <3>3. BitOf(c, i) = BitOf(b, i) /\ BitOf(c, i + 1) = BitOf(b, i + 1)
      <4>1. Shift(c, i) = Shift(b, i) /\ Shift(c, i + 1) = Shift(b, i + 1)
        BY <2>2, <3>2
      <4> QED BY <4>1 DEF BitOf, Shift
    <3> QED BY <3>3 DEF GrayBit
  <2> QED BY <2>1, <2>2, <1>5
<1> QED BY <1>5

LEMMA ZeroBits ==
  ASSUME NEW i \in Nat
  PROVE  Shift(0, i) = 0 /\ BitOf(0, i) = 0
<1> DEFINE p == Pow2[i]
<1>1. p \in Nat \ {0}
  BY PowSteps
<1> HIDE DEF p
<1>2. 0 = p * 0 + 0 /\ 0 \in 0 .. p - 1
  BY <1>1
<1>3. 0 \div p = 0
  BY <1>1, <1>2, Quotient
<1>4. Shift(0, i) = 0
  BY <1>3 DEF Shift, p
<1> QED BY <1>4 DEF Shift, BitOf

LEMMA TopBit ==
  ASSUME NEW n \in Nat, NEW b \in 0 .. Pow2[n] - 1
  PROVE  BitOf(b, n) = 0
<1>1. Shift(b, n) = 0
  BY ShiftOut
<1> QED BY <1>1 DEF BitOf, Shift

LEMMA PowPred ==
  ASSUME NEW n \in Nat, NEW j \in 0 .. n - 1
  PROVE  /\ Pow2[n - j] = 2 * Pow2[n - (j + 1)]
         /\ Pow2[n - j] \in Nat /\ Pow2[n - (j + 1)] \in Nat
<1> DEFINE k == n - (j + 1)
<1>1. k \in Nat /\ k + 1 = n - j
  OBVIOUS
<1> HIDE DEF k
<1>2. Pow2[k + 1] = 2 * Pow2[k] /\ Pow2[k] \in Nat
  BY <1>1, PowSteps
<1> QED BY <1>1, <1>2 DEF k

(* 2^n - 1 is all ones, and its code differs from that of 0 in the top bit.  *)
LEMMA AllOnes ==
  ASSUME NEW n \in Nat, NEW b \in Nat, b + 1 = Pow2[n], NEW i \in 0 .. n - 1
  PROVE  BitOf(b, i) = 1
<1> DEFINE T == {j \in Nat : j <= n => Shift(b, j) + 1 = Pow2[n - j]}
<1>1. ASSUME NEW j \in 0 .. n - 1, Shift(b, j) + 1 = Pow2[n - j]
      PROVE  Shift(b, j + 1) + 1 = Pow2[n - (j + 1)] /\ BitOf(b, j) = 1
  <2>0. j \in Nat
    OBVIOUS
  <2>1. /\ Shift(b, j) \in Nat /\ Shift(b, j + 1) \in Nat /\ BitOf(b, j) \in {0, 1}
        /\ Shift(b, j) = 2 * Shift(b, j + 1) + BitOf(b, j)
    BY <2>0, ShiftAt
  <2>2. /\ Pow2[n - j] = 2 * Pow2[n - (j + 1)]
        /\ Pow2[n - j] \in Nat /\ Pow2[n - (j + 1)] \in Nat
    BY PowPred
  <2> HIDE DEF Shift, BitOf
  <2> QED BY <1>1, <2>1, <2>2
<1>2. 0 \in T
  BY ShiftSteps
<1>3. ASSUME NEW j \in T PROVE j + 1 \in T
  <2> SUFFICES ASSUME j + 1 <= n PROVE Shift(b, j + 1) + 1 = Pow2[n - (j + 1)]
    OBVIOUS
  <2>1. j \in 0 .. n - 1 /\ Shift(b, j) + 1 = Pow2[n - j]
    OBVIOUS
  <2> HIDE DEF T
  <2> QED BY <1>1, <2>1
<1>4. T = Nat
  <2>1. T \subseteq Nat
    OBVIOUS
  <2> HIDE DEF T
  <2> QED BY <1>2, <1>3, <2>1, Induction
<1>5. Shift(b, i) + 1 = Pow2[n - i]
  <2>1. i \in T
    BY <1>4
  <2> QED BY <2>1
<1> QED BY <1>1, <1>5

LEMMA OneBitWrap ==
  ASSUME NEW n \in Nat, NEW b \in Nat, b + 1 = Pow2[n], NEW i \in 0 .. n - 1, i # n - 1
  PROVE  GrayBit(b, i) = GrayBit(0, i)
<1>1. BitOf(b, i) = 1 /\ BitOf(b, i + 1) = 1
  BY AllOnes
<1>2. BitOf(0, i) = 0 /\ BitOf(0, i + 1) = 0
  BY ZeroBits
<1> HIDE DEF BitOf
<1> QED BY <1>1, <1>2 DEF GrayBit

(* A number and the one 2^n further: the codes differ in the two top bits.   *)
LEMMA TopBits ==
  ASSUME NEW n \in Nat \ {0}, NEW b \in 0 .. Pow2[n] - 1, NEW c \in Nat, c = b + Pow2[n]
  PROVE  /\ GrayBit(c, n) # GrayBit(b, n) /\ GrayBit(c, n - 1) # GrayBit(b, n - 1)
         /\ \A i \in 0 .. n - 2 : GrayBit(c, i) = GrayBit(b, i)
<1> DEFINE T == {j \in Nat : j <= n => Shift(c, j) = Shift(b, j) + Pow2[n - j]}
<1>0. b \in Nat /\ \A j \in Nat : Pow2[j] \in Nat
  BY PowSteps
<1>1. ASSUME NEW j \in 0 .. n - 1, Shift(c, j) = Shift(b, j) + Pow2[n - j]
      PROVE  Shift(c, j + 1) = Shift(b, j + 1) + Pow2[n - (j + 1)] /\ BitOf(c, j) = BitOf(b, j)
  <2>0. j \in Nat
    OBVIOUS
  <2>1. /\ Shift(b, j) \in Nat /\ Shift(b, j + 1) \in Nat /\ BitOf(b, j) \in {0, 1}
        /\ Shift(b, j) = 2 * Shift(b, j + 1) + BitOf(b, j)
    BY <1>0, <2>0, ShiftAt
  <2>2. /\ Shift(c, j) \in Nat /\ Shift(c, j + 1) \in Nat /\ BitOf(c, j) \in {0, 1}
        /\ Shift(c, j) = 2 * Shift(c, j + 1) + BitOf(c, j)
    BY <2>0, ShiftAt
  <2>3. /\ Pow2[n - j] = 2 * Pow2[n - (j + 1)]
        /\ Pow2[n - j] \in Nat /\ Pow2[n - (j + 1)] \in Nat
    BY PowPred
  <2> HIDE DEF Shift, BitOf
  <2> QED BY <1>1, <2>1, <2>2, <2>3
<1>2. 0 \in T
  <2>1. Shift(c, 0) = c /\ Shift(b, 0) = b /\ n - 0 = n
    BY <1>0, ShiftSteps
  <2> HIDE DEF Shift
  <2> QED BY <2>1
<1>3. ASSUME NEW j \in T PROVE j + 1 \in T
  <2> SUFFICES ASSUME j + 1 <= n PROVE Shift(c, j + 1) = Shift(b, j + 1) + Pow2[n - (j + 1)]
    OBVIOUS
  <2>1. j \in 0 .. n - 1 /\ Shift(c, j) = Shift(b, j) + Pow2[n - j]
    OBVIOUS
  <2> HIDE DEF T
  <2> QED BY <1>1, <2>1
<1>4. T = Nat
  <2>1. T \subseteq Nat
    OBVIOUS
  <2> HIDE DEF T
  <2> QED BY <1>2, <1>3, <2>1, Induction
<1>5. \A j \in 0 .. n : Shift(c, j) = Shift(b, j) + Pow2[n - j]
  <2> SUFFICES ASSUME NEW j \in 0 .. n PROVE Shift(c, j) = Shift(b, j) + Pow2[n - j]
    OBVIOUS
  <2>1. j \in T
    BY <1>4
  <2> QED BY <2>1
<1>6. \A j \in 0 .. n - 1 : BitOf(c, j) = BitOf(b, j)
  BY <1>1, <1>5
<1>7. BitOf(c, n) = 1 /\ BitOf(b, n) = 0
  <2>1. Shift(b, n) = 0
    BY ShiftOut
  <2>2. Shift(c, n) = Shift(b, n) + Pow2[n - n] /\ n - n = 0
    BY <1>5
  <2>3. Shift(c, n) = 1
    BY <2>1, <2>2, PowSteps
  <2> QED BY <2>1, <2>3 DEF BitOf, Shift
<1>8. BitOf(c, n + 1) = 0 /\ BitOf(b, n + 1) = 0
  <2>1. Pow2[n + 1] = 2 * Pow2[n]
    BY PowSteps
  <2>2. c \in 0 .. Pow2[n + 1] - 1 /\ b \in 0 .. Pow2[n + 1] - 1
    BY <1>0, <2>1
  <2> QED BY <2>2, TopBit
<1>9. GrayBit(c, n) # GrayBit(b, n)
  <2> HIDE DEF BitOf
  <2> QED BY <1>7, <1>8 DEF GrayBit
<1>10. GrayBit(c, n - 1) # GrayBit(b, n - 1)
  <2>1. n - 1 \in 0 .. n - 1 /\ n - 1 + 1 = n /\ n - 1 \in Nat
    OBVIOUS
  <2>2. BitOf(c, n - 1) = BitOf(b, n - 1) /\ BitOf(b, n - 1) \in {0, 1}
    BY <1>0, <1>6, <2>1, ShiftAt
  <2> HIDE DEF BitOf
  <2> QED BY <1>7, <2>1, <2>2 DEF GrayBit
<1>11. ASSUME NEW i \in 0 .. n - 2 PROVE GrayBit(c, i) = GrayBit(b, i)
  <2>1. BitOf(c, i) = BitOf(b, i) /\ BitOf(c, i + 1) = BitOf(b, i + 1)
    BY <1>6
  <2> QED BY <2>1 DEF GrayBit
<1> QED BY <1>9, <1>10, <1>11

-----------------------------------------------------------------------------
(* Pointers.  A pointer is the remainder of a position: of how many times    *)
(* its side has moved since some start.                                      *)

Code(x) == bin2gray(x % (2 * Depth))

LEMMA Sizes ==
  /\ AddrBits \in Nat /\ AddrBits + 1 \in Nat /\ Depth \in Nat \ {0}
  /\ 2 * Depth \in Nat \ {0} /\ Pow2[AddrBits + 1] = 2 * Depth
  /\ Pointer = 0 .. Pow2[AddrBits + 1] - 1 /\ Bit = 0 .. (AddrBits + 1) - 1
<1>1. AddrBits \in Nat /\ AddrBits + 1 \in Nat
  BY AddrAssumption
<1>2. Depth \in Nat \ {0} /\ Pow2[AddrBits + 1] = 2 * Depth
  BY <1>1, PowSteps DEF Depth
<1> QED BY <1>1, <1>2 DEF Pointer, Bit

LEMMA CodeAt ==
  ASSUME NEW p \in Pointer
  PROVE  /\ bin2gray(p) \in Gray
         /\ bin2gray(p) = [i \in Bit |-> GrayBit(p, i)]
<1>1. bin2gray(p) = [i \in Bit |-> GrayBit(p, i)]
  BY DEF bin2gray, GrayBit
<1>2. \A i \in Bit : GrayBit(p, i) \in {0, 1}
  BY Sizes, GrayBits
<1> QED BY <1>1, <1>2 DEF Gray

LEMMA CodesDiffer ==
  ASSUME NEW p \in Pointer, NEW q \in Pointer, bin2gray(p) = bin2gray(q)
  PROVE  p = q
<1>1. \A i \in 0 .. (AddrBits + 1) - 1 : GrayBit(p, i) = GrayBit(q, i)
  <2> SUFFICES ASSUME NEW i \in 0 .. (AddrBits + 1) - 1 PROVE GrayBit(p, i) = GrayBit(q, i)
    OBVIOUS
  <2>1. i \in Bit
    BY Sizes
  <2>2. bin2gray(p)[i] = GrayBit(p, i) /\ bin2gray(q)[i] = GrayBit(q, i)
    BY <2>1, CodeAt
  <2> QED BY <2>2
<1> QED BY <1>1, Sizes, CodeDecides

(* gray2bin undoes bin2gray. *)
LEMMA Decoded ==
  ASSUME NEW p \in Pointer
  PROVE  gray2bin(bin2gray(p)) = p
<1> DEFINE g == bin2gray(p)
           IsCoded(b) == \A i \in Bit : BitOf(b, i) = IF i = AddrBits THEN g[i] ELSE (BitOf(b, i + 1) + g[i]) % 2
<1>1. \A b \in Pointer : b \in Nat /\ BitOf(b, AddrBits + 1) = 0
  BY Sizes, TopBit
<1>2. \A i \in Bit : g[i] = GrayBit(p, i) /\ i \in Nat /\ AddrBits \in Nat
  BY CodeAt, Sizes
<1> HIDE DEF g
<1>3. IsCoded(p)
  <2> SUFFICES ASSUME NEW i \in Bit
               PROVE  BitOf(p, i) = IF i = AddrBits THEN g[i] ELSE (BitOf(p, i + 1) + g[i]) % 2
    OBVIOUS
  <2>1. BitOf(p, i) \in {0, 1} /\ BitOf(p, i + 1) \in {0, 1}
    BY <1>1, <1>2, ShiftAt
  <2>2. g[i] = (BitOf(p, i) + BitOf(p, i + 1)) % 2
    BY <1>2 DEF GrayBit
  <2>3. i = AddrBits => BitOf(p, i + 1) = 0
    BY <1>1
  <2> HIDE DEF BitOf
  <2> QED BY <2>1, <2>2, <2>3
<1>4. ASSUME NEW b \in Pointer, IsCoded(b) PROVE b = p
  <2>1. ASSUME NEW i \in Bit PROVE GrayBit(b, i) = GrayBit(p, i)
    <3>1. BitOf(b, i) \in {0, 1} /\ BitOf(b, i + 1) \in {0, 1}
      BY <1>1, <1>2, ShiftAt
    <3>2. GrayBit(p, i) \in {0, 1} /\ g[i] = GrayBit(p, i)
      BY <1>1, <1>2, GrayBits
    <3>3. i = AddrBits => BitOf(b, i + 1) = 0
      BY <1>1
    <3>4. BitOf(b, i) = IF i = AddrBits THEN g[i] ELSE (BitOf(b, i + 1) + g[i]) % 2
      BY <1>4
    <3>5. (BitOf(b, i) + BitOf(b, i + 1)) % 2 = g[i]
      <4> HIDE DEF BitOf
      <4> QED BY <3>1, <3>2, <3>3, <3>4
    <3> QED BY <3>2, <3>5 DEF GrayBit
  <2> QED BY <2>1, Sizes, CodeDecides
<1>5. gray2bin(g) = CHOOSE b \in Pointer : IsCoded(b)
  BY DEF gray2bin
<1> HIDE DEF IsCoded
<1>6. gray2bin(g) = p
  BY <1>3, <1>4, <1>5
<1> QED BY <1>6 DEF g

(* A step changes one bit of the code ... *)
LEMMA OneBit ==
  ASSUME NEW p \in Pointer
  PROVE  /\ NextPtr(p) \in Pointer
         /\ \E k \in Bit : \A i \in Bit : i # k => bin2gray(NextPtr(p))[i] = bin2gray(p)[i]
<1> DEFINE q == NextPtr(p)
           n == AddrBits + 1
<1>1. n \in Nat /\ p \in Nat /\ Pow2[n] \in Nat \ {0} /\ p < Pow2[n]
  BY Sizes
<1>2. q = IF p + 1 < Pow2[n] THEN p + 1 ELSE 0
  <2>1. p + 1 \in 0 .. 2 * Pow2[n] - 1
    BY <1>1
  <2>2. q = (p + 1) % Pow2[n]
    BY Sizes DEF NextPtr
  <2> DEFINE m == Pow2[n]
             x == p + 1
  <2> HIDE DEF m, x, n
  <2>3. x % m = IF x < m THEN x ELSE x - m
    BY <1>1, <2>1, SmallMod DEF m, x
  <2> QED BY <1>1, <2>2, <2>3 DEF m, x
<1>3. q \in Pointer /\ 0 \in Pointer
  BY <1>1, <1>2, Sizes
<1>4. \E k \in 0 .. n - 1 : \A i \in 0 .. n - 1 : i # k => GrayBit(q, i) = GrayBit(p, i)
  <2>1. CASE p + 1 < Pow2[n]
    <3>1. q = p + 1 /\ q \in Nat
      BY <1>1, <1>2, <2>1
    <3> HIDE DEF q, n
    <3> QED BY <1>1, <2>1, <3>1, OneBitUp
  <2>2. CASE ~ (p + 1 < Pow2[n])
    <3>1. p + 1 = Pow2[n] /\ q = 0
      BY <1>1, <1>2, <2>2
    <3>2. \A i \in 0 .. n - 1 : i # n - 1 => GrayBit(p, i) = GrayBit(0, i)
      <4> HIDE DEF n
      <4> QED BY <1>1, <3>1, OneBitWrap
    <3>3. n - 1 \in 0 .. n - 1
      BY Sizes
    <3> QED BY <3>1, <3>2, <3>3
  <2> QED BY <2>1, <2>2
<1>5. \A i \in Bit : bin2gray(q)[i] = GrayBit(q, i) /\ bin2gray(p)[i] = GrayBit(p, i)
  BY <1>3, CodeAt
<1>6. Bit = 0 .. n - 1
  BY Sizes
<1> HIDE DEF q, n
<1>7. \E k \in Bit : \A i \in Bit : i # k => bin2gray(q)[i] = bin2gray(p)[i]
  BY <1>4, <1>5, <1>6
<1> QED BY <1>3, <1>7 DEF q

(* ... so a flip-flop that samples it meanwhile catches the old code or the   *)
(* new.                                                                      *)
LEMMA CaughtWhole ==
  ASSUME NEW p \in Pointer, NEW g \in Caught(bin2gray(p), bin2gray(NextPtr(p)))
  PROVE  g = bin2gray(p) \/ g = bin2gray(NextPtr(p))
<1>1. PICK k \in Bit : \A i \in Bit : i # k => bin2gray(NextPtr(p))[i] = bin2gray(p)[i]
  BY OneBit
<1>2. bin2gray(p) \in Gray /\ bin2gray(NextPtr(p)) \in Gray
  BY OneBit, CodeAt
<1>3. g \in Gray /\ \A i \in Bit : g[i] \in {bin2gray(p)[i], bin2gray(NextPtr(p))[i]}
  BY DEF Caught
<1> HIDE DEF bin2gray, NextPtr
<1>4. CASE g[k] = bin2gray(p)[k]
  <2>1. \A i \in Bit : g[i] = bin2gray(p)[i]
    BY <1>1, <1>3, <1>4
  <2>2. g = bin2gray(p)
    BY <1>2, <1>3, <2>1 DEF Gray
  <2> QED BY <2>2
<1>5. CASE g[k] = bin2gray(NextPtr(p))[k]
  <2>1. \A i \in Bit : g[i] = bin2gray(NextPtr(p))[i]
    BY <1>1, <1>3, <1>5
  <2>2. g = bin2gray(NextPtr(p))
    BY <1>2, <1>3, <2>1 DEF Gray
  <2> QED BY <2>2
<1> QED BY <1>3, <1>4, <1>5

(* The test of the source for a full FIFO: half a turn ahead. *)
LEMMA FullMeans ==
  ASSUME NEW w \in Pointer, NEW r \in Pointer,
         wr_ptr_gray = bin2gray(w), rd_ptr_gray_wr_sync = bin2gray(r)
  PROVE  full_i <=> w = (r + Depth) % (2 * Depth)
<1> DEFINE h == (r + Depth) % (2 * Depth)
           Opposite(a, b) == /\ GrayBit(a, AddrBits) # GrayBit(b, AddrBits)
                             /\ GrayBit(a, AddrBits - 1) # GrayBit(b, AddrBits - 1)
                             /\ \A i \in 0 .. AddrBits - 2 : GrayBit(a, i) = GrayBit(b, i)
<1>0. r \in 0 .. 2 * Depth - 1 /\ Depth \in Nat \ {0} /\ Depth = Pow2[AddrBits]
  BY Sizes DEF Pointer, Depth
<1>1. h = IF r < Depth THEN r + Depth ELSE r - Depth
  <2> DEFINE m == 2 * Depth
             x == r + Depth
  <2>1. m \in Nat \ {0} /\ x \in 0 .. 2 * m - 1
    BY <1>0
  <2> HIDE DEF m, x
  <2>2. x % m = IF x < m THEN x ELSE x - m
    BY <2>1, SmallMod
  <2> QED BY <1>0, <2>2 DEF m, x
<1>2. h \in Pointer
  BY <1>0, <1>1 DEF Pointer
<1> HIDE DEF h
<1>3. Opposite(h, r)
  <2>1. CASE r < Depth
    <3>1. r \in 0 .. Pow2[AddrBits] - 1 /\ h = r + Pow2[AddrBits] /\ h \in Nat
      BY <1>0, <1>1, <2>1
    <3> QED BY <3>1, TopBits, AddrAssumption
  <2>2. CASE ~ (r < Depth)
    <3>1. h \in 0 .. Pow2[AddrBits] - 1 /\ r = h + Pow2[AddrBits] /\ r \in Nat
      BY <1>0, <1>1, <2>2
    <3>2. Opposite(r, h)
      BY <3>1, TopBits, AddrAssumption
    <3> QED BY <3>2
  <2> QED BY <2>1, <2>2
<1>4. full_i <=> Opposite(w, r)
  <2>1. /\ \A i \in Bit : wr_ptr_gray[i] = GrayBit(w, i) /\ rd_ptr_gray_wr_sync[i] = GrayBit(r, i)
        /\ AddrBits \in Bit /\ AddrBits - 1 \in Bit /\ \A i \in 0 .. AddrBits - 2 : i \in Bit
    BY CodeAt, AddrAssumption DEF Bit
  <2> HIDE DEF GrayBit
  <2> QED BY <2>1 DEF full_i
<1>5. ASSUME Opposite(w, r) PROVE w = h
  <2>1. \A i \in Bit : GrayBit(w, i) \in {0, 1} /\ GrayBit(h, i) \in {0, 1} /\ GrayBit(r, i) \in {0, 1}
    <3>1. w \in Nat /\ h \in Nat /\ r \in Nat /\ \A i \in Bit : i \in Nat
      BY <1>2, Sizes
    <3> QED BY <3>1, GrayBits
  <2>2. AddrBits \in Bit /\ AddrBits - 1 \in Bit /\ Bit = (0 .. AddrBits - 2) \cup {AddrBits - 1, AddrBits}
    BY AddrAssumption DEF Bit
  <2> HIDE DEF GrayBit
  <2>3. GrayBit(w, AddrBits) = GrayBit(h, AddrBits) /\ GrayBit(w, AddrBits - 1) = GrayBit(h, AddrBits - 1)
    BY <1>3, <1>5, <2>1, <2>2
  <2>4. \A i \in Bit : GrayBit(w, i) = GrayBit(h, i)
    BY <1>3, <1>5, <2>2, <2>3
  <2> QED BY <1>2, <2>4, Sizes, CodeDecides
<1> QED BY <1>3, <1>4, <1>5 DEF h

-----------------------------------------------------------------------------
(* Positions. *)

LEMMA PointerOf ==
  ASSUME NEW x \in Nat
  PROVE  /\ x % (2 * Depth) \in Pointer
         /\ NextPtr(x % (2 * Depth)) = (x + 1) % (2 * Depth)
<1> DEFINE m == 2 * Depth
<1>1. m \in Nat \ {0}
  BY Sizes
<1>2. Pointer = 0 .. m - 1 /\ NextPtr(x % m) = ((x % m) + 1) % m
  BY DEF Pointer, NextPtr
<1> HIDE DEF m
<1>3. x % m \in 0 .. m - 1
  BY <1>1, Division
<1>5. ((x % m) + 1) % m = (x + 1) % m
  BY <1>1, AddThenMod
<1>4. x % m \in Pointer /\ NextPtr(x % m) = (x + 1) % m
  BY <1>2, <1>3, <1>5
<1> QED BY <1>4 DEF m

(* Positions of one turn have different codes. *)
LEMMA SamePosition ==
  ASSUME NEW x \in Nat, NEW y \in Nat, x <= y, y < x + 2 * Depth,
         Code(x) = Code(y) \/ x % (2 * Depth) = y % (2 * Depth)
  PROVE  x = y
<1> DEFINE m == 2 * Depth
           k == y - x
<1>1. m \in Nat \ {0} /\ k \in Nat /\ k < m /\ y = x + k
  BY Sizes
<1>2. x % m = y % m
  BY PointerOf, CodesDiffer DEF Code
<1> HIDE DEF m, k
<1>3. (x + k) % m = x % m
  BY <1>1, <1>2
<1>4. k = 0
  BY <1>1, <1>3, NearSame
<1> QED BY <1>1, <1>4

LEMMA Apart ==
  ASSUME NEW x \in Nat, NEW y \in Nat, x <= y, y < x + 2 * Depth
  PROVE  ((y % (2 * Depth)) + 2 * Depth - (x % (2 * Depth))) % (2 * Depth) = y - x
<1> DEFINE m == 2 * Depth
           k == y - x
<1>1. m \in Nat \ {0} /\ k \in Nat /\ k < m /\ y = x + k
  BY Sizes
<1> HIDE DEF m, k
<1>2. (((x + k) % m) + m - (x % m)) % m = k
  BY <1>1, NearMod
<1>3. ((y % m) + m - (x % m)) % m = k
  BY <1>1, <1>2
<1> QED BY <1>3 DEF m, k

LEMMA CaughtPosition ==
  ASSUME NEW x \in Nat, NEW y \in Nat, x <= y, y <= x + 1, NEW g \in Caught(Code(x), Code(y))
  PROVE  g = Code(x) \/ g = Code(y)
<1>1. CASE y = x + 1
  <2>1. Code(y) = bin2gray(NextPtr(x % (2 * Depth)))
    BY <1>1, PointerOf DEF Code
  <2>2. x % (2 * Depth) \in Pointer
    BY PointerOf
  <2> QED BY <2>1, <2>2, CaughtWhole DEF Code
<1>2. CASE y = x
  <2>1. Code(x) \in Gray
    BY PointerOf, CodeAt DEF Code
  <2>2. g \in Gray /\ \A i \in Bit : g[i] = Code(x)[i]
    BY <1>2 DEF Caught
  <2> HIDE DEF Code
  <2> QED BY <2>1, <2>2 DEF Gray
<1> QED BY <1>1, <1>2

LEMMA FullAt ==
  ASSUME NEW x \in Nat, NEW y \in Nat, x <= y, y <= x + Depth,
         wr_ptr_gray = Code(y), rd_ptr_gray_wr_sync = Code(x)
  PROVE  full_i <=> y = x + Depth
<1> DEFINE m == 2 * Depth
<1>1. m \in Nat \ {0} /\ Depth \in Nat \ {0} /\ x + Depth \in Nat /\ m = 2 * Depth
  BY Sizes
<1>2. full_i <=> y % m = ((x % m) + Depth) % m
  BY PointerOf, FullMeans DEF Code
<1>3. (y % m = (x + Depth) % m) => y = x + Depth
  <2>1. x + Depth < y + 2 * Depth
    BY <1>1
  <2> QED BY <1>1, <2>1, SamePosition
<1> HIDE DEF m
<1>4. ((x % m) + Depth) % m = (x + Depth) % m
  BY <1>1, AddThenMod
<1> QED BY <1>2, <1>3, <1>4

(* The word at a position, and those between two positions. *)
LEMMA AddressAt ==
  ASSUME NEW x \in Nat, NEW k \in Nat
  PROVE  Address((x % (2 * Depth)) + k) = (x + k) % Depth
<1> DEFINE d == Depth
           r == x % (2 * d)
<1>1. d \in Nat \ {0}
  BY Sizes
<1>2. Address(r + k) = (r + k) % d
  BY DEF Address
<1>3. r \in Nat
  BY PointerOf DEF Pointer
<1> HIDE DEF d
<1>4. r % d = x % d
  BY <1>1, ModOfDouble
<1> HIDE DEF r
<1>5. ((r % d) + k) % d = (r + k) % d
  BY <1>1, <1>3, AddThenMod
<1>6. ((x % d) + k) % d = (x + k) % d
  BY <1>1, AddThenMod
<1>7. Address(r + k) = (x + k) % d
  BY <1>2, <1>4, <1>5, <1>6
<1> QED BY <1>7 DEF r, d

Window(m, x, y) == [i \in 1 .. y - x |-> m[(x + i - 1) % Depth]]

HeldIn(r, w) == (w + 2 * Depth - r) % (2 * Depth)
ContentsIn(m, r, w) == [i \in 1 .. HeldIn(r, w) |-> m[Address(r + i - 1)]]

LEMMA ContentsAt ==
  ASSUME NEW x \in Nat, NEW y \in Nat, x <= y, y <= x + Depth,
         NEW r, NEW w, NEW m, r = x % (2 * Depth), w = y % (2 * Depth)
  PROVE  HeldIn(r, w) = y - x /\ ContentsIn(m, r, w) = Window(m, x, y)
<1>1. y < x + 2 * Depth
  BY Sizes
<1>2. HeldIn(r, w) = y - x
  BY <1>1, Apart DEF HeldIn
<1>3. \A i \in 1 .. y - x : Address(r + i - 1) = (x + i - 1) % Depth
  <2> SUFFICES ASSUME NEW i \in 1 .. y - x
               PROVE  Address(r + i - 1) = (x + i - 1) % Depth
    OBVIOUS
  <2> DEFINE k == i - 1
  <2>1. k \in Nat /\ r \in Nat
    BY PointerOf DEF Pointer
  <2>2. r + i - 1 = r + k /\ x + i - 1 = x + k
    BY <2>1
  <2> HIDE DEF k
  <2>3. Address(r + k) = (x + k) % Depth
    BY <2>1, AddressAt
  <2> QED BY <2>2, <2>3
<1>4. ContentsIn(m, r, w) = [i \in 1 .. y - x |-> m[Address(r + i - 1)]]
  BY <1>2 DEF ContentsIn
<1> HIDE DEF ContentsIn, HeldIn, Address
<1>5. ContentsIn(m, r, w) = Window(m, x, y)
  BY <1>3, <1>4 DEF Window
<1> QED BY <1>2, <1>5

Words == Data \cup {NoData}
Memory == [0 .. Depth - 1 -> Words]

LEMMA WindowType ==
  ASSUME NEW m \in Memory, NEW x \in Nat, NEW y \in Nat, x <= y
  PROVE  Window(m, x, y) \in Seq(Words) /\ Len(Window(m, x, y)) = y - x
<1>1. ASSUME NEW i \in 1 .. y - x PROVE m[(x + i - 1) % Depth] \in Words
  <2> DEFINE k == x + i - 1
  <2>1. k \in Nat /\ Depth \in Nat \ {0}
    BY Sizes
  <2> HIDE DEF k
  <2>2. k % Depth \in 0 .. Depth - 1
    BY <2>1, Division
  <2> QED BY <2>2 DEF Memory, k
<1> DEFINE n == y - x
           w == [i \in 1 .. n |-> m[(x + i - 1) % Depth]]
<1>2. n \in Nat /\ w \in [1 .. n -> Words]
  <2>1. n \in Nat /\ \A i \in 1 .. n : m[(x + i - 1) % Depth] \in Words
    BY <1>1
  <2> HIDE DEF n
  <2> QED BY <2>1
<1>3. w = Window(m, x, y)
  BY DEF Window
<1> HIDE DEF n, w
<1>4. w \in Seq(Words) /\ Len(w) = n
  BY <1>2
<1> QED BY <1>3, <1>4 DEF n

Stored(m, m2, a, d) == m2[a] = d /\ \A b \in 0 .. Depth - 1 : b # a => m2[b] = m[b]

LEMMA WindowGrows ==
  ASSUME NEW m \in Memory, NEW x \in Nat, NEW y \in Nat, x <= y, y < x + Depth, NEW d \in Data,
         NEW m2 \in Memory, Stored(m, m2, y % Depth, d), NEW z \in Nat, z = y + 1
  PROVE  Window(m2, x, z) = Append(Window(m, x, y), d)
<1> DEFINE Old == Window(m, x, y)
           New == Window(m2, x, z)
           n == y - x
<1>1. n \in Nat /\ n + 1 = z - x /\ z \in Nat /\ x + (n + 1) - 1 = y /\ n < Depth /\ Depth \in Nat \ {0}
  BY Sizes
<1>2. Old \in Seq(Words) /\ Len(Old) = n
  BY WindowType
<1>3. y % Depth \in 0 .. Depth - 1
  BY <1>1, Division
<1>4. New = [i \in 1 .. n + 1 |-> m2[(x + i - 1) % Depth]]
  BY <1>1 DEF Window
<1>5. m2[y % Depth] = d
  BY DEF Stored
<1>6. ASSUME NEW i \in 1 .. n PROVE m2[(x + i - 1) % Depth] = Old[i]
  <2> DEFINE p == x + i - 1
             k == y - p
  <2>1. p \in Nat /\ k \in Nat \ {0} /\ p + k = y /\ k < Depth
    BY <1>1
  <2> HIDE DEF p, k
  <2>2. p % Depth # y % Depth
    BY <1>1, <2>1, NearSame
  <2>3. p % Depth \in 0 .. Depth - 1
    BY <1>1, <2>1, Division
  <2>4. m2[p % Depth] = m[p % Depth]
    BY <2>2, <2>3 DEF Stored
  <2>5. Old[i] = m[p % Depth]
    BY DEF Window, p
  <2> QED BY <2>4, <2>5 DEF p
<1>7. d \in Words /\ x <= z
  BY DEF Words
<1>8. New \in Seq(Words) /\ Len(New) = n + 1
  BY <1>1, <1>7, WindowType
<1> DEFINE More == Append(Old, d)
<1> HIDE DEF Old
<1>9. /\ More \in Seq(Words) /\ Len(More) = n + 1
      /\ \A i \in 1 .. n : More[i] = Old[i]
      /\ More[n + 1] = d
  BY <1>2, <1>7, AppendProperties
<1>10. \A i \in 1 .. n + 1 : New[i] = m2[(x + i - 1) % Depth]
  BY <1>4
<1> HIDE DEF New, More, n
<1>11. \A i \in 1 .. n + 1 : New[i] = More[i]
  <2> SUFFICES ASSUME NEW i \in 1 .. n + 1 PROVE New[i] = More[i]
    OBVIOUS
  <2>1. CASE i = n + 1
    BY <1>1, <1>5, <1>9, <1>10, <2>1
  <2>2. CASE i # n + 1
    <3>1. i \in 1 .. n
      BY <1>1, <2>2
    <3>2. New[i] = m2[(x + i - 1) % Depth]
      BY <1>10
    <3> QED BY <1>6, <1>9, <3>1, <3>2
  <2> QED BY <2>1, <2>2
<1>12. New = More
  BY <1>8, <1>9, <1>11, SeqEqual
<1> QED BY <1>12 DEF Old, New, More

LEMMA WindowShrinks ==
  ASSUME NEW m \in Memory, NEW x \in Nat, NEW y \in Nat, x < y
  PROVE  /\ Window(m, x, y) # <<>>
         /\ Head(Window(m, x, y)) = m[x % Depth]
         /\ Tail(Window(m, x, y)) = Window(m, x + 1, y)
<1> DEFINE Old == Window(m, x, y)
           n == y - x
<1>1. n \in Nat \ {0} /\ n - 1 = y - (x + 1) /\ x + 1 - 1 = x
  OBVIOUS
<1>2. Old \in Seq(Words) /\ Len(Old) = n
  BY WindowType
<1>3. Old[1] = m[x % Depth]
  BY <1>1 DEF Window
<1> DEFINE Rest == Window(m, x + 1, y)
<1>4. ASSUME NEW i \in 1 .. n - 1 PROVE Old[i + 1] = Rest[i]
  <2>1. i + 1 \in 1 .. n /\ x + (i + 1) - 1 = (x + 1) + i - 1
    OBVIOUS
  <2>2. Old[i + 1] = m[(x + (i + 1) - 1) % Depth]
    BY <2>1 DEF Window
  <2>3. Rest[i] = m[((x + 1) + i - 1) % Depth]
    BY <1>1 DEF Window
  <2> QED BY <2>1, <2>2, <2>3
<1>5. Rest \in Seq(Words) /\ Len(Rest) = n - 1
  BY <1>1, WindowType
<1> DEFINE Popped == Tail(Old)
<1> HIDE DEF Old, n, Rest
<1>6. Old # <<>> /\ Head(Old) = Old[1]
  BY <1>1, <1>2
<1>7. /\ Popped \in Seq(Words) /\ Len(Popped) = n - 1
      /\ \A i \in 1 .. n - 1 : Popped[i] = Old[i + 1]
  BY <1>2, <1>6, HeadTailProperties
<1> HIDE DEF Popped
<1>8. Popped = Rest
  BY <1>4, <1>5, <1>7, SeqEqual
<1> QED BY <1>3, <1>6, <1>8 DEF Old, Rest, Popped

-----------------------------------------------------------------------------
(* The invariant.  While the FIFO runs, eight positions stand in a row, no    *)
(* more than its depth from first to last: the read pointer as the write     *)
(* side knows it, as it will know it, as it was and as it is, and then the   *)
(* write pointer as the read side knows it, and so on up to where it is.     *)
(* In a reset only the write side is still in order, until it is cleared.    *)

TypeInv ==
  /\ mem \in Memory
  /\ wr_ptr_bin \in Pointer /\ wr_ptr_gray = bin2gray(wr_ptr_bin)
  /\ rd_ptr_bin \in Pointer /\ rd_ptr_gray = bin2gray(rd_ptr_bin)
  /\ reset_sink_reset \in BOOLEAN /\ txlink_rst_meta \in BOOLEAN /\ txlink_rst \in BOOLEAN

InRow(x0, x1, x2, x3, y0, y1, y2, y3) ==
  /\ x0 <= x1 /\ x1 <= x2 /\ x2 <= x3 /\ x3 <= x2 + 1
  /\ x3 <= y0 /\ y0 <= y1 /\ y1 <= y2 /\ y2 <= y3 /\ y3 <= y2 + 1
  /\ y3 <= x0 + Depth

ReadSeen(x0, x1, x2, x3) ==
  /\ rd_ptr_gray_wr_sync = Code(x0) /\ rd_ptr_gray_wr_meta = Code(x1)
  /\ rd_gray_before = Code(x2) /\ rd_ptr_bin = x3 % (2 * Depth)

WriteSeen(y0, y1, y2, y3) ==
  /\ wr_ptr_gray_rd_sync = Code(y0) /\ wr_ptr_gray_rd_meta = Code(y1)
  /\ wr_gray_before = Code(y2) /\ wr_ptr_bin = y3 % (2 * Depth)

RunInv ==
  ~reset_sink_reset =>
    \E x0, x1, x2, x3, y0, y1, y2, y3 \in Nat :
      /\ InRow(x0, x1, x2, x3, y0, y1, y2, y3)
      /\ ReadSeen(x0, x1, x2, x3) /\ WriteSeen(y0, y1, y2, y3)

StopInv ==
  reset_sink_reset =>
    \E x0, x1, y \in Nat :
      /\ x0 <= x1 /\ x1 <= y /\ y <= x0 + Depth
      /\ rd_ptr_gray_wr_sync = Code(x0) /\ rd_ptr_gray_wr_meta = Code(x1)
      /\ wr_ptr_bin = y % (2 * Depth)

\* The read side may still be held in reset after the write side was released.
HeldInv ==
  ~reset_sink_reset =>
    /\ txlink_rst_meta => txlink_rst
    /\ txlink_rst => /\ rd_ptr_bin = 0
                     /\ wr_ptr_gray_rd_meta = Zero /\ wr_ptr_gray_rd_sync = Zero

FifoInv == TypeInv /\ RunInv /\ StopInv /\ HeldInv

LEMMA ZeroAt == 0 \in Pointer /\ 0 % (2 * Depth) = 0 /\ Code(0) = Zero
<1> DEFINE m == 2 * Depth
<1>1. m \in Nat \ {0} /\ 0 = m * 0 + 0 /\ 0 \in 0 .. m - 1
  BY Sizes
<1> HIDE DEF m
<1>2. 0 % m = 0
  BY <1>1, Quotient
<1>3. 0 % (2 * Depth) = 0
  BY <1>2 DEF m
<1> QED BY <1>1, <1>3 DEF m, Code, Zero, Pointer

LEMMA InitOrdered == Init => FifoInv
<1> SUFFICES ASSUME Init PROVE FifoInv
  OBVIOUS
<1>1. TypeInv
  BY ZeroAt DEF Init, FifoInit, InReset, TypeInv, Memory, Words, Zero
<1>2. reset_sink_reset = TRUE
  BY DEF Init, InReset
<1>3. StopInv
  <2>1. 0 <= 0 + Depth /\ 0 <= 0
    BY Sizes
  <2>2. rd_ptr_gray_wr_sync = Code(0) /\ rd_ptr_gray_wr_meta = Code(0) /\ wr_ptr_bin = 0 % (2 * Depth)
    BY ZeroAt DEF Init, FifoInit
  <2> QED BY <2>1, <2>2 DEF StopInv
<1> QED BY <1>1, <1>2, <1>3 DEF FifoInv, RunInv, HeldInv

LEMMA TypesKept ==
  ASSUME TypeInv, [Next]_vars
  PROVE  TypeInv'
<1> USE ZeroAt, OneBit DEF TypeInv, fifo_vars, wr_side, rd_side, resets
<1>1. ASSUME WrClock PROVE TypeInv'
  <2>1. ASSUME NEW d \in Data, Write(d) PROVE mem' \in Memory
    BY <2>1 DEF Write, Memory, Words
  <2>2. CASE reset_sink_reset
    BY <1>1, <2>2 DEF WrClock, WrResetEdge, Zero
  <2>3. CASE ~reset_sink_reset
    <3>1. (\E d \in Data : Write(d)) \/ Overflow \/ NoWrite
      BY <1>1, <2>3 DEF WrClock, WrEdge
    <3>2. UNCHANGED <<rd_side, resets>>
      BY <1>1, <2>3 DEF WrClock, WrEdge
    <3> QED BY <2>1, <3>1, <3>2 DEF Write, Overflow, NoWrite
  <2> QED BY <2>2, <2>3
<1>2. ASSUME RdClock PROVE TypeInv'
  <2>0. /\ UNCHANGED <<mem, wr_ptr_bin, wr_ptr_gray>>
        /\ reset_sink_reset' \in BOOLEAN /\ txlink_rst_meta' \in BOOLEAN /\ txlink_rst' \in BOOLEAN
    BY <1>2 DEF RdClock, RdEdge, RdResetEdge, ResetSync
  <2>1. CASE txlink_rst
    BY <1>2, <2>0, <2>1 DEF RdClock, RdResetEdge, Zero
  <2>2. CASE ~txlink_rst
    <3>1. Read \/ NoRead
      BY <1>2, <2>2 DEF RdClock, RdEdge
    <3> QED BY <2>0, <3>1 DEF Read, NoRead
  <2> QED BY <2>1, <2>2
<1>3. ASSUME AssertReset PROVE TypeInv'
  BY <1>3 DEF AssertReset, AssertSink
<1>4. ASSUME ReleaseReset PROVE TypeInv'
  BY <1>4 DEF ReleaseReset, ReleaseSink
<1>5. ASSUME UNCHANGED vars PROVE TypeInv'
  BY <1>5 DEF vars
<1> QED BY <1>1, <1>2, <1>3, <1>4, <1>5 DEF Next

LEMMA HeldKept ==
  ASSUME FifoInv, [Next]_vars
  PROVE  HeldInv'
<1> USE DEF FifoInv, HeldInv, TypeInv
<1>1. ASSUME WrClock PROVE HeldInv'
  BY <1>1 DEF WrClock, WrResetEdge, WrEdge, rd_side, resets
<1>2. ASSUME RdClock PROVE HeldInv'
  <2>1. CASE txlink_rst
    BY <1>2, <2>1 DEF RdClock, RdResetEdge, ResetSync
  <2>2. CASE ~txlink_rst
    BY <1>2, <2>2 DEF RdClock, ResetSync
  <2> QED BY <2>1, <2>2
<1>3. ASSUME AssertReset PROVE HeldInv'
  BY <1>3 DEF AssertReset, AssertSink
<1>4. ASSUME ReleaseReset PROVE HeldInv'
  <2>1. rd_ptr_gray = Zero /\ wr_ptr_gray_rd_sync = Zero /\ wr_ptr_gray_rd_meta = Zero
    BY <1>4 DEF ReleaseReset, ReleaseSink, ResetHeld
  <2>2. rd_ptr_bin = 0
    BY <2>1, ZeroAt, CodesDiffer DEF Zero
  <2> QED BY <1>4, <2>1, <2>2 DEF ReleaseReset, ReleaseSink, fifo_vars, rd_side
<1>5. ASSUME UNCHANGED vars PROVE HeldInv'
  BY <1>5 DEF vars, fifo_vars, rd_side, resets
<1> QED BY <1>1, <1>2, <1>3, <1>4, <1>5 DEF Next

LEMMA StopKept ==
  ASSUME FifoInv, [Next]_vars
  PROVE  StopInv'
<1> SUFFICES ASSUME reset_sink_reset'
             PROVE  \E x0, x1, y \in Nat :
                      /\ x0 <= x1 /\ x1 <= y /\ y <= x0 + Depth
                      /\ rd_ptr_gray_wr_sync' = Code(x0) /\ rd_ptr_gray_wr_meta' = Code(x1)
                      /\ wr_ptr_bin' = y % (2 * Depth)
  BY DEF StopInv
<1>1. CASE WrClock
  <2>1. rd_ptr_gray_wr_sync' = Code(0) /\ rd_ptr_gray_wr_meta' = Code(0) /\ wr_ptr_bin' = 0 % (2 * Depth)
    BY <1>1, ZeroAt DEF WrClock, WrResetEdge, resets
  <2>2. 0 <= 0 + Depth /\ 0 <= 0
    BY Sizes
  <2> QED BY <2>1, <2>2
<1>2. CASE RdClock \/ UNCHANGED vars
  <2>1. UNCHANGED <<rd_ptr_gray_wr_sync, rd_ptr_gray_wr_meta, wr_ptr_bin, reset_sink_reset>>
    BY <1>2 DEF RdClock, RdEdge, RdResetEdge, ResetSync, wr_side, vars, fifo_vars, resets
  <2> QED BY <2>1 DEF FifoInv, StopInv
<1>3. CASE AssertReset
  <2>1. UNCHANGED <<rd_ptr_gray_wr_sync, rd_ptr_gray_wr_meta, wr_ptr_bin>> /\ ~reset_sink_reset
    BY <1>3 DEF AssertReset, AssertSink, fifo_vars, wr_side
  <2>2. PICK x0, x1, x2, x3, y0, y1, y2, y3 \in Nat :
          /\ InRow(x0, x1, x2, x3, y0, y1, y2, y3)
          /\ ReadSeen(x0, x1, x2, x3) /\ WriteSeen(y0, y1, y2, y3)
    BY <2>1 DEF FifoInv, RunInv
  <2>3. x0 <= x1 /\ x1 <= y3 /\ y3 <= x0 + Depth
    BY <2>2, Sizes DEF InRow
  <2>4. rd_ptr_gray_wr_sync' = Code(x0) /\ rd_ptr_gray_wr_meta' = Code(x1) /\ wr_ptr_bin' = y3 % (2 * Depth)
    BY <2>1, <2>2 DEF ReadSeen, WriteSeen
  <2> QED BY <2>3, <2>4
<1>4. CASE ReleaseReset
  BY <1>4 DEF ReleaseReset, ReleaseSink
<1> QED BY <1>1, <1>2, <1>3, <1>4 DEF Next

(* What an edge of a running FIFO does to the row. *)
LEMMA WriteStep ==
  ASSUME FifoInv, WrClock, ~reset_sink_reset,
         NEW x0 \in Nat, NEW x1 \in Nat, NEW x2 \in Nat, NEW x3 \in Nat,
         NEW y0 \in Nat, NEW y1 \in Nat, NEW y2 \in Nat, NEW y3 \in Nat,
         InRow(x0, x1, x2, x3, y0, y1, y2, y3),
         ReadSeen(x0, x1, x2, x3), WriteSeen(y0, y1, y2, y3)
  PROVE  \E g \in {x2, x3}, z \in {y3, y3 + 1} :
           /\ InRow(x1, g, x3, x3, y0, y1, y3, z)
           /\ ReadSeen(x1, g, x3, x3)' /\ WriteSeen(y0, y1, y3, z)'
           /\ z = y3 + 1 => y3 < x3 + Depth /\ \E d \in Data : mem' = [mem EXCEPT ![y3 % Depth] = d]
           /\ z = y3 => mem' = mem
<1>1. /\ (\E d \in Data : Write(d)) \/ Overflow \/ NoWrite
      /\ SyncRd2Wr /\ wr_gray_before' = wr_ptr_gray /\ UNCHANGED rd_side
  BY DEF WrClock, WrEdge
<1>2. /\ rd_ptr_gray = Code(x3) /\ wr_ptr_gray = Code(y3)
      /\ x3 + 1 \in Nat /\ y3 + 1 \in Nat /\ Depth \in Nat
  BY Sizes DEF FifoInv, TypeInv, ReadSeen, WriteSeen, Code
<1>3. PICK g \in {x2, x3} : rd_ptr_gray_wr_meta' = Code(g)
  BY <1>1, <1>2, CaughtPosition DEF SyncRd2Wr, ReadSeen, InRow
<1>4. ReadSeen(x1, g, x3, x3)'
  BY <1>1, <1>2, <1>3 DEF SyncRd2Wr, ReadSeen, rd_side
<1>5. /\ wr_ptr_gray_rd_sync' = Code(y0) /\ wr_ptr_gray_rd_meta' = Code(y1)
      /\ wr_gray_before' = Code(y3)
  BY <1>1, <1>2 DEF WriteSeen, rd_side
<1>6. InRow(x1, g, x3, x3, y0, y1, y3, y3)
  BY <1>2, Sizes DEF InRow
<1>7. CASE \E d \in Data : Write(d)
  <2>1. PICK d \in Data : Write(d)
    BY <1>7
  <2>2. y3 # x0 + Depth
    <3>1. x0 <= y3 /\ y3 <= x0 + Depth
      BY <1>2 DEF InRow
    <3>2. full_i <=> y3 = x0 + Depth
      BY <1>2, <3>1, FullAt DEF ReadSeen
    <3> QED BY <2>1, <3>2 DEF Write
  <2>3. InRow(x1, g, x3, x3, y0, y1, y3, y3 + 1) /\ y3 < x3 + Depth
    BY <1>2, <2>2 DEF InRow
  <2>4. wr_ptr_bin' = (y3 + 1) % (2 * Depth)
    BY <2>1, PointerOf DEF Write, WriteSeen
  <2>5. mem' = [mem EXCEPT ![y3 % Depth] = d]
    <3>1. Address(wr_ptr_bin) = y3 % Depth
      BY Sizes, ModOfDouble DEF Address, WriteSeen
    <3> QED BY <2>1, <3>1 DEF Write
  <2>6. WriteSeen(y0, y1, y3, y3 + 1)'
    BY <1>5, <2>4 DEF WriteSeen
  <2>7. y3 + 1 # y3
    BY <1>2
  <2> QED BY <1>4, <2>3, <2>5, <2>6, <2>7
<1>8. CASE Overflow \/ NoWrite
  <2>1. UNCHANGED <<mem, wr_ptr_bin>>
    BY <1>8 DEF Overflow, NoWrite
  <2>2. WriteSeen(y0, y1, y3, y3)'
    BY <1>5, <2>1 DEF WriteSeen
  <2>3. y3 # y3 + 1
    BY <1>2
  <2> QED BY <1>4, <1>6, <2>1, <2>2, <2>3
<1> QED BY <1>1, <1>7, <1>8

LEMMA ReadStep ==
  ASSUME FifoInv, RdClock, ~reset_sink_reset,
         NEW x0 \in Nat, NEW x1 \in Nat, NEW x2 \in Nat, NEW x3 \in Nat,
         NEW y0 \in Nat, NEW y1 \in Nat, NEW y2 \in Nat, NEW y3 \in Nat,
         InRow(x0, x1, x2, x3, y0, y1, y2, y3),
         ReadSeen(x0, x1, x2, x3), WriteSeen(y0, y1, y2, y3)
  PROVE  \E g \in {y1, y2, y3}, z \in {x3, x3 + 1} :
           /\ InRow(x0, x1, x3, z, y1, g, y3, y3)
           /\ ReadSeen(x0, x1, x3, z)' /\ WriteSeen(y1, g, y3, y3)'
           /\ mem' = mem
           /\ z = x3 + 1 => x3 < y3 /\ rd_valid' = TRUE /\ rd_data' = mem[x3 % Depth]
           /\ z = x3 => rd_valid' = FALSE /\ rd_data' = rd_data
<1>1. /\ rd_ptr_gray = Code(x3) /\ wr_ptr_gray = Code(y3)
      /\ x3 + 1 \in Nat /\ y3 + 1 \in Nat /\ Depth \in Nat
  BY Sizes DEF FifoInv, TypeInv, ReadSeen, WriteSeen, Code
<1>2. x3 + 1 # x3
  BY <1>1
<1>3. CASE txlink_rst
  <2>1. /\ rd_ptr_bin' = 0 /\ rd_valid' = FALSE /\ rd_data' = rd_data
        /\ wr_ptr_gray_rd_meta' = Zero /\ wr_ptr_gray_rd_sync' = Zero
        /\ rd_gray_before' = rd_ptr_gray /\ wr_gray_before' = wr_ptr_gray /\ UNCHANGED wr_side
    BY <1>3 DEF RdClock, RdResetEdge
  <2>2. rd_ptr_bin = 0 /\ wr_ptr_gray_rd_meta = Zero /\ wr_ptr_gray_rd_sync = Zero
    BY <1>3 DEF FifoInv, HeldInv
  <2>3. InRow(x0, x1, x3, x3, y1, y1, y3, y3)
    BY <1>1, Sizes DEF InRow
  <2>4. ReadSeen(x0, x1, x3, x3)' /\ WriteSeen(y1, y1, y3, y3)'
    BY <1>1, <2>1, <2>2 DEF ReadSeen, WriteSeen, wr_side
  <2>5. mem' = mem
    BY <2>1 DEF wr_side
  <2> QED BY <1>2, <2>1, <2>3, <2>4, <2>5
<1>4. CASE ~txlink_rst
  <2>1. (Read \/ NoRead) /\ SyncWr2Rd /\ rd_gray_before' = rd_ptr_gray /\ UNCHANGED wr_side
    BY <1>4 DEF RdClock, RdEdge
  <2>2. PICK g \in {y2, y3} : wr_ptr_gray_rd_meta' = Code(g)
    BY <1>1, <2>1, CaughtPosition DEF SyncWr2Rd, WriteSeen, InRow
  <2>3. WriteSeen(y1, g, y3, y3)' /\ mem' = mem
    BY <1>1, <2>1, <2>2 DEF SyncWr2Rd, WriteSeen, wr_side
  <2>4. rd_ptr_gray_wr_sync' = Code(x0) /\ rd_ptr_gray_wr_meta' = Code(x1) /\ rd_gray_before' = Code(x3)
    BY <1>1, <2>1 DEF ReadSeen, wr_side
  <2>5. InRow(x0, x1, x3, x3, y1, g, y3, y3)
    BY <1>1, Sizes DEF InRow
  <2>6. CASE Read
    <3>1. x3 # y0
      BY <1>1, <2>6 DEF Read, empty_i, WriteSeen
    <3>2. InRow(x0, x1, x3, x3 + 1, y1, g, y3, y3) /\ x3 < y3
      BY <1>1, <3>1, Sizes DEF InRow
    <3>3. rd_ptr_bin' = (x3 + 1) % (2 * Depth)
      BY <2>6, PointerOf DEF Read, ReadSeen
    <3>4. rd_data' = mem[x3 % Depth] /\ rd_valid' = TRUE
      <4>1. Address(rd_ptr_bin) = x3 % Depth
        BY Sizes, ModOfDouble DEF Address, ReadSeen
      <4> QED BY <2>6, <4>1 DEF Read
    <3>5. ReadSeen(x0, x1, x3, x3 + 1)'
      BY <2>4, <3>3 DEF ReadSeen
    <3> QED BY <1>2, <2>3, <3>2, <3>4, <3>5
  <2>7. CASE NoRead
    <3>1. ReadSeen(x0, x1, x3, x3)' /\ rd_valid' = FALSE /\ rd_data' = rd_data
      BY <2>4, <2>7 DEF NoRead, ReadSeen
    <3> QED BY <1>2, <2>3, <2>5, <3>1
  <2> QED BY <2>1, <2>6, <2>7
<1> QED BY <1>3, <1>4

LEMMA RunKept ==
  ASSUME FifoInv, [Next]_vars
  PROVE  RunInv'
<1> SUFFICES ASSUME ~reset_sink_reset'
             PROVE  \E x0, x1, x2, x3, y0, y1, y2, y3 \in Nat :
                      /\ InRow(x0, x1, x2, x3, y0, y1, y2, y3)
                      /\ ReadSeen(x0, x1, x2, x3)' /\ WriteSeen(y0, y1, y2, y3)'
  BY DEF RunInv, InRow
<1>1. CASE ReleaseReset
  <2>1. /\ UNCHANGED fifo_vars /\ ResetHeld /\ reset_sink_reset
    BY <1>1 DEF ReleaseReset, ReleaseSink
  <2>2. PICK x0, x1, y \in Nat :
          /\ x0 <= x1 /\ x1 <= y /\ y <= x0 + Depth
          /\ rd_ptr_gray_wr_sync = Code(x0) /\ rd_ptr_gray_wr_meta = Code(x1)
          /\ wr_ptr_bin = y % (2 * Depth)
    BY <2>1 DEF FifoInv, StopInv
  <2>3. wr_ptr_bin = 0 /\ rd_ptr_bin = 0 /\ Code(y) = Zero
    BY <2>1, <2>2, ZeroAt, CodesDiffer DEF FifoInv, TypeInv, ResetHeld, Zero, Code
  <2>4. InRow(x0, x1, y, y, y, y, y, y)
    BY <2>2, Sizes DEF InRow
  <2>5. ReadSeen(x0, x1, y, y)'
    BY <2>1, <2>2, <2>3 DEF ReadSeen, ResetHeld, fifo_vars, wr_side, rd_side
  <2>6. WriteSeen(y, y, y, y)'
    BY <2>1, <2>2, <2>3 DEF WriteSeen, ResetHeld, fifo_vars, wr_side, rd_side
  <2> QED BY <2>4, <2>5, <2>6
<1>2. CASE ~ReleaseReset
  <2>1. ~reset_sink_reset /\ (WrClock \/ RdClock \/ UNCHANGED vars)
    BY <1>2 DEF Next, WrClock, RdClock, AssertReset, AssertSink, ResetSync, vars, resets
  <2>2. PICK x0, x1, x2, x3, y0, y1, y2, y3 \in Nat :
          /\ InRow(x0, x1, x2, x3, y0, y1, y2, y3)
          /\ ReadSeen(x0, x1, x2, x3) /\ WriteSeen(y0, y1, y2, y3)
    BY <2>1 DEF FifoInv, RunInv
  <2>3. CASE WrClock
    <3>1. PICK g \in {x2, x3}, z \in {y3, y3 + 1} :
            /\ InRow(x1, g, x3, x3, y0, y1, y3, z)
            /\ ReadSeen(x1, g, x3, x3)' /\ WriteSeen(y0, y1, y3, z)'
            /\ z = y3 + 1 => y3 < x3 + Depth /\ \E d \in Data : mem' = [mem EXCEPT ![y3 % Depth] = d]
            /\ z = y3 => mem' = mem
      BY <2>1, <2>2, <2>3, WriteStep DEF ReadSeen, WriteSeen
    <3>2. g \in Nat /\ z \in Nat
      OBVIOUS
    <3> QED BY <3>1, <3>2
  <2>4. CASE RdClock
    <3>1. PICK g \in {y1, y2, y3}, z \in {x3, x3 + 1} :
            /\ InRow(x0, x1, x3, z, y1, g, y3, y3)
            /\ ReadSeen(x0, x1, x3, z)' /\ WriteSeen(y1, g, y3, y3)'
            /\ mem' = mem
            /\ z = x3 + 1 => x3 < y3 /\ rd_valid' = TRUE /\ rd_data' = mem[x3 % Depth]
            /\ z = x3 => rd_valid' = FALSE /\ rd_data' = rd_data
      BY <2>1, <2>2, <2>4, ReadStep DEF ReadSeen, WriteSeen
    <3>2. g \in Nat /\ z \in Nat
      OBVIOUS
    <3> QED BY <3>1, <3>2
  <2>5. CASE UNCHANGED vars
    <3>1. ReadSeen(x0, x1, x2, x3)' /\ WriteSeen(y0, y1, y2, y3)'
      BY <2>2, <2>5 DEF ReadSeen, WriteSeen, vars, fifo_vars, rd_side, wr_side
    <3> QED BY <2>2, <3>1
  <2> QED BY <2>1, <2>3, <2>4, <2>5
<1> QED BY <1>1, <1>2

LEMMA OrderKept == FifoInv /\ [Next]_vars => FifoInv'
BY TypesKept, RunKept, StopKept, HeldKept DEF FifoInv

LEMMA AlwaysOrdered == Spec => []FifoInv
<1>1. Init => FifoInv
  BY InitOrdered
<1>2. FifoInv /\ [Next]_vars => FifoInv'
  BY OrderKept
<1> QED BY <1>1, <1>2, PTL DEF Spec

-----------------------------------------------------------------------------
(* FillNeverOverstated: the level DataSrcMux compares with its threshold is   *)
(* the distance from the read pointer to a position the write pointer has    *)
(* passed already.                                                           *)
THEOREM FillCorrect == Spec => []FillNeverOverstated
<1>1. ASSUME FifoInv PROVE FillNeverOverstated
  <2> SUFFICES ASSUME ~reset_sink_reset PROVE fill_level <= Held
    BY DEF FillNeverOverstated
  <2>1. PICK x0, x1, x2, x3, y0, y1, y2, y3 \in Nat :
          /\ InRow(x0, x1, x2, x3, y0, y1, y2, y3)
          /\ ReadSeen(x0, x1, x2, x3) /\ WriteSeen(y0, y1, y2, y3)
    BY <1>1 DEF FifoInv, RunInv
  <2>2. /\ x3 <= y0 /\ y0 < x3 + 2 * Depth /\ x3 <= y3 /\ y3 < x3 + 2 * Depth
        /\ y0 - x3 <= y3 - x3
    BY <2>1, Sizes DEF InRow
  <2>3. Held = y3 - x3
    BY <2>1, <2>2, Apart DEF Held, ReadSeen, WriteSeen
  <2>4. gray2bin(wr_ptr_gray_rd_sync) = y0 % (2 * Depth)
    BY <2>1, Decoded, PointerOf DEF WriteSeen, Code
  <2>5. fill_level = y0 - x3
    BY <2>1, <2>2, <2>4, Apart DEF fill_level, ReadSeen
  <2> QED BY <2>2, <2>3, <2>5
<1> QED BY <1>1, AlwaysOrdered, PTL

(* ImplementsQueue: in any order of the edges, and whatever the synchronisers *)
(* catch, a write edge appends a word or changes nothing, a read edge takes  *)
(* the oldest or nothing, and a reset leaves the queue empty.                *)
THEOREM QueueImplemented == Spec => ImplementsQueue
<1>1. Init => Queue!Init
  BY DEF Init, FifoInit, InReset, Queue!Init
<1>2. ASSUME FifoInv, [Next]_vars PROVE [Queue!Next]_(Queue!vars)
  <2>0. reset_sink_reset \in BOOLEAN /\ mem \in Memory /\ Depth \in Nat \ {0}
    BY <1>2, Sizes DEF FifoInv, TypeInv
  <2>1. Contents = ContentsIn(mem, rd_ptr_bin, wr_ptr_bin) /\ Contents' = ContentsIn(mem', rd_ptr_bin', wr_ptr_bin')
    BY DEF Contents, ContentsIn, Held, HeldIn
  <2>2. CASE WrClock /\ ~reset_sink_reset
    <3>1. PICK x0, x1, x2, x3, y0, y1, y2, y3 \in Nat :
            /\ InRow(x0, x1, x2, x3, y0, y1, y2, y3)
            /\ ReadSeen(x0, x1, x2, x3) /\ WriteSeen(y0, y1, y2, y3)
      BY <1>2, <2>2 DEF FifoInv, RunInv
    <3>2. PICK g \in {x2, x3}, z \in {y3, y3 + 1} :
            /\ InRow(x1, g, x3, x3, y0, y1, y3, z)
            /\ ReadSeen(x1, g, x3, x3)' /\ WriteSeen(y0, y1, y3, z)'
            /\ z = y3 + 1 => y3 < x3 + Depth /\ \E d \in Data : mem' = [mem EXCEPT ![y3 % Depth] = d]
            /\ z = y3 => mem' = mem
      BY <1>2, <2>2, <3>1, WriteStep DEF ReadSeen, WriteSeen
    <3>3. x3 <= y3 /\ y3 <= x3 + Depth /\ x3 <= z /\ z <= x3 + Depth /\ z \in Nat
      BY <2>0, <3>1, <3>2 DEF InRow
    <3>4. Contents = Window(mem, x3, y3) /\ Contents' = Window(mem', x3, z)
      <4>1. rd_ptr_bin = x3 % (2 * Depth) /\ wr_ptr_bin = y3 % (2 * Depth)
        BY <3>1 DEF ReadSeen, WriteSeen
      <4>2. rd_ptr_bin' = x3 % (2 * Depth) /\ wr_ptr_bin' = z % (2 * Depth)
        BY <3>2 DEF ReadSeen, WriteSeen
      <4>3. ContentsIn(mem, rd_ptr_bin, wr_ptr_bin) = Window(mem, x3, y3)
        BY <3>3, <4>1, ContentsAt
      <4>4. ContentsIn(mem', rd_ptr_bin', wr_ptr_bin') = Window(mem', x3, z)
        BY <3>3, <4>2, ContentsAt
      <4> QED BY <2>1, <4>3, <4>4
    <3>5. UNCHANGED <<rd_valid, rd_data, reset_sink_reset>>
      BY <2>2 DEF WrClock, WrEdge, rd_side, resets
    <3>6. CASE z = y3 + 1
      <4>0. y3 < x3 + Depth
        BY <3>2, <3>6
      <4>1. PICK d \in Data : mem' = [mem EXCEPT ![y3 % Depth] = d]
        BY <3>2, <3>6
      <4>2. Contents' = Append(Contents, d)
        <5>0. mem' \in Memory /\ z \in Nat /\ z = y3 + 1
          BY <1>2, <3>6, TypesKept DEF FifoInv, TypeInv
        <5>2. y3 % Depth \in 0 .. Depth - 1
          BY <2>0, Division
        <5>3. Stored(mem, mem', y3 % Depth, d)
          BY <2>0, <4>1, <5>2 DEF Stored, Memory
        <5>1. Window(mem', x3, z) = Append(Window(mem, x3, y3), d)
          BY <2>0, <3>3, <4>0, <5>0, <5>3, WindowGrows
        <5> QED BY <3>4, <5>1
      <4>3. Len(Contents) < Depth
        <5>1. Len(Window(mem, x3, y3)) = y3 - x3
          BY <2>0, <3>3, WindowType
        <5> QED BY <2>0, <3>3, <3>4, <4>0, <5>1
      <4> QED BY <2>2, <3>5, <4>2, <4>3 DEF Queue!Next, Queue!Put
    <3>7. CASE z = y3
      <4>1. Contents' = Contents
        BY <3>2, <3>4, <3>7
      <4> QED BY <2>2, <3>5, <4>1 DEF Queue!vars
    <3> QED BY <3>2, <3>6, <3>7
  <2>3. CASE RdClock /\ ~reset_sink_reset
    <3>1. PICK x0, x1, x2, x3, y0, y1, y2, y3 \in Nat :
            /\ InRow(x0, x1, x2, x3, y0, y1, y2, y3)
            /\ ReadSeen(x0, x1, x2, x3) /\ WriteSeen(y0, y1, y2, y3)
      BY <1>2, <2>3 DEF FifoInv, RunInv
    <3>2. PICK g \in {y1, y2, y3}, z \in {x3, x3 + 1} :
            /\ InRow(x0, x1, x3, z, y1, g, y3, y3)
            /\ ReadSeen(x0, x1, x3, z)' /\ WriteSeen(y1, g, y3, y3)'
            /\ mem' = mem
            /\ z = x3 + 1 => x3 < y3 /\ rd_valid' = TRUE /\ rd_data' = mem[x3 % Depth]
            /\ z = x3 => rd_valid' = FALSE /\ rd_data' = rd_data
      BY <1>2, <2>3, <3>1, ReadStep DEF ReadSeen, WriteSeen
    <3>3. x3 <= y3 /\ y3 <= x3 + Depth /\ z <= y3 /\ y3 <= z + Depth /\ z \in Nat
      BY <2>0, <3>1, <3>2 DEF InRow
    <3>4. Contents = Window(mem, x3, y3) /\ Contents' = Window(mem, z, y3)
      <4>1. rd_ptr_bin = x3 % (2 * Depth) /\ wr_ptr_bin = y3 % (2 * Depth)
        BY <3>1 DEF ReadSeen, WriteSeen
      <4>2. rd_ptr_bin' = z % (2 * Depth) /\ wr_ptr_bin' = y3 % (2 * Depth)
        BY <3>2 DEF ReadSeen, WriteSeen
      <4>3. ContentsIn(mem, rd_ptr_bin, wr_ptr_bin) = Window(mem, x3, y3)
        BY <3>3, <4>1, ContentsAt
      <4>4. ContentsIn(mem, rd_ptr_bin', wr_ptr_bin') = Window(mem, z, y3)
        BY <3>3, <4>2, ContentsAt
      <4> QED BY <2>1, <3>2, <4>3, <4>4
    <3>5. UNCHANGED reset_sink_reset
      BY <2>3 DEF RdClock, ResetSync
    <3>6. CASE z = x3 + 1
      <4>1. x3 < y3 /\ rd_valid' = TRUE /\ rd_data' = mem[x3 % Depth]
        BY <3>2, <3>6
      <4>2. Contents # <<>> /\ rd_data' = Head(Contents) /\ Contents' = Tail(Contents)
        BY <2>0, <3>4, <3>6, <4>1, WindowShrinks
      <4> QED BY <2>3, <3>5, <4>1, <4>2 DEF Queue!Next, Queue!Get
    <3>7. CASE z = x3
      <4>1. Contents' = Contents /\ rd_valid' = FALSE /\ rd_data' = rd_data
        BY <3>2, <3>4, <3>7
      <4> QED BY <2>3, <3>5, <4>1 DEF Queue!Next, Queue!Idle
    <3> QED BY <3>2, <3>6, <3>7
  <2>4. CASE (WrClock \/ RdClock) /\ reset_sink_reset
    <3>1. reset_sink_reset' = TRUE
      BY <2>0, <2>4 DEF WrClock, RdClock, ResetSync, resets
    <3> QED BY <3>1 DEF Queue!Next, Queue!Reset
  <2>5. CASE AssertReset
    <3>1. reset_sink_reset' = TRUE
      BY <2>5 DEF AssertReset, AssertSink
    <3> QED BY <3>1 DEF Queue!Next, Queue!Reset
  <2>6. CASE ReleaseReset
    <3>1. reset_sink_reset /\ ~reset_sink_reset' /\ UNCHANGED fifo_vars
          /\ rd_ptr_gray = Zero /\ wr_ptr_gray = Zero
      BY <2>6 DEF ReleaseReset, ReleaseSink, ResetHeld
    <3>2. rd_ptr_bin = 0 /\ wr_ptr_bin = 0
      BY <1>2, <3>1, ZeroAt, CodesDiffer DEF FifoInv, TypeInv, Zero
    <3>3. rd_ptr_bin' = 0 % (2 * Depth) /\ wr_ptr_bin' = 0 % (2 * Depth) /\ UNCHANGED <<rd_data, rd_valid>>
      BY <3>1, <3>2, ZeroAt DEF fifo_vars, rd_side, wr_side
    <3>4. Contents' = Window(mem', 0, 0)
      <4>1. 0 <= 0 + Depth /\ 0 <= 0
        BY <2>0
      <4>2. ContentsIn(mem', rd_ptr_bin', wr_ptr_bin') = Window(mem', 0, 0)
        BY <3>3, <4>1, ContentsAt
      <4> QED BY <2>1, <4>2
    <3>5. Contents' = <<>>
      BY <3>4 DEF Window
    <3> QED BY <3>1, <3>3, <3>5 DEF Queue!Next, Queue!Restart
  <2>7. CASE UNCHANGED vars
    <3>1. UNCHANGED <<mem, rd_ptr_bin, wr_ptr_bin, rd_data, rd_valid, reset_sink_reset>>
      BY <2>7 DEF vars, fifo_vars, rd_side, wr_side, resets
    <3>2. Contents' = Contents
      BY <2>1, <3>1
    <3> QED BY <3>1, <3>2 DEF Queue!vars
  <2> QED BY <1>2, <2>2, <2>3, <2>4, <2>5, <2>6, <2>7 DEF Next
<1> QED BY <1>1, <1>2, AlwaysOrdered, PTL DEF Spec, ImplementsQueue, Queue!Spec
-----------------------------------------------------------------------------
(* How far behind the two sides are.                                         *)

\* The edges of the read clock until the read side sees the write pointer as
\* it is: three from its last step, the first of which may catch the old code.
ReadLag ==
  IF wr_gray_before # wr_ptr_gray THEN 3
  ELSE IF wr_ptr_gray_rd_meta # wr_ptr_gray THEN 2
  ELSE IF wr_ptr_gray_rd_sync # wr_ptr_gray THEN 1
  ELSE 0

\* The same on the other side.
WriteLag ==
  IF rd_gray_before # rd_ptr_gray THEN 3
  ELSE IF rd_ptr_gray_wr_meta # rd_ptr_gray THEN 2
  ELSE IF rd_ptr_gray_wr_sync # rd_ptr_gray THEN 1
  ELSE 0

\* Three read edges after the last write the level is exact, and three write
\* edges after the last read the FIFO is full to the writer only if it is:
\* each edge leaves the side that makes it less behind.  (In the end:
\* EventuallyVisible.)
LagBound ==
  /\ [](~reset_sink_reset /\ ReadLag = 0 => fill_level = Held)
  /\ [](~reset_sink_reset /\ WriteLag = 0 => (full_i <=> Held = Depth))
  /\ [][RdClock /\ ~txlink_rst /\ ReadLag # 0 => ReadLag' < ReadLag]_vars
  /\ [][WrClock /\ ~reset_sink_reset /\ WriteLag # 0 => WriteLag' < WriteLag]_vars

LEMMA CaughtSettled ==
  ASSUME NEW p \in Pointer, NEW g \in Caught(bin2gray(p), bin2gray(p))
  PROVE  g = bin2gray(p)
<1>1. bin2gray(p) \in Gray
  BY CodeAt
<1>2. g \in Gray /\ \A i \in Bit : g[i] = bin2gray(p)[i]
  BY DEF Caught
<1> HIDE DEF bin2gray
<1> QED BY <1>1, <1>2 DEF Gray

LEMMA LevelExact == FifoInv => (~reset_sink_reset /\ ReadLag = 0 => fill_level = Held)
<1> SUFFICES ASSUME FifoInv, ReadLag = 0 PROVE fill_level = Held
  OBVIOUS
<1>1. wr_ptr_gray_rd_sync = bin2gray(wr_ptr_bin) /\ wr_ptr_bin \in Pointer
  BY DEF FifoInv, TypeInv, ReadLag
<1>2. gray2bin(wr_ptr_gray_rd_sync) = wr_ptr_bin
  BY <1>1, Decoded
<1> QED BY <1>2 DEF fill_level, Held

LEMMA FullExact ==
  FifoInv => (~reset_sink_reset /\ WriteLag = 0 => (full_i <=> Held = Depth))
<1> SUFFICES ASSUME FifoInv, ~reset_sink_reset, WriteLag = 0
             PROVE  full_i <=> Held = Depth
  OBVIOUS
<1>1. PICK x0, x1, x2, x3, y0, y1, y2, y3 \in Nat :
        /\ InRow(x0, x1, x2, x3, y0, y1, y2, y3)
        /\ ReadSeen(x0, x1, x2, x3) /\ WriteSeen(y0, y1, y2, y3)
  BY DEF FifoInv, RunInv
<1>2. /\ x0 <= x3 /\ x3 < x0 + 2 * Depth
      /\ x3 <= y3 /\ y3 <= x3 + Depth /\ y3 < x3 + 2 * Depth
  BY <1>1, Sizes DEF InRow
<1>3. rd_ptr_gray_wr_sync = Code(x3) /\ wr_ptr_gray = Code(y3)
  BY <1>1 DEF FifoInv, TypeInv, ReadSeen, WriteSeen, WriteLag, Code
<1>4. full_i <=> y3 = x3 + Depth
  BY <1>2, <1>3, FullAt
<1>5. Held = y3 - x3
  BY <1>1, <1>2, Apart DEF Held, ReadSeen, WriteSeen
<1> QED BY <1>4, <1>5, Sizes

LEMMA ReaderCatchesUp ==
  ASSUME FifoInv, RdClock, ~txlink_rst, ReadLag # 0
  PROVE  ReadLag' < ReadLag
<1>1. /\ wr_ptr_gray' = wr_ptr_gray /\ wr_gray_before' = wr_ptr_gray
      /\ wr_ptr_gray_rd_sync' = wr_ptr_gray_rd_meta
      /\ wr_ptr_gray_rd_meta' \in Caught(wr_gray_before, wr_ptr_gray)
  BY DEF RdClock, RdEdge, SyncWr2Rd, wr_side
<1>2. wr_gray_before = wr_ptr_gray => wr_ptr_gray_rd_meta' = wr_ptr_gray
  BY <1>1, CaughtSettled DEF FifoInv, TypeInv
<1>3. CASE wr_gray_before # wr_ptr_gray
  <2>1. ReadLag = 3 /\ ReadLag' \in {0, 1, 2}
    BY <1>1, <1>3 DEF ReadLag
  <2> QED BY <2>1
<1>4. CASE wr_gray_before = wr_ptr_gray /\ wr_ptr_gray_rd_meta # wr_ptr_gray
  <2>1. ReadLag = 2 /\ ReadLag' \in {0, 1}
    BY <1>1, <1>2, <1>4 DEF ReadLag
  <2> QED BY <2>1
<1>5. CASE wr_gray_before = wr_ptr_gray /\ wr_ptr_gray_rd_meta = wr_ptr_gray
  <2>1. ReadLag = 1 /\ ReadLag' = 0
    BY <1>1, <1>2, <1>5 DEF ReadLag
  <2> QED BY <2>1
<1> QED BY <1>3, <1>4, <1>5

LEMMA WriterCatchesUp ==
  ASSUME FifoInv, WrClock, ~reset_sink_reset, WriteLag # 0
  PROVE  WriteLag' < WriteLag
<1>1. /\ rd_ptr_gray' = rd_ptr_gray /\ rd_gray_before' = rd_ptr_gray
      /\ rd_ptr_gray_wr_sync' = rd_ptr_gray_wr_meta
      /\ rd_ptr_gray_wr_meta' \in Caught(rd_gray_before, rd_ptr_gray)
  BY DEF WrClock, WrEdge, SyncRd2Wr, rd_side
<1>2. rd_gray_before = rd_ptr_gray => rd_ptr_gray_wr_meta' = rd_ptr_gray
  BY <1>1, CaughtSettled DEF FifoInv, TypeInv
<1>3. CASE rd_gray_before # rd_ptr_gray
  <2>1. WriteLag = 3 /\ WriteLag' \in {0, 1, 2}
    BY <1>1, <1>3 DEF WriteLag
  <2> QED BY <2>1
<1>4. CASE rd_gray_before = rd_ptr_gray /\ rd_ptr_gray_wr_meta # rd_ptr_gray
  <2>1. WriteLag = 2 /\ WriteLag' \in {0, 1}
    BY <1>1, <1>2, <1>4 DEF WriteLag
  <2> QED BY <2>1
<1>5. CASE rd_gray_before = rd_ptr_gray /\ rd_ptr_gray_wr_meta = rd_ptr_gray
  <2>1. WriteLag = 1 /\ WriteLag' = 0
    BY <1>1, <1>2, <1>5 DEF WriteLag
  <2> QED BY <2>1
<1> QED BY <1>3, <1>4, <1>5

\* A word that is stored, or an entry that is freed, is seen by the other side
\* after three of its edges, for every power of two as depth.
THEOREM LagBounded == Spec => LagBound
<1>1. FifoInv /\ [Next]_vars
        => [RdClock /\ ~txlink_rst /\ ReadLag # 0 => ReadLag' < ReadLag]_vars
  BY ReaderCatchesUp
<1>2. FifoInv /\ [Next]_vars
        => [WrClock /\ ~reset_sink_reset /\ WriteLag # 0 => WriteLag' < WriteLag]_vars
  BY WriterCatchesUp
<1> QED BY <1>1, <1>2, LevelExact, FullExact, AlwaysOrdered, PTL DEF Spec, LagBound
=============================================================================
