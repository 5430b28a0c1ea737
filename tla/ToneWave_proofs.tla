--------------------------- MODULE ToneWave_proofs ---------------------------
(***************************************************************************)
(* ValidIsTone for every size of the table, every width of phases and      *)
(* samples, every contents of the table and all settings.                  *)
(*                                                                         *)
(* The first half is arithmetic: the table with its mirrored addresses and *)
(* its signs is the whole wave, the product with an amplitude up to Half   *)
(* fits its register, and the accumulator stands for the number of samples *)
(* though both wrap.  The second half follows the pair through the table   *)
(* register and the output register.                                       *)
(***************************************************************************)
EXTENDS ToneWave, TLAPS

-----------------------------------------------------------------------------
(* Division and remainders. *)

LEMMA Division ==
  ASSUME NEW b \in Nat, NEW p \in Nat \ {0}
  PROVE  /\ b \div p \in Nat /\ b % p \in 0 .. p - 1
         /\ b = p * (b \div p) + (b % p)
  OBVIOUS

LEMMA Quotient ==
  ASSUME NEW b \in Nat, NEW p \in Nat \ {0}, NEW q \in Nat, NEW r \in 0 .. p - 1, b = p * q + r
  PROVE  b \div p = q /\ b % p = r
  OBVIOUS

(* Whole turns do not matter. *)
LEMMA Turns ==
  ASSUME NEW m \in Nat \ {0}, NEW q \in Nat, NEW x \in Nat
  PROVE  (m * q + x) % m = x % m
<1> DEFINE s == x \div m
           t == x % m
<1>1. s \in Nat /\ t \in 0 .. m - 1 /\ x = m * s + t
  BY Division
<1> HIDE DEF s, t
<1>2. m * (q + s) = m * q + m * s /\ m * q \in Nat /\ m * s \in Nat /\ q + s \in Nat
  BY <1>1
<1>3. m * q + x = m * (q + s) + t /\ m * q + x \in Nat
  BY <1>1, <1>2
<1>4. (m * q + x) % m = t
  BY <1>1, <1>2, <1>3, Quotient
<1> QED BY <1>4 DEF t

LEMMA AddThenMod ==
  ASSUME NEW x \in Nat, NEW k \in Nat, NEW m \in Nat \ {0}
  PROVE  ((x % m) + k) % m = (x + k) % m
<1> DEFINE q == x \div m
           r == x % m
<1>1. q \in Nat /\ r \in 0 .. m - 1 /\ x = m * q + r
  BY Division
<1> HIDE DEF q, r
<1>2. r + k \in Nat /\ m * q \in Nat
  BY <1>1
<1>3. (m * q + (r + k)) % m = (r + k) % m
  BY <1>1, <1>2, Turns
<1>4. x + k = m * q + (r + k)
  BY <1>1, <1>2
<1> QED BY <1>3, <1>4 DEF r

(* Dividing twice is dividing by the product. *)
LEMMA DivideTwice ==
  ASSUME NEW b \in Nat, NEW v \in Nat \ {0}, NEW w \in Nat \ {0}
  PROVE  b \div (v * w) = (b \div w) \div v
<1> DEFINE q == b \div w
           r == b % w
           s == q \div v
           t == q % v
<1>1. q \in Nat /\ r \in 0 .. w - 1 /\ b = w * q + r
  BY Division
<1>2. s \in Nat /\ t \in 0 .. v - 1 /\ q = v * s + t
  <2> HIDE DEF q
  <2> QED BY <1>1, Division
<1> HIDE DEF q, r, s, t
<1>3. w * q = (v * w) * s + w * t
  <2>1. w * q = w * (v * s + t)
    BY <1>2
  <2>2. w * (v * s + t) = w * (v * s) + w * t
    BY <1>1, <1>2
  <2>3. w * (v * s) = (v * w) * s
    BY <1>1, <1>2
  <2> QED BY <2>1, <2>2, <2>3
<1>4. w * t \in Nat /\ w * t <= w * (v - 1)
  <2>1. t \in Nat /\ v - 1 - t \in Nat
    BY <1>2
  <2>2. w * (v - 1 - t) \in Nat /\ w * t \in Nat
    BY <2>1
  <2>3. w * (v - 1) = w * t + w * (v - 1 - t)
    BY <2>1
  <2> QED BY <2>2, <2>3
<1>5. v * w \in Nat \ {0} /\ w * (v - 1) = v * w - w
  <2>1. w * (v - 1) = v * w - w
    OBVIOUS
  <2>2. v * w \in Nat /\ v * w # 0
    OBVIOUS
  <2> QED BY <2>1, <2>2
<1>6. w * t + r \in 0 .. v * w - 1
  <2> DEFINE x == w * t
             y == v * w
  <2>1. x \in Nat /\ x <= y - w /\ y \in Nat
    BY <1>4, <1>5
  <2> HIDE DEF x, y
  <2>2. x + r \in 0 .. y - 1
    BY <1>1, <2>1
  <2> QED BY <2>2 DEF x, y
<1>7. b = (v * w) * s + (w * t + r)
  <2> DEFINE x == (v * w) * s
             y == w * t
  <2>1. x \in Nat /\ y \in Nat /\ w * q = x + y
    BY <1>2, <1>3, <1>4, <1>5
  <2> HIDE DEF x, y
  <2>2. b = x + (y + r)
    BY <1>1, <2>1
  <2> QED BY <2>2 DEF x, y
<1>8. b \div (v * w) = s
  BY <1>2, <1>5, <1>6, <1>7, Quotient
<1> QED BY <1>8 DEF q, s

-----------------------------------------------------------------------------
(* The table. *)

LEMMA Sizes ==
  /\ LutDepth \in Nat \ {0} /\ StepWidth \in Nat \ {0} /\ Half \in Nat \ {0}
  /\ Quarter \in Nat \ {0} /\ Turn \in Nat \ {0} /\ Turn = 4 * Quarter
<1>1. LutDepth \in Nat \ {0} /\ StepWidth \in Nat \ {0} /\ Half \in Nat \ {0}
  BY WaveAssumption
<1>2. Quarter \in Nat \ {0}
  BY <1>1 DEF Quarter
<1> QED BY <1>1, <1>2 DEF Turn

LEMMA WrapType ==
  ASSUME NEW x \in Nat
  PROVE  wrap(x) \in Phase /\ wrap(x) \in Nat
<1>1. Turn \in Nat \ {0}
  BY Sizes
<1>2. x % Turn \in 0 .. Turn - 1
  BY <1>1, Division
<1> QED BY <1>1, <1>2 DEF wrap, Phase

(* Step of the wave and quadrant of a phase. *)
LEMMA StepAndQuadrant ==
  ASSUME NEW p \in Phase
  PROVE  /\ StepOf(p) \in 0 .. 4 * LutDepth - 1
         /\ get_quadrant(p) \in 0 .. 3
         /\ StepOf(p) % LutDepth \in 0 .. LutDepth - 1
         /\ StepOf(p) = LutDepth * get_quadrant(p) + (StepOf(p) % LutDepth)
<1> DEFINE a == StepOf(p)
           q == get_quadrant(p)
<1>1. p \in Nat /\ p < 4 * Quarter
  BY Sizes DEF Phase
<1>2. a \in Nat
  BY <1>1, Sizes, Division DEF StepOf
<1>3. q = a \div LutDepth
  BY <1>1, Sizes, DivideTwice DEF get_quadrant, StepOf, Quarter
<1>4. q \in Nat /\ p = Quarter * q + (p % Quarter) /\ p % Quarter \in 0 .. Quarter - 1
  <2>1. Quarter \in Nat \ {0}
    BY Sizes
  <2> QED BY <1>1, <2>1, Division DEF get_quadrant
<1>5. q < 4
  <2>1. SUFFICES ASSUME q >= 4 PROVE FALSE
    BY <1>4
  <2> HIDE DEF q
  <2>2. Quarter * q >= Quarter * 4
    <3>1. q - 4 \in Nat /\ Quarter \in Nat
      BY <1>4, <2>1, Sizes
    <3>2. Quarter * (q - 4) \in Nat /\ Quarter * q = Quarter * 4 + Quarter * (q - 4)
      BY <1>4, <3>1
    <3> QED BY <1>4, <3>1, <3>2
  <2> DEFINE x == Quarter * q
             y == p % Quarter
  <2>3. p = x + y /\ y >= 0 /\ x >= 4 * Quarter /\ x \in Int /\ y \in Int
    <3>1. Quarter \in Nat /\ x \in Int /\ Quarter * 4 = 4 * Quarter
      BY <1>4, Sizes
    <3> QED BY <1>4, <2>2, <3>1
  <2> HIDE DEF x, y
  <2> QED BY <1>1, <2>3, Sizes
<1>6. a % LutDepth \in 0 .. LutDepth - 1 /\ a = LutDepth * (a \div LutDepth) + (a % LutDepth)
  <2>1. LutDepth \in Nat \ {0}
    BY Sizes
  <2> HIDE DEF a
  <2> QED BY <1>2, <2>1, Division
<1>7. q \in 0 .. 3
  BY <1>4, <1>5
<1> HIDE DEF a, q
<1>8. a = LutDepth * q + (a % LutDepth)
  BY <1>3, <1>6
<1>9. a \in 0 .. 4 * LutDepth - 1
  <2>1. LutDepth * q \in {0, LutDepth, 2 * LutDepth, 3 * LutDepth}
    BY <1>7, Sizes
  <2> HIDE DEF a
  <2> QED BY <1>6, <1>8, <2>1, Sizes
<1> QED BY <1>6, <1>7, <1>8, <1>9 DEF a, q

(* The table, read at the mirrored address and with the sign of the quadrant,
   is the wave, and stays below Half on both sides of zero.               *)
LEMMA TableIsWave ==
  ASSUME NEW p \in Phase
  PROVE  /\ apply_quadrant_sign(Lut[get_lut_addr(p)], get_quadrant(p)) = Wave(StepOf(p))
         /\ Wave(StepOf(p)) \in -(Half - 1) .. Half - 1
<1> DEFINE a == StepOf(p)
           q == get_quadrant(p)
           r == a % LutDepth
           d == get_lut_addr(p)
<1>1. a \in 0 .. 4 * LutDepth - 1 /\ q \in 0 .. 3 /\ r \in 0 .. LutDepth - 1 /\ a = LutDepth * q + r
  BY StepAndQuadrant
<1>2. LutDepth \in Nat \ {0} /\ Half \in Nat \ {0}
  BY Sizes
<1>3. d = IF q % 2 = 1 THEN LutDepth - 1 - r ELSE r
  BY DEF get_lut_addr, StepOf
<1>4. \A x \in 0 .. LutDepth - 1 : Lut[x] \in 0 .. Half - 1
  BY WaveAssumption
<1> HIDE DEF a, q, r, d
<1>5. \A x \in 0 .. LutDepth - 1 : Lut[x] \in Int /\ Lut[x] \in -(Half - 1) .. Half - 1 /\ -Lut[x] \in -(Half - 1) .. Half - 1
  BY <1>2, <1>4
<1>6. CASE q = 0
  <2>1. a = r /\ d = r /\ a < LutDepth /\ a < 2 * LutDepth
    BY <1>1, <1>2, <1>3, <1>6
  <2>2. Wave(a) = Lut[r] /\ apply_quadrant_sign(Lut[d], q) = Lut[r]
    BY <1>6, <2>1 DEF Wave, apply_quadrant_sign
  <2> QED BY <1>1, <1>5, <2>2 DEF a, q, d
<1>7. CASE q = 1
  <2>1. a = LutDepth + r /\ d = LutDepth - 1 - r /\ ~(a < LutDepth) /\ a < 2 * LutDepth
        /\ 2 * LutDepth - 1 - a = d
    BY <1>1, <1>2, <1>3, <1>7
  <2>2. Wave(a) = Lut[d] /\ apply_quadrant_sign(Lut[d], q) = Lut[d]
    BY <1>7, <2>1 DEF Wave, apply_quadrant_sign
  <2>3. d \in 0 .. LutDepth - 1
    BY <1>1, <1>2, <2>1
  <2> QED BY <1>5, <2>2, <2>3 DEF a, q, d
<1>8. CASE q = 2
  <2>1. d = r /\ ~(a < 2 * LutDepth) /\ a - 2 * LutDepth = r /\ a - 2 * LutDepth < LutDepth
    BY <1>1, <1>2, <1>3, <1>8
  <2>2. Wave(a) = -Lut[r] /\ apply_quadrant_sign(Lut[d], q) = -Lut[r]
    BY <1>8, <2>1 DEF Wave, apply_quadrant_sign
  <2> QED BY <1>1, <1>5, <2>2 DEF a, q, d
<1>9. CASE q = 3
  <2>1. d = LutDepth - 1 - r /\ ~(a < 2 * LutDepth) /\ ~(a - 2 * LutDepth < LutDepth)
        /\ 2 * LutDepth - 1 - (a - 2 * LutDepth) = d
    BY <1>1, <1>2, <1>3, <1>9
  <2>2. Wave(a) = -Lut[d] /\ apply_quadrant_sign(Lut[d], q) = -Lut[d]
    BY <1>9, <2>1 DEF Wave, apply_quadrant_sign
  <2>3. d \in 0 .. LutDepth - 1
    BY <1>1, <1>2, <2>1
  <2> QED BY <1>5, <2>2, <2>3 DEF a, q, d
<1> QED BY <1>1, <1>6, <1>7, <1>8, <1>9

(* Up to an amplitude of Half the scaled sample fits its register. *)
LEMMA NoOverflow ==
  ASSUME NEW v \in -(Half - 1) .. Half - 1, NEW amp \in 0 .. Half
  PROVE  scaled(v, amp) = (v * amp) \div Half
<1> DEFINE u == (v * amp) \div Half
<1>1. Half \in Nat \ {0} /\ v \in Int /\ amp \in Nat
  BY Sizes
<1>2. v * amp \in Int /\ v * amp <= Half * Half - 1 /\ - (Half * Half) <= v * amp
  <2>1. Half * Half \in Int /\ Half * amp \in Int /\ v * amp \in Int
    BY <1>1
  <2>2. Half * amp <= Half * Half
    <3>1. Half - amp \in Nat
      BY <1>1
    <3>2. Half * (Half - amp) \in Nat /\ Half * Half = Half * amp + Half * (Half - amp)
      BY <1>1, <3>1
    <3> QED BY <2>1, <3>2
  <2>3. v * amp <= Half * amp - amp
    <3>1. Half - 1 - v \in Nat
      BY <1>1
    <3>2. (Half - 1 - v) * amp \in Nat /\ (Half - 1) * amp = v * amp + (Half - 1 - v) * amp
      BY <1>1, <3>1
    <3>3. (Half - 1) * amp = Half * amp - amp
      BY <1>1
    <3> QED BY <2>1, <3>2, <3>3, <1>1
  <2>4. - (Half * amp) <= v * amp
    <3>1. Half + v \in Nat
      BY <1>1
    <3>2. (Half + v) * amp \in Nat /\ (Half + v) * amp = Half * amp + v * amp
      BY <1>1, <3>1
    <3> QED BY <2>1, <3>2
  <2>5. CASE amp = 0
    <3>1. v * amp = 0 /\ Half * Half >= 1
      BY <1>1, <2>5
    <3> QED BY <2>1, <3>1
  <2>6. CASE amp # 0
    BY <1>1, <2>1, <2>2, <2>3, <2>4, <2>6
  <2> QED BY <2>5, <2>6
<1>3. u \in Int /\ v * amp = Half * u + ((v * amp) % Half) /\ (v * amp) % Half \in 0 .. Half - 1
  <2> DEFINE x == v * amp
  <2>1. x \in Int
    BY <1>2
  <2> HIDE DEF x
  <2>2. x \div Half \in Int /\ x = Half * (x \div Half) + (x % Half) /\ x % Half \in 0 .. Half - 1
    BY <1>1, <2>1
  <2> QED BY <2>2 DEF x
<1> HIDE DEF u
<1>4. u < Half
  <2>1. SUFFICES ASSUME u >= Half PROVE FALSE
    BY <1>1, <1>3
  <2>2. u - Half \in Nat
    BY <1>1, <1>3, <2>1
  <2>3. Half * (u - Half) \in Nat /\ Half * u = Half * Half + Half * (u - Half)
    BY <1>1, <1>3, <2>2
  <2> QED BY <1>1, <1>2, <1>3, <2>3
<1>5. u >= -Half
  <2>1. SUFFICES ASSUME u < -Half PROVE FALSE
    BY <1>1, <1>3
  <2>2. -Half - 1 - u \in Nat
    BY <1>1, <1>3, <2>1
  <2>3. Half * (-Half - 1 - u) \in Nat /\ Half * u = - (Half * Half) - Half - Half * (-Half - 1 - u)
    BY <1>1, <1>3, <2>2
  <2> QED BY <1>1, <1>2, <1>3, <2>3
<1>6. (u + Half) % (2 * Half) = u + Half
  <2> DEFINE x == u + Half
             m == 2 * Half
  <2>1. x \in 0 .. m - 1 /\ m \in Nat \ {0}
    BY <1>1, <1>3, <1>4, <1>5
  <2> HIDE DEF x, m
  <2>2. x = m * 0 + x
    BY <2>1
  <2>3. x % m = x
    BY <2>1, <2>2, Quotient
  <2> QED BY <2>3 DEF x, m
<1>7. scaled(v, amp) = ((u + Half) % (2 * Half)) - Half
  BY DEF scaled, u
<1> QED BY <1>1, <1>3, <1>6, <1>7 DEF u

-----------------------------------------------------------------------------
(* The phases of the samples, by their number. *)

PhaseAt(c, k) == wrap(c.phase_ofs + k * c.freq)

(* The accumulator when sample k is the next to be read. *)
AccAt(c, k) == wrap(k * c.freq)

Settled == [enable : BOOLEAN, conv_enable : BOOLEAN, freq : Phase,
            phase_ofs : Phase, amp : 0 .. 2 * Half - 1]

LEMMA WrapThenAdd ==
  ASSUME NEW x \in Nat, NEW k \in Nat
  PROVE  wrap(wrap(x) + k) = wrap(x + k)
<1>1. Turn \in Nat \ {0}
  BY Sizes
<1> QED BY <1>1, AddThenMod DEF wrap

LEMMA PhaseTypes ==
  ASSUME NEW c \in Settled, NEW k \in Nat
  PROVE  /\ c.freq \in Nat /\ c.phase_ofs \in Nat /\ k * c.freq \in Nat
         /\ PhaseAt(c, k) \in Phase /\ AccAt(c, k) \in Phase
<1>1. c.freq \in Nat /\ c.phase_ofs \in Nat
  BY DEF Settled, Phase
<1>2. k * c.freq \in Nat
  BY <1>1
<1>3. c.phase_ofs + k * c.freq \in Nat
  BY <1>1, <1>2
<1> QED BY <1>1, <1>2, <1>3, WrapType DEF PhaseAt, AccAt

(* What p_phase_addr and p_phase_acc make of the accumulator. *)
LEMMA NextSamples ==
  ASSUME NEW c \in Settled, NEW k \in Nat
  PROVE  /\ wrap(AccAt(c, k) + c.phase_ofs) = PhaseAt(c, k)
         /\ wrap(AccAt(c, k) + c.phase_ofs + c.freq) = PhaseAt(c, k + 1)
         /\ wrap(AccAt(c, k) + 2 * c.freq) = AccAt(c, k + 2)
<1> DEFINE f == c.freq
           o == c.phase_ofs
           x == k * f
<1>1. f \in Nat /\ o \in Nat /\ x \in Nat
  BY PhaseTypes
<1>2. (k + 1) * f = x + f /\ (k + 2) * f = x + 2 * f
  <2>1. f \in Nat
    BY <1>1
  <2> HIDE DEF f
  <2> QED BY <2>1
<1>3. AccAt(c, k) = wrap(x) /\ wrap(x) \in Nat
  BY <1>1, WrapType DEF AccAt
<1>4. PhaseAt(c, k) = wrap(o + x) /\ PhaseAt(c, k + 1) = wrap(o + (k + 1) * f) /\ AccAt(c, k + 2) = wrap((k + 2) * f)
  BY DEF PhaseAt, AccAt
<1> HIDE DEF x, f, o
<1>5. wrap(wrap(x) + o) = wrap(x + o)
  BY <1>1, WrapThenAdd
<1>6. wrap(wrap(x) + (o + f)) = wrap(x + (o + f))
  <2>1. o + f \in Nat
    BY <1>1
  <2> QED BY <1>1, <2>1, WrapThenAdd
<1>7. wrap(wrap(x) + 2 * f) = wrap(x + 2 * f)
  <2>1. 2 * f \in Nat
    BY <1>1
  <2> QED BY <1>1, <2>1, WrapThenAdd
<1>8. x + o = o + x /\ x + (o + f) = o + (x + f) /\ wrap(x) + (o + f) = wrap(x) + o + f
  BY <1>1, <1>3
<1> QED BY <1>2, <1>3, <1>4, <1>5, <1>6, <1>7, <1>8 DEF f, o

(* Counting samples modulo a turn loses nothing. *)
LEMMA CountWraps ==
  ASSUME NEW c \in Settled, NEW k \in Nat, NEW d \in Nat
  PROVE  /\ PhaseAt(c, wrap(k) + d) = PhaseAt(c, k + d)
         /\ AccAt(c, wrap(k) + d) = AccAt(c, k + d)
<1> DEFINE f == c.freq
           o == c.phase_ofs
           q == k \div Turn
           r == wrap(k)
<1>1. f \in Nat /\ o \in Nat /\ Turn \in Nat \ {0}
  BY PhaseTypes, Sizes
<1>2. q \in Nat /\ r \in Nat /\ k = Turn * q + r
  BY <1>1, Division DEF wrap
<1>3. PhaseAt(c, r + d) = wrap(o + (r + d) * f) /\ AccAt(c, r + d) = wrap((r + d) * f)
      /\ PhaseAt(c, k + d) = wrap(o + (k + d) * f) /\ AccAt(c, k + d) = wrap((k + d) * f)
  BY DEF PhaseAt, AccAt
<1> HIDE DEF f, o, q, r
<1>4. (k + d) * f = Turn * (q * f) + (r + d) * f
  <2>1. k + d = Turn * q + (r + d) /\ Turn * q \in Nat
    BY <1>1, <1>2
  <2> DEFINE x == Turn * q
             y == r + d
  <2>2. x \in Nat /\ y \in Nat /\ (x + y) * f = x * f + y * f
    BY <1>1, <1>2, <2>1
  <2>3. x * f = Turn * (q * f)
    BY <1>1, <1>2
  <2> QED BY <2>1, <2>2, <2>3
<1>5. q * f \in Nat /\ (r + d) * f \in Nat /\ Turn * (q * f) \in Nat
  <2>1. q * f \in Nat /\ r + d \in Nat
    BY <1>1, <1>2
  <2> QED BY <1>1, <2>1
<1> DEFINE n == q * f
           y == (r + d) * f
<1>6. n \in Nat /\ y \in Nat /\ Turn * n \in Nat /\ (k + d) * f = Turn * n + y
  BY <1>4, <1>5
<1> HIDE DEF n, y
<1>7. wrap(Turn * n + y) = wrap(y)
  BY <1>1, <1>6, Turns DEF wrap
<1>8. wrap(Turn * n + (o + y)) = wrap(o + y)
  <2>1. o + y \in Nat
    BY <1>1, <1>6
  <2> QED BY <1>1, <1>6, <2>1, Turns DEF wrap
<1>9. o + (Turn * n + y) = Turn * n + (o + y)
  BY <1>1, <1>6
<1> QED BY <1>3, <1>6, <1>7, <1>8, <1>9 DEF r, y

(* The pair p_output makes of samples k and k + 1 is the pair of the wave. *)
LEMMA PairIsWave ==
  ASSUME csr \in Settled, csr.amp <= Half, csr.conv_enable, NEW k \in Nat
  PROVE  Pair(k) = [s \in 1 .. 2 |->
           scaled(apply_quadrant_sign(Lut[get_lut_addr(PhaseAt(csr, k + s - 1))],
                                      get_quadrant(PhaseAt(csr, k + s - 1))), csr.amp)]
<1> DEFINE Made(p) == scaled(apply_quadrant_sign(Lut[get_lut_addr(p)], get_quadrant(p)), csr.amp)
<1>1. csr.amp \in 0 .. Half
  BY Sizes DEF Settled
<1>2. ASSUME NEW n \in Nat
      PROVE  Made(PhaseAt(csr, n)) = Sample(n)
  <2> DEFINE p == PhaseAt(csr, n)
             v == Wave(StepOf(p))
  <2>1. p \in Phase
    BY <1>2, PhaseTypes
  <2>2. apply_quadrant_sign(Lut[get_lut_addr(p)], get_quadrant(p)) = v /\ v \in -(Half - 1) .. Half - 1
    BY <2>1, TableIsWave
  <2> HIDE DEF v
  <2>3. scaled(v, csr.amp) = (v * csr.amp) \div Half
    BY <1>1, <2>2, NoOverflow
  <2>4. Sample(n) = (v * csr.amp) \div Half
    BY DEF Sample, v, PhaseAt
  <2> QED BY <2>2, <2>3, <2>4
<1> HIDE DEF Made
<1>3. Made(PhaseAt(csr, k)) = Sample(k) /\ Made(PhaseAt(csr, k + 1)) = Sample(k + 1)
  BY <1>2
<1>4. k + 1 - 1 = k /\ k + 2 - 1 = k + 1
  OBVIOUS
<1>5. [s \in 1 .. 2 |-> Made(PhaseAt(csr, k + s - 1))] = << Sample(k), Sample(k + 1) >>
  BY <1>3, <1>4
<1> QED BY <1>5 DEF Pair, Made

LEMMA PairWraps ==
  ASSUME csr \in Settled, NEW k \in Nat, NEW d \in Nat
  PROVE  Pair(wrap(k) + d) = Pair(k + d)
<1>1. /\ PhaseAt(csr, wrap(k) + d) = PhaseAt(csr, k + d)
      /\ PhaseAt(csr, wrap(k) + (d + 1)) = PhaseAt(csr, k + (d + 1))
  BY CountWraps
<1>2. wrap(k) \in Nat
  BY WrapType
<1>3. wrap(k) + (d + 1) = wrap(k) + d + 1 /\ k + (d + 1) = k + d + 1
  BY <1>2
<1>4. Sample(wrap(k) + d) = Sample(k + d) /\ Sample(wrap(k) + d + 1) = Sample(k + d + 1)
  BY <1>1, <1>3 DEF Sample, PhaseAt
<1> QED BY <1>4 DEF Pair

(* The table register holds samples k and k + 1. *)
Holds(k) ==
  /\ raw = [s \in 1 .. 2 |-> Lut[get_lut_addr(PhaseAt(csr, k + s - 1))]]
  /\ quad_d = [s \in 1 .. 2 |-> get_quadrant(PhaseAt(csr, k + s - 1))]

(* What an edge reads from the table and makes of the accumulator. *)
LEMMA TableRead ==
  ASSUME csr \in Settled, csr' = csr, ~rst, csr.enable, NcoClock,
         NEW k \in Nat, phase_acc = AccAt(csr, k)
  PROVE  phase_acc' = AccAt(csr, k + 2) /\ Holds(k)'
<1>1. /\ wrap(phase_acc + csr.phase_ofs) = PhaseAt(csr, k)
      /\ wrap(phase_acc + csr.phase_ofs + csr.freq) = PhaseAt(csr, k + 1)
      /\ wrap(phase_acc + 2 * csr.freq) = AccAt(csr, k + 2)
  BY NextSamples
<1>2. phases[1] = PhaseAt(csr, k) /\ phases[2] = PhaseAt(csr, k + 1)
  BY <1>1 DEF phases
<1>3. k + 1 - 1 = k /\ k + 2 - 1 = k + 1
  OBVIOUS
<1>4. \A s \in 1 .. 2 : phases[s] = PhaseAt(csr, k + s - 1)
  BY <1>2, <1>3
<1>5. phase_acc' = wrap(phase_acc + 2 * csr.freq)
  BY DEF NcoClock, p_phase_acc
<1>6. /\ raw' = [s \in 1 .. 2 |-> Lut[get_lut_addr(phases[s])]]
      /\ quad_d' = [s \in 1 .. 2 |-> get_quadrant(phases[s])]
  BY DEF NcoClock, p_lut_read
<1>7. /\ raw' = [s \in 1 .. 2 |-> Lut[get_lut_addr(PhaseAt(csr, k + s - 1))]]
      /\ quad_d' = [s \in 1 .. 2 |-> get_quadrant(PhaseAt(csr, k + s - 1))]
  BY <1>4, <1>6
<1> QED BY <1>1, <1>5, <1>7 DEF Holds

(* What an edge makes of the pair in the table register. *)
LEMMA PairSent ==
  ASSUME csr \in Settled, csr.amp <= Half, ~rst, NcoClock, NEW k \in Nat, Holds(k)
  PROVE  out' = Pair(k)
<1>1. CASE ~csr.conv_enable
  BY <1>1 DEF NcoClock, p_output, Pair
<1>2. CASE csr.conv_enable
  <2>1. out' = [s \in 1 .. 2 |-> scaled(apply_quadrant_sign(raw[s], quad_d[s]), csr.amp)]
    BY <1>2 DEF NcoClock, p_output
  <2>2. \A s \in 1 .. 2 : raw[s] = Lut[get_lut_addr(PhaseAt(csr, k + s - 1))]
                        /\ quad_d[s] = get_quadrant(PhaseAt(csr, k + s - 1))
    BY DEF Holds
  <2>3. Pair(k) = [s \in 1 .. 2 |->
          scaled(apply_quadrant_sign(Lut[get_lut_addr(PhaseAt(csr, k + s - 1))],
                                     get_quadrant(PhaseAt(csr, k + s - 1))), csr.amp)]
    BY <1>2, PairIsWave
  <2> QED BY <2>1, <2>2, <2>3
<1> QED BY <1>1, <1>2

(* An accumulator at rest is at sample 0. *)
LEMMA AtRest ==
  ASSUME NEW c \in Settled
  PROVE  AccAt(c, 0) = 0 /\ wrap(0) = 0
<1>1. c.freq \in Nat /\ Turn \in Nat \ {0}
  BY PhaseTypes, Sizes
<1>2. 0 * c.freq = 0 /\ 0 = Turn * 0 + 0 /\ 0 \in 0 .. Turn - 1
  BY <1>1
<1>3. 0 % Turn = 0
  BY <1>1, <1>2, Quotient
<1> QED BY <1>2, <1>3 DEF AccAt, wrap

-----------------------------------------------------------------------------
(* The pipeline. *)

TypeInv ==
  /\ rst \in BOOLEAN
  /\ csr \in Settled
  /\ phase_acc \in Phase
  /\ pipe_valid \in BOOLEAN \X BOOLEAN
  /\ sent \in Phase

\* The sample that the table register holds first while the tone is on.
ReadNext == IF pipe_valid[2] THEN sent + 2 ELSE 0

\* While the tone is on, the table register is one pair ahead of the output
\* and the accumulator two; before the first pair it is at rest.
PipeInv ==
  /\ pipe_valid[2] => pipe_valid[1]
  /\ ~pipe_valid[1] => phase_acc = 0
  /\ pipe_valid[1] /\ csr.enable =>
       phase_acc = AccAt(csr, ReadNext + 2) /\ Holds(ReadNext)

ToneInv == TypeInv /\ PipeInv /\ ValidIsTone

LEMMA ToneStarts == Init => ToneInv
<1> SUFFICES ASSUME Init PROVE ToneInv
  OBVIOUS
<1>1. 0 \in Phase
  BY Sizes DEF Phase
<1>2. csr \in Settled /\ ~csr.enable
  BY SettingsAssumption DEF Init, Settled
<1>3. pipe_valid = <<FALSE, FALSE>> /\ phase_acc = 0 /\ sent = 0 /\ rst = TRUE
  BY DEF Init, NcoInit
<1>4. TypeInv
  BY <1>1, <1>2, <1>3 DEF TypeInv
<1>5. PipeInv /\ ValidIsTone
  BY <1>2, <1>3 DEF PipeInv, ValidIsTone, samples_valid
<1> QED BY <1>4, <1>5 DEF ToneInv

(* Settings move only where the tone goes off. *)
LEMMA SettingsStand ==
  ASSUME csr \in Settled, csr' \in NextCsr
  PROVE  csr' \in Settled /\ (csr.enable /\ csr'.enable => csr' = csr)
<1>0. Settings(csr) \in Settled
  BY DEF Settings, Settled
<1>1. csr' \in Settled
  <2>1. \A e \in BOOLEAN : [csr EXCEPT !.enable = e] \in Settled
    BY DEF Settled
  <2>2. \A c \in BOOLEAN : [Settings(csr) EXCEPT !.conv_enable = c] \in Settled
    BY <1>0 DEF Settled
  <2>3. \A f \in Freq : [Settings(csr) EXCEPT !.freq = f] \in Settled
    BY <1>0, SettingsAssumption DEF Settled
  <2>4. \A o \in Offset : [Settings(csr) EXCEPT !.phase_ofs = o] \in Settled
    BY <1>0, SettingsAssumption DEF Settled
  <2>5. \A a \in Amp : [Settings(csr) EXCEPT !.amp = a] \in Settled
    BY <1>0, SettingsAssumption DEF Settled
  <2> QED BY <2>1, <2>2, <2>3, <2>4, <2>5 DEF NextCsr
<1>2. csr.enable /\ csr'.enable => csr' = csr
  BY DEF NextCsr, Settings, Settled
<1> QED BY <1>1, <1>2

LEMMA TypesKept == ASSUME TypeInv, ClockEdge PROVE TypeInv'
<1> USE DEF TypeInv, ClockEdge, NcoClock
<1>1. csr' \in Settled /\ rst' \in BOOLEAN
  BY SettingsStand
<1>2. pipe_valid' \in BOOLEAN \X BOOLEAN
  <2>1. pipe_valid[1] \in BOOLEAN
    OBVIOUS
  <2>2. \A b, c \in BOOLEAN : <<b, c>> \in BOOLEAN \X BOOLEAN
    OBVIOUS
  <2>3. pipe_valid' = <<FALSE, FALSE>> \/ pipe_valid' = <<TRUE, pipe_valid[1]>>
    BY DEF p_phase_acc
  <2> QED BY <2>1, <2>2, <2>3
<1>3. 0 \in Phase
  BY Sizes DEF Phase
<1>4. phase_acc' \in Phase
  <2>1. phase_acc + 2 * csr.freq \in Nat
    BY DEF Settled, Phase
  <2>2. wrap(phase_acc + 2 * csr.freq) \in Phase
    BY <2>1, WrapType
  <2> QED BY <1>3, <2>2 DEF p_phase_acc
<1>5. sent' \in Phase
  <2>1. sent + 2 \in Nat
    BY DEF Phase
  <2>2. wrap(sent + 2) \in Phase
    BY <2>1, WrapType
  <2> QED BY <1>3, <2>2
<1> QED BY <1>1, <1>2, <1>4, <1>5

(* The pipeline after an edge with the tone on and no reset. *)
LEMMA PairMovesOn ==
  ASSUME ToneInv, ClockEdge, ~rst, csr.enable, csr' = csr
  PROVE  PipeInv' /\ ValidIsTone'
<1>1. csr \in Settled /\ sent \in Nat /\ ReadNext \in Nat
  BY DEF ToneInv, TypeInv, ReadNext, Phase
<1> PICK n \in Nat : n = ReadNext
  BY <1>1
<1> PICK k \in Nat : k = IF pipe_valid[1] THEN n + 2 ELSE 0
  OBVIOUS
<1>2. pipe_valid' = <<TRUE, pipe_valid[1]>> /\ pipe_valid'[1] /\ pipe_valid'[2] = pipe_valid[1]
  <2>1. pipe_valid' = <<TRUE, pipe_valid[1]>>
    BY DEF ClockEdge, NcoClock, p_phase_acc
  <2>2. \A b : <<TRUE, b>>[1] = TRUE /\ <<TRUE, b>>[2] = b
    OBVIOUS
  <2>3. pipe_valid'[1] = TRUE /\ pipe_valid'[2] = pipe_valid[1]
    BY <2>1, <2>2
  <2> QED BY <2>1, <2>3
<1>3. pipe_valid[1] \in BOOLEAN /\ pipe_valid[2] \in BOOLEAN /\ (pipe_valid[2] => pipe_valid[1])
  BY DEF ToneInv, TypeInv, PipeInv
<1>4. phase_acc = AccAt(csr, k)
  <2>1. AccAt(csr, 0) = 0
    BY <1>1, AtRest
  <2> QED BY <2>1 DEF ToneInv, PipeInv
<1>5. phase_acc' = AccAt(csr, k + 2) /\ Holds(k)'
  BY <1>1, <1>4, TableRead DEF ClockEdge
<1>6. ASSUME pipe_valid[1] PROVE sent' = wrap(n)
  <2>1. wrap(0) = 0
    BY <1>1, AtRest
  <2> QED BY <1>3, <2>1 DEF ClockEdge, samples_valid, ReadNext
\* The number of the pair in the table register, wrapped.
<1>7. PICK m \in Nat : m = ReadNext' /\ m = IF pipe_valid[1] THEN wrap(n) + 2 ELSE 0
  <2>1. wrap(n) \in Nat
    BY WrapType
  <2>2. ReadNext' = IF pipe_valid[1] THEN wrap(n) + 2 ELSE 0
    BY <1>2, <1>6 DEF ReadNext
  <2> QED BY <2>1, <2>2
<1>8. ASSUME NEW d \in Nat
      PROVE  AccAt(csr, m + d) = AccAt(csr, k + d) /\ PhaseAt(csr, m + d) = PhaseAt(csr, k + d)
  <2>1. CASE pipe_valid[1]
    <3>1. wrap(n) \in Nat /\ 2 + d \in Nat
      BY WrapType
    <3>2. AccAt(csr, wrap(n) + (2 + d)) = AccAt(csr, n + (2 + d)) /\ PhaseAt(csr, wrap(n) + (2 + d)) = PhaseAt(csr, n + (2 + d))
      BY <1>1, <3>1, CountWraps
    <3>3. wrap(n) + (2 + d) = m + d /\ n + (2 + d) = k + d
      BY <1>7, <2>1, <3>1
    <3> QED BY <3>2, <3>3
  <2>2. CASE ~pipe_valid[1]
    BY <1>7, <2>2
  <2> QED BY <2>1, <2>2
<1>9. PipeInv'
  <2>1. AccAt(csr, m + 2) = AccAt(csr, k + 2)
    BY <1>8
  <2>2. \A s \in 1 .. 2 : PhaseAt(csr', m + s - 1) = PhaseAt(csr', k + s - 1)
    <3>1. PhaseAt(csr, m + 0) = PhaseAt(csr, k + 0) /\ PhaseAt(csr, m + 1) = PhaseAt(csr, k + 1)
      BY <1>8
    <3>2. m + 0 = m + 1 - 1 /\ k + 0 = k + 1 - 1 /\ m + 1 = m + 2 - 1 /\ k + 1 = k + 2 - 1
      OBVIOUS
    <3> QED BY <3>1, <3>2
  <2>3. Holds(m)'
    BY <1>5, <2>2 DEF Holds
  <2> QED BY <1>2, <1>5, <1>7, <2>1, <2>3 DEF PipeInv, Holds
<1>10. ValidIsTone'
  <2> SUFFICES ASSUME pipe_valid[1], csr.amp <= Half
               PROVE  out' = Pair(sent')
    BY <1>2 DEF ValidIsTone, samples_valid, Pair, Sample
  <2>1. Pair(wrap(n)) = Pair(n)
    <3>1. Pair(wrap(n) + 0) = Pair(n + 0)
      BY <1>1, PairWraps
    <3>2. wrap(n) \in Nat
      BY WrapType
    <3>3. wrap(n) + 0 = wrap(n) /\ n + 0 = n
      BY <3>2
    <3> QED BY <3>1, <3>3
  <2>2. Holds(n)
    BY DEF ToneInv, PipeInv
  <2>3. out' = Pair(n)
    BY <1>1, <2>2, PairSent DEF ClockEdge
  <2> QED BY <1>6, <2>1, <2>3
<1> QED BY <1>9, <1>10

LEMMA ToneStep == ASSUME ToneInv, [Next]_vars PROVE ToneInv'
<1>1. CASE ClockEdge
  <2>1. TypeInv'
    BY <1>1, TypesKept DEF ToneInv
  <2>2. CASE rst \/ ~csr.enable
    <3>1. phase_acc' = 0 /\ pipe_valid' = <<FALSE, FALSE>>
      BY <1>1, <2>2 DEF ClockEdge, NcoClock, p_phase_acc
    <3>2. PipeInv' /\ ValidIsTone'
      BY <3>1 DEF PipeInv, ValidIsTone, samples_valid
    <3> QED BY <2>1, <3>2 DEF ToneInv
  <2>3. CASE ~rst /\ csr.enable /\ ~csr'.enable
    <3>1. pipe_valid' = <<TRUE, pipe_valid[1]>>
      BY <1>1, <2>3 DEF ClockEdge, NcoClock, p_phase_acc
    <3>2. PipeInv' /\ ValidIsTone'
      BY <2>3, <3>1 DEF PipeInv, ValidIsTone, samples_valid
    <3> QED BY <2>1, <3>2 DEF ToneInv
  <2>4. CASE ~rst /\ csr.enable /\ csr'.enable
    <3>1. csr' = csr
      BY <1>1, <2>4, SettingsStand DEF ClockEdge, ToneInv, TypeInv
    <3>2. PipeInv' /\ ValidIsTone'
      BY <1>1, <2>4, <3>1, PairMovesOn
    <3> QED BY <2>1, <3>2 DEF ToneInv
  <2> QED BY <2>2, <2>3, <2>4
<1>2. CASE UNCHANGED vars
  BY <1>2 DEF vars, nco_vars, nco_inputs, nco_registers, ToneInv, TypeInv, PipeInv, ValidIsTone,
              ReadNext, Holds, samples_valid, Pair, Sample
<1> QED BY <1>1, <1>2 DEF Next

(* ValidIsTone: a valid pair is the next pair of the tone, for every table,
   every width and all settings, with the tone and the reset coming and
   going at any edge.                                                     *)
THEOREM ValidCorrect == Spec => []ValidIsTone
<1>1. ToneInv => ValidIsTone
  BY DEF ToneInv
<1> QED BY <1>1, ToneStarts, ToneStep, PTL DEF Spec
=============================================================================
