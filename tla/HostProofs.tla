----------------------------- MODULE HostProofs -----------------------------
(***************************************************************************)
(* Theorems about three of the programs that HostPrograms composes, whose   *)
(* properties its run checks: the routines of src/arith that multiply and   *)
(* divide, for every width, with the loop invariants that the source states *)
(* in comments; the devices of the simulator with the interrupts of its     *)
(* processor, for every clock, period, mask and nesting; and the console of *)
(* the simulator, for every program, memory and dialogue.                   *)
(***************************************************************************)
EXTENDS HostPrograms, SetInduction

\* The invariant with what it needs: the registers are natural numbers, and no
\* reduction by their width has changed one whose value still counts.
MulInv ==
  call = "mul" =>
    /\ A \in Nat /\ B \in Nat /\ R \in Nat
    /\ m \in Word /\ n \in Word
    /\ A * B + R = m * n

\* A product of two words fits two words.
LEMMA ProductFits ==
  ASSUME NEW a \in Word, NEW b \in Word
  PROVE a * b \in Nat /\ a * b < Base * Base
<1>. Base \in Nat /\ Base > 0 /\ a \in Nat /\ b \in Nat /\ a < Base /\ b < Base
  BY BitsAssumption DEF Word
<1>1. a * b \in Nat
  BY SMT
<1>2. a * b <= a * Base
  BY SMT
<1>3. a * Base < Base * Base
  BY SMT
<1>. QED BY <1>1, <1>2, <1>3, SMT

\* A number is twice its half and its low bit.
LEMMA Halved ==
  ASSUME NEW b \in Nat
  PROVE /\ b \div 2 \in Nat
        /\ b = 2 * (b \div 2) + (b % 2)
        /\ b % 2 \in {0, 1}
OBVIOUS

\* What is smaller than the divisor is the remainder.
LEMMA Small ==
  ASSUME NEW a \in Nat, NEW c \in Nat, a < c
  PROVE a % c = a
OBVIOUS

\* What one pass makes of a, b and r in registers that hold numbers below c.
PassResult(a, b, r, c) ==
  /\ (2 * a) % c \in Nat /\ b \div 2 \in Nat
  /\ (IF b % 2 = 1 THEN (r + a) % c ELSE r) \in Nat
  /\ ((2 * a) % c) * (b \div 2) + (IF b % 2 = 1 THEN (r + a) % c ELSE r) = a * b + r
\* One pass keeps A * B + R, as long as that fits the wide registers.
LEMMA PassKeeps ==
  ASSUME NEW a \in Nat, NEW b \in Nat, NEW r \in Nat, NEW c \in Nat,
         a * b + r < c
  PROVE PassResult(a, b, r, c)
<1>. DEFINE k == b \div 2
            r1 == IF b % 2 = 1 THEN (r + a) % c ELSE r
            a1 == (2 * a) % c
<1>1. k \in Nat /\ b = 2 * k + (b % 2) /\ b % 2 \in {0, 1}
  BY Halved
<1>2. a * b = 2 * (a * k) + a * (b % 2) /\ a * k \in Nat
  BY <1>1, SMT
<1>3. c > 0 /\ (2 * a) % c \in Nat /\ (r + a) % c \in Nat
  <2>1. a * b \in Nat
    BY SMT
  <2>. QED BY <2>1, SMT
<1>4. r1 = r + a * (b % 2)
  <2>1. CASE b % 2 = 1
    <3>1. r + a < c
      BY <1>2, <2>1, SMT
    <3>. QED BY <2>1, <3>1, Small, SMT
  <2>2. CASE b % 2 = 0
    BY <2>2, SMT
  <2>. QED BY <1>1, <2>1, <2>2
<1>5. a1 * k = 2 * (a * k)
  <2>1. CASE k = 0
    BY <1>3, <2>1, SMT
  <2>2. CASE k >= 1
    <3>1. a <= a * k
      BY <1>1, <2>2, SMT
    <3>2. a * (b % 2) \in Nat
      BY <1>1, SMT
    <3>3. 2 * a < c
      BY <1>2, <3>1, <3>2, SMT
    <3>4. a1 = 2 * a
      BY <3>3, Small, SMT
    <3>. QED BY <1>1, <3>4, SMT
  <2>. QED BY <1>1, <2>1, <2>2, SMT
<1>6. a1 * k + r1 = a * b + r
  <2>1. a * (b % 2) \in Nat /\ a * b \in Nat
    BY <1>1, SMT
  <2>2. \A p, q, s \in Nat : p = 2 * q + s => 2 * q + (r + s) = p + r
    OBVIOUS
  <2>3. a1 * k + r1 = 2 * (a * k) + (r + a * (b % 2))
    BY <1>4, <1>5, Zenon
  <2>4. 2 * (a * k) + (r + a * (b % 2)) = a * b + r
    BY <1>2, <2>1, <2>2, Zenon
  <2>. QED BY <2>3, <2>4, Zenon
<1>7. r1 \in Nat
  BY <1>3, SMT
<1>. QED BY <1>1, <1>3, <1>6, <1>7 DEF PassResult

\* Every step of the four routines keeps the multiplication's invariant.
LEMMA MulInvKept == MulInv /\ [IntNext]_intVars => MulInv'
<1>. SUFFICES ASSUME MulInv, [IntNext]_intVars, call' = "mul" PROVE MulInv'
  BY DEF MulInv
<1>. USE DEF MulInv
<1>1. CASE mul
  <2>1. PICK a \in Word, b \in Word : A' = a /\ B' = b /\ R' = 0 /\ m' = a /\ n' = b
    BY <1>1 DEF mul, Enter
  <2>2. a \in Nat /\ b \in Nat
    BY BitsAssumption DEF Word
  <2>3. a * b + 0 = a * b
    BY <2>2, SMT
  <2>. QED BY <2>1, <2>2, <2>3
<1>2. CASE mulPass
  <2>1. call = "mul" /\ m' = m /\ n' = n
    BY <1>2 DEF mulPass, Pass
  <2>2. m * n < Base * Base
    BY <2>1, ProductFits
  <2>3. Base * Base \in Nat
    BY BitsAssumption, SMT
  <2>4. /\ A' \in Nat /\ B' \in Nat /\ R' \in Nat
        /\ A' * B' + R' = A * B + R
    <3>1. A \in Nat /\ B \in Nat /\ R \in Nat /\ A * B + R < Base * Base
      BY <2>1, <2>2
    <3>2. PassResult(A, B, R, Base * Base)
      BY <2>3, <3>1, PassKeeps
    <3>. QED BY <1>2, <3>2 DEF mulPass, PassResult
  <2>. QED BY <2>1, <2>4
<1>3. CASE div \/ divPass \/ intMul \/ intMulPass \/ intMulReturn
           \/ intDiv \/ intDivPass \/ intDivReturn \/ Leave
  BY <1>3 DEF div, divPass, intMul, intMulPass, intMulReturn, intDiv, intDivPass,
     intDivReturn, Leave, Enter, Enter2, Pass, Return
<1>4. CASE UNCHANGED intVars
  BY <1>4 DEF intVars
<1>. QED BY <1>1, <1>2, <1>3, <1>4 DEF IntNext

\* Whatever the width, the multiplication of alg/mul.c keeps A * B + P in every
\* pass, the reductions of its registers to their widths included.
THEOREM ProductIsKept == IntSpec => []ProductKept
<1>1. IntInit => MulInv
  BY DEF IntInit, MulInv
<1>2. MulInv => ProductKept
  BY DEF MulInv, ProductKept
<1>. QED BY <1>1, <1>2, MulInvKept, PTL DEF IntSpec

----------------------------------------------------------------------------
(* Powers of two.                                                            *)

(* The recursive definition has a function that satisfies it.                *)
LEMMA PowerDefined ==
  Power = [k \in Nat |-> IF k = 0 THEN 1 ELSE 2 * Power[k - 1]]
<1> DEFINE f == [xx \in Int |-> 2 * xx]
           Eq(g) == g = [k \in Nat |-> IF k = 0 THEN 1 ELSE 2 * g[k - 1]]
<1>1. PICK g : Iteration(f, 1, g)
  BY IterationExists
<1>2. g[0] = 1 /\ \A k \in Nat : g[k + 1] = f[g[k]]
  <2>1. \A k \in Nat : k + 1 \in Nat /\ k + 1 # 0 /\ (k + 1) - 1 = k
    OBVIOUS
  <2> HIDE DEF f
  <2> QED BY <1>1, <2>1 DEF Iteration
<1>3. \A k \in Nat : g[k] \in Int
  <2> DEFINE Z == {k \in Nat : g[k] \in Int}
  <2>0. \A yy \in Int : f[yy] \in Int
    OBVIOUS
  <2>1. 0 \in Z /\ \A k \in Nat : k \in Z => k + 1 \in Z
    <3> HIDE DEF f
    <3> QED BY <1>2, <2>0
  <2> HIDE DEF Z
  <2>2. Nat \subseteq Z
    BY <2>1, NatSetInduction
  <2> QED BY <2>2 DEF Z
<1>4. Eq(g)
  <2>1. \A k \in Nat : k # 0 => k - 1 \in Nat
    OBVIOUS
  <2>2. \A k \in Nat : k # 0 => f[g[k - 1]] = 2 * g[k - 1]
    BY <1>3, <2>1
  <2>3. g = [k \in Nat |-> IF k = 0 THEN 1 ELSE f[g[k - 1]]]
    BY <1>1 DEF Iteration
  <2> HIDE DEF f
  <2> QED BY <2>2, <2>3
<1>5. Power = CHOOSE h : Eq(h)
  BY DEF Power
<1> HIDE DEF Eq
<1>6. Eq(Power)
  BY <1>4, <1>5
<1> QED BY <1>6 DEF Eq

\* Powers of two are positive numbers, each twice the one before.
LEMMA Powers ==
  /\ Power[0] = 1
  /\ \A k \in Nat : Power[k] \in Nat /\ Power[k] >= 1 /\ Power[k + 1] = 2 * Power[k]
<1>1. Power[0] = 1
  BY PowerDefined
<1>2. \A k \in Nat : Power[k + 1] = 2 * Power[k]
  <2>1. \A k \in Nat : k + 1 \in Nat /\ k + 1 # 0 /\ (k + 1) - 1 = k
    OBVIOUS
  <2> QED BY <2>1, PowerDefined
<1>3. \A k \in Nat : Power[k] \in Nat /\ Power[k] >= 1
  <2> DEFINE Z == {k \in Nat : Power[k] \in Nat /\ Power[k] >= 1}
  <2>1. 0 \in Z /\ \A k \in Nat : k \in Z => k + 1 \in Z
    BY <1>1, <1>2
  <2> HIDE DEF Z
  <2>2. Nat \subseteq Z
    BY <2>1, NatSetInduction
  <2> QED BY <2>2 DEF Z
<1> QED BY <1>1, <1>2, <1>3

\* The powers of the bits done and of those left make up the base.
LEMMA PowersSplit ==
  ASSUME NEW k \in 0 .. Bits
  PROVE  Power[k] * Power[Bits - k] = Base
<1> DEFINE Z == {j \in Nat : j <= Bits => Power[j] * Power[Bits - j] = Base}
<1>1. Bits \in Nat
  BY BitsAssumption
<1>2. 0 \in Z
  <2>1. Power[0] = 1 /\ Power[Bits] = Base /\ Bits - 0 = Bits /\ Power[Bits] \in Nat
    BY <1>1, Powers, BaseAssumption
  <2> QED BY <2>1
<1>3. ASSUME NEW j \in Nat, j \in Z
      PROVE  j + 1 \in Z
  <2> SUFFICES ASSUME j + 1 <= Bits
               PROVE  Power[j + 1] * Power[Bits - (j + 1)] = Base
    OBVIOUS
  <2>1. Bits - (j + 1) \in Nat /\ (Bits - (j + 1)) + 1 = Bits - j
    BY <1>1
  <2>2. Power[Bits - j] = 2 * Power[Bits - (j + 1)] /\ Power[j + 1] = 2 * Power[j]
    BY <2>1, Powers
  <2>3. Power[j] \in Nat /\ Power[Bits - (j + 1)] \in Nat
    BY <2>1, Powers
  <2>4. Power[j] * Power[Bits - j] = Base
    BY <1>1, <1>3
  <2> QED BY <2>2, <2>3, <2>4
<1> HIDE DEF Z
<1>4. Nat \subseteq Z
  BY <1>2, <1>3, NatSetInduction
<1> QED BY <1>1, <1>4 DEF Z

(* Half of Base, a whole number as there is at least one bit.                *)
Half == Base \div 2

\* The base is even, and every half of it is a number.
LEMMA Halves ==
  Half \in Nat /\ Half >= 1 /\ Base = 2 * Half /\ Base \in Nat
<1>1. Bits - 1 \in Nat /\ (Bits - 1) + 1 = Bits
  BY BitsAssumption
<1>2. Base = 2 * Power[Bits - 1] /\ Power[Bits - 1] \in Nat /\ Power[Bits - 1] >= 1
  BY <1>1, Powers, BaseAssumption
<1> QED BY <1>2 DEF Half

----------------------------------------------------------------------------
(* Shifts.                                                                   *)

\* Half of an even product.
LEMMA TwoDivides ==
  ASSUME NEW b \in Int
  PROVE  b \div 2 \in Int /\ b % 2 \in {0, 1} /\ b = 2 * (b \div 2) + (b % 2)
OBVIOUS

\* A sum with an even number is odd as the other number is.
LEMMA SameParity ==
  ASSUME NEW b \in Int, NEW d \in Int, NEW zz \in Int, b = d + 2 * zz
  PROVE  b % 2 = d % 2
OBVIOUS

(* One more bit is shifted out of x: it moves from the quotient to the       *)
(* remainder.                                                                *)
NextBit(xx, p) ==
  /\ xx \div (2 * p) = (xx \div p) \div 2
  /\ xx % (2 * p) = (xx % p) + p * ((xx \div p) % 2)

\* Shifting a bit out of one word into another.
LEMMA BitShifted ==
  ASSUME NEW xx \in Nat, NEW p \in Nat, p >= 1
  PROVE  NextBit(xx, p)
<1> DEFINE d == xx \div p
           r == xx % p
           h == d \div 2
           b == d % 2
<1>1. d \in Int /\ r \in 0 .. p - 1 /\ xx = p * d + r
  BY Division
<1>2. h \in Int /\ b \in {0, 1} /\ d = 2 * h + b
  BY <1>1, TwoDivides
<1> HIDE DEF d, r, h, b
<1>3. p * b + r \in 0 .. 2 * p - 1
  BY <1>1, <1>2
<1>4. xx = (2 * p) * h + (p * b + r)
  <2>1. p * d = (2 * p) * h + p * b
    BY <1>1, <1>2
  <2> QED BY <1>1, <1>2, <2>1
<1>5. xx \div (2 * p) = h /\ xx % (2 * p) = p * b + r
  BY <1>2, <1>3, <1>4, DivisionUnique, 2 * p \in Nat, 2 * p # 0
<1> QED BY <1>1, <1>2, <1>5 DEF NextBit, d, r, h, b

(* A shift to the left pushes the highest bit out.                           *)
LEMMA LeftShift ==
  ASSUME NEW w \in Word
  PROVE  /\ w \div Half \in {0, 1} /\ w % Half \in 0 .. Half - 1
         /\ w = Half * (w \div Half) + (w % Half)
         /\ (2 * w) % Base = 2 * (w % Half)
<1> DEFINE q == w \div Half
           r == w % Half
<1>0. Half \in Nat /\ Half >= 1 /\ Base = 2 * Half /\ w \in 0 .. 2 * Half - 1
  BY Halves DEF Word
<1>1. q \in Int /\ r \in 0 .. Half - 1 /\ w = Half * q + r
  BY <1>0, Division
<1> HIDE DEF q, r
<1>2. q \in {0, 1}
  <2>1. CASE q <= -1
    <3>1. Half * q <= Half * (-1)
      BY <1>0, <1>1, <2>1
    <3> QED BY <1>0, <1>1, <3>1
  <2>2. CASE q >= 2
    <3>1. Half * q >= Half * 2
      BY <1>0, <1>1, <2>2
    <3> QED BY <1>0, <1>1, <3>1
  <2> QED BY <1>1, <2>1, <2>2
<1>3. (2 * w) % Base = 2 * r
  <2>1. 2 * w = Base * q + 2 * r /\ 2 * r \in 0 .. Base - 1
    BY <1>0, <1>1, <1>2
  <2>2. (Base * q + 2 * r) % Base = 2 * r
    <3>1. Base \in Nat /\ Base # 0
      BY <1>0
    <3> QED BY <1>1, <2>1, <3>1, DivisionUnique
  <2> QED BY <2>1, <2>2
<1> QED BY <1>1, <1>2, <1>3 DEF q, r

----------------------------------------------------------------------------
(* Passes of the register machines.                                          *)

(* A pass of intMul: the multiplicand is added if the lowest bit says so, and *)
(* the pair is shifted to the right, the carry with it.                      *)
Sum(a, b, r) == a + (IF b % 2 = 1 THEN r ELSE 0)
\* One pass of intMul: the high word, the low word.
ShiftedA(s) == (s % Base) \div 2 + (IF s >= Base THEN Half ELSE 0)
ShiftedB(s, b) == b \div 2 + ((s % Base) % 2) * Half
\* The two words as one number, before and after the shift.
PairShifted(a, b, r) ==
  LET s == Sum(a, b, r)
  IN /\ ShiftedA(s) \in Word /\ ShiftedB(s, b) \in Word
     /\ 2 * (ShiftedA(s) * Base + ShiftedB(s, b)) = a * Base + b + (b % 2) * (r * Base - 1)

\* A pass of intMul halves the pair and adds the multiplicand for the bit
\* that leaves it.
LEMMA MulShifts ==
  ASSUME NEW a \in Word, NEW b \in Word, NEW r \in Word
  PROVE  PairShifted(a, b, r)
<1> DEFINE s == Sum(a, b, r)
           up == s % Base
<1>0. Half \in Nat /\ Half >= 1 /\ Base = 2 * Half /\ Base \in Nat
      /\ a \in 0 .. Base - 1 /\ b \in 0 .. Base - 1 /\ r \in 0 .. Base - 1
  BY Halves DEF Word
<1>1. b \div 2 \in Int /\ b % 2 \in {0, 1} /\ b = 2 * (b \div 2) + (b % 2)
  BY <1>0, TwoDivides
<1>2. s = a + (b % 2) * r /\ s \in Nat /\ s <= 2 * Base - 2
  BY <1>0, <1>1 DEF Sum
<1>3. up = (IF s >= Base THEN s - Base ELSE s)
  BY <1>0, <1>2
<1>4. up \in 0 .. Base - 1
  BY <1>0, <1>2, <1>3
<1>5. up \div 2 \in Int /\ up % 2 \in {0, 1} /\ up = 2 * (up \div 2) + (up % 2)
  BY <1>4, TwoDivides
<1>6. ShiftedA(s) = (up \div 2) + (IF s >= Base THEN Half ELSE 0)
      /\ ShiftedB(s, b) = (b \div 2) + (up % 2) * Half
  BY DEF ShiftedA, ShiftedB
<1> HIDE DEF s, up
<1>7. 2 * ShiftedA(s) = s - (up % 2) /\ ShiftedA(s) \in Int
  BY <1>0, <1>2, <1>3, <1>5, <1>6
<1>8. 2 * ShiftedB(s, b) = b - (b % 2) + (up % 2) * Base /\ ShiftedB(s, b) \in Int
  BY <1>0, <1>1, <1>5, <1>6
<1>9. ShiftedA(s) \in Word /\ ShiftedB(s, b) \in Word
  <2>1. 0 <= ShiftedA(s) /\ ShiftedA(s) <= Base - 1
    BY <1>0, <1>2, <1>4, <1>5, <1>7
  <2>2. 0 <= ShiftedB(s, b) /\ ShiftedB(s, b) <= Base - 1
    BY <1>0, <1>1, <1>5, <1>8
  <2> QED BY <1>7, <1>8, <2>1, <2>2, <1>0 DEF Word
<1>10. 2 * (ShiftedA(s) * Base + ShiftedB(s, b)) = (s - (up % 2)) * Base + (b - (b % 2) + (up % 2) * Base)
  <2>1. 2 * (ShiftedA(s) * Base + ShiftedB(s, b)) = (2 * ShiftedA(s)) * Base + 2 * ShiftedB(s, b)
    BY <1>0, <1>7, <1>8
  <2> QED BY <1>7, <1>8, <2>1
<1>11. (s - (up % 2)) * Base + (b - (b % 2) + (up % 2) * Base) = s * Base + b - (b % 2)
  BY <1>0, <1>1, <1>2, <1>5
<1>12. s * Base = a * Base + (b % 2) * (r * Base)
  BY <1>0, <1>1, <1>2
<1>13. s * Base + b - (b % 2) = a * Base + b + (b % 2) * (r * Base - 1)
  BY <1>0, <1>1, <1>2, <1>12
<1> QED BY <1>9, <1>10, <1>11, <1>13 DEF PairShifted, s

(* What intMul has made of the product after i passes.                       *)
Product(xx, r, j, a, b) ==
  a * Base + b = (xx % Power[j]) * r * Power[Bits - j] + xx \div Power[j]

\* A pass keeps Product: the part of the product made so far, and the bits left.
LEMMA MulPassed ==
  ASSUME NEW xx \in Word, NEW r \in Word, NEW j \in 0 .. Bits - 1, NEW a \in Word,
         NEW b \in Word,
         Product(xx, r, j, a, b)
  PROVE  Product(xx, r, j + 1, ShiftedA(Sum(a, b, r)), ShiftedB(Sum(a, b, r), b))
<1> DEFINE p == Power[j]
           q == Power[Bits - (j + 1)]
           e == xx % p
           d == xx \div p
           a1 == ShiftedA(Sum(a, b, r))
           b1 == ShiftedB(Sum(a, b, r), b)
<1>0. Half \in Nat /\ Half >= 1 /\ Base = 2 * Half /\ Base \in Nat
      /\ a \in Nat /\ b \in Nat /\ r \in Nat /\ xx \in Nat
  BY Halves DEF Word
<1>1. /\ p \in Nat /\ p >= 1 /\ q \in Nat /\ q >= 1
      /\ Power[j + 1] = 2 * p /\ Power[Bits - j] = 2 * q
  <2>1. Bits - (j + 1) \in Nat /\ (Bits - (j + 1)) + 1 = Bits - j /\ j \in Nat
    BY BitsAssumption
  <2> QED BY <2>1, Powers
<1>2. p * (2 * q) = Base
  <2>1. j \in 0 .. Bits
    BY BitsAssumption
  <2> QED BY <1>1, <2>1, PowersSplit
<1>3. d \in Int /\ e \in Nat /\ xx = p * d + e
  <2>1. d \in Int /\ e \in 0 .. p - 1 /\ xx = p * d + e
    <3>1. xx \in Int /\ p \in Nat /\ p # 0
      BY <1>0, <1>1
    <3> HIDE DEF p
    <3> QED BY <3>1, Division
  <2> HIDE DEF p, d, e
  <2> QED BY <1>1, <2>1
<1>4. xx % (2 * p) = e + p * (d % 2) /\ xx \div (2 * p) = d \div 2
  BY <1>0, <1>1, BitShifted DEF NextBit
<1>5. d \div 2 \in Int /\ d % 2 \in {0, 1} /\ d = 2 * (d \div 2) + (d % 2)
  BY <1>3, TwoDivides
<1>6. a * Base + b = e * r * (2 * q) + d
  BY <1>1 DEF Product
<1>7. a1 \in Word /\ b1 \in Word /\ 2 * (a1 * Base + b1) = a * Base + b + (b % 2) * (r * Base - 1)
  BY MulShifts DEF PairShifted
<1>8. a1 \in Nat /\ b1 \in Nat
  BY <1>7, <1>0 DEF Word
<1> HIDE DEF p, q, e, d, a1, b1
<1>9. b % 2 = d % 2
  <2>1. b = d + 2 * (e * r * q - a * Half)
    <3>1. e * r * (2 * q) = 2 * (e * r * q) /\ a * Base = 2 * (a * Half)
      BY <1>0, <1>1, <1>3
    <3>2. e * r * q \in Int /\ a * Half \in Int
      BY <1>0, <1>1, <1>3
    <3> QED BY <1>0, <1>3, <1>6, <3>1, <3>2
  <2>2. e * r * q - a * Half \in Int
    BY <1>0, <1>1, <1>3
  <2> DEFINE zz == e * r * q - a * Half
  <2> HIDE DEF zz
  <2>3. b \in Int /\ zz \in Int /\ b = d + 2 * zz
    BY <1>0, <2>1, <2>2 DEF zz
  <2> QED BY <1>3, <2>3, SameParity
<1>10. 2 * ((e + p * (d % 2)) * r * q + d \div 2) = a * Base + b + (d % 2) * (r * Base - 1)
  <2>1. 2 * ((e + p * (d % 2)) * r * q + d \div 2)
          = (e * r * (2 * q) + d) + (d % 2) * (r * (p * (2 * q)) - 1)
    <3>1. CASE d % 2 = 0
      BY <1>0, <1>1, <1>3, <1>5, <3>1
    <3>2. CASE d % 2 = 1
      BY <1>0, <1>1, <1>3, <1>5, <3>2
    <3> QED BY <1>5, <3>1, <3>2
  <2> QED BY <1>2, <1>6, <2>1
<1>11. 2 * (a1 * Base + b1) = 2 * ((e + p * (d % 2)) * r * q + d \div 2)
  BY <1>7, <1>9, <1>10
<1>12. a1 * Base + b1 = (e + p * (d % 2)) * r * q + d \div 2
  <2>1. a1 * Base + b1 \in Int /\ (e + p * (d % 2)) * r * q + d \div 2 \in Int
    BY <1>0, <1>1, <1>3, <1>5, <1>8
  <2> HIDE DEF Half
  <2>2. \A yy, zz \in Int : 2 * yy = 2 * zz => yy = zz
    OBVIOUS
  <2> QED BY <1>11, <2>1, <2>2
<1>13. a1 * Base + b1 = (xx % Power[j + 1]) * r * Power[Bits - (j + 1)] + xx \div Power[j + 1]
  BY <1>1, <1>4, <1>12 DEF q
<1> QED BY <1>13 DEF Product, a1, b1

(* A pass of intDiv: the dividend's highest bit joins the remainder, which is *)
(* less than the divisor afterwards.                                         *)
Joined(a, b) == ((2 * a) % Base) + b \div Half
\* One pass of intDiv: what is compared, the new remainder, the new quotient.
Below(s, r) == (s - r) % Base
DividedA(s, r) == IF Below(s, r) > s THEN s ELSE Below(s, r)
DividedB(s, r, b) == ((2 * b) % Base) + (IF Below(s, r) > s THEN 0 ELSE 1)

\* After a pass of intDiv the registers are words.
LEMMA DivWords ==
  ASSUME NEW a \in Word, NEW b \in Word, NEW r \in Word
  PROVE  DividedA(Joined(a, b), r) \in Word /\ DividedB(Joined(a, b), r, b) \in Word
<1> DEFINE s == Joined(a, b)
           t == Below(s, r)
<1>0. Half \in Nat /\ Half >= 1 /\ Base = 2 * Half /\ Base \in Nat /\ Base # 0 /\ r \in Int
  BY Halves DEF Word
<1>1. (2 * a) % Base \in 0 .. Base - 2 /\ (2 * b) % Base \in 0 .. Base - 2 /\ b \div Half \in {0, 1}
  <2>1. ASSUME NEW w \in Word
        PROVE  (2 * w) % Base \in 0 .. Base - 2 /\ w \div Half \in {0, 1}
    <3> DEFINE l == w % Half
    <3>1. l \in 0 .. Half - 1 /\ w \div Half \in {0, 1} /\ (2 * w) % Base = 2 * l
      BY LeftShift
    <3> HIDE DEF l
    <3> QED BY <1>0, <3>1
  <2> QED BY <2>1
<1>2. s \in 0 .. Base - 1
  BY <1>0, <1>1 DEF Joined
<1>3. t \in 0 .. Base - 1
  <2> HIDE DEF s
  <2>1. s - r \in Int
    BY <1>0, <1>2
  <2> QED BY <1>0, <2>1, Division DEF Below
<1> HIDE DEF s, t
<1>4. DividedA(s, r) \in Word
  BY <1>2, <1>3 DEF DividedA, t, Word
<1>5. DividedB(s, r, b) \in Word
  BY <1>0, <1>1 DEF DividedB, Word
<1> QED BY <1>4, <1>5 DEF s

(* What intDiv has made of quotient and remainder after i passes.            *)
Quotient(xx, r, j, a, b) ==
  /\ a < r
  /\ b = (xx % Power[Bits - j]) * Power[j] + (xx \div Power[Bits - j]) \div r
  /\ a = (xx \div Power[Bits - j]) % r

\* A pass keeps Quotient: the dividend's bits taken so far, divided.
LEMMA DivPassed ==
  ASSUME NEW xx \in Word, NEW r \in Word, r # 0, NEW j \in 0 .. Bits - 1,
         NEW a \in Word, NEW b \in Word, Quotient(xx, r, j, a, b)
  PROVE  Quotient(xx, r, j + 1, DividedA(Joined(a, b), r), DividedB(Joined(a, b), r, b))
<1> DEFINE p == Power[j]
           q == Power[Bits - (j + 1)]
           h1 == xx \div q
           h == xx \div (2 * q)
           e == xx % (2 * q)
           l == xx % q
           c == h1 % 2
           d == h \div r
           s == Joined(a, b)
<1>0. Half \in Nat /\ Half >= 1 /\ Base = 2 * Half /\ Base \in Nat
      /\ a \in Nat /\ b \in Nat /\ r \in Nat /\ r >= 1 /\ r < Base /\ xx \in Nat /\ xx < Base
  BY Halves DEF Word
<1>1. /\ p \in Nat /\ p >= 1 /\ q \in Nat /\ q >= 1
      /\ Power[j + 1] = 2 * p /\ Power[Bits - j] = 2 * q
  <2>1. Bits - (j + 1) \in Nat /\ (Bits - (j + 1)) + 1 = Bits - j /\ j \in Nat
    BY BitsAssumption
  <2> QED BY <2>1, Powers
<1>2. p * q = Half
  <2>1. j \in 0 .. Bits
    BY BitsAssumption
  <2>2. p * (2 * q) = Base
    BY <1>1, <2>1, PowersSplit
  <2>3. p * (2 * q) = 2 * (p * q) /\ p * q \in Nat
    <3> HIDE DEF p, q
    <3> QED BY <1>1
  <2> HIDE DEF p, q
  <2> QED BY <1>0, <2>2, <2>3
<1>3. h = h1 \div 2 /\ e = l + q * c
  BY <1>0, <1>1, BitShifted DEF NextBit
<1>4. h1 \in Int /\ l \in 0 .. q - 1 /\ xx = q * h1 + l
  <2>1. xx \in Int /\ q \in Nat /\ q # 0
    BY <1>0, <1>1
  <2> HIDE DEF q
  <2> QED BY <2>1, Division
<1>5. h \in Int /\ c \in {0, 1} /\ h1 = 2 * h + c
  BY <1>3, <1>4, TwoDivides
<1>6. a < r /\ b = e * p + d /\ a = h % r
  BY <1>1 DEF Quotient
<1>7. d \in Int /\ h = r * d + a
  <2> HIDE DEF h
  <2> QED BY <1>0, <1>5, <1>6, Division
<1>8. Below(s, r) = (s - r) % Base /\ s = ((2 * a) % Base) + b \div Half
  BY DEF Joined, Below
<1> HIDE DEF p, q, h1, h, e, l, c, d, s

(* The quotient so far has j bits, the rest of the dividend the others.      *)
<1>9. h >= 0 /\ h < p
  <2>1. xx = (2 * q) * h + (q * c + l) /\ q * c + l \in 0 .. 2 * q - 1
    <3>1. q * h1 = (2 * q) * h + q * c
      BY <1>1, <1>4, <1>5
    <3> QED BY <1>0, <1>1, <1>4, <1>5, <3>1
  <2>2. xx < (2 * q) * p
    BY <1>0, <1>1, <1>2
  <2>3. CASE h <= -1
    <3>1. (2 * q) * h <= (2 * q) * (-1)
      BY <1>1, <1>5, <2>3
    <3> QED BY <1>0, <1>1, <1>5, <2>1, <3>1
  <2>4. CASE h >= p
    <3>1. (2 * q) * h >= (2 * q) * p
      BY <1>1, <1>5, <2>4
    <3> QED BY <1>0, <1>1, <1>5, <2>1, <2>2, <3>1
  <2> QED BY <1>1, <1>5, <2>3, <2>4
<1>10. d >= 0 /\ d <= h
  <2>1. CASE d <= -1
    <3>1. r * d <= r * (-1)
      BY <1>0, <1>7, <2>1
    <3> QED BY <1>0, <1>5, <1>6, <1>7, <1>9, <3>1
  <2>2. CASE d >= 0
    <3>1. r * d >= d
      BY <1>0, <1>7, <2>2
    <3> QED BY <1>0, <1>5, <1>7, <2>2, <3>1
  <2> QED BY <1>7, <2>1, <2>2
<1>11. a <= h
  <2>1. r * d >= 0
    BY <1>0, <1>7, <1>10
  <2> QED BY <1>0, <1>5, <1>7, <2>1
<1>12. p <= Half
  <2>1. p * 1 <= p * q
    BY <1>1
  <2> QED BY <1>1, <1>2, <2>1

(* The highest bit of b is the next bit of the dividend.                     *)
<1>13. b \div Half = c /\ b % Half = l * p + d
  <2>1. l * p <= (q - 1) * p
    BY <1>1, <1>4
  <2>2. (q - 1) * p = Half - p
    <3>1. (q - 1) * p = p * q - p
      BY <1>1
    <3> QED BY <1>1, <1>2, <3>1
  <2>3. l * p \in Nat
    BY <1>1, <1>4
  <2>4. l * p + d \in 0 .. Half - 1
    BY <1>0, <1>1, <1>5, <1>7, <1>9, <1>10, <2>1, <2>2, <2>3
  <2>5. b = Half * c + (l * p + d)
    <3>1. e * p = l * p + c * (p * q)
      BY <1>1, <1>3, <1>4, <1>5
    <3> QED BY <1>0, <1>2, <1>5, <1>6, <1>7, <2>3, <3>1
  <2>6. Half # 0 /\ c \in Int
    BY <1>0, <1>5
  <2> QED BY <1>0, <2>4, <2>5, <2>6, DivisionUnique
<1>14. (2 * b) % Base = 2 * (l * p + d)
  BY <1>13, LeftShift
<1>15. (2 * a) % Base = 2 * a
  <2>1. 2 * a < Base
    BY <1>0, <1>1, <1>5, <1>9, <1>11, <1>12
  <2> QED BY <1>0, <2>1, Small
<1>16. s = 2 * a + c /\ s < Base /\ s \in Nat
  <2>1. s = 2 * a + c
    BY <1>8, <1>13, <1>15
  <2>2. a + 1 <= Half
    BY <1>0, <1>1, <1>5, <1>9, <1>11, <1>12
  <2> QED BY <1>0, <1>5, <2>1, <2>2

(* The remainder is enlarged by that bit and reduced if it can be.           *)
<1>17. h1 = r * (2 * d) + s
  BY <1>0, <1>5, <1>7, <1>16
<1> DEFINE yy == IF s >= r THEN 1 ELSE 0
<1>18. /\ Below(s, r) > s <=> s < r
       /\ s >= r => Below(s, r) = s - r
  <2>1. CASE s >= r
    <3>1. s - r \in Nat /\ s - r < Base
      BY <1>0, <1>16, <2>1
    <3>2. (s - r) % Base = s - r
      BY <1>0, <3>1, Small
    <3> QED BY <1>0, <1>8, <1>16, <2>1, <3>2
  <2>2. CASE s < r
    <3>1. s - r = Base * (-1) + (s - r + Base) /\ s - r + Base \in 0 .. Base - 1
      BY <1>0, <1>16, <2>2
    <3>2. Base # 0 /\ -1 \in Int
      BY <1>0
    <3>3. (Base * (-1) + (s - r + Base)) % Base = s - r + Base
      BY <1>0, <3>1, <3>2, DivisionUnique
    <3>4. Below(s, r) = s - r + Base
      BY <1>8, <3>1, <3>3
    <3> QED BY <1>0, <1>16, <2>2, <3>4
  <2> QED BY <1>0, <1>16, <2>1, <2>2
<1>19. DividedA(s, r) = s - r * yy /\ DividedB(s, r, b) = 2 * (l * p + d) + yy
  BY <1>0, <1>14, <1>16, <1>18 DEF DividedA, DividedB
<1>20. s - r * yy \in 0 .. r - 1 /\ 2 * d + yy \in Int /\ yy \in {0, 1}
  BY <1>0, <1>6, <1>5, <1>7, <1>16
<1> HIDE DEF yy
<1>21. h1 = r * (2 * d + yy) + (s - r * yy)
  BY <1>0, <1>7, <1>16, <1>17, <1>20
<1>22. h1 \div r = 2 * d + yy /\ h1 % r = s - r * yy
  <2>1. r # 0
    BY <1>0
  <2> QED BY <1>0, <1>20, <1>21, <2>1, DivisionUnique
<1>23. 2 * (l * p + d) + yy = l * (2 * p) + (2 * d + yy)
  BY <1>1, <1>4, <1>7, <1>20
<1>24. DividedA(s, r) < r
  BY <1>0, <1>19, <1>20
<1> QED BY <1>1, <1>19, <1>22, <1>23, <1>24 DEF Quotient, h1, l, q, s

(* A pass of div: the divisor is shifted to the right, the quotient to the   *)
(* left.                                                                     *)
Divided(xx, r, j, a, b, v) ==
  /\ a = r * Power[Bits - j] /\ b \in Nat /\ b < Power[j] /\ v \in Nat
  /\ a * b + v = xx /\ v < a

\* A pass of div keeps its loop invariant.
LEMMA DivKeeps ==
  ASSUME NEW xx \in Nat, NEW r \in Nat, NEW j \in 0 .. Bits - 1, NEW a, NEW b, NEW v,
         Divided(xx, r, j, a, b, v),
         NEW bit, bit = IF v >= a \div 2 THEN 1 ELSE 0
  PROVE  Divided(xx, r, j + 1, a \div 2, ((2 * b) % Base) + bit, IF v >= a \div 2 THEN v - a \div 2 ELSE v)
<1> DEFINE p == Power[j]
           q == Power[Bits - (j + 1)]
           h == r * q
<1>0. Half \in Nat /\ Half >= 1 /\ Base = 2 * Half /\ Base \in Nat
  BY Halves
<1>1. /\ p \in Nat /\ p >= 1 /\ q \in Nat /\ q >= 1
      /\ Power[j + 1] = 2 * p /\ Power[Bits - j] = 2 * q
  <2>1. Bits - (j + 1) \in Nat /\ (Bits - (j + 1)) + 1 = Bits - j /\ j \in Nat
    BY BitsAssumption
  <2> QED BY <2>1, Powers
<1>2. p * (2 * q) = Base
  <2>1. j \in 0 .. Bits
    BY BitsAssumption
  <2> QED BY <1>1, <2>1, PowersSplit
<1>3. a = r * (2 * q) /\ b \in Nat /\ b < p /\ v \in Nat /\ a * b + v = xx /\ v < a
  BY <1>1 DEF Divided
<1> HIDE DEF p, q
<1>4. a = 2 * h /\ h \in Nat
  BY <1>1, <1>3
<1> HIDE DEF h
<1>5. a \div 2 = h
  BY <1>4
<1>6. 2 * p <= Base
  <2>1. p * 2 <= p * (2 * q)
    BY <1>1
  <2> QED BY <1>1, <1>2, <2>1
<1>7. (2 * b) % Base = 2 * b
  <2>1. 2 * b < Base /\ 2 * b \in Nat /\ Base \in Nat
    BY <1>0, <1>1, <1>3, <1>6
  <2> QED BY <2>1, Small
<1> DEFINE b1 == 2 * b + bit
           v1 == IF v >= h THEN v - h ELSE v
<1>8. b1 \in Nat /\ b1 < 2 * p /\ v1 \in Nat /\ v1 < h
  BY <1>1, <1>3, <1>4, <1>5
<1>9. h * b1 + v1 = xx
  <2>1. a * b = h * (2 * b)
    BY <1>3, <1>4
  <2>2. CASE v >= h
    <3>1. bit = 1 /\ h * b1 = h * (2 * b) + h
      BY <1>3, <1>4, <1>5, <2>2
    <3>2. h * (2 * b) \in Int
      BY <1>3, <1>4
    <3> QED BY <1>3, <1>4, <2>1, <2>2, <3>1, <3>2
  <2>3. CASE v < h
    <3>1. bit = 0 /\ h * b1 = h * (2 * b)
      BY <1>3, <1>4, <1>5, <2>3
    <3> QED BY <1>3, <1>4, <2>1, <2>3, <3>1
  <2> QED BY <1>3, <1>4, <2>2, <2>3
<1> QED BY <1>1, <1>5, <1>7, <1>8, <1>9 DEF Divided, h, q

----------------------------------------------------------------------------
(* Signs.                                                                    *)

\* The magnitude of an operand is that of its value.
LEMMA Magnitudes ==
  ASSUME NEW w \in Word, NEW v \in BOOLEAN
  PROVE  /\ Abs(w, v) \in Word
         /\ IF ~ v /\ Negative(w) THEN w - Base = - Abs(w, v) ELSE w = Abs(w, v)
         /\ w # 0 => Abs(w, v) # 0
<1>0. Half \in Nat /\ Half >= 1 /\ Base = 2 * Half /\ Base \in Nat /\ w \in 0 .. Base - 1
  BY Halves DEF Word
<1>1. CASE ~ v /\ Negative(w)
  <2>1. w >= Half
    BY <1>1 DEF Negative, Half
  <2>2. Base - w \in Nat /\ Base - w < Base
    BY <1>0, <2>1
  <2>3. (Base - w) % Base = Base - w
    BY <1>0, <2>2, Small
  <2>4. Abs(w, v) = Base - w
    BY <1>1, <2>3 DEF Abs, Negate
  <2> QED BY <1>0, <1>1, <2>1, <2>4 DEF Word
<1>2. CASE ~ (~ v /\ Negative(w))
  BY <1>0, <1>2 DEF Abs, Word
<1> QED BY <1>1, <1>2

\* Two's complement: a word and its negation make up the base.
LEMMA Negated ==
  ASSUME NEW w \in Word
  PROVE  /\ Negate(w) \in Word
         /\ Negate(w) = IF w = 0 THEN 0 ELSE Base - w
         /\ Negate(w) = (- w) % Base
<1>0. Base \in Nat /\ Base >= 2 /\ w \in 0 .. Base - 1
  BY Halves DEF Word
<1>1. CASE w = 0
  <2>1. Base = Base * 1 + 0 /\ 0 \in 0 .. Base - 1
    BY <1>0
  <2>2. Base % Base = 0
    BY <1>0, <2>1, DivisionUnique
  <2>3. 0 % Base = 0
    BY <1>0, Small
  <2> QED BY <1>0, <1>1, <2>2, <2>3 DEF Negate, Word
<1>2. CASE w # 0
  <2>1. Base - w \in Nat /\ Base - w < Base /\ Base - w \in 0 .. Base - 1
    BY <1>0, <1>2
  <2>2. (Base - w) % Base = Base - w
    BY <1>0, <2>1, Small
  <2>3. - w = Base * (-1) + (Base - w) /\ -1 \in Int /\ Base # 0
    BY <1>0
  <2>4. (Base * (-1) + (Base - w)) % Base = Base - w
    BY <1>0, <2>1, <2>3, DivisionUnique
  <2>5. (- w) % Base = Base - w
    BY <2>3, <2>4
  <2> QED BY <1>0, <1>2, <2>1, <2>2, <2>5 DEF Negate, Word
<1> QED BY <1>1, <1>2

(* The pair is negated, the low word first.                                  *)
NegatedA(a, b) == (Base - 1 - a + (IF Negate(b) = 0 THEN 1 ELSE 0)) % Base

\* Negating the pair negates the product it stands for.
LEMMA PairNegated ==
  ASSUME NEW a \in Word, NEW b \in Word
  PROVE  /\ NegatedA(a, b) \in Word /\ Negate(b) \in Word
         /\ NegatedA(a, b) * Base + Negate(b) = (- (a * Base + b)) % (Base * Base)
<1>0. Base \in Nat /\ Base >= 2 /\ a \in 0 .. Base - 1 /\ b \in 0 .. Base - 1
  BY Halves DEF Word
<1>1. Base * Base \in Nat /\ Base * Base # 0
  BY <1>0
<1>2. Negate(b) = IF b = 0 THEN 0 ELSE Base - b
  BY Negated
<1> DEFINE a1 == NegatedA(a, b)
           b1 == Negate(b)
<1>3. CASE a = 0 /\ b = 0
  <2>1. a1 = 0
    <3>1. Base - 1 - a + 1 = Base * 1 + 0 /\ 0 \in 0 .. Base - 1 /\ Base # 0
      BY <1>0, <1>3
    <3>2. (Base * 1 + 0) % Base = 0
      BY <1>0, <3>1, DivisionUnique
    <3>3. Negate(b) = 0
      BY <1>2, <1>3
    <3> QED BY <3>1, <3>2, <3>3 DEF NegatedA
  <2>2. - (a * Base + b) = 0
    BY <1>0, <1>3
  <2>3. 0 % (Base * Base) = 0
    BY <1>1, Small
  <2>4. a1 * Base + b1 = 0
    BY <1>0, <1>2, <1>3, <2>1
  <2> QED BY <1>0, <1>2, <1>3, <2>1, <2>2, <2>3, <2>4 DEF Word
<1>4. CASE ~ (a = 0 /\ b = 0)
  <2> DEFINE n1 == Base - 1 - a + (IF b1 = 0 THEN 1 ELSE 0)
  <2>1. b1 = 0 <=> b = 0
    BY <1>0, <1>2
  <2>2. n1 \in Nat /\ n1 < Base /\ n1 * Base + b1 = Base * Base - (a * Base + b)
    <3>1. CASE b = 0
      <4>1. b1 = 0 /\ n1 = Base - a
        BY <1>0, <1>2, <3>1
      <4>2. (Base - a) * Base = Base * Base - a * Base
        BY <1>0
      <4>3. n1 * Base = Base * Base - a * Base
        BY <4>1, <4>2
      <4> QED BY <1>0, <1>1, <1>4, <3>1, <4>1, <4>3
    <3>2. CASE b # 0
      <4>1. b1 = Base - b /\ n1 = Base - 1 - a
        BY <1>0, <1>2, <2>1, <3>2
      <4>2. (Base - 1 - a) * Base = Base * Base - Base - a * Base
        BY <1>0
      <4>3. n1 * Base = Base * Base - Base - a * Base
        BY <4>1, <4>2
      <4>4. a * Base \in Int
        BY <1>0
      <4> HIDE DEF b1, n1
      <4> QED BY <1>0, <1>1, <4>1, <4>3, <4>4
    <3> QED BY <3>1, <3>2
  <2>3. a1 = n1
    <3> HIDE DEF n1
    <3>1. n1 % Base = n1
      BY <1>0, <2>2, Small
    <3> QED BY <3>1 DEF NegatedA, n1
  <2> DEFINE v == n1 * Base + b1
  <2>4. v \in 0 .. Base * Base - 1 /\ - (a * Base + b) = (Base * Base) * (-1) + v
    <3>1. a * Base + b \in Nat /\ a * Base + b > 0
      <4>1. CASE a = 0
        BY <1>0, <1>4, <4>1
      <4>2. CASE a > 0
        <5>1. a * Base > 0
          BY <1>0, <4>2
        <5> QED BY <1>0, <5>1
      <4> QED BY <1>0, <4>1, <4>2
    <3>2. n1 * Base + b1 \in Nat
      BY <1>0, <1>2, <2>2
    <3> HIDE DEF n1, b1
    <3> QED BY <1>1, <2>2, <3>1, <3>2
  <2> HIDE DEF v
  <2>5. ((Base * Base) * (-1) + v) % (Base * Base) = v
    <3>1. -1 \in Int
      OBVIOUS
    <3> QED BY <1>1, <2>4, <3>1, DivisionUnique
  <2>6. a1 \in Word /\ b1 \in Word
    BY <1>0, <2>2, <2>3, Negated DEF Word
  <2> QED BY <2>3, <2>4, <2>5, <2>6 DEF v
<1> QED BY <1>3, <1>4

----------------------------------------------------------------------------
(* The invariant.                                                            *)

\* The routines of the machine's multiplier and divider.
Machine == {"intMul", "product", "intDiv", "quotient"}
\* Operands and registers are words, passes are counted up to the width.
WordsInv ==
  /\ i \in 0 .. Bits /\ u \in BOOLEAN /\ m \in Word /\ n \in Word
  /\ call \in {"product", "quotient"} => i = Bits
  /\ call \in Machine => A \in Word /\ B \in Word /\ R = Abs(n, u)
\* mul has as many bits left as passes.
MulEnds == call = "mul" => B \in Nat /\ B < Power[Bits - i]
\* div: its loop invariant, divided so far.
DivInv == call = "div" => n # 0 /\ Divided(m, n, i, A, B, R)
\* intMul: the product so far, then that of the signed operands.
ProductInv ==
  /\ call = "intMul" => Product(Abs(m, u), R, i, A, B)
  /\ call = "product" => Pair = (Value(m) * Value(n)) % (Base * Base)
\* The quotient rounds to where the remainder is not negative.
DivResult ==
  /\ A < R
  /\ LET magnitude == (Value(m) - A) \div R
         q == IF SignOf(n) THEN -magnitude ELSE magnitude
     IN Value(m) - A = q * Value(n) /\ B = q % Base
\* intDiv: the quotient so far, then that of the signed operands.
QuotientInv ==
  /\ call = "intDiv" /\ R # 0 => Quotient(Abs(m, u), R, i, A, B)
  /\ call = "quotient" /\ n # 0 => DivResult
\* The inductive invariant.
IntInv == WordsInv /\ MulInv /\ MulEnds /\ DivInv /\ ProductInv /\ QuotientInv

\* It holds when no routine has been called,
LEMMA IntStarts ==
  IntInit => IntInv
<1>1. 0 \in Word /\ 0 \in 0 .. Bits
  BY BitsAssumption DEF Word
<1> QED BY <1>1 DEF IntInit, IntInv, WordsInv, Machine, MulInv, MulEnds, DivInv,
      ProductInv, QuotientInv

(* The numbers when a routine begins and when it has gone through all bits.  *)
LEMMA AtEnds ==
  /\ Bits \in Nat /\ Bits - 0 = Bits /\ Bits - Bits = 0
  /\ Power[0] = 1 /\ Power[Bits] = Base
  /\ \A w \in Word : /\ w \in Nat /\ w < Base
                     /\ w % Power[0] = 0 /\ w \div Power[0] = w
                     /\ w % Power[Bits] = w /\ w \div Power[Bits] = 0
<1>1. Bits \in Nat /\ Power[0] = 1 /\ Power[Bits] = Base /\ Base \in Nat /\ Base # 0
  BY BitsAssumption, BaseAssumption, Powers
<1>2. ASSUME NEW w \in Word
      PROVE  /\ w \in Nat /\ w < Base
             /\ w % 1 = 0 /\ w \div 1 = w /\ w % Base = w /\ w \div Base = 0
  <2>1. w \in 0 .. Base - 1 /\ Base * 0 + w = w
    BY <1>1 DEF Word
  <2>2. (Base * 0 + w) % Base = w /\ (Base * 0 + w) \div Base = 0
    BY <1>1, <2>1, DivisionUnique
  <2>3. w % 1 = 0 /\ w \div 1 = w
    BY <2>1
  <2> QED BY <2>1, <2>2, <2>3, <1>1
<1> QED BY <1>1, <1>2

\* when one is called,
LEMMA CardCalls ==
  ASSUME IntInv, mul \/ div \/ intMul \/ intDiv
  PROVE  IntInv'
<1>1. 0 \in 0 .. Bits /\ Base \in Nat /\ Base >= 2 /\ TRUE \in BOOLEAN
  BY BitsAssumption, Halves
<1>2. CASE mul
  <2>1. PICK a \in Word, b \in Word : Enter("mul", TRUE, a, b, 0) /\ m' = a /\ n' = b
    BY <1>2 DEF mul
  <2>2. call' = "mul" /\ i' = 0 /\ u' = TRUE /\ A' = a /\ B' = b /\ R' = 0
    BY <2>1 DEF Enter
  <2>3. WordsInv'
    BY <1>1, <2>1, <2>2 DEF WordsInv, Machine
  <2>4. a \in Nat /\ b \in Nat /\ b < Power[Bits - 0] /\ a * b + 0 = a * b
    BY AtEnds
  <2> QED BY <2>1, <2>2, <2>3, <2>4 DEF IntInv, MulInv, MulEnds, DivInv, ProductInv,
        QuotientInv
<1>3. CASE div
  <2>1. PICK a \in Word, b \in Word \ {0} : Enter("div", TRUE, b * Base, 0, a) /\ m' = a /\ n' = b
    BY <1>3 DEF div
  <2>2. call' = "div" /\ i' = 0 /\ u' = TRUE /\ A' = b * Base /\ B' = 0 /\ R' = a
    BY <2>1 DEF Enter
  <2>3. WordsInv'
    BY <1>1, <2>1, <2>2 DEF WordsInv, Machine
  <2>4. a \in Nat /\ a < Base /\ b \in Nat /\ b >= 1
    BY AtEnds
  <2>5. b * Base >= Base /\ (b * Base) * 0 + a = a /\ b * Base \in Nat
    <3>1. b * Base >= 1 * Base
      BY <1>1, <2>4
    <3> QED BY <1>1, <2>4, <3>1
  <2>6. Divided(a, b, 0, b * Base, 0, a)
    BY <1>1, <2>4, <2>5, AtEnds DEF Divided
  <2>7. DivInv'
    BY <2>1, <2>2, <2>6 DEF DivInv
  <2> QED BY <2>2, <2>3, <2>7 DEF IntInv, MulInv, MulEnds, ProductInv, QuotientInv
<1>4. CASE intMul \/ intDiv
  <2>1. PICK name \in {"intMul", "intDiv"}, v \in BOOLEAN, a \in Word, b \in Word :
          Enter2(name, v, a, b)
    BY <1>4 DEF intMul, intDiv
  <2>2. /\ call' = name /\ i' = 0 /\ u' = v /\ m' = a /\ n' = b
        /\ A' = 0 /\ B' = Abs(a, v) /\ R' = Abs(b, v)
    BY <2>1 DEF Enter2, Enter
  <2>3. Abs(a, v) \in Word /\ Abs(b, v) \in Word /\ 0 \in Word
    BY <1>1, Magnitudes DEF Word
  <2>4. WordsInv'
    BY <1>1, <2>2, <2>3 DEF WordsInv, Machine, Abs, Negative
  <2> DEFINE xx == Abs(a, v)
             r == Abs(b, v)
  <2>5. Product(xx, r, 0, 0, xx)
    <3>1. xx \in Word /\ r \in Nat
      BY <2>3, AtEnds
    <3> HIDE DEF xx, r
    <3>2. xx \in Nat /\ xx % Power[0] = 0 /\ xx \div Power[0] = xx /\ Bits - 0 = Bits
          /\ Power[Bits] = Base
      BY <3>1, AtEnds
    <3>3. 0 * Base + xx = 0 * r * Base + xx
      BY <1>1, <3>1, <3>2
    <3> QED BY <3>2, <3>3 DEF Product
  <2>6. r # 0 => Quotient(xx, r, 0, 0, xx)
    <3>1. xx \in Word /\ r \in Nat
      BY <2>3, AtEnds
    <3> HIDE DEF xx, r
    <3> SUFFICES ASSUME r # 0 PROVE Quotient(xx, r, 0, 0, xx)
      OBVIOUS
    <3>2. xx \in Nat /\ xx % Power[Bits] = xx /\ xx \div Power[Bits] = 0 /\ Bits - 0 = Bits
          /\ Power[0] = 1
      BY <3>1, AtEnds
    <3>3. 0 = r * 0 + 0 /\ 0 \in 0 .. r - 1
      BY <3>1
    <3>4. (r * 0 + 0) \div r = 0 /\ (r * 0 + 0) % r = 0
      BY <3>1, <3>3, DivisionUnique
    <3>5. 0 \div r = 0 /\ 0 % r = 0
      BY <3>3, <3>4
    <3>6. 0 < r /\ xx = xx * 1 + 0
      BY <3>1, <3>2
    <3> QED BY <3>2, <3>5, <3>6 DEF Quotient
  <2>7. Abs(m, u)' = xx /\ R' = r
    BY <2>2 DEF Abs, Negative, Negate
  <2>8. ProductInv' /\ QuotientInv'
    BY <2>1, <2>2, <2>5, <2>6, <2>7 DEF ProductInv, QuotientInv
  <2> QED BY <2>2, <2>4, <2>8 DEF IntInv, MulInv, MulEnds, DivInv
<1> QED BY <1>2, <1>3, <1>4

\* after each of its passes,
LEMMA Passes ==
  ASSUME IntInv, mulPass \/ divPass \/ intMulPass \/ intDivPass
  PROVE  IntInv'
<1>1. /\ i \in 0 .. Bits - 1 /\ i' = i + 1 /\ call' = call /\ u' = u /\ m' = m /\ n' = n
      /\ i \in Nat /\ u \in BOOLEAN /\ m \in Word /\ n \in Word /\ Bits \in Nat
  BY BitsAssumption DEF IntInv, WordsInv, mulPass, divPass, intMulPass, intDivPass, Pass
<1>2. i' \in 0 .. Bits /\ u' \in BOOLEAN /\ m' \in Word /\ n' \in Word
  BY <1>1
<1>3. MulInv'
  <2>1. CASE mulPass
    BY <2>1, MulInvKept DEF IntInv, IntNext
  <2>2. CASE divPass \/ intMulPass \/ intDivPass
    BY <1>1, <2>2 DEF divPass, intMulPass, intDivPass, Pass, MulInv
  <2> QED BY <2>1, <2>2
<1>4. CASE mulPass
  <2>1. call = "mul" /\ B' = B \div 2
    BY <1>4 DEF mulPass, Pass
  <2>2. B' \in Nat /\ B' < Power[Bits - i']
    <3> DEFINE q == Power[Bits - (i + 1)]
    <3>1. q \in Nat /\ Power[Bits - i] = 2 * q
      <4>1. Bits - (i + 1) \in Nat /\ (Bits - (i + 1)) + 1 = Bits - i
        BY <1>1
      <4> QED BY <4>1, Powers
    <3>2. B \in Nat /\ B < 2 * q
      BY <2>1, <3>1 DEF IntInv, MulEnds
    <3>3. Power[Bits - i'] = q
      BY <1>1
    <3> HIDE DEF q
    <3> QED BY <2>1, <3>1, <3>2, <3>3
  <2> QED BY <1>1, <1>2, <1>3, <2>1, <2>2
       DEF IntInv, WordsInv, MulEnds, DivInv, ProductInv, QuotientInv, Machine
<1>5. CASE divPass
  <2>1. call = "div" /\ n # 0 /\ Divided(m, n, i, A, B, R)
    BY <1>5 DEF divPass, Pass, IntInv, DivInv
  <2> DEFINE bit == IF R >= A \div 2 THEN 1 ELSE 0
  <2>2. /\ A' = A \div 2 /\ B' = ((2 * B) % Base) + bit
        /\ R' = IF R >= A \div 2 THEN R - A \div 2 ELSE R
    BY <1>5 DEF divPass
  <2> HIDE DEF bit
  <2>3. m \in Nat /\ n \in Nat
    BY <1>1, AtEnds
  <2>4. Divided(m, n, i + 1, A', B', R')
    BY <1>1, <2>1, <2>2, <2>3, DivKeeps DEF bit
  <2> QED BY <1>1, <1>2, <1>3, <2>1, <2>4
       DEF IntInv, WordsInv, MulEnds, DivInv, ProductInv, QuotientInv, Machine
<1>6. CASE intMulPass
  <2>1. /\ call = "intMul" /\ A \in Word /\ B \in Word /\ R = Abs(n, u) /\ R' = R
        /\ Product(Abs(m, u), R, i, A, B)
    BY <1>6 DEF intMulPass, Pass, IntInv, WordsInv, ProductInv, Machine
  <2>2. A' = ShiftedA(Sum(A, B, R)) /\ B' = ShiftedB(Sum(A, B, R), B)
    BY <1>6 DEF intMulPass, ShiftedA, ShiftedB, Sum, Half
  <2>3. Abs(m, u) \in Word /\ R \in Word
    BY <1>1, <2>1, Magnitudes
  <2>4. A' \in Word /\ B' \in Word
    BY <2>1, <2>2, <2>3, MulShifts DEF PairShifted
  <2>5. Product(Abs(m, u), R, i + 1, A', B')
    BY <1>1, <2>1, <2>2, <2>3, MulPassed
  <2>6. Abs(m, u)' = Abs(m, u) /\ Abs(n, u)' = Abs(n, u)
    BY <1>1 DEF Abs, Negative, Negate
  <2> QED BY <1>1, <1>2, <1>3, <2>1, <2>4, <2>5, <2>6
       DEF IntInv, WordsInv, MulEnds, DivInv, ProductInv, QuotientInv, Machine
<1>7. CASE intDivPass
  <2>1. /\ call = "intDiv" /\ A \in Word /\ B \in Word /\ R = Abs(n, u) /\ R' = R
        /\ R # 0 => Quotient(Abs(m, u), R, i, A, B)
    BY <1>7 DEF intDivPass, Pass, IntInv, WordsInv, QuotientInv, Machine
  <2>2. A' = DividedA(Joined(A, B), R) /\ B' = DividedB(Joined(A, B), R, B)
    BY <1>7 DEF intDivPass, DividedA, DividedB, Joined, Below, Half
  <2>3. Abs(m, u) \in Word /\ R \in Word
    BY <1>1, <2>1, Magnitudes
  <2>4. A' \in Word /\ B' \in Word
    BY <2>1, <2>2, <2>3, DivWords
  <2>5. R # 0 => Quotient(Abs(m, u), R, i + 1, A', B')
    BY <1>1, <2>1, <2>2, <2>3, DivPassed
  <2>6. Abs(m, u)' = Abs(m, u) /\ Abs(n, u)' = Abs(n, u)
    BY <1>1 DEF Abs, Negative, Negate
  <2> QED BY <1>1, <1>2, <1>3, <2>1, <2>4, <2>5, <2>6
       DEF IntInv, WordsInv, MulEnds, DivInv, ProductInv, QuotientInv, Machine
<1> QED BY <1>4, <1>5, <1>6, <1>7

(* The sign of the product.                                                  *)
LEMMA ProductSigned ==
  ASSUME IntInv, intMulReturn
  PROVE  A' \in Word /\ B' \in Word /\ A' * Base + B' = (Value(m) * Value(n)) % (Base * Base)
<1> DEFINE xx == Abs(m, u)
           Whole2 == A * Base + B
           v == Value(m)
           w == Value(n)
<1>1. /\ call = "intMul" /\ i = Bits /\ u \in BOOLEAN /\ m \in Word /\ n \in Word
      /\ A \in Word /\ B \in Word /\ R = Abs(n, u) /\ Product(xx, R, Bits, A, B)
  BY DEF intMulReturn, Return, IntInv, WordsInv, ProductInv, Machine
<1>2. /\ xx \in Word /\ R \in Word /\ v = (IF SignOf(m) THEN - xx ELSE xx)
      /\ w = (IF SignOf(n) THEN - R ELSE R)
  BY <1>1, Magnitudes DEF Value, SignOf
<1>3. xx \in Nat /\ R \in Nat /\ Base \in Nat /\ Base >= 2 /\ A \in Nat /\ B \in Nat
  BY <1>1, <1>2, AtEnds, Halves
<1>4. Whole2 = xx * R
  <2>1. Whole2 = (xx % Power[Bits]) * R * Power[Bits - Bits] + xx \div Power[Bits]
    BY <1>1 DEF Product
  <2>2. xx % Power[Bits] = xx /\ xx \div Power[Bits] = 0 /\ Power[Bits - Bits] = 1
    BY <1>2, AtEnds
  <2> HIDE DEF xx, P
  <2>3. Whole2 = xx * R * 1 + 0
    BY <2>1, <2>2
  <2> QED BY <1>3, <2>3
<1>5. xx * R \in Nat /\ xx * R < Base * Base /\ Base * Base \in Nat
  <2> HIDE DEF xx
  <2> QED BY <1>2, <1>3, ProductFits
<1>6. CASE SignOf(m) # SignOf(n)
  <2>1. A' = NegatedA(A, B) /\ B' = Negate(B)
    BY <1>6 DEF intMulReturn, NegatedA
  <2>2. v * w = - (xx * R)
    <3>1. SignOf(m) \in BOOLEAN /\ SignOf(n) \in BOOLEAN
      BY DEF SignOf
    <3>2. (v = - xx /\ w = R) \/ (v = xx /\ w = - R)
      BY <1>2, <1>6, <3>1
    <3> HIDE DEF xx, v, w
    <3> QED BY <1>3, <3>2
  <2> HIDE DEF xx, v, w
  <2> QED BY <1>1, <1>4, <2>1, <2>2, PairNegated DEF Whole2, v, w
<1>7. CASE SignOf(m) = SignOf(n)
  <2>1. A' = A /\ B' = B
    BY <1>7 DEF intMulReturn
  <2>2. v * w = xx * R
    <3>2. (v = - xx /\ w = - R) \/ (v = xx /\ w = R)
      BY <1>2, <1>7
    <3> HIDE DEF xx, v, w
    <3> QED BY <1>3, <3>2
  <2> HIDE DEF xx, v, w
  <2>3. (xx * R) % (Base * Base) = xx * R
    BY <1>5, Small
  <2> QED BY <1>1, <1>4, <2>1, <2>2, <2>3 DEF Whole2, v, w
<1> QED BY <1>6, <1>7

(* Numbers that differ by a multiple of Base are the same word.              *)
LEMMA SameWord ==
  ASSUME NEW yy \in Int, NEW zz \in Int, NEW k \in Int, yy = zz + Base * k
  PROVE  yy % Base = zz % Base
<1> DEFINE d == zz \div Base
           r == zz % Base
<1>1. Base \in Nat /\ Base # 0
  BY Halves
<1>2. d \in Int /\ r \in 0 .. Base - 1 /\ zz = Base * d + r
  BY <1>1, Division
<1> HIDE DEF d, r
<1>3. yy = Base * (d + k) + r /\ d + k \in Int
  BY <1>1, <1>2
<1>4. (Base * (d + k) + r) % Base = r
  BY <1>1, <1>2, <1>3, DivisionUnique
<1> QED BY <1>3, <1>4 DEF r

(* The signs of quotient and remainder.                                      *)
QuotientOf(v, signs, a, b) ==
  LET magnitude == (v - a) \div R
      q == IF signs THEN -magnitude ELSE magnitude
  IN v - a = q * Value(n) /\ b = q % Base

\* Signs: the quotient of the magnitudes made that of the values.
LEMMA QuotientSigned ==
  ASSUME IntInv, intDivReturn, n # 0
  PROVE  A' < R /\ QuotientOf(Value(m), SignOf(n), A', B')
<1> DEFINE xx == Abs(m, u)
           v == Value(m)
           w == Value(n)
           corr == SignOf(m) /\ A # 0
           t == IF corr THEN B + 1 ELSE B
           quot == t % Base
           a == IF corr THEN R - A ELSE A
           s == IF SignOf(m) THEN - t ELSE t
           q == IF SignOf(n) THEN - s ELSE s
<1>0. Base \in Nat /\ Base >= 2 /\ Base # 0
  BY Halves
<1>1. /\ call = "intDiv" /\ i = Bits /\ u \in BOOLEAN /\ m \in Word /\ n \in Word
      /\ A \in Word /\ B \in Word /\ R = Abs(n, u)
      /\ R # 0 => Quotient(xx, R, Bits, A, B)
  BY DEF intDivReturn, Return, IntInv, WordsInv, QuotientInv, Machine
<1>2. /\ xx \in Word /\ R \in Word /\ R # 0 /\ v = (IF SignOf(m) THEN - xx ELSE xx)
      /\ w = (IF SignOf(n) THEN - R ELSE R)
  BY <1>1, Magnitudes DEF Value, SignOf
<1>3. xx \in Nat /\ R \in Nat /\ R >= 1 /\ R < Base /\ A \in Nat /\ B \in Nat
  BY <1>1, <1>2, AtEnds
<1>4. xx = R * B + A /\ A < R
  <2>1. /\ A < R /\ A = (xx \div Power[Bits - Bits]) % R
        /\ B = (xx % Power[Bits - Bits]) * Power[Bits] + (xx \div Power[Bits - Bits]) \div R
    BY <1>1, <1>2 DEF Quotient
  <2>2. xx % Power[Bits - Bits] = 0 /\ xx \div Power[Bits - Bits] = xx /\ Power[Bits] = Base
    BY <1>2, AtEnds
  <2> HIDE DEF xx
  <2>3. xx = R * (xx \div R) + (xx % R) /\ xx \div R \in Int
    <3>1. xx \in Int /\ R \in Nat /\ R # 0
      BY <1>2, <1>3
    <3> QED BY <3>1, Division
  <2>4. A = xx % R /\ B = xx \div R
    BY <1>0, <2>1, <2>2, <2>3
  <2> QED BY <2>1, <2>3, <2>4
<1>5. corr \in BOOLEAN /\ SignOf(m) \in BOOLEAN /\ SignOf(n) \in BOOLEAN
  BY DEF SignOf
<1>6. A' = a /\ B' = (IF SignOf(m) = SignOf(n) THEN quot ELSE Negate(quot))
  <2>1. A' = (IF corr THEN (R - A) % Base ELSE A)
        /\ B' = (IF SignOf(m) = SignOf(n) THEN quot ELSE Negate(quot))
    BY DEF intDivReturn
  <2>2. (R - A) % Base = R - A
    <3>1. A < R
      BY <1>4
    <3> HIDE DEF xx, v, w
    <3>2. R - A \in Nat /\ R - A < Base
      BY <1>0, <1>3, <3>1
    <3> QED BY <1>0, <3>2, Small
  <2> QED BY <2>1, <2>2
<1>7. a \in Nat /\ a < R
  BY <1>3, <1>4, <1>5
<1>8. t \in Nat /\ s \in Int /\ q \in Int
  BY <1>3, <1>5
<1>9. v - a = R * s
  <2>1. CASE ~ SignOf(m)
    <3>1. v = xx /\ a = A /\ s = B
      BY <1>2, <2>1
    <3> HIDE DEF xx, v, a, s
    <3> QED BY <1>3, <1>4, <3>1
  <2>2. CASE SignOf(m) /\ A = 0
    <3>1. v = - xx /\ a = 0 /\ s = - B
      BY <1>2, <2>2
    <3> HIDE DEF xx, v, a, s
    <3>2. R * (- B) = - (R * B) /\ R * B \in Int
      BY <1>3
    <3> QED BY <1>3, <1>4, <2>2, <3>1, <3>2
  <2>3. CASE SignOf(m) /\ A # 0
    <3>1. v = - xx /\ a = R - A /\ s = - (B + 1)
      BY <1>2, <2>3
    <3> HIDE DEF xx, v, a, s
    <3>2. R * (- (B + 1)) = - (R * B) - R /\ R * B \in Int
      BY <1>3
    <3> QED BY <1>3, <1>4, <3>1, <3>2
  <2> QED BY <1>5, <2>1, <2>2, <2>3
<1> HIDE DEF a, s, v
<1>10. (v - a) \div R = s
  <2>1. 0 \in 0 .. R - 1 /\ R * s + 0 = R * s /\ R # 0
    BY <1>3, <1>8
  <2>2. (R * s + 0) \div R = s
    BY <1>3, <1>8, <2>1, DivisionUnique
  <2> QED BY <1>9, <2>1, <2>2
<1>11. v - a = q * w
  <2>1. CASE SignOf(n)
    <3>1. q = - s /\ w = - R
      BY <1>2, <2>1
    <3> HIDE DEF q, w
    <3> QED BY <1>3, <1>8, <1>9, <3>1
  <2>2. CASE ~ SignOf(n)
    <3>1. q = s /\ w = R
      BY <1>2, <2>2
    <3> HIDE DEF q, w
    <3> QED BY <1>3, <1>8, <1>9, <3>1
  <2> QED BY <1>5, <2>1, <2>2
<1>12. q = IF SignOf(m) = SignOf(n) THEN t ELSE - t
  BY <1>5, <1>8 DEF s
<1> HIDE DEF q, w, t
<1>13. B' = q % Base
  <2>1. CASE SignOf(m) = SignOf(n)
    BY <1>6, <1>12, <2>1
  <2>2. CASE SignOf(m) # SignOf(n)
    <3> DEFINE d == t \div Base
    <3>1. d \in Int /\ quot \in 0 .. Base - 1 /\ t = Base * d + quot
      BY <1>0, <1>8, Division
    <3>2. quot \in Word
      BY <3>1 DEF Word
    <3> HIDE DEF d, quot
    <3>3. Negate(quot) = (- quot) % Base
      BY <3>2, Negated
    <3>4. - quot = - t + Base * d /\ - quot \in Int /\ - t \in Int
      BY <1>0, <1>8, <3>1
    <3>5. (- quot) % Base = (- t) % Base
      BY <3>1, <3>4, SameWord
    <3> QED BY <1>6, <1>12, <2>2, <3>3, <3>5 DEF quot
  <2> QED BY <2>1, <2>2
<1>14. A' < R
  BY <1>6, <1>7
<1> QED BY <1>6, <1>10, <1>11, <1>13, <1>14 DEF QuotientOf, q, w, v

\* and when it returns.
LEMMA Returns ==
  ASSUME IntInv, intMulReturn \/ intDivReturn
  PROVE  IntInv'
<1>1. /\ i = Bits /\ i' = i /\ u' = u /\ m' = m /\ n' = n /\ R' = R
      /\ i \in 0 .. Bits /\ u \in BOOLEAN /\ m \in Word /\ n \in Word
      /\ A \in Word /\ B \in Word /\ R = Abs(n, u)
  BY DEF intMulReturn, intDivReturn, Return, IntInv, WordsInv, Machine
<1>2. /\ Abs(n, u)' = Abs(n, u) /\ Value(m)' = Value(m) /\ Value(n)' = Value(n)
      /\ SignOf(n)' = SignOf(n)
  BY <1>1 DEF Abs, Negative, Negate, Value, SignOf
<1>3. CASE intMulReturn
  <2>1. call' = "product"
    BY <1>3 DEF intMulReturn
  <2>2. A' \in Word /\ B' \in Word /\ A' * Base + B' = (Value(m) * Value(n)) % (Base * Base)
    BY <1>3, ProductSigned
  <2>3. Pair' = (Value(m)' * Value(n)') % (Base * Base)
    BY <1>2, <2>2 DEF Pair
  <2> QED BY <1>1, <1>2, <2>1, <2>2, <2>3
       DEF IntInv, WordsInv, MulInv, MulEnds, DivInv, ProductInv, QuotientInv, Machine
<1>4. CASE intDivReturn
  <2>1. call' = "quotient" /\ call = "intDiv"
    BY <1>4 DEF intDivReturn, Return
  <2>2. A' \in Word /\ B' \in Word
    <3> DEFINE corr == SignOf(m) /\ A # 0
               quot == (IF corr THEN B + 1 ELSE B) % Base
    <3>1. A' = (IF corr THEN (R - A) % Base ELSE A)
          /\ B' = (IF SignOf(m) = SignOf(n) THEN quot ELSE Negate(quot))
      BY <1>4 DEF intDivReturn
    <3>2. Base \in Nat /\ Base # 0 /\ A \in Int /\ B \in Int /\ R \in Int
      <4>1. R \in Word
        BY <1>1, Magnitudes
      <4> QED BY <1>1, <4>1, Halves DEF Word
    <3>3. ASSUME NEW yy \in Int
          PROVE  yy % Base \in Word
      BY <3>2, Division DEF Word
    <3>4. R - A \in Int /\ (IF corr THEN B + 1 ELSE B) \in Int
      BY <3>2
    <3>5. (R - A) % Base \in Word /\ quot \in Word
      BY <3>3, <3>4
    <3> HIDE DEF corr, quot
    <3> QED BY <1>1, <3>1, <3>5, Negated
  <2>3. (n # 0 => DivResult)'
    <3> SUFFICES ASSUME n # 0
                 PROVE  DivResult'
      BY <1>1
    <3>1. A' < R /\ QuotientOf(Value(m), SignOf(n), A', B')
      BY <1>4, QuotientSigned
    <3> QED BY <1>1, <1>2, <3>1 DEF DivResult, QuotientOf
  <2> QED BY <1>1, <1>2, <2>1, <2>2, <2>3
       DEF IntInv, WordsInv, MulInv, MulEnds, DivInv, ProductInv, QuotientInv, Machine
<1> QED BY <1>3, <1>4

\* Every step keeps it.
LEMMA IntKept ==
  IntInv /\ [IntNext]_intVars => IntInv'
<1> SUFFICES ASSUME IntInv, [IntNext]_intVars
             PROVE  IntInv'
  OBVIOUS
<1>1. CASE Leave
  <2>1. 0 \in Word /\ 0 \in 0 .. Bits
    BY AtEnds, Halves DEF Word
  <2> QED BY <1>1, <2>1 DEF Leave, IntInv, WordsInv, Machine, MulInv, MulEnds,
        DivInv, ProductInv, QuotientInv
<1>2. CASE UNCHANGED intVars
  BY <1>2 DEF intVars, IntInv, WordsInv, Machine, MulInv, MulEnds, DivInv,
       ProductInv, QuotientInv,
     Divided, Product, Quotient, DivResult, Pair, Value, SignOf, Negative, Abs, Negate
<1> QED BY <1>1, <1>2, CardCalls, Passes, Returns DEF IntNext

\* It says what the routines promise.
LEMMA ResultsHold ==
  IntInv => ResultsExact
<1> SUFFICES ASSUME IntInv
             PROVE  ResultsExact
  OBVIOUS
<1>1. i \in 0 .. Bits /\ m \in Word /\ n \in Word /\ Bits - Bits = 0 /\ Power[0] = 1 /\ m \in Nat
      /\ n \in Nat
  BY AtEnds DEF IntInv, WordsInv
<1>2. call = "div" => A * B + R = m /\ R < A
  BY DEF IntInv, DivInv, Divided
<1>3. ASSUME Return("mul")
      PROVE  R = m * n
  <2>1. call = "mul" /\ i = Bits
    BY <1>3 DEF Return
  <2>2. A \in Nat /\ R \in Nat /\ B \in Nat /\ B < 1 /\ A * B + R = m * n
    BY <1>1, <2>1 DEF IntInv, MulInv, MulEnds
  <2>3. B = 0
    BY <2>2
  <2> QED BY <2>2, <2>3
<1>4. ASSUME Return("div")
      PROVE  B = m \div n /\ R = m % n
  <2>1. call = "div" /\ i = Bits
    BY <1>4 DEF Return
  <2>2. n # 0 /\ A = n * 1 /\ B \in Nat /\ R \in Nat /\ A * B + R = m /\ R < A
    BY <1>1, <2>1 DEF IntInv, DivInv, Divided
  <2>3. R \in 0 .. n - 1 /\ n * B + R = m
    BY <1>1, <2>2
  <2>4. (n * B + R) \div n = B /\ (n * B + R) % n = R
    BY <1>1, <2>2, <2>3, DivisionUnique
  <2> QED BY <2>3, <2>4
<1>5. call = "intMul" =>
        Pair = (Abs(m, u) % Power[i]) * R * Power[Bits - i] + Abs(m, u) \div Power[i]
  BY DEF IntInv, ProductInv, Product, Pair
<1>6. call = "product" => Pair = (Value(m) * Value(n)) % (Base * Base)
  BY DEF IntInv, ProductInv
<1>7. call = "intDiv" /\ R # 0 => Quotient(Abs(m, u), R, i, A, B)
  BY DEF IntInv, QuotientInv
<1>8. call = "quotient" /\ n # 0 => DivResult
  BY DEF IntInv, QuotientInv
<1> QED BY <1>2, <1>3, <1>4, <1>5, <1>6, <1>7, <1>8 DEF ResultsExact, Quotient,
      DivResult

\* Every routine ends with the product, or with quotient and remainder, of its
\* operands, with or without signs, for every width; and in every pass the
\* registers hold the part of the result made so far and the bits that are left.
THEOREM ResultsAreExact == IntSpec => []ResultsExact
<1>1. IntInit => IntInv
  BY IntStarts
<1>2. IntInv /\ [IntNext]_intVars => IntInv'
  BY IntKept
<1>3. IntInv => ResultsExact
  BY ResultsHold
<1> QED BY <1>1, <1>2, <1>3, PTL DEF IntSpec

----------------------------------------------------------------------------
\* States, the record within one cpuStep: registers, what is interrupted, all.
Cores == [pc : 0 .. 12, X : 0 .. 12, I : BOOLEAN, P : BOOLEAN, irqAck : {0} \cup Irq, irqMask : SUBSET Irq]
Frames == [pc : 0 .. 12, I : BOOLEAN, irqMask : SUBSET Irq]
States ==
  [timer : [expired : BOOLEAN, ien : BOOLEAN],
   rs232 : [status : SUBSET Serial, control : SUBSET Serial],
   hpt : [counter : Nat, divisor : CC .. Wrap - 1, expired : BOOLEAN, ien : BOOLEAN],
   btnswt : [pressed : BOOLEAN, status : SUBSET Edge, control : SUBSET Edge],
   irq : SUBSET Irq, core : Cores, stack : Seq(Cores), frames : Seq(Frames), elapsed : Nat]

\* Each line follows its causes.
Lines(s) ==
  /\ IRQ_HPT_0 \in s.irq <=> s.hpt.expired /\ s.hpt.ien
  /\ IRQ_TIMER \in s.irq <=> s.timer.expired /\ s.timer.ien
  /\ IRQ_RCV \in s.irq <=> "rcv rdy" \in s.rs232.status /\ "rcv rdy" \in s.rs232.control
  /\ IRQ_XMT \in s.irq <=> \E f \in {"xmt rdy", "xmt empty"} : f \in s.rs232.status /\ f \in s.rs232.control
  /\ IRQ_BUTTONS \in s.irq <=> \E f \in Edge : f \in s.btnswt.status /\ f \in s.btnswt.control
\* The counter says what is left of the period.
Clock(s) ==
  s.hpt.counter \in 1 .. s.hpt.divisor /\ s.hpt.counter = s.hpt.divisor - s.elapsed
\* The processor and its program are where they were.
Run(s, t) == t.core = s.core /\ t.stack = s.stack /\ t.frames = s.frames

\* The five lines are different.
LEMMA Apart ==
  /\ {IRQ_HPT_0, IRQ_TIMER, IRQ_RCV, IRQ_XMT, IRQ_BUTTONS} = Irq
  /\ IRQ_HPT_0 \notin {IRQ_TIMER, IRQ_RCV, IRQ_XMT, IRQ_BUTTONS}
  /\ IRQ_TIMER \notin {IRQ_RCV, IRQ_XMT, IRQ_BUTTONS}
  /\ IRQ_RCV \notin {IRQ_XMT, IRQ_BUTTONS} /\ IRQ_XMT # IRQ_BUTTONS
BY DEF Irq, IRQ_HPT_0, IRQ_TIMER, IRQ_RCV, IRQ_XMT, IRQ_BUTTONS

\* t is a state that differs from s in the named parts of the devices only.
SameBut(s, t, fields) ==
  /\ t \in States
  /\ "timer" \notin fields => t.timer = s.timer
  /\ "rs232" \notin fields => t.rs232 = s.rs232
  /\ "hpt" \notin fields => t.hpt = s.hpt
  /\ "btnswt" \notin fields => t.btnswt = s.btnswt
  /\ "irq" \notin fields => t.irq = s.irq
  /\ "elapsed" \notin fields => t.elapsed = s.elapsed
  /\ Run(s, t)
\* t is s with line p at the level.
Set(s, t, p, level) ==
  /\ SameBut(s, t, {"irq"})
  /\ p \in t.irq <=> level
  /\ \A l \in Irq \ {p} : l \in t.irq <=> l \in s.irq

\* Line, SetIf and ResetIf change one line.
LEMMA Lined ==
  ASSUME NEW s \in States, NEW p \in Irq, NEW level
  PROVE  /\ Set(s, Line(s, p, level), p, level)
         /\ Set(s, SetIf(s, p, level), p, level \/ p \in s.irq)
         /\ Set(s, ResetIf(s, p, level), p, ~level /\ p \in s.irq)
<1>1. Set(s, cpuSetInterrupt(s, p), p, TRUE) /\ Set(s, cpuResetInterrupt(s, p), p, FALSE) 
  BY DEF Set, SameBut, Run, States, cpuSetInterrupt, cpuResetInterrupt
<1>2. Set(s, s, p, p \in s.irq)
  BY DEF Set, SameBut, Run
<1>3. CASE level
  BY <1>1, <1>2, <1>3 DEF Line, SetIf, ResetIf, Set
<1>4. CASE ~level
  BY <1>1, <1>2, <1>4 DEF Line, SetIf, ResetIf, Set
<1> QED BY <1>3, <1>4

\* Each operation of a device keeps the lines and changes nothing but its
\* device: the timer,
LEMMA TimerTicks ==
  ASSUME NEW s \in States, Lines(s)
  PROVE  SameBut(s, tickTimer(s), {"timer", "irq"}) /\ Lines(tickTimer(s))
<1> DEFINE s1 == [s EXCEPT !.timer.expired = TRUE]
           t == tickTimer(s)
<1>1. SameBut(s, s1, {"timer"}) /\ s1.timer.expired = TRUE /\ s1.timer.ien = s.timer.ien
  BY DEF States, SameBut, Run, Serial, Edge
<1>2. Set(s1, t, IRQ_TIMER, s.timer.ien \/ IRQ_TIMER \in s1.irq)
  BY <1>1, Lined, Apart DEF tickTimer, SameBut
<1> HIDE DEF s1, t
<1>3. SameBut(s, t, {"timer", "irq"})
  BY <1>1, <1>2 DEF SameBut, Set, Run
<1>4. Lines(t)
  BY <1>1, <1>2, Apart DEF SameBut, Set, Run, Lines
<1> QED BY <1>3, <1>4 DEF t

LEMMA TimerRead ==
  ASSUME NEW s \in States, Lines(s)
  PROVE  SameBut(s, readTimer(s), {"timer", "irq"}) /\ Lines(readTimer(s))
<1> DEFINE s1 == [s EXCEPT !.timer.expired = FALSE]
           t == readTimer(s)
<1>1. SameBut(s, s1, {"timer"}) /\ s1.timer.expired = FALSE
  BY DEF States, SameBut, Run, Serial, Edge
<1>2. Set(s1, t, IRQ_TIMER, ~ s.timer.ien /\ IRQ_TIMER \in s1.irq)
  BY <1>1, Lined, Apart DEF readTimer, SameBut
<1> HIDE DEF s1, t
<1>3. SameBut(s, t, {"timer", "irq"})
  BY <1>1, <1>2 DEF SameBut, Set, Run
<1>4. Lines(t)
  BY <1>1, <1>2, Apart DEF SameBut, Set, Run, Lines
<1> QED BY <1>3, <1>4 DEF t

LEMMA TimerWritten ==
  ASSUME NEW s \in States, NEW b \in BOOLEAN, Lines(s)
  PROVE  SameBut(s, writeTimer(s, b), {"timer", "irq"}) /\ Lines(writeTimer(s, b))
<1> DEFINE s1 == [s EXCEPT !.timer.ien = b]
           t == writeTimer(s, b)
<1>1. SameBut(s, s1, {"timer"}) /\ s1.timer.expired = s.timer.expired /\ s1.timer.ien = b
  BY DEF States, SameBut, Run, Serial, Edge
<1>2. Set(s1, t, IRQ_TIMER, b /\ s.timer.expired)
  BY <1>1, Lined, Apart DEF writeTimer, SameBut
<1> HIDE DEF s1, t
<1>3. SameBut(s, t, {"timer", "irq"})
  BY <1>1, <1>2 DEF SameBut, Set, Run
<1>4. Lines(t)
  BY <1>1, <1>2, Apart DEF SameBut, Set, Run, Lines
<1> QED BY <1>3, <1>4 DEF t

\* the serial line,
LEMMA SerialReceived ==
  ASSUME NEW s \in States, Lines(s)
  PROVE  SameBut(s, receiveRS232(s), {"rs232", "irq"}) /\ Lines(receiveRS232(s))
<1> DEFINE s1 == [s EXCEPT !.rs232.status = @ \cup {"rcv rdy"}]
           t == receiveRS232(s)
<1>1. SameBut(s, s1, {"rs232"}) /\ s1.rs232.control = s.rs232.control
      /\ s1.rs232.status = s.rs232.status \cup {"rcv rdy"}
  BY DEF States, SameBut, Run, Serial, Edge
<1>2. Set(s1, t, IRQ_RCV, "rcv rdy" \in s.rs232.control \/ IRQ_RCV \in s1.irq)
  BY <1>1, Lined, Apart DEF receiveRS232, SameBut
<1> HIDE DEF s1, t
<1>3. SameBut(s, t, {"rs232", "irq"})
  BY <1>1, <1>2 DEF SameBut, Set, Run
<1>4. Lines(t)
  BY <1>1, <1>2, Apart DEF SameBut, Set, Run, Lines
<1> QED BY <1>3, <1>4 DEF t

LEMMA DataRead ==
  ASSUME NEW s \in States, Lines(s)
  PROVE  SameBut(s, readRS232data(s), {"rs232", "irq"}) /\ Lines(readRS232data(s))
<1> DEFINE s1 == [s EXCEPT !.rs232.status = @ \ {"rcv rdy"}]
           t == readRS232data(s)
<1>1. SameBut(s, s1, {"rs232"}) /\ s1.rs232.control = s.rs232.control
      /\ s1.rs232.status = s.rs232.status \ {"rcv rdy"}
  BY DEF States, SameBut, Run, Serial, Edge
<1>2. Set(s1, t, IRQ_RCV, "rcv rdy" \notin s.rs232.control /\ IRQ_RCV \in s1.irq)
  BY <1>1, Lined, Apart DEF readRS232data, SameBut
<1> HIDE DEF s1, t
<1>3. SameBut(s, t, {"rs232", "irq"})
  BY <1>1, <1>2 DEF SameBut, Set, Run
<1>4. Lines(t)
  BY <1>1, <1>2, Apart DEF SameBut, Set, Run, Lines
<1> QED BY <1>3, <1>4 DEF t

LEMMA DataWritten ==
  ASSUME NEW s \in States, Lines(s)
  PROVE  SameBut(s, writeRS232data(s), {"rs232", "irq"}) /\ Lines(writeRS232data(s))
<1> DEFINE s1 == [s EXCEPT !.rs232.status = @ \ {"xmt rdy", "xmt empty"}]
           t == writeRS232data(s)
<1>1. SameBut(s, s1, {"rs232"}) /\ s1.rs232.control = s.rs232.control
      /\ s1.rs232.status = s.rs232.status \ {"xmt rdy", "xmt empty"}
  BY DEF States, SameBut, Run, Serial, Edge
<1>2. Set(s1, t, IRQ_XMT, ~ ({"xmt rdy", "xmt empty"} \cap s.rs232.control # {}) /\ IRQ_XMT \in s1.irq)
  BY <1>1, Lined, Apart DEF writeRS232data, SameBut
<1> HIDE DEF s1, t
<1>3. SameBut(s, t, {"rs232", "irq"})
  BY <1>1, <1>2 DEF SameBut, Set, Run
<1>4. Lines(t)
  BY <1>1, <1>2, Apart DEF SameBut, Set, Run, Lines
<1> QED BY <1>3, <1>4 DEF t

LEMMA Transmitted ==
  ASSUME NEW s \in States, Lines(s)
  PROVE  SameBut(s, transmitRS232(s), {"rs232", "irq"}) /\ Lines(transmitRS232(s))
<1> DEFINE f == IF "xmt rdy" \in s.rs232.status THEN "xmt empty" ELSE "xmt rdy"
           s1 == [s EXCEPT !.rs232.status = @ \cup {f}]
           t == transmitRS232(s)
<1>0. f \in {"xmt rdy", "xmt empty"} /\ t = SetIf(s1, IRQ_XMT, f \in s.rs232.control)
  BY DEF transmitRS232
<1> HIDE DEF f, t
<1>1. SameBut(s, s1, {"rs232"}) /\ s1.rs232.control = s.rs232.control
      /\ s1.rs232.status = s.rs232.status \cup {f}
  BY <1>0 DEF States, SameBut, Run, Serial, Edge
<1>2. Set(s1, t, IRQ_XMT, f \in s.rs232.control \/ IRQ_XMT \in s1.irq)
  BY <1>0, <1>1, Lined, Apart DEF SameBut
<1> HIDE DEF s1, t
<1>3. SameBut(s, t, {"rs232", "irq"})
  BY <1>1, <1>2 DEF SameBut, Set, Run
<1>4. Lines(t)
  BY <1>0, <1>1, <1>2, Apart DEF SameBut, Set, Run, Lines
<1> QED BY <1>3, <1>4 DEF t

LEMMA ControlWritten ==
  ASSUME NEW s \in States, NEW d \in SUBSET Serial, Lines(s)
  PROVE  SameBut(s, writeRS232ctrl(s, d), {"rs232", "irq"}) /\ Lines(writeRS232ctrl(s, d))
<1> DEFINE s1 == [s EXCEPT !.rs232.control = d]
           on == d \cap s.rs232.status
           rcv == "rcv rdy" \in on
           xmt == {"xmt rdy", "xmt empty"} \cap on # {}
           s2 == Line(s1, IRQ_RCV, rcv)
           t == writeRS232ctrl(s, d)
<1>1. SameBut(s, s1, {"rs232"}) /\ s1.rs232.control = d /\ s1.rs232.status = s.rs232.status
  BY DEF States, SameBut, Run, Serial
<1>2. rcv <=> "rcv rdy" \in s1.rs232.status /\ "rcv rdy" \in s1.rs232.control
  BY <1>1
<1>3. xmt <=> \E f \in {"xmt rdy", "xmt empty"} : f \in s1.rs232.status /\ f \in s1.rs232.control
  BY <1>1
<1>4. t = Line(s2, IRQ_XMT, xmt)
  BY DEF writeRS232ctrl
<1> HIDE DEF on, rcv, xmt, s1
<1>5. Set(s1, s2, IRQ_RCV, rcv)
  BY <1>1, Lined, Apart DEF SameBut
<1> HIDE DEF s2
<1>6. Set(s2, t, IRQ_XMT, xmt)
  BY <1>4, <1>5, Lined, Apart DEF SameBut, Set
<1> HIDE DEF t
<1>7. SameBut(s, t, {"rs232", "irq"})
  BY <1>1, <1>5, <1>6 DEF SameBut, Set, Run
<1>8. Lines(t)
  BY <1>1, <1>2, <1>3, <1>5, <1>6, Apart DEF SameBut, Set, Run, Lines
<1> QED BY <1>7, <1>8 DEF t

\* the high-precision timer, whose counter goes on with the cycles elapsed,
LEMMA PeriodCounted ==
  ASSUME NEW s \in States, Lines(s), Clock(s)
  PROVE  LET t == [tickHPT(s) EXCEPT !.elapsed = (@ + CC) % s.hpt.divisor]
         IN SameBut(s, t, {"hpt", "irq", "elapsed"}) /\ Lines(t) /\ Clock(t)
<1> DEFINE c == s.hpt.counter
           d == s.hpt.divisor
           c1 == (c + d - CC) % Wrap
           e1 == (s.elapsed + CC) % d
           s0 == tickHPT(s)
           t == [s0 EXCEPT !.elapsed = (@ + CC) % s.hpt.divisor]
<1>1. /\ CC \in Nat /\ CC # 0 /\ Wrap \in Nat /\ CC < Wrap
      /\ c \in Nat /\ d \in CC .. Wrap - 1 /\ c \in 1 .. d /\ s.elapsed \in Nat /\ s.elapsed = d - c
      /\ s.hpt.expired \in BOOLEAN /\ s.hpt.ien \in BOOLEAN
  BY InterruptsAssumption DEF States, Clock
<1>2. CASE c <= CC
  <2> DEFINE s1 == [s EXCEPT !.hpt.counter = (@ + s.hpt.divisor - CC) % Wrap, !.hpt.expired = TRUE]
  <2> HIDE DEF c, d
  <2>1. c1 = c + d - CC /\ c1 \in 1 .. d
    BY <1>1, <1>2
  <2>2. s.elapsed + CC = d * 1 + (CC - c) /\ CC - c \in 0 .. d - 1
    BY <1>1, <1>2
  <2>3. e1 = CC - c
    <3> DEFINE r == CC - c
    <3>1. d \in Nat /\ d # 0 /\ s.elapsed + CC = d * 1 + r /\ r \in 0 .. d - 1 /\ 1 \in Int
      BY <1>1, <2>2
    <3> HIDE DEF r
    <3>2. (d * 1 + r) % d = r
      BY <3>1, DivisionUnique
    <3> QED BY <3>1, <3>2 DEF r
  <2>4. c1 \in 1 .. d /\ c1 = d - e1 /\ e1 \in Nat
    BY <1>1, <2>1, <2>2, <2>3
  <2> HIDE DEF c1, e1
  <2>5. /\ SameBut(s, s1, {"hpt"}) /\ s1.hpt.counter = c1 /\ s1.hpt.divisor = d
        /\ s1.hpt.expired = TRUE /\ s1.hpt.ien = s.hpt.ien
    <3>1. s1 = [s EXCEPT !.hpt.counter = c1, !.hpt.expired = TRUE]
      BY DEF c, d, c1
    <3>2. c1 \in Nat
      BY <1>1, <2>4
    <3>3. s1 \in States
      BY <3>1, <3>2 DEF States
    <3> HIDE DEF s1
    <3> QED BY <3>1, <3>2, <3>3 DEF SameBut, Run, States, d
  <2>6. s0 = SetIf(s1, IRQ_HPT_0, s.hpt.ien)
    BY <1>2 DEF tickHPT, c
  <2> HIDE DEF s1, s0
  <2>7. Set(s1, s0, IRQ_HPT_0, s.hpt.ien \/ IRQ_HPT_0 \in s1.irq)
    BY <2>5, <2>6, Lined, Apart DEF SameBut
  <2>8. s0 \in States /\ s0.elapsed = s.elapsed
    BY <2>5, <2>7 DEF Set, SameBut
  <2>9. SameBut(s0, t, {"elapsed"}) /\ t.elapsed = e1
    <3>1. t = [s0 EXCEPT !.elapsed = e1]
      BY <2>8 DEF e1, d
    <3> QED BY <2>4, <2>8, <3>1 DEF SameBut, Run, States
  <2> HIDE DEF t
  <2>10. SameBut(s, t, {"hpt", "irq", "elapsed"})
    BY <2>5, <2>7, <2>9 DEF SameBut, Set, Run
  <2>11. Clock(t)
    BY <2>4, <2>5, <2>7, <2>9 DEF SameBut, Set, Clock
  <2>12. Lines(t)
    BY <2>5, <2>7, <2>9, Apart DEF SameBut, Set, Lines
  <2> QED BY <2>10, <2>11, <2>12 DEF t, s0
<1>3. CASE c > CC
  <2> HIDE DEF c, d
  <2>1. c - CC \in 1 .. d /\ s.elapsed + CC \in 0 .. d - 1 /\ c - CC \in Nat
    BY <1>1, <1>3
  <2>2. e1 = s.elapsed + CC
    <3> DEFINE r == s.elapsed + CC
    <3>1. d \in Nat /\ d # 0 /\ r = d * 0 + r /\ r \in 0 .. d - 1 /\ 0 \in Int
      BY <1>1, <2>1
    <3> HIDE DEF r
    <3>2. (d * 0 + r) % d = r
      BY <3>1, DivisionUnique
    <3> QED BY <3>1, <3>2 DEF r
  <2>3. e1 \in Nat /\ c - CC = d - e1
    BY <1>1, <2>1, <2>2
  <2> HIDE DEF e1
  <2>4. s0 = [s EXCEPT !.hpt.counter = c - CC]
    BY <1>1, <1>3 DEF tickHPT, c
  <2>5. /\ SameBut(s, s0, {"hpt"}) /\ s0.hpt.counter = c - CC /\ s0.hpt.divisor = d
        /\ s0.hpt.expired = s.hpt.expired /\ s0.hpt.ien = s.hpt.ien
    <3> HIDE DEF s0
    <3> QED BY <2>1, <2>4 DEF SameBut, Run, States, d
  <2> HIDE DEF s0
  <2>6. SameBut(s0, t, {"elapsed"}) /\ t.elapsed = e1
    <3>1. t = [s0 EXCEPT !.elapsed = e1]
      BY <2>5 DEF e1, d, SameBut
    <3> QED BY <2>3, <2>5, <3>1 DEF SameBut, Run, States
  <2> HIDE DEF t
  <2>7. SameBut(s, t, {"hpt", "irq", "elapsed"})
    BY <2>5, <2>6 DEF SameBut, Run
  <2>8. Clock(t)
    BY <2>1, <2>3, <2>5, <2>6 DEF SameBut, Clock
  <2>9. Lines(t)
    BY <2>5, <2>6 DEF SameBut, Lines
  <2> QED BY <2>7, <2>8, <2>9 DEF t, s0
<1> QED BY <1>1, <1>2, <1>3

LEMMA DivisorWritten ==
  ASSUME NEW s \in States, NEW k \in Divisors, Lines(s)
  PROVE  LET t == writeHPTdata(s, k)
         IN SameBut(s, t, {"hpt", "elapsed"}) /\ Lines(t) /\ Clock(t)
<1> DEFINE t == writeHPTdata(s, k)
<1>1. CC \in Nat /\ CC # 0 /\ Wrap \in Nat /\ k \in CC .. Wrap - 1 /\ k \in Nat /\ k \in 1 .. k
      /\ k = k - 0
  BY InterruptsAssumption
<1>2. /\ SameBut(s, t, {"hpt", "elapsed"}) /\ t.hpt.counter = k /\ t.hpt.divisor = k
      /\ t.elapsed = 0
      /\ t.hpt.expired = s.hpt.expired /\ t.hpt.ien = s.hpt.ien
  BY <1>1 DEF States, SameBut, Run, writeHPTdata
<1> HIDE DEF t
<1>3. Lines(t) /\ Clock(t)
  BY <1>1, <1>2 DEF SameBut, Lines, Clock
<1> QED BY <1>2, <1>3 DEF t

\* The period is not touched.
SamePeriod(s, t) == t.hpt.counter = s.hpt.counter /\ t.hpt.divisor = s.hpt.divisor

LEMMA HPTRead ==
  ASSUME NEW s \in States, Lines(s)
  PROVE  SameBut(s, readHPTctrl(s), {"hpt", "irq"}) /\ Lines(readHPTctrl(s))
         /\ SamePeriod(s, readHPTctrl(s))
<1> DEFINE s1 == [s EXCEPT !.hpt.expired = FALSE]
           t == readHPTctrl(s)
<1>1. SameBut(s, s1, {"hpt"}) /\ s1.hpt.expired = FALSE /\ SamePeriod(s, s1)
  BY DEF States, SameBut, Run, SamePeriod
<1>2. Set(s1, t, IRQ_HPT_0, ~ s.hpt.ien /\ IRQ_HPT_0 \in s1.irq)
  BY <1>1, Lined, Apart DEF readHPTctrl, SameBut
<1> HIDE DEF s1, t
<1>3. SameBut(s, t, {"hpt", "irq"})
  BY <1>1, <1>2 DEF SameBut, Set, Run
<1>4. Lines(t)
  BY <1>1, <1>2, Apart DEF SameBut, Set, Run, Lines
<1>5. SamePeriod(s, t)
  BY <1>1, <1>2 DEF SameBut, Set, SamePeriod
<1> QED BY <1>3, <1>4, <1>5 DEF t

LEMMA HPTWritten ==
  ASSUME NEW s \in States, NEW b \in BOOLEAN, Lines(s)
  PROVE  SameBut(s, writeHPTctrl(s, b), {"hpt", "irq"}) /\ Lines(writeHPTctrl(s, b))
         /\ SamePeriod(s, writeHPTctrl(s, b))
<1> DEFINE s1 == [s EXCEPT !.hpt.ien = b]
           t == writeHPTctrl(s, b)
<1>1. SameBut(s, s1, {"hpt"}) /\ s1.hpt.expired = s.hpt.expired /\ s1.hpt.ien = b
      /\ SamePeriod(s, s1)
  BY DEF States, SameBut, Run, SamePeriod
<1>2. Set(s1, t, IRQ_HPT_0, b /\ s.hpt.expired)
  BY <1>1, Lined, Apart DEF writeHPTctrl, SameBut
<1> HIDE DEF s1, t
<1>3. SameBut(s, t, {"hpt", "irq"})
  BY <1>1, <1>2 DEF SameBut, Set, Run
<1>4. Lines(t)
  BY <1>1, <1>2, Apart DEF SameBut, Set, Run, Lines
<1>5. SamePeriod(s, t)
  BY <1>1, <1>2 DEF SameBut, Set, SamePeriod
<1> QED BY <1>3, <1>4, <1>5 DEF t

\* the buttons.
LEMMA ButtonSet ==
  ASSUME NEW s \in States, NEW b \in BOOLEAN, Lines(s)
  PROVE  SameBut(s, setBTNSWT(s, b), {"btnswt", "irq"}) /\ Lines(setBTNSWT(s, b))
<1> DEFINE edges == s.btnswt.status \cup (IF b = s.btnswt.pressed THEN {}
                                     ELSE IF b THEN {"press"} ELSE {"release"})
           s1 == [s EXCEPT !.btnswt.pressed = b, !.btnswt.status = edges]
           on == edges \cap s.btnswt.control # {}
           t == setBTNSWT(s, b)
<1>0. /\ edges \subseteq Edge /\ t = Line(s1, IRQ_BUTTONS, on)
      /\ on <=> \E f \in Edge : f \in edges /\ f \in s.btnswt.control
  BY DEF States, Edge, setBTNSWT
<1> HIDE DEF edges, on, t
<1>1. SameBut(s, s1, {"btnswt"}) /\ s1.btnswt.status = edges /\ s1.btnswt.control = s.btnswt.control
  BY <1>0 DEF States, SameBut, Run, Serial, Edge
<1>2. Set(s1, t, IRQ_BUTTONS, on)
  BY <1>0, <1>1, Lined, Apart DEF SameBut
<1> HIDE DEF s1, t
<1>3. SameBut(s, t, {"btnswt", "irq"})
  BY <1>1, <1>2 DEF SameBut, Set, Run
<1>4. Lines(t)
  <2>1. t.btnswt.status = edges /\ t.btnswt.control = s.btnswt.control
    BY <1>1, <1>2 DEF SameBut, Set
  <2>2. IRQ_BUTTONS \in t.irq <=> \E f \in Edge : f \in t.btnswt.status /\ f \in t.btnswt.control
    BY <1>0, <1>2, <2>1 DEF Set
  <2>3. t.timer = s.timer /\ t.rs232 = s.rs232 /\ t.hpt = s.hpt /\ s1.irq = s.irq
    BY <1>1, <1>2 DEF SameBut, Set
  <2> QED BY <1>2, <2>2, <2>3, Apart DEF Set, Lines
<1> QED BY <1>3, <1>4 DEF t

LEMMA ButtonsRead ==
  ASSUME NEW s \in States, Lines(s)
  PROVE  SameBut(s, readBTNSWT(s), {"btnswt", "irq"}) /\ Lines(readBTNSWT(s))
<1> DEFINE s1 == [s EXCEPT !.btnswt.status = {}]
           t == readBTNSWT(s)
<1>1. SameBut(s, s1, {"btnswt"}) /\ s1.btnswt.status = {}
  BY DEF States, SameBut, Run
<1>2. t = Line(s1, IRQ_BUTTONS, FALSE)
  BY DEF readBTNSWT, Line
<1>3. Set(s1, t, IRQ_BUTTONS, FALSE)
  BY <1>1, <1>2, Lined, Apart DEF SameBut
<1> HIDE DEF s1, t
<1>4. SameBut(s, t, {"btnswt", "irq"})
  BY <1>1, <1>3 DEF SameBut, Set, Run
<1>5. Lines(t)
  BY <1>1, <1>3, Apart DEF SameBut, Set, Run, Lines
<1> QED BY <1>4, <1>5 DEF t

LEMMA MaskWritten ==
  ASSUME NEW s \in States, NEW d \in SUBSET Edge, Lines(s)
  PROVE  SameBut(s, writeBTNSWT(s, d), {"btnswt", "irq"}) /\ Lines(writeBTNSWT(s, d))
<1> DEFINE s1 == [s EXCEPT !.btnswt.control = d]
           t == writeBTNSWT(s, d)
<1>1. SameBut(s, s1, {"btnswt"}) /\ s1.btnswt.status = s.btnswt.status /\ s1.btnswt.control = d
  BY DEF States, SameBut, Run, Serial, Edge
<1>2. Set(s1, t, IRQ_BUTTONS, s.btnswt.status \cap d # {})
  BY <1>1, Lined, Apart DEF writeBTNSWT, SameBut
<1> HIDE DEF s1, t
<1>3. SameBut(s, t, {"btnswt", "irq"})
  BY <1>1, <1>2 DEF SameBut, Set, Run
<1>4. Lines(t)
  BY <1>1, <1>2, Apart DEF SameBut, Set, Run, Lines, Edge
<1> QED BY <1>3, <1>4 DEF t

----------------------------------------------------------------------------
\* The part of the invariant about the devices.
Good(s) == s \in States /\ Lines(s) /\ Clock(s)
\* t has the devices of s.
SameDevices(s, t) ==
  /\ t.timer = s.timer /\ t.rs232 = s.rs232 /\ t.hpt = s.hpt /\ t.btnswt = s.btnswt /\ t.irq = s.irq
  /\ t.elapsed = s.elapsed

\* It does not depend on the processor.
LEMMA Unchanged ==
  ASSUME NEW s, Good(s), NEW t \in States, SameDevices(s, t)
  PROVE  Good(t)
BY DEF Good, SameDevices, Lines, Clock

\* It outlasts operations that leave the period alone,
LEMMA NoPeriod ==
  ASSUME NEW s, Good(s), NEW t, Lines(t),
         NEW F \in SUBSET {"timer", "rs232", "btnswt", "irq"}, SameBut(s, t, F)
  PROVE  Good(t) /\ Run(s, t)
BY DEF Good, SameBut, Clock

\* and those on the control word of the timer.
LEMMA InPeriod ==
  ASSUME NEW s, Good(s), NEW t, Lines(t), SameBut(s, t, {"hpt", "irq"}),
         SamePeriod(s, t)
  PROVE  Good(t) /\ Run(s, t)
BY DEF Good, SameBut, SamePeriod, Clock

\* The clocks of the devices keep it, and the processor.
LEMMA Ticked ==
  ASSUME NEW s, Good(s), NEW E
  PROVE  Good(Ticks(s, E)) /\ Run(s, Ticks(s, E))
<1> DEFINE s1 == IF "timer" \in E THEN tickTimer(s) ELSE s
           s2 == IF "received" \in E THEN receiveRS232(s1) ELSE s1
           s3 == IF "transmitted" \in E THEN transmitRS232(s2) ELSE s2
           t == [tickHPT(s3) EXCEPT !.elapsed = (@ + CC) % s3.hpt.divisor]
<1>1. Good(s1) /\ Run(s, s1) /\ s1.hpt = s.hpt
  <2>1. CASE "timer" \in E
    <3>1. SameBut(s, s1, {"timer", "irq"}) /\ Lines(s1)
      BY <2>1, TimerTicks DEF Good
    <3> HIDE DEF s1
    <3> QED BY <3>1, NoPeriod DEF SameBut
  <2>2. CASE "timer" \notin E
    BY <2>2 DEF Run
  <2> QED BY <2>1, <2>2
<1> HIDE DEF s1
<1>2. Good(s2) /\ Run(s1, s2) /\ s2.hpt = s1.hpt
  <2>1. CASE "received" \in E
    <3>1. SameBut(s1, s2, {"rs232", "irq"}) /\ Lines(s2)
      BY <1>1, <2>1, SerialReceived DEF Good
    <3> HIDE DEF s2
    <3> QED BY <1>1, <3>1, NoPeriod DEF SameBut
  <2>2. CASE "received" \notin E
    BY <1>1, <2>2 DEF Run
  <2> QED BY <2>1, <2>2
<1> HIDE DEF s2
<1>3. Good(s3) /\ Run(s2, s3) /\ s3.hpt = s2.hpt
  <2>1. CASE "transmitted" \in E
    <3>1. SameBut(s2, s3, {"rs232", "irq"}) /\ Lines(s3)
      BY <1>2, <2>1, Transmitted DEF Good
    <3> HIDE DEF s3
    <3> QED BY <1>2, <3>1, NoPeriod DEF SameBut
  <2>2. CASE "transmitted" \notin E
    BY <1>2, <2>2 DEF Run
  <2> QED BY <2>1, <2>2
<1>4. Ticks(s, E) = t
  <2>1. s3.hpt = s.hpt
    BY <1>1, <1>2, <1>3
  <2> QED BY <2>1 DEF Ticks, s1, s2, s3
<1> HIDE DEF s3
<1>5. SameBut(s3, t, {"hpt", "irq", "elapsed"}) /\ Lines(t) /\ Clock(t)
  BY <1>3, PeriodCounted DEF Good
<1> HIDE DEF t
<1> QED BY <1>1, <1>2, <1>3, <1>4, <1>5 DEF Good, SameBut, Run

----------------------------------------------------------------------------
\* The main program goes round 10, 11, 12.
LEMMA MainEnds == Main = {10, 11, 12} /\ Max(Main) = 12 /\ Min(Main) = 10
<1>1. Main = {10, 11, 12}
  BY DEF Main
<1> QED BY <1>1 DEF Max, Min

\* The line with the highest number is one of those that are set.
LEMMA Foremost ==
  ASSUME NEW S \in SUBSET Irq, S # {}
  PROVE  Max(S) \in S
<1>1. \A l \in Irq : l \in Nat
  BY DEF Irq, IRQ_HPT_0, IRQ_TIMER, IRQ_RCV, IRQ_XMT, IRQ_BUTTONS
<1>2. \E l \in S : \A k \in S : l >= k
  <2>1. CASE 15 \in S
    BY <2>1 DEF Irq, IRQ_HPT_0, IRQ_TIMER, IRQ_RCV, IRQ_XMT, IRQ_BUTTONS
  <2>2. CASE 15 \notin S /\ 11 \in S
    BY <2>2 DEF Irq, IRQ_HPT_0, IRQ_TIMER, IRQ_RCV, IRQ_XMT, IRQ_BUTTONS
  <2>3. CASE 15 \notin S /\ 11 \notin S /\ 7 \in S
    BY <2>3 DEF Irq, IRQ_HPT_0, IRQ_TIMER, IRQ_RCV, IRQ_XMT, IRQ_BUTTONS
  <2>4. CASE 15 \notin S /\ 11 \notin S /\ 7 \notin S /\ 6 \in S
    BY <2>4 DEF Irq, IRQ_HPT_0, IRQ_TIMER, IRQ_RCV, IRQ_XMT, IRQ_BUTTONS
  <2>5. CASE 15 \notin S /\ 11 \notin S /\ 7 \notin S /\ 6 \notin S
    <3>1. 3 \in S /\ \A k \in S : k = 3
      BY <2>5 DEF Irq, IRQ_HPT_0, IRQ_TIMER, IRQ_RCV, IRQ_XMT, IRQ_BUTTONS
    <3> QED BY <3>1
  <2> QED BY <2>1, <2>2, <2>3, <2>4, <2>5
<1> QED BY <1>2 DEF Max

\* Addresses of the service routines; how many have saved their registers, how
\* many have been entered.
InRoutine == 0 .. 8
Saves(s) == Len(s.stack)
Depth(s) == Len(s.frames)
\* The part about the processor. In the main program nothing is saved; a routine
\* that has not saved X, P and irqAck yet, or has taken them back, cannot be
\* interrupted and has its own return address in X; otherwise only the
\* instruction at 5 runs with interrupts enabled.  What has been interrupted is
\* the main program first, and routines at 5 above it, all with interrupts
\* enabled and with the mask that is there now; what is saved belongs to it.
Nested(s) ==
  /\ s.core.pc \in Main \cup InRoutine
  /\ s.core.pc \in Main <=> Depth(s) = 0
  /\ s.core.pc \in Main => Saves(s) = 0
  /\ s.core.pc \in InRoutine => s.core.irqAck \in Irq
  /\ s.core.pc \in {0, 1, 2, 8} =>
       Depth(s) = Saves(s) + 1 /\ s.core.X = s.frames[Depth(s)].pc /\ s.core.P = TRUE
       /\ s.core.I = FALSE
  /\ s.core.pc \in 3 .. 7 => Depth(s) = Saves(s) /\ s.core.I = (s.core.pc = 5)
  /\ s.core.pc = 7 => s.core.X = s.frames[Depth(s)].pc
  /\ \A k \in 1 .. Depth(s) :
       /\ s.frames[k].I = TRUE /\ s.frames[k].irqMask = s.core.irqMask
       /\ IF k = 1 THEN s.frames[k].pc \in Main ELSE s.frames[k].pc = 5
  /\ \A k \in 1 .. Saves(s) :
       /\ s.stack[k].X = s.frames[k].pc /\ s.stack[k].irqMask = s.core.irqMask
       /\ s.stack[k].irqAck \in Irq /\ s.stack[k].P = TRUE /\ s.stack[k].I = FALSE
\* The main program in a state.
MainOf(s) ==
  IF s.frames = << >> THEN [pc |-> s.core.pc, I |-> s.core.I, irqMask |-> s.core.irqMask] ELSE s.frames[1]

\* Taking an interrupt keeps the invariant and the main program.
LEMMA Handled ==
  ASSUME NEW s, Good(s), Nested(s)
  PROVE  LET t == handleInterrupts(s)
         IN Good(t) /\ Nested(t) /\ MainOf(t) = MainOf(s)
<1> DEFINE t == handleInterrupts(s)
           seen == s.irq \cap s.core.irqMask
           f == [pc |-> s.core.pc, I |-> s.core.I, irqMask |-> s.core.irqMask]
<1>1. CASE seen = {} \/ ~ s.core.I
  <2>1. t = s
    BY <1>1 DEF handleInterrupts
  <2> QED BY <2>1
<1>2. CASE seen # {} /\ s.core.I
  <2>1. s \in States /\ s.core \in Cores /\ s.frames \in Seq(Frames) /\ f \in Frames
        /\ s.core.I = TRUE
    BY <1>2 DEF Good, States, Cores, Frames
  <2>2. s.core.pc \in Main \cup {5} /\ Depth(s) = Saves(s)
    <3>1. s.core.pc \in {0, 1, 2, 8} \cup 3 .. 7 \cup Main
      BY DEF Nested, InRoutine
    <3>2. s.core.pc \notin {0, 1, 2, 8}
      BY <2>1 DEF Nested
    <3>3. s.core.pc \in 3 .. 7 => s.core.pc = 5
      BY <2>1 DEF Nested
    <3> QED BY <3>1, <3>2, <3>3 DEF Nested
  <2>3. Max(seen) \in Irq
    BY <1>2, <2>1, Foremost DEF Cores
  <2> DEFINE c == [s.core EXCEPT !.X = s.core.pc, !.P = s.core.I, !.I = FALSE, !.irqAck = Max(seen), !.pc = EXC_VECTOR]
             h == Append(s.frames, f)
  <2>4. t = [s EXCEPT !.core = c, !.frames = h]
    BY <1>2 DEF handleInterrupts
  <2>5. /\ c \in Cores /\ c.pc = 0 /\ c.X = s.core.pc /\ c.P = TRUE /\ c.I = FALSE
        /\ c.irqAck \in Irq
        /\ c.irqMask = s.core.irqMask
    <3> DEFINE ack == Max(seen)
               old == s.core
    <3>1. old \in Cores /\ ack \in Irq /\ old.I = TRUE /\ EXC_VECTOR = 0
      BY <2>1, <2>3 DEF EXC_VECTOR
    <3>2. c = [old EXCEPT !.X = old.pc, !.P = old.I, !.I = FALSE, !.irqAck = ack, !.pc = 0]
      BY <3>1
    <3> HIDE DEF ack, old, c
    <3>3. c = [pc |-> 0, X |-> old.pc, I |-> FALSE, P |-> old.I, irqAck |-> ack, irqMask |-> old.irqMask]
      BY <3>1, <3>2 DEF Cores
    <3>4. old.pc \in 0 .. 12 /\ old.irqMask \in SUBSET Irq /\ 0 \in 0 .. 12 /\ ack \in {0} \cup Irq
      BY <3>1 DEF Cores
    <3>5. /\ c \in Cores /\ c.pc = 0 /\ c.X = old.pc /\ c.P = TRUE /\ c.I = FALSE /\ c.irqAck = ack
          /\ c.irqMask = old.irqMask
      BY <3>1, <3>3, <3>4 DEF Cores
    <3> QED BY <3>1, <3>5 DEF old
  <2>6. /\ h \in Seq(Frames) /\ Len(h) = Len(s.frames) + 1 /\ h[Len(s.frames) + 1] = f
        /\ \A k \in 1 .. Len(s.frames) : h[k] = s.frames[k]
    BY <2>1
  <2>7. Len(s.frames) \in Nat
    BY <2>1
  <2>8. f.pc = s.core.pc /\ f.I = TRUE /\ f.irqMask = s.core.irqMask
    BY <2>1
  <2> HIDE DEF c, h
  <2>9. t \in States /\ SameDevices(s, t) /\ t.core = c /\ t.frames = h /\ t.stack = s.stack
    BY <2>1, <2>4, <2>5, <2>6 DEF States, SameDevices
  <2> HIDE DEF t
  <2>10. MainOf(t) = MainOf(s)
    <3>1. CASE s.frames = << >>
      <4>1. Len(s.frames) = 0 /\ Len(h) = 1 /\ h[1] = f /\ h # << >>
        <5>1. Len(s.frames) = 0
          BY <3>1
        <5> HIDE DEF f
        <5>2. Len(h) = 1 /\ h[1] = f
          BY <2>6, <5>1
        <5> QED BY <5>1, <5>2
      <4> QED BY <2>9, <3>1, <4>1 DEF MainOf
    <3>2. CASE s.frames # << >>
      <4>1. Len(s.frames) >= 1 /\ h[1] = s.frames[1] /\ h # << >>
        BY <2>1, <2>6, <3>2
      <4> QED BY <2>9, <3>2, <4>1 DEF MainOf
    <3> QED BY <3>1, <3>2
  <2>11. Nested(t)
    <3> HIDE DEF f
    <3>1. Saves(t) = Saves(s) /\ Depth(t) = Depth(s) + 1 /\ Depth(s) \in Nat
      BY <2>6, <2>7, <2>9 DEF Saves, Depth
    <3>2. \A k \in 1 .. Depth(t) :
            /\ t.frames[k].I = TRUE /\ t.frames[k].irqMask = t.core.irqMask
            /\ IF k = 1 THEN t.frames[k].pc \in Main ELSE t.frames[k].pc = 5
      <4> TAKE k \in 1 .. Depth(t)
      <4>1. CASE k \in 1 .. Depth(s)
        <5>1. t.frames[k] = s.frames[k] /\ t.core.irqMask = s.core.irqMask
          BY <2>5, <2>6, <2>9, <4>1 DEF Depth
        <5> QED BY <4>1, <5>1 DEF Nested
      <4>2. CASE k = Depth(s) + 1
        <5>1. k = 1 <=> s.core.pc \in Main
          BY <3>1, <4>2 DEF Nested
        <5>2. t.frames[k] = f
          BY <2>6, <2>9, <4>2 DEF Depth
        <5>3. t.core.irqMask = s.core.irqMask
          BY <2>5, <2>9
        <5>4. s.core.pc \notin Main => s.core.pc = 5
          BY <2>2
        <5> QED BY <2>8, <5>1, <5>2, <5>3, <5>4
      <4>3. k \in 1 .. Depth(s) \/ k = Depth(s) + 1
        <5> HIDE DEF Depth
        <5> QED BY <3>1
      <4> QED BY <4>1, <4>2, <4>3
    <3>3. \A k \in 1 .. Saves(t) :
            /\ t.stack[k].X = t.frames[k].pc /\ t.stack[k].irqMask = t.core.irqMask
            /\ t.stack[k].irqAck \in Irq /\ t.stack[k].P = TRUE /\ t.stack[k].I = FALSE
      BY <2>2, <2>5, <2>6, <2>9, <3>1 DEF Nested, Depth, Saves
    <3>4. t.core.pc = 0 /\ t.core.X = t.frames[Depth(t)].pc /\ t.core.P = TRUE
          /\ t.core.I = FALSE /\ t.core.irqAck \in Irq
      BY <2>5, <2>6, <2>8, <2>9, <3>1 DEF Depth
    <3> QED BY <2>2, <3>1, <3>2, <3>3, <3>4 DEF Nested, Main, InRoutine
  <2> QED BY <2>9, <2>10, <2>11, Unchanged DEF t
<1> QED BY <1>1, <1>2

----------------------------------------------------------------------------
\* The inductive invariant.
IrqInv == Good(State) /\ Nested(State)

\* The record of the variables.
LEMMA Fields ==
  /\ State.timer = timer /\ State.rs232 = rs232 /\ State.hpt = hpt /\ State.btnswt = btnswt
  /\ State.irq = irqPending /\ State.core = core /\ State.stack = stack /\ State.frames = frames
  /\ State.elapsed = elapsed
BY DEF State

\* What is proved of a record holds of the variables in the next state.
LEMMA Became ==
  ASSUME NEW s, Good(s), Nested(s), Become(s)
  PROVE  IrqInv' /\ MainProgram' = MainOf(s)
<1>1. State' = s
  BY DEF Good, States, Become, State
<1>2. MainProgram' = MainOf(s)
  BY DEF Become, MainProgram, MainOf
<1> QED BY <1>1, <1>2 DEF IrqInv

\* A step of the main program ends with the next instruction or an interrupt.
LEMMA MainStepEnds ==
  ASSUME IrqInv, core.pc \in Main, NEW s, Good(s),
         s.core.pc = core.pc, s.stack = stack, s.frames = frames, Become(handleInterrupts(Loop(s)))
  PROVE  IrqInv' /\ Undisturbed
<1> DEFINE t == Loop(s)
           next == IF core.pc = 12 THEN 10 ELSE core.pc + 1
<1>1. frames = << >> /\ stack = << >> /\ Len(frames) = 0 /\ Len(stack) = 0
  <2>1. frames \in Seq(Frames) /\ stack \in Seq(Cores) /\ Len(frames) = 0 /\ Len(stack) = 0
    BY Fields DEF IrqInv, Good, States, Nested, Depth, Saves
  <2> QED BY <2>1
<1>2. next \in Main /\ next \in 0 .. 12
      /\ next = IF core.pc = Max(Main) THEN Min(Main) ELSE core.pc + 1
  BY MainEnds
<1>3. t = [s EXCEPT !.core.pc = next]
  BY <1>2 DEF Loop
<1> HIDE DEF t, next
<1>4. t \in States /\ SameDevices(s, t) /\ t.core.pc = next /\ t.stack = << >> /\ t.frames = << >>
  <2>1. s \in States /\ s.core \in Cores
    BY DEF Good, States
  <2>2. [s.core EXCEPT !.pc = next] \in Cores /\ [s.core EXCEPT !.pc = next].pc = next
    BY <1>2, <2>1 DEF Cores
  <2>3. t = [s EXCEPT !.core = [s.core EXCEPT !.pc = next]]
    BY <1>3, <2>1 DEF States
  <2> QED BY <1>1, <2>1, <2>2, <2>3 DEF States, SameDevices
<1>5. Good(t)
  BY <1>4, Unchanged
<1>6. Nested(t)
  <2>1. Len(t.frames) = 0 /\ Len(t.stack) = 0 /\ t.core.pc \in Main
    BY <1>1, <1>2, <1>4
  <2>2. t.core.pc \notin 0 .. 8
    BY <2>1 DEF Main
  <2> QED BY <2>1, <2>2 DEF Nested, Depth, Saves, InRoutine
<1>7. IrqInv' /\ MainProgram' = MainOf(t)
  BY <1>5, <1>6, Handled, Became DEF t
<1>8. MainOf(t).pc = next /\ MainProgram.pc = core.pc
  BY <1>1, <1>4 DEF MainOf, MainProgram
<1> QED BY <1>1, <1>2, <1>7, <1>8 DEF Undisturbed, InMain

\* A step of a routine ends without a trace in the main program.
LEMMA ServiceEnds ==
  ASSUME NEW s, Good(s), Nested(s), MainOf(s) = MainProgram, Become(handleInterrupts(s))
  PROVE  IrqInv' /\ Undisturbed
<1>1. IrqInv' /\ MainProgram' = MainProgram
  BY Handled, Became
<1> QED BY <1>1 DEF Undisturbed

\* The clocks' events, and the state after them.
Happens == {"timer", "received", "transmitted"}
Begun(E) == Ticks(State, E)

\* A step begins with the clocks.
LEMMA Beginning ==
  ASSUME IrqInv, NEW E
  PROVE  /\ Good(Begun(E)) /\ Nested(Begun(E)) /\ MainOf(Begun(E)) = MainProgram
         /\ Begun(E).core = core /\ Begun(E).stack = stack /\ Begun(E).frames = frames
<1>1. Good(Begun(E)) /\ Run(State, Begun(E))
  BY Ticked DEF IrqInv, Begun
<1> QED BY <1>1, Fields DEF IrqInv, Nested, Run, MainOf, MainProgram, Saves, Depth

\* The instructions of the main program.
LEMMA MainActions ==
  ASSUME IrqInv,
         Compute \/ Enable \/ SetMask \/ AccessTimer \/ AccessRS232 \/ AccessHPT \/ AccessBTNSWT
  PROVE  IrqInv' /\ Undisturbed
<1>1. core.pc \in Main
  BY DEF Compute, Enable, SetMask, AccessTimer, AccessRS232, AccessHPT,
       AccessBTNSWT, MainAccess, MainStep, InMain
<1>2. ASSUME NEW E, NEW t, Good(t), Run(Begun(E), t), Become(handleInterrupts(Loop(t)))
      PROVE  IrqInv' /\ Undisturbed
  BY <1>1, <1>2, Beginning, MainStepEnds DEF Run
<1>3. CASE Compute
  <2>1. PICK E \in SUBSET Happens : Become(handleInterrupts(Loop(Begun(E))))
    BY <1>3 DEF Compute, MainStep, cpuStep, Begun, Happens
  <2> QED BY <1>1, <2>1, Beginning, MainStepEnds
<1>4. CASE Enable
  <2>1. PICK b \in BOOLEAN, E \in SUBSET Happens : Become(handleInterrupts(Loop(SetI(Begun(E), b))))
    BY <1>4 DEF Enable, MainStep, cpuStep, Begun, Happens
  <2> DEFINE s == Begun(E)
             t == SetI(s, b)
  <2>2. Good(s) /\ s.core = core /\ s.stack = stack /\ s.frames = frames
    BY Beginning
  <2> HIDE DEF s
  <2>3. t \in States /\ SameDevices(s, t) /\ t.core.pc = core.pc /\ t.stack = stack
        /\ t.frames = frames
    <3>1. [s.core EXCEPT !.I = b] \in Cores /\ [s.core EXCEPT !.I = b].pc = core.pc
      BY <2>2 DEF Good, States, Cores
    <3>2. t = [s EXCEPT !.core = [s.core EXCEPT !.I = b]]
      BY <2>2 DEF SetI, Good, States
    <3> QED BY <2>2, <3>1, <3>2 DEF Good, States, SameDevices
  <2>4. Good(t)
    BY <2>2, <2>3, Unchanged
  <2> HIDE DEF t
  <2> QED BY <1>1, <2>1, <2>3, <2>4, MainStepEnds DEF s, t
<1>5. CASE SetMask
  <2>1. PICK mask \in Masks, E \in SUBSET Happens :
          Become(handleInterrupts(Loop(PutsPSW(Begun(E), [Begun(E).core EXCEPT !.irqMask = mask]))))
    BY <1>5 DEF SetMask, MainAccess, MainStep, cpuStep, Begun, Happens
  <2> DEFINE s == Begun(E)
             psw == [s.core EXCEPT !.irqMask = mask]
             t == PutsPSW(s, psw)
  <2>2. Good(s) /\ s.core = core /\ s.stack = stack /\ s.frames = frames /\ mask \in SUBSET Irq
    BY Beginning, MasksAssumption
  <2> HIDE DEF s
  <2>3. t \in States /\ SameDevices(s, t) /\ t.core.pc = core.pc /\ t.stack = stack
        /\ t.frames = frames
    <3> DEFINE c == [psw EXCEPT !.pc = s.core.pc, !.X = s.core.X]
    <3>1. psw \in Cores /\ s.core \in Cores
      BY <2>2 DEF Good, States, Cores
    <3> HIDE DEF psw
    <3>2. c \in Cores /\ c.pc = core.pc
      BY <2>2, <3>1 DEF Cores
    <3>3. t = [s EXCEPT !.core = c]
      BY DEF PutsPSW
    <3> QED BY <2>2, <3>2, <3>3 DEF Good, States, SameDevices
  <2>4. Good(t)
    BY <2>2, <2>3, Unchanged
  <2> HIDE DEF t
  <2> QED BY <1>1, <2>1, <2>3, <2>4, MainStepEnds DEF s, psw, t
<1>6. CASE AccessTimer
  <2>1. CASE \E b \in BOOLEAN : MainAccess(LAMBDA s : writeTimer(s, b))
    <3>1. PICK b \in BOOLEAN, E \in SUBSET Happens :
            Become(handleInterrupts(Loop(writeTimer(Begun(E), b))))
      BY <2>1 DEF MainAccess, MainStep, cpuStep, Begun, Happens
    <3> QED BY <1>2, <3>1, Beginning, TimerWritten, NoPeriod DEF Good
  <2>2. CASE MainAccess(readTimer)
    <3>1. PICK E \in SUBSET Happens : Become(handleInterrupts(Loop(readTimer(Begun(E)))))
      BY <2>2 DEF MainAccess, MainStep, cpuStep, Begun, Happens
    <3> QED BY <1>2, <3>1, Beginning, TimerRead, NoPeriod DEF Good
  <2> QED BY <1>6, <2>1, <2>2 DEF AccessTimer
<1>7. CASE AccessRS232
  <2>1. CASE MainAccess(readRS232data)
    <3>1. PICK E \in SUBSET Happens : Become(handleInterrupts(Loop(readRS232data(Begun(E)))))
      BY <2>1 DEF MainAccess, MainStep, cpuStep, Begun, Happens
    <3> QED BY <1>2, <3>1, Beginning, DataRead, NoPeriod DEF Good
  <2>2. CASE MainAccess(writeRS232data)
    <3>1. PICK E \in SUBSET Happens : Become(handleInterrupts(Loop(writeRS232data(Begun(E)))))
      BY <2>2 DEF MainAccess, MainStep, cpuStep, Begun, Happens
    <3> QED BY <1>2, <3>1, Beginning, DataWritten, NoPeriod DEF Good
  <2>3. CASE \E d \in SUBSET Serial : MainAccess(LAMBDA s : writeRS232ctrl(s, d))
    <3>1. PICK d \in SUBSET Serial, E \in SUBSET Happens :
            Become(handleInterrupts(Loop(writeRS232ctrl(Begun(E), d))))
      BY <2>3 DEF MainAccess, MainStep, cpuStep, Begun, Happens
    <3> QED BY <1>2, <3>1, Beginning, ControlWritten, NoPeriod DEF Good
  <2> QED BY <1>7, <2>1, <2>2, <2>3 DEF AccessRS232
<1>8. CASE AccessHPT
  <2>1. CASE \E d \in Divisors : MainAccess(LAMBDA s : writeHPTdata(s, d))
    <3>1. PICK d \in Divisors, E \in SUBSET Happens :
            Become(handleInterrupts(Loop(writeHPTdata(Begun(E), d))))
      BY <2>1 DEF MainAccess, MainStep, cpuStep, Begun, Happens
    <3> QED BY <1>2, <3>1, Beginning, DivisorWritten DEF Good, SameBut
  <2>2. CASE MainAccess(readHPTctrl)
    <3>1. PICK E \in SUBSET Happens : Become(handleInterrupts(Loop(readHPTctrl(Begun(E)))))
      BY <2>2 DEF MainAccess, MainStep, cpuStep, Begun, Happens
    <3> QED BY <1>2, <3>1, Beginning, HPTRead, InPeriod DEF Good
  <2>3. CASE \E b \in BOOLEAN : MainAccess(LAMBDA s : writeHPTctrl(s, b))
    <3>1. PICK b \in BOOLEAN, E \in SUBSET Happens :
            Become(handleInterrupts(Loop(writeHPTctrl(Begun(E), b))))
      BY <2>3 DEF MainAccess, MainStep, cpuStep, Begun, Happens
    <3> QED BY <1>2, <3>1, Beginning, HPTWritten, InPeriod DEF Good
  <2> QED BY <1>8, <2>1, <2>2, <2>3 DEF AccessHPT
<1>9. CASE AccessBTNSWT
  <2>1. CASE MainAccess(readBTNSWT)
    <3>1. PICK E \in SUBSET Happens : Become(handleInterrupts(Loop(readBTNSWT(Begun(E)))))
      BY <2>1 DEF MainAccess, MainStep, cpuStep, Begun, Happens
    <3> QED BY <1>2, <3>1, Beginning, ButtonsRead, NoPeriod DEF Good
  <2>2. CASE \E d \in SUBSET Edge : MainAccess(LAMBDA s : writeBTNSWT(s, d))
    <3>1. PICK d \in SUBSET Edge, E \in SUBSET Happens :
            Become(handleInterrupts(Loop(writeBTNSWT(Begun(E), d))))
      BY <2>2 DEF MainAccess, MainStep, cpuStep, Begun, Happens
    <3> QED BY <1>2, <3>1, Beginning, MaskWritten, NoPeriod DEF Good
  <2> QED BY <1>9, <2>1, <2>2 DEF AccessBTNSWT
<1> QED BY <1>3, <1>4, <1>5, <1>6, <1>7, <1>8, <1>9

\* A sequence without its last element.
LEMMA Fronts ==
  ASSUME NEW S, NEW q \in Seq(S), Len(q) # 0
  PROVE  /\ Front(q) \in Seq(S) /\ Len(Front(q)) = Len(q) - 1 /\ Last(q) = q[Len(q)]
         /\ Last(q) \in S
         /\ \A k \in 1 .. Len(q) - 1 : Front(q)[k] = q[k]
         /\ Len(q) \in Nat
<1>1. Len(q) \in Nat /\ Len(q) - 1 \in Nat
  OBVIOUS
<1>2. /\ Front(q) \in Seq(S) /\ Len(Front(q)) = Len(q) - 1
      /\ \A k \in 1 .. Len(q) - 1 : Front(q)[k] = q[k]
  <2>1. Front(q) = SubSeq(q, 1, Len(q) - 1)
    BY DEF Front
  <2> DEFINE last == Len(q) - 1
  <2>2. last \in Nat /\ last <= Len(q)
    BY <1>1
  <2>3. \A k \in 1 .. last : q[k] \in S
    BY <1>1
  <2> HIDE DEF last
  <2>4. SubSeq(q, 1, last) \in Seq(S) /\ Len(SubSeq(q, 1, last)) = last
        /\ \A k \in 1 .. last : SubSeq(q, 1, last)[k] = q[k]
    BY <2>2, <2>3
  <2> QED BY <2>1, <2>4 DEF last
<1> QED BY <1>1, <1>2 DEF Last

\* A routine's access to its device keeps the devices' part.
LEMMA Served ==
  ASSUME NEW s, Good(s), s.core.irqAck \in Irq
  PROVE  Good(Serve(s)) /\ Run(s, Serve(s))
<1>1. Serve(s) \in {readTimer(s), readHPTctrl(s), readRS232data(s), writeRS232data(s), readBTNSWT(s)}
  <2>1. s.core.irqAck \in {IRQ_HPT_0, IRQ_TIMER, IRQ_RCV, IRQ_XMT, IRQ_BUTTONS}
    BY Apart
  <2> QED BY <2>1, Apart, Zenon DEF Serve
<1>2. s \in States /\ Lines(s)
  BY DEF Good
<1>3. Good(readTimer(s)) /\ Run(s, readTimer(s))
  BY <1>2, TimerRead, NoPeriod
<1>4. Good(readHPTctrl(s)) /\ Run(s, readHPTctrl(s))
  BY <1>2, HPTRead, InPeriod
<1>5. Good(readRS232data(s)) /\ Run(s, readRS232data(s))
  BY <1>2, DataRead, NoPeriod
<1>6. Good(writeRS232data(s)) /\ Run(s, writeRS232data(s))
  BY <1>2, DataWritten, NoPeriod
<1>7. Good(readBTNSWT(s)) /\ Run(s, readBTNSWT(s))
  BY <1>2, ButtonsRead, NoPeriod
<1> QED BY <1>1, <1>3, <1>4, <1>5, <1>6, <1>7

\* s with other registers, other saved ones and other return addresses.
With(s, c, q, h) ==
  [timer |-> s.timer, rs232 |-> s.rs232, hpt |-> s.hpt, btnswt |-> s.btnswt, irq |-> s.irq,
   core |-> c, stack |-> q, frames |-> h, elapsed |-> s.elapsed]

\* The processor may change by itself.
LEMMA CoreChanged ==
  ASSUME NEW s, Good(s), NEW c \in Cores, NEW q \in Seq(Cores), NEW h \in Seq(Frames),
         NEW t, t = With(s, c, q, h)
  PROVE  Good(t) /\ t.core = c /\ t.stack = q /\ t.frames = h
<1>1. t \in States /\ SameDevices(s, t) /\ t.core = c /\ t.stack = q /\ t.frames = h
  BY DEF Good, States, SameDevices, With
<1> QED BY <1>1, Unchanged

\* What the parts of a state are.
LEMMA Parts ==
  ASSUME NEW s, Good(s)
  PROVE  /\ s \in States /\ s.core \in Cores /\ s.stack \in Seq(Cores) /\ s.frames \in Seq(Frames)
         /\ Len(s.stack) \in Nat /\ Len(s.frames) \in Nat
BY DEF Good, States

(* An instruction that only changes the registers.                           *)
LEMMA Instruction ==
  ASSUME NEW s, Good(s), NEW c \in Cores, NEW t, t = [s EXCEPT !.core = c]
  PROVE  Good(t) /\ t.core = c /\ t.stack = s.stack /\ t.frames = s.frames
<1>1. t \in States /\ SameDevices(s, t) /\ t.core = c /\ t.stack = s.stack /\ t.frames = s.frames
  BY DEF Good, States, SameDevices
<1> QED BY <1>1, Unchanged

\* A step inside a routine does not change what has been interrupted first.
LEMMA RoutineEnds ==
  ASSUME IrqInv, NEW E, NEW t, Good(t), Nested(t), t.frames = frames,
         frames # << >>, Become(handleInterrupts(t))
  PROVE  IrqInv' /\ Undisturbed
BY ServiceEnds DEF MainOf, MainProgram

\* In a routine the main program is interrupted.
LEMMA MainWaits ==
  ASSUME IrqInv, core.pc \in InRoutine
  PROVE  frames # << >> /\ Len(frames) # 0 /\ core.pc \notin Main
<1>1. core.pc \notin Main
  BY DEF InRoutine, Main
<1> QED BY <1>1, Fields DEF IrqInv, Nested, Depth

\* A routine serves its device,
LEMMA ServeActions ==
  ASSUME IrqInv, NEW a \in {1, 3}, At(a, LAMBDA s : Next1(Serve(s)))
  PROVE  IrqInv' /\ Undisturbed
<1>1. PICK E \in SUBSET Happens : Become(handleInterrupts(Next1(Serve(Begun(E)))))
  BY DEF At, cpuStep, Begun, Happens
<1> DEFINE s == Serve(Begun(E))
           c == [s.core EXCEPT !.pc = @ + 1]
           t == Next1(s)
<1>2. core.pc = a /\ core.irqAck \in Irq /\ frames # << >>
  <2>1. core.pc = a
    BY DEF At
  <2>2. core.pc \in InRoutine
    BY <2>1 DEF InRoutine
  <2> QED BY <2>1, <2>2, Fields, MainWaits DEF IrqInv, Nested
<1>3. Good(s) /\ s.core = core /\ s.stack = stack /\ s.frames = frames
  BY <1>2, Beginning, Served DEF Run
<1> HIDE DEF s
<1>4. c \in Cores /\ c.pc = a + 1 /\ c.X = core.X /\ c.I = core.I /\ c.P = core.P
      /\ c.irqAck = core.irqAck /\ c.irqMask = core.irqMask
  BY <1>2, <1>3, Parts DEF Cores
<1>5. t = [s EXCEPT !.core = c]
  BY <1>3, Parts DEF Next1, States
<1> HIDE DEF c, t
<1>6. Good(t) /\ t.core = c /\ t.stack = stack /\ t.frames = frames
  BY <1>3, <1>4, <1>5, Instruction
<1>7. Nested(t)
  <2>1. Nested(State)
    BY DEF IrqInv
  <2>2. core.pc \in {1, 3} /\ c.pc \in {2, 4} /\ (core.pc = 1 <=> c.pc = 2)
    BY <1>2, <1>4
  <2> QED BY <1>4, <1>6, <2>1, <2>2, Fields DEF Nested, Depth, Saves, InRoutine, Main
<1> QED BY <1>1, <1>2, <1>6, <1>7, RoutineEnds DEF s, t

(* A step of a service routine that changes registers only.                  *)
LEMMA RegisterStep ==
  ASSUME IrqInv, core.pc \in InRoutine, NEW E, NEW c \in Cores, NEW t,
         t = [Begun(E) EXCEPT !.core = c],
         \A v : v.core = c /\ v.stack = stack /\ v.frames = frames => Nested(v),
         Become(handleInterrupts(t))
  PROVE  IrqInv' /\ Undisturbed
<1>1. Good(Begun(E)) /\ Begun(E).frames = frames /\ Begun(E).stack = stack
  BY Beginning
<1>2. Good(t) /\ t.core = c /\ t.frames = frames /\ t.stack = stack
  BY <1>1, Instruction
<1>4. Nested(t)
  BY <1>2
<1> QED BY <1>2, <1>4, MainWaits, RoutineEnds

(* Registers after an instruction of the routine.                             *)
Loaded(c, a, v, on) ==
  [pc |-> a, X |-> v, I |-> on, P |-> c.P, irqAck |-> c.irqAck, irqMask |-> c.irqMask]

\* Registers after an instruction are registers,
LEMMA LoadedTyped ==
  ASSUME NEW c \in Cores, NEW a \in 0 .. 12, NEW v \in 0 .. 12, NEW on \in BOOLEAN
  PROVE  Loaded(c, a, v, on) \in Cores
BY DEF Cores, Loaded

\* whichever of them it changes.
LEMMA PcChanged ==
  ASSUME NEW c \in Cores, NEW a
  PROVE  [c EXCEPT !.pc = a] = Loaded(c, a, c.X, c.I)
BY DEF Cores, Loaded
LEMMA XChanged ==
  ASSUME NEW c \in Cores, NEW a, NEW v
  PROVE  [[c EXCEPT !.X = v] EXCEPT !.pc = a] = Loaded(c, a, v, c.I) /\ [c EXCEPT !.X = v].pc = c.pc
<1> DEFINE d == [c EXCEPT !.X = v]
<1>1. d = [pc |-> c.pc, X |-> v, I |-> c.I, P |-> c.P, irqAck |-> c.irqAck, irqMask |-> c.irqMask]
  BY DEF Cores
<1> HIDE DEF d
<1>2. [d EXCEPT !.pc = a] = Loaded(c, a, v, c.I) /\ d.pc = c.pc
  BY <1>1 DEF Loaded
<1> QED BY <1>2 DEF d
LEMMA IChanged ==
  ASSUME NEW c \in Cores, NEW a, NEW on
  PROVE  [[c EXCEPT !.I = on] EXCEPT !.pc = a] = Loaded(c, a, c.X, on)
         /\ [c EXCEPT !.I = on].pc = c.pc
<1> DEFINE d == [c EXCEPT !.I = on]
<1>1. d = [pc |-> c.pc, X |-> c.X, I |-> on, P |-> c.P, irqAck |-> c.irqAck, irqMask |-> c.irqMask]
  BY DEF Cores
<1> HIDE DEF d
<1>2. [d EXCEPT !.pc = a] = Loaded(c, a, c.X, on) /\ d.pc = c.pc
  BY <1>1 DEF Loaded
<1> QED BY <1>2 DEF d

\* X is an address, I a bit.
LEMMA RegisterTypes ==
  ASSUME NEW c \in Cores
  PROVE  c.X \in 0 .. 12 /\ c.I \in BOOLEAN
BY DEF Cores

\* An instruction that does not jump.
LEMMA NextOf ==
  ASSUME NEW s \in States, NEW d, NEW a, a = d.pc + 1
  PROVE  Next1([s EXCEPT !.core = d]) = [s EXCEPT !.core = [d EXCEPT !.pc = a]]
BY DEF Next1, States

LEMMA NextOfWith ==
  ASSUME NEW s, NEW d, NEW q, NEW h, NEW t, t = With(s, d, q, h), NEW a, a = d.pc + 1,
         NEW e, e = [d EXCEPT !.pc = a]
  PROVE  Next1(t) = With(s, e, q, h)
<1>1. t.core = d
  BY DEF With
<1>2. Next1(t) = [t EXCEPT !.core = e]
  BY <1>1 DEF Next1, With
<1> QED BY <1>2 DEF With

\* pc changes twice.
LEMMA PcChangedAgain ==
  ASSUME NEW p, NEW a, NEW xx, NEW d, d = Loaded(p, a, xx, p.I), NEW b
  PROVE  d.pc = a /\ [d EXCEPT !.pc = b] = Loaded(p, b, xx, p.I)
BY DEF Loaded

\* RTI: pc from X, I from P.
LEMMA Returned ==
  ASSUME NEW c \in Cores, NEW d, d = [c EXCEPT !.pc = c.X, !.I = c.P]
  PROVE  d = Loaded(c, c.X, c.X, c.P)
BY Zenon DEF Cores, Loaded

\* goes to its end or its nested part,
LEMMA GotoAction ==
  ASSUME IrqInv, At(0, LAMBDA s : Goto(s, 1))
  PROVE  IrqInv' /\ Undisturbed
<1>1. PICK E \in SUBSET Happens : Become(handleInterrupts(Goto(Begun(E), 1)))
  BY DEF At, cpuStep, Begun, Happens
<1> DEFINE s == Begun(E)
           c == Loaded(core, 1, core.X, core.I)
<1>2. core.pc = 0 /\ core.pc \in InRoutine
  BY DEF At, InRoutine
<1>3. Good(s) /\ s.core = core /\ core \in Cores
  BY Beginning, Parts
<1>4. c \in Cores /\ c = [core EXCEPT !.pc = 1] /\ c.pc = 1 /\ c.X = core.X /\ c.I = core.I
      /\ c.P = core.P
      /\ c.irqAck = core.irqAck /\ c.irqMask = core.irqMask
  <2>1. core.X \in 0 .. 12 /\ core.I \in BOOLEAN /\ 1 \in 0 .. 12 /\ 3 \in 0 .. 12
    BY <1>3, RegisterTypes
  <2>2. c \in Cores
    BY <1>3, <2>1, LoadedTyped
  <2>3. c = [core EXCEPT !.pc = 1]
    BY <1>3, PcChanged
  <2> QED BY <2>2, <2>3 DEF Loaded
<1> HIDE DEF s, c
<1>5. Goto(s, 1) = [s EXCEPT !.core = c]
  BY <1>3, <1>4 DEF Goto, Good, States
<1>6. \A v : v.core = c /\ v.stack = stack /\ v.frames = frames => Nested(v)
  BY <1>2, <1>4, Fields DEF IrqInv, Nested, Depth, Saves, InRoutine, Main
<1> QED BY <1>1, <1>2, <1>4, <1>5, <1>6, RegisterStep DEF s

\* saves X and PSW,
LEMMA SaveAction ==
  ASSUME IrqInv, At(0, LAMBDA s : Goto([s EXCEPT !.stack = Append(@, s.core)], 3))
  PROVE  IrqInv' /\ Undisturbed
<1>1. PICK E \in SUBSET Happens :
        Become(handleInterrupts(Goto([Begun(E) EXCEPT !.stack = Append(@, Begun(E).core)], 3)))
  BY DEF At, cpuStep, Begun, Happens
<1> DEFINE s == Begun(E)
           c == Loaded(core, 3, core.X, core.I)
           q == Append(stack, core)
           t == [s EXCEPT !.core = c]
           r == [t EXCEPT !.stack = q]
<1>2. core.pc = 0 /\ core.pc \in InRoutine
  BY DEF At, InRoutine
<1>3. Good(s) /\ s.core = core /\ core \in Cores /\ s.stack = stack /\ stack \in Seq(Cores)
  BY Beginning, Parts
<1>4. c \in Cores /\ c = [core EXCEPT !.pc = 3] /\ c.pc = 3 /\ c.X = core.X /\ c.I = core.I
      /\ c.P = core.P
      /\ c.irqAck = core.irqAck /\ c.irqMask = core.irqMask
  <2>1. core.X \in 0 .. 12 /\ core.I \in BOOLEAN /\ 1 \in 0 .. 12 /\ 3 \in 0 .. 12
    BY <1>3, RegisterTypes
  <2>2. c \in Cores
    BY <1>3, <2>1, LoadedTyped
  <2>3. c = [core EXCEPT !.pc = 3]
    BY <1>3, PcChanged
  <2> QED BY <2>2, <2>3 DEF Loaded
<1>5. /\ q \in Seq(Cores) /\ Len(q) = Len(stack) + 1 /\ q[Len(stack) + 1] = core
      /\ \A k \in 1 .. Len(stack) : q[k] = stack[k]
      /\ Len(stack) \in Nat
  BY <1>3
<1> HIDE DEF s, c, q
<1>6. Goto([s EXCEPT !.stack = Append(@, s.core)], 3) = r
  BY <1>3, <1>4 DEF Goto, Good, States, q
<1>7. \A v : v.core = c /\ v.stack = q /\ v.frames = frames => Nested(v)
  <2> SUFFICES ASSUME NEW v, v.core = c, v.stack = q, v.frames = frames
               PROVE  Nested(v)
    OBVIOUS
  <2> USE DEF Depth, Saves
  <2>1. /\ Nested(State) /\ Len(frames) = Len(stack) + 1 /\ core.X = frames[Len(frames)].pc
        /\ core.I = FALSE /\ core.P = TRUE /\ core.irqAck \in Irq /\ Len(frames) # 0
    BY <1>2, <1>5, Fields DEF IrqInv, Nested
  <2>2. /\ \A k \in 1 .. Len(frames) :
             /\ frames[k].I = TRUE /\ frames[k].irqMask = core.irqMask
             /\ IF k = 1 THEN frames[k].pc \in Main ELSE frames[k].pc = 5
        /\ \A k \in 1 .. Len(stack) :
             /\ stack[k].X = frames[k].pc /\ stack[k].irqMask = core.irqMask
             /\ stack[k].irqAck \in Irq /\ stack[k].P = TRUE /\ stack[k].I = FALSE
    BY <2>1, Fields DEF Nested
  <2>3. \A k \in 1 .. Len(q) : 
             /\ q[k].X = frames[k].pc /\ q[k].irqMask = core.irqMask
             /\ q[k].irqAck \in Irq /\ q[k].P = TRUE /\ q[k].I = FALSE
    <3> TAKE k \in 1 .. Len(q)
    <3>1. k \in 1 .. Len(stack) \/ k = Len(stack) + 1
      BY <1>5
    <3>2. CASE k \in 1 .. Len(stack)
      BY <1>5, <2>2, <3>2
    <3>3. CASE k = Len(stack) + 1
      BY <1>5, <2>1, <3>3
    <3> QED BY <3>1, <3>2, <3>3
  <2>4. c.pc \in 3 .. 7 /\ c.pc # 5 /\ c.pc # 7 /\ c.pc \notin Main /\ c.pc \in InRoutine
        /\ c.pc \notin {0, 1, 2, 8}
    BY <1>4 DEF Main, InRoutine
  <2>5. \A k \in 1 .. Len(v.frames) :
          /\ v.frames[k].I = TRUE /\ v.frames[k].irqMask = v.core.irqMask
          /\ IF k = 1 THEN v.frames[k].pc \in Main ELSE v.frames[k].pc = 5
    BY <1>4, <2>2
  <2>6. \A k \in 1 .. Len(v.stack) :
          /\ v.stack[k].X = v.frames[k].pc /\ v.stack[k].irqMask = v.core.irqMask
          /\ v.stack[k].irqAck \in Irq /\ v.stack[k].P = TRUE /\ v.stack[k].I = FALSE
    BY <1>4, <2>3
  <2>7. Len(v.frames) = Len(v.stack) /\ v.core.I = (v.core.pc = 5) /\ v.core.irqAck \in Irq
        /\ Len(v.frames) # 0
    <3>1. c.irqAck = core.irqAck /\ c.I = core.I /\ c.pc = 3
      BY <1>4
    <3>2. c.I = FALSE /\ (c.pc = 5) = FALSE
      BY <2>1, <3>1
    <3> QED BY <1>5, <2>1, <3>1, <3>2
  <2> QED BY <2>4, <2>5, <2>6, <2>7 DEF Nested
<1>8. t = [Begun(E) EXCEPT !.core = c] /\ r = [t EXCEPT !.stack = q] /\ Become(handleInterrupts(r))
  BY <1>1, <1>6 DEF s
<1> HIDE DEF t, r
<1>9. Good(t) /\ t.core = c /\ t.frames = frames
  BY <1>4, <1>8, Beginning, Instruction
<1>10. r \in States /\ SameDevices(t, r) /\ r.core = c /\ r.stack = q /\ r.frames = frames
  BY <1>5, <1>8, <1>9 DEF Good, States, SameDevices
<1>11. Good(r) /\ Nested(r)
  BY <1>7, <1>9, <1>10, Unchanged
<1> QED BY <1>2, <1>8, <1>10, <1>11, MainWaits, RoutineEnds

\* enables and disables interrupts,
LEMMA EnableAction ==
  ASSUME IrqInv, NEW a, NEW on \in BOOLEAN, (a = 4 /\ on = TRUE) \/ (a = 5 /\ on = FALSE),
         At(a, LAMBDA s : Next1(SetI(s, on)))
  PROVE  IrqInv' /\ Undisturbed
<1>1. PICK E \in SUBSET Happens : Become(handleInterrupts(Next1(SetI(Begun(E), on))))
  BY DEF At, cpuStep, Begun, Happens
<1> DEFINE s == Begun(E)
           c == Loaded(core, a + 1, core.X, on)
<1>2. core.pc = a /\ core.pc \in InRoutine
  BY DEF At, InRoutine
<1>3. Good(s) /\ s.core = core /\ core \in Cores
  BY Beginning, Parts
<1>4. c \in Cores /\ c.pc = a + 1 /\ c.X = core.X
      /\ c.I = on /\ c.P = core.P
      /\ c.irqAck = core.irqAck /\ c.irqMask = core.irqMask
  <2>1. a + 1 \in 0 .. 12 /\ on \in BOOLEAN /\ core.X \in 0 .. 12
    BY <1>3, RegisterTypes
  <2>2. c \in Cores
    BY <1>3, <2>1, LoadedTyped
  <2> QED BY <2>2 DEF Loaded
<1>5. Next1(SetI(s, on)) = [s EXCEPT !.core = c]
  <2>1. s \in States /\ s.core = core /\ core.pc = a /\ core \in Cores
    BY <1>2, <1>3 DEF Good
  <2>2. SetI(s, on) = [s EXCEPT !.core = [core EXCEPT !.I = on]]
    BY <2>1 DEF SetI, States
  <2>3. [core EXCEPT !.I = on].pc = a
    BY <2>1, IChanged
  <2> HIDE DEF s, c
  <2>4. Next1(SetI(s, on)) = [s EXCEPT !.core = [[core EXCEPT !.I = on] EXCEPT !.pc = a + 1]]
    BY <2>1, <2>2, <2>3 DEF Next1, States
  <2>5. [[core EXCEPT !.I = on] EXCEPT !.pc = a + 1] = Loaded(core, a + 1, core.X, on)
    <3> DEFINE b == a + 1
    <3> HIDE DEF b
    <3> DEFINE d == [core EXCEPT !.I = on]
    <3>1. d = [pc |-> core.pc, X |-> core.X, I |-> on, P |-> core.P, irqAck |-> core.irqAck, irqMask |-> core.irqMask]
      BY <2>1 DEF Cores
    <3> HIDE DEF d
    <3>2. [d EXCEPT !.pc = b] = Loaded(core, b, core.X, on)
      BY <3>1 DEF Loaded
    <3> QED BY <3>2 DEF b, d
  <2> QED BY <2>4, <2>5 DEF c
<1> HIDE DEF s, c
<1>6. \A v : v.core = c /\ v.stack = stack /\ v.frames = frames => Nested(v)
  <2>1. c.pc \in {5, 6} /\ c.pc \in InRoutine /\ c.pc \notin Main /\ core.pc \notin Main
    BY <1>2, <1>4 DEF InRoutine, Main
  <2>2. c.I = (c.pc = 5)
    BY <1>4
  <2>3. Nested(State) /\ core.pc \in 3 .. 7
    BY <1>2 DEF IrqInv
  <2> QED BY <1>2, <1>4, <2>1, <2>2, <2>3, Fields DEF Nested, Depth, Saves
<1> QED BY <1>1, <1>2, <1>4, <1>5, <1>6, RegisterStep DEF s

\* takes X back,
LEMMA PutsXAction ==
  ASSUME IrqInv, At(6, LAMBDA s : Next1(PutsX(s, Last(s.stack).X)))
  PROVE  IrqInv' /\ Undisturbed
<1>1. PICK E \in SUBSET Happens :
        Become(handleInterrupts(Next1(PutsX(Begun(E), Last(Begun(E).stack).X))))
  BY DEF At, cpuStep, Begun, Happens
<1> DEFINE s == Begun(E)
           a == Last(stack).X
           c == Loaded(core, 7, a, core.I)
<1>2. core.pc = 6 /\ core.pc \in InRoutine
  BY DEF At, InRoutine
<1>3. Good(s) /\ s.core = core /\ core \in Cores /\ s.stack = stack /\ stack \in Seq(Cores)
      /\ Len(frames) \in Nat
  BY Beginning, Parts
<1>4. Len(stack) = Len(frames) /\ Len(stack) # 0
  <2>1. Len(frames) # 0
    BY <1>2, MainWaits
  <2>2. Nested(State) /\ core.pc \in 3 .. 7
    BY <1>2 DEF IrqInv
  <2> QED BY <2>1, <2>2, Fields DEF Nested, Depth, Saves
<1>5. a \in 0 .. 12 /\ a = stack[Len(stack)].X
  <2>1. Last(stack) \in Cores /\ Last(stack) = stack[Len(stack)]
    BY <1>3, <1>4, Fronts
  <2> QED BY <2>1 DEF Cores
<1>6. a = frames[Len(frames)].pc
  BY <1>3, <1>4, <1>5, Fields DEF IrqInv, Nested, Depth, Saves
<1> HIDE DEF s, a
<1>7. c \in Cores /\ c.pc = 7 /\ c.X = a /\ c.I = core.I /\ c.P = core.P
      /\ c.irqAck = core.irqAck /\ c.irqMask = core.irqMask
  <2>1. core.I \in BOOLEAN /\ 7 \in 0 .. 12
    BY <1>3, RegisterTypes
  <2>2. c \in Cores
    BY <1>3, <1>5, <2>1, LoadedTyped
  <2> QED BY <2>2 DEF Loaded
<1>8. Next1(PutsX(s, Last(s.stack).X)) = [s EXCEPT !.core = c]
  <2>1. s \in States /\ s.core = core /\ core.pc = 6 /\ core \in Cores
    BY <1>2, <1>3 DEF Good
  <2>2. PutsX(s, Last(s.stack).X) = [s EXCEPT !.core = [core EXCEPT !.X = a]]
    BY <1>3, <2>1 DEF PutsX, States, a
  <2>3. [core EXCEPT !.X = a].pc = 6
    BY <2>1, XChanged
  <2> HIDE DEF c
  <2> DEFINE d == [core EXCEPT !.X = a]
             t == [s EXCEPT !.core = d]
  <2>4. Next1(t) = [s EXCEPT !.core = [d EXCEPT !.pc = 7]]
    <3>1. 7 = d.pc + 1
      BY <2>3
    <3> HIDE DEF d
    <3> QED BY <2>1, <3>1, NextOf
  <2>5. [d EXCEPT !.pc = 7] = Loaded(core, 7, a, core.I)
    BY <2>1, XChanged
  <2> QED BY <2>2, <2>4, <2>5 DEF c
<1> HIDE DEF c
<1>9. \A v : v.core = c /\ v.stack = stack /\ v.frames = frames => Nested(v)
  <2>1. c.pc \in InRoutine /\ c.pc \notin Main /\ core.pc \notin Main /\ c.pc \notin {0, 1, 2, 8}
        /\ c.pc \in 3 .. 7
    BY <1>2, <1>7 DEF InRoutine, Main
  <2>2. c.I = (c.pc = 5)
    BY <1>2, <1>7, Fields DEF IrqInv, Nested
  <2>3. Nested(State)
    BY DEF IrqInv
  <2> QED BY <1>2, <1>6, <1>7, <2>1, <2>2, <2>3, Fields DEF Nested, Depth, Saves
<1> QED BY <1>1, <1>2, <1>7, <1>8, <1>9, RegisterStep DEF s

\* takes the PSW back,
LEMMA PutsPSWAction ==
  ASSUME IrqInv,
         At(7, LAMBDA s : Next1([PutsPSW(s, Last(s.stack)) EXCEPT !.stack = Front(@)]))
  PROVE  IrqInv' /\ Undisturbed
<1>1. PICK E \in SUBSET Happens :
        Become(handleInterrupts(Next1([PutsPSW(Begun(E), Last(Begun(E).stack)) EXCEPT !.stack = Front(@)])))
  BY DEF At, cpuStep, Begun, Happens
<1> DEFINE s == Begun(E)
           psw == Last(stack)
           c == Loaded(psw, 8, core.X, psw.I)
           q == Front(stack)
           r == With(s, c, q, frames)
<1>2. core.pc = 7 /\ core.pc \in InRoutine
  BY DEF At, InRoutine
<1>3. /\ Good(s) /\ s.core = core /\ core \in Cores /\ s.stack = stack /\ stack \in Seq(Cores)
      /\ s.frames = frames /\ frames \in Seq(Frames) /\ Len(frames) \in Nat
  BY Beginning, Parts
<1>4. /\ Len(stack) = Len(frames) /\ Len(stack) # 0 /\ Nested(State)
      /\ core.X = frames[Len(frames)].pc
  <2>1. Len(frames) # 0
    BY <1>2, MainWaits
  <2>2. Nested(State) /\ core.pc \in 3 .. 7
    BY <1>2 DEF IrqInv
  <2> QED BY <1>2, <2>1, <2>2, Fields DEF Nested, Depth, Saves
<1>5. /\ q \in Seq(Cores) /\ Len(q) = Len(stack) - 1 /\ psw \in Cores /\ psw = stack[Len(stack)]
      /\ \A k \in 1 .. Len(stack) - 1 : q[k] = stack[k]
      /\ Len(stack) \in Nat
  BY <1>3, <1>4, Fronts
<1>6. psw.irqMask = core.irqMask /\ psw.irqAck \in Irq /\ psw.P = TRUE /\ psw.I = FALSE
  BY <1>4, <1>5, Fields DEF Nested, Saves
<1>7. /\ c \in Cores /\ c.pc = 8 /\ c.X = core.X /\ c.I = FALSE /\ c.P = TRUE
      /\ c.irqAck \in Irq /\ c.irqMask = core.irqMask
  <2>1. core.X \in 0 .. 12 /\ psw.I \in BOOLEAN /\ 8 \in 0 .. 12
    BY <1>3, <1>5, RegisterTypes
  <2> HIDE DEF psw
  <2>2. c \in Cores
    BY <1>5, <2>1, LoadedTyped
  <2> QED BY <1>6, <2>2 DEF Loaded
<1>8. Next1([PutsPSW(s, Last(s.stack)) EXCEPT !.stack = Front(@)]) = r
  <2> DEFINE d == [psw EXCEPT !.pc = 7, !.X = core.X]
             v == [s EXCEPT !.core = d]
             t == With(s, d, q, frames)
  <2>1. s \in States /\ s.core = core /\ core.pc = 7 /\ s.stack = stack /\ s.frames = frames
    BY <1>2, <1>3 DEF Good
  <2> HIDE DEF s
  <2>2. PutsPSW(s, Last(s.stack)) = [s EXCEPT !.core = d]
    BY <2>1 DEF PutsPSW
  <2>3. d.pc = 7 /\ [d EXCEPT !.pc = 8] = c
    <3>1. d = [psw EXCEPT !.pc = 7, !.X = core.X] /\ psw \in Cores
      BY <1>5
    <3> HIDE DEF psw, d
    <3>2. d = Loaded(psw, 7, core.X, psw.I)
      BY <3>1, Zenon DEF Cores, Loaded
    <3> QED BY <3>2, PcChangedAgain
  <2> HIDE DEF d, c, q
  <2>4. [PutsPSW(s, Last(s.stack)) EXCEPT !.stack = Front(@)] = t
    <3>1. v = With(s, d, stack, frames)
      <4>1. v = [s EXCEPT !.core = d] /\ s \in States
        BY <2>1
      <4> HIDE DEF v
      <4>2. v = With(s, d, s.stack, s.frames)
        BY <4>1, Zenon DEF States, With
      <4> QED BY <2>1, <4>2
    <3> HIDE DEF v
    <3>2. [v EXCEPT !.stack = Front(@)] = t
      BY <3>1 DEF With, q
    <3> QED BY <2>2, <3>2 DEF v
  <2>5. Next1(t) = r
    <3>1. 8 = d.pc + 1
      BY <2>3
    <3> HIDE DEF t
    <3> QED BY <2>3, <3>1, NextOfWith DEF t
  <2> QED BY <2>4, <2>5
<1> HIDE DEF s, c, q, psw
<1>r. r = With(s, c, q, frames)
  OBVIOUS
<1> HIDE DEF r
<1>9. Good(r) /\ r.core = c /\ r.stack = q /\ r.frames = frames
  BY <1>3, <1>5, <1>7, <1>r, CoreChanged
<1>10. Nested(r)
  <2> USE DEF Depth, Saves
  <2>1. \A k \in 1 .. Len(r.frames) :
          /\ r.frames[k].I = TRUE /\ r.frames[k].irqMask = r.core.irqMask
          /\ IF k = 1 THEN r.frames[k].pc \in Main ELSE r.frames[k].pc = 5
    BY <1>4, <1>7, <1>9, Fields DEF Nested
  <2>2. \A k \in 1 .. Len(q) : k \in 1 .. Len(stack) /\ q[k] = stack[k]
    BY <1>5
  <2>3. \A k \in 1 .. Len(r.stack) :
          /\ r.stack[k].X = r.frames[k].pc /\ r.stack[k].irqMask = r.core.irqMask
          /\ r.stack[k].irqAck \in Irq /\ r.stack[k].P = TRUE /\ r.stack[k].I = FALSE
    BY <1>4, <1>7, <1>9, <2>2, Fields DEF Nested
  <2>4. Len(r.frames) = Len(r.stack) + 1 /\ r.core.X = r.frames[Len(r.frames)].pc
        /\ Len(r.frames) # 0
    BY <1>4, <1>5, <1>7, <1>9
  <2>5. r.core.pc \notin Main /\ r.core.pc \in InRoutine /\ r.core.pc = 8
    BY <1>7, <1>9 DEF Main, InRoutine
  <2> QED BY <1>7, <1>9, <2>1, <2>3, <2>4, <2>5 DEF Nested
<1>11. Become(handleInterrupts(r))
  BY <1>1, <1>8 DEF s
<1> QED BY <1>2, <1>9, <1>10, <1>11, MainWaits, RoutineEnds

\* and returns.
LEMMA RTIAction ==
  ASSUME IrqInv, NEW a \in {2, 8}, At(a, RTI)
  PROVE  IrqInv' /\ Undisturbed
<1>1. PICK E \in SUBSET Happens : Become(handleInterrupts(RTI(Begun(E))))
  BY DEF At, cpuStep, Begun, Happens
<1> DEFINE s == Begun(E)
           c == Loaded(core, core.X, core.X, core.P)
           h == Front(frames)
           last == Len(frames)
           r == With(s, c, stack, h)
<1>2. core.pc = a /\ core.pc \in InRoutine
  BY DEF At, InRoutine
<1>3. /\ Good(s) /\ s.core = core /\ core \in Cores /\ s.stack = stack /\ stack \in Seq(Cores)
      /\ s.frames = frames /\ frames \in Seq(Frames) /\ last \in Nat /\ Len(stack) \in Nat
  BY Beginning, Parts
<1>4. /\ last = Len(stack) + 1 /\ last # 0 /\ Nested(State)
      /\ core.X = frames[last].pc /\ core.P = TRUE /\ core.irqAck \in Irq
  <2>1. last # 0
    BY <1>2, MainWaits
  <2>2. Nested(State) /\ core.pc \in {0, 1, 2, 8}
    BY <1>2 DEF IrqInv
  <2> QED BY <1>2, <2>1, <2>2, Fields DEF Nested, Depth, Saves
<1>5. /\ h \in Seq(Frames) /\ Len(h) = last - 1
      /\ \A k \in 1 .. last - 1 : h[k] = frames[k]
  BY <1>3, <1>4, Fronts
<1>6. /\ c \in Cores /\ c.pc = core.X /\ c.X = core.X /\ c.I = TRUE /\ c.P = TRUE
      /\ c.irqAck \in Irq /\ c.irqMask = core.irqMask
  <2>1. core.X \in 0 .. 12 /\ core.P \in BOOLEAN
    BY <1>3 DEF Cores
  <2>2. c \in Cores
    BY <1>3, <2>1, LoadedTyped
  <2> QED BY <1>4, <2>2 DEF Loaded
<1>7. RTI(s) = r
  <2>1. s \in States /\ s.core = core /\ s.stack = stack /\ s.frames = frames
    BY <1>3 DEF Good
  <2> HIDE DEF s
  <2>2. [core EXCEPT !.pc = core.X, !.I = core.P] = c
    <3> DEFINE d == [core EXCEPT !.pc = core.X, !.I = core.P]
    <3>1. d = [core EXCEPT !.pc = core.X, !.I = core.P]
      OBVIOUS
    <3> HIDE DEF d
    <3>2. d = Loaded(core, core.X, core.X, core.P)
      BY <1>3, <3>1, Returned
    <3> QED BY <3>1, <3>2
  <2> HIDE DEF c
  <2>3. RTI(s) = [s EXCEPT !.core = [core EXCEPT !.pc = core.X, !.I = core.P], !.frames = h]
    BY <2>1 DEF RTI, States
  <2> HIDE DEF h
  <2>4. [s EXCEPT !.core = c, !.frames = h] = r
    <3> DEFINE v == [s EXCEPT !.core = c, !.frames = h]
    <3>1. v = [s EXCEPT !.core = c, !.frames = h] /\ s \in States
      BY <2>1
    <3> HIDE DEF v
    <3>2. v = With(s, c, s.stack, h)
      BY <3>1, Zenon DEF States, With
    <3> QED BY <2>1, <3>2 DEF v
  <2> QED BY <2>2, <2>3, <2>4
<1> HIDE DEF s, c, h
<1>r. r = With(s, c, stack, h)
  OBVIOUS
<1> HIDE DEF r
<1>8. Good(r) /\ r.core = c /\ r.stack = stack /\ r.frames = h
  BY <1>3, <1>5, <1>6, <1>r, CoreChanged
<1>9. \A k \in 1 .. last :
        /\ frames[k].I = TRUE /\ frames[k].irqMask = core.irqMask
        /\ IF k = 1 THEN frames[k].pc \in Main ELSE frames[k].pc = 5
  BY <1>4, Fields DEF Nested, Depth
<1>10. Nested(r)
  <2> USE DEF Depth, Saves
  <2>1. \A k \in 1 .. Len(h) : k \in 1 .. last /\ h[k] = frames[k]
    BY <1>3, <1>5
  <2>2. \A k \in 1 .. Len(r.frames) :
          /\ r.frames[k].I = TRUE /\ r.frames[k].irqMask = r.core.irqMask
          /\ IF k = 1 THEN r.frames[k].pc \in Main ELSE r.frames[k].pc = 5
    BY <1>6, <1>8, <1>9, <2>1
  <2>3. \A k \in 1 .. Len(stack) : k \in 1 .. Len(h)
    BY <1>4, <1>5
  <2>4. \A k \in 1 .. Len(r.stack) :
          /\ r.stack[k].X = r.frames[k].pc /\ r.stack[k].irqMask = r.core.irqMask
          /\ r.stack[k].irqAck \in Irq /\ r.stack[k].P = TRUE /\ r.stack[k].I = FALSE
    BY <1>4, <1>6, <1>8, <2>1, <2>3, Fields DEF Nested
  <2>5. Len(r.frames) = last - 1 /\ Len(r.stack) = last - 1
    BY <1>3, <1>4, <1>5, <1>8
  <2>6. CASE last = 1
    <3>0. r.core.pc = frames[1].pc /\ frames[1].pc \in Main
      <4>1. last = 1 /\ last \in 1 .. last
        BY <2>6
      <4>2. frames[1].pc \in Main /\ core.X = frames[1].pc
        BY <1>4, <1>9, <4>1
      <4>3. r.core.pc = core.X
        BY <1>6, <1>8
      <4> QED BY <4>2, <4>3
    <3>1. r.core.pc \in Main /\ r.core.pc \notin InRoutine /\ r.core.pc \notin 0 .. 8
      BY <3>0 DEF Main, InRoutine
    <3> QED BY <2>2, <2>4, <2>5, <2>6, <3>1 DEF Nested
  <2>7. CASE last # 1
    <3>1. r.core.pc = 5 /\ r.core.pc \notin Main /\ r.core.pc \in InRoutine
      BY <1>3, <1>4, <1>6, <1>8, <1>9, <2>7 DEF Main, InRoutine
    <3>2. r.core.I = (r.core.pc = 5) /\ r.core.irqAck \in Irq
      BY <1>6, <1>8, <3>1
    <3> QED BY <1>3, <1>4, <2>2, <2>4, <2>5, <2>7, <3>1, <3>2 DEF Nested
  <2> QED BY <2>6, <2>7
<1>11. MainOf(r) = MainProgram
  <2>1. frames # << >>
    BY <1>4
  <2>2. CASE last = 1
    <3>1. h = << >>
      BY <1>5, <2>2
    <3>2. frames[1] \in Frames /\ frames[1].pc = core.X /\ frames[1].I = TRUE
          /\ frames[1].irqMask = core.irqMask
      BY <1>3, <1>4, <1>9, <2>2
    <3>3. frames[1] = [pc |-> core.X, I |-> TRUE, irqMask |-> core.irqMask]
      BY <3>2 DEF Frames
    <3> QED BY <1>6, <1>8, <2>1, <3>1, <3>3 DEF MainOf, MainProgram
  <2>3. CASE last # 1
    <3>1. h # << >> /\ h[1] = frames[1]
      BY <1>3, <1>4, <1>5, <2>3
    <3> QED BY <1>8, <2>1, <3>1 DEF MainOf, MainProgram
  <2> QED BY <2>2, <2>3
<1>12. Become(handleInterrupts(r))
  BY <1>1, <1>7 DEF s
<1> QED BY <1>8, <1>10, <1>11, <1>12, ServiceEnds

\* Every step of a service routine.
LEMMA ServiceActions ==
  ASSUME IrqInv, Service \/ NestedService
  PROVE  IrqInv' /\ Undisturbed
<1>1. CASE At(0, LAMBDA s : Goto(s, 1))
  BY <1>1, GotoAction
<1>2. CASE At(0, LAMBDA s : Goto([s EXCEPT !.stack = Append(@, s.core)], 3))
  BY <1>2, SaveAction
<1>3. CASE At(1, LAMBDA s : Next1(Serve(s)))
  BY <1>3, ServeActions
<1>4. CASE At(2, RTI)
  BY <1>4, RTIAction
<1>5. CASE At(3, LAMBDA s : Next1(Serve(s)))
  BY <1>5, ServeActions
<1>6. CASE At(4, LAMBDA s : Next1(SetI(s, TRUE)))
  <2>1. (4 = 4 /\ TRUE = TRUE) \/ (4 = 5 /\ TRUE = FALSE)
    OBVIOUS
  <2> QED BY <1>6, <2>1, EnableAction
<1>7. CASE At(5, LAMBDA s : Next1(SetI(s, FALSE)))
  <2>1. (5 = 4 /\ FALSE = TRUE) \/ (5 = 5 /\ FALSE = FALSE)
    OBVIOUS
  <2> QED BY <1>7, <2>1, EnableAction
<1>8. CASE At(6, LAMBDA s : Next1(PutsX(s, Last(s.stack).X)))
  BY <1>8, PutsXAction
<1>9. CASE At(7, LAMBDA s : Next1([PutsPSW(s, Last(s.stack)) EXCEPT !.stack = Front(@)]))
  BY <1>9, PutsPSWAction
<1>10. CASE At(8, RTI)
  BY <1>10, RTIAction
<1> QED BY <1>1, <1>2, <1>3, <1>4, <1>5, <1>6, <1>7, <1>8, <1>9, <1>10 DEF Service,
      NestedService

\* A button is moved between two instructions.
LEMMA ButtonAction ==
  ASSUME IrqInv, Button
  PROVE  IrqInv' /\ Undisturbed
<1>1. PICK b \in BOOLEAN : Become(setBTNSWT(State, b))
  BY DEF Button
<1> DEFINE t == setBTNSWT(State, b)
<1>2. Good(t) /\ Run(State, t)
  BY ButtonSet, NoPeriod DEF IrqInv, Good
<1> HIDE DEF t
<1>3. Nested(t) /\ MainOf(t) = MainProgram
  BY <1>2, Fields DEF IrqInv, Nested, Run, MainOf, MainProgram, Saves, Depth
<1>4. IrqInv' /\ MainProgram' = MainProgram
  BY <1>1, <1>2, <1>3, Became DEF t
<1> QED BY <1>4 DEF Undisturbed

\* The invariant holds at the beginning,
LEMMA IrqStarts == IrqInit => IrqInv
<1> SUFFICES ASSUME IrqInit
             PROVE  IrqInv
  OBVIOUS
<1>1. CC \in Nat /\ CC # 0 /\ Wrap \in Nat /\ CC < Wrap
  BY InterruptsAssumption
<1>2. State \in States
  <2>1. PICK pressed \in BOOLEAN : btnswt = initBTNSWT(pressed)
    BY DEF IrqInit
  <2>2. hpt \in [counter : Nat, divisor : CC .. Wrap - 1, expired : BOOLEAN, ien : BOOLEAN]
    BY <1>1 DEF IrqInit, initHPT
  <2>3. core \in Cores
    BY MainEnds DEF IrqInit, cpuInit, Cores
  <2>4. /\ timer \in [expired : BOOLEAN, ien : BOOLEAN]
        /\ rs232 \in [status : SUBSET Serial, control : SUBSET Serial]
        /\ btnswt \in [pressed : BOOLEAN, status : SUBSET Edge, control : SUBSET Edge]
    BY <2>1 DEF IrqInit, initTimer, initRS232, initBTNSWT, Serial, Edge
  <2>5. irqPending \in SUBSET Irq /\ stack \in Seq(Cores) /\ frames \in Seq(Frames)
        /\ elapsed \in Nat
    BY DEF IrqInit
  <2> QED BY <2>2, <2>3, <2>4, <2>5 DEF State, States
<1>3. Lines(State)
  <2>1. /\ irqPending = {} /\ hpt.expired = FALSE /\ timer.expired = FALSE
        /\ "rcv rdy" \notin rs232.status /\ rs232.control = {}
    BY DEF IrqInit, initTimer, initRS232, initHPT
  <2>2. btnswt.status = {}
    BY DEF IrqInit, initBTNSWT
  <2> QED BY <2>1, <2>2, Fields DEF Lines
<1>4. Clock(State)
  BY <1>1, Fields DEF Clock, IrqInit, initHPT
<1>5. Nested(State)
  <2>1. core.pc \in Main /\ core.pc \notin InRoutine /\ core.pc \notin 0 .. 8
    BY MainEnds DEF IrqInit, cpuInit, InRoutine
  <2>2. Len(frames) = 0 /\ Len(stack) = 0
    BY DEF IrqInit
  <2> QED BY <2>1, <2>2, Fields DEF Nested, Depth, Saves
<1> QED BY <1>2, <1>3, <1>4, <1>5 DEF IrqInv, Good

\* every step keeps it and does not disturb the main program,
LEMMA IrqSteps == IrqInv /\ IrqNext => IrqInv' /\ Undisturbed
BY MainActions, ServiceActions, ButtonAction DEF IrqNext

\* as does a step of something else,
LEMMA IrqStutters == IrqInv /\ UNCHANGED irqVars => IrqInv'
<1> SUFFICES ASSUME IrqInv, UNCHANGED irqVars
             PROVE  IrqInv'
  OBVIOUS
<1>1. State' = State
  BY DEF irqVars, State
<1> QED BY <1>1 DEF IrqInv

\* and it says what the lines and the timer promise.
LEMMA IrqHolds == IrqInv => LinesFollowStatus /\ Periodic
<1> SUFFICES ASSUME IrqInv
             PROVE  LinesFollowStatus /\ Periodic
  OBVIOUS
<1>1. Lines(State) /\ irqPending \subseteq Irq
  BY Fields DEF IrqInv, Good, States
<1>2. Periodic
  BY Fields DEF IrqInv, Good, Clock, Periodic
<1> DEFINE on == [p \in Irq |->
               CASE p = IRQ_HPT_0 -> hpt.expired /\ hpt.ien
                 [] p = IRQ_TIMER -> timer.expired /\ timer.ien
                 [] p = IRQ_RCV -> "rcv rdy" \in rs232.status \cap rs232.control
                 [] p = IRQ_XMT -> {"xmt rdy", "xmt empty"} \cap rs232.status \cap rs232.control # {}
                 [] p = IRQ_BUTTONS -> btnswt.status \cap btnswt.control # {}]
<1>3. /\ on[IRQ_HPT_0] = (hpt.expired /\ hpt.ien)
      /\ on[IRQ_TIMER] = (timer.expired /\ timer.ien)
      /\ on[IRQ_RCV] = ("rcv rdy" \in rs232.status \cap rs232.control)
      /\ on[IRQ_XMT] = ({"xmt rdy", "xmt empty"} \cap rs232.status \cap rs232.control # {})
      /\ on[IRQ_BUTTONS] = (btnswt.status \cap btnswt.control # {})
  BY Apart, Zenon
<1>4. LinesFollowStatus <=> irqPending = {p \in Irq : on[p]}
  BY Zenon DEF LinesFollowStatus
<1> HIDE DEF on
<1>5. btnswt.status \subseteq Edge
  BY Fields DEF IrqInv, Good, States
<1>6. \A p \in Irq : p \in irqPending <=> on[p]
  <2>1. IRQ_HPT_0 \in irqPending <=> on[IRQ_HPT_0]
    BY <1>1, <1>3, Fields DEF Lines
  <2>2. IRQ_TIMER \in irqPending <=> on[IRQ_TIMER]
    BY <1>1, <1>3, Fields DEF Lines
  <2>3. IRQ_RCV \in irqPending <=> on[IRQ_RCV]
    BY <1>1, <1>3, Fields DEF Lines
  <2>4. IRQ_XMT \in irqPending <=> on[IRQ_XMT]
    BY <1>1, <1>3, Fields DEF Lines
  <2>5. IRQ_BUTTONS \in irqPending <=> on[IRQ_BUTTONS]
    BY <1>1, <1>3, <1>5, Fields DEF Lines
  <2> QED BY <2>1, <2>2, <2>3, <2>4, <2>5, Apart
<1> QED BY <1>1, <1>2, <1>4, <1>6

\* Whatever the devices and the program do, in whatever order, a line is set
\* exactly as long as one of its causes is there and enabled, and the counter of
\* the high-precision timer says how much of the period is left: the clocks,
\* cpuSetInterrupt, cpuResetInterrupt, tickHPT of sim.c.
THEOREM LinesAndTicksHold == IrqSpec => []LinesAndTicks
<1>1. IrqInit => IrqInv
  BY IrqStarts
<1>2. IrqInv /\ [IrqNext]_irqVars => IrqInv'
  BY IrqSteps, IrqStutters
<1>3. IrqInv => LinesAndTicks
  BY IrqHolds DEF LinesAndTicks
<1> QED BY <1>1, <1>2, <1>3, PTL DEF IrqSpec

\* The main program goes on where it was interrupted, with its own enable flag
\* and mask, however deeply service routines interrupt each other:
\* handleInterrupts, RTI, STI, CLI, PUTS of sim.c.
THEOREM MainUndisturbed == IrqSpec => Transparent
<1>1. IrqInit => IrqInv
  BY IrqStarts
<1>2. IrqInv /\ [IrqNext]_irqVars => IrqInv' /\ [Undisturbed]_irqVars
  BY IrqSteps, IrqStutters
<1> QED BY <1>1, <1>2, PTL DEF IrqSpec, Transparent

----------------------------------------------------------------------------
(* The runs of the simulator.                                                *)

\* What a command needs to know of the pair it is given, and what it keeps: the
\* console never starts a run by itself, the loop of doContinue does.
Paired(p) ==
  /\ DOMAIN p = {"cpu", "con"}
  /\ DOMAIN p.con = {"mode", "interactive", "n", "run", "moved", "brk", "shown"}
Waits(p) == Paired(p) /\ p.con.mode # "running"

LEMMA ShownPC ==
  ASSUME NEW p, Paired(p)
  PROVE  /\ Paired(WB!showPC(p)) /\ WB!showPC(p).con.mode = p.con.mode
         /\ \A f \in DOMAIN p.cpu \ {"stopped"} : WB!showPC(p).cpu[f] = p.cpu[f]
BY DEF WB!showPC, WB!Ends, WB!Show, Paired

LEMMA Executed ==
  ASSUME NEW p, NEW name, NEW xx, Waits(p)
  PROVE  Waits(WB!commands(p, name, xx))
<1> USE DEF Waits, Paired
<1>1. \A q, v : Waits(q) => Waits(WB!Show(q, v))
  BY DEF WB!Show
<1>2. \A q : Waits(q) => Waits(WB!Ends(q))
  BY DEF WB!Ends
<1>3. \A q : Waits(q) => Waits(WB!showPC(q))
  BY ShownPC
<1>4. \A v : Waits([p EXCEPT !.cpu = v]) /\ Waits([p EXCEPT !.con.brk = v])
  OBVIOUS
<1>5. Waits(WB!doArith(p, xx))
  BY <1>1 DEF WB!doArith
<1>6. \A first, count : Waits(WB!doUnassemble(p, first, count))
  BY <1>1, <1>2 DEF WB!doUnassemble
<1>7. \A first, count : Waits(WB!doDump(p, first, count))
  BY <1>1, <1>2 DEF WB!doDump
<1>8. Waits(WB!doBreak(p, xx))
  BY <1>4 DEF WB!doBreak
<1>9. \A nm : nm \in {"c", "s"} => Waits(WB!Loop(p, nm, xx))
  BY DEF WB!Loop
<1>10. Waits(WB!doPC(p, xx))
  <2>1. Waits([p EXCEPT !.cpu.pc = WB!Aligned(xx[1].n, 4)])
    OBVIOUS
  <2> QED
    BY <1>3, <2>1 DEF WB!doPC
<1>11. Waits(WB!doRegister(p, xx))
  <2>1. Waits([p EXCEPT !.cpu.reg[xx[1].n] = xx[2].n % WB!Word])
    OBVIOUS
  <2> QED
    BY <1>1, <1>3, <2>1 DEF WB!doRegister
<1>12. Waits(WB!doH(p, xx)) /\ Waits(WB!doX(p, xx)) /\ Waits(WB!doPSW(p, xx)) /\ Waits(WB!doSwitches(p, xx))
  <2>1. \A v : Waits([p EXCEPT !.cpu.H = v]) /\ Waits([p EXCEPT !.cpu.X = v]) /\ Waits([p EXCEPT !.cpu.switches = v])
    OBVIOUS
  <2> QED
    BY <1>1, <1>4, <2>1 DEF WB!doH, WB!doX, WB!doPSW, WB!doSwitches
<1>13. \A size : Waits(WB!doMemory(p, size, xx))
  BY <1>1, <1>2, <1>4 DEF WB!doMemory
<1>14. Waits(WB!doLED(p)) /\ Waits(WB!doLCD(p)) /\ Waits(WB!doQuit(p))
  BY <1>1 DEF WB!doLED, WB!doLCD, WB!doQuit
<1> HIDE DEF Waits, Paired
<1> QED
  BY <1>5, <1>6, <1>7, <1>8, <1>9, <1>10, <1>11, <1>12, <1>13, <1>14 DEF WB!commands

\* While a run is under way it has ended only for a reason that RunStep allows,
\* and the ^C that is on record has ended it.
RunInv ==
  program = "sim" =>
    /\ Paired([cpu |-> cpu, con |-> con])
    /\ con.mode = "running" =>
         /\ ~con.run => halted \/ (con.moved /\ con.brk = cpu.pc)
         /\ halted => ~con.run

\* The console when it waits in mode running does neither type nor start.
LEMMA Becoming ==
  ASSUME NEW p, Paired(p), WB!Become(p)
  PROVE  /\ Paired([cpu |-> cpu, con |-> con])'
         /\ cpu' = p.cpu
         /\ con'.mode = (IF p.cpu.stopped # "" THEN "exit" ELSE p.con.mode)
         /\ con'.run = p.con.run /\ con'.moved = p.con.moved /\ con'.brk = p.con.brk
BY DEF WB!Become, Paired

LEMMA RunStarts == HostInit => RunInv
<1> SUFFICES ASSUME HostInit, program = "sim"
             PROVE  /\ Paired([cpu |-> cpu, con |-> con])
                    /\ con.mode # "running"
  BY DEF RunInv
<1>1. WB!MachInit
  BY DEF HostInit, WB!WorkInit
<1> QED
  BY <1>1 DEF WB!MachInit, Paired

LEMMA RunSteps ==
  ASSUME RunInv, program = "sim", WB!WorkNext, program' = program
  PROVE  RunInv' /\ WB!RunStep
<1> DEFINE Now == [cpu |-> cpu, con |-> con]
<1>1. Paired(Now) /\ WB!State = Now
  BY DEF RunInv, WB!State
<1>2. SUFFICES
        /\ Paired(Now)'
        /\ con'.mode = "running" =>
             /\ ~con'.run => halted' \/ (con'.moved /\ con'.brk = cpu'.pc)
             /\ halted' => ~con'.run
        /\ con.mode = "running" =>
             /\ con'.mode # "running" /\ cpu'.stopped = "" => halted \/ (con.moved /\ con.brk = cpu.pc)
             /\ halted => \A f \in DOMAIN cpu \ {"stopped"} : cpu'[f] = cpu[f]
  BY DEF RunInv, WB!RunStep
<1>3. CASE con.mode = "off" /\ WB!AsmNext /\ UNCHANGED WB!machVars
  BY <1>1, <1>3 DEF WB!machVars
<1>4. CASE WB!Start
  <2>1. PICK inROM \in BOOLEAN, interact \in BOOLEAN : WB!main(inROM, outFile, interact, 5)
    BY <1>4 DEF WB!Start
  <2>2. con.mode = "off" /\ Paired(Now)' /\ con'.mode # "running"
    BY <1>1, <2>1 DEF WB!main, Paired
  <2> QED
    BY <2>2
<1>5. CASE WB!Type
  <2>1. PICK tokens : WB!Become(WB!execCommand(WB!State, tokens))
    BY <1>5 DEF WB!Type
  <2>2. con.mode = "prompt"
    BY <1>5 DEF WB!Type
  <2>3. Waits(Now)
    BY <1>1, <2>2 DEF Waits
  <2>4. Waits(WB!execCommand(Now, tokens))
    BY <2>3, Executed DEF WB!execCommand
  <2>5. Paired(Now)' /\ con'.mode # "running"
    BY <1>1, <2>1, <2>4, Becoming DEF Waits
  <2> QED
    BY <2>2, <2>5
<1>6. CASE WB!cpuStep
  <2> DEFINE s == WB!execNextInstruction(cpu)
             p == [Now EXCEPT !.cpu = s]
             q == [p EXCEPT !.con.mode = "prompt"]
  <2>1. con.mode = "s"
    BY <1>6 DEF WB!cpuStep
  <2>2. WB!Become(IF s.stopped # "" THEN p ELSE WB!Done(p))
    BY <1>1, <1>6 DEF WB!cpuStep
  <2>3. Waits(p) /\ Waits(q) /\ Waits([p EXCEPT !.con.n = @ - 1])
    BY <1>1, <2>1 DEF Waits, Paired
  <2>4. Waits([p EXCEPT !.con.mode = "exit"])
    BY <1>1 DEF Waits, Paired
  <2>5. Waits(WB!showPC(q))
    BY <2>3, ShownPC DEF Waits
  <2>6. Waits(WB!Done(p))
    <3> HIDE DEF p
    <3> QED
      BY <2>3, <2>4, <2>5 DEF WB!Done
  <2>7. Paired(Now)' /\ con'.mode # "running"
    <3> HIDE DEF p, s
    <3> QED
      BY <2>2, <2>3, <2>6, Becoming DEF Waits
  <2> QED
    BY <2>1, <2>7
<1>7. CASE WB!EnterRun
  BY <1>1, <1>7 DEF WB!EnterRun, Paired
<1>8. CASE WB!cpuRun
  <2> DEFINE s == WB!execNextInstruction(cpu)
             p == [Now EXCEPT !.cpu = s, !.con.moved = TRUE, !.con.run = @ /\ con.brk # s.pc]
  <2>1. con.mode = "running" /\ con.run /\ halted' = halted /\ ~halted
    BY <1>8 DEF WB!cpuRun, RunInv
  <2>2. WB!Pass(Now) = p
    BY DEF WB!Pass
  <2>3. WB!Become(p)
    BY <1>1, <1>8, <2>2 DEF WB!cpuRun
  <2>4. /\ Paired(p) /\ p.cpu = s /\ p.con.mode = "running" /\ p.con.moved = TRUE
        /\ p.con.run = (con.run /\ con.brk # s.pc) /\ p.con.brk = con.brk
    <3> HIDE DEF s
    <3> QED
      BY <1>1, <2>1 DEF Paired
  <2> HIDE DEF p, s
  <2>5. /\ Paired(Now)' /\ cpu' = s /\ con'.mode = (IF s.stopped # "" THEN "exit" ELSE "running")
        /\ con'.run = (con.run /\ con.brk # s.pc) /\ con'.moved = TRUE /\ con'.brk = con.brk
    BY <2>3, <2>4, Becoming
  <2> QED
    BY <2>1, <2>5
<1>9. CASE WB!LeaveRun
  <2> DEFINE p == [Now EXCEPT !.con.mode = "c"]
             q == [p EXCEPT !.con.mode = "prompt"]
  <2>1. con.mode = "running" /\ ~con.run /\ halted' = halted
    BY <1>9 DEF WB!LeaveRun
  <2>2. WB!Become(WB!Done(p))
    BY <1>1, <1>9 DEF WB!LeaveRun
  <2> DEFINE Left(r) == Waits(r) /\ \A f \in DOMAIN cpu \ {"stopped"} : r.cpu[f] = cpu[f]
  <2>3. Left(p) /\ Left(q) /\ Left([p EXCEPT !.con.n = @ - 1]) /\ Left([p EXCEPT !.con.mode = "exit"]) /\ q.cpu = cpu
    BY <1>1 DEF Waits, Paired
  <2>4. Left(WB!showPC(q))
    <3> HIDE DEF q
    <3>1. Paired(q) /\ Waits(q) /\ q.cpu = cpu
      BY <2>3 DEF Waits
    <3> HIDE DEF Left, p
    <3>3. /\ Paired(WB!showPC(q)) /\ WB!showPC(q).con.mode = q.con.mode
          /\ \A f \in DOMAIN q.cpu \ {"stopped"} : WB!showPC(q).cpu[f] = q.cpu[f]
      BY <3>1, ShownPC
    <3>2. Waits(WB!showPC(q)) /\ \A f \in DOMAIN q.cpu \ {"stopped"} : WB!showPC(q).cpu[f] = q.cpu[f]
      <4> HIDE DEF Paired
      <4> QED
        BY <3>1, <3>3 DEF Waits
    <3> HIDE DEF Waits
    <3> QED
      BY <3>1, <3>2 DEF Left
  <2>5. Left(WB!Done(p))
    <3> DEFINE less == [p EXCEPT !.con.n = @ - 1]
               out == [p EXCEPT !.con.mode = "exit"]
    <3>1. WB!Done(p) = less \/ WB!Done(p) = WB!showPC(q) \/ WB!Done(p) = out
      <4> HIDE DEF p
      <4> QED
        BY Zenon DEF WB!Done
    <3>2. Left(less) /\ Left(WB!showPC(q)) /\ Left(out)
      BY <2>3, <2>4
    <3> HIDE DEF less, out, q, p, Left
    <3> QED
      BY <3>1, <3>2
  <2>6. Paired(Now)' /\ con'.mode # "running" /\ \A f \in DOMAIN cpu \ {"stopped"} : cpu'[f] = cpu[f]
    <3> HIDE DEF p
    <3> QED
      BY <2>2, <2>5, Becoming DEF Waits
  <2>7. halted \/ (con.moved /\ con.brk = cpu.pc)
    BY <2>1 DEF RunInv
  <2> QED
    BY <2>6, <2>7
<1>10. CASE WB!sigIntHandler
  BY <1>1, <1>10 DEF WB!sigIntHandler, Paired
<1> QED
  BY <1>3, <1>4, <1>5, <1>6, <1>7, <1>8, <1>9, <1>10 DEF WB!WorkNext, WB!MachNext

LEMMA RunStutters ==
  ASSUME RunInv, program' = program, UNCHANGED simVars
  PROVE  RunInv'
BY DEF RunInv, simVars

\* Whatever is loaded and typed: a run of the simulator ends at the breakpoint
\* or after ^C and for no other reason, and after ^C no instruction is executed:
\* cpuRun, cpuHalt, doContinue.
THEOREM RunEnds == HostSpec => RunsToBreak
<1> DEFINE Step == program = "sim" => WB!RunStep
<1>1. ASSUME RunInv, [HostNext]_<< program, vars, irqVars, sdVars, simVars, objectVars >>
      PROVE  RunInv' /\ [Step]_simVars
  <2>1. CASE Simulation
    BY <1>1, <2>1, RunSteps DEF Simulation
  <2>2. CASE program' = program /\ UNCHANGED simVars
    BY <1>1, <2>2, RunStutters
  <2>3. CASE Experiments \/ Devices \/ Card \/ ObjectFiles
    <3>1. program' = program /\ program # "sim"
      BY <2>3 DEF Experiments, Devices, Card, ObjectFiles
    <3> QED
      BY <3>1 DEF RunInv
  <2> QED
    BY <1>1, <2>1, <2>2, <2>3 DEF HostNext
<1> HIDE DEF Step
<1>2. HostInit /\ [][HostNext]_<< program, vars, irqVars, sdVars, simVars, objectVars >> => [][Step]_simVars
  BY <1>1, RunStarts, PTL
<1> QED
  BY <1>2, PTL DEF HostSpec, RunsToBreak, Step
=============================================================================
