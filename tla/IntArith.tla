------------------------------ MODULE IntArith ------------------------------
(* The integer multiplier and divider: the algorithms of arith/integer/*/alg *)
(* on three numbers, and the register machines made of them, which shift a   *)
(* pair of registers (arith/integer/*/imp-c, sim/muldiv.c).  One step is one *)
(* pass of a loop.  Base is 2^Bits; the programs have Bits = 8 and 32.       *)
EXTENDS Integers
CONSTANTS Bits, Base
ASSUME BitsAssumption == Bits \in Nat \ {0} /\ Base \in Nat \ {0, 1}
Power[k \in Nat] == IF k = 0 THEN 1 ELSE 2 * Power[k - 1]   \* 2^k
ASSUME BaseAssumption == Base = Power[Bits]
Word == 0 .. Base - 1

VARIABLES call,         \* the routine that runs, or "none"
          u,            \* operands are unsigned
          m, n,         \* its operands
          i,            \* passes of the loop
          A, B, R       \* its registers
intVars == <<call, u, m, n, i, A, B, R>>

IntInit ==
  /\ call = "none" /\ u = TRUE /\ m = 0 /\ n = 0 /\ i = 0
  /\ A = 0 /\ B = 0 /\ R = 0

\* A call with its registers set up.
Enter(name, signs, a, b, r) ==
  /\ call' = name /\ u' = signs /\ i' = 0
  /\ A' = a /\ B' = b /\ R' = r
Pass(name) == call = name /\ i < Bits /\ i' = i + 1 /\ UNCHANGED <<call, u, m, n>>
Return(name) == call = name /\ i = Bits
Leave == /\ call \in {"mul", "div", "product", "quotient"} /\ i = Bits
         /\ call' = "none" /\ u' = TRUE /\ i' = 0
         /\ m' = 0 /\ n' = 0 /\ A' = 0 /\ B' = 0 /\ R' = 0

---------------------------------------------------------------------------
\* mul: A and R have twice the bits of B.
mul == call = "none" /\ \E a, b \in Word : Enter("mul", TRUE, a, b, 0) /\ m' = a /\ n' = b
mulPass_Byte ==
  /\ Pass("mul")
  /\ R' = (IF B % 2 = 1 THEN (R + A) % (Base * Base) ELSE R)
  /\ A' = (2 * A) % Base
  /\ B' = B \div 2
mulPass ==
  /\ Pass("mul")
  /\ R' = (IF B % 2 = 1 THEN (R + A) % (Base * Base) ELSE R)
  /\ A' = (2 * A) % (Base * Base)
  /\ B' = B \div 2
\* div: A is the divisor, shifted; B the quotient; R the remainder.
div == call = "none" /\ \E a \in Word, b \in Word \ {0} :
         Enter("div", TRUE, b * Base, 0, a) /\ m' = a /\ n' = b
divPass ==
  /\ Pass("div")
  /\ LET half == A \div 2 IN
     /\ A' = half
     /\ R' = (IF R >= half THEN R - half ELSE R)
     /\ B' = ((2 * B) % Base) + (IF R >= half THEN 1 ELSE 0)

---------------------------------------------------------------------------
\* The register machines: A is upper, B is lower, R the absolute value of n.
Negative(w) == w >= Base \div 2
Negate(w) == (Base - w) % Base
Abs(w, unsigned) == IF ~unsigned /\ Negative(w) THEN Negate(w) ELSE w
Enter2(name, signs, a, b) ==
  Enter(name, signs, 0, Abs(a, signs), Abs(b, signs)) /\ m' = a /\ n' = b
SignOf(w) == ~u /\ Negative(w)

intMul == call = "none" /\ \E signs \in BOOLEAN, a, b \in Word : Enter2("intMul", signs, a, b)
\* The sum may carry out of upper; the carry is shifted in again.
intMulPass ==
  /\ Pass("intMul")
  /\ LET sum == A + (IF B % 2 = 1 THEN R ELSE 0)
         upper == sum % Base
         carry == sum >= Base
     IN /\ A' = upper \div 2 + (IF carry THEN Base \div 2 ELSE 0)
        /\ B' = B \div 2 + (upper % 2) * (Base \div 2)
  /\ UNCHANGED R
\* The sign of the product: the pair is negated, the low word first.
intMulReturn ==
  /\ Return("intMul")
  /\ call' = "product"
  /\ IF SignOf(m) # SignOf(n)
     THEN /\ B' = Negate(B)
          /\ A' = (Base - 1 - A + (IF Negate(B) = 0 THEN 1 ELSE 0)) % Base
     ELSE UNCHANGED <<A, B>>
  /\ UNCHANGED <<u, m, n, i, R>>

intDiv == call = "none" /\ \E signs \in BOOLEAN, a, b \in Word : Enter2("intDiv", signs, a, b)
\* The difference borrows if it is more than what it was taken from.
intDivPass ==
  /\ Pass("intDiv")
  /\ LET aux1 == ((2 * A) % Base) + B \div (Base \div 2)
         aux2 == (aux1 - R) % Base
         borrow == aux2 > aux1
     IN /\ A' = (IF borrow THEN aux1 ELSE aux2)
        /\ B' = ((2 * B) % Base) + (IF borrow THEN 0 ELSE 1)
  /\ UNCHANGED R
\* A negative dividend with a remainder: the remainder is made positive.
intDivReturn_Truncated ==
  /\ Return("intDiv")
  /\ call' = "quotient"
  /\ B' = (IF SignOf(m) = SignOf(n) THEN B ELSE Negate(B))
  /\ UNCHANGED <<u, m, n, i, A, R>>
intDivReturn ==
  /\ Return("intDiv")
  /\ call' = "quotient"
  /\ LET corr == SignOf(m) /\ A # 0
         quot == (IF corr THEN B + 1 ELSE B) % Base
     IN /\ B' = (IF SignOf(m) = SignOf(n) THEN quot ELSE Negate(quot))
        /\ A' = (IF corr THEN (R - A) % Base ELSE A)
  /\ UNCHANGED <<u, m, n, i, R>>

IntNext ==
  \/ mul \/ mulPass \/ div \/ divPass
  \/ intMul \/ intMulPass \/ intMulReturn
  \/ intDiv \/ intDivPass \/ intDivReturn \/ Leave
IntSpec == IntInit /\ [][IntNext]_intVars

---------------------------------------------------------------------------
\* mul keeps A * B + R, so that R is the product when B is used up; no shift
\* of A loses a bit that still counts (alg/mul.c, the comment "invariant").
ProductKept ==
  call = "mul" => A * B + R = m * n
\* What a word means, with or without sign.
Value(w) == IF SignOf(w) THEN w - Base ELSE w
Pair == A * Base + B
\* At the end of a routine its result is the product, or the quotient and the
\* remainder of Euclid's division, which is never negative; div keeps A * B + R,
\* with the remainder below the shifted divisor (alg/div.c, "invariant"); and in
\* every pass of the register machines the pair holds the part of the result
\* made so far beside the operand bits that are left, whatever carries and
\* borrows went through the shifts.  The quotient that no word holds wraps around.
ResultsExact ==
  /\ call = "div" => A * B + R = m /\ R < A
  /\ Return("mul") => R = m * n
  /\ Return("div") => B = m \div n /\ R = m % n
  /\ call = "intMul" =>
       Pair = (Abs(m, u) % Power[i]) * R * Power[Bits - i] + Abs(m, u) \div Power[i]
  /\ call = "product" => Pair = (Value(m) * Value(n)) % (Base * Base)
  /\ call = "intDiv" /\ R # 0 =>
       /\ A < R
       /\ B = (Abs(m, u) % Power[Bits - i]) * Power[i] + (Abs(m, u) \div Power[Bits - i]) \div R
       /\ A = (Abs(m, u) \div Power[Bits - i]) % R
  /\ call = "quotient" /\ n # 0 =>
       /\ A < R
       /\ LET magnitude == (Value(m) - A) \div R
              q == IF SignOf(n) THEN -magnitude ELSE magnitude
          IN Value(m) - A = q * Value(n) /\ B = q % Base
=============================================================================
