----------------------------- MODULE FloatWords -----------------------------
(* Floating-point words as integers, and the steps that the arithmetic       *)
(* experiments of src/arith/float share: fields, classes, the count of       *)
(* leading zeros by a tree of pairs, and the decision to round up.  The      *)
(* widths are parameters; the programs have EW = 8, FW = 23, W = 32.         *)
EXTENDS Integers, FiniteSets
CONSTANTS EW,   \* bits of the exponent
          FW,   \* bits of the fraction
          W     \* bits of a register and of an integer
P == FW + 1     \* bits of a significand, with its hidden bit

\* The bits lost from a significand fit a register beside it; a word's third
\* power of two below FW + 1 is what the tree of combine4 needs.
ASSUME WidthsAssumption ==
  /\ EW \in Nat /\ FW \in Nat /\ W \in Nat /\ EW > 1
  /\ \E k \in 1 .. 8 : FW + 1 = 3 * 2 ^ k
  /\ \E k \in 1 .. 8 : W = 2 ^ k
  /\ FW + 1 < W /\ W < 2 * (FW + 1) /\ W < 2 ^ (EW - 1)

Near == "near"    Zero == "zero"    Down == "down"    Up == "up"
Directions == {Near, Zero, Down, Up}

Hidden == 2 ^ FW
MaxExp == 2 ^ EW - 1
Bias == 2 ^ (EW - 1) - 1
SGN(w) == w \div 2 ^ (EW + FW)
EXP(w) == (w \div Hidden) % 2 ^ EW
FRC(w) == w % Hidden
FLT(s, e, f) == (s * 2 ^ EW + e) * Hidden + f
Words == 0 .. 2 ^ (1 + EW + FW) - 1

genZERO == 0
genINF == FLT(0, MaxExp, 0)
QUIET_BIT == 2 ^ (FW - 1)
genNAN == FLT(0, MaxExp, QUIET_BIT)
IsQuiet(f) == f >= QUIET_BIT
Quieted(f) == IF IsQuiet(f) THEN f ELSE f + QUIET_BIT
IsNorm(e) == e \notin {0, MaxExp}

\* The four kinds that the case distinctions tell apart.
Class(w) ==
  CASE EXP(w) = 0 /\ FRC(w) = 0 -> "zero"
    [] EXP(w) = MaxExp /\ FRC(w) = 0 -> "inf"
    [] EXP(w) = MaxExp /\ FRC(w) # 0 -> "nan"
    [] OTHER -> "num"
Signals(w) == Class(w) = "nan" /\ ~IsQuiet(FRC(w))

\* Shifts of a register of W bits.
Shl(x, n) == (x * 2 ^ n) % 2 ^ W
Shr(x, n) == x \div 2 ^ n
TopBit(x) == x >= 2 ^ (W - 1)

\* Leading zeros: of two bits, and of two halves of w bits each whose counts
\* are left and right.
encode2(b) == CASE b = 0 -> 2 [] b = 1 -> 1 [] OTHER -> 0
combine(left, right, w) ==
  CASE left = w /\ right = w -> 2 * w
    [] left = w /\ right # w -> right + w
    [] OTHER -> left
combine4(left, middle, right, w) ==
  CASE left = w /\ middle = w /\ right = w -> 3 * w
    [] left = w /\ middle = w /\ right # w -> right + 2 * w
    [] left = w /\ middle # w -> middle + w
    [] OTHER -> left

\* The counts of the groups of 2^k bits of an n-bit number.
Stages(m, n) ==
  LET stage[k \in Nat] ==
        IF k = 1 THEN [i \in 0 .. n \div 2 - 1 |-> encode2((m \div 4 ^ i) % 4)]
        ELSE [i \in 0 .. n \div 2 ^ k - 1 |->
                combine(stage[k - 1][2 * i + 1], stage[k - 1][2 * i], 2 ^ (k - 1))]
  IN stage
lzc24(m) ==
  LET k == CHOOSE k \in 1 .. 8 : P = 3 * 2 ^ k
      lz == Stages(m, P)[k]
  IN combine4(lz[2], lz[1], lz[0], 2 ^ k)
lzc32(m) == Stages(m, W)[CHOOSE k \in 1 .. 8 : W = 2 ^ k][0]
\* The loop the trees are checked against: the place of the first one.
lzc_ref(m, n) ==
  LET from[i \in -1 .. n - 1] ==
        IF i = -1 THEN n ELSE IF Shr(m, i) % 2 = 1 THEN n - 1 - i ELSE from[i - 1]
  IN from[n - 1]

\* A subnormal number is given a hidden bit and an exponent below the least.
Normalize(w) ==
  LET n == IF IsNorm(EXP(w)) THEN 1 ELSE 0
      m == n * Hidden + FRC(w)
      l == lzc24(m)
  IN [m |-> m * 2 ^ l, e |-> EXP(w) - Bias + (1 - n) - l]

incr(sz, round, sticky, odd, rounding) ==
  \/ rounding = Near /\ round /\ (sticky \/ odd)
  \/ rounding = Down /\ sz = 1 /\ (round \/ sticky)
  \/ rounding = Up /\ sz = 0 /\ (round \/ sticky)
\* The word s e f, one more if it is rounded up: the carry of a full fraction
\* runs into the exponent.
Rounded(s, e, f, round, sticky, rounding) ==
  FLT(s, e, f) + (IF incr(s, round, sticky, f % 2 = 1, rounding) THEN 1 ELSE 0)
Away(sz, rounding) == (sz = 0 /\ rounding = Up) \/ (sz = 1 /\ rounding = Down)

\* Results are compared up to the sign and the payload of a NaN.
compareEqual(a, b) ==
  \/ a = b
  \/ /\ Class(a) = "nan" /\ Class(b) = "nan"
     /\ IsQuiet(FRC(a)) <=> IsQuiet(FRC(b))
=============================================================================
