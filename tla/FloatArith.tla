----------------------------- MODULE FloatArith -----------------------------
(* Multiplication, division, square root, comparison and the conversions of  *)
(* src/arith/float, and the loops that run them on chosen operands.  Every   *)
(* operation returns a word z and the exceptions Flags it raises.            *)
EXTENDS FloatWords
CONSTANT Operands      \* the words that pairs of operands are taken from
ASSUME OperandsAssumption == Operands \subseteq Words

VARIABLES op, x, y, z, Flags,
          rounding    \* the program's option: direction, or predicate of cmp
floatVars == <<op, x, y, z, Flags, rounding>>

Result(word, flags) == [z |-> word, Flags |-> flags]
V(condition) == IF condition THEN {"V"} ELSE {}
X(round, sticky) == IF round \/ sticky THEN {"X"} ELSE {}

---------------------------------------------------------------------------
\* Multiplication.
mul24(a, b) == a * b
mul24_ref(a, b) ==
  LET step[i \in 0 .. P] ==
        IF i = 0 THEN [upper |-> 0, lower |-> a]
        ELSE LET s == step[i - 1]
                 u == s.upper + (IF s.lower % 2 = 1 THEN b ELSE 0)
             IN [upper |-> u \div 2, lower |-> s.lower \div 2 + (u % 2) * 2 ^ (W - 1)]
      s == step[P]
  IN s.upper * 2 ^ P + Shr(s.lower, W - P)

NaNOf(sz, a, b) ==
  Result(FLT(sz, MaxExp, Quieted(FRC(IF Class(a) = "nan" THEN a ELSE b))),
         V(Signals(a) \/ Signals(b)))
mulSpecial(sz, a, b) ==
  LET cs == {Class(a), Class(b)} IN
  CASE "nan" \in cs -> NaNOf(sz, a, b)
    [] cs = {"zero", "inf"} -> Result(FLT(sz, MaxExp, QUIET_BIT), {"V"})
    [] "zero" \in cs /\ cs # {"zero", "inf"} /\ "nan" \notin cs -> Result(FLT(sz, 0, 0), {})
    [] OTHER -> Result(FLT(sz, MaxExp, 0), {})

Overflow(sz, r) ==
  Result((IF r = Near \/ Away(sz, r) THEN genINF ELSE genINF - 1) + FLT(sz, 0, 0), {"O", "X"})
Underflow(sz, r) == Result(FLT(sz, 0, IF Away(sz, r) THEN 1 ELSE 0), {"U", "X"})

\* The significand fz and the bits below it, left-aligned in fzx1, are shifted
\* right; fzx2 catches what leaves fzx1.
mulDenormal_OneRegister(sz, shift, fz, fzx1, r) ==
  LET out == Shl(fz, W - shift) + Shr(fzx1, shift)
      sticky == Shl(out, 1) # 0
  IN Result(Rounded(sz, 0, Shr(fz, shift), TopBit(out), sticky, r),
            IF TopBit(out) \/ sticky THEN {"U", "X"} ELSE {})
mulDenormal(sz, shift, fz, fzx1, r) ==
  LET out == Shl(fz, W - shift) + Shr(fzx1, shift)
      fzx2 == Shl(fzx1, W - shift)
      sticky == Shl(out, 1) # 0 \/ fzx2 # 0
  IN Result(Rounded(sz, 0, Shr(fz, shift), TopBit(out), sticky, r),
            IF TopBit(out) \/ sticky THEN {"U", "X"} ELSE {})
mulNormal(sz, ez, fz, fzx1, r) ==
  LET sticky == Shl(fzx1, 1) # 0
      word == Rounded(sz, ez, fz - Hidden, TopBit(fzx1), sticky, r)
  IN Result(word, X(TopBit(fzx1), sticky) \cup (IF EXP(word) = MaxExp THEN {"O"} ELSE {}))
mulRound(sz, ez, fz, fzx1, r) ==
  CASE ez >= MaxExp -> Overflow(sz, r)
    [] ez <= 0 /\ 1 - ez <= P -> mulDenormal(sz, 1 - ez, fz, fzx1, r)
    [] ez <= 0 /\ 1 - ez > P -> Underflow(sz, r)
    [] OTHER -> mulNormal(sz, ez, fz, fzx1, r)
mulNumbers(sz, nx, ny, r) ==
  LET product == mul24(nx.m, ny.m)
      carry == product >= 2 ^ (2 * P - 1)
      aligned == IF carry THEN product ELSE 2 * product
  IN mulRound(sz, nx.e + ny.e + Bias + (IF carry THEN 1 ELSE 0),
              Shr(aligned, P), (aligned % 2 ^ P) * 2 ^ (W - P), r)
fpMul(a, b, r) ==
  LET sz == (SGN(a) + SGN(b)) % 2 IN
  IF Class(a) = "num" /\ Class(b) = "num"
  THEN mulNumbers(sz, Normalize(a), Normalize(b), r)
  ELSE mulSpecial(sz, a, b)

---------------------------------------------------------------------------
\* Division.  div24 needs b <= a < 2 * b; its quotient has P + 1 bits.
div24(a, b) ==
  LET step[i \in 0 .. P] ==
        IF i = 0 THEN [quo |-> 1, rem |-> a - b]
        ELSE LET s == step[i - 1]
                 borrow == 2 * s.rem < b
             IN [quo |-> 2 * s.quo + (IF borrow THEN 0 ELSE 1),
                 rem |-> IF borrow THEN 2 * s.rem ELSE 2 * s.rem - b]
  IN step[P]
div24_ref(a, b) == [quo |-> (a * 2 ^ P) \div b, rem |-> (a * 2 ^ P) % b]

divSpecial(sz, a, b) ==
  LET ca == Class(a)  cb == Class(b) IN
  CASE "nan" \in {ca, cb} -> NaNOf(sz, a, b)
    [] ca = cb /\ ca # "nan" -> Result(FLT(sz, MaxExp, QUIET_BIT), {"V"})
    [] ca = "num" /\ cb = "zero" -> Result(FLT(sz, MaxExp, 0), {"I"})
    [] ca = "inf" /\ cb \in {"zero", "num"} -> Result(FLT(sz, MaxExp, 0), {})
    [] OTHER -> Result(FLT(sz, 0, 0), {})

divDenormal(sz, shift, fz, fzx, fr, r) ==
  LET out == Shl(fz, W - shift) + Shr(fzx, shift)
      sticky == fr # 0 \/ Shl(out, 1) # 0
  IN Result(Rounded(sz, 0, Shr(fz, shift), TopBit(out), sticky, r),
            IF TopBit(out) \/ sticky THEN {"U", "X"} ELSE {})
divNormal(sz, ez, fz, fzx, fr, r) ==
  Result(Rounded(sz, ez, fz - Hidden, TopBit(fzx), fr # 0, r), X(TopBit(fzx), fr # 0))
divRound(sz, ez, fz, fzx, fr, r) ==
  CASE ez >= MaxExp -> Overflow(sz, r)
    [] ez <= 0 /\ 1 - ez <= P -> divDenormal(sz, 1 - ez, fz, fzx, fr, r)
    [] ez <= 0 /\ 1 - ez > P -> Underflow(sz, r)
    [] OTHER -> divNormal(sz, ez, fz, fzx, fr, r)
divNumbers(sz, nx, ny, r) ==
  LET shiftx == IF nx.m < ny.m THEN 1 ELSE 0
      q == div24(nx.m * 2 ^ shiftx, ny.m)
  IN divRound(sz, nx.e - ny.e + Bias - shiftx,
              Shr(q.quo, 1), Shl(q.quo, W - 1), q.rem, r)
fpDiv(a, b, r) ==
  LET sz == (SGN(a) + SGN(b)) % 2 IN
  IF Class(a) = "num" /\ Class(b) = "num"
  THEN divNumbers(sz, Normalize(a), Normalize(b), r)
  ELSE divSpecial(sz, a, b)

---------------------------------------------------------------------------
\* Square root.  sqr24 takes a number in 2^P .. 2^(P + 2) - 1.
sqr24(a) ==
  LET step[i \in 0 .. P] ==
        IF i = 0 THEN [Q |-> 2 ^ P, R |-> a - 2 ^ P]
        ELSE LET s == step[i - 1]
                 S == 2 ^ (P - i)
                 T == 2 * s.R - (2 * s.Q + S)
             IN IF T < 0 THEN [s EXCEPT !.R = 2 * @]
                ELSE [Q |-> s.Q + S, R |-> T]
  IN step[P]
sqr24_ref(a) ==
  LET n == a * 2 ^ P
      newton[r \in Nat] ==
        LET next == (r + n \div r) \div 2 IN IF next < r THEN newton[next] ELSE r
      root == newton[a * 2 ^ (P \div 2 - 1)]
  IN [Q |-> root, R |-> n - root * root]
sqrNumber(n, r) ==
  LET odd == n.e % 2 = 1
      s == sqr24(n.m * (IF odd THEN 4 ELSE 2))
      round == s.Q % 2 = 1
  IN Result(Rounded(0, n.e \div 2 + Bias, Shr(s.Q, 1) - Hidden, round, s.R # 0, r),
            X(round, s.R # 0))
fpSqr(a, r) ==
  CASE Class(a) = "zero" -> Result(a, {})
    [] Class(a) = "inf" /\ SGN(a) = 0 -> Result(genINF, {})
    [] Class(a) = "nan" -> Result(FLT(SGN(a), MaxExp, Quieted(FRC(a))), V(Signals(a)))
    [] Class(a) \in {"inf", "num"} /\ SGN(a) = 1 -> Result(genNAN, {"V"})
    [] OTHER -> sqrNumber(Normalize(a), r)

---------------------------------------------------------------------------
\* Comparison: one of four conditions, and what a predicate makes of it.
Predicates == {"EQ", "NE", "LE", "LT", "ULE", "ULT"}
Holds(cond, predicate) ==
  cond \in CASE predicate = "EQ" -> {"EQ"}
             [] predicate = "NE" -> {"LT", "GT", "UN"}
             [] predicate = "LE" -> {"EQ", "LT"}
             [] predicate = "LT" -> {"LT"}
             [] predicate = "ULE" -> {"EQ", "LT", "UN"}
             [] predicate = "ULT" -> {"LT", "UN"}
Magnitude(w) == w % 2 ^ (EW + FW)
Order(a, b) == CASE a < b -> "LT" [] a = b -> "EQ" [] OTHER -> "GT"
Condition(a, b) ==
  CASE "nan" \in {Class(a), Class(b)} -> "UN"
    [] Class(a) = "zero" /\ Class(b) = "zero" -> "EQ"
    [] SGN(a) # SGN(b) -> IF SGN(a) = 1 THEN "LT" ELSE "GT"
    [] OTHER -> IF SGN(a) = 1 THEN Order(Magnitude(b), Magnitude(a))
                              ELSE Order(Magnitude(a), Magnitude(b))
fpCmp(a, b, predicate) ==
  Result(IF Holds(Condition(a, b), predicate) THEN 1 ELSE 0,
         V(/\ Condition(a, b) = "UN"
           /\ Signals(a) \/ Signals(b) \/ predicate \notin {"EQ", "NE"}))

---------------------------------------------------------------------------
\* Conversions between integers of W bits and words.
Least == -(2 ^ (W - 1))
Ints == Least .. -(Least + 1)
cifNumber(sz, xabs, r) ==
  LET lx == lzc32(xabs)
      m == Shl(xabs, lx)
      lost == m % 2 ^ (W - P)
      round == lost >= 2 ^ (W - P - 1)
      sticky == lost % 2 ^ (W - P - 1) # 0
  IN Result(Rounded(sz, Bias + W - 1 - lx, Shr(m - 2 ^ (W - 1), W - P), round, sticky, r),
            X(round, sticky))
fpCif(n, r) ==
  IF n = 0 THEN Result(genZERO, {})
  ELSE IF n < 0 THEN cifNumber(1, -n, r) ELSE cifNumber(0, n, r)

cfiSmall(s, r) == Result(IF Away(s, r) THEN (IF s = 1 THEN -1 ELSE 1) ELSE 0, {"X"})
cfiNumber(s, m, e, r) ==
  LET whole == IF e < P THEN Shr(m, P - e) ELSE m * 2 ^ (e - P)
      out == IF e < P THEN Shl(m, W - P + e) ELSE 0
      up == incr(s, TopBit(out), Shl(out, 1) # 0, whole % 2 = 1, r)
      n == whole + (IF up THEN 1 ELSE 0)
  IN Result(IF s = 1 THEN -n ELSE n, X(TopBit(out), Shl(out, 1) # 0))
fpCfi(a, r) ==
  LET e == EXP(a) - (Bias - 1) IN
  CASE Class(a) = "zero" -> Result(0, {})
    [] Class(a) \in {"inf", "nan"} -> Result(Least, {"V"})
    [] Class(a) = "num" /\ e < 0 -> cfiSmall(SGN(a), r)
    [] Class(a) = "num" /\ e > W -> Result(Least, {"V"})
    [] Class(a) = "num" /\ e = W -> Result(Least, V(SGN(a) = 0 \/ FRC(a) # 0))
    [] OTHER -> cfiNumber(SGN(a), Hidden + FRC(a), e, r)

---------------------------------------------------------------------------
\* Every program runs its operation in loops over operands: the exceptions are
\* cleared, the operation called, the result compared; then the next.
FloatInit ==
  /\ op = "none" /\ x = 0 /\ y = 0 /\ z = 0 /\ Flags = {}
  /\ rounding \in Directions \cup Predicates
Idle(options) == op = "none" /\ rounding \in options
Call(name, a, b, result) ==
  /\ op' = name /\ x' = a /\ y' = b
  /\ z' = result.z /\ Flags' = result.Flags
  /\ UNCHANGED rounding
CheckMul == Idle(Directions) /\ \E a, b \in Operands :
              Call("mul", a, b, fpMul(a, b, rounding))
CheckDiv == Idle(Directions) /\ \E a, b \in Operands :
              Call("div", a, b, fpDiv(a, b, rounding))
CheckSqr == Idle(Directions) /\ \E a \in Words : Call("sqr", a, 0, fpSqr(a, rounding))
CheckCmp == Idle(Predicates) /\ \E a, b \in Operands :
              Call("cmp", a, b, fpCmp(a, b, rounding))
CheckCif == Idle(Directions) /\ \E n \in Ints : Call("cif", n, 0, fpCif(n, rounding))
CheckCfi == Idle(Directions) /\ \E a \in Words : Call("cfi", a, 0, fpCfi(a, rounding))
\* The partial algorithms, each over its own range.
Part(name, a, b, result) == Call(name, a, b, Result(result, {}))
check_mul24 == Idle({Near}) /\ \E a, b \in 0 .. 2 ^ P - 1 : Part("mul24", a, b, mul24(a, b))
check_lzc24 == Idle({Near}) /\ \E m \in 0 .. 2 ^ P - 1 : Part("lzc24", m, 0, lzc24(m))
check_lzc32 == Idle({Near}) /\ \E m \in 0 .. 2 ^ W - 1 : Part("lzc32", m, 0, lzc32(m))
check_div24 == Idle({Near}) /\ \E a, b \in Hidden .. 2 * Hidden - 1 :
                 LET dividend == IF a < b THEN 2 * a ELSE a
                 IN Part("div24", dividend, b, div24(dividend, b))
check_sqr24 == Idle({Near}) /\ \E a \in 2 ^ P .. 2 ^ (P + 2) - 1 :
                 Part("sqr24", a, 0, sqr24(a))
NextOperands ==
  /\ op # "none"
  /\ op' = "none" /\ x' = 0 /\ y' = 0 /\ z' = 0 /\ Flags' = {}
  /\ UNCHANGED rounding
FloatNext ==
  \/ CheckMul \/ CheckDiv \/ CheckSqr \/ CheckCmp \/ CheckCif \/ CheckCfi
  \/ check_mul24 \/ check_lzc24 \/ check_lzc32 \/ check_div24 \/ check_sqr24
  \/ NextOperands
FloatSpec == FloatInit /\ [][FloatNext]_floatVars

---------------------------------------------------------------------------
(* What IEEE 754 says, in terms of the real numbers that words stand for. A *)
(* magnitude w is m * 2^k; infinity takes the place that the next number    *)
(* above the greatest would have, as rounding needs it.                     *)
Val(w) == [m |-> FRC(w) + (IF EXP(w) = 0 THEN 0 ELSE Hidden),
           k |-> (IF EXP(w) = 0 THEN 1 ELSE EXP(w)) - Bias - FW]
Middle(w) == [m |-> 2 * Val(w).m + 1, k |-> Val(w).k - 1]
Sign(i) == CASE i < 0 -> -1 [] i = 0 -> 0 [] OTHER -> 1
\* The sign of a * 2^i - b * 2^j, for a and b below 2^14.
Upper(a, d, b) == IF d > 16 THEN (IF a > 0 THEN 1 ELSE Sign(-b)) ELSE Sign(a * 2 ^ d - b)
Versus(a, i, b, j) == IF i >= j THEN Upper(a, i - j, b) ELSE -Upper(b, j - i, a)
\* The sign of the exact magnitude less c.
Exact(c) ==
  LET a == Val(Magnitude(x))  b == Val(Magnitude(y)) IN
  CASE op = "mul" -> Versus(a.m * b.m, a.k + b.k, c.m, c.k)
    [] op = "div" -> Versus(a.m, a.k, c.m * b.m, c.k + b.k)
    [] op = "sqr" -> Versus(a.m, a.k, c.m * c.m, 2 * c.k)
    [] op = "cif" -> Versus(IF x < 0 THEN -x ELSE x, 0, c.m, c.k)
ExactSign ==
  CASE op \in {"mul", "div"} -> (SGN(x) + SGN(y)) % 2
    [] op = "sqr" -> 0
    [] op = "cif" -> IF x < 0 THEN 1 ELSE 0
NearestEven(w) ==
  /\ w > 0 => Exact(Middle(w - 1)) > (IF w % 2 = 0 THEN -1 ELSE 0)
  /\ w < genINF => Exact(Middle(w)) < (IF w % 2 = 0 THEN 1 ELSE 0)
LeastAbove(w) == (w < genINF => Exact(Val(w)) <= 0) /\ (w > 0 => Exact(Val(w - 1)) > 0)
GreatestBelow(w) ==
  w < genINF /\ Exact(Val(w)) >= 0 /\ (w < genINF - 1 => Exact(Val(w + 1)) < 0)
Inexact == Magnitude(z) = genINF \/ Exact(Val(Magnitude(z))) # 0
TooLarge == CASE rounding = Near -> Exact(Middle(genINF - 1)) >= 0
              [] Away(ExactSign, rounding) -> Exact(Val(genINF - 1)) > 0
              [] OTHER -> Exact(Val(genINF)) >= 0
NumberRounded ==
  /\ SGN(z) = ExactSign
  /\ CASE rounding = Near -> NearestEven(Magnitude(z))
       [] Away(ExactSign, rounding) -> LeastAbove(Magnitude(z))
       [] OTHER -> GreatestBelow(Magnitude(z))
  /\ "X" \in Flags <=> Inexact
  /\ "O" \in Flags <=> TooLarge
  /\ "U" \in Flags <=> Inexact /\ Exact(Val(Hidden)) < 0
  /\ Flags \cap {"V", "I"} = {}
Invalid ==
  \/ Signals(x) \/ (op # "sqr" /\ Signals(y))
  \/ op = "mul" /\ {Class(x), Class(y)} = {"zero", "inf"}
  \/ op = "div" /\ Class(x) = Class(y) /\ Class(x) \in {"zero", "inf"}
  \/ op = "sqr" /\ SGN(x) = 1 /\ Class(x) \in {"inf", "num"}
SpecialRight ==
  /\ Flags = (IF Invalid THEN {"V"} ELSE IF op = "div" /\ Class(x) = "num" /\ Class(y) = "zero"
              THEN {"I"} ELSE {})
  /\ IF Invalid \/ "nan" \in {Class(x), Class(y)} THEN compareEqual(z, genNAN)
     ELSE /\ op # "sqr" => SGN(z) = ExactSign
          /\ Class(z) = "inf" <=> \/ Class(x) = "inf"
                                  \/ op = "mul" /\ Class(y) = "inf"
                                  \/ op = "div" /\ Class(y) = "zero"
          /\ Class(z) \in {"zero", "inf"}

\* The shift-and-add multiplier, the restoring divider, the root extractor and
\* the trees of leading zeros agree with what the programs call references.
PartsAgree ==
  /\ op = "mul24" => z = mul24_ref(x, y)
  /\ op = "div24" => z = div24_ref(x, y)
  /\ op = "sqr24" => z = sqr24_ref(x)
  /\ op = "lzc24" => z = lzc_ref(x, P)
  /\ op = "lzc32" => z = lzc_ref(x, W)

\* Products, quotients, roots and converted integers are the exact value
\* rounded once in the chosen direction, subnormal results and overflow
\* included, and exactly the exceptions of the standard are raised: what the
\* programs find out by comparing with SoftFloat on some operands.
RoundedExactly ==
  /\ PartsAgree
  /\ op \in {"mul", "div"} =>
       IF Class(x) = "num" /\ Class(y) = "num" THEN NumberRounded ELSE SpecialRight
  /\ op = "sqr" => IF Class(x) = "num" /\ SGN(x) = 0 THEN NumberRounded ELSE SpecialRight
  /\ op = "cif" => IF x = 0 THEN z = genZERO /\ Flags = {} ELSE NumberRounded

\* The predicates are the order of the real numbers, false of a NaN; ULE and
\* ULT deny the opposite order, and are true of a NaN (cmp.c, fpCmp_ref).
Unordered == "nan" \in {Class(x), Class(y)}
Less(a, b) ==
  LET va == Val(Magnitude(a))  vb == Val(Magnitude(b))
      sign == Versus(va.m, va.k, vb.m, vb.k)
      null == va.m = 0 /\ vb.m = 0
  IN CASE SGN(a) = 0 /\ SGN(b) = 0 -> sign < 0
       [] SGN(a) = 1 /\ SGN(b) = 1 -> sign > 0
       [] OTHER -> SGN(a) = 1 /\ ~null
OrderIsIEEE ==
  op = "cmp" =>
    LET lt == ~Unordered /\ Less(x, y)
        gt == ~Unordered /\ Less(y, x)
        eq == ~Unordered /\ ~lt /\ ~gt
    IN /\ z = 1 <=> CASE rounding = "EQ" -> eq
                       [] rounding = "NE" -> ~eq
                       [] rounding = "LE" -> lt \/ eq
                       [] rounding = "LT" -> lt
                       [] rounding = "ULE" -> ~gt
                       [] rounding = "ULT" -> ~(gt \/ eq)
       /\ "V" \in Flags <=> Unordered /\ (rounding \in {"EQ", "NE"} => Signals(x) \/ Signals(y))

\* A word becomes the integer next to it in the chosen direction, and the
\* least integer with exception V exactly if there is none.
Twice(w, t) ==  \* the sign of 2 * w - t
  LET v == Val(Magnitude(w))
      Positive(u) == IF u < 0 THEN 1 ELSE Versus(v.m, v.k + 1, u, 0)
  IN IF SGN(w) = 0 THEN Positive(t) ELSE -Positive(-t)
IsInteger(n) ==
  CASE rounding = Near -> /\ Twice(x, 2 * n - 1) >= n % 2
                          /\ Twice(x, 2 * n + 1) <= -(n % 2)
    [] rounding = Down -> Twice(x, 2 * n) >= 0 /\ Twice(x, 2 * n + 2) < 0
    [] rounding = Up -> Twice(x, 2 * n) <= 0 /\ Twice(x, 2 * n - 2) > 0
    [] OTHER -> IF SGN(x) = 0 THEN Twice(x, 2 * n) >= 0 /\ Twice(x, 2 * n + 2) < 0
                ELSE Twice(x, 2 * n) <= 0 /\ Twice(x, 2 * n - 2) > 0
IntegersExact ==
  op = "cfi" =>
    IF Class(x) \in {"zero", "num"} /\ \E n \in Ints : IsInteger(n)
    THEN IsInteger(z) /\ Flags = (IF Twice(x, 2 * z) # 0 THEN {"X"} ELSE {})
    ELSE z = Least /\ Flags = {"V"}
=============================================================================
