-------------------------------- MODULE Bits --------------------------------
(* The puzzles of datalab/bits.c and what tests.c says they should compute.  *)
(* An int is a word of Width bits where the code has 32, and a float has     *)
(* ExpBits and FracBits where it has 8 and 23; the constants of the code     *)
(* (31, the alternating masks, 0xff << 23, 126, 127, 149, 150, 157) are the  *)
(* ones of that format.                                                      *)
EXTENDS Words, Sequences

CONSTANTS LogWidth, ExpBits, FracBits

ASSUME FormatAssumption ==
    /\ LogWidth \in Nat /\ Width = 2 ^ LogWidth
    /\ ExpBits \in Nat \ {0} /\ FracBits \in Nat \ {0}
    /\ Width = 1 + ExpBits + FracBits

LOCAL INSTANCE SequencesExt

LNot(x) == IF x = 0 THEN 1 ELSE 0
Top == Width - 1

bitXor(x, y) ==
    LET left  == Not(And(x, y))
        right == Not(And(Not(x), Not(y)))
    IN  And(left, right)

tmin == Shl(1, Top)

negate(x) == Plus(Not(x), 1)

\* A faulty variant: -1, whose successor is its own negation, is let through.
isTmaxNotMinusOne(x) ==
    LET Tmin == Plus(x, 1)
    IN  LNot(Xor(Tmin, negate(Tmin)))

isTmax(x) ==
    LET Tmin == Plus(x, 1)
    IN  LNot(Or(Xor(Tmin, negate(Tmin)), LNot(Tmin)))

OddBits == OfBits({i \in BitPositions : i % 2 = 1})
allOddBits(x) == LNot(Xor(And(x, OddBits), OddBits))

isAsciiDigit(x) ==
    LET lowerDelta == Plus(x, negate(48))
        upperDelta == Plus(x, negate(58))
    IN  LNot(Or(Shr(lowerDelta, Top), Not(Shr(upperDelta, Top))))

conditional(x, y, z) ==
    LET mask == Shr(Shl(LNot(x), Top), Top)
    IN  Xor(And(z, mask), And(y, Not(mask)))

\* A faulty variant: the sign of the difference alone.
isLessOrEqualByDelta(x, y) == LNot(Shr(Plus(Plus(y, Not(x)), 1), Top))

isLessOrEqual(x, y) ==
    LET yNotNegative == LNot(Shr(y, Top))
        xNegative == And(Shr(x, Top), 1)
        deltaNotNegative == LNot(Shr(Plus(Plus(y, Not(x)), 1), Top))
    IN  And(LNot(And(LNot(yNotNegative), LNot(xNegative))),
            Or(And(yNotNegative, xNegative), deltaNotNegative))

logicalNeg(x) ==
    And(And(Xor(Shr(x, Top), 1), 1), And(Xor(Shr(negate(x), Top), 1), 1))

(* The first loop keeps the leading ones of the word: each step joins a run  *)
(* with the run that starts 2^j further on, and the arithmetic shift fills   *)
(* in ones at the top.  The second adds the bits of neighbouring fields.     *)
Steps == [k \in 1 .. LogWidth |-> k - 1]
FieldMask(j) == OfBits({i \in BitPositions : (i \div (2 ^ j)) % 2 = 0})

LeadingOnes(w) ==
    FoldLeft(LAMBDA n, j : And(n, Shr(n, 2 ^ j)), w, Steps)

CountBits(w) ==
    FoldLeft(LAMBDA n, j : Plus(And(n, FieldMask(j)),
                                And(Shr(n, 2 ^ j), FieldMask(j))),
             w, Steps)

howManyBits(x) ==
    LET negative == Shr(x, Top)
        leadingZerosForm == Or(And(negative, x), And(Not(negative), Not(x)))
        n == CountBits(LeadingOnes(leadingZerosForm))
    IN  Plus(Plus(Width, negate(n)), 1)

-----------------------------------------------------------------------------
(* Floating point, on the bits of the number.                                *)
Bias == 2 ^ (ExpBits - 1) - 1
ExpMask == Shl(2 ^ ExpBits - 1, FracBits)
FracMask == 2 ^ FracBits - 1
ExponentOf(uf) == And(uf, ExpMask) \div (2 ^ FracBits)
SignOf(uf) == uf \div (2 ^ Top)

floatScale2(uf) ==
    LET exponent == ExponentOf(uf)
        rest == And(uf, Not(FracMask))
        up == Plus(uf, Shl(1, FracBits))
    IN  CASE exponent = 2 ^ ExpBits - 1 -> uf
          [] exponent = 0 -> Plus(rest, Shl(And(uf, FracMask), 1))
          [] exponent = 2 ^ ExpBits - 2 -> And(up, Not(FracMask))
          [] OTHER -> up

floatFloat2Int(uf) ==
    LET exponent == ExponentOf(uf)
        fracture == And(uf, FracMask) + 2 ^ FracBits
        signed(n) == Wrap((1 - 2 * SignOf(uf)) * n)
    IN  CASE exponent < Bias - 1 -> 0
          [] exponent > Bias + (Width - 2) -> Shl(1, Top)
          [] exponent \in (Bias - 1) .. (Bias + FracBits) ->
               signed(fracture \div (2 ^ ((Bias + FracBits) - exponent)))
          [] OTHER -> Shl(signed(fracture), exponent - (Bias + FracBits))

floatPower2(x) ==
    LET n == Signed(x)
        least == 1 - (Bias + FracBits)
    IN  IF n > Bias THEN ExpMask
        ELSE IF n < least THEN 0
        ELSE IF n >= 1 - Bias THEN Shl(n + Bias, FracBits)
        ELSE Shl(1, n - least)

-----------------------------------------------------------------------------
(* The reference functions of tests.c.  The value of a finite float is       *)
(* counted in units of the smallest denormalised number, UnitsInOne of which *)
(* are 1.0.                                                                  *)
UnitsInOne == 2 ^ ((Bias - 1) + FracBits)

IsNaN(uf) == ExponentOf(uf) = 2 ^ ExpBits - 1 /\ And(uf, FracMask) # 0
IsInf(uf) == ExponentOf(uf) = 2 ^ ExpBits - 1 /\ And(uf, FracMask) = 0
IsFinite(uf) == ExponentOf(uf) # 2 ^ ExpBits - 1

Magnitude(uf) ==
    IF ExponentOf(uf) = 0
      THEN And(uf, FracMask)
      ELSE (And(uf, FracMask) + 2 ^ FracBits) * (2 ^ (ExponentOf(uf) - 1))

Largest == Magnitude(ExpMask - 1)

(* The bits of sign and m units, for an m that is a float or more than all.  *)
FloatOf(sign, m) ==
    IF m > Largest THEN sign * 2 ^ Top + ExpMask
    ELSE CHOOSE u \in Word :
           IsFinite(u) /\ SignOf(u) = sign /\ Magnitude(u) = m

AsInt(b) == IF b THEN 1 ELSE 0

test_bitXor(x, y) == Xor(x, y)
test_tmin == 2 ^ Top
test_isTmax(x) == AsInt(x = 2 ^ Top - 1)
test_allOddBits(x) ==
    AsInt(\A i \in BitPositions : i % 2 = 1 => Bit(x, i) = 1)
test_negate(x) == Wrap(-Signed(x))
test_isAsciiDigit(x) == AsInt(Signed(x) \in 48 .. 57)
test_conditional(x, y, z) == IF x # 0 THEN y ELSE z
test_isLessOrEqual(x, y) == AsInt(Signed(x) <= Signed(y))
test_logicalNeg(x) == LNot(x)

test_howManyBits(x) ==
    LET a == IF Negative(x) THEN -Signed(x) - 1 ELSE x
    IN  1 + (CHOOSE cnt \in 0 .. Width :
               a < 2 ^ cnt /\ (cnt > 0 => a >= 2 ^ (cnt - 1)))

test_floatScale2(uf) ==
    IF IsFinite(uf) THEN FloatOf(SignOf(uf), 2 * Magnitude(uf)) ELSE uf

(* Out of range, and for NaN, the conversion instruction gives tmin.         *)
test_floatFloat2Int(uf) ==
    LET n == (1 - 2 * SignOf(uf)) * (Magnitude(uf) \div UnitsInOne)
    IN  IF IsFinite(uf) /\ n \in -(2 ^ Top) .. (2 ^ Top - 1)
          THEN Wrap(n) ELSE 2 ^ Top

(* pow gives a double; its conversion rounds half a unit to the even 0.      *)
test_floatPower2(x) ==
    LET n == Signed(x) + ((Bias - 1) + FracBits)
    IN  IF n < 0 THEN 0
        ELSE IF n > ((Bias - 1) + FracBits) + Bias THEN ExpMask
        ELSE FloatOf(0, 2 ^ n)
=============================================================================
