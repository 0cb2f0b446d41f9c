------------------------------- MODULE Words -------------------------------
(* Machine words of Width bits, as the C code computes with them: a word is  *)
(* the natural number its bits denote, arithmetic wraps, and the signed      *)
(* reading is two's complement.                                              *)
EXTENDS Integers, FiniteSetsExt

CONSTANT Width

ASSUME WidthAssumption == Width \in Nat \ {0}

Modulus == 2 ^ Width
Word == 0 .. (Modulus - 1)
BitPositions == 0 .. (Width - 1)

Wrap(n) == n % Modulus
Negative(w) == w >= Modulus \div 2
Signed(w) == IF Negative(w) THEN w - Modulus ELSE w

Plus(a, b) == Wrap(a + b)
Minus(a, b) == Wrap(a - b)

Bit(w, i) == (w \div (2 ^ i)) % 2
OfBits(S) == SumSet({2 ^ i : i \in S})

And(a, b) == OfBits({i \in BitPositions : Bit(a, i) = 1 /\ Bit(b, i) = 1})
Or(a, b)  == OfBits({i \in BitPositions : Bit(a, i) = 1 \/ Bit(b, i) = 1})
Xor(a, b) == OfBits({i \in BitPositions : Bit(a, i) # Bit(b, i)})
Not(a)    == (Modulus - 1) - a

(* The shifts of a C int: the left one drops the high bits, the right one    *)
(* repeats the sign.                                                         *)
Shl(a, n) == Wrap(a * (2 ^ n))
Shr(a, n) == Wrap(Signed(a) \div (2 ^ n))
=============================================================================
