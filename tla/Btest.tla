------------------------------- MODULE Btest -------------------------------
(* The test harness of the puzzles, datalab/btest.c with the table of        *)
(* decl.c: for each puzzle it makes lists of argument values, compares the   *)
(* solution with the reference on every combination, and stops at the first  *)
(* difference or when the alarm goes off.  One step is one comparison.       *)
EXTENDS Bits

CONSTANTS
    TEST_RANGE,   \* 500000 in the code
    RandomVals,   \* what random_val may return here
    NoArg,        \* no -1, -2, -3 option for this argument
    GivenChoices  \* the options of a run: [0 .. 2 -> Word or NoArg]

LOCAL INSTANCE SequencesExt

ASSUME RangeAssumption == TEST_RANGE \in Nat /\ TEST_RANGE >= 4

VARIABLES
    given,        \* has_arg and argval
    puzzle,       \* i of run_tests
    at,           \* a1, a2, a3 of test_function, counted from 1
    errors,       \* of the puzzle under test
    timedout,     \* has the alarm gone off in it?
    score         \* how many puzzles have scored

vars == <<given, puzzle, at, errors, timedout, score>>

Test(name, args, float) == [name |-> name, args |-> args, float |-> float]

test_set ==
    <<Test("bitXor", 2, FALSE), Test("tmin", 0, FALSE),
      Test("isTmax", 1, FALSE), Test("allOddBits", 1, FALSE),
      Test("negate", 1, FALSE), Test("isAsciiDigit", 1, FALSE),
      Test("conditional", 3, FALSE), Test("isLessOrEqual", 2, FALSE),
      Test("logicalNeg", 1, FALSE), Test("howManyBits", 1, FALSE),
      Test("floatScale2", 1, TRUE), Test("floatFloat2Int", 1, TRUE),
      Test("floatPower2", 1, TRUE)>>

Solution(name, x, y, z) ==
    CASE name = "bitXor" -> bitXor(x, y)
      [] name = "tmin" -> tmin
      [] name = "isTmax" -> isTmax(x)
      [] name = "allOddBits" -> allOddBits(x)
      [] name = "negate" -> negate(x)
      [] name = "isAsciiDigit" -> isAsciiDigit(x)
      [] name = "conditional" -> conditional(x, y, z)
      [] name = "isLessOrEqual" -> isLessOrEqual(x, y)
      [] name = "logicalNeg" -> logicalNeg(x)
      [] name = "howManyBits" -> howManyBits(x)
      [] name = "floatScale2" -> floatScale2(x)
      [] name = "floatFloat2Int" -> floatFloat2Int(x)
      [] OTHER -> floatPower2(x)

Reference(name, x, y, z) ==
    CASE name = "bitXor" -> test_bitXor(x, y)
      [] name = "tmin" -> test_tmin
      [] name = "isTmax" -> test_isTmax(x)
      [] name = "allOddBits" -> test_allOddBits(x)
      [] name = "negate" -> test_negate(x)
      [] name = "isAsciiDigit" -> test_isAsciiDigit(x)
      [] name = "conditional" -> test_conditional(x, y, z)
      [] name = "isLessOrEqual" -> test_isLessOrEqual(x, y)
      [] name = "logicalNeg" -> test_logicalNeg(x)
      [] name = "howManyBits" -> test_howManyBits(x)
      [] name = "floatScale2" -> test_floatScale2(x)
      [] name = "floatFloat2Int" -> test_floatFloat2Int(x)
      [] OTHER -> test_floatPower2(x)

-----------------------------------------------------------------------------
(* gen_vals: a list of test values, each a set of which one is taken: a      *)
(* singleton, or what the random generator may give.                         *)
One(n) == {Wrap(n)}

(* Around zero, the smallest normalised number, one and the largest one, of  *)
(* both signs, and the special values.                                       *)
FloatVals(test_range) ==
    LET range == IF test_range > 2 ^ FracBits THEN 2 ^ FracBits
                                              ELSE test_range
        sign  == 2 ^ Top
        norm  == 2 ^ FracBits
        one   == Bias * (2 ^ FracBits)
        large == (2 ^ ExpBits - 2) * (2 ^ FracBits)
        nan   == ExpMask + 2 ^ (FracBits - 1)
        Around(i) ==
          <<One(i), {Or(sign, i)},
            One(norm + i), One(norm - i),
            {Or(sign, Wrap(norm + i))}, {Or(sign, Wrap(norm - i))},
            One(one + i), One(one - i),
            {Or(sign, Wrap(one + i))}, {Or(sign, Wrap(one - i))},
            One(large - i), {Or(sign, Wrap(large - i))}>>
    IN  FlattenSeq([k \in 1 .. range |-> Around(k - 1)])
          \o <<{ExpMask}, {Or(sign, ExpMask)}, {nan}, {Or(sign, nan)}>>

MaxTestVals == 13 * TEST_RANGE

IntVals(min, max, test_range) ==
    LET If(b, n) == IF b THEN <<One(n)>> ELSE << >>
        Sampled(i) == <<One(min + i), One(max - i)>>
                        \o If(min <= i /\ i <= max, i)
                        \o If(min <= -i /\ -i <= max, -i)
                        \o <<RandomVals>>
    IN  IF max - MaxTestVals <= min
          THEN [k \in 1 .. ((max - min) + 1) |-> One(min + (k - 1))]
          ELSE FlattenSeq([k \in 1 .. test_range |-> Sampled(k - 1)])

(* The range of an argument depends on how many a function has.              *)
Root(n) == CHOOSE r \in 1 .. TEST_RANGE :
             r ^ n <= TEST_RANGE /\ (r + 1) ^ n > TEST_RANGE

ValsOfWord(range) == IntVals(-(2 ^ Top), 2 ^ Top - 1, range)
Vals1 == ValsOfWord(TEST_RANGE)
Vals2 == ValsOfWord(Root(2))
Vals3 == ValsOfWord(Root(3))
ValsF == FloatVals(TEST_RANGE)

gen_vals(t, arg) ==
    IF given[arg] # NoArg THEN <<{given[arg]}>>
    ELSE IF t.float THEN ValsF
    ELSE CASE t.args = 1 -> Vals1
           [] t.args = 2 -> Vals2
           [] OTHER -> Vals3

-----------------------------------------------------------------------------
Init ==
    /\ given \in GivenChoices
    /\ puzzle = 1 /\ at = <<1, 1, 1>>
    /\ errors = 0 /\ timedout = FALSE
    /\ score = 0

Current == test_set[puzzle]
Running == puzzle <= Len(test_set)
Count(k) == IF k <= Current.args THEN Len(gen_vals(Current, k - 1)) ELSE 1

(* The loops of test_function: the last argument moves fastest.              *)
LastOf(t) == at = <<Count(1), Count(2), Count(3)>>
Advanced ==
    IF at[3] < Count(3) THEN [at EXCEPT ![3] = @ + 1]
    ELSE IF at[2] < Count(2) THEN <<at[1], at[2] + 1, 1>>
    ELSE <<at[1] + 1, 1, 1>>

(* run_tests takes the errors of a puzzle and goes on to the next.           *)
Leave(errs) ==
    /\ score' = score + AsInt(errs = 0)
    /\ puzzle' = puzzle + 1
    /\ at' = <<1, 1, 1>> /\ errors' = 0 /\ timedout' = FALSE

(* One comparison: test_0_arg, test_1_arg, test_2_arg or test_3_arg.         *)
Differs(t, x, y, z) == Solution(t.name, x, y, z) # Reference(t.name, x, y, z)

ValuesAt(k) == IF k <= Current.args THEN gen_vals(Current, k - 1)[at[k]]
                                    ELSE {0}

Compare ==
    /\ Running /\ ~timedout
    /\ \E x \in ValuesAt(1), y \in ValuesAt(2), z \in ValuesAt(3) :
         LET errs == errors + AsInt(Differs(Current, x, y, z))
         IN  IF errs > 0 \/ LastOf(Current)
               THEN Leave(errs)
               ELSE /\ at' = Advanced /\ errors' = errs
                    /\ UNCHANGED <<puzzle, score, timedout>>
    /\ UNCHANGED given

(* The alarm: timeout_handler jumps back into test_function, which gives up. *)
TimeOut ==
    /\ Running /\ ~timedout
    /\ timedout' = TRUE /\ errors' = 1
    /\ UNCHANGED <<given, puzzle, at, score>>

GiveUp ==
    /\ Running /\ timedout
    /\ Leave(errors)
    /\ UNCHANGED given

Next == Compare \/ TimeOut \/ GiveUp
Spec == Init /\ [][Next]_vars
-----------------------------------------------------------------------------
\* Every puzzle that was not timed out has scored: no comparison that the
\* harness makes around the limits, zero and the boundaries of the floating
\* point format, with or without given arguments, tells a solution of bits.c
\* from its reference (btest.c test_function, run_tests).
PuzzlesScore ==
    [][puzzle' = puzzle + 1 /\ ~timedout => score' = score + 1]_vars
=============================================================================
