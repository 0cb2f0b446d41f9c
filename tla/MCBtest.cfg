\* Words of eight bits, floats with four exponent and three fraction bits.
SPECIFICATION MCSpec
CONSTANTS
    Width = 8
    LogWidth = 3
    ExpBits = 4
    FracBits = 3
    TEST_RANGE = 8
    RandomVals = {5, 77, 200}
    NoArg = NoArg
    GivenChoices <- MCGivenChoices
    OtherWords = {0, 1, 85, 127, 128, 254, 255}
INVARIANT
    PuzzlesCorrect
PROPERTY
    PuzzlesScore
CHECK_DEADLOCK FALSE
