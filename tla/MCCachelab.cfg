\* Three small caches, and command lines that give none, with traces of up to MaxLines lines; the matrices of the
\* driver, small ones of every shape, and one that is not square.
SPECIFICATION MCSpec
CONSTANTS
    NoJob = NoJob
    CommandLines <- MCCommandLines
    Commands = {"L", "M"}
    Addresses = {0, 1, 4, 8, 10}
    MaxLines = 5
    Sizes <- MCSizes
    SmallDims = {1, 3, 4, 7, 8, 9, 13, 16}
INVARIANTS
    TraceCounts
    SubmissionScores
CHECK_DEADLOCK FALSE
