CONSTANTS
    None = None
    Ids = {5, 6, 7}
    Sizes = {0, 20, 40}
    WORD = 512
    CHUNKSIZE = 40
    MAX_HEAP = 152
    Lines = 4
    Traces = 2
    HALF = 16
    Starts = {14, 250}
    Cycles = {15, 35}
    cyc_per_tick = 20
    K = 2
    MAXSAMPLES = 3
    EPSILON = 1
    TimerRuns = 2
    LIBC = 100
SPECIFICATION MCSpec
INVARIANTS
    HeapConsistent HeldExactly
    VerdictsAreRight BestIsScored
PROPERTY RefinesAllocator
VIEW MCView
