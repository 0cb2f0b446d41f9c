SPECIFICATION FairSpec
CONSTANTS
    Threads = {t1, t2, t3}
    Keys = {a}
    Nodes = {n1, n2}
    Null = Null
    Sizes = {1, 2}
    MaxObjectSize = 1
    MaxCacheSize = 1
    MaxRequests = 3
    NoEntry = NoEntry
    NoRequest = NoRequest
    Missed = Missed
    NoKey = NoKey
CHECK_DEADLOCK FALSE
INVARIANTS
    WritersAreAlone
    ReadersTakeTurns
    NoUseAfterFree
PROPERTIES
    RequestsFinish
