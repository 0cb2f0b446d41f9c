SPECIFICATION Spec
CONSTANTS
    Threads = {t1, t2}
    Keys = {a, b}
    Nodes = {n1, n2, n3}
    Null = Null
    Sizes = {1, 2, 3}
    MaxObjectSize = 2
    MaxCacheSize = 3
    MaxRequests = 5
    NoEntry = NoEntry
    NoRequest = NoRequest
    Missed = Missed
    NoKey = NoKey
SYMMETRY Symmetry
CHECK_DEADLOCK FALSE
INVARIANTS
    ListsAgree
    OlderDuplicateGoesFirst
PROPERTY
    RefinesLruCache
