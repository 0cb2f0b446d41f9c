SPECIFICATION FairSpec
CONSTANTS
    NoItem = NoItem
    Producers = {p1, p2}
    Consumers = {c1, c2}
    Items = {a, b}
    N = 2
    MaxInserts = 4
CHECK_DEADLOCK FALSE
INVARIANTS
    MutualExclusion
    SlotsAccounted
    NeverOverrun
PROPERTIES
    RefinesFifo
    AcceptedIsRemoved
