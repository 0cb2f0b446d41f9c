SPECIFICATION FairSpec
CONSTANTS
    MAX_HOSTNAME_LEN = 3
    MAX_PORT_LEN = 4
    MAX_QUERY_LEN = 8
    Ids = {1, 2, 3}
    Servers <- MCServers
    Files <- MCFiles
    NoRequest = NoRequest
    NTHREADS = 2
    MAX_HEADERS_NUMBER = 3
    MAX_OBJECT_SIZE = 2
    MAX_CACHE_SIZE = 2
    KnownHosts <- MCKnownHosts
    Requests <- MCRequests
    Batches <- MCBatches
    MaxFaults = 1
INVARIANTS
    OneAnswer
    WholeResponsesCached
    NothingLeaks
    HeadersForwarded
PROPERTY
    RequestsFinish
CHECK_DEADLOCK FALSE
