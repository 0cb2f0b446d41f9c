\* The buffer of the package is larger than that of the caller, and a stream is
\* longer than both.
SPECIFICATION FairSpec
CONSTANTS
    Letter = "c"
    Newline = "newline"
    RIO_BUFSIZE = 4
    MaxLine = 3
    MaxEintr = 1
    MaxLength = 7
    Streams <- MCStreams
INVARIANTS
    NothingLostOrRepeated
PROPERTY
    CallsReturn
CHECK_DEADLOCK FALSE
