\* All programs of a prologue, four statements out of eight, and an epilogue,
\* on a machine with words of one byte.
SPECIFICATION MCSpec
CONSTANTS
    WordBytes = 1
    MemSize = 32
    Regs = {0, 3, 4}
    InstrLimit = 28
    DefaultLimit = 28
    CodeEnd = 20
    BodyLen = 4
    Statements = {1, 4, 5, 6, 7, 8, 9, 17}
    Declarations <- MCDeclarations
    Starts <- MCStarts
    Names = {"a", "p", "u"}
    WordValues = {0, 2}
    Depth = 6
    SYM_LIM = 3
    MAXERRLEN = 3
    VarWidth = 5
    MaxColumn = 20
    FirstIndent = 4
    OtherIndents = 2
INVARIANTS
    NoConflictingControl
    PipelineMatchesIsa
    SequentialMatchesIsa
    CheckSucceeds
    AssemblerRoundTrip
    CompiledAsWritten
CHECK_DEADLOCK FALSE
