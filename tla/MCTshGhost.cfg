SPECIFICATION Spec
CONSTANTS
    MAXJOBS = 2
    MaxPid = 2
    CommandLines <- MCGhostLines
    MaxCommands = 4
    MaxKeys = 0
CHECK_DEADLOCK FALSE
INVARIANTS
    FgpidFindsForeground
