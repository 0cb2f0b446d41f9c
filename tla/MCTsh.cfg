SPECIFICATION Spec
CONSTANTS
    MAXJOBS = 2
    MaxPid = 2
    CommandLines <- MCCommandLines
    MaxCommands = 4
    MaxKeys = 2
CHECK_DEADLOCK FALSE
INVARIANTS
    AtMostOneForeground
    PromptWithoutForeground
    JobListMatchesChildren
PROPERTIES
    StatesFollowTable
