SPECIFICATION FairSpec
CONSTANTS
    MAXJOBS = 2
    MaxPid = 2
    CommandLines <- MCLiveLines
    MaxCommands = 3
    MaxKeys = 1
CHECK_DEADLOCK FALSE
PROPERTIES
    ZombiesAreReaped
    ShellComesBack
