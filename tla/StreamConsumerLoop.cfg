CONSTANTS
    MaxLen = 2
    BatchSize = 2
    Poison = {}
    MaxEntries = 2
    MaxErrors = 1
    MaxCrashes = 0
    MaxResets = 0

SPECIFICATION FairSpec
PROPERTIES
    LoopEndsOnlyOnStop
CHECK_DEADLOCK FALSE
