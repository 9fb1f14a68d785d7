CONSTANTS
    MaxLen = 2
    BatchSize = 2
    Poison = {1}
    MaxEntries = 4
    MaxErrors = 2
    MaxCrashes = 1
    MaxResets = 1

SPECIFICATION FairSpec
INVARIANTS
    TypeOK
    NothingForgotten
    AckedWasApplied
PROPERTIES
    KeepsPromise
    EventuallyAcked
CHECK_DEADLOCK FALSE
