CONSTANTS
    Requests = {r1, r2}
    Snapshots <- MCSnapshots
    Workloads <- MCWorkloads
    RowId <- MCRowId
    Radius = 300
    Day = 2
    Limit = 1
    None = None

SPECIFICATION Spec
INVARIANTS
    SnapshotTypeOK
    NothingForgotten
    AcceptedWasWritten
    PagesComplete
PROPERTIES
    StaleOnlyIfUnseen
    EventuallyFlushed
CHECK_DEADLOCK FALSE
