CONSTANTS
    Clients = {c1, c2}
    o1 = o1
    o2 = o2
    Owners = {o1, o2}
    Cells = {1, 2}
    NoTribe = NoTribe
    Entities <- MCEntities
    MaxChanges = 2
    MaxStream = 2
    MaxFailures = 1
    None = None

SPECIFICATION Spec
INVARIANTS
    GateTypeOK
PROPERTIES
    SuppressedIsKnown
    EventuallyCurrent
    EventuallyGone
CHECK_DEADLOCK FALSE
