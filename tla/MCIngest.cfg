CONSTANTS
    s1 = s1
    n1 = n1
    n2 = n2
    c1 = c1
    c2 = c2
    h1 = h1
    h2 = h2
    p1 = p1
    None = None
    Workers = {"structure", "dino", "player", "density"}
    Servers = {s1}
    TribeRows = {1, 2, 3}
    Names = {n1, n2}
    Teams = {1}
    Codes = {c1, c2, p1}
    Messages <- MCMessages
    Workloads <- MCWorkloads
    MaxDinos = 4
    Near = 2
    MaxRedeliveries = 1
    MaxCrashes = 1

SPECIFICATION Spec
INVARIANTS
    IngestTypeOK
    OneRowPerTribe
    AckedIsStored
PROPERTY EventuallyStored
CHECK_DEADLOCK FALSE
