CONSTANTS
    Accounts = {"owner","ann"}
    Groups = {"g1"}
    Workers = {"w1", "w2"}
    None = None
    Founders <- MCFounders
    MaxUses = 2
    MaxRequests = 3
    MayAbort = FALSE

SPECIFICATION Spec
INVARIANTS
    MirrorKeepsUp
CHECK_DEADLOCK FALSE
