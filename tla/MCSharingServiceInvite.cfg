CONSTANTS
    Accounts = {"owner","ann","bob"}
    Groups = {"g1"}
    Workers = {"w1", "w2"}
    None = None
    Founders <- MCFounders
    MaxUses = 1
    MaxRequests = 2
    MayAbort = FALSE

SPECIFICATION Spec
INVARIANTS
    InviteWithinLimit
CHECK_DEADLOCK FALSE
