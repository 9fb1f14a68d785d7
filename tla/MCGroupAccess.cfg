CONSTANTS
    owner1 = owner1
    member1 = member1
    c1 = c1
    c2 = c2
    w1 = w1
    w2 = w2
    Accounts <- MCAccounts
    Groups = {"g1", "g2"}
    Workers <- MCWorkers
    None = None
    Founders <- MCFounders
    MaxUses = 2
    MaxRequests = 3
    MayAbort = TRUE
    Conns <- MCConns
    ConnAccount <- MCConnAccount
    MaxDrops = 1

SPECIFICATION AccessSpec
SYMMETRY MCSymmetry
INVARIANTS
    AccessTypeOK
    MirrorAgrees
    TablesConsistent
    RevokedIsOut
    DeletedIsOut
CHECK_DEADLOCK FALSE
