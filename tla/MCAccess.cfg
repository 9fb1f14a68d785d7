CONSTANTS
    Accounts = {a1, a2, a3}
    Admins = {m1, m2}
    Logins = {l1, l2}
    Passwords = {p1, p2}
    ActivationKeys = {k1, k2, k3}
    Resets = {r1, r2}
    Threads = {t1, t2}
    ApiKeyIds = {key1}
    Workloads <- MCWorkloads
    FirstAccount = a1
    FirstAdmin = m1
    FirstKey = k1
    FirstLogin = l1
    Threshold = 2
    MaxRequests = 4
    MaxCrashes = 1
    None = None

SPECIFICATION Spec
INVARIANTS
    AccessTypeOK
    RegistrationAtomic
    MirrorOfKeys
PROPERTIES
    AuditLostOnlyByOverlap
    ResetOnce
    LockoutKept
    RevokedKeyDies
    RequestsAnswered
CHECK_DEADLOCK FALSE
