CONSTANTS
    d1 = d1
    root = root
    a = a
    b = b
    e1 = e1
    r1 = r1
    r2 = r2
    n1 = n1
    n2 = n2
    Nodes = {n1, n2}
    Addresses = {d1}
    Names = {root, a, b}
    Emails = {e1}
    NoEmail = NoEmail
    Administrator = root
    AdminForceReset = TRUE
    Requests = {r1, r2}
    LoginsPerMinute = 2
    LockoutThreshold = 1
    RegistrationsPerMinute = 1
    Minute = 1
    LockoutTime = 1
    MaxTime = 2
    MaxRequests = 4
SPECIFICATION Spec
SYMMETRY Symmetric
CHECK_DEADLOCK FALSE
INVARIANTS
    TypeOK
    AttemptsBounded
    FailuresBounded
    RegisteredOnce
    AdminAccountStands
