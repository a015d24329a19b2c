CONSTANTS
    u1 = u1
    u2 = u2
    s1 = s1
    s2 = s2
    s3 = s3
    Users = {u1, u2}
    Requests = {s1, s2}
    LocksTable = FALSE
    Rotates = {TRUE}
    MaxKeys = 3
SPECIFICATION Spec
CHECK_DEADLOCK FALSE
PROPERTIES
    RotationLeavesOne
