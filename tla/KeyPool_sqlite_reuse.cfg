CONSTANTS
    h1 = h1
    h2 = h2
    c1 = c1
    c2 = c2
    a1 = a1
    k1 = k1
    k2 = k2
    KeyHashes = {k1, k2}
    FailThreshold = 2
    DynamicCooldown = TRUE
    CooldownMax = 3
    CooldownBase <- MCBase
    RequireOpus = TRUE
    KeyIds = {1, 2}
    Handlers = {h1}
    Checkers = {c1}
    Admins = {}
    KeyCooldown = 1
    RetryAfters = {0}
    Postgres = FALSE
    MaxTime = 0
    MaxLogs = 1
    MaxStreak = 2
SPECIFICATION Spec
SYMMETRY Symmetric
INVARIANTS
    CopiesAreOfTheStoredKey
