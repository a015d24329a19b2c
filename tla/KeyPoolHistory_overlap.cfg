CONSTANTS
    h1 = h1
    h2 = h2
    c1 = c1
    c2 = c2
    a1 = a1
    k1 = k1
    k2 = k2
    KeyHashes = {k1}
    FailThreshold = 2
    DynamicCooldown = TRUE
    CooldownMax = 3
    CooldownBase <- MCBase
    RequireOpus = TRUE
    KeyIds = {1}
    Handlers = {h1, h2}
    Checkers = {c1, c2}
    Admins = {a1}
    KeyCooldown = 1
    RetryAfters = {0, 4}
    Postgres = TRUE
    MaxTime = 1
    MaxLogs = 2
    MaxStreak = 2
SYMMETRY Symmetric
VIEW LiveColumns
CONSTRAINT TwoChecksAlone
SPECIFICATION HistorySpec
INVARIANTS
    TypeOK
    CountersWithinLog
    CooldownEndsInTime
    CountersExact
    PersistentFailuresEvict
    PendingKeysAreUnused
PROPERTIES
    OnlyToggleSwitches
    ImplementsLifecycle
    PausesAreHonoured
