CONSTANTS
    p1 = p1
    p2 = p2
    h1 = h1
    h2 = h2
    u1 = u1
    u2 = u2
    Settings <- MCSettings
    Users = {u1, u2}
    UserHash <- MCHash
    Handlers = {h1, h2}
    Handled = {"429", "5xx", "network"}
    FailureThreshold = 2
    StreakCap = 3
    Base <- MCBase
    MaxCooldown = 3
    MaxTime = 3
    MaxFailures = 3
SPECIFICATION HistorySpec
INVARIANTS
    TypeOK
    CooldownBounded
    StreakExplained
PROPERTIES
    CooldownNotShortened
    FailingProxyRests
    ImplementsBreaker
