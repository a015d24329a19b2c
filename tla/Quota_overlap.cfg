CONSTANTS
    u1 = u1
    u2 = u2
    k1 = k1
    k2 = k2
    r1 = r1
    r2 = r2
    Users = {u1}
    Requests = {r1, r2}
    Keys = {k1}
    Owner <- MCAllToOne
    AutoQuotaEnabled = TRUE
    ManualGlobalRpm = 0
    BaseRpmContributorOnly = TRUE
    BaseRpm = 1
    PerKeyRpm = 1
    MaxRpm = 2
    ManualRpms <- MCManuals
    MaxPixels = 2
    MaxSteps = 2
    MaxSamples = 1
    Limited = TRUE
    DefaultListed = TRUE
    Halves <- MCHalves
    Window = 1
    MaxTime = 2
    MaxRequests = 4
SPECIFICATION HistorySpec
INVARIANTS
    TypeOK
    RateNotAbove
    BurstBounded
    LimitsKept
