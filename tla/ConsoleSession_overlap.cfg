CONSTANTS
    u1 = u1
    u2 = u2
    h1 = h1
    h2 = h2
    Users = {u1, u2}
    Admins = {u1}
    Panels = {"config", "settings", "admin", "clientKeys", "adminLogs", "proxies", "newKey"}
    Handlers = {h1, h2}
    MaxClicks = 6
SPECIFICATION Spec
CHECK_DEADLOCK FALSE
INVARIANTS
    TypeOK
    PanelsOfTheSession
    GateFollowsToken
    AdminPanelsAskedByAdmins
    UnknownUserIsAsked
