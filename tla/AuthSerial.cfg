\* One request at a time, with a fault.
SPECIFICATION Spec
CONSTANTS
    Handlers = {h1}
    Pairs = {n1, n2}
    Passwords = {p1, p2}
    Opening = p1
    p1 = p1
    p2 = p2
    Requests = {"signin", "refresh", "logout", "logoutAll", "revokeSession", "changePassword", "resetPassword", "fcm"}
    Credentials = {p1, p2, "nobody"}
    AttemptLimit = 2
    IpLimit = 2
    MaxFaults = 1
    MaxFailures = 3
    NoPair = NoPair
INVARIANTS
    EndedIsRejected
    LimitLocks
PROPERTIES
    OnlyTimeUnlocks
    ImplementsSessions
SYMMETRY Symmetry
CHECK_DEADLOCK FALSE
