\* Two requests at a time: logging out everywhere beside any other.
SPECIFICATION Spec
CONSTANTS
    Handlers = {h1, h2}
    Pairs = {n1, n2}
    Passwords = {p1, p2}
    Opening = p1
    p1 = p1
    p2 = p2
    Requests = {"signin", "refresh", "logout", "logoutAll", "revokeSession"}
    Credentials = {p1, p2}
    AttemptLimit = 2
    IpLimit = 2
    MaxFaults = 0
    MaxFailures = 3
    NoPair = NoPair
INVARIANT
    LogoutAllInvalidates
SYMMETRY Symmetry
CHECK_DEADLOCK FALSE
