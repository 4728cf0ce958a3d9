\* One request at a time: failed sign-ins and a password reset.
SPECIFICATION Spec
CONSTANTS
    Handlers = {h1}
    Pairs = {n1, n2}
    Passwords = {p1, p2}
    Opening = p1
    p1 = p1
    p2 = p2
    Requests = {"signin", "resetPassword"}
    Credentials = {p1, p2}
    AttemptLimit = 2
    IpLimit = 2
    MaxFaults = 0
    MaxFailures = 3
    NoPair = NoPair
PROPERTY
    ResetUnlocks
CHECK_DEADLOCK FALSE
