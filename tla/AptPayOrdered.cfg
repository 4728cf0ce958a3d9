\* Two deliveries in flight for a prompt request; fairness.
SPECIFICATION FairSpec
CONSTANTS
    r1 = r1
    r2 = r2
    d1 = d1
    u1 = u1
    x1 = x1
    NoId = NoId
    Handlers = {h1, h2}
    RequestPays = {r1}
    Disbursements = {}
    Strays = {}
    Users = {u1}
    Owner <- MCOwner
    Amount <- MCAmount
    Opening <- MCOpening
    Late = {}
    Verdicts = {"SETTLED", "FAILED"}
    Prompt = {r1}
    MaxDuplicates = 1
    MaxFaults = 0
PROPERTIES
    SettledIsCredited
CHECK_DEADLOCK FALSE
