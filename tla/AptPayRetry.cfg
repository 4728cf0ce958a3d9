\* One delivery at a time; one call fails or the process restarts once.
SPECIFICATION Spec
CONSTANTS
    r1 = r1
    r2 = r2
    d1 = d1
    u1 = u1
    x1 = x1
    NoId = NoId
    Handlers = {h1}
    RequestPays = {r1}
    Disbursements = {d1}
    Strays = {}
    Users = {u1}
    Owner <- MCOwner
    Amount <- MCAmount
    Opening <- MCOpening
    Late = {r1, d1}
    Verdicts = {"SETTLED", "FAILED"}
    Prompt = {r1, d1}
    MaxDuplicates = 1
    MaxFaults = 1
INVARIANT
    RetryCompletes
CHECK_DEADLOCK FALSE
