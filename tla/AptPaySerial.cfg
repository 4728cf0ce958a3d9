\* One delivery at a time, with a stray id, a duplicate and a fault.
SPECIFICATION Spec
CONSTANTS
    r1 = r1
    r2 = r2
    d1 = d1
    u1 = u1
    x1 = x1
    NoId = NoId
    Handlers = {h1}
    RequestPays = {r1}
    Disbursements = {d1}
    Strays = {x1}
    Users = {u1}
    Owner <- MCOwner
    Amount <- MCAmount
    Opening <- MCOpening
    Late = {r1, d1}
    Verdicts = {"SETTLED", "FAILED"}
    Prompt = {r1, d1}
    MaxDuplicates = 1
    MaxFaults = 1
INVARIANTS
    LedgerExact
    NeverOverpaid
    AckedIsDone
    RequestMatchesTx
PROPERTIES
    ImplementsLedger
CHECK_DEADLOCK FALSE
