\* Two deliveries in flight, in any order.
SPECIFICATION Spec
CONSTANTS
    r1 = r1
    r2 = r2
    d1 = d1
    u1 = u1
    x1 = x1
    NoId = NoId
    Handlers = {h1, h2}
    RequestPays = {r1}
    Disbursements = {d1}
    Strays = {}
    Users = {u1}
    Owner <- MCOwner
    Amount <- MCAmount
    Opening <- MCOpeningRich
    Late = {}
    Verdicts = {"SETTLED", "FAILED"}
    Prompt = {}
    MaxDuplicates = 0
    MaxFaults = 0
INVARIANTS
    TypeOK
    TxMatchesVerdict
    RequestMatchesVerdict
PROPERTIES
    TxFinal
    BalanceHasCause
SYMMETRY Symmetry
CHECK_DEADLOCK FALSE
