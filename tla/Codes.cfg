\* Each flow on its own, two requests at a time.
SPECIFICATION Spec
CONSTANTS
    Handlers = {h1, h2}
    Flows = {"pin", "phone", "password", "email", "signupEmail", "address"}
    CodeTTL = 2
    EmailTTL = 1
    AttemptTTL = 3
    AttemptLimit = 2
    Emails = {1, 2}
    MaxCodes = 2
    MaxFaults = 1
INVARIANTS
    TypeOK
    SpentCodeIsDead
    CodesKeepTheirPurpose
    LastSentWorks
    VerifiedEmailGotTheCode
PROPERTIES
    LockHolds
SYMMETRY Symmetry
