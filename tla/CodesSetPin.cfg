\* Two setPin requests at the same time.
SPECIFICATION Spec
CONSTANTS
    Handlers = {h1, h2}
    Flows = {"pin"}
    CodeTTL = 2
    EmailTTL = 1
    AttemptTTL = 3
    AttemptLimit = 2
    Emails = {1, 2}
    MaxCodes = 1
    MaxFaults = 0
PROPERTY SetPinOnlyOnce
SYMMETRY Symmetry
