SPECIFICATION Spec
CONSTANTS
    NumNetworks = 2
    RightPassword = {2}
    MaxRetries = 2
    ScanFailureReset = 2
    MaxEvents = 1
INVARIANTS
    TypeOK
    KnowsTheLink
PROPERTIES
    SearchGoesOn
CHECK_DEADLOCK FALSE
