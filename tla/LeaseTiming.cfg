SPECIFICATION Spec
CONSTANTS
    Validity = 40
    RenewInterval = 10
    CheckInterval = 5
    RenewTimeout = 12
    StartDelay = 1
    MaxOutage = 45
INVARIANTS
    TypeOK
    StopsAtDeadline
    StalenessBounded
    SurvivesShortOutage
PROPERTIES
    RenewsForEver
