SPECIFICATION Spec
CONSTANTS
    MaxRestarts = 1
    MaxCalls = 1
    MaxDeaths = 1
    MaxFaults = 1
INVARIANTS TypeOK TerminatedForGood
CHECK_DEADLOCK FALSE
PROPERTIES NoZombie FirstLaunchEnds TerminateEnds TeardownFinishes
