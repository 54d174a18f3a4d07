SPECIFICATION Spec
CONSTANTS
    N = 1
    Runners = {e1}
    None = None
    MaxFaults = 0
    MaxCrashes = 0
    MaxRollbacks = 1
    MaxTransfers = 1
CHECK_DEADLOCK FALSE
INVARIANTS
    NothingOverwritten
