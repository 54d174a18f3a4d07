SPECIFICATION Spec
CONSTANTS
    N = 2
    Runners = {e1, e2}
    None = None
    MaxFaults = 1
    MaxCrashes = 1
    MaxRollbacks = 1
    MaxTransfers = 1
SYMMETRY Interchangeable
CHECK_DEADLOCK FALSE
INVARIANTS
    TypeOK
    SettledItemsAgree
    
    RollbackRestores
    CompletedMeansSettled
PROPERTIES
    MovesAreJournaled
