SPECIFICATION FairSpec
CONSTANTS
    Tasks = {t1}
    Workers = {w1, w2}
    Keys = {k1}
    k1 = k1
    None = None
    KeyOf <- OneKey
    MaxAttempts = 2
    MaxMishaps = 2
    DedupTries = 2
    Budget <- DeliveryMishaps
CHECK_DEADLOCK FALSE
INVARIANTS
    TypeOK
    NoTaskLost
    HonestStatus
    OneHandlerUnlessStalled
    GivenUpOnlyWhenExhausted
    GivenUpIsDeadLettered
PROPERTIES
    EverySubmissionSettles
    KeepsContract
