SPECIFICATION Spec
CONSTANTS
    Sessions = {s1, s2, s3}
    Heartbeats = {s1, s2}
    TTL = 4
    Interval = 1
    MaxSkew = 1
    Tolerated = 1
    MaxNow = 5
    Offered = {"redis", "db"}
    None = None
SYMMETRY Interchangeable
ACTION_CONSTRAINT NoFailover
CHECK_DEADLOCK FALSE
INVARIANTS
    TypeOK
    OneHolderUnlessLapsed
PROPERTIES
    OnlyHolderEndsLease
    OrphanFreesItself
