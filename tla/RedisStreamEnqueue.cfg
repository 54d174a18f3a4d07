SPECIFICATION Spec
CONSTANTS
    Tasks = {t1, t2}
    Workers = {w1}
    Keys = {k1}
    k1 = k1
    None = None
    KeyOf <- OneKey
    MaxAttempts = 1
    MaxMishaps = 2
    DedupTries = 2
    Budget <- EnqueueMishaps
SYMMETRY Interchangeable
CHECK_DEADLOCK FALSE
INVARIANTS
    DedupNeverSwallows
