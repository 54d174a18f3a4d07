SPECIFICATION Spec
CONSTANTS
    Tasks = {t1}
    Workers = {w1}
    Keys = {k1}
    k1 = k1
    None = None
    KeyOf <- OneKey
    MaxAttempts = 2
    MaxMishaps = 0
    DedupTries = 5
    Budget <- NoMishap
CHECK_DEADLOCK FALSE
INVARIANTS
    SettledReadsTerminal
