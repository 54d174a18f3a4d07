SPECIFICATION Spec
CONSTANTS
    Neighbour = FALSE
    Rounds = 2
    MaxAttempts = 1
    MaxMishaps = 0
    Mishaps = {}
INVARIANTS
    SkipsOnlyWhatIsPlaced
