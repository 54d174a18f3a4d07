SPECIFICATION Spec
CONSTANTS
    r1 = r1
    r2 = r2
    r3 = r3
    r4 = r4
    alice = alice
    bob = bob
    carol = carol
    movie = movie
    other = other
    Requests = {r1, r2, r3, r4}
    KeyOf <- MCKeyOf
    ContentOf <- MCContentOf
    None = None
    MaxActive = 1
    MaxAttempts = 2
    Direct = {series}
    Mishaps = {"enqueue", "client", "lookup", "refused", "reply", "path", "history", "crash"}
    MaxMishaps = 2
CHECK_DEADLOCK FALSE
INVARIANTS
    TypeOK
    
    
    OwedHasRow
    AddedIsRecorded
    WithinLimit
PROPERTIES
    EventuallySettled
