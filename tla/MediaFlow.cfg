SPECIFICATION Spec
CONSTANTS
    Neighbour = FALSE
    Rounds = 1
    MaxAttempts = 1
    MaxMishaps = 4
    Mishaps = {"transfer", "scrape", "crash"}
ACTION_CONSTRAINT CalmReconciler
INVARIANTS
    TypeOK
    
    

    
