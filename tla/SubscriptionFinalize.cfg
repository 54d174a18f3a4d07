SPECIFICATION Spec
CONSTANTS
    Total = 2
    w1 = w1
    w2 = w2
    Scrape <- MCScrape
    None = None
    Keyed = TRUE
    Mishaps = {}
    MaxMishaps = 0
CHECK_DEADLOCK FALSE
INVARIANTS
    FinishedIsTransferred
