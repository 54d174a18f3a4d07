SPECIFICATION FairSpec
CONSTANTS
    Neighbour = FALSE
    Rounds = 1
    MaxAttempts = 1
    MaxMishaps = 1
    Mishaps = {"transfer", "scrape"}
PROPERTIES
    EveryDownloadShown
