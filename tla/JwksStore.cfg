SPECIFICATION FairSpec
CONSTANTS
    Requests = {r1, r2}
    k1 = k1
    k2 = k2
    sprayed = sprayed
    Kids <- MCKids
    Tokens <- MCTokens
    Editions <- MCEditions
    Cooldown = 2
    FetchMax = 1
    Droppable = {"lookup", "gate", "recheck", "verify"}
    Horizon = 4
    MaxFetches = 3
    None = None
PROPERTIES
    CacheNeverRegresses
    RotatedKeyPickedUp
    RateLimited
    Answered
