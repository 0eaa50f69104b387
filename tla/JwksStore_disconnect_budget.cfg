SPECIFICATION Spec
CONSTANTS
    Requests = {r1, r2}
    k1 = k1
    k2 = k2
    sprayed = sprayed
    Kids <- MCKids
    Tokens <- MCTokens
    Editions <- MCEditions
    Cooldown = 2
    FetchMax = 1
    Droppable = {"lookup", "gate", "recheck", "fetch", "served", "install", "verify"}
    Horizon = 5
    MaxFetches = 3
    None = None
INVARIANT FetchBudget
