SPECIFICATION FairSpec
CONSTANTS
    Handlers = {h1, h2}
    k1 = k1
    k2 = k2
    odd = odd
    Kids <- MCKids
    Editions <- MCEditions
    Cooldown = 2
    FetchMax = 1
    Cancellable = {h1}
    Horizon = 5
    None = None
PROPERTIES
    RefreshLimited
    FailuresSpaced
    RotatedKeyPickedUp
    Answered
