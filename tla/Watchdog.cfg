SPECIFICATION FairSpec
CONSTANTS
    a1 = a1
    a2 = a2
    Hosts <- MCHosts
    Startup = a1
    Stale = 4
    After = 2
    Fresh = 2
    Backoff = 1
    None = None
PROPERTIES
    NoFossil
    DeadIsNoticed
    LiveTunnelKept
    GraceForEveryTunnel
    SelfHeals
