SPECIFICATION FairSpec
CONSTANTS
    Clients = {c1, c2}
    Slots = {h1, h2}
    MaxSockets = 1
    Grace = 1
    None = None
PROPERTY
    OutageReaped
