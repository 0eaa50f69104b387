SPECIFICATION FairSpec
CONSTANTS
    Clients = {c1, c2}
    Slots = {h1, h2}
    MaxSockets = 1
    Grace = 2
    None = None
INVARIANTS
    OneOwner
PROPERTIES
    AbandonedReaped
    AcceptorProceeds
    HealedReaped
