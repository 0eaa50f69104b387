SPECIFICATION Spec
CONSTANTS
    Ids = {i1, i2, i3, i4, i5}
    Subjects = {alice, bob, carol}
    MaxSessions = 4
    MaxPerSubject = 2
    Ttl = 3
    SweepEvery = 2
    Horizon = 7
SYMMETRY MCSymmetry
INVARIANTS
    Capped
    CannotSignOutOthers
PROPERTIES
    SweepIsLazyButFair
