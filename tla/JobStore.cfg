SPECIFICATION Spec
CONSTANTS
    Ids = {j1, j2, j3, j4}
    Limit = 2
    Ttl = 1
    Horizon = 5
    None = None
SYMMETRY MCSymmetry
INVARIANTS
    Capped
PROPERTIES
    NoResurrection
    ResultKept
