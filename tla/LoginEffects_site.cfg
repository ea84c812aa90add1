SPECIFICATION Spec
CONSTANTS
    Guids = {g1, g2}
    Users = {u1, u2}
    NoUser = NoUser
    Absent = Absent
    Null = Null
    MaxHandles = 3
    MaxCalls = 1
SYMMETRY Interchangeable
INVARIANTS
    HandlesAreAccounted
    SiteKnows
