SPECIFICATION Spec
CONSTANTS
    Guids = {g1, g2}
    Users = {u1, u2}
    NoUser = NoUser
SYMMETRY Interchangeable
INVARIANTS
    WrongOnlyIfHit
PROPERTY BanIsForAsked
