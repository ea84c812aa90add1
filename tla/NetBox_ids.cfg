SPECIFICATION BoxSpec
CONSTANTS
    Hwids = {h1, h2, h3, h4, h5}
    MaxHwids = 5
    Users = {u1, u2}
    NoUser = NoUser
SYMMETRY Interchangeable
INVARIANT
    AllIdsSent
CHECK_DEADLOCK FALSE
