SPECIFICATION BoxFairSpec
CONSTANTS
    Hwids = {h1, h2, h3}
    MaxHwids = 3
    Users = {u1, u2}
    NoUser = NoUser
INVARIANTS
    ToldIsCurrent
PROPERTY NameIsTold
CHECK_DEADLOCK FALSE
