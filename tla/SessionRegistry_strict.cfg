SPECIFICATION Spec
CONSTANTS
    NoUser = NoUser
    ip1 = ip1
    Guids = {g1, g2}
    Users = {u1, u2}
    Hwids = {h1, h2}
    Ips = {ip1}
    IpOf <- OneAddress
    Configs <- StrictOnly
    MaxHwids = 2
SYMMETRY Interchangeable
INVARIANTS
    TypeOK
    UniqueGuid
    SingleSession
    SingleMachine
    OpenIsSupervised
    SavedCoversSession
PROPERTY BanKeepsOut
