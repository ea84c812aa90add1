SPECIFICATION FairSpec
CONSTANTS
    NoUser = NoUser
    ip1 = ip1
    Guids = {g1, g2}
    Users = {u1, u2}
    Hwids = {h1}
    Ips = {ip1}
    IpOf <- OneAddress
    Configs <- Switching
    MaxHwids = 2
PROPERTIES
    KeepsAccountClaims
    KeepsMachineClaims
    ClosedIsReclaimed
