SPECIFICATION Spec
CONSTANTS
    Ids = {main, t1, t2}
    mainThread = main
    None = None
    Pids = {1, 2}
    Programs = {"listed", "served", "harmless"}
    NoProgram = "none"
    DbHacks = {"listed"}
    SrvHacks = {"served"}
    Files = {"file"}
    Apis = {1, 2}
    ApiWhitelist = {1}
    Logins <- MCLogins
    Serials <- MCSerials
    Counters = {1, 255}
    Fills = {0, 170}
SYMMETRY Interchangeable
INVARIANTS
    OwnThreadLoads
    ScanCovers
    LoginArrives
\* An error ends the game.
CHECK_DEADLOCK FALSE
