SPECIFICATION Spec
CONSTANTS
    Hwids = {h1, h2, h3}
    NoHwid = NoHwid
    MaxCount = 5
    MaxFaults = 2
    HwidKinds = {"h1"}
    Autoban = {"userid", "h1", "ip"}
    ForceApi = TRUE
    MaxFailures = 1
    Texts = {t1, t2}
    NoText = NoText
SYMMETRY Interchangeable
INVARIANTS
    SavedIsReadable
    ListedOnce
    ReaderMissesNothing
    BlockAllBansAll
    OneAuthor
    RefreshWorks
PROPERTIES
    OnlyGrows
    OkIsComplete
    QuietAnswer
