SPECIFICATION Spec
CONSTANTS
    Emails = {"mail1", "mail2"}
    Refs = {"ref1", "ref2"}
    Names = {"name", "element", "lacking"}
    NoData = "nothing"
    Ref = "ref1"
    Whole = {"element"}
    Lacking = {"lacking"}
    Listings <- MCListings
    Programs = {"exe", "dll"}
INVARIANTS
    StartIsOrdered
    PageIsWhole
PROPERTIES
    ServedWhole
\* The process may end.
CHECK_DEADLOCK FALSE
