SPECIFICATION Spec
CONSTANTS
    Guids = {g1, g2, g3}
    W = 12
    Timeout = 2
    MaxLag = 2
SYMMETRY Interchangeable
INVARIANT SilenceBounded
PROPERTY EvictionHasReason
