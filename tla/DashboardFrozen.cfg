SPECIFICATION Spec
CONSTANTS
    Cadence = 1
    ReqTimeout = 1
    MaxBackoff = 2
    StaleAfter = 3
    Ranges = {"7D"}
INVARIANT
    NothingFrozen
