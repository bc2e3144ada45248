SPECIFICATION Spec
CONSTANTS
    Tick = 15
    PerCall = 3
    MaxWrite = 21
    MaxBack = 2
INVARIANTS
    NotCalledStale
    OkIsSeen
    BackInTime
