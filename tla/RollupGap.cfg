SPECIFICATION Spec
CONSTANTS
    FiveMin = 3
    Hour = 6
    RawKept = 9
    FiveMinKept = 18
    HourKept = 24
    Faults = {"compact", "restart"}
    MaxLate = 0
    MaxSlip = 0
    MaxFaults = 1
    MaxSamples = 3
    Horizon = 30
INVARIANT
    FinalIsComplete
