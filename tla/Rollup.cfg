SPECIFICATION Spec
CONSTANTS
    FiveMin = 3
    Hour = 6
    RawKept = 9
    FiveMinKept = 18
    HourKept = 24
    Faults = {"write", "meta", "compact", "restart", "clock", "slip"}
    MaxLate = 2
    MaxSlip = 1
    MaxFaults = 1
    MaxSamples = 2
    Horizon = 30
INVARIANTS
    TypeOK
    CountedOnce
    CompleteOnSchedule
    NothingLost
PROPERTY
    NoPartialRewrite
