SPECIFICATION Spec
CONSTANTS
    Containers = {c1, c2}
    MaxInflight = 1
    PerCall = 1
    Budget = 3
    MaxStarts = 2
    Horizon = 5
SYMMETRY Symmetry
INVARIANTS
    TypeOK
    ReportsWhatWasUsed
    WindowIsLastCollection
PROPERTY
    SickCostTheirOwn
