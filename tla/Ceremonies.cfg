SPECIFICATION FairSpec
CONSTANTS
    Handlers = {h1, h2}
    Cap <- SmallCap
    Ttl <- SmallTtl
    MaxSteps = 1
    MaxBegun = 3
    Horizon = 3
INVARIANTS
    TypeOK
    Bounded
    NothingLate
PROPERTIES
    OldestGoesFirst
    Forgotten
