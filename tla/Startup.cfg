SPECIFICATION FairSpec
CONSTANTS
    Releases = {1, 2}
    MaxStops = 2
INVARIANTS
    TypeOK
    OpenedIsCurrent
    OnlyTheEntitled
PROPERTIES
    OwnHistoryKept
    StartsAgain
