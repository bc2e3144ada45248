SPECIFICATION Spec
CONSTANTS
    Handlers = {h1, h2}
    Passkeys = {k1, k2, k3}
    Inodes = {i1, i2, i3}
    NoInode = NoInode
    MaxCeremonies = 3
    MaxSessions = 3
    MaxFaults = 2
    MaxCrashes = 2
SYMMETRY Symmetry
INVARIANTS
    TypeOK
    OneBootstrap
    NotLockedOut
    NoParkedBootstrap
    ReadableInTurn
    AckedIsKnown
    MemoryMatchesDisk
    OneUserId
PROPERTY
    AccountKept
