SPECIFICATION Spec
CONSTANTS
    Handlers = {h1,h2}
    Passkeys = {k1, k2}
    Inodes = {i1, i2, i3}
    NoInode = NoInode
    MaxCeremonies = 4
    MaxSessions = 3
    MaxFaults = 0
    MaxCrashes = 0
SYMMETRY Symmetry
INVARIANTS
    AuthFileReadable
