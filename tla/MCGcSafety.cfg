CONSTANTS
    Versions = {1, 2}
    StreamReaders = {s1}
    RootReaders = {p1}
    NoVersion = noVersion
    NoOne = noOne
    TTL = 2
    RenewAfter = 1
    TombstoneLimit = 2
    MaxTime = 4
    Collectors = {g1}
    Listable = {}
    Retention = 0
    MaxSkew = 1
    Skews <- MCSkews
    RollbackTolerance = 1
SPECIFICATION Spec
INVARIANTS
    LeasedVersionIsWhole
PROPERTIES
    RemovedNeverReturns
VIEW LiveView
