CONSTANTS
    Versions = {1, 2}
    StreamReaders = {}
    RootReaders = {p1}
    NoVersion = noVersion
    NoOne = noOne
    TTL = 1
    RenewAfter = 0
    TombstoneLimit = 1
    MaxTime = 2
    Collectors = {g1}
    Listable = {}
    Retention = 0
    MaxSkew = 0
    Skews = {0}
    RollbackTolerance = 0
SPECIFICATION Spec
INVARIANTS
    HeldLeaseProtects
