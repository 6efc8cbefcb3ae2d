CONSTANTS
    Versions = {1, 2, 3}
    StreamReaders = {s1}
    RootReaders = {p1}
    NoVersion = noVersion
    NoOne = noOne
    TTL = 0
    RenewAfter = 0
    TombstoneLimit = 1
    MaxTime = 0
    Collectors = {g1}
    Listable = {1}
    Retention = 1
    MaxSkew = 0
    Skews = {0}
    RollbackTolerance = 0
SPECIFICATION FairSpec
INVARIANTS
    NewestAreWhole
PROPERTIES
    AcquisitionEnds
    CollectionEnds
