CONSTANTS
    Versions = {v1}
    Writers = {w1, w2}
    Valid = {c1, c2}
    Torn = torn
    NoTree = noTree
    NoVersion = noVersion
    NoWriter = noWriter
    MaxPowerLoss = 2
SPECIFICATION FairSpec
INVARIANTS
    ActivatedNeverLost
    ShelfIsValid
PROPERTIES
    EveryInvocationEnds
