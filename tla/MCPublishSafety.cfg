CONSTANTS
    Versions = {v1, v2}
    Writers = {w1, w2}
    Valid = {c1, c2}
    Torn = torn
    NoTree = noTree
    NoVersion = noVersion
    NoWriter = noWriter
    MaxPowerLoss = 0
SPECIFICATION Spec
SYMMETRY Symmetry
INVARIANTS
    SupersedesItsBase
PROPERTIES
    TreesAreImmutable
    SuccessMeansServed
    ImplementsActiveVersion
