CONSTANTS
    Versions = {v1, v2}
    Writers = {w1}
    Valid = {c1}
    Torn = torn
    NoTree = noTree
    NoVersion = noVersion
    NoWriter = noWriter
    MaxPowerLoss = 0
SPECIFICATION Spec
PROPERTIES
    FailureMeansUnchanged
