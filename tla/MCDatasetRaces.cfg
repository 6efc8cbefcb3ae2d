CONSTANTS
    c1 = c1
    c2 = c2
    Contents <- MCContents
    Covered <- MCCovered
    FeatureCount <- MCFeatureCount
    Jobs = {1, 2, 3}
    None = none
    Torn = torn
    VerifyRecord = TRUE
    MaxFaults = 0
SPECIFICATION RacingSpec
INVARIANTS
    PublishedWasValidated
CHECK_DEADLOCK FALSE
