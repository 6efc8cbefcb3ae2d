CONSTANTS
    c1 = c1
    c2 = c2
    Contents <- MCContents
    Covered <- MCCovered
    FeatureCount <- MCFeatureCount
    Jobs = {1, 2, 3}
    None = none
    Torn = torn
    VerifyRecord = TRUE
    MaxFaults = 1
SPECIFICATION FairSpec
INVARIANTS
    JobFilesTellTheWork
    PublishedWasValidated
    DeployableIsWhole
PROPERTIES
    StartedJobEnds
CHECK_DEADLOCK FALSE
