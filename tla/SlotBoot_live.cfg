CONSTANTS
    None = None
    MaxAttempts = 3
    MaxMissed = 2
    Table = {"ota_0", "ota_1", "factory"}
    Faults = {"store"}
    Images <- RunnableKinds
SPECIFICATION FairSpec
PROPERTY TrialResolves
