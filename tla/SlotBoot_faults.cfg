CONSTANTS
    None = None
    MaxAttempts = 2
    MaxMissed = 1
    Table = {"ota_0", "ota_1", "factory"}
    Faults = {"power", "torn", "store", "otaread", "imgread", "psram", "panic"}
    Images <- AllKinds
SPECIFICATION Spec
INVARIANT TypeOK
INVARIANT CountedBeforeRun
INVARIANT ConfirmedUnlessOnProbation
INVARIANT VerifiedWhenRunning
PROPERTY TrialsEndDuly
