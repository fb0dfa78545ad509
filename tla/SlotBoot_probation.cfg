CONSTANTS
    None = None
    MaxAttempts = 3
    MaxMissed = 0
    Table = {"ota_0", "ota_1", "factory"}
    Faults = {"power", "imgread", "psram", "panic"}
    Images <- UpdateKinds
SPECIFICATION Spec
PROPERTY ImplementsProbation
