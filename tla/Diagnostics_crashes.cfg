CONSTANTS
    Causes = {"PowerOn", "BrownOut", "Glitch", "Unknown", "HpCoreSoftware", "HpWatchdogSystem"}
    RingLen = 2
    StatLen = 2
    Faults = {"torn", "store", "read"}
    MaxBoots = 2
SPECIFICATION Spec
INVARIANTS TypeOK RingIsRecentPast PanicReachesAccounts PanicsCounted SameSignal
PROPERTIES PrintedBeforeLost
