CONSTANTS
    Causes = {"PowerOn", "HpCoreSoftware"}
    RingLen = 2
    StatLen = 2
    Faults = {}
    MaxBoots = 3
SPECIFICATION Spec
INVARIANT PanicMeansPreviousPanicked
