CONSTANTS
    Text = {"x", "y"}
    Lines <- SomeLines
    Capacity = 2
    RingLen = 3
    MaxLines = 2
    MaxBoots = 1
SPECIFICATION Spec
INVARIANTS TypeOK NothingLost LineEnds DumpIsLastWords FlushedWhenArmed
PROPERTIES BootEnds LogComesOut
