CONSTANTS
    Table <- ReadmeTable
    Sizes = {1, 100}
    MaxUpdates = 0
SPECIFICATION Spec
INVARIANTS FlashedAppBoots
