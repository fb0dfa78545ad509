CONSTANTS
    Table <- RescueTable
    Sizes = {1, 192, 193}
    MaxUpdates = 2
SPECIFICATION Spec
INVARIANTS TypeOK WritesStayHome NewestImageWhole DamageNeedsOversize
