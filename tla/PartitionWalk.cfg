CONSTANTS
    N = 4
    Labels <- MCLabels
    Tables <- AllTables
SPECIFICATION Spec
INVARIANT TypeOK
INVARIANT FindsFirstMatch
