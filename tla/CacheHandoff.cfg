CONSTANTS
    Miss = Miss
    AppLine = {a1}
    OwnLine = {o1}
    Core = {c0, c1}
    Hart = c0
SPECIFICATION Spec
INVARIANTS TypeOK FetchesLoadedCode ImageSurvivesInvalidate
