SPECIFICATION Spec
CONSTANTS
    None = None
    Modulus = 8
    TapeLen = 5
    MaxMove = 2
    MaxOutput = 2
    Parent <- MCParent
    Programs <- MCPrograms
    Inputs <- MCInputs
INVARIANTS
    SameRun WellAnnotated RangesCover
PROPERTIES
    EndsAlike
CHECK_DEADLOCK FALSE
