SPECIFICATION Spec
CONSTANTS
    None = None
    Modulus = 16
    TapeLen = 6
    MaxBody = 32
    ScanBatch = 2
    MaxRaw = 60
    Sources <- MCSources
    Inputs <- MCInputs
    Disabled <- MCDisabled
    Grows = {TRUE, FALSE}
INVARIANTS
    AsReference SameError
CHECK_DEADLOCK FALSE
