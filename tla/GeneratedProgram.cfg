CONSTANTS
    Byte = 16
    None = None
    Bits = 4
    Chunk = 16
    PageCells = 32
    TapeCells = 850
    BankAnchors = 3
    MaxTerminals = 3
    MaxExpanded = 40
    MaxNesting = 8
    MaxTurns = 50
    Fuel = 200
    Cases <- TheCases
SPECIFICATION Spec
INVARIANTS SameOutput TapeClean Paced LaidOutApart
CHECK_DEADLOCK FALSE
