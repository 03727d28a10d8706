SPECIFICATION Spec
CONSTANTS
    Digit = 3
    PageCells = 2
    LargestPages = {0, 1, 4}
    Bytes = {0, 5}
    MaxAccesses = 2
    None = None
INVARIANTS
    PortalsClean
PROPERTIES
    RequestsEnd
    ImplementsResolver
CHECK_DEADLOCK FALSE
