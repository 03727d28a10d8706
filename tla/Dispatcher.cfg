SPECIFICATION Spec
CONSTANTS
    Base = 3
    MaxContexts = 2
    Codes <- MCCodes
INVARIANTS
    SelectionClean
PROPERTIES
    CyclesEnd
    ImplementsAtomicDispatch
