SPECIFICATION Spec
CONSTANTS
    None = None
    Values = {0, 1}
    Zero = 0
    Graphs <- MCGraphs
INVARIANTS
    TypeOK LivenessExact OperandsAgree
PROPERTIES
    Settles
CHECK_DEADLOCK FALSE
