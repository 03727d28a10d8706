SPECIFICATION Spec
CONSTANTS
    Base = 4
    MaxId = 9
INVARIANTS
    CodesIdentify
    DenseCodesCountDown
