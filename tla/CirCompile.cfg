CONSTANTS
    Byte = 16
    None = None
    Fuel = 60
    MaxFields = 16
    MaxDestinations = 256
    MaxRegion = 128
    MaxTerms = 16
    MaxSpliced = 3
    MaxHandoff = 8
    Pieces = {"sum", "fields", "swap", "less", "restore", "while", "choice", "stuck", "call", "global", "wrapped", "pair", "repeat", "portal", "element", "scaled", "carries", "recursive", "guarded", "once", "nested", "carried", "compared", "stale", "either", "index", "successor", "spin", "detour"}
    First = {"call", "while", "fields"}
    Second = {"repeat", "choice", "pair", "less"}
    Programs <- ThePrograms
    Inputs <- TheInputs
SPECIFICATION Spec
INVARIANTS SameRun StillValid NothingLeft NoEmptyChain
CHECK_DEADLOCK FALSE
