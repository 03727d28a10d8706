SPECIFICATION Spec
CONSTANTS
    None = None
    lo = lo
    hi = hi
    x = x
    y = y
    abi = abi
    e1 = e1
    e2 = e2
    e3 = e3
    g1 = g1
    g2 = g2
    h1 = h1
    arr = arr
    garr = garr
    harr = harr
    Cells <- MCCells
    Payload <- MCPayload
    Sites <- OverlapSites
    Globals = {garr, harr}
    Scalars = {lo, hi, x, y}
    Abi = abi
    CellBase = 2
    BufferCells = 2
    Plans = {TRUE, FALSE}
PROPERTIES
    ImplementsAtomicAccess
