SPECIFICATION Spec
CONSTANTS
    None = None
    main = main
    f = f
    g = g
    m1 = m1
    m2 = m2
    f1 = f1
    g1 = g1
    c = c
    v = v
    a = a
    b = b
    FunctionIds <- MCFunctionIds
    ContinuationIds <- MCContinuationIds
    GlobalIds <- MCGlobalIds
    AggregateIds <- MCAggregateIds
    Programs <- MCPrograms
    ArgumentLists <- MCArgumentLists
    MaxSize = 2
    MaxArrayCells = 2
    MaxAggregateCells = 2
    MaxByte = 2
    MaxOffset = 2
    MaxDepth = 3
INVARIANTS
    TypeOK NoFault CallersReady DeclaredShape
CHECK_DEADLOCK FALSE
