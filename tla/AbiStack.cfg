SPECIFICATION Spec
CONSTANTS
    mainFn = mainFn
    aggFn = aggFn
    cellFn = cellFn
    glob = glob
    Functions <- MCFunctions
    Main = mainFn
    Conts <- MCConts
    Owner <- MCOwner
    Entry <- MCEntry
    Lanes <- MCLanes
    BodyChunks <- MCBodyChunks
    Storage <- MCStorage
    Params <- MCParams
    Result <- MCResult
    ResultCells <- MCResultCells
    OutboxCells <- MCOutboxCells
    Outbox <- MCOutbox
    Globals <- MCGlobals
    CellBase = 2
    Group = 2
    Capacity = 9
INVARIANTS
    FlagLane NavigationReturns FreeTapeZero FramesTile CodeMatchesFrame SuspendedFramesWait
PROPERTIES
    ImplementsVM
