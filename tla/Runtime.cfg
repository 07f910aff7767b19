CONSTANTS
    Conn = {1, 2, 3, 4}
    IsInitiator = TRUE
    UseTls = TRUE
    CmdCapacity = 2
SPECIFICATION RuntimeSpec
INVARIANTS NeverRefused EngineStarts
PROPERTIES ConnectionsEnd EveryStopReturns  EngineEnds
CHECK_DEADLOCK FALSE
