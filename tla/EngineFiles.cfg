CONSTANTS
    Conn = {1}
    IsInitiator = TRUE
    UseTls = TRUE
    CmdCapacity = 1
SPECIFICATION RuntimeSpec
INVARIANT FilesDisjoint
CHECK_DEADLOCK FALSE
