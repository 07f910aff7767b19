SPECIFICATION Spec
CONSTANTS
    Payloads = {p1}
    Configs <- Plain
    Inbound <- Dialogue
    MaxSender = 3
    MaxTarget = 3
    WritesFail = TRUE
    MidSessionReset = TRUE
    OperatorSets = {2}
CHECK_DEADLOCK FALSE
INVARIANT TypeOK
INVARIANT AppViewAccurate
INVARIANT DeliveredInOrder
INVARIANT ReplayTiles
