SPECIFICATION Spec
CONSTANTS
    Payloads = {p1}
    Configs <- Variant
    Inbound <- Checks
    MaxSender = 3
    MaxTarget = 3
    WritesFail = FALSE
    MidSessionReset = FALSE
    OperatorSets = {}
CHECK_DEADLOCK FALSE
INVARIANT DisconnectedIsClean
