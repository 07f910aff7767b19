SPECIFICATION Spec
CONSTANTS
    Payloads = {p1}
    Configs <- Plain
    Inbound <- Dialogue
    MaxSender = 3
    MaxTarget = 3
    WritesFail = FALSE
    MidSessionReset = TRUE
    OperatorSets = {}
CHECK_DEADLOCK FALSE
INVARIANT SuppressionJustified
