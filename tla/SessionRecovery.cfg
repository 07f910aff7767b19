SPECIFICATION Spec
CONSTANTS
    Payloads = {p1}
    Configs <- Gapped
    Inbound <- Recovery
    MaxSender = 3
    MaxTarget = 5
    WritesFail = FALSE
    MidSessionReset = FALSE
    OperatorSets = {}
CHECK_DEADLOCK FALSE
INVARIANT SuppressionJustified
INVARIANT StashAhead
PROPERTY ReplayCompletes
PROPERTY StashedAppDelivered
