SPECIFICATION Spec
CONSTANTS
    Payloads = {p1}
    Configs <- Plain
    Inbound <- TradeCapture
    MaxSender = 3
    MaxTarget = 3
    WritesFail = FALSE
    MidSessionReset = FALSE
    OperatorSets = {}
CHECK_DEADLOCK FALSE
PROPERTY StashedAppDelivered
