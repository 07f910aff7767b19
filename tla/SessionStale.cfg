SPECIFICATION Spec
CONSTANTS
    Payloads = {p1}
    Configs <- Plain
    Inbound <- Stale
    MaxSender = 5
    MaxTarget = 3
    WritesFail = TRUE
    MidSessionReset = FALSE
    OperatorSets = {}
CHECK_DEADLOCK FALSE
PROPERTY FreshConnectionAwaitsLogon
