CONSTANTS
    Byte <- MCByte
    Raw <- MCRaw
    Sync = FALSE
    Faults = {"crash"}
    Ops = {"save", "numbers", "reset", "refresh"}
    MaxSeq = 3
    MaxBody = 5
SPECIFICATION FilesSpec
INVARIANTS
    ResendIntact NumbersSurvive 
    MemoryKept LogKept AsConfigured
PROPERTY ImplementsTrait
CHECK_DEADLOCK FALSE
