SPECIFICATION Spec
CONSTANTS
    Payloads = {}
    Pairs <- MCPairs
    AppType = "App"
    MaxEnds = 2
    MaxBeats = 1
    MaxConnects = 3
INVARIANTS NothingSkipped NothingInvented NeverRefused NobodyWaits
PROPERTY Recovers
CHECK_DEADLOCK FALSE
