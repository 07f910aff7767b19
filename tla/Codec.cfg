CONSTANTS
    Fields <- MCFields
    Data <- MCData
    Templates <- MCTemplates
    GroupInstances <- MCInstances
    Hops <- MCHops
    MaxHops = 2
    MaxOps = 5
    Modulus = 1000003
    Transport <- MCTransport
    App <- MCApp
    Type = "E"
    Half = 8
    Samples <- MCSamples
    Settings <- MCSettings
SPECIFICATION CodecSpec
INVARIANTS
    WireReadBack GroupsKept SentIsAccepted TypedReadBack DeliveredWhole DefinitionComplete
PROPERTY Resyncs
CHECK_DEADLOCK FALSE
