CONSTANTS
    Base = 256
    RxSize = 20
    MaxInFlight = 2
    MaxCalls = 2
    MaxFailures = 2
    MacAddress <- MCMacAddress
    Foreign <- MCForeign
    Paddings <- MCPaddings

SPECIFICATION Spec

INVARIANTS
    TypeOK
    NoStaleBytes
    DiscoveryAsSent

PROPERTIES
    KeepsReceiving
    ServesMessages
