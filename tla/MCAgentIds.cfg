CONSTANTS
    Base = 4
    RxSize = 20
    MaxInFlight = 0
    MaxCalls = 18
    MaxFailures = 2
    MacAddress <- MCMacAddress
    Foreign = {}
    Paddings <- MCPaddings

SPECIFICATION Spec

INVARIANTS
    IdsReusedLast
