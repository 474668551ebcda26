CONSTANTS
    Base = 256
    Cmdus = {}
    MaxCalls = 2
    MaxTlvs = 3
    WscMessagingTlv = 17
    Attributes <- MCAttributes
    Values <- MCValues
    WscHeader <- MCWscHeader
    OtherTlvs <- MCOtherTlvs
    Paddings <- MCPaddings
    RxSizes <- MCRxSizes

SPECIFICATION WscSpec

INVARIANTS
    AttributesArrive
    WscIsFound

CHECK_DEADLOCK FALSE
