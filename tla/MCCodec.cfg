CONSTANTS
    Base = 2
    MaxTlvs = 3
    MaxPadding = 4
    MaxRxSize = 30
    Cmdus <- MCCmdus
    Paddings <- MCPaddings
    RxSizes <- MCRxSizes

SPECIFICATION Spec

INVARIANTS
    TypeOK
    ReceivesWhatWasSent
    ThrowsOnlyIfCut

PROPERTIES
    Transfers

CHECK_DEADLOCK FALSE
