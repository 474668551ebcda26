CONSTANTS
    Base = 256
    MaxCalls = 2
    WscMessagingTlv = 17
    Attributes <- WscAttributes
    Values <- MCValues
    Foreign = {}

SPECIFICATION Spec

INVARIANTS
    ReadsWhatWasAdded

CHECK_DEADLOCK FALSE
