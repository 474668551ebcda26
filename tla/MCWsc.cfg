CONSTANTS
    Base = 4
    MaxCalls = 3
    MaxForeign = 3
    WscMessagingTlv = 2
    Attributes <- MCAttributes
    Values <- MCValues
    Foreign <- MCForeign

SPECIFICATION Spec

INVARIANTS
    TypeOK
    ReadsWhatWasAdded
    OwnMessagesAreRead
    ReadsWhatTheBytesHold

CHECK_DEADLOCK FALSE
