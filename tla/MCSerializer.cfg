CONSTANTS
    Base = 2
    MaxTlvs = 3
    Cmdus <- MCCmdus

SPECIFICATION Spec

INVARIANTS
    TypeOK
    WritesInBounds
    PacketHoldsTheCmdu

CHECK_DEADLOCK FALSE
