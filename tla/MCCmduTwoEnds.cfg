CONSTANTS
    Base = 3
    Types = {0, 1, 2}
    MaxCalls = 4
    Values <- MCValues

SPECIFICATION Spec

INVARIANTS
    EndOfMessageMustBeLast

CHECK_DEADLOCK FALSE
