CONSTANTS
    Base = 6
    Types = {0, 1, 2, 3, 5}
    Lengths = {0, 1, 11, 12, 35, 36}
    MaxCalls = 3

SPECIFICATION Spec

INVARIANTS
    TypeOK
    HeadersCanBePacked
    SizeIsThatOfTheBytes

CHECK_DEADLOCK FALSE
