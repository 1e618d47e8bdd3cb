CONSTANTS
    Base = 4
    LenBytes = 2
    MaxPayload = 2
    ReadMax = 3
    Wires <- MCWires
    OwnAck <- MCOwnAck
    OtherJson <- MCOtherJson
SPECIFICATION Spec
INVARIANTS
    ExtraBytesMalformed
CHECK_DEADLOCK FALSE
