CONSTANTS
    Base = 4
    LenBytes = 2
    MaxPayload = 2
    ReadMax = 3
    Wires <- MCWires
    OwnAck <- MCOwnAck
    OtherJson <- MCOtherJson
SPECIFICATION FairSpec
INVARIANTS
    FrameTypeOK
    CutsDoNotMatter
    BufferBounded
    AnswerUnderstood
PROPERTIES
    ReaderEnds
CHECK_DEADLOCK FALSE
