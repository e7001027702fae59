CONSTANTS
    Localities = {0, 1}
    OtherLocality = 4
    HeaderSize = 2
    BufSize = 6
    CmdSizes = {2, 4}
    RspSizes = {1, 2, 4, 6, 7}
    Radix = 2
    MaxCalls = 2
SPECIFICATION Spec
INVARIANTS
    TypeOK
    AtMostOnce
    SuccessMeansAnswered
    HeldWhileOpen
    ClosedMeansReleased
PROPERTIES
    RefinesCommandChannel
