CONSTANTS
    Localities = {0}
    OtherLocality = 4
    HeaderSize = 2
    BufSize = 6
    CmdSizes = {2}
    RspSizes = {2, 6}
    Radix = 4
    MaxCalls = 1
SPECIFICATION Spec
INVARIANTS
    StoresInBounds
