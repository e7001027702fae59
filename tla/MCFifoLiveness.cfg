CONSTANTS
    Localities = {0}
    OtherLocality = 4
    HeaderSize = 1
    BufSize = 4
    CmdSizes = {1, 3}
    RspSizes = {0, 1, 3, 5}
    Radix = 2
    MaxCalls = 1
SPECIFICATION FairSpec
PROPERTIES
    CallReturns
