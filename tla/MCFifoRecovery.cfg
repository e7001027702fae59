CONSTANTS
    Localities = {0}
    OtherLocality = 4
    HeaderSize = 2
    BufSize = 5
    CmdSizes = {2, 4}
    RspSizes = {2, 3, 5}
    Radix = 2
    MaxCalls = 2
SPECIFICATION CalmSpec
PROPERTIES
    NextXferRecovers
