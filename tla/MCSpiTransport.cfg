CONSTANTS
    Registers <- MCRegisters
    ChunkLengths <- MCChunkLengths
    XferErrors <- MCXferErrors
    RETRY_COUNT = 3
    ENCODE_LIMIT = 64
SPECIFICATION FairSpec
INVARIANTS
    TypeOK
    BusDiscipline
    TimeoutUsesWholeBudget
    LastErrorExplains
PROPERTIES
    RefinesRegisterAccess
    AccessReturns
