CONSTANTS
    Commands <- MCCommands
    TPM_HEADER_SIZE = 10
    MAX_SIZE_CMDBUF = 256
SPECIFICATION Spec
INVARIANTS
    TypeOK
    InBounds
    SentMeansUnderstood
    RefusedOnlyIfTooLong
