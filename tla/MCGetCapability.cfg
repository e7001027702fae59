CONSTANTS
    Ids = {0, 1, 2, 3, 4}
    TPM_ALG_NULL = 2
    TPM_PCR_SELECT_SIZE = 2
    TPM_DEFAULT_PAGE_COUNT = 2
    TPM_MAX_PAGES = 3
    TPM_MAX_ALG_PROPERTIES = 3
    TPM_MAX_PCR_SELECTIONS = 3
    MAX_CMD_DATA = 246
    Tables <- MCTables
    MaskValues <- MCMaskValues
    QueryArrays <- MCQueryArrays
    MaxDamaged = 2
    Missing = {0, 1, 5, 12}
SPECIFICATION Spec
INVARIANTS
    TypeOK
    QueryExact
    NothingInvented
    AlgPropsExact
    EachVisitedOnce
    LimitMeansManyPages
    SoundAnswersAccepted
