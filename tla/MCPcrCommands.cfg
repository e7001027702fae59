CONSTANTS
    MaxCalls = 3
    DigestSizes = {20, 48, 64}
    BufferSizes = {20, 48}
    Damage = {1, 4, 20}
SPECIFICATION Spec
INVARIANTS
    TypeOK
    ExtendsInOrder
    ReadIsCurrent
    ReadNeverLeaks
    StartupKnown
    AllocateAllOrNothing
