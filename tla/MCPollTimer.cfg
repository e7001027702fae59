CONSTANTS
    NsPerUs = 3
    UsPerSec = 4
    Timeouts = {0, 1, 3, 5}
    MaxStart = 13
    MaxTime = 32
SPECIFICATION FairSpec
INVARIANTS
    TypeOK
    TimeoutNotEarly
    OneLatePoll
PROPERTIES
    WaitReturns
