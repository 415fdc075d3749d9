SPECIFICATION FairSpec
CONSTANTS
    SubprocessCnt = 3
    UINT32_MAX = 15
    NULL = NULL
    Rounds = 2
    CommandLines <- MCCommandLines
    Quanta <- MCQuanta
    Inputs <- MCInputs
INVARIANTS
    MutualExclusion
    NoLostUpdate
PROPERTIES
    LockIsObtained
