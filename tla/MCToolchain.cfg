SPECIFICATION FairSpec
CONSTANTS
    SubprocessCnt = 2
    MAX_JUMP = 8
    UINT32_MAX = 63
    NULL = NULL
    Sessions <- MCSessions
    Quanta <- MCQuanta
INVARIANTS
    OnlySoundSessionsRun
PROPERTIES
    RunsLikeSource
    SoundSessionsComplete
