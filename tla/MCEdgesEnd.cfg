SPECIFICATION Spec
CONSTANTS
    SubprocessCnt = 2
    UINT32_MAX = 6
    NULL = NULL
    CommandLines <- PastEnd
    Quanta <- MCQuanta
    Inputs <- MCInputs
INVARIANT LoadOfLongImageFails
