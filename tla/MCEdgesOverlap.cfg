SPECIFICATION Spec
CONSTANTS
    SubprocessCnt = 2
    UINT32_MAX = 6
    NULL = NULL
    CommandLines <- Overlapping
    Quanta <- MCQuanta
    Inputs <- MCInputs
INVARIANT ImagesDisjoint
