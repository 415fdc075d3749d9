SPECIFICATION Spec
CONSTANTS
    SubprocessCnt = 2
    UINT32_MAX = 6
    NULL = NULL
    CommandLines <- TopOfStack
    Quanta <- MCQuanta
    Inputs <- MCInputs
PROPERTY SPStaysInMemory
