SPECIFICATION FairSpec
CONSTANTS
    SubprocessCnt = 3
    UINT32_MAX = 6
    NULL = NULL
    CommandLines <- MCCommandLines
    Quanta <- MCQuanta
    Inputs <- MCInputs
INVARIANTS
    TypeOK
    ImagesLoaded
    BudgetKept
    FairShare
PROPERTIES
    ExitIsFinal
    ExitCodeIsOwn
    SchedulesRoundRobin
    Termination
    NoStarvation
