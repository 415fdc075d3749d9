SPECIFICATION FairSpec
CONSTANTS
    BufferSize = 4
    LineLimit = 3
    Files <- MCFiles
INVARIANTS
    TypeOK
    BufferIsWindow
    WordsInOrder
    EndsAreTold
    LinesInOrder
    LinesFit
PROPERTY LoopsEnd
