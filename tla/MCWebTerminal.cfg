SPECIFICATION Spec
CONSTANTS
    Limit = 2
    SliceAt = 1
    Ids = 5
    MaxLines = 3
    Windows <- MCWindows
    CellWidth = 4
    CellHeight = 8
INVARIANTS
    TypeOK
    ParsedInOrder
    TimerRuns
    ArrowsStayInHistory
    SizeFits
PROPERTIES
    EveryChunkParsed
    Reconnects
