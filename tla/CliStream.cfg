SPECIFICATION FairSpec
CONSTANTS
    Capacity = 1
    PipeSize = 1
    MaxLines = 2
    MaxTotal = 3
INVARIANTS
    DoneIsLast
    StderrComplete
PROPERTY ClosedStreamEnds
