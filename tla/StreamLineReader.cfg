CONSTANTS
    Char = {x, y, nl}
    Newline = nl
    ChunkSize = 3
    MaxBytes = 5
SPECIFICATION FairSpec
PROPERTIES
    ImplementsLineStream
    LinesReturned
CHECK_DEADLOCK FALSE
