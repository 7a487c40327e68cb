CONSTANTS
    Char = {x, nl}
    Newline = nl
    ChunkSize = 3
    MaxBytes = 3
SPECIFICATION Spec
INVARIANTS
    StopsOnlyAtEnd
CHECK_DEADLOCK FALSE
