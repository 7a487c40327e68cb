CONSTANTS
    Word = {"w"}
    MaxLines = 3
    MaxTitle = 2
SPECIFICATION Spec
INVARIANTS
    IdsListed
    TitlesListed
CHECK_DEADLOCK FALSE
