CONSTANTS
    Req = {r1, r2, r3}
    Id = {i1, i2}
    Collection = TRUE
    MaxYields = 1
SPECIFICATION FairSpec
INVARIANTS
    OneImport
    FinishedMeansReported
    StragglersOnlyWhenClosed
PROPERTIES
    SilentAfterFinished
    ImplementsSession
    ImportsFinish
CHECK_DEADLOCK FALSE
