CONSTANTS
    MaxMsgs = 3
    Kind <- MCEveryKind
SPECIFICATION Spec
INVARIANTS
    TypeOK
    NothingReadAfterShutdown
    ClosedMeansQuiet
    ClosedMeansAnswered
    OneAnswer
    ImportFlagExact
PROPERTIES
    NoNewWorkAfterClose
    ShutdownAnsweredLast
