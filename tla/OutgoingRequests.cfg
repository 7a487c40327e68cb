SPECIFICATION FairRequestsSpec
CONSTANTS
    Caller = {c1, c2}
    MaxResponses = 3
INVARIANTS
    OnlyUnexpectedRaises
    OwnResponse
PROPERTIES
    AnswerEndsCall
CHECK_DEADLOCK FALSE
