CONSTANTS
    MaxMsgs = 3
    Kind <- MCTaskKinds
SPECIFICATION FairSpec
PROPERTIES
    ExternalManagerImplemented
    RequestsAnswered
    ShutdownCompletesUnlessDropped
