CONSTANTS
    MaxMsgs = 1
    Kind <- MCTaskKinds
SPECIFICATION FairSpec
PROPERTIES
    ShutdownCompletes
