CONSTANTS
    Req = {r1, r2}
    MaxTokens = 4
SPECIFICATION FairSpec
INVARIANTS
    TypeOK
    OneRefresh
    NoLostWakeup
    AccountOfToken
PROPERTIES
    NoBlindRetry
    RequestsEnd
CHECK_DEADLOCK FALSE
