CONSTANTS
    Task = {t1, t2, t3}
    Waiter = {w1, w2}
SPECIFICATION FairSpec
INVARIANTS RegistryExact
PROPERTIES WaitReturnsOnlyWhenQuiet WaitReturns
