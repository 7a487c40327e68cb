SPECIFICATION FairSpec
CONSTANTS
    epic = epic
    foo = foo
    foo2 = foo2
    launcher = launcher
    pFoo = pFoo
    pFoo2 = pFoo2
    Game = {g1, g2}
    Wanted = g1
    Launcher = Launcher
    Dir <- MCDir
    LauncherDir = epic
    Proc <- MCProc
    In <- MCIn
    Nowhere = Nowhere
    Period = 2
    MaxMoves = 1
PROPERTIES
    RunningIsCurrent
    GameNoticed
