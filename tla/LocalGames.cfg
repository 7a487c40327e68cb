SPECIFICATION FairSpec
CONSTANTS
    App = {a, b}
    Third = {t}
    MaxChanges = 2
INVARIANTS
    FlagsAreScans
    NoChangeUnreported
    InstalledIsFile
    ManifestsAreDisk
PROPERTIES
    RunningChecked
CHECK_DEADLOCK FALSE
