CONSTANTS
    MaxAttempts = 2
    ShellSettings = {TRUE, FALSE}
    DetachSettings = {TRUE, FALSE}
    SigchldIgnored = FALSE
    CloseFds <- AlwaysClosed
    Kinds <- EveryKind
    PipeSize = 1
    MaxOutput = 2
    MaxInput = 2
    Heirs <- GrandchildHas
SPECIFICATION BothSpec
CHECK_DEADLOCK FALSE
INVARIANT WinNothingElseInherited
