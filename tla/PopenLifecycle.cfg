CONSTANTS
    t1 = t1
    t2 = t2
    Threads <- TwoThreads
    ExitCodes <- SomeCodes
    Worlds <- TwoWorlds
SPECIFICATION FairSpec
CHECK_DEADLOCK FALSE
INVARIANT TypeOK
INVARIANT StatusIsTrue
INVARIANT StrayOnlyWhenRaced
INVARIANT NothingLeftBehind
PROPERTY StatusIsFinal
PROPERTY ImplementsStatus
PROPERTY DeadlineKept
PROPERTY CallsReturn
