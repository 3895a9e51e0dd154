CONSTANTS
    t1 = t1
    t2 = t2
    t3 = t3
    handler = handler
    Default = Default
    Ignore = Ignore
    Threads <- SomeThreads
    Dispositions <- AllDispositions
    MayOverlap = TRUE
SPECIFICATION Spec
CHECK_DEADLOCK FALSE
INVARIANT ProcessSurvives
