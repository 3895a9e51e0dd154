CONSTANTS
    Trees <- SomeTrees
    Cases <- DefaultedCases
    Files <- SomeFiles
    Letters <- SomeLetters
    Lower <- Lowered
SPECIFICATION Spec
CHECK_DEADLOCK FALSE
INVARIANT ComplaintIsTrue
