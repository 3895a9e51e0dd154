CONSTANTS
    Trees <- SomeTrees
    Cases <- SomeCases
    Files <- SomeFiles
    Letters <- SomeLetters
    Lower <- Lowered
SPECIFICATION DataSpec
CHECK_DEADLOCK FALSE
INVARIANT TokensAddUp
INVARIANT HelpIsAnswered
INVARIANT ExclusiveIsAlone
INVARIANT HelpAgrees
PROPERTY LeftBehindTakesNoMore
INVARIANT TextSurvives
INVARIANT BytesSurvive
INVARIANT TextIsKept
INVARIANT SaysWhatIsMeant
