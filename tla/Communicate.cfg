CONSTANTS
    Settings <- OrdinaryCalls
SPECIFICATION FairCommSpec
INVARIANT NothingLost
INVARIANT EndOfInputIsTrue
INVARIANT NotLeftBehind
PROPERTY CommunicateReturns
