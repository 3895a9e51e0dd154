CONSTANTS
    Settings <- LeftoverTooMuchOnly
SPECIFICATION FairCommSpec
CHECK_DEADLOCK FALSE
PROPERTY CommunicateReturns
