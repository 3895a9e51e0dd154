CONSTANTS
    Settings <- EndlessOnly
SPECIFICATION FairCommSpec
PROPERTY CommunicateReturns
