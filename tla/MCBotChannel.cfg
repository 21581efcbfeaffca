CONSTANTS
    Symbols = {"sp", "tab", ":", ",", "#", "cr", "a"}
    MaxText = 6
    MaxLine = 10
    MaxPassword = 5
    MaxName = 4
SPECIFICATION Spec
INVARIANT BotChannelJoined
CHECK_DEADLOCK FALSE
