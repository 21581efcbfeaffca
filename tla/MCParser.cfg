CONSTANTS
    Symbols = {"sp", "tab", ":", ",", "#", "cr", "a"}
    MaxText = 7
    MaxLine = 10
    MaxPassword = 5
    MaxName = 4
SPECIFICATION Spec
INVARIANTS KickInBounds RelayedVerbatim PasswordReachesServer
CHECK_DEADLOCK FALSE
