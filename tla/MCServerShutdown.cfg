CONSTANTS
    f1 = f1
    f2 = f2
    f3 = f3
    c1 = c1
    i1 = i1
    i2 = i2
    Ips = {i1}
    NoNick = "-"
    Nicks = {"al", "bo"}
    Fold <- MCFold
    MaxSendBuffer = 1
    MaxFailedPass = 1
    Fds = {f1}
    Keys = {}
    NoKey = "nokey"
    Topics = {}
    NoTopic = "notopic"
    ChanNames = {c1}
    LimitArgs = {}
    IntModulus = 8
    LongMax = 31
    TextFits = {TRUE}
    Verbs = {"PING"}
    MaxTotal = 2
    MaxPerIp = 1
    Listener = Listener
    Signals = TRUE
SPECIFICATION LoopFairSpec
PROPERTIES ShutdownTerminates
