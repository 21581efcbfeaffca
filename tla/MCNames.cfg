CONSTANTS
    f1 = f1
    f2 = f2
    f3 = f3
    c1 = c1
    c2 = c2
    al = al
    bo = bo
    cy = cy
    Ips = {"ip"}
    NoNick = "-"
    Nicks = {al, bo, cy}
    Fold <- MCFold
    FirstNick <- MCFirstNick
    NamesFit = 2
    MaxSendBuffer = 1
    MaxFailedPass = 1
    Fds = {f1, f2, f3}
    Keys = {}
    NoKey = "nokey"
    Topics = {}
    NoTopic = "notopic"
    ChanNames = {c1}
    LimitArgs = {}
    IntModulus = 8
    LongMax = 31
    TextFits = {TRUE}
    Verbs = {"NICK", "JOIN", "JOIN0", "KICK"}
    MaxTotal = 0
    MaxPerIp = 3
SPECIFICATION RosterSpec
SYMMETRY MCSymmetry
PROPERTY JoinerLearnsMembers
CHECK_DEADLOCK FALSE
