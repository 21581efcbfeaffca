CONSTANTS
    f1 = f1
    f2 = f2
    f3 = f3
    c1 = c1
    c2 = c2
    al = al
    AL = AL
    bo = bo
    cy = cy
    Ips = {"ip"}
    NoNick = "-"
    Nicks = {al, bo}
    Fold <- MCFold
    MaxSendBuffer = 1
    MaxFailedPass = 1
    Fds = {f1, f2}
    Keys = {}
    NoKey = "nokey"
    Topics = {}
    NoTopic = "notopic"
    ChanNames = {c1}
    LimitArgs = {}
    IntModulus = 8
    LongMax = 31
    TextFits = {TRUE}
    Verbs = {"PASS", "NICK", "USER", "JOIN", "JOIN0", "KICK"}
    MaxTotal = 3
    MaxPerIp = 2
SPECIFICATION Spec
SYMMETRY MCSymmetry
INVARIANTS EmptyChannelDestroyed
