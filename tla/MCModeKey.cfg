CONSTANTS
    f1 = f1
    f2 = f2
    Fds = {f1, f2}
    Members = {f1, f2}
    Issuer = f1
    Nick <- MCNick
    Nicks <- MCNicks
    NoNick = "-"
    Fold <- MCFold
    Ips = {"ip"}
    MaxSendBuffer = 1
    MaxFailedPass = 1
    Keys = {"k", ":k"}
    ColonKeys = {":k"}
    NoKey = ""
    Topics = {}
    NoTopic = "notopic"
    LimitArgs = {1, 5, 10}
    IntModulus = 8
    LongMax = 31
    TextFits = {TRUE, FALSE}
    MaxLetters = 2
SPECIFICATION Spec
INVARIANT PeersFollow
CHECK_DEADLOCK FALSE
