CONSTANTS
    Users = {"al", "bo"}
    Server = "server"
    BotNick = "ft_bot"
    ChatMarks = {{"001"}, {"433"}, {"JOIN"}}
    ToServerCap = 1
    ToBotCap = 2
    MaxEvents = 4
SPECIFICATION Spec
INVARIANTS GreetingsEarned FailsForTheReasonGiven
PROPERTIES HandshakeEnds EveryJoinGreeted
CHECK_DEADLOCK FALSE
