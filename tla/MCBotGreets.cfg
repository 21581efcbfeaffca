CONSTANTS
    Users = {"al", "bo"}
    Server = "server"
    BotNick = "ft_bot"
    ChatMarks = {{"JOIN"}}
    ToServerCap = 1
    ToBotCap = 2
    MaxEvents = 1
SPECIFICATION Spec
INVARIANT GreetsJoinersOnly
CHECK_DEADLOCK FALSE
